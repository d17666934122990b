------------------------------ MODULE Accounts ------------------------------
(***************************************************************************)
(* The user center in C++ (services/UserServiceImpl.cc and                 *)
(* controllers/UserController.cc): registration, login, the sessions that  *)
(* a server keeps in memory, and the deletion of users by administrators.  *)
(*                                                                         *)
(* A server process has one thread (config.json) and handles one request   *)
(* at a time; the servers share one database.  An action is the code up to *)
(* and including one SQL statement.  Names, passwords and planet codes are *)
(* members of sets that pass the checks of their form.                     *)
(***************************************************************************)
EXTENDS Integers, FiniteSets

CONSTANTS
  Servers, Clients,
  Names,        \* of accounts
  Planets,      \* planet codes
  Passwords,
  MaxId,        \* bound: rows ever inserted
  Faults,       \* TRUE: servers crash, statements fail
  None          \* model value: no session, no request

ASSUME BoundAssumption == MaxId \in Nat \ {0}
ASSUME SwitchAssumption == Faults \in BOOLEAN

VARIABLES
  users,        \* the rows of table user
  lastId,       \* its AUTO_INCREMENT
  session,      \* USER_LOGIN_STATE of each client in each server
  pc, req,      \* how far the registration of each server is, and its fields
  mine,         \* the id it has inserted, 0 if none
  accepted,     \* history: ids of registrations that were answered
  overlapped    \* history: names in two registrations at one time

vars == <<users, lastId, session, pc, req, mine, accepted, overlapped>>
handling == <<pc, req, mine, accepted, overlapped>>

Fields == [account : Names, planet : Planets, password : Passwords]
Ids == 1 .. MaxId
Row == [id : Ids, fields : Fields, userRole : {"user", "admin"}]
ASSUME NoneAssumption == None \notin Fields /\ None \notin Row

AccountRows(a) == {u \in users : u.fields.account = a}
PlanetRows(p) == {u \in users : u.fields.planet = p}

TypeOK ==
  /\ users \subseteq Row
  /\ \A u, v \in users : u.id = v.id => u = v
  /\ lastId \in Ids
  /\ session \in [Servers \X Clients -> Row \cup {None}]
  /\ pc \in [Servers -> {"idle", "account", "planet", "insert", "recount"}]
  /\ req \in [Servers -> Fields \cup {None}]
  /\ mine \in [Servers -> Ids \cup {0}]
  /\ accepted \subseteq Ids
  /\ overlapped \subseteq Names
  /\ \A s \in Servers : pc[s] # "idle" => req[s] # None

(* one user, made an administrator by hand *)
Init ==
  /\ \E f \in Fields : users = {[id |-> 1, fields |-> f, userRole |-> "admin"]}
  /\ lastId = 1
  /\ session = [k \in Servers \X Clients |-> None]
  /\ pc = [s \in Servers |-> "idle"]
  /\ req = [s \in Servers |-> None]
  /\ mine = [s \in Servers |-> 0]
  /\ accepted = {1}
  /\ overlapped = {}

-----------------------------------------------------------------------------
Goto(s, label) == pc' = [pc EXCEPT ![s] = label] /\ UNCHANGED <<req, mine>>

Leave(s) ==
  /\ pc' = [pc EXCEPT ![s] = "idle"]
  /\ req' = [req EXCEPT ![s] = None]
  /\ mine' = [mine EXCEPT ![s] = 0]

Registering(a) == {s \in Servers : pc[s] # "idle" /\ req[s].account = a}

(* userRegister: the form of the fields is checked first *)
Register(s, f) ==
  /\ pc[s] = "idle"
  /\ pc' = [pc EXCEPT ![s] = "account"]
  /\ req' = [req EXCEPT ![s] = f]
  /\ overlapped' = overlapped \cup
                     (IF Registering(f.account) # {} THEN {f.account} ELSE {})
  /\ UNCHANGED <<users, lastId, session, mine, accepted>>

(* mutated: the account of another planet is not seen *)
CheckAccountOfPlanet(s) ==
  /\ pc[s] = "account"
  /\ IF AccountRows(req[s].account) \cap PlanetRows(req[s].planet) # {}
       THEN Leave(s) ELSE Goto(s, "planet")
  /\ UNCHANGED <<users, lastId, session, accepted, overlapped>>

CheckAccount(s) ==
  /\ pc[s] = "account"
  /\ IF AccountRows(req[s].account) # {} THEN Leave(s) ELSE Goto(s, "planet")
  /\ UNCHANGED <<users, lastId, session, accepted, overlapped>>

CheckPlanet(s) ==
  /\ pc[s] = "planet"
  /\ IF PlanetRows(req[s].planet) # {} THEN Leave(s) ELSE Goto(s, "insert")
  /\ UNCHANGED <<users, lastId, session, accepted, overlapped>>

(* mutated: the id of a row that was deleted *)
InsertReusesId(s) ==
  /\ pc[s] = "insert"
  /\ lastId < MaxId
  /\ LET id == Cardinality(users) + 1
     IN /\ users' = users \cup {[id |-> id, fields |-> req[s], userRole |-> "user"]}
        /\ mine' = [mine EXCEPT ![s] = id]
  /\ lastId' = lastId + 1
  /\ pc' = [pc EXCEPT ![s] = "recount"]
  /\ UNCHANGED <<session, req, accepted, overlapped>>

(* no index of the table refuses it; userRole is 0 by default *)
Insert(s) ==
  /\ pc[s] = "insert"
  /\ lastId < MaxId
  /\ LET id == lastId + 1
     IN /\ users' = users \cup {[id |-> id, fields |-> req[s], userRole |-> "user"]}
        /\ mine' = [mine EXCEPT ![s] = id]
        /\ lastId' = id
  /\ pc' = [pc EXCEPT ![s] = "recount"]
  /\ UNCHANGED <<session, req, accepted, overlapped>>

(* mutated: any number of rows will do *)
RecountAny(s) ==
  /\ pc[s] = "recount"
  /\ accepted' = accepted \cup {mine[s]}
  /\ Leave(s)
  /\ UNCHANGED <<users, lastId, session, overlapped>>

(* the rows of the planet code are counted again: a registration that is *)
(* refused here leaves its row                                           *)
Recount(s) ==
  /\ pc[s] = "recount"
  /\ accepted' = IF Cardinality(PlanetRows(req[s].planet)) = 1
                   THEN accepted \cup {mine[s]} ELSE accepted
  /\ Leave(s)
  /\ UNCHANGED <<users, lastId, session, overlapped>>

(* mutated: getSafetyUser leaves out the role *)
LoginWithoutRole(s, c, a, w) ==
  LET found == {u \in AccountRows(a) : u.fields.password = w}
  IN /\ pc[s] = "idle"
     /\ \E u \in found :
          /\ found = {u}
          /\ session' = [session EXCEPT ![<<s, c>>] =
                           [id |-> u.id, fields |-> u.fields]]
     /\ UNCHANGED <<users, lastId, handling>>

(* userLogin: findOne wants exactly one row *)
Login(s, c, a, w) ==
  LET found == {u \in AccountRows(a) : u.fields.password = w}
  IN /\ pc[s] = "idle"
     /\ \E u \in found :
          found = {u} /\ session' = [session EXCEPT ![<<s, c>>] = u]
     /\ UNCHANGED <<users, lastId, handling>>

Logout(s, c) ==
  /\ pc[s] = "idle"
  /\ session' = [session EXCEPT ![<<s, c>>] = None]
  /\ UNCHANGED <<users, lastId, handling>>

(* by what the session says, whatever became of the user since *)
isAdmin(s, c) == session[<<s, c>>] # None /\ session[<<s, c>>].userRole = "admin"

(* deleteUsers; an id without a row is refused *)
DeleteUser(s, c, u) ==
  /\ pc[s] = "idle"
  /\ isAdmin(s, c)
  /\ users' = users \ {u}
  /\ UNCHANGED <<lastId, session, handling>>

(* a statement fails *)
Fail(s) ==
  /\ Faults
  /\ pc[s] # "idle"
  /\ Leave(s)
  /\ UNCHANGED <<users, lastId, session, accepted, overlapped>>

(* the process dies and is restarted: its sessions are gone *)
Crash(s) ==
  /\ Faults
  /\ Leave(s)
  /\ session' = [k \in Servers \X Clients |-> IF k[1] = s THEN None ELSE session[k]]
  /\ UNCHANGED <<users, lastId, accepted, overlapped>>

RegisterStep(s) ==
  \/ \E f \in Fields : Register(s, f)
  \/ CheckAccount(s) \/ CheckPlanet(s) \/ Insert(s) \/ Recount(s)

ClientStep(s, c) ==
  \/ \E a \in Names, w \in Passwords : Login(s, c, a, w)
  \/ Logout(s, c)
  \/ \E u \in users : DeleteUser(s, c, u)

Next ==
  \E s \in Servers :
    \/ RegisterStep(s)
    \/ \E c \in Clients : ClientStep(s, c)
    \/ Fail(s) \/ Crash(s)

Spec == Init /\ [][Next]_vars

-----------------------------------------------------------------------------
(* Properties *)

(* Two registrations that check at the same time both insert their rows,   *)
(* but of the users a planet code has at most one was told that it is      *)
(* registered: the second count (userRegister, lines 91-95) refuses the    *)
(* others, also when rows are deleted in between.                          *)
AcceptedPlanetUnique ==
  \A u, v \in users :
    u.id \in accepted /\ v.id \in accepted /\ u.fields.planet = v.fields.planet
      => u = v

(* An account has one row unless two registrations of its name have run at *)
(* the same time, which the second count does not see: login then finds    *)
(* two rows and refuses both users if they share a password.               *)
AccountUniqueUnlessOverlapped ==
  \A u, v \in users :
    u.fields.account = v.fields.account => u = v \/ u.fields.account \in overlapped

(* A session belongs to one user for as long as he exists: no later user   *)
(* answers to its id.                                                      *)
SessionUser ==
  \A k \in Servers \X Clients : \A u \in users :
    session[k] # None /\ session[k].id = u.id => session[k] = u
=============================================================================
