--------------------------- MODULE AccountsProofs ---------------------------
(***************************************************************************)
(* The user center, for every number of servers, clients and accounts: the *)
(* uniqueness that the checks around the insert give without an index of   *)
(* the table, and whom a session stands for.                               *)
(***************************************************************************)
EXTENDS Accounts, FiniteSetTheorems, TLAPS

-----------------------------------------------------------------------------
(* Types *)

(* AUTO_INCREMENT is never behind an id that is in use or was answered *)
IdsBehind ==
  /\ \A u \in users : u.id <= lastId
  /\ \A k \in Servers \X Clients : session[k] # None => session[k].id <= lastId
  /\ \A s \in Servers : mine[s] <= lastId
  /\ \A n \in accepted : n <= lastId
  /\ \A s \in Servers : pc[s] = "recount" => mine[s] # 0
  /\ IsFiniteSet(users)

Typed == TypeOK /\ IdsBehind

LEMMA InitTyped == Init => Typed
<1>1. 1 \in Ids
  BY BoundAssumption DEF BoundAssumption, Ids
<1> SUFFICES ASSUME Init PROVE Typed
  OBVIOUS
<1>2. IsFiniteSet(users)
  BY FS_Singleton DEF Init
<1>3. PICK f \in Fields : users = {[id |-> 1, fields |-> f, userRole |-> "admin"]}
  BY DEF Init
<1>4. TypeOK
  BY <1>1, <1>3, NoneAssumption DEF Init, TypeOK, Row, NoneAssumption
<1>5. IdsBehind
  BY <1>1, <1>2, <1>3 DEF Init, IdsBehind
<1> QED
  BY <1>4, <1>5 DEF Typed

LEMMA NextTyped ==
  ASSUME Typed, [Next]_vars
  PROVE  Typed'
<1> USE BoundAssumption, NoneAssumption DEF BoundAssumption, NoneAssumption
<1>1. ASSUME NEW s \in Servers, NEW f \in Fields, Register(s, f) PROVE Typed'
  BY <1>1 DEF Typed, TypeOK, IdsBehind, Register, Fields
<1>2. ASSUME NEW s \in Servers, CheckAccount(s) PROVE Typed'
  BY <1>2 DEF Typed, TypeOK, IdsBehind, CheckAccount, Goto, Leave, Ids
<1>3. ASSUME NEW s \in Servers, CheckPlanet(s) PROVE Typed'
  BY <1>3 DEF Typed, TypeOK, IdsBehind, CheckPlanet, Goto, Leave, Ids
<1>4. ASSUME NEW s \in Servers, Insert(s) PROVE Typed'
  <2> DEFINE id == lastId + 1
             r == [id |-> id, fields |-> req[s], userRole |-> "user"]
  <2>1. id \in Ids /\ lastId < id /\ id # 0
    BY <1>4 DEF Insert, Typed, TypeOK, Ids
  <2>2. r \in Row
    BY <1>4, <2>1 DEF Insert, Typed, TypeOK, Row
  <2>3. /\ users' = users \cup {r} /\ mine' = [mine EXCEPT ![s] = id] /\ lastId' = id
        /\ pc' = [pc EXCEPT ![s] = "recount"]
        /\ UNCHANGED <<session, req, accepted, overlapped>>
    BY <1>4 DEF Insert
  <2>4. ASSUME NEW u \in users' , NEW v \in users', u.id = v.id PROVE u = v
    <3>1. \A x \in users : x.id # id
      BY <2>1 DEF Typed, IdsBehind, TypeOK, Row, Ids
    <3> QED
      BY <2>3, <2>4, <3>1 DEF Typed, TypeOK
  <2>5. TypeOK'
    <3>1. users' \subseteq Row /\ lastId' \in Ids /\ mine' \in [Servers -> Ids \cup {0}]
      BY <2>1, <2>2, <2>3 DEF Typed, TypeOK
    <3> QED
      BY <1>4, <2>3, <2>4, <3>1 DEF Insert, Typed, TypeOK
  <2>6. IdsBehind'
    <3>1. IsFiniteSet(users')
      BY <2>3, FS_AddElement DEF Typed, IdsBehind
    <3> QED
      BY <2>1, <2>3, <3>1 DEF Typed, TypeOK, IdsBehind, Row, Ids
  <2> QED
    BY <2>5, <2>6 DEF Typed
<1>5. ASSUME NEW s \in Servers, Recount(s) PROVE Typed'
  <2>1. mine[s] \in Ids /\ mine[s] <= lastId
    BY <1>5 DEF Recount, Typed, TypeOK, IdsBehind
  <2>2. accepted' \subseteq accepted \cup {mine[s]}
    BY <1>5 DEF Recount
  <2>3. TypeOK'
    BY <1>5, <2>1, <2>2 DEF Typed, TypeOK, Recount, Leave
  <2>4. IdsBehind'
    BY <1>5, <2>1, <2>2 DEF Typed, TypeOK, IdsBehind, Recount, Leave, Ids
  <2> QED
    BY <2>3, <2>4 DEF Typed
<1>6. ASSUME NEW s \in Servers, NEW c \in Clients, NEW a \in Names,
             NEW w \in Passwords, Login(s, c, a, w)
      PROVE  Typed'
  <2>1. PICK u \in users : session' = [session EXCEPT ![<<s, c>>] = u]
    BY <1>6 DEF Login, AccountRows
  <2>2. <<s, c>> \in Servers \X Clients
    OBVIOUS
  <2>3. TypeOK'
    BY <1>6, <2>1, <2>2 DEF Typed, TypeOK, Login, handling
  <2>4. \A k \in Servers \X Clients :
          session'[k] # None => session'[k].id <= lastId
    BY <2>1, <2>2 DEF Typed, TypeOK, IdsBehind
  <2> QED
    BY <1>6, <2>3, <2>4 DEF Typed, IdsBehind, Login, handling
<1>7. ASSUME NEW s \in Servers, NEW c \in Clients, Logout(s, c) PROVE Typed'
  <2>1. <<s, c>> \in Servers \X Clients
    OBVIOUS
  <2> QED
    BY <1>7, <2>1 DEF Typed, TypeOK, IdsBehind, Logout, handling
<1>8. ASSUME NEW s \in Servers, NEW c \in Clients, NEW u \in users, DeleteUser(s, c, u)
      PROVE  Typed'
  <2>1. users' \subseteq users
    BY <1>8 DEF DeleteUser
  <2>2. IsFiniteSet(users')
    BY <2>1, FS_Subset DEF Typed, IdsBehind
  <2> QED
    BY <1>8, <2>1, <2>2 DEF Typed, TypeOK, IdsBehind, DeleteUser, handling
<1>9. ASSUME NEW s \in Servers, Fail(s) PROVE Typed'
  BY <1>9 DEF Typed, TypeOK, IdsBehind, Fail, Leave, Ids
<1>10. ASSUME NEW s \in Servers, Crash(s) PROVE Typed'
  <2>1. session' \in [Servers \X Clients -> Row \cup {None}]
    BY <1>10 DEF Typed, TypeOK, Crash
  <2>2. \A k \in Servers \X Clients : session'[k] # None => session'[k] = session[k]
    BY <1>10 DEF Typed, TypeOK, Crash
  <2> QED
    BY <1>10, <2>1, <2>2 DEF Typed, TypeOK, IdsBehind, Crash, Leave, Ids
<1>11. CASE UNCHANGED vars
  BY <1>11 DEF Typed, TypeOK, IdsBehind, vars
<1> QED
  BY <1>1, <1>2, <1>3, <1>4, <1>5, <1>6, <1>7, <1>8, <1>9, <1>10, <1>11
     DEF Next, RegisterStep, ClientStep

(* Every variable keeps its type, and an id belongs to one row. *)
THEOREM TypeCorrect == Spec => []TypeOK
<1>1. Typed => TypeOK
  BY DEF Typed
<1> QED
  BY InitTyped, NextTyped, <1>1, PTL DEF Spec

-----------------------------------------------------------------------------
(* Sessions *)

(* A session belongs to one user for as long as he exists: ids are not     *)
(* used again (AUTO_INCREMENT), and nothing changes a row.                 *)
THEOREM SessionsStand == Spec => []SessionUser
<1>1. Init => SessionUser
  BY DEF Init, SessionUser
<1>2. Typed /\ Typed' /\ SessionUser /\ [Next]_vars => SessionUser'
  <2> SUFFICES ASSUME Typed, Typed', SessionUser, [Next]_vars,
                      NEW k \in Servers \X Clients, NEW u \in users',
                      session'[k] # None, session'[k].id = u.id
               PROVE  session'[k] = u
    BY DEF SessionUser
  <2>1. CASE UNCHANGED session
    <3>1. CASE u \in users
      BY <2>1, <3>1 DEF SessionUser
    <3>2. CASE u \notin users
      <4>1. PICK s \in Servers : Insert(s)
        BY <2>1, <3>2 DEF Next, RegisterStep, ClientStep, Register, CheckAccount,
           CheckPlanet, Recount, Login, Logout, DeleteUser, Fail, Crash, handling, vars
      <4>2. u.id = lastId + 1
        BY <3>2, <4>1 DEF Insert
      <4>3. session[k].id <= lastId /\ session[k] \in Row /\ lastId \in Ids
        BY <2>1 DEF Typed, TypeOK, IdsBehind
      <4> QED
        BY <2>1, <4>2, <4>3 DEF Row, Ids
    <3> QED
      BY <3>1, <3>2
  <2>2. ASSUME NEW s \in Servers, NEW c \in Clients, NEW a \in Names,
               NEW w \in Passwords, Login(s, c, a, w)
        PROVE  session'[k] = u
    <3>1. PICK v \in users : session' = [session EXCEPT ![<<s, c>>] = v]
      BY <2>2 DEF Login, AccountRows
    <3>2. users' = users
      BY <2>2 DEF Login
    <3>3. CASE k = <<s, c>>
      BY <3>1, <3>2, <3>3 DEF Typed, TypeOK
    <3>4. CASE k # <<s, c>>
      BY <3>1, <3>2, <3>4 DEF Typed, TypeOK, SessionUser
    <3> QED
      BY <3>3, <3>4
  <2>3. ASSUME NEW s \in Servers, NEW c \in Clients, Logout(s, c)
        PROVE  session'[k] = u
    BY <2>3 DEF Logout, Typed, TypeOK, SessionUser
  <2>4. ASSUME NEW s \in Servers, Crash(s)
        PROVE  session'[k] = u
    BY <2>4 DEF Crash, Typed, TypeOK, SessionUser
  <2> QED
    BY <2>1, <2>2, <2>3, <2>4 DEF Next, RegisterStep, ClientStep, Register,
       CheckAccount, CheckPlanet, Insert, Recount, DeleteUser, Fail, handling, vars
<1> QED
  BY InitTyped, NextTyped, <1>1, <1>2, PTL DEF Spec

-----------------------------------------------------------------------------
(* Planet codes *)

(* The row that a server counts again is still the one it has inserted. *)
RowStands ==
  \A s \in Servers : \A u \in users :
    pc[s] = "recount" /\ u.id = mine[s] => u.fields = req[s]

PlanetInv == RowStands /\ AcceptedPlanetUnique

(* Of the users of a planet code at most one was told that it is           *)
(* registered: the second count refuses the others.                        *)
THEOREM OneAcceptedForAPlanet == Spec => []AcceptedPlanetUnique
<1>1. Init => PlanetInv
  BY DEF Init, PlanetInv, RowStands, AcceptedPlanetUnique
<1>2. Typed /\ Typed' /\ PlanetInv /\ [Next]_vars => PlanetInv'
  <2> SUFFICES ASSUME Typed, Typed', PlanetInv, [Next]_vars PROVE PlanetInv'
    OBVIOUS
  <2> USE DEF PlanetInv, RowStands, AcceptedPlanetUnique
  <2>1. ASSUME NEW s \in Servers, NEW f \in Fields, Register(s, f) PROVE PlanetInv'
    BY <2>1 DEF Register, Typed, TypeOK
  <2>2. ASSUME NEW s \in Servers, CheckAccount(s) \/ CheckPlanet(s) \/ Fail(s)
        PROVE  PlanetInv'
    BY <2>2 DEF CheckAccount, CheckPlanet, Fail, Goto, Leave, Typed, TypeOK
  <2>3. ASSUME NEW s \in Servers, Insert(s) PROVE PlanetInv'
    <3> DEFINE r == [id |-> lastId + 1, fields |-> req[s], userRole |-> "user"]
    <3>1. /\ users' = users \cup {r} /\ mine' = [mine EXCEPT ![s] = lastId + 1]
          /\ pc' = [pc EXCEPT ![s] = "recount"] /\ UNCHANGED <<req, accepted>>
      BY <2>3 DEF Insert
    <3>2. lastId + 1 \notin accepted
      BY DEF Typed, TypeOK, IdsBehind, Ids
    <3>3. \A u \in users : u.id # lastId + 1
      BY DEF Typed, TypeOK, IdsBehind, Row, Ids
    <3>4. \A t \in Servers : mine[t] # lastId + 1
      BY DEF Typed, TypeOK, IdsBehind, Ids
    <3>5. RowStands'
      BY <3>1, <3>3, <3>4 DEF Typed, TypeOK
    <3>6. AcceptedPlanetUnique'
      BY <3>1, <3>2
    <3> QED
      BY <3>5, <3>6
  <2>4. ASSUME NEW s \in Servers, Recount(s) PROVE PlanetInv'
    <3>1. RowStands'
      BY <2>4 DEF Recount, Leave, Typed, TypeOK
    <3>2. AcceptedPlanetUnique'
      <4>1. CASE Cardinality(PlanetRows(req[s].planet)) # 1
        BY <2>4, <4>1 DEF Recount
      <4>2. CASE Cardinality(PlanetRows(req[s].planet)) = 1
        <5> SUFFICES ASSUME NEW u \in users, NEW v \in users,
                            u.id \in accepted', v.id \in accepted',
                            u.fields.planet = v.fields.planet
                     PROVE  u = v
          BY <2>4 DEF Recount
        <5>1. accepted' = accepted \cup {mine[s]}
          BY <2>4, <4>2 DEF Recount
        <5>2. PICK x : PlanetRows(req[s].planet) = {x}
          <6>1. IsFiniteSet(PlanetRows(req[s].planet))
            BY FS_Subset DEF PlanetRows, Typed, IdsBehind
          <6> QED
            BY <4>2, <6>1, FS_Singleton
        <5>3. CASE u.id = mine[s] \/ v.id = mine[s]
          <6>1. u \in PlanetRows(req[s].planet) /\ v \in PlanetRows(req[s].planet)
            BY <2>4, <5>3 DEF Recount, PlanetRows
          <6> QED
            BY <5>2, <6>1
        <5>4. CASE u.id \in accepted /\ v.id \in accepted
          BY <5>4
        <5> QED
          BY <5>1, <5>3, <5>4
      <4> QED
        BY <4>1, <4>2
    <3> QED
      BY <3>1, <3>2
  <2>5. ASSUME NEW s \in Servers, NEW c \in Clients, ClientStep(s, c) PROVE PlanetInv'
    <3>1. users' \subseteq users /\ UNCHANGED <<pc, req, mine, accepted>>
      BY <2>5 DEF ClientStep, Login, Logout, DeleteUser, handling
    <3> QED
      BY <3>1
  <2>6. ASSUME NEW s \in Servers, Crash(s) PROVE PlanetInv'
    BY <2>6 DEF Crash, Leave, Typed, TypeOK
  <2>7. CASE UNCHANGED vars
    BY <2>7 DEF vars
  <2> QED
    BY <2>1, <2>2, <2>3, <2>4, <2>5, <2>6, <2>7 DEF Next, RegisterStep
<1>3. PlanetInv => AcceptedPlanetUnique
  BY DEF PlanetInv
<1> QED
  BY InitTyped, NextTyped, <1>1, <1>2, <1>3, PTL DEF Spec

-----------------------------------------------------------------------------
(* Accounts *)

(* registrations of one account at a time are known to have overlapped *)
OverlapSeen ==
  \A s, t \in Servers :
    s # t /\ pc[s] # "idle" /\ pc[t] # "idle" /\ req[s].account = req[t].account
      => req[s].account \in overlapped

(* the check that no row has the account still holds when the row is written *)
CheckStands ==
  \A s \in Servers :
    pc[s] \in {"planet", "insert"} /\ req[s].account \notin overlapped
      => AccountRows(req[s].account) = {}

AccountInv == OverlapSeen /\ CheckStands /\ AccountUniqueUnlessOverlapped

(* An account has one row unless two registrations of it have run at the  *)
(* same time.                                                              *)
THEOREM OneRowOfAnAccount == Spec => []AccountUniqueUnlessOverlapped
<1>1. Init => AccountInv
  BY DEF Init, AccountInv, OverlapSeen, CheckStands, AccountUniqueUnlessOverlapped
<1>2. Typed /\ AccountInv /\ [Next]_vars => AccountInv'
  <2> SUFFICES ASSUME Typed, AccountInv, [Next]_vars PROVE AccountInv'
    OBVIOUS
  <2> USE DEF AccountInv
  <2>1. ASSUME NEW s \in Servers, NEW f \in Fields, Register(s, f) PROVE AccountInv'
    <3>1. /\ pc' = [pc EXCEPT ![s] = "account"] /\ req' = [req EXCEPT ![s] = f]
          /\ users' = users /\ overlapped \subseteq overlapped'
      BY <2>1 DEF Register
    <3>2. ASSUME NEW t \in Servers, t # s, pc[t] # "idle", req[t].account = f.account
          PROVE  f.account \in overlapped'
      BY <2>1, <3>2 DEF Register, Registering
    <3>3. OverlapSeen'
      BY <3>1, <3>2 DEF OverlapSeen, Typed, TypeOK
    <3>4. CheckStands' /\ AccountUniqueUnlessOverlapped'
      BY <3>1 DEF CheckStands, AccountUniqueUnlessOverlapped, AccountRows, Typed, TypeOK
    <3> QED
      BY <3>3, <3>4
  <2>2. ASSUME NEW s \in Servers, CheckAccount(s) PROVE AccountInv'
    BY <2>2 DEF CheckAccount, Goto, Leave, OverlapSeen, CheckStands,
       AccountUniqueUnlessOverlapped, AccountRows, Typed, TypeOK
  <2>3. ASSUME NEW s \in Servers, CheckPlanet(s) PROVE AccountInv'
    BY <2>3 DEF CheckPlanet, Goto, Leave, OverlapSeen, CheckStands,
       AccountUniqueUnlessOverlapped, AccountRows, Typed, TypeOK
  <2>4. ASSUME NEW s \in Servers, Insert(s) PROVE AccountInv'
    <3> DEFINE r == [id |-> lastId + 1, fields |-> req[s], userRole |-> "user"]
               a == req[s].account
    <3>1. /\ users' = users \cup {r} /\ pc' = [pc EXCEPT ![s] = "recount"]
          /\ UNCHANGED <<req, overlapped>> /\ pc[s] = "insert"
      BY <2>4 DEF Insert
    <3>2. OverlapSeen'
      BY <3>1 DEF OverlapSeen, Typed, TypeOK
    <3>3. CheckStands'
      <4> SUFFICES ASSUME NEW t \in Servers, pc'[t] \in {"planet", "insert"},
                          req[t].account \notin overlapped,
                          NEW u \in users', u.fields.account = req[t].account
                   PROVE  FALSE
        BY <3>1 DEF CheckStands, AccountRows
      <4>1. t # s /\ pc[t] = pc'[t]
        BY <3>1 DEF Typed, TypeOK
      <4>2. req[t].account # a
        BY <3>1, <4>1 DEF OverlapSeen
      <4> QED
        BY <3>1, <4>1, <4>2 DEF CheckStands, AccountRows
    <3>4. AccountUniqueUnlessOverlapped'
      <4>1. ASSUME a \notin overlapped, NEW u \in users PROVE u.fields.account # a
        BY <3>1, <4>1 DEF CheckStands, AccountRows
      <4> QED
        BY <3>1, <4>1 DEF AccountUniqueUnlessOverlapped
    <3> QED
      BY <3>2, <3>3, <3>4
  <2>5. ASSUME NEW s \in Servers, Recount(s) \/ Fail(s) \/ Crash(s) PROVE AccountInv'
    BY <2>5 DEF Recount, Fail, Crash, Leave, OverlapSeen, CheckStands,
       AccountUniqueUnlessOverlapped, AccountRows, Typed, TypeOK
  <2>6. ASSUME NEW s \in Servers, NEW c \in Clients, ClientStep(s, c) PROVE AccountInv'
    <3>1. users' \subseteq users /\ UNCHANGED <<pc, req, overlapped>>
      BY <2>6 DEF ClientStep, Login, Logout, DeleteUser, handling
    <3> QED
      BY <3>1 DEF OverlapSeen, CheckStands, AccountUniqueUnlessOverlapped, AccountRows
  <2>7. CASE UNCHANGED vars
    BY <2>7 DEF vars, OverlapSeen, CheckStands, AccountUniqueUnlessOverlapped, AccountRows
  <2> QED
    BY <2>1, <2>2, <2>3, <2>4, <2>5, <2>6, <2>7 DEF Next, RegisterStep
<1>3. AccountInv => AccountUniqueUnlessOverlapped
  BY DEF AccountInv
<1> QED
  BY InitTyped, NextTyped, <1>1, <1>2, <1>3, PTL DEF Spec
=============================================================================
