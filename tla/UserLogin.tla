----------------------------- MODULE UserLogin -----------------------------
(***************************************************************************)
(* Users and tokens of the C++ back end (services/UserServiceImpl.cc):     *)
(* codes sent to a phone, login, which creates the user of a new phone,    *)
(* and the session that a token stands for.                                *)
(*                                                                         *)
(* As in SeckillOrder a server handles one request at a time and an action *)
(* is the code up to and including one SQL statement or one Redis command. *)
(***************************************************************************)
EXTENDS Integers, FiniteSets

CONSTANTS
  Servers,
  Phones,       \* numbers that isPhoneInvalid lets through
  Codes,        \* what getRandomNumberStr(6) yields: it may repeat
  Tokens,       \* bound: the uuids of all sessions
  Faults,       \* TRUE: servers crash, statements and commands fail
  None          \* model value: no code, no request

ASSUME SwitchAssumption == Faults \in BOOLEAN
ASSUME PhonesAssumption == IsFiniteSet(Phones)

VARIABLES
  code,         \* the string under LOGIN_USER_KEY + phone
  users,        \* the rows of tb_user
  session,      \* the hash under LOGIN_USER_KEY + token: a user, 0 if none
  ttl,          \* does that key have an expiry
  pc,           \* how far the handler of each server is
  req,          \* the phone and code, or the token, of its request
  got,          \* the id of the user it works for, 0 if none
  owner,        \* history: the phone a token was made for
  answered      \* history: tokens that were returned to a client

lvars == <<code, users, session, ttl, pc, req, got, owner, answered>>
keys == <<session, ttl, owner, answered>>

Request == [phone : Phones, code : Codes, token : {None}]
           \cup [phone : {None}, code : {None}, token : Tokens]
ASSUME NoneAssumption == None \notin Codes \cup Phones \cup Tokens \cup Request

Ids == 1 .. Cardinality(Phones)
Row == [id : Ids, phone : Phones]
RowsOf(p) == {u \in users : u.phone = p}
Exists(t) == session[t] # 0

TypeOK ==
  /\ code \in [Phones -> Codes \cup {None}]
  /\ users \subseteq Row
  /\ session \in [Tokens -> Ids \cup {0}]
  /\ ttl \in [Tokens -> BOOLEAN]
  /\ pc \in [Servers -> {"idle", "get", "find", "insert", "recount", "hmset",
                         "expire", "refresh"}]
  /\ req \in [Servers -> Request \cup {None}]
  /\ got \in [Servers -> Ids \cup {0}]
  /\ owner \in [Tokens -> Phones \cup {None}]
  /\ answered \subseteq Tokens
  /\ \A s \in Servers : pc[s] # "idle" => req[s] # None
  /\ \A t \in Tokens : ttl[t] => Exists(t)

Init ==
  /\ code = [p \in Phones |-> None]
  /\ users = {}
  /\ session = [t \in Tokens |-> 0]
  /\ ttl = [t \in Tokens |-> FALSE]
  /\ pc = [s \in Servers |-> "idle"]
  /\ req = [s \in Servers |-> None]
  /\ got = [s \in Servers |-> 0]
  /\ owner = [t \in Tokens |-> None]
  /\ answered = {}

-----------------------------------------------------------------------------
Start(s, r, label) ==
  /\ pc[s] = "idle"
  /\ pc' = [pc EXCEPT ![s] = label]
  /\ req' = [req EXCEPT ![s] = r]

Goto(s, label, id) ==
  /\ pc' = [pc EXCEPT ![s] = label]
  /\ got' = [got EXCEPT ![s] = id]
  /\ UNCHANGED req

(* the handler returns or throws *)
Leave(s) ==
  /\ pc' = [pc EXCEPT ![s] = "idle"]
  /\ req' = [req EXCEPT ![s] = None]
  /\ got' = [got EXCEPT ![s] = 0]

(* sendCode: SET EX, over the code that was sent before *)
SendCode(s, p, c) ==
  /\ pc[s] = "idle"
  /\ code' = [code EXCEPT ![p] = c]
  /\ UNCHANGED <<users, keys, pc, req, got>>

Login(s, p, c) ==
  /\ Start(s, [phone |-> p, code |-> c, token |-> None], "get")
  /\ UNCHANGED <<code, users, keys, got>>

(* login, 3: the code of Redis must be there and be the one given *)
CheckCode(s) ==
  /\ pc[s] = "get"
  /\ IF code[req[s].phone] = req[s].code THEN Goto(s, "find", 0) ELSE Leave(s)
  /\ UNCHANGED <<code, users, keys>>

(* mutated: any user *)
FindUserOfAny(s) ==
  /\ pc[s] = "find"
  /\ IF users = {} THEN Goto(s, "insert", 0)
                   ELSE Goto(s, "hmset", (CHOOSE u \in users : TRUE).id)
  /\ UNCHANGED <<code, users, keys>>

(* login, 4 and 5 *)
FindUser(s) ==
  /\ pc[s] = "find"
  /\ LET found == RowsOf(req[s].phone)
     IN \/ found = {} /\ Goto(s, "insert", 0)
        \/ \E u \in found : found = {u} /\ Goto(s, "hmset", u.id)
        \/ Cardinality(found) > 1 /\ Leave(s)
  /\ UNCHANGED <<code, users, keys>>

(* createUserWithPhone: the unique index of tb_user refuses a second row *)
InsertUser(s) ==
  LET id == Cardinality(users) + 1
  IN /\ pc[s] = "insert"
     /\ IF RowsOf(req[s].phone) # {} THEN Leave(s) /\ UNCHANGED users
        ELSE /\ users' = users \cup {[id |-> id, phone |-> req[s].phone]}
             /\ Goto(s, "recount", id)
     /\ UNCHANGED <<code, keys>>

(* createUserWithPhone: the rows are counted *)
Recount(s) ==
  /\ pc[s] = "recount"
  /\ IF Cardinality(RowsOf(req[s].phone)) = 1
       THEN Goto(s, "hmset", got[s]) ELSE Leave(s)
  /\ UNCHANGED <<code, users, keys>>

(* login, 7: HMSET under a new token ... *)
StoreToken(s, t) ==
  /\ pc[s] = "hmset"
  /\ owner[t] = None
  /\ session' = [session EXCEPT ![t] = got[s]]
  /\ owner' = [owner EXCEPT ![t] = req[s].phone]
  /\ pc' = [pc EXCEPT ![s] = "expire"]
  /\ req' = [req EXCEPT ![s] = [phone |-> None, code |-> None, token |-> t]]
  /\ UNCHANGED <<code, users, ttl, got, answered>>

(* ... and EXPIRE; the token is returned *)
SetExpiry(s) ==
  /\ pc[s] = "expire"
  /\ ttl' = [ttl EXCEPT ![req[s].token] = Exists(req[s].token)]
  /\ answered' = answered \cup {req[s].token}
  /\ Leave(s)
  /\ UNCHANGED <<code, users, session, owner>>

(* getCurrent: HGETALL; of an empty array size() - 1 is no index and get *)
(* throws                                                                *)
GetCurrent(s, t) ==
  /\ t \in answered
  /\ Exists(t)
  /\ Start(s, [phone |-> None, code |-> None, token |-> t], "refresh")
  /\ got' = [got EXCEPT ![s] = session[t]]
  /\ UNCHANGED <<code, users, keys>>

(* mutated: the hash is stored again *)
RefreshStores(s) ==
  LET t == req[s].token
  IN /\ pc[s] = "refresh"
     /\ session' = [session EXCEPT ![t] = got[s]]
     /\ Leave(s)
     /\ UNCHANGED <<code, users, ttl, owner, answered>>

(* mutated: a key that is gone gets an expiry *)
RefreshBlind(s) ==
  /\ pc[s] = "refresh"
  /\ ttl' = [ttl EXCEPT ![req[s].token] = TRUE]
  /\ Leave(s)
  /\ UNCHANGED <<code, users, session, owner, answered>>

(* getCurrent: EXPIRE, without effect on a key that is gone by now *)
Refresh(s) ==
  /\ pc[s] = "refresh"
  /\ ttl' = [ttl EXCEPT ![req[s].token] = Exists(req[s].token)]
  /\ Leave(s)
  /\ UNCHANGED <<code, users, session, owner, answered>>

(* a statement or command fails, or the process dies *)
Fail(s) ==
  /\ Faults
  /\ pc[s] # "idle"
  /\ Leave(s)
  /\ UNCHANGED <<code, users, keys>>

(* LOGIN_CODE_TTL *)
CodeExpires(p) ==
  /\ code[p] # None
  /\ code' = [code EXCEPT ![p] = None]
  /\ UNCHANGED <<users, keys, pc, req, got>>

(* LOGIN_USER_TTL *)
TokenExpires(t) ==
  /\ ttl[t]
  /\ session' = [session EXCEPT ![t] = 0]
  /\ ttl' = [ttl EXCEPT ![t] = FALSE]
  /\ UNCHANGED <<code, users, pc, req, got, owner, answered>>

UserRequest(s) ==
  \/ \E p \in Phones, c \in Codes : SendCode(s, p, c) \/ Login(s, p, c)
  \/ \E t \in Tokens : GetCurrent(s, t)

UserStep(s) ==
  \/ CheckCode(s) \/ FindUser(s) \/ InsertUser(s) \/ Recount(s)
  \/ \E t \in Tokens : StoreToken(s, t)
  \/ SetExpiry(s) \/ Refresh(s) \/ Fail(s)

KeyExpires ==
  \/ \E p \in Phones : CodeExpires(p)
  \/ \E t \in Tokens : TokenExpires(t)

-----------------------------------------------------------------------------
(* Properties *)

(* The session of a token belongs to the user of the phone that logged in, *)
(* also if another server created that user meanwhile.                     *)
TokenOwner ==
  \A t \in Tokens :
    Exists(t) => \E u \in users : u.id = session[t] /\ u.phone = owner[t]

(* A token that a client has got expires, although the hash and its expiry *)
(* are stored with two commands, and getCurrent refreshes one that may be  *)
(* gone (116-126, 163-190); a failure in between leaves a hash for ever,   *)
(* but nobody has got its token.                                           *)
AnsweredExpires == \A t \in answered : Exists(t) => ttl[t]
=============================================================================
