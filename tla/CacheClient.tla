---------------------------- MODULE CacheClient ----------------------------
(***************************************************************************)
(* Shops behind a Redis cache in the Java back end: queryWithPassThrough   *)
(* and queryWithMutex of utils/CacheClient.java, update of                 *)
(* service/impl/ShopServiceImpl.java, and saving a shop.                   *)
(*                                                                         *)
(* Requests run on the threads of one or more servers; an action is the    *)
(* code up to and including one SQL statement or one Redis command.        *)
(* Unlike ShopCache a value and its expiry are one command, a shop that    *)
(* does not exist is cached as "", and update is a transaction.            *)
(***************************************************************************)
EXTENDS Integers

CONSTANTS
  Threads, Shops,
  MaxVersion,   \* bound: writes of one row
  MaxFrames,    \* bound: calls of queryWithMutex within one another
  None          \* model value: no request

ASSUME BoundsAssumption == MaxVersion \in Nat \ {0} /\ MaxFrames \in Nat

VARIABLES
  db,       \* tb_shop: the committed version of each row, 0 if there is none
  writer,   \* the transaction that holds the lock of the row
  cache,    \* the string under CACHE_SHOP_KEY + id: 0 for "", -1 for no key
  ttl,      \* does that key have an expiry
  lock,     \* does the key LOCK_SHOP_KEY + id exist
  pc, req,  \* how far each thread is, the shop and the way it works
  got,      \* the version it has read
  frames,   \* how many of its calls are within the try of queryWithMutex
  raced     \* history: shops a fill or an absence of which met a write

vars == <<db, writer, cache, ttl, lock, pc, req, got, frames, raced>>
stores == <<db, writer, cache, ttl, lock>>

Request == [shop : Shops, op : {"passThrough", "mutex", "update"}]
ASSUME NoneAssumption == None \notin Request \cup Threads

Versions == 0 .. MaxVersion
NoKey == -1

TypeOK ==
  /\ db \in [Shops -> Versions]
  /\ writer \in [Shops -> Threads \cup {None}]
  /\ cache \in [Shops -> Versions \cup {NoKey}]
  /\ ttl \in [Shops -> BOOLEAN]
  /\ lock \in [Shops -> BOOLEAN]
  /\ pc \in [Threads -> {"idle", "get", "lock", "read", "set", "unlock",
                         "delete", "commit"}]
  /\ req \in [Threads -> Request \cup {None}]
  /\ got \in [Threads -> Versions]
  /\ frames \in [Threads -> 0 .. MaxFrames]
  /\ raced \subseteq Shops
  /\ \A t \in Threads : /\ pc[t] # "idle" => req[t] # None
                        /\ pc[t] \in {"idle", "delete", "commit"} => frames[t] = 0
                        /\ pc[t] = "unlock" => frames[t] > 0
  /\ \A i \in Shops : ttl[i] => cache[i] # NoKey

Init ==
  /\ db \in [Shops -> {0, 1}]
  /\ writer = [i \in Shops |-> None]
  /\ cache = [i \in Shops |-> NoKey]
  /\ ttl = [i \in Shops |-> FALSE]
  /\ lock = [i \in Shops |-> FALSE]
  /\ pc = [t \in Threads |-> "idle"]
  /\ req = [t \in Threads |-> None]
  /\ got = [t \in Threads |-> 0]
  /\ frames = [t \in Threads |-> 0]
  /\ raced = {}

-----------------------------------------------------------------------------
Goto(t, label) == pc' = [pc EXCEPT ![t] = label] /\ UNCHANGED <<req, got>>

Leave(t) ==
  /\ pc' = [pc EXCEPT ![t] = "idle"]
  /\ req' = [req EXCEPT ![t] = None]
  /\ got' = [got EXCEPT ![t] = 0]

(* return: through the finally of every call that is in its try *)
Return(t) == IF frames[t] > 0 THEN Goto(t, "unlock") ELSE Leave(t)

Start(t, r, label) ==
  /\ pc[t] = "idle"
  /\ pc' = [pc EXCEPT ![t] = label]
  /\ req' = [req EXCEPT ![t] = r]
  /\ UNCHANGED <<got, frames, raced>>

Query(t, r) ==
  /\ r.op # "update"
  /\ Start(t, r, "get")
  /\ UNCHANGED stores

(* GET: "" is an answer too *)
Get(t) ==
  /\ pc[t] = "get"
  /\ IF cache[req[t].shop] # NoKey THEN Return(t)
     ELSE Goto(t, IF req[t].op = "mutex" THEN "lock" ELSE "read")
  /\ UNCHANGED <<stores, frames, raced>>

(* tryLock, within try: if it fails the method calls itself *)
TryLock(t) ==
  /\ pc[t] = "lock"
  /\ frames[t] < MaxFrames
  /\ frames' = [frames EXCEPT ![t] = @ + 1]
  /\ lock' = [lock EXCEPT ![req[t].shop] = TRUE]
  /\ Goto(t, IF lock[req[t].shop] THEN "get" ELSE "read")
  /\ UNCHANGED <<db, writer, cache, ttl, raced>>

(* dbFallback: getById *)
Read(t) ==
  /\ pc[t] = "read"
  /\ pc' = [pc EXCEPT ![t] = "set"]
  /\ got' = [got EXCEPT ![t] = db[req[t].shop]]
  /\ UNCHANGED <<stores, req, frames, raced>>

(* mutated: SET without EX *)
SetForEver(t) ==
  LET i == req[t].shop
  IN /\ pc[t] = "set"
     /\ cache' = [cache EXCEPT ![i] = got[t]]
     /\ ttl' = [ttl EXCEPT ![i] = FALSE]
     /\ Return(t)
     /\ raced' = raced \cup (IF writer[i] # None THEN {i} ELSE {})
     /\ UNCHANGED <<db, writer, lock, frames>>

(* set, or "" with CACHE_NULL_TTL *)
Set(t) ==
  LET i == req[t].shop
  IN /\ pc[t] = "set"
     /\ cache' = [cache EXCEPT ![i] = got[t]]
     /\ ttl' = [ttl EXCEPT ![i] = TRUE]
     /\ Return(t)
     /\ raced' = raced \cup (IF writer[i] # None THEN {i} ELSE {})
     /\ UNCHANGED <<db, writer, lock, frames>>

(* the finally of one call: DEL, whoever holds the key; if it fails, the *)
(* finally of the calls around it still run                              *)
UnLock(t) ==
  /\ pc[t] = "unlock"
  /\ lock' = [lock EXCEPT ![req[t].shop] = FALSE] \/ UNCHANGED lock
  /\ frames' = [frames EXCEPT ![t] = @ - 1]
  /\ IF frames[t] > 1 THEN Goto(t, "unlock") ELSE Leave(t)
  /\ UNCHANGED <<db, writer, cache, ttl, raced>>

(* update: updateById takes the lock of the row *)
Update(t, i) ==
  /\ db[i] < MaxVersion
  /\ writer[i] = None
  /\ Start(t, [shop |-> i, op |-> "update"], "delete")
  /\ writer' = [writer EXCEPT ![i] = t]
  /\ UNCHANGED <<db, cache, ttl, lock>>

(* mutated: an expiry is left behind *)
DeleteKeyOnly(t) ==
  /\ pc[t] = "delete"
  /\ cache' = [cache EXCEPT ![req[t].shop] = NoKey]
  /\ Goto(t, "commit")
  /\ UNCHANGED <<db, writer, ttl, lock, frames, raced>>

(* mutated: the cache is left alone *)
DeleteNothing(t) ==
  /\ pc[t] = "delete"
  /\ Goto(t, "commit")
  /\ UNCHANGED <<stores, frames, raced>>

(* DEL, with the transaction still open *)
Delete(t) ==
  /\ pc[t] = "delete"
  /\ cache' = [cache EXCEPT ![req[t].shop] = NoKey]
  /\ ttl' = [ttl EXCEPT ![req[t].shop] = FALSE]
  /\ Goto(t, "commit")
  /\ UNCHANGED <<db, writer, lock, frames, raced>>

(* values read and not written yet *)
Filling(i) == \E t \in Threads : pc[t] = "set" /\ req[t].shop = i

(* @Transactional: the commit, which gives other readers the new row *)
Commit(t) ==
  LET i == req[t].shop
  IN /\ pc[t] = "commit"
     /\ db' = [db EXCEPT ![i] = IF @ = 0 THEN 0 ELSE @ + 1]
     /\ writer' = [writer EXCEPT ![i] = None]
     /\ raced' = raced \cup (IF Filling(i) THEN {i} ELSE {})
     /\ Leave(t)
     /\ UNCHANGED <<cache, ttl, lock, frames>>

RollBack(t) ==
  writer' = [i \in Shops |-> IF writer[i] = t THEN None ELSE writer[i]]

(* a statement or command fails: an exception, that of tryLock within try *)
Fail(t) ==
  /\ pc[t] \notin {"idle", "unlock"}
  /\ IF pc[t] = "lock"
       THEN /\ frames[t] < MaxFrames
            /\ frames' = [frames EXCEPT ![t] = @ + 1]
            /\ Goto(t, "unlock")
       ELSE Return(t) /\ UNCHANGED frames
  /\ RollBack(t)
  /\ UNCHANGED <<db, cache, ttl, lock, raced>>

(* the process dies: no finally runs, a lock stays *)
Die(t) ==
  /\ pc[t] # "idle"
  /\ Leave(t)
  /\ frames' = [frames EXCEPT ![t] = 0]
  /\ RollBack(t)
  /\ UNCHANGED <<db, cache, ttl, lock, raced>>

(* saveShop leaves the cache alone, an entry "" too *)
Save(i) ==
  /\ db[i] = 0 /\ writer[i] = None
  /\ db' = [db EXCEPT ![i] = 1]
  /\ raced' = raced \cup (IF cache[i] = 0 \/ Filling(i) THEN {i} ELSE {})
  /\ UNCHANGED <<writer, cache, ttl, lock, pc, req, got, frames>>

CacheExpires(i) ==
  /\ ttl[i]
  /\ cache' = [cache EXCEPT ![i] = NoKey]
  /\ ttl' = [ttl EXCEPT ![i] = FALSE]
  /\ UNCHANGED <<db, writer, lock, pc, req, got, frames, raced>>

LockExpires(i) ==
  /\ lock[i]
  /\ lock' = [lock EXCEPT ![i] = FALSE]
  /\ UNCHANGED <<db, writer, cache, ttl, pc, req, got, frames, raced>>

Handle(t) ==
  \/ Get(t) \/ TryLock(t) \/ Read(t) \/ Set(t) \/ UnLock(t)
  \/ Delete(t) \/ Commit(t)

Next ==
  \/ \E t \in Threads, r \in Request : Query(t, r)
  \/ \E t \in Threads, i \in Shops : Update(t, i)
  \/ \E t \in Threads : Handle(t) \/ Fail(t) \/ Die(t)
  \/ \E i \in Shops : Save(i) \/ CacheExpires(i) \/ LockExpires(i)

Spec == Init /\ [][Next]_vars

(* a thread goes on, and Redis drops a key when it is time *)
FairSpec ==
  /\ Spec
  /\ \A t \in Threads : WF_vars(Handle(t))
  /\ \A i \in Shops : WF_vars(CacheExpires(i)) /\ WF_vars(LockExpires(i))

-----------------------------------------------------------------------------
(* Properties *)

Stale(i) == cache[i] # NoKey /\ cache[i] # db[i]

(* The cache differs from the committed row only after a fill that read    *)
(* before an update or save and wrote after it, a fill between the DEL of  *)
(* update and its commit (ShopServiceImpl.java:74-77), or a save of a shop *)
(* whose absence is cached; failures and lost locks do not matter.         *)
CoherentUnlessRaced == \A i \in Shops : Stale(i) => i \in raced

(* An entry that differs does not stay for good, "" neither.               *)
StaleEnds == \A i \in Shops : Stale(i) ~> ~Stale(i)
=============================================================================
