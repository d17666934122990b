----------------------------- MODULE CacheProofs -----------------------------
(***************************************************************************)
(* The cache of the Java back end, for every number of threads, shops,     *)
(* versions and nested calls: it differs from the committed row only after *)
(* a fill, or a cached absence, has met a write.                           *)
(***************************************************************************)
EXTENDS CacheClient, TLAPS

Labels == {"idle", "get", "lock", "read", "set", "unlock", "delete", "commit"}

(* Whoever updates a row holds its lock until it commits: the row does not *)
(* change under it.                                                        *)
RowHeld ==
  \A t \in Threads :
    pc[t] \in {"delete", "commit"} =>
      /\ req[t] # None
      /\ writer[req[t].shop] = t
      /\ db[req[t].shop] < MaxVersion

Typed == TypeOK /\ RowHeld

LEMMA ReturnTyped ==
  ASSUME TypeOK, NEW t \in Threads, req[t] # None, Return(t)
  PROVE  /\ pc' \in [Threads -> Labels]
         /\ req' \in [Threads -> Request \cup {None}]
         /\ got' \in [Threads -> Versions]
         /\ \A u \in Threads :
              /\ pc'[u] # "idle" => req'[u] # None
              /\ pc'[u] \in {"idle", "delete", "commit"} => frames[u] = 0
              /\ pc'[u] = "unlock" => frames[u] > 0
         /\ pc'[t] \in {"idle", "unlock"}
         /\ \A u \in Threads \ {t} : pc'[u] = pc[u] /\ req'[u] = req[u] /\ got'[u] = got[u]
<1>1. CASE frames[t] > 0
  BY <1>1 DEF Return, Goto, TypeOK, Labels
<1>2. CASE ~(frames[t] > 0)
  <2>1. frames[t] = 0
    BY <1>2, BoundsAssumption DEF TypeOK, BoundsAssumption
  <2>2. 0 \in Versions
    BY BoundsAssumption DEF BoundsAssumption, Versions
  <2> QED
    BY <1>2, <2>1, <2>2 DEF Return, Leave, TypeOK, Labels
<1> QED
  BY <1>1, <1>2

LEMMA InitTyped == Init => Typed
<1>1. 0 \in Versions /\ 1 \in Versions
  BY BoundsAssumption DEF BoundsAssumption, Versions
<1>2. 0 \in 0 .. MaxFrames
  BY BoundsAssumption DEF BoundsAssumption
<1> QED
  BY <1>1, <1>2 DEF Init, Typed, TypeOK, RowHeld

LEMMA NextTyped ==
  ASSUME Typed, [Next]_vars
  PROVE  Typed'
<1> USE BoundsAssumption, NoneAssumption DEF BoundsAssumption, NoneAssumption
<1>0. 0 \in Versions /\ NoKey \notin Versions
  BY DEF Versions, NoKey
<1>1. ASSUME NEW t \in Threads, NEW r \in Request, Query(t, r) PROVE Typed'
  BY <1>1 DEF Typed, TypeOK, RowHeld, Query, Start, stores
<1>2. ASSUME NEW t \in Threads, NEW i \in Shops, Update(t, i) PROVE Typed'
  <2>1. [shop |-> i, op |-> "update"] \in Request
    BY DEF Request
  <2>2. TypeOK'
    BY <1>2, <2>1 DEF Typed, TypeOK, Update, Start
  <2>3. RowHeld'
    BY <1>2, <2>1 DEF Typed, TypeOK, RowHeld, Update, Start, Request
  <2> QED
    BY <2>2, <2>3 DEF Typed
<1>3. ASSUME NEW t \in Threads, Get(t) PROVE Typed'
  <2>1. CASE Return(t)
    BY <1>3, <2>1, ReturnTyped DEF Typed, TypeOK, RowHeld, Get, stores, Labels
  <2>2. CASE ~Return(t)
    BY <1>3, <2>2 DEF Typed, TypeOK, RowHeld, Get, Goto, stores
  <2> QED
    BY <2>1, <2>2
<1>4. ASSUME NEW t \in Threads, TryLock(t) PROVE Typed'
  <2>1. frames[t] + 1 \in 0 .. MaxFrames
    BY <1>4 DEF TryLock, Typed, TypeOK
  <2>2. req[t] \in Request
    BY <1>4 DEF TryLock, Typed, TypeOK
  <2> QED
    BY <1>4, <2>1, <2>2 DEF Typed, TypeOK, RowHeld, TryLock, Goto, Request
<1>5. ASSUME NEW t \in Threads, Read(t) PROVE Typed'
  BY <1>5 DEF Typed, TypeOK, RowHeld, Read, stores, Request
<1>6. ASSUME NEW t \in Threads, Set(t) PROVE Typed'
  <2>1. /\ cache' \in [Shops -> Versions \cup {NoKey}]
        /\ ttl' \in [Shops -> BOOLEAN]
        /\ \A i \in Shops : ttl'[i] => cache'[i] # NoKey
        /\ raced' \subseteq Shops
    BY <1>0, <1>6 DEF Typed, TypeOK, Set, Request
  <2> QED
    BY <1>6, <2>1, ReturnTyped DEF Typed, TypeOK, RowHeld, Set, Labels
<1>7. ASSUME NEW t \in Threads, UnLock(t) PROVE Typed'
  <2>1. /\ req[t] \in Request /\ req[t].shop \in Shops
        /\ frames[t] \in 0 .. MaxFrames /\ frames[t] > 0
    BY <1>7 DEF UnLock, Typed, TypeOK, Request
  <2>2. /\ lock' \in [Shops -> BOOLEAN]
        /\ frames' \in [Threads -> 0 .. MaxFrames]
    <3>1. frames[t] - 1 \in 0 .. MaxFrames
      BY <2>1
    <3>2. lock' \in [Shops -> BOOLEAN]
      BY <1>7, <2>1 DEF UnLock, Typed, TypeOK
    <3> QED
      BY <1>7, <3>1, <3>2 DEF UnLock, Typed, TypeOK
  <2>3. CASE frames[t] > 1
    BY <1>7, <2>1, <2>2, <2>3 DEF Typed, TypeOK, RowHeld, UnLock, Goto
  <2>4. CASE ~(frames[t] > 1)
    <3>1. frames'[t] = 0
      BY <1>7, <2>1, <2>4 DEF UnLock, Typed, TypeOK
    <3> QED
      BY <1>0, <1>7, <2>1, <2>2, <2>4, <3>1 DEF Typed, TypeOK, RowHeld, UnLock, Leave
  <2> QED
    BY <2>3, <2>4
<1>8. ASSUME NEW t \in Threads, Delete(t) PROVE Typed'
  BY <1>8 DEF Typed, TypeOK, RowHeld, Delete, Goto, NoKey
<1>9. ASSUME NEW t \in Threads, Commit(t) PROVE Typed'
  <2>1. req[t] \in Request /\ req[t].shop \in Shops
    BY <1>9 DEF Commit, Typed, TypeOK, Request
  <2>2. db' \in [Shops -> Versions]
    BY <1>9, <2>1 DEF Commit, Typed, TypeOK, RowHeld, Versions
  <2>3. TypeOK'
    BY <1>0, <1>9, <2>1, <2>2 DEF Commit, Typed, TypeOK, Leave
  <2>4. RowHeld'
    BY <1>9, <2>1 DEF Commit, Typed, TypeOK, RowHeld, Leave, Request
  <2> QED
    BY <2>3, <2>4 DEF Typed
<1>10. ASSUME NEW t \in Threads, Fail(t) PROVE Typed'
  <2>1. /\ writer' \in [Shops -> Threads \cup {None}]
        /\ \A i \in Shops : writer[i] # t => writer'[i] = writer[i]
    BY <1>10 DEF Fail, RollBack, Typed, TypeOK
  <2>2. CASE pc[t] = "lock"
    <3>1. frames[t] + 1 \in 0 .. MaxFrames /\ frames[t] + 1 > 0
      BY <1>10, <2>2 DEF Fail, Typed, TypeOK
    <3> QED
      BY <1>10, <2>1, <2>2, <3>1 DEF Fail, Goto, Typed, TypeOK, RowHeld, Request
  <2>3. CASE pc[t] # "lock"
    BY <1>10, <2>1, <2>3, ReturnTyped DEF Fail, Typed, TypeOK, RowHeld, Request, Labels
  <2> QED
    BY <2>2, <2>3
<1>11. ASSUME NEW t \in Threads, Die(t) PROVE Typed'
  <2>1. /\ writer' \in [Shops -> Threads \cup {None}]
        /\ \A i \in Shops : writer[i] # t => writer'[i] = writer[i]
    BY <1>11 DEF Die, RollBack, Typed, TypeOK
  <2> QED
    BY <1>0, <1>11, <2>1 DEF Die, Leave, Typed, TypeOK, RowHeld, Request
<1>12. ASSUME NEW i \in Shops, Save(i) PROVE Typed'
  <2>1. 1 \in Versions
    BY DEF Versions
  <2> QED
    BY <1>12, <2>1 DEF Typed, TypeOK, RowHeld, Save
<1>13. ASSUME NEW i \in Shops, CacheExpires(i) PROVE Typed'
  BY <1>13 DEF Typed, TypeOK, RowHeld, CacheExpires, NoKey
<1>14. ASSUME NEW i \in Shops, LockExpires(i) PROVE Typed'
  BY <1>14 DEF Typed, TypeOK, RowHeld, LockExpires
<1>15. CASE UNCHANGED vars
  BY <1>15 DEF Typed, TypeOK, RowHeld, vars
<1> QED
  BY <1>1, <1>2, <1>3, <1>4, <1>5, <1>6, <1>7, <1>8, <1>9, <1>10, <1>11,
     <1>12, <1>13, <1>14, <1>15 DEF Next, Handle

(* Every variable keeps its type; an expiry is one of a key that is there, *)
(* and a thread without a query is in no call of queryWithMutex.           *)
THEOREM TypeCorrect == Spec => []TypeOK
<1>1. Typed => TypeOK
  BY DEF Typed
<1> QED
  BY InitTyped, NextTyped, <1>1, PTL DEF Spec

-----------------------------------------------------------------------------
(* Coherence *)

(* A value that is on its way into the cache is that of the row, unless a  *)
(* write of the row has met it.                                            *)
FillsFresh ==
  \A t \in Threads :
    pc[t] = "set" => got[t] = db[req[t].shop] \/ req[t].shop \in raced

(* Between the DEL of update and its commit only a fill, which is marked,  *)
(* puts the key back.                                                      *)
NoKeyBeforeCommit ==
  \A t \in Threads :
    pc[t] = "commit" => cache[req[t].shop] = NoKey \/ req[t].shop \in raced

CacheInv == Typed /\ CoherentUnlessRaced /\ FillsFresh /\ NoKeyBeforeCommit

LEMMA NextCacheInv ==
  ASSUME CacheInv, [Next]_vars
  PROVE  CacheInv'
<1> USE BoundsAssumption, NoneAssumption DEF BoundsAssumption, NoneAssumption
<1>0. Typed'
  BY NextTyped DEF CacheInv
<1> SUFFICES (CoherentUnlessRaced /\ FillsFresh /\ NoKeyBeforeCommit)'
  BY <1>0 DEF CacheInv
<1> USE DEF CacheInv, CoherentUnlessRaced, Stale, FillsFresh, NoKeyBeforeCommit
<1>1. ASSUME NEW t \in Threads, NEW r \in Request, Query(t, r)
      PROVE  (CoherentUnlessRaced /\ FillsFresh /\ NoKeyBeforeCommit)'
  BY <1>1 DEF Typed, TypeOK, Query, Start, stores
<1>2. ASSUME NEW t \in Threads, NEW i \in Shops, Update(t, i)
      PROVE  (CoherentUnlessRaced /\ FillsFresh /\ NoKeyBeforeCommit)'
  BY <1>2 DEF Typed, TypeOK, Update, Start
<1>3. ASSUME NEW t \in Threads, Get(t)
      PROVE  (CoherentUnlessRaced /\ FillsFresh /\ NoKeyBeforeCommit)'
  <2>1. CASE Return(t)
    BY <1>3, <2>1, ReturnTyped DEF Typed, TypeOK, Get, stores
  <2>2. CASE ~Return(t)
    BY <1>3, <2>2 DEF Typed, TypeOK, Get, Goto, stores
  <2> QED
    BY <2>1, <2>2
<1>4. ASSUME NEW t \in Threads, TryLock(t)
      PROVE  (CoherentUnlessRaced /\ FillsFresh /\ NoKeyBeforeCommit)'
  BY <1>4 DEF Typed, TypeOK, TryLock, Goto
<1>5. ASSUME NEW t \in Threads, Read(t)
      PROVE  (CoherentUnlessRaced /\ FillsFresh /\ NoKeyBeforeCommit)'
  BY <1>5 DEF Typed, TypeOK, Read, stores
<1>6. ASSUME NEW t \in Threads, Set(t)
      PROVE  (CoherentUnlessRaced /\ FillsFresh /\ NoKeyBeforeCommit)'
  <2> DEFINE i == req[t].shop
  <2>1. i \in Shops /\ pc[t] = "set" /\ req[t] # None
    BY <1>6 DEF Set, Typed, TypeOK, Request
  <2>2. /\ cache' = [cache EXCEPT ![i] = got[t]]
        /\ raced' = raced \cup (IF writer[i] # None THEN {i} ELSE {})
        /\ db' = db /\ Return(t)
    BY <1>6 DEF Set
  <2>3. CoherentUnlessRaced'
    BY <2>1, <2>2 DEF Typed, TypeOK
  <2>4. FillsFresh'
    BY <2>1, <2>2, ReturnTyped DEF Typed, TypeOK
  <2>5. NoKeyBeforeCommit'
    <3> SUFFICES ASSUME NEW u \in Threads, pc'[u] = "commit"
                 PROVE  (cache[req[u].shop] = NoKey \/ req[u].shop \in raced)'
      OBVIOUS
    <3>1. u # t /\ pc[u] = "commit" /\ req'[u] = req[u]
      BY <2>1, <2>2, ReturnTyped DEF Typed
    <3>2. writer[req[u].shop] = u
      BY <3>1 DEF Typed, RowHeld
    <3> QED
      BY <2>1, <2>2, <3>1, <3>2 DEF Typed, TypeOK
  <2> QED
    BY <2>3, <2>4, <2>5
<1>7. ASSUME NEW t \in Threads, UnLock(t)
      PROVE  (CoherentUnlessRaced /\ FillsFresh /\ NoKeyBeforeCommit)'
  BY <1>7 DEF Typed, TypeOK, UnLock, Goto, Leave
<1>8. ASSUME NEW t \in Threads, Delete(t)
      PROVE  (CoherentUnlessRaced /\ FillsFresh /\ NoKeyBeforeCommit)'
  BY <1>8 DEF Typed, TypeOK, Delete, Goto, Request
<1>9. ASSUME NEW t \in Threads, Commit(t)
      PROVE  (CoherentUnlessRaced /\ FillsFresh /\ NoKeyBeforeCommit)'
  <2> DEFINE i == req[t].shop
  <2>1. i \in Shops /\ pc[t] = "commit" /\ (cache[i] = NoKey \/ i \in raced)
    BY <1>9 DEF Commit, Typed, TypeOK, Request
  <2>2. CoherentUnlessRaced'
    BY <1>9, <2>1 DEF Commit, Typed, TypeOK
  <2>3. FillsFresh'
    <3> SUFFICES ASSUME NEW u \in Threads, pc'[u] = "set"
                 PROVE  (got[u] = db[req[u].shop] \/ req[u].shop \in raced)'
      OBVIOUS
    <3>1. u # t /\ pc[u] = "set" /\ req'[u] = req[u] /\ got'[u] = got[u]
      BY <1>9 DEF Commit, Leave, Typed, TypeOK
    <3>2. CASE req[u].shop = i
      BY <1>9, <3>1, <3>2 DEF Commit, Filling
    <3>3. CASE req[u].shop # i
      BY <1>9, <2>1, <3>1, <3>3 DEF Commit, Typed, TypeOK
    <3> QED
      BY <3>2, <3>3
  <2>4. NoKeyBeforeCommit'
    BY <1>9 DEF Commit, Leave, Typed, TypeOK
  <2> QED
    BY <2>2, <2>3, <2>4
<1>10. ASSUME NEW t \in Threads, Fail(t)
       PROVE  (CoherentUnlessRaced /\ FillsFresh /\ NoKeyBeforeCommit)'
  <2>1. CASE pc[t] = "lock"
    BY <1>10, <2>1 DEF Fail, Goto, Typed, TypeOK
  <2>2. CASE pc[t] # "lock"
    BY <1>10, <2>2, ReturnTyped DEF Fail, Typed, TypeOK
  <2> QED
    BY <2>1, <2>2
<1>11. ASSUME NEW t \in Threads, Die(t)
       PROVE  (CoherentUnlessRaced /\ FillsFresh /\ NoKeyBeforeCommit)'
  BY <1>11 DEF Die, Leave, Typed, TypeOK
<1>12. ASSUME NEW i \in Shops, Save(i)
       PROVE  (CoherentUnlessRaced /\ FillsFresh /\ NoKeyBeforeCommit)'
  <2>1. CoherentUnlessRaced'
    BY <1>12 DEF Save, Typed, TypeOK
  <2>2. FillsFresh'
    BY <1>12 DEF Save, Filling, Typed, TypeOK
  <2>3. NoKeyBeforeCommit'
    BY <1>12 DEF Save, Typed, TypeOK
  <2> QED
    BY <2>1, <2>2, <2>3
<1>13. ASSUME NEW i \in Shops, CacheExpires(i)
       PROVE  (CoherentUnlessRaced /\ FillsFresh /\ NoKeyBeforeCommit)'
  BY <1>13 DEF Typed, TypeOK, CacheExpires
<1>14. ASSUME NEW i \in Shops, LockExpires(i)
       PROVE  (CoherentUnlessRaced /\ FillsFresh /\ NoKeyBeforeCommit)'
  BY <1>14 DEF Typed, TypeOK, LockExpires
<1>15. CASE UNCHANGED vars
  BY <1>15 DEF vars
<1> QED
  BY <1>1, <1>2, <1>3, <1>4, <1>5, <1>6, <1>7, <1>8, <1>9, <1>10, <1>11,
     <1>12, <1>13, <1>14, <1>15 DEF Next, Handle

(* The cache differs from the committed row only after a fill, or a cached *)
(* absence, has met a write: failures, lost locks and nested calls of      *)
(* queryWithMutex do not matter.                                           *)
THEOREM CacheCoherent == Spec => []CoherentUnlessRaced
<1>1. Init => CacheInv
  BY InitTyped DEF Init, CacheInv, CoherentUnlessRaced, Stale, FillsFresh,
     NoKeyBeforeCommit
<1>2. CacheInv => CoherentUnlessRaced
  BY DEF CacheInv
<1> QED
  BY NextCacheInv, <1>1, <1>2, PTL DEF Spec
=============================================================================
