----------------------------- MODULE ShopProofs -----------------------------
(***************************************************************************)
(* The shop cache of the C++ back end, for every number of servers, shops  *)
(* and writes and every choice of ways to query: types, the mutual         *)
(* exclusion of the rebuilds, and when an entry may fall behind its row.   *)
(***************************************************************************)
EXTENDS ShopCache, TLAPS

-----------------------------------------------------------------------------
(* Types *)

(* the ways to query that come to a label *)
Fits(label, mode) ==
  /\ label \in {"exists", "hget"} => mode \in AllModes
  /\ label \in {"build", "buildWrite", "exists2", "hget2", "start"} => mode = "logical"
  /\ label \in {"lock", "unlock"} => mode \in {"mutex", "logical"}
  /\ label \in {"readDb", "write"} => mode \in {"default", "passThrough", "mutex"}
  /\ label = "expire" => mode \in {"passThrough", "mutex"}

(* what is on its way to the cache is the version of a row *)
HandlersTyped ==
  /\ pc \in [Servers -> Labels]
  /\ req \in [Servers -> Request \cup {None}]
  /\ got \in [Servers -> Versions]
  /\ \A s \in Servers :
       /\ pc[s] # "idle" => req[s] # None
       /\ Fits(pc[s], req[s].mode)
       /\ pc[s] \in {"write", "buildWrite"} => got[s] # 0
       /\ pc[s] # "idle" /\ req[s].mode = "logical" => curId[s] # None

StoresTyped ==
  /\ db \in [Shops -> Versions]
  /\ cache \in [Shops -> Entry]
  /\ ttl \in [Shops -> BOOLEAN]
  /\ lock \in [Shops -> BOOLEAN]
  /\ raced \subseteq Shops
  /\ \A id \in Shops : ttl[id] => Exists(id)

PoolsTyped ==
  /\ curId \in [Servers -> Shops \cup {None}]
  /\ built \in [Servers -> BOOLEAN]
  /\ pool \in [Servers -> [at : {"idle", "started", "write"},
                           shop : Shops \cup {None}, origin : Versions]]
  /\ \A s \in Servers :
       /\ pool[s].at # "idle" => curId[s] # None
       /\ pool[s].at = "write" => pool[s].shop # None /\ pool[s].origin # 0

Typed == HandlersTyped /\ StoresTyped /\ PoolsTyped

LEMMA InitTyped == Init => Typed
<1> USE VersionAssumption DEF VersionAssumption, Versions
<1>1. Init => HandlersTyped
  BY DEF Init, HandlersTyped, Fits, Labels
<1>2. Init => StoresTyped
  BY DEF Init, StoresTyped, Entry, NoKey
<1>3. Init => PoolsTyped
  BY DEF Init, PoolsTyped, NoRebuild
<1> QED
  BY <1>1, <1>2, <1>3 DEF Typed

LEMMA Moves ==
  ASSUME Typed, NEW s \in Servers, pc[s] # "idle", NEW label \in Labels,
         NEW v \in Versions, Fits(label, req[s].mode),
         label \in {"write", "buildWrite"} => v # 0,
         pc' = [pc EXCEPT ![s] = label], got' = [got EXCEPT ![s] = v], req' = req,
         curId' = curId
  PROVE  HandlersTyped'
BY DEF Typed, HandlersTyped

(* the same for Goto to a label that writes nothing *)
LEMMA Goes ==
  ASSUME Typed, NEW s \in Servers, pc[s] # "idle",
         NEW label \in Labels \ {"write", "buildWrite"},
         Fits(label, req[s].mode), Goto(s, label), curId' = curId
  PROVE  HandlersTyped'
BY DEF Typed, HandlersTyped, Goto

LEMMA Leaves ==
  ASSUME Typed, NEW s \in Servers, Leave(s),
         \A t \in Servers \ {s} : curId'[t] = curId[t]
  PROVE  HandlersTyped'
<1>1. 0 \in Versions
  BY VersionAssumption DEF VersionAssumption, Versions
<1> QED
  BY <1>1 DEF Typed, HandlersTyped, Leave, Labels, Fits

LEMMA HmsetType ==
  ASSUME Typed, NEW id \in Shops, NEW v \in Versions \ {0},
         NEW exp \in {"", "future", "past"}, Hmset(id, v, exp),
         UNCHANGED <<db, ttl, lock, raced>>
  PROVE  StoresTyped'
BY DEF Typed, StoresTyped, Hmset, Entry, Exists

LEMMA HandleTyped ==
  ASSUME Typed, NEW s \in Servers, Handle(s)
  PROVE  Typed'
<1> USE VersionAssumption, NoneAssumption
    DEF VersionAssumption, NoneAssumption, stores, locals
<1>1. pc[s] # "idle" /\ req[s] \in Request /\ req[s].shop \in Shops /\ 0 \in Versions
  <2>1. pc[s] # "idle"
    BY DEF Handle, Build, BuildWrite, ExistsKey, Hget, ExistsExpireTime, HgetExpireTime,
       TryLock, ReadDb, Write, SetTtl, StartRebuild, UnLock, Delete
  <2> QED
    BY <2>1 DEF Typed, HandlersTyped, Request, Versions
<1>2. Fits(pc[s], req[s].mode) /\ got[s] \in Versions
  BY DEF Typed, HandlersTyped
<1>3. CASE UNCHANGED <<stores, locals, raced>> /\ Leave(s)
  <2>1. HandlersTyped'
    BY <1>3, Leaves
  <2> QED
    BY <1>3, <2>1 DEF Typed, StoresTyped, PoolsTyped, Exists
<1>4. CASE UNCHANGED <<stores, locals, raced>> /\ HandlersTyped'
  BY <1>4 DEF Typed, StoresTyped, PoolsTyped, Exists
<1>5. CASE Build(s) \/ ReadDb(s)
  <2>1. db[req[s].shop] \in Versions
    BY <1>1 DEF Typed, StoresTyped
  <2>2. ASSUME NEW label \in {"write", "buildWrite"}, db[req[s].shop] # 0,
               Fits(label, req[s].mode), GotoWith(s, label, db[req[s].shop]),
               UNCHANGED <<stores, locals, raced>>
        PROVE  HandlersTyped'
    BY <1>1, <2>1, <2>2, Moves DEF GotoWith, Labels
  <2> QED
    BY <1>2, <1>3, <1>4, <1>5, <2>2 DEF Build, ReadDb, Fits
<1>6. CASE ExistsKey(s)
  <2>1. ASSUME NEW label \in {"hget", "readDb", "lock", "exists2"}, Goto(s, label),
               Fits(label, req[s].mode)
        PROVE  HandlersTyped'
    BY <1>1, <1>6, <2>1, Goes DEF ExistsKey, Labels
  <2>2. req[s].mode \in AllModes
    BY <1>2, <1>6 DEF ExistsKey, Fits
  <2> QED
    BY <1>4, <1>6, <2>1, <2>2 DEF ExistsKey, Fits, AllModes
<1>7. CASE Hget(s)
  <2>1. cache[req[s].shop].origin \in Versions
    BY <1>1 DEF Typed, StoresTyped, Entry
  <2>2. ASSUME req[s].mode = "logical",
               GotoWith(s, "exists2", cache[req[s].shop].origin)
        PROVE  HandlersTyped'
    BY <1>1, <1>7, <2>1, <2>2, Moves DEF Hget, GotoWith, Labels, Fits
  <2> QED
    BY <1>3, <1>4, <1>7, <2>2 DEF Hget
<1>8. CASE ExistsExpireTime(s) \/ HgetExpireTime(s)
  <2>1. ASSUME NEW label \in {"hget2", "lock"}, Goto(s, label) PROVE HandlersTyped'
    BY <1>1, <1>2, <1>8, <2>1, Goes DEF ExistsExpireTime, HgetExpireTime, Labels, Fits
  <2> QED
    BY <1>3, <1>4, <1>8, <2>1 DEF ExistsExpireTime, HgetExpireTime
<1>9. CASE BuildWrite(s)
  <2>1. got[s] \in Versions \ {0}
    BY <1>2, <1>9 DEF BuildWrite, Typed, HandlersTyped
  <2>2. StoresTyped'
    BY <1>1, <1>9, <2>1, HmsetType DEF BuildWrite
  <2>3. HandlersTyped'
    BY <1>1, <1>2, <1>9, Moves DEF BuildWrite, GotoWith, Labels, Fits, AllModes
  <2> QED
    BY <1>9, <2>2, <2>3 DEF BuildWrite, Typed, PoolsTyped
<1>10. CASE Write(s)
  <2>1. got[s] \in Versions \ {0}
    BY <1>2, <1>10 DEF Write, Typed, HandlersTyped
  <2>2. StoresTyped'
    BY <1>1, <1>10, <2>1, HmsetType DEF Write
  <2>3. CASE Leave(s)
    BY <1>10, <2>2, <2>3, Leaves DEF Write, Typed, PoolsTyped
  <2>4. CASE req[s].mode # "default" /\ GotoWith(s, "expire", 0)
    <3>1. HandlersTyped'
      BY <1>1, <1>2, <1>10, <2>4, Moves DEF Write, GotoWith, Labels, Fits
    <3> QED
      BY <1>10, <2>2, <3>1 DEF Write, Typed, PoolsTyped
  <2> QED
    BY <1>10, <2>3, <2>4 DEF Write
<1>11. CASE TryLock(s)
  <2>1. ASSUME NEW label \in {"readDb", "start", "exists"}, Goto(s, label),
               Fits(label, req[s].mode)
        PROVE  HandlersTyped'
    BY <1>1, <1>11, <2>1, Goes DEF TryLock, Labels
  <2>2. HandlersTyped'
    BY <1>2, <1>11, <2>1, Leaves DEF TryLock, Fits, AllModes
  <2>3. StoresTyped'
    BY <1>1, <1>11 DEF TryLock, Typed, StoresTyped, Exists
  <2> QED
    BY <1>11, <2>2, <2>3 DEF TryLock, Typed, PoolsTyped
<1>12. CASE SetTtl(s)
  <2>1. HandlersTyped'
    BY <1>1, <1>2, <1>12, Goes, Leaves DEF SetTtl, Labels, Fits
  <2>2. StoresTyped'
    BY <1>1, <1>12 DEF SetTtl, Typed, StoresTyped, Exists
  <2> QED
    BY <1>12, <2>1, <2>2 DEF SetTtl, Typed, PoolsTyped
<1>13. CASE StartRebuild(s)
  <2>1. HandlersTyped'
    BY <1>1, <1>2, <1>13, Goes DEF StartRebuild, Labels, Fits
  <2>2. curId[s] # None
    BY <1>1, <1>2, <1>13 DEF StartRebuild, Fits, Typed, HandlersTyped
  <2>3. PoolsTyped'
    BY <1>13, <2>2 DEF StartRebuild, Typed, PoolsTyped
  <2> QED
    BY <1>13, <2>1, <2>3 DEF StartRebuild, Typed, StoresTyped, Exists
<1>14. CASE UnLock(s) \/ Delete(s)
  <2>1. HandlersTyped'
    BY <1>14, Leaves DEF UnLock, Delete
  <2>2. NoKey \in Entry
    BY <1>1 DEF NoKey, Entry
  <2>3. CASE UnLock(s)
    BY <1>1, <2>1, <2>3 DEF UnLock, Typed, StoresTyped, PoolsTyped, Exists
  <2>4. CASE Delete(s)
    BY <1>1, <2>1, <2>2, <2>4 DEF Delete, Typed, StoresTyped, PoolsTyped, Exists
  <2> QED
    BY <1>14, <2>3, <2>4
<1> QED
  BY <1>5, <1>6, <1>7, <1>8, <1>9, <1>10, <1>11, <1>12, <1>13, <1>14 DEF Handle

LEMMA NextTyped ==
  ASSUME Typed, [Next]_vars
  PROVE  Typed'
<1> USE VersionAssumption, NoneAssumption, ModesAssumption
    DEF VersionAssumption, NoneAssumption, ModesAssumption, stores, locals
<1>1. ASSUME NEW s \in Servers, NEW r \in Request, Query(s, r) \/ QueryLogical(s, r)
      PROVE  Typed'
  <2>1. curId' \in [Servers -> Shops \cup {None}] /\ built' \in [Servers -> BOOLEAN]
    BY <1>1 DEF Query, QueryLogical, Typed, PoolsTyped, Request
  <2>2. /\ \A t \in Servers : curId[t] # None => curId'[t] # None
        /\ r.mode = "logical" => curId'[s] # None
    BY <1>1 DEF Query, QueryLogical, Typed, PoolsTyped, Request
  <2>3. PoolsTyped'
    BY <1>1, <2>1, <2>2 DEF Query, QueryLogical, Start, Typed, PoolsTyped
  <2>4. PICK label \in {"exists", "build"} : Start(s, r, label) /\ Fits(label, r.mode)
    BY <1>1 DEF Query, QueryLogical, Fits, AllModes
  <2>5. HandlersTyped'
    BY <2>2, <2>4 DEF Start, Typed, HandlersTyped, Labels
  <2> QED
    BY <2>3, <2>4, <2>5 DEF Start, Typed, StoresTyped, Exists
<1>3. ASSUME NEW s \in Servers, NEW id \in Shops, Update(s, id) PROVE Typed'
  <2>1. [shop |-> id, mode |-> "update"] \in Request
    BY DEF Request
  <2>2. StoresTyped'
    BY <1>3 DEF Update, Typed, StoresTyped, Versions, Exists
  <2>3. HandlersTyped'
    BY <1>3, <2>1 DEF Update, Typed, HandlersTyped, Labels, Fits
  <2> QED
    BY <1>3, <2>2, <2>3 DEF Update, Typed, PoolsTyped
<1>4. ASSUME NEW s \in Servers, Handle(s) PROVE Typed'
  BY <1>4, HandleTyped
<1>5. ASSUME NEW s \in Servers, RebuildRead(s) PROVE Typed'
  <2>1. curId[s] \in Shops /\ db[curId[s]] \in Versions
    BY <1>5 DEF RebuildRead, Typed, StoresTyped, PoolsTyped
  <2>2. PoolsTyped'
    BY <1>5, <2>1 DEF RebuildRead, NoRebuild, Typed, PoolsTyped, Versions
  <2> QED
    BY <1>5, <2>2 DEF RebuildRead, Typed, StoresTyped, HandlersTyped, Exists
<1>6. ASSUME NEW s \in Servers, RebuildWrite(s) PROVE Typed'
  <2>1. pool[s].shop \in Shops /\ pool[s].origin \in Versions \ {0}
    BY <1>6 DEF RebuildWrite, Typed, PoolsTyped
  <2>2. StoresTyped'
    BY <1>6, <2>1, HmsetType DEF RebuildWrite
  <2>3. PoolsTyped'
    BY <1>6 DEF RebuildWrite, NoRebuild, Typed, PoolsTyped, Versions
  <2> QED
    BY <1>6, <2>2, <2>3 DEF RebuildWrite, Typed, HandlersTyped
<1>7. ASSUME NEW s \in Servers, Fail(s) \/ Crash(s) PROVE Typed'
  <2>1. HandlersTyped'
    BY <1>7, Leaves DEF Fail, Crash, Typed, PoolsTyped
  <2>2. Unfinished(s) \subseteq Shops
    BY DEF Unfinished, Typed, HandlersTyped, Request
  <2>3. StoresTyped'
    <3>1. UNCHANGED <<db, cache, ttl, lock>> /\ raced' \subseteq Shops
      BY <1>7, <2>2 DEF Fail, Crash, Typed, StoresTyped
    <3> QED
      BY <3>1 DEF Typed, StoresTyped, Exists
  <2>4. PoolsTyped'
    <3>1. NoRebuild \in [at : {"idle", "started", "write"},
                         shop : Shops \cup {None}, origin : Versions]
      BY DEF NoRebuild, Versions
    <3>2. NoRebuild.at = "idle"
      BY DEF NoRebuild
    <3>3. CASE Fail(s)
      BY <3>3 DEF Fail, Typed, PoolsTyped
    <3>4. CASE Crash(s)
      BY <3>1, <3>2, <3>4 DEF Crash, Typed, PoolsTyped
    <3> QED
      BY <1>7, <3>3, <3>4
  <2> QED
    BY <2>1, <2>3, <2>4 DEF Typed
<1>8. ASSUME NEW id \in Shops,
             Save(id) \/ CacheExpires(id) \/ LockExpires(id) \/ LogicalExpires(id)
      PROVE  Typed'
  <2>1. UNCHANGED <<pc, req, got, locals, raced>>
    BY <1>8 DEF Save, CacheExpires, LockExpires, LogicalExpires
  <2>2. CASE Save(id) \/ LockExpires(id)
    <3>1. 1 \in Versions
      BY DEF Versions
    <3>2. CASE Save(id)
      BY <2>1, <3>1, <3>2 DEF Save, Typed, StoresTyped, HandlersTyped, PoolsTyped, Exists
    <3>3. CASE LockExpires(id)
      BY <2>1, <3>3 DEF LockExpires, Typed, StoresTyped, HandlersTyped, PoolsTyped, Exists
    <3> QED
      BY <2>2, <3>2, <3>3
  <2>3. CASE CacheExpires(id)
    <3>1. StoresTyped'
      BY <2>3 DEF CacheExpires, NoKey, Entry, Versions, Typed, StoresTyped, Exists
    <3> QED
      BY <2>1, <3>1 DEF Typed, HandlersTyped, PoolsTyped
  <2>4. CASE LogicalExpires(id)
    <3>1. StoresTyped'
      BY <2>4 DEF LogicalExpires, Entry, Typed, StoresTyped, Exists
    <3> QED
      BY <2>1, <3>1 DEF Typed, HandlersTyped, PoolsTyped
  <2> QED
    BY <1>8, <2>2, <2>3, <2>4
<1>9. CASE UNCHANGED vars
  BY <1>9 DEF vars, Typed, StoresTyped, HandlersTyped, PoolsTyped, Exists
<1> QED
  BY <1>1, <1>3, <1>4, <1>5, <1>6, <1>7, <1>8, <1>9 DEF Next

(* Every variable keeps its type, no handler has a label of another way to *)
(* query, and a key that is gone has no expiry.                            *)
THEOREM TypeCorrect == Spec => []TypeOK
<1>1. Typed => TypeOK
  BY DEF Typed, HandlersTyped, StoresTyped, PoolsTyped, TypeOK
<1> QED
  BY InitTyped, NextTyped, <1>1, PTL DEF Spec

-----------------------------------------------------------------------------
(* Mutual exclusion *)

LockHeld == \A s \in Servers, id \in Shops : InSection(s, id) => lock[id]

OneInside ==
  \A s, t \in Servers, id \in Shops : InSection(s, id) /\ InSection(t, id) => s = t

(* only tryLock lets a handler in *)
LEMMA SectionsShrink ==
  ASSUME Typed, [Next]_vars, \A s \in Servers : ~TryLock(s),
         NEW t \in Servers, NEW id \in Shops, InSection(t, id)'
  PROVE  InSection(t, id)
<1> USE DEF InSection, At, Typed, HandlersTyped, stores
<1>1. ASSUME NEW s \in Servers, NEW r \in Request, Query(s, r) \/ QueryLogical(s, r)
      PROVE  InSection(t, id)
  BY <1>1 DEF Query, QueryLogical, Start
<1>2. ASSUME NEW s \in Servers, NEW i \in Shops, Update(s, i) PROVE InSection(t, id)
  BY <1>2 DEF Update
<1>3. ASSUME NEW s \in Servers,
             \/ Build(s) \/ BuildWrite(s) \/ ReadDb(s) \/ Write(s)
             \/ Hget(s) \/ ExistsExpireTime(s) \/ HgetExpireTime(s)
      PROVE  InSection(t, id)
  BY <1>3 DEF Build, BuildWrite, ReadDb, Write, Hget, ExistsExpireTime, HgetExpireTime,
     Goto, GotoWith, Leave
<1>4. ASSUME NEW s \in Servers, ExistsKey(s) PROVE InSection(t, id)
  <2>1. req[s].mode \in AllModes
    BY <1>4 DEF ExistsKey, Fits
  <2> QED
    BY <1>4, <2>1 DEF ExistsKey, Goto, AllModes
<1>5. ASSUME NEW s \in Servers,
             \/ SetTtl(s) \/ UnLock(s) \/ Delete(s) \/ StartRebuild(s)
             \/ Fail(s) \/ Crash(s) \/ RebuildRead(s) \/ RebuildWrite(s)
      PROVE  InSection(t, id)
  BY <1>5 DEF SetTtl, UnLock, Delete, StartRebuild, Fail, Crash, RebuildRead,
     RebuildWrite, Goto, Leave
<1>6. ASSUME NEW i \in Shops,
             Save(i) \/ CacheExpires(i) \/ LockExpires(i) \/ LogicalExpires(i)
      PROVE  InSection(t, id)
  BY <1>6 DEF Save, CacheExpires, LockExpires, LogicalExpires
<1>7. CASE UNCHANGED vars
  BY <1>7 DEF vars
<1> QED
  BY <1>1, <1>2, <1>3, <1>4, <1>5, <1>6, <1>7 DEF Next, Handle

(* DEL and the expiry are the only ways to lose the lock *)
LEMMA LockLost ==
  ASSUME Typed, [Next]_vars, NEW id \in Shops, lock[id], ~lock'[id]
  PROVE  \/ \E s \in Servers : UnLock(s) /\ req[s].shop = id
         \/ LockExpires(id)
BY DEF Next, Handle, Query, QueryLogical, Start, Update, Build, BuildWrite, ExistsKey,
   Hget, ExistsExpireTime, HgetExpireTime, TryLock, ReadDb, Write, SetTtl, StartRebuild,
   UnLock, Delete, RebuildRead, RebuildWrite, Fail, Crash, Save, CacheExpires,
   LockExpires, LogicalExpires, vars, stores, Typed, StoresTyped

(* If a holder is done before the lock expires, one server at a time is    *)
(* between tryLock and unlock of queryWithMutex for a shop.                *)
THEOREM RebuildsExclude ==
  ASSUME Prompt PROVE Spec => []OneRebuild
<1>1. Init => LockHeld /\ OneInside
  BY NoneAssumption DEF Init, LockHeld, OneInside, InSection, At
<1>2. Typed /\ LockHeld /\ OneInside /\ [Next]_vars => LockHeld' /\ OneInside'
  <2> SUFFICES ASSUME Typed, LockHeld, OneInside, [Next]_vars
               PROVE  LockHeld' /\ OneInside'
    OBVIOUS
  <2>1. CASE \E s \in Servers : TryLock(s)
    <3>1. PICK s \in Servers, i \in Shops : TryLock(s) /\ i = req[s].shop
      BY <2>1 DEF TryLock, Typed, HandlersTyped, Request
    <3>2. lock \in [Shops -> BOOLEAN]
      BY DEF Typed, StoresTyped
    <3>3. \A t \in Servers, id \in Shops :
            t # s /\ InSection(t, id)' => InSection(t, id)
      BY <3>1 DEF TryLock, Goto, Leave, Typed, HandlersTyped, InSection, At
    <3>4. InSection(s, i)' => ~lock[i] /\ lock' = [lock EXCEPT ![i] = TRUE]
      BY <3>1 DEF TryLock, Goto, Leave, Typed, HandlersTyped, InSection, At
    <3>5. \A id \in Shops : InSection(s, id)' => id = i
      BY <3>1 DEF TryLock, Goto, Leave, Typed, HandlersTyped, InSection, At
    <3>6. \A id \in Shops : lock[id] => lock'[id]
      BY <3>1, <3>2 DEF TryLock
    <3>7. LockHeld'
      BY <3>2, <3>3, <3>4, <3>5, <3>6 DEF LockHeld
    <3>8. OneInside'
      BY <3>2, <3>3, <3>4, <3>5 DEF OneInside, LockHeld
    <3> QED
      BY <3>7, <3>8
  <2>2. CASE \A s \in Servers : ~TryLock(s)
    <3>1. \A t \in Servers, id \in Shops : InSection(t, id)' => InSection(t, id)
      BY <2>2, SectionsShrink
    <3>2. OneInside'
      BY <3>1 DEF OneInside
    <3>3. LockHeld'
      <4> SUFFICES ASSUME NEW t \in Servers, NEW id \in Shops, InSection(t, id)',
                          ~lock'[id]
                   PROVE  FALSE
        BY DEF LockHeld
      <4>1. InSection(t, id) /\ lock[id]
        BY <3>1 DEF LockHeld
      <4>2. CASE LockExpires(id)
        BY <4>1, <4>2 DEF LockExpires
      <4>3. ASSUME NEW s \in Servers, UnLock(s), req[s].shop = id PROVE FALSE
        <5>1. InSection(s, id) /\ ~InSection(s, id)'
          BY <4>3 DEF UnLock, Leave, InSection, At, Typed, HandlersTyped
        <5> QED
          BY <4>1, <5>1 DEF OneInside
      <4> QED
        BY <4>1, <4>2, <4>3, LockLost
    <3> QED
      BY <3>2, <3>3
  <2> QED
    BY <2>1, <2>2
<1>3. Typed /\ OneInside => OneRebuild
  BY DEF OneInside, OneRebuild, InSection, At, Typed, HandlersTyped
<1> QED
  BY InitTyped, NextTyped, <1>1, <1>2, <1>3, PTL DEF Spec

-----------------------------------------------------------------------------
(* Coherence *)

(* what is on its way to the cache is not older than the row *)
FillsFresh ==
  \A s \in Servers :
    /\ pc[s] \in {"write", "buildWrite"} =>
         req[s].shop \in raced \/ got[s] >= db[req[s].shop]
    /\ pool[s].at = "write" =>
         pool[s].shop \in raced \/ pool[s].origin >= db[pool[s].shop]

CacheInv == FillsFresh /\ CoherentUnlessRaced

(* An entry falls behind its row only between the two writes of update, or *)
(* after an update between the two halves of a fill or one that ended in   *)
(* between.                                                                *)
THEOREM CacheCoherent == Spec => []CoherentUnlessRaced
<1>1. Init => CacheInv
  BY DEF Init, CacheInv, FillsFresh, CoherentUnlessRaced, Stale, Exists, NoKey, NoRebuild
<1>2. Typed /\ Typed' /\ CacheInv /\ [Next]_vars => CacheInv'
  <2> SUFFICES ASSUME Typed, Typed', CacheInv, [Next]_vars PROVE CacheInv'
    OBVIOUS
  <2> USE DEF CacheInv, stores, locals
  <2>1. ASSUME UNCHANGED <<db, cache, raced>>,
               \A s \in Servers : pc[s] = "delete" =>
                 pc'[s] = "delete" /\ req'[s].shop = req[s].shop
        PROVE  CoherentUnlessRaced'
    BY <2>1 DEF CoherentUnlessRaced, Stale, Exists
  <2>2. ASSUME NEW s \in Servers, NEW r \in Request, Query(s, r) \/ QueryLogical(s, r)
        PROVE  CacheInv'
    <3>1. \A t \in Servers : t # s => pc'[t] = pc[t] /\ req'[t] = req[t]
      BY <2>2 DEF Query, QueryLogical, Start, Typed, HandlersTyped
    <3>2. pc[s] = "idle" /\ pc'[s] \in {"exists", "build"}
          /\ UNCHANGED <<db, cache, got, pool, raced>>
      BY <2>2 DEF Query, QueryLogical, Start, Typed, HandlersTyped
    <3>3. FillsFresh'
      BY <3>1, <3>2 DEF FillsFresh
    <3> QED
      BY <2>1, <3>1, <3>2, <3>3
  <2>3. ASSUME NEW s \in Servers, NEW id \in Shops, Update(s, id) PROVE CacheInv'
    <3>1. /\ \A t \in Servers : t # s => pc'[t] = pc[t] /\ req'[t] = req[t]
          /\ pc'[s] = "delete" /\ req'[s].shop = id
          /\ \A i \in Shops : i # id => db'[i] = db[i]
          /\ raced \subseteq raced' /\ (Filling(id) => id \in raced')
          /\ UNCHANGED <<cache, got, pool>>
      BY <2>3 DEF Update, Typed, HandlersTyped, StoresTyped
    <3>2. FillsFresh'
      <4>1. ASSUME NEW t \in Servers, pc'[t] \in {"write", "buildWrite"}
            PROVE  req'[t].shop \in raced' \/ got'[t] >= db'[req'[t].shop]
        <5>1. t # s /\ pc[t] \in {"write", "buildWrite"} /\ req[t].shop \in Shops
          BY <3>1, <4>1 DEF Typed, HandlersTyped, Request
        <5>2. CASE req[t].shop = id
          BY <3>1, <5>1, <5>2 DEF Filling
        <5>3. CASE req[t].shop # id
          BY <3>1, <5>1, <5>3 DEF FillsFresh
        <5> QED
          BY <5>2, <5>3
      <4>2. ASSUME NEW t \in Servers, pool'[t].at = "write"
            PROVE  pool'[t].shop \in raced' \/ pool'[t].origin >= db'[pool'[t].shop]
        <5>1. pool[t].at = "write" /\ pool[t].shop \in Shops
          BY <3>1, <4>2 DEF Typed, PoolsTyped
        <5>2. CASE pool[t].shop = id
          BY <3>1, <5>1, <5>2 DEF Filling
        <5>3. CASE pool[t].shop # id
          BY <3>1, <5>1, <5>3 DEF FillsFresh
        <5> QED
          BY <5>2, <5>3
      <4> QED
        BY <4>1, <4>2 DEF FillsFresh
    <3>3. CoherentUnlessRaced'
      <4> SUFFICES ASSUME NEW i \in Shops, Stale(i)', i \notin raced'
                   PROVE  \E t \in Servers : pc'[t] = "delete" /\ req'[t].shop = i
        BY DEF CoherentUnlessRaced
      <4>1. CASE i = id
        BY <3>1, <4>1
      <4>2. CASE i # id
        BY <2>3, <3>1, <4>2 DEF CoherentUnlessRaced, Stale, Exists, Update
      <4> QED
        BY <4>1, <4>2
    <3> QED
      BY <3>2, <3>3
  <2>4. ASSUME NEW s \in Servers, Handle(s) PROVE CacheInv'
    <3>1. CASE \/ Build(s) \/ ReadDb(s) \/ ExistsKey(s) \/ Hget(s)
               \/ ExistsExpireTime(s) \/ HgetExpireTime(s) \/ TryLock(s)
               \/ SetTtl(s) \/ StartRebuild(s) \/ UnLock(s)
      <4>1. UNCHANGED <<db, cache, raced>> /\ pc[s] # "delete"
        BY <3>1 DEF Build, ReadDb, ExistsKey, Hget, ExistsExpireTime, HgetExpireTime,
           TryLock, SetTtl, StartRebuild, UnLock
      <4>2. \A t \in Servers : t # s => /\ pc'[t] = pc[t] /\ req'[t] = req[t]
                                        /\ got'[t] = got[t]
        BY <3>1 DEF Build, ReadDb, ExistsKey, Hget, ExistsExpireTime, HgetExpireTime,
           TryLock, SetTtl, StartRebuild, UnLock, Goto, GotoWith, Leave, Typed,
           HandlersTyped
      <4>3. \A t \in Servers : pool'[t].at = "write" => pool'[t] = pool[t]
        BY <3>1 DEF Build, ReadDb, ExistsKey, Hget, ExistsExpireTime, HgetExpireTime,
           TryLock, SetTtl, StartRebuild, UnLock, Typed, PoolsTyped
      <4>4. pc'[s] \in {"write", "buildWrite"} => got'[s] = db[req'[s].shop]
        <5>1. CASE Build(s) \/ ReadDb(s)
          BY <5>1 DEF Build, ReadDb, GotoWith, Leave, Typed, HandlersTyped
        <5>2. CASE ExistsKey(s)
          <6>1. req[s].mode \in AllModes
            BY <5>2 DEF ExistsKey, Fits, Typed, HandlersTyped
          <6> QED
            BY <5>2, <6>1 DEF ExistsKey, AllModes, Goto, Typed, HandlersTyped
        <5>3. CASE \/ Hget(s) \/ ExistsExpireTime(s) \/ HgetExpireTime(s) \/ TryLock(s)
                   \/ SetTtl(s) \/ StartRebuild(s) \/ UnLock(s)
          BY <5>3 DEF Hget, ExistsExpireTime, HgetExpireTime, TryLock, SetTtl,
             StartRebuild, UnLock, Goto, GotoWith, Leave, Typed, HandlersTyped
        <5> QED
          BY <3>1, <5>1, <5>2, <5>3
      <4>5. FillsFresh'
        <5>1. pc'[s] \in {"write", "buildWrite"} => db[req'[s].shop] \in Nat
          BY DEF Typed, HandlersTyped, StoresTyped, Request, Versions
        <5> QED
          BY <4>1, <4>2, <4>3, <4>4, <5>1 DEF FillsFresh
      <4> QED
        BY <2>1, <4>1, <4>2, <4>5
    <3>2. CASE BuildWrite(s) \/ Write(s)
      <4>1. /\ \A t \in Servers : t # s => /\ pc'[t] = pc[t] /\ req'[t] = req[t]
                                           /\ got'[t] = got[t]
            /\ pc[s] \in {"write", "buildWrite"} /\ pc'[s] \in {"exists", "expire", "idle"}
            /\ UNCHANGED <<db, pool, raced>>
        BY <3>2 DEF BuildWrite, Write, GotoWith, Leave, Typed, HandlersTyped
      <4>2. /\ cache'[req[s].shop].origin = got[s]
            /\ \A i \in Shops : i # req[s].shop => cache'[i] = cache[i]
        <5>1. req[s].shop \in Shops
          BY <4>1 DEF Typed, HandlersTyped, Request
        <5> QED
          BY <3>2, <5>1 DEF BuildWrite, Write, Hmset, Typed, StoresTyped
      <4>3. req[s].shop \in raced \/ got[s] >= db[req[s].shop]
        BY <4>1 DEF FillsFresh
      <4>4. got[s] \in Nat /\ db[req[s].shop] \in Nat
        BY <4>1 DEF Typed, HandlersTyped, StoresTyped, Request, Versions
      <4>5. FillsFresh'
        BY <4>1 DEF FillsFresh
      <4>6. CoherentUnlessRaced'
        BY <4>1, <4>2, <4>3, <4>4 DEF CoherentUnlessRaced, Stale, Exists
      <4> QED
        BY <4>5, <4>6
    <3>3. CASE Delete(s)
      <4>1. /\ \A t \in Servers : t # s => /\ pc'[t] = pc[t] /\ req'[t] = req[t]
                                           /\ got'[t] = got[t]
            /\ pc[s] = "delete" /\ pc'[s] = "idle" /\ UNCHANGED <<db, pool, raced>>
        BY <3>3 DEF Delete, Leave, Typed, HandlersTyped
      <4>2. req[s].shop \in Shops
        BY <4>1 DEF Typed, HandlersTyped, Request
      <4>3. /\ cache'[req[s].shop].origin = 0
            /\ \A i \in Shops : i # req[s].shop => cache'[i] = cache[i]
        BY <3>3, <4>2 DEF Delete, NoKey, Typed, StoresTyped
      <4>4. FillsFresh'
        BY <4>1 DEF FillsFresh
      <4>5. CoherentUnlessRaced'
        BY <4>1, <4>3 DEF CoherentUnlessRaced, Stale, Exists
      <4> QED
        BY <4>4, <4>5
    <3> QED
      BY <2>4, <3>1, <3>2, <3>3 DEF Handle
  <2>5. ASSUME NEW s \in Servers, RebuildRead(s) PROVE CacheInv'
    <3>1. UNCHANGED <<db, cache, raced, pc, req, got>>
      BY <2>5 DEF RebuildRead
    <3>2. pool'[s].at = "write" => pool'[s].origin = db[pool'[s].shop]
      BY <2>5 DEF RebuildRead, NoRebuild, Typed, PoolsTyped
    <3>3. pool'[s].at = "write" => db[pool'[s].shop] \in Nat
      BY DEF Typed, StoresTyped, PoolsTyped, Versions
    <3>4. \A t \in Servers : t # s => pool'[t] = pool[t]
      BY <2>5 DEF RebuildRead, Typed, PoolsTyped
    <3>5. FillsFresh'
      BY <3>1, <3>2, <3>3, <3>4 DEF FillsFresh
    <3> QED
      BY <2>1, <3>1, <3>5
  <2>6. ASSUME NEW s \in Servers, RebuildWrite(s) PROVE CacheInv'
    <3>1. UNCHANGED <<db, raced, pc, req, got>> /\ pool[s].at = "write"
      BY <2>6 DEF RebuildWrite
    <3>2. pool[s].shop \in Shops /\ pool[s].origin \in Nat /\ db[pool[s].shop] \in Nat
      BY <3>1 DEF Typed, PoolsTyped, StoresTyped, Versions
    <3>3. /\ cache'[pool[s].shop].origin = pool[s].origin
          /\ \A i \in Shops : i # pool[s].shop => cache'[i] = cache[i]
      BY <2>6, <3>2 DEF RebuildWrite, Hmset, Typed, StoresTyped
    <3>4. pool[s].shop \in raced \/ pool[s].origin >= db[pool[s].shop]
      BY <3>1 DEF FillsFresh
    <3>5. \A t \in Servers : pool'[t].at = "write" => pool'[t] = pool[t]
      BY <2>6 DEF RebuildWrite, NoRebuild, Typed, PoolsTyped
    <3>6. FillsFresh'
      BY <3>1, <3>5 DEF FillsFresh
    <3>7. CoherentUnlessRaced'
      BY <3>1, <3>2, <3>3, <3>4 DEF CoherentUnlessRaced, Stale, Exists
    <3> QED
      BY <3>6, <3>7
  <2>7. ASSUME NEW s \in Servers, Fail(s) \/ Crash(s) PROVE CacheInv'
    <3>1. /\ \A t \in Servers : t # s => /\ pc'[t] = pc[t] /\ req'[t] = req[t]
                                         /\ got'[t] = got[t]
          /\ pc'[s] = "idle" /\ UNCHANGED <<db, cache>> /\ raced \subseteq raced'
          /\ pc[s] = "delete" => req[s].shop \in raced'
      BY <2>7 DEF Fail, Crash, Leave, Unfinished, Typed, HandlersTyped
    <3>2. \A t \in Servers : pool'[t].at = "write" => pool'[t] = pool[t]
      BY <2>7 DEF Fail, Crash, NoRebuild, Typed, PoolsTyped
    <3>3. FillsFresh'
      BY <3>1, <3>2 DEF FillsFresh
    <3>4. CoherentUnlessRaced'
      BY <3>1 DEF CoherentUnlessRaced, Stale, Exists
    <3> QED
      BY <3>3, <3>4
  <2>8. ASSUME NEW id \in Shops, Save(id) PROVE CacheInv'
    <3>1. /\ db[id] = 0 /\ db'[id] = 1 /\ \A i \in Shops : i # id => db'[i] = db[i]
          /\ UNCHANGED <<cache, pc, req, got, pool, raced>>
      BY <2>8 DEF Save, Typed, StoresTyped
    <3>2. \A s \in Servers :
            /\ pc[s] \in {"write", "buildWrite"} =>
                 got[s] >= 1 /\ req[s].shop \in Shops
            /\ pool[s].at = "write" => pool[s].origin >= 1 /\ pool[s].shop \in Shops
      BY DEF Typed, HandlersTyped, PoolsTyped, Versions, Request
    <3>3. FillsFresh'
      BY <3>1, <3>2 DEF FillsFresh
    <3>4. \A i \in Shops : cache[i].origin \in Nat
      BY DEF Typed, StoresTyped, Entry, Versions
    <3>5. CoherentUnlessRaced'
      BY <3>1, <3>4 DEF CoherentUnlessRaced, Stale, Exists
    <3> QED
      BY <3>3, <3>5
  <2>9. ASSUME NEW id \in Shops,
               CacheExpires(id) \/ LockExpires(id) \/ LogicalExpires(id)
        PROVE  CacheInv'
    <3>1. UNCHANGED <<db, pc, req, got, pool, raced>>
      BY <2>9 DEF CacheExpires, LockExpires, LogicalExpires, locals
    <3>2. \A i \in Shops : cache'[i].origin \in {0, cache[i].origin}
      BY <2>9 DEF CacheExpires, LockExpires, LogicalExpires, NoKey, Typed, StoresTyped,
         Entry
    <3>3. FillsFresh' /\ CoherentUnlessRaced'
      BY <3>1, <3>2 DEF FillsFresh, CoherentUnlessRaced, Stale, Exists
    <3> QED
      BY <3>3
  <2>10. CASE UNCHANGED vars
    BY <2>10 DEF vars, FillsFresh, CoherentUnlessRaced, Stale, Exists
  <2> QED
    BY <2>2, <2>3, <2>4, <2>5, <2>6, <2>7, <2>8, <2>9, <2>10 DEF Next
<1>3. CacheInv => CoherentUnlessRaced
  BY DEF CacheInv
<1> QED
  BY InitTyped, NextTyped, <1>1, <1>2, <1>3, PTL DEF Spec
-----------------------------------------------------------------------------
(* The expiry of entries *)

(* no thread of the pool runs, and no handler queries in another way *)
WithExpiry ==
  \A s \in Servers : /\ pool[s].at = "idle"
                     /\ pc[s] # "idle" => req[s].mode \in {"passThrough", "mutex", "update"}

(* an entry expires, or its handler is about to see to it *)
EntriesExpire ==
  \A id \in Shops :
    Exists(id) => ttl[id] \/ \E s \in Servers : pc[s] = "expire" /\ req[s].shop = id

(* Other ways to query are not in use, and stay so. *)
LEMMA ModesKept ==
  ASSUME Typed, WithExpiry, [Next]_vars, Modes \subseteq {"passThrough", "mutex"}
  PROVE  WithExpiry'
<1> USE DEF WithExpiry, Typed, HandlersTyped, PoolsTyped, stores, locals
<1>1. ASSUME NEW s \in Servers, NEW r \in Request, Query(s, r) \/ QueryLogical(s, r)
      PROVE  WithExpiry'
  BY <1>1 DEF Query, QueryLogical, Start
<1>2. ASSUME NEW s \in Servers, NEW id \in Shops, Update(s, id) PROVE WithExpiry'
  BY <1>2 DEF Update
<1>3. ASSUME NEW s \in Servers, Handle(s) PROVE WithExpiry'
  <2>1. pc[s] \notin {"idle", "build", "buildWrite", "exists2", "hget2", "start"}
    BY <1>3 DEF Handle, Build, BuildWrite, ExistsKey, Hget, ExistsExpireTime,
       HgetExpireTime, TryLock, ReadDb, Write, SetTtl, StartRebuild, UnLock, Delete, Fits
  <2> QED
    BY <1>3, <2>1 DEF Handle, Build, BuildWrite, ExistsKey, Hget, ExistsExpireTime,
       HgetExpireTime, TryLock, ReadDb, Write, SetTtl, StartRebuild, UnLock, Delete,
       Goto, GotoWith, Leave, Fits
<1>4. ASSUME NEW s \in Servers,
             RebuildRead(s) \/ RebuildWrite(s) \/ Fail(s) \/ Crash(s)
      PROVE  WithExpiry'
  BY <1>4 DEF RebuildRead, RebuildWrite, Fail, Crash, Leave, NoRebuild
<1>5. ASSUME NEW id \in Shops,
             Save(id) \/ CacheExpires(id) \/ LockExpires(id) \/ LogicalExpires(id)
      PROVE  WithExpiry'
  BY <1>5 DEF Save, CacheExpires, LockExpires, LogicalExpires
<1>6. CASE UNCHANGED vars
  BY <1>6 DEF vars
<1> QED
  BY <1>1, <1>2, <1>3, <1>4, <1>5, <1>6 DEF Next

(* The safety half of StaleEnds: without getById and the logical expiry,   *)
(* and when no handler fails between hmset and expire, every entry expires *)
(* or is about to be given its CACHE_SHOP_TTL; the rest is the clock's.    *)
THEOREM NoEntryForEver ==
  ASSUME Modes \subseteq {"passThrough", "mutex"}, ~Faults PROVE Spec => []EntriesExpire
<1>1. Init => WithExpiry /\ EntriesExpire
  BY DEF Init, WithExpiry, EntriesExpire, Exists, NoKey, NoRebuild
<1>2. Typed /\ WithExpiry /\ EntriesExpire /\ [Next]_vars => WithExpiry' /\ EntriesExpire'
  <2> SUFFICES ASSUME Typed, WithExpiry, EntriesExpire, [Next]_vars,
                      NEW id \in Shops, Exists(id)'
               PROVE  ttl'[id] \/ \E s \in Servers : pc'[s] = "expire" /\ req'[s].shop = id
    BY ModesKept DEF EntriesExpire, Exists
  <2> USE DEF stores, locals, Exists, Typed, HandlersTyped, StoresTyped
  <2>1. ASSUME NEW s \in Servers, Write(s), req[s].shop = id
        PROVE  pc'[s] = "expire" /\ req'[s].shop = id
    BY <2>1 DEF Write, GotoWith, WithExpiry
  <2>2. ASSUME NEW s \in Servers, SetTtl(s), req[s].shop = id PROVE ttl'[id]
    BY <2>2 DEF SetTtl
  <2>3. ASSUME \A s \in Servers : ~(Write(s) /\ req[s].shop = id),
               \A s \in Servers : ~(SetTtl(s) /\ req[s].shop = id)
        PROVE  Exists(id) /\ (ttl[id] => ttl'[id])
    <3>1. \A s \in Servers : ~BuildWrite(s) /\ ~RebuildWrite(s)
      BY DEF BuildWrite, RebuildWrite, WithExpiry, Fits
    <3>2. \A s \in Servers : pc[s] # "idle" => req[s].shop \in Shops
      BY DEF Request
    <3>3. ASSUME NEW s \in Servers, Write(s) \/ SetTtl(s) \/ Delete(s)
          PROVE  Exists(id) /\ (ttl[id] => ttl'[id])
      <4>1. pc[s] # "idle" /\ req[s].shop \in Shops
        BY <3>2, <3>3 DEF Write, SetTtl, Delete
      <4>2. CASE Write(s)
        BY <2>3, <4>1, <4>2 DEF Write, Hmset
      <4>3. CASE SetTtl(s)
        BY <2>3, <4>1, <4>3 DEF SetTtl
      <4>4. CASE Delete(s)
        BY <4>1, <4>4 DEF Delete, NoKey
      <4> QED
        BY <3>3, <4>2, <4>3, <4>4
    <3>4. ASSUME NEW i \in Shops, CacheExpires(i) \/ LogicalExpires(i)
          PROVE  Exists(id) /\ (ttl[id] => ttl'[id])
      BY <3>4 DEF CacheExpires, LogicalExpires, NoKey, Entry
    <3>5. CASE UNCHANGED <<cache, ttl>>
      BY <3>5
    <3> QED
      BY <3>1, <3>3, <3>4, <3>5 DEF Next, Handle, Query, QueryLogical, Start, Update,
         Build, ExistsKey, Hget, ExistsExpireTime, HgetExpireTime, TryLock, ReadDb,
         StartRebuild, UnLock, RebuildRead, Fail, Crash, Save, LockExpires, vars
  <2>4. ASSUME NEW t \in Servers, pc[t] = "expire", req[t].shop = id, ~SetTtl(t)
        PROVE  pc'[t] = "expire" /\ req'[t].shop = id
    <3>1. ASSUME NEW s \in Servers, s # t
          PROVE  /\ \A label : Goto(s, label) => pc'[t] = pc[t] /\ req'[t] = req[t]
                 /\ \A label, v : GotoWith(s, label, v) => pc'[t] = pc[t] /\ req'[t] = req[t]
                 /\ Leave(s) => pc'[t] = pc[t] /\ req'[t] = req[t]
      BY <3>1 DEF Goto, GotoWith, Leave
    <3>2. ASSUME NEW s \in Servers, Handle(s) PROVE pc'[t] = pc[t] /\ req'[t] = req[t]
      BY <2>4, <3>1, <3>2 DEF Handle, Build, BuildWrite, ExistsKey, Hget,
         ExistsExpireTime, HgetExpireTime, TryLock, ReadDb, Write, SetTtl, StartRebuild,
         UnLock, Delete
    <3>3. ASSUME NEW s \in Servers, NEW r \in Request, Query(s, r) \/ QueryLogical(s, r)
          PROVE  pc'[t] = pc[t] /\ req'[t] = req[t]
      BY <2>4, <3>3 DEF Query, QueryLogical, Start
    <3>4. ASSUME NEW s \in Servers, NEW i \in Shops, Update(s, i)
          PROVE  pc'[t] = pc[t] /\ req'[t] = req[t]
      BY <2>4, <3>4 DEF Update
    <3>5. \A s \in Servers : ~Fail(s) /\ ~Crash(s)
      BY DEF Fail, Crash, WithExpiry
    <3>6. CASE UNCHANGED <<pc, req>>
      BY <2>4, <3>6
    <3> QED
      BY <2>4, <3>2, <3>3, <3>4, <3>5, <3>6 DEF Next, RebuildRead, RebuildWrite, Save,
         CacheExpires, LockExpires, LogicalExpires, vars
  <2> QED
    BY <2>1, <2>2, <2>3, <2>4 DEF EntriesExpire
<1> QED
  BY InitTyped, NextTyped, <1>1, <1>2, PTL DEF Spec
=============================================================================
