----------------------------- MODULE ShopCache -----------------------------
(***************************************************************************)
(* Shops behind a Redis cache in the C++ back end                          *)
(* (services/ShopServiceImpl.cc): the four ways to query a shop, and       *)
(* update.                                                                 *)
(*                                                                         *)
(* As in SeckillOrder a server process handles one request at a time and   *)
(* an action is the code up to and including one SQL statement or one      *)
(* Redis command; queryWithLogicalExpire also starts a thread of a pool,   *)
(* which runs beside the requests of its process.  A shop is abstracted to *)
(* the number of times its row was written.                                *)
(***************************************************************************)
EXTENDS Integers

CONSTANTS
  Servers, Shops,
  Modes,        \* the ways to query in use: a subset of AllModes
  MaxVersion,   \* bound: writes of one row
  Prompt,       \* TRUE: a lock holder is done within LOCK_SHOP_TTL
  Faults,       \* TRUE: servers crash, statements and commands fail
  None          \* model value: no request

(* getById, queryWithPassThrough, queryWithMutex, queryWithLogicalExpire *)
AllModes == {"default", "passThrough", "mutex", "logical"}

ASSUME ModesAssumption == Modes \subseteq AllModes
ASSUME VersionAssumption == MaxVersion \in Nat \ {0}
ASSUME SwitchAssumption == Prompt \in BOOLEAN /\ Faults \in BOOLEAN

VARIABLES
  db,       \* tb_shop: the version of the row of each shop, 0 if it has none
  cache,    \* the hash under CACHE_SHOP_KEY + id
  ttl,      \* does that key have an expiry
  lock,     \* does the key LOCK_SHOP_KEY + id exist
  pc,       \* how far the handler of each server is
  req,      \* the shop it works for and the way it queries
  got,      \* the version it has read
  curId,    \* ShopServiceImpl::_curId
  built,    \* ShopServiceImpl::isLogicalExpire
  pool,     \* the rebuild that is running on the thread pool
  raced     \* history: shops written while a fill of theirs was under way

vars == <<db, cache, ttl, lock, pc, req, got, curId, built, pool, raced>>
stores == <<db, cache, ttl, lock>>
locals == <<curId, built, pool>>

Request == [shop : Shops, mode : Modes \cup {"update"}]
ASSUME NoneAssumption == None \notin Request /\ None \notin Shops

Versions == 0 .. MaxVersion

(* fields OriginData (0: no such key) and ExpireTime *)
Entry == [origin : Versions, expire : {"none", "future", "past"}]
NoKey == [origin |-> 0, expire |-> "none"]
NoRebuild == [at |-> "idle", shop |-> None, origin |-> 0]

Labels == {"idle", "build", "buildWrite", "exists", "hget", "exists2", "hget2",
           "lock", "readDb", "write", "expire", "start", "unlock", "delete"}

Exists(id) == cache[id].origin # 0

TypeOK ==
  /\ db \in [Shops -> Versions]
  /\ cache \in [Shops -> Entry]
  /\ ttl \in [Shops -> BOOLEAN]
  /\ lock \in [Shops -> BOOLEAN]
  /\ pc \in [Servers -> Labels]
  /\ req \in [Servers -> Request \cup {None}]
  /\ got \in [Servers -> Versions]
  /\ curId \in [Servers -> Shops \cup {None}]
  /\ built \in [Servers -> BOOLEAN]
  /\ pool \in [Servers -> [at : {"idle", "started", "write"},
                           shop : Shops \cup {None}, origin : Versions]]
  /\ raced \subseteq Shops
  /\ \A s \in Servers : pc[s] # "idle" => req[s] # None
  /\ \A id \in Shops : ttl[id] => Exists(id)

Init ==
  /\ db \in [Shops -> {0, 1}]
  /\ cache = [id \in Shops |-> NoKey]
  /\ ttl = [id \in Shops |-> FALSE]
  /\ lock = [id \in Shops |-> FALSE]
  /\ pc = [s \in Servers |-> "idle"]
  /\ req = [s \in Servers |-> None]
  /\ got = [s \in Servers |-> 0]
  /\ curId = [s \in Servers |-> None]
  /\ built = [s \in Servers |-> FALSE]
  /\ pool = [s \in Servers |-> NoRebuild]
  /\ raced = {}

-----------------------------------------------------------------------------
At(s, label, modes) == pc[s] = label /\ req[s].mode \in modes
Goto(s, label) == pc' = [pc EXCEPT ![s] = label] /\ UNCHANGED <<req, got>>
GotoWith(s, label, v) ==
  /\ pc' = [pc EXCEPT ![s] = label]
  /\ got' = [got EXCEPT ![s] = v]
  /\ UNCHANGED req

(* the handler returns or throws; a lock it has taken and not released stays *)
Leave(s) ==
  /\ pc' = [pc EXCEPT ![s] = "idle"]
  /\ req' = [req EXCEPT ![s] = None]
  /\ got' = [got EXCEPT ![s] = 0]

Start(s, r, label) ==
  /\ pc[s] = "idle"
  /\ pc' = [pc EXCEPT ![s] = label]
  /\ req' = [req EXCEPT ![s] = r]
  /\ UNCHANGED <<stores, got, pool, raced>>

(* HMSET: fields that are not named stay, and so does the expiry *)
Hmset(id, v, exp) ==
  cache' = [cache EXCEPT ![id] =
              [origin |-> v, expire |-> IF exp = "" THEN @.expire ELSE exp]]

Query(s, r) ==
  /\ r.mode \in Modes \ {"logical"}
  /\ Start(s, r, "exists")
  /\ UNCHANGED <<curId, built>>

(* setCurrentId, and the first call of a process fills the cache *)
QueryLogical(s, r) ==
  /\ r.mode \in Modes \cap {"logical"}
  /\ Start(s, r, IF built[s] THEN "exists" ELSE "build")
  /\ curId' = [curId EXCEPT ![s] = r.shop]
  /\ built' = [built EXCEPT ![s] = TRUE]

(* buildLogicalExpireCache: findOne throws when there is no row *)
Build(s) ==
  /\ pc[s] = "build"
  /\ IF db[req[s].shop] = 0 THEN Leave(s)
                            ELSE GotoWith(s, "buildWrite", db[req[s].shop])
  /\ UNCHANGED <<stores, locals, raced>>

BuildWrite(s) ==
  /\ pc[s] = "buildWrite"
  /\ Hmset(req[s].shop, got[s], "past")
  /\ GotoWith(s, "exists", 0)
  /\ UNCHANGED <<db, ttl, lock, locals, raced>>

(* the command exists of queryShopCache and getById *)
ExistsKey(s) ==
  /\ pc[s] = "exists"
  /\ LET miss == [default |-> "readDb", passThrough |-> "readDb",
                  mutex |-> "lock", logical |-> "exists2"]
     IN Goto(s, IF Exists(req[s].shop) THEN "hget" ELSE miss[req[s].mode])
  /\ UNCHANGED <<stores, locals, raced>>

(* the command hget: value() of a key gone in between throws *)
Hget(s) ==
  /\ pc[s] = "hget"
  /\ IF req[s].mode = "logical" /\ Exists(req[s].shop)
       THEN GotoWith(s, "exists2", cache[req[s].shop].origin)
       ELSE Leave(s)
  /\ UNCHANGED <<stores, locals, raced>>

(* the same for ExpireTime: without it the parser throws *)
ExistsExpireTime(s) ==
  /\ pc[s] = "exists2"
  /\ IF Exists(req[s].shop) THEN Goto(s, "hget2") ELSE Leave(s)
  /\ UNCHANGED <<stores, locals, raced>>

HgetExpireTime(s) ==
  /\ pc[s] = "hget2"
  /\ IF cache[req[s].shop].expire = "past" THEN Goto(s, "lock") ELSE Leave(s)
  /\ UNCHANGED <<stores, locals, raced>>

(* mutated: SET without NX *)
TryLockOverwrites(s) ==
  /\ pc[s] = "lock"
  /\ lock' = [lock EXCEPT ![req[s].shop] = TRUE]
  /\ Goto(s, IF req[s].mode = "mutex" THEN "readDb" ELSE "start")
  /\ UNCHANGED <<db, cache, ttl, locals, raced>>

(* tryLock: SET NX PX.  The reply of a refusal is nil: execute<std::string> *)
(* throws on it, or the caller sleeps and starts again                      *)
TryLock(s) ==
  /\ pc[s] = "lock"
  /\ \/ /\ ~lock[req[s].shop]
        /\ lock' = [lock EXCEPT ![req[s].shop] = TRUE]
        /\ Goto(s, IF req[s].mode = "mutex" THEN "readDb" ELSE "start")
     \/ /\ lock[req[s].shop]
        /\ Leave(s) \/ (req[s].mode = "mutex" /\ Goto(s, "exists"))
        /\ UNCHANGED lock
  /\ UNCHANGED <<db, cache, ttl, locals, raced>>

(* queryDbById, findOne: no row is an exception, in queryWithMutex with *)
(* the lock held; the branches that would cache "" are not reached      *)
ReadDb(s) ==
  /\ pc[s] = "readDb"
  /\ IF db[req[s].shop] = 0 THEN Leave(s) ELSE GotoWith(s, "write", db[req[s].shop])
  /\ UNCHANGED <<stores, locals, raced>>

(* writeShopCache: the hmset; getById leaves the key without expiry *)
Write(s) ==
  /\ pc[s] = "write"
  /\ Hmset(req[s].shop, got[s], "")
  /\ IF req[s].mode = "default" THEN Leave(s) ELSE GotoWith(s, "expire", 0)
  /\ UNCHANGED <<db, ttl, lock, locals, raced>>

(* mutated: no expiry *)
SetTtlNever(s) ==
  /\ pc[s] = "expire"
  /\ IF req[s].mode = "mutex" THEN Goto(s, "unlock") ELSE Leave(s)
  /\ UNCHANGED <<stores, locals, raced>>

(* mutated: the expiry outlives the key *)
SetTtlBlind(s) ==
  /\ pc[s] = "expire"
  /\ ttl' = [ttl EXCEPT ![req[s].shop] = TRUE]
  /\ IF req[s].mode = "mutex" THEN Goto(s, "unlock") ELSE Leave(s)
  /\ UNCHANGED <<db, cache, lock, locals, raced>>

(* writeShopCache: the expire *)
SetTtl(s) ==
  /\ pc[s] = "expire"
  /\ ttl' = [ttl EXCEPT ![req[s].shop] = Exists(req[s].shop)]
  /\ IF req[s].mode = "mutex" THEN Goto(s, "unlock") ELSE Leave(s)
  /\ UNCHANGED <<db, cache, lock, locals, raced>>

(* queryWithLogicalExpire: start the rebuild; one at a time of a server is *)
(* looked at                                                               *)
StartRebuild(s) ==
  /\ pc[s] = "start"
  /\ pool[s].at = "idle"
  /\ pool' = [pool EXCEPT ![s].at = "started"]
  /\ Goto(s, "unlock")
  /\ UNCHANGED <<stores, curId, built, raced>>

(* unlock: DEL, whoever holds the key now *)
UnLock(s) ==
  /\ pc[s] = "unlock"
  /\ lock' = [lock EXCEPT ![req[s].shop] = FALSE]
  /\ Leave(s)
  /\ UNCHANGED <<db, cache, ttl, locals, raced>>

(* setWithLogicalExpire: the shop is the one _curId names by now *)
RebuildRead(s) ==
  /\ pool[s].at = "started"
  /\ LET id == curId[s]
     IN pool' = [pool EXCEPT ![s] =
                   IF db[id] = 0 THEN NoRebuild
                   ELSE [at |-> "write", shop |-> id, origin |-> db[id]]]
  /\ UNCHANGED <<stores, pc, req, got, curId, built, raced>>

RebuildWrite(s) ==
  /\ pool[s].at = "write"
  /\ Hmset(pool[s].shop, pool[s].origin, "future")
  /\ pool' = [pool EXCEPT ![s] = NoRebuild]
  /\ UNCHANGED <<db, ttl, lock, pc, req, got, curId, built, raced>>

(* values read for the cache and not written yet *)
Filling(id) ==
  \/ \E s \in Servers : /\ pc[s] \in {"write", "buildWrite"}
                        /\ req[s].shop = id
  \/ \E s \in Servers : pool[s].at = "write" /\ pool[s].shop = id

(* update: the row first *)
Update(s, id) ==
  /\ db[id] < MaxVersion
  /\ pc[s] = "idle"
  /\ pc' = [pc EXCEPT ![s] = "delete"]
  /\ req' = [req EXCEPT ![s] = [shop |-> id, mode |-> "update"]]
  /\ db' = [db EXCEPT ![id] = IF @ = 0 THEN 0 ELSE @ + 1]
  /\ raced' = raced \cup (IF Filling(id) THEN {id} ELSE {})
  /\ UNCHANGED <<cache, ttl, lock, got, locals>>

(* mutated: the key is not deleted *)
DeleteNothing(s) ==
  /\ pc[s] = "delete"
  /\ Leave(s)
  /\ UNCHANGED <<stores, locals, raced>>

(* ... then DEL *)
Delete(s) ==
  /\ pc[s] = "delete"
  /\ cache' = [cache EXCEPT ![req[s].shop] = NoKey]
  /\ ttl' = [ttl EXCEPT ![req[s].shop] = FALSE]
  /\ Leave(s)
  /\ UNCHANGED <<db, lock, locals, raced>>

(* save: a new row *)
Save(id) ==
  /\ db[id] = 0
  /\ db' = [db EXCEPT ![id] = 1]
  /\ UNCHANGED <<cache, ttl, lock, pc, req, got, locals, raced>>

(* an update that ends here leaves the old entry *)
Unfinished(s) == IF pc[s] = "delete" THEN {req[s].shop} ELSE {}

(* a statement or command fails *)
Fail(s) ==
  /\ Faults
  /\ pc[s] # "idle"
  /\ Leave(s)
  /\ raced' = raced \cup Unfinished(s)
  /\ UNCHANGED <<stores, locals>>

(* the process dies and is restarted; it may also die because the thread *)
(* finds its RunnableAdapter gone with the stack frame of the handler    *)
Crash(s) ==
  /\ Faults \/ (pool[s].at = "started" /\ pc[s] # "unlock")
  /\ Leave(s)
  /\ curId' = [curId EXCEPT ![s] = None]
  /\ built' = [built EXCEPT ![s] = FALSE]
  /\ pool' = [pool EXCEPT ![s] = NoRebuild]
  /\ raced' = raced \cup Unfinished(s)
  /\ UNCHANGED stores

CacheExpires(id) ==
  /\ ttl[id]
  /\ cache' = [cache EXCEPT ![id] = NoKey]
  /\ ttl' = [ttl EXCEPT ![id] = FALSE]
  /\ UNCHANGED <<db, lock, pc, req, got, locals, raced>>

InSection(s, id) ==
  /\ req[s] # None /\ req[s].shop = id
  /\ \/ pc[s] \in {"start", "unlock"}
     \/ At(s, "readDb", {"mutex"}) \/ At(s, "write", {"mutex"})
     \/ At(s, "expire", {"mutex"})

LockExpires(id) ==
  /\ lock[id]
  /\ Prompt => \A s \in Servers : ~InSection(s, id)
  /\ lock' = [lock EXCEPT ![id] = FALSE]
  /\ UNCHANGED <<db, cache, ttl, pc, req, got, locals, raced>>

(* the time in ExpireTime passes *)
LogicalExpires(id) ==
  /\ cache[id].expire = "future"
  /\ cache' = [cache EXCEPT ![id].expire = "past"]
  /\ UNCHANGED <<db, ttl, lock, pc, req, got, locals, raced>>

-----------------------------------------------------------------------------
Handle(s) ==
  \/ Build(s) \/ BuildWrite(s)
  \/ ExistsKey(s) \/ Hget(s)
  \/ ExistsExpireTime(s) \/ HgetExpireTime(s)
  \/ TryLock(s) \/ ReadDb(s) \/ Write(s) \/ SetTtl(s)
  \/ StartRebuild(s) \/ UnLock(s)
  \/ Delete(s)

Next ==
  \/ \E s \in Servers, r \in Request : Query(s, r) \/ QueryLogical(s, r)
  \/ \E s \in Servers, id \in Shops : Update(s, id)
  \/ \E s \in Servers : Handle(s)
  \/ \E s \in Servers : RebuildRead(s) \/ RebuildWrite(s)
  \/ \E s \in Servers : Fail(s) \/ Crash(s)
  \/ \E id \in Shops : Save(id)
  \/ \E id \in Shops : CacheExpires(id) \/ LockExpires(id) \/ LogicalExpires(id)

Spec == Init /\ [][Next]_vars

(* a handler goes on, and Redis drops a key when it is time *)
Fairness ==
  /\ \A s \in Servers : WF_vars(Handle(s))
  /\ \A id \in Shops : WF_vars(CacheExpires(id))

FairSpec == Spec /\ Fairness

-----------------------------------------------------------------------------
(* Properties *)

Stale(id) == Exists(id) /\ cache[id].origin < db[id]

(* The cache falls behind the row only between the two writes of update,   *)
(* or after an update of the row between the two halves of a fill, or one  *)
(* that ended in between (lines 488-505): whatever else the four ways to   *)
(* query, the expiries, the locks and the pool do, it holds the row.       *)
CoherentUnlessRaced ==
  \A id \in Shops :
    Stale(id) => \/ id \in raced
                 \/ \E s \in Servers : pc[s] = "delete" /\ req[s].shop = id

(* queryWithMutex: one server at a time rebuilds the entry of a shop. *)
OneRebuild ==
  \A id \in Shops : \A s, t \in Servers :
    At(s, "write", {"mutex"}) /\ At(t, "write", {"mutex"})
    /\ req[s].shop = id /\ req[t].shop = id => s = t

(* An entry that a fill has put back after update deleted it does not stay *)
(* for good: CACHE_SHOP_TTL of writeShopCache ends it.                     *)
StaleEnds == \A id \in Shops : Stale(id) ~> ~Stale(id)
=============================================================================
