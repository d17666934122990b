# projectCollection: a TLA+ verification project

The repository collects several programs. This directory models the ones that
hold logic of their own, checks the models with TLC on small instances and
proves their invariants with TLAPS for every value of the constants.

| program | where | what it is |
|---|---|---|
| MapReduce | `src/6.824/mapReduce/src` | a Go master and its workers, one per process, talking over a Unix-socket RPC |
| hmdp, C++ | `src/drogon/hmdp-cpp-backend` | a shop-review back end on drogon, MySQL and Redis |
| hmdp, Java | `src/hmdp/backend` | the same back end on Spring, with a Redis stream and Lua scripts |
| user center | `src/drogon/usercenter-cpp-backend` | accounts and sessions on drogon |
| spring-boot-init | `src/spring-boot-init` | a Spring template with accounts, roles and posts |

## 1. Inventory

### MapReduce master - `mr/master.go`, `mr/common.go`, `main/mrmaster.go`
*State*: `taskPhase`, `taskStats` (status, worker, start time of each task of the
phase), `done`, `workerSeq`, all under the mutex `mu`; the bounded channel
`taskCh`, outside of it.
*Operations*: `MakeMaster`; `tickSchedule`, which spawns `schedule()` twice a
second; `schedule()`, which scans the tasks and sends to `taskCh` **while it
holds `mu`**; the RPC handlers `RegWorker`, `GetOneTask` (receives **without**
`mu`, then `regTask`) and `ReportTask`, which spawns `schedule()` too; `Done`,
polled by `main`, which exits.
*Interactions*: RPC from workers; all goroutines share the state above.
*Hard*: the send under the lock; a task that overruns 5 s is queued again while
its worker may still be busy; copies that outlive their task or phase; handlers
of dead workers that still receive tasks.
*Correct when*: no task is lost, the phase barrier holds, the assertion in
`regTask` never fires, the master never blocks for good, the job ends.

### MapReduce worker - `mr/worker.go`, `main/mrworker.go`, `mrapps/crash.go`
*State*: its id, the task, the loop variables; the files `mr-X-Y` and `mr-out-Y`
in one shared directory.
*Operations*: `register`, `reqTask`, `doMapTask`, `doReduceTask`, `reportTask`.
*Hard*: `os.Create` truncates what another worker may have written or a reducer
may be reading; some errors are reported without a `return`; processes crash.
*Correct when*: a reducer finds every file, reads complete ones, and the output
contains the pairs of every map task.

### MapReduce sequential reference and applications
`mrsequential.go`, `mrapps/*.go` but `crash.go`: deterministic functions on text.

### hmdp C++ seckill ordering - `VoucherOrderServiceImpl.cc`
*State*: the rows of `tb_seckill_voucher` and `tb_voucher_order`; a Redis key per
user.
*Operations*: one handler of several SQL statements (autocommit) and two Redis
commands.
*Hard*: several server processes; a lock that expires under its holder and that
`unLock` deletes whoever holds it; exceptions that leave it; ids from a clock.
*Correct when*: no overselling, one order per user and voucher, nobody is locked
out for ever.

### hmdp C++ vouchers - `VoucherServiceImpl.cc`
*State*: `tb_voucher`, `tb_seckill_voucher`, a Redis key with the stock.
*Operations*: `addVoucher`; `addSeckillVoucher`, two inserts and a `SET` with no
transaction around them.
*Correct when*: what can be ordered was inserted by `addSeckillVoucher`, and what
that handler has half published is still being published or was left by a failure.

### hmdp C++ shop cache - `ShopServiceImpl.cc`
*State*: `tb_shop`; for each shop a Redis hash (the row as text, an optional
logical expiry), its expiry, and a Redis lock; in each process `_curId`,
`isLogicalExpire` and a thread pool.
*Operations*: four ways to query (plain, pass-through, mutex, logical expiry with
a rebuild on the pool), `save`, and `update` = write the row, then delete the key.
*Hard*: a reader that fills the cache with what it read before an update; the
lock left by an exception; a rebuild that runs after the lock is released, for
the shop that `_curId` names by then.
*Correct when*: an entry is behind its row only where a race explains it, and not
for good; one rebuild at a time under the lock.

### hmdp C++ users and tokens - `UserServiceImpl.cc`, `UserController.cc`
*State*: `tb_user`; codes and sessions in Redis, with expiry.
*Operations*: `sendCode`, `login` (which creates the user of a new phone number),
`getCurrent` (which refreshes the expiry).
*Hard*: concurrent first logins, of which the unique index of `tb_user` refuses
all but one; a token stored with two commands; a refresh of a key that is gone.
*Correct when*: a token names the stored user of its phone number and expires.

### drogon ORM models - `models/*.cc` of both C++ back ends
*State*: an object holds a value for each column and the flags `dirtyFlag_`.
*Operations*: twelve classes, each with the same twenty functions written out
column by column: constructors from a row (by name, by index) and from JSON
(plain, with aliases), `updateByJson`, set functions, the column lists, marks and
arguments of insert and update, `toJson`, validators.
*Interactions*: controllers and services build the objects, drogon's `Mapper`
(not in the repository) turns them into statements.
*Hard*: lists, flags and arguments are written out by number, independently of
each other; two requests change one row through objects of their own.
*Correct when*: a value ends up in the column it was sent for and nowhere else,
and stays there until another one is sent.

### hmdp Java cache client and shops - `CacheClient.java`, `ShopServiceImpl.java`
The cache reads of the C++ version as a generic client; `update` is a
transaction. *Hard*: `queryWithMutex` calls itself inside its `try`, and the
`finally` unlocks on every path, after a failed `tryLock` too; `update` deletes
the key before it commits.

### hmdp Java seckill - `VoucherOrderServiceImpl.java`, `seckill.lua`, `RedisIdWorker.java`
An atomic script checks stock and buyers, decrements and adds to the stream
`stream.orders`; the body of the consumer is commented out.

### hmdp Java Redis lock - `SimpleRedisLock.java`, `unlock.lua`
`SET NX EX` with a thread token; a script compares and deletes. Not used by code
that is compiled.

### hmdp Java blogs and follows - `BlogServiceImpl.java`, `FollowServiceImpl.java`
Likes kept as a counter in MySQL and a sorted set in Redis; a feed pushed to the
followers' inboxes and read by scroll paging; follows kept in both stores.

### hmdp Java users, login and sign-in - `UserServiceImpl.java`, interceptors
As the C++ version; tokens are refreshed by an interceptor; sign-in bits per day.

### user center - `controllers/UserController.cc`, `services/UserServiceImpl.cc`
*State*: table `user`, without unique indexes; a session per client in the memory
of each process.
*Operations*: `userRegister` (two checks, an insert, a count), `userLogin`,
`userLogout`, `deleteUsers`, searches.
*Hard*: checks and insert are statements of their own; a refused registration
leaves its row; a session outlives the row it was made from.
*Correct when*: who was told to be registered has the planet code to himself, and
a session stands for the user who logged in.

### spring-boot-init - `UserServiceImpl.java`, `PostServiceImpl.java`, `AuthInterceptor.java`
Registration under a lock on the interned account; sessions with a role;
owner-or-admin rules for posts.

### Front end, documents, ssm_study
Web assets and study notes.

## 2. Modules

| step | modules | what they compose | abstract specification | status |
|---|---|---|---|---|
| 1 | `MRMaster` | | `MRJob` | done |
| 2 | `MRWorker`, `MRProofs` (both) | the workers' files on top of `MRMaster` | `MRMaster` itself | done |
| 3 | `SeckillOrder`, `SeckillProofs` | | `Sale` | done |
| 4 | `OrmModel`, `OrmTable`, `OrmTableProofs`, twelve class modules, `Orm`, `OrmProofs` | a class with its callers, the `Mapper` and a table | | done |
| 5 | `ShopCache`, `ShopProofs` | | | done |
| 6 | `UserLogin`, `Vouchers`, `HmdpServer`, `HmdpProofs` | two services on the request threads of the same servers | | done |
| 7 | `Accounts`, `AccountsProofs` | | | done |
| 8 | `CacheClient`, `CacheProofs` | | | done |
| 9 | likes, follows and the feed of the Java back end | | a set in two stores | open |
| 10 | the Java seckill, if its consumer is compiled again | | `Sale` | open |

The modules `MC...` add symmetry sets for TLC. Modules with a theorem declare no
recursive operator; each has its proofs in a module of its own. `MRProofs` is
about both modules of the job: what it proves of the master it needs for the
workers. The class modules instantiate `OrmTableProofs`, which extends `OrmTable`
with what is proved of every class, so that `OrmProofs` can cite it for each.

## 3. How the models correspond to the code

An action is the code up to and including one step that others can see: a
critical section, an SQL statement (autocommit), a Redis command, a file
operation. Operators named `...` with the comment "mutated" are variants of the
definition that follows them; they belong to no specification and document what
the properties tell apart.

### MRMaster

The goroutines share `mu` and `taskCh`. Every critical section but one touches
state under `mu` alone and is one action, enabled when `mu` is free
(`cursor = None` and the master alive). The exception is `schedule()`, which can
wait on the channel inside its critical section: it is split into `SchedBegin`
(take `mu`), one `SchedSkip` or `SchedSend` for each index, and `SchedEnd` (next
phase, end of the job, release). `GetOneTask` is split where it waits: `ReqTask`
(the call arrives), `Recv` (receive, no lock), `RegTask` (`regTask` under `mu`,
then the reply).

| code | model |
|---|---|
| `m.taskPhase`, `m.taskStats`, `m.taskCh`, `m.done`, `m.workerSeq` | the variables of the same name |
| `StartTime` against `MaxTaskRunTime` | the flag `Overdue`, set by `Expire` |
| goroutines started by `go m.schedule()` that wait for `mu` | `scheds` |
| the goroutine that holds `mu` inside `schedule()`, and its `allFinish` | `cursor`, `allFinish` |
| `MakeMaster`, `server()`, `main` | `mstate`: "starting" -> "serving" -> "exited" or "panicked" |
| a worker process, `w.id`, its task | `pc`, `id`, `job` |
| the `GetOneTask` goroutine, which survives its worker | `handler` |
| `crash.go`, a killed process | `Crash` |
| the panic of `regTask`, which ends the master | `mstate' = "panicked"` in `RegTask` |

A failed `register` call leaves id 0, as in the code. A report that fails because
the master is gone is `ReportFail`.

### MRWorker

`MRWorker` extends `MRMaster` with the files and the loops of `doMapTask` and
`doReduceTask`. `Map` and `Reduce` are deterministic, so the content of a file is
abstracted to how much of it is there: `mr-X-Y` is absent, full, or truncated by
some worker that has not finished writing; `mr-out-Y` is the set of map tasks
whose pairs went into it, or "mixed" when two different contents were written
over each other. `ReportDamage` is the missing `return`: the failure is reported
and the task goes on.

### SeckillOrder

`conf/config.json` gives a process one request thread and the handler calls its
database and Redis clients synchronously, so a server handles one request at a
time and only servers interleave. `pc` says how far the handler is:

| lines of `VoucherOrderServiceImpl.cc` | action | `pc` afterwards |
|---|---|---|
| 20-51: window and stock read | `Admit` | admitted |
| 53-66, 90-96: `SET NX PX` | `TryLock` | locked, or idle |
| 98-109: earlier order? | `CheckOrders` | checked, or idle |
| 113-128: conditional update | `Deduct` | deducted, or idle |
| 130-149: id and insert | `Insert` | ordered, or idle when the id is taken |
| 68-75, 152: `DEL` | `UnLock` | idle |
| any exception, or the process dies | `Fail` | idle |

`lock` says whether Redis holds the key of a user; the stored value is always
"1", so there is nothing more to know about it. `Expire` drops it. An order id is
the second and four digits that depend on the second (`srand(time)`), kept as
the pair of the two; the digits may come from the next second. A refusal before
`tryLock` changes nothing and is left out. `tryLock` on a key that exists raises
an exception in the Redis client rather than returning false; either way the
request is refused and nothing is changed.

### ShopCache

Servers as in `SeckillOrder`, plus the pool thread of `queryWithLogicalExpire`
that runs beside its request thread (`pool`). A shop is abstracted to the number
of times its row was written, so that an entry is stale when its version is
smaller.

| code of `ShopServiceImpl.cc` | action |
|---|---|
| `getById`, `queryWithPassThrough`, `queryWithMutex`; `queryWithLogicalExpire` with `setCurrentId` | `Query`, `QueryLogical` with the mode of the request |
| `buildLogicalExpireCache`, once for each process | `Build`, `BuildWrite` |
| the commands `exists` and `hget`, for the row and for `ExpireTime` | `ExistsKey`, `Hget`, `ExistsExpireTime`, `HgetExpireTime` |
| `tryLock`, `unlock` | `TryLock`, `UnLock` |
| `queryDbById`, which throws when there is no row | `ReadDb` |
| `writeShopCache`: `hmset`, then `expire` | `Write`, `SetTtl` |
| `startRebuild` on the pool, `setWithLogicalExpire` there | `StartRebuild`, `RebuildRead`, `RebuildWrite` |
| `update`: the statement, then `del` | `Update`, `Delete` |
| `save` | `Save` |
| exceptions; a process that dies; the dangling `RunnableAdapter` | `Fail`, `Crash` |

`HMSET` leaves the fields that it does not name and the expiry of the key alone:
that is why an entry written by `getById` over one with a logical expiry keeps
it. The history variable `raced` collects the shops whose row was written while a
value read for the cache was on its way, or whose update ended between its two
writes; no action reads it.

### UserLogin, Vouchers and HmdpServer

`UserLogin` is `sendCode`, `login` (`CheckCode`, `FindUser`, `InsertUser`,
`Recount`, `StoreToken`, `SetExpiry`) and `getCurrent` (`GetCurrent`, `Refresh`).
Phone numbers, codes and tokens are members of sets; a code may repeat, a token
is a fresh uuid. `owner` and `answered` are history: the phone number a token was
made for, and whether a client has got it. The unique index of `tb_user` is the
guard of `InsertUser`: that a phone number has one row is the database's promise
and not stated as a property.

`Vouchers` is `addVoucher` and `addSeckillVoucher` (`AddSeckillVoucher`,
`InsertSeckill`, `SetStock`). The three tables are sets of voucher ids. The column
`type` of `tb_voucher` is left out: both handlers insert what the client's JSON
says (`VoucherController.cc:22,48`, `VoucherServiceImpl.cc:24,54`; 0 when it says
nothing) and no code reads it, so that a row of type 1 may not be for sale and a
row of type 0 may, without any failure. `SetStock` may end without an answer, as
the comment at line 41 of the service expects. The histories `begun`, `published`
and `broken` are the vouchers that `addSeckillVoucher` inserted, those it
answered and those it got stuck on.

Both services run on the request threads of one set of servers: `HmdpServer`
composes them, a server being in a handler of one service or the other, and
expiries beside.

### Accounts

`userRegister` is `Register` (the form of the fields), `CheckAccount`,
`CheckPlanet`, `Insert` (no index refuses a row) and `Recount`; `userLogin`,
`userLogout` and `deleteUsers` are one statement each. A session is the row as it
was at login, kept by the process: `Crash` drops the sessions of its server.
`isAdmin` asks the session. `accepted` and `overlapped` are history.

### CacheClient

A request of the Java back end runs on a thread of its own, so threads
interleave. `frames` counts the calls of `queryWithMutex` that are inside their
`try`: `TryLock` that fails calls the method again (`frames` grows), `Return`
goes through the `finally` of each of them (`UnLock`), also after an exception
(`Fail`) - but not when the process dies (`Die`). `Update` takes the lock of the
row in the database (`writer`), `Delete` drops the key, `Commit` makes the new
version visible.

### OrmModel, OrmTable, the twelve classes and Orm

A generated class repeats a handful of steps for each of its columns.
`OrmModel` has one operator for each of those steps, over a list of columns; the
module of a class (`TbShop`, ...) says which columns each of its functions goes
through, as the code writes them out, and so has one definition for each
function. `OrmTable` is the class at work: its callers build an object from JSON,
plain or with aliases, from a row by name or by index, change it by JSON or by a
set function, and hand it to the `Mapper`, which is modelled by the calls it
makes. `Orm` picks one of the twelve classes for each behaviour. `Kept` is the
row of `if (dirtyFlag_[i])`, one after another, of `updateColumns`, `outputArgs`
and `sqlForInserting`: the columns of a list that are in a set, in the order of
the list. `Inserted` and `Updated` are the rows that the `Mapper` stores when the
n-th "?" of a statement gets its n-th argument. An update writes one column more:
ten of the tables declare a time of the last update `ON UPDATE CURRENT_TIMESTAMP`
(`onUpdate`; `hmdp.sql:34,60,94,145,178,225,257,280,309`, `mysql.sql:14`), which
MySQL sets when a statement changes the row and does not name that column.

`last` is history: for each column the value that a client *sent* last, converted
as the class converts it, and not what its object held. The two differ in
`updateByJson`, which for a JSON `null` or a time that `strptime` does not read
sets the flag of the column and keeps the value read earlier
(`TbSign.cc:311-318`): the update then writes that value, and may undo what
another client has written there in between. `SentValuesStay` names this case
(`Unread`) and says what the column holds then; the other exception is a column
of `onUpdate` that an update has not named.

MySQL is taken to be in its strict mode: `Refused` says that it does not store a
NULL in a NOT NULL column nor a text that is too long. The server 5.6 that the
dump names turns an explicit NULL for a NOT NULL timestamp into the current time
instead.

Two constants say what clients may send. `AnyInput` is TRUE when a JSON may have
any member with any class of value, and an alias vector may be any vector without
repetitions, or one of the wrong size; FALSE when at most one member is unusual
and the vectors are three typical ones. `Aliases` are the aliases that are not
names of columns. A caller that creates rows through aliases leaves out ("") only
columns that a row may lack: the validator for such a creation asks for no
others.

A value is a pair of a tag and the column it was made for, so a value that lands
in another column shows. The tags are the classes of values that the code treats
differently: plain ones, texts too long and numbers too wide, texts that
`strptime` does not read, times at midnight, JSON values that do not convert. A
text is "wide" for the validator and for the column alike: both name the same
number, which the validator compares with bytes and MySQL with characters, and one
tag stands for it.

### Abstract specifications

`MRJob`: tasks complete (and may be reopened by a stale copy) within a stage; the
stages open only on complete ones and never go back. `MRMaster` maps `stage` to
"done" or `taskPhase`, and `completed` to the tasks with status Finish.
`Sale`: orders are added one at a time, not before the beginning, while pieces
are left and one for each user and voucher. `SeckillOrder` maps `left` to the
first stock minus the orders - not to the column `stock`, which a failed insert
leaves too low. `MRWorker` implements `MRMaster` under the identity
(`WorkersUseMaster`): its workers are clients that `MRMaster` allows.

## 4. What is checked

| run | instance | shows |
|---|---|---|
| `master_any` | 2 workers, 2+2 tasks, slow workers, I/O faults, crashes | types and the capacity of the channel; no queued task is lost; the scan is sound; `MRJob` is implemented |
| `master_live` | 2 workers, 2+1 tasks, one of them may crash; no slow worker, no I/O faults | the job ends; every worker then leaves |
| `files_any` | 2 workers, 2+1 tasks, slow workers, I/O faults, crashes | every intermediate file exists when reducers run |
| `files_prompt` | 3 workers, 2+2 tasks, crashes, no slow worker | one place for each task; no panic; no wait on a full channel; finished stays finished; reducers read complete files; outputs are complete |
| `files_slow` | 2 workers, 2+1 tasks, slow workers | a counterexample: the job ends with an incomplete output |
| `seckill` | 2 servers, 2 users, 2 vouchers, faults but no handler that outlives its lock | no overselling; one order per user and voucher; `Sale` is implemented; lockouts end |
| `orm` | the twelve classes, one in each behaviour, all their columns, `AnyInput` FALSE | rows hold what was sent last, through every way to build and to change an object, but for the two exceptions of section 3 |
| `shop_any` | 2 servers with their pools, 1 shop, 3 writes of its row, all ways to query, faults | an entry falls behind its row only through a race; one rebuild at a time under the lock |
| `shop_ttl` | 2 servers, the ways to query that set an expiry, handlers that outlive the lock | a stale entry does not stay |
| `hmdp_users` | 2 servers, 2 phone numbers, 2 codes, 2 tokens, 2 vouchers, faults | a token is its owner's, also after racing first logins, and expires; vouchers are published in order |
| `accounts` | 2 servers, 1 client, 2 accounts, 2 planet codes, 4 ids, faults | one accepted registration per planet code; accounts doubled only by overlap; sessions stand for their user |
| `java_cache` | 3 threads, 1 shop, 2 writes of its row, calls two deep, faults | an entry differs from the row only after a race, and not for good |

**Assumptions that a run makes.** `Prompt` in `MRMaster`: a task overruns
`MaxTaskRunTime` only when no worker is doing it any more. `Prompt` in
`SeckillOrder` and in `ShopCache`: whoever holds the Redis lock is done within
its time to live. The code enforces none of them. Without the first, the
assertion in `regTask` can fire (a stale copy of a map task arrives in the
reduce phase), and `files_slow` shows what happens to the output. Without the
second, a handler that stalls lets another server past the check for an earlier
order, and a user gets two; without the third, two servers rebuild at once,
which costs a query and breaks nothing else (`CoherentUnlessRaced` is proved
without `Prompt`). `files_prompt` and `master_live` set the first, and no I/O
faults either; `seckill` sets the second and `shop_any` the third. In these runs
the crashes make the stale copies and the abandoned locks; a worker that overruns
and a lock that expires under a live holder are assumed away, and the hazards at
`master.go:97`, `worker.go:114` and `VoucherOrderServiceImpl.cc:90` are covered by
them to that extent only. `master_any`, `files_any`, `shop_ttl`, `hmdp_users`,
`accounts` and `java_cache` assume nothing of the kind.

**The counterexample.** `files_slow`: a map task overruns and is queued again.
Once its second worker is registered for it, `ReportTask` refuses what the first
one reports (`master.go:170`), but nothing stops the first one: the second ends the
map phase, and then `os.Create` of the slow first worker truncates `mr-X-Y` before
a reducer reads it. The decoder stops at the end of the truncated file,
`doReduceTask` reports success and the job ends with an output that lacks those
pairs. (The other order, in which the first worker ends the phase and the second
truncates, needs two workers with id 0, after failed registrations, or a third
copy.) The crash test of the repository
(`test-mr-bak.sh:160-203`) runs workers that are slower than the timeout and
requires the complete output.

**What the properties of the caches say.** No cache that deletes its key after
(or before) the database was written can promise never to be stale, and these do
not. `CoherentUnlessRaced` says that there is *no other* way to become stale: for
every stale entry there was a fill whose read came before a write of the row and
whose write came after it, or an `update` that ended between its two writes (in
`ShopCache`), or a fill between the `DEL` and the commit, or a cached absence (in
`CacheClient`). `StaleEnds` says that the expiry ends it. For `getById` and the
logical expiry of the C++ server there is no expiry, and there a stale entry may
stay: `shop_ttl` therefore has the other two ways only, and no faults, since a
process that dies between `hmset` and `expire` leaves an entry without one.

**What the registration checks give.** `userRegister` checks the account and the
planet code before its insert and counts the planet code again after it.
`AcceptedPlanetUnique` is what the second count adds; for the account there is no
second count, and `AccountUniqueUnlessOverlapped` says that two rows then come
from registrations that overlapped. A registration that is refused by the second
count leaves its row: planet codes are unique among the users that were told they
are registered, not among the rows.

**Bounds.** `MaxScheds = 1`: a goroutine that calls `schedule()` while another
already waits for `mu` adds nothing, since the waiting one runs after this point;
`SpawnSchedule` saturates. Two map tasks are the fewest with which a phase can be
partly complete, two workers the fewest with which a task has an old and a new
holder, and the third of `files_prompt` brings a dead handler beside two live
workers. `taskCh` fills up with these numbers. `InitStock` is one piece of one
voucher and two of the other, so that a stock is both taken concurrently and
exhausted. `MaxTime = 3` gives a second before, two during and one after the
sale. `MaxVersion` is 3 where an update can meet a fill that is itself late for
an earlier update, and 2 where an update and a save are enough for every case of
`raced`. `MaxFrames = 2`: the method calls itself with the same arguments, so a
third call adds another `unlock` of the kind that a second one shows.
`AnyInput = FALSE` and no `Aliases`: from any JSON TLC could not finish one of
the wider classes; each member still takes each of its values, one member at a
time, and the theorems of `OrmProofs` are about any JSON. `MaxVouchers = 2` lets two publications interleave, two tokens let two clients
log in to one phone number, `MaxId = 4` leaves room for a deletion between four
registrations. Where a theorem of section 5 states the property, the bound plays
no role.

**Symmetry** is used in runs without liveness only, over sets of servers,
workers, clients and values that the specifications treat alike.

**Deadlock** is not checked in any run: these systems stop legitimately (the
master exits and its workers leave) or the models do at their bounds (time,
versions, ids, tokens). That nobody waits for good is what the liveness
properties say.

**Fairness.** In `MRMaster` each goroutine that can go on does (weak), and whoever
waits for `mu`, or for a task in `taskCh`, gets it (strong): Go's `sync.Mutex`
hands itself over in FIFO order once a waiter has waited for 1 ms, and channel
receivers queue. Expiry and the ticker are clocks. `EventuallyDone` assumes that
the master serves and that one reliable worker is still there. In the servers a
handler goes on (weak: it runs on a thread of its own and waits for replies
only), and Redis drops a key when its time is over (weak: a clock). Nothing else
is owed: neither requests, failures, deaths, nor, in `CacheClient`, that a row
that does not exist is ever saved.

## 5. What is proved

For every number of workers and tasks; of servers, users and vouchers; of
shops, versions, threads and nested calls; of phones, codes, tokens, names and
ids; for every JSON, vector of aliases and set of aliases:

| theorems | assumption beyond the types of the constants |
|---|---|
| `MRProofs`, the master: `TypeCorrect`, `QueuedTasksInFlight`, `ScanIsSound`, `MasterImplementsJob` | none |
| `MRProofs`, the master: `NeverPanics`, `FinishedStays`, `OneHolder`, `SendNeverWaits` | `Prompt`, no I/O faults |
| `MRProofs`, the program: `FilesTypeCorrect`, `InputsExist`, `WorkersUseMaster`, `ProgramImplementsJob` | none |
| `MRProofs`, the program: `MapOutputsStayIntact`, `JobOutputComplete`, `ProgramNeverStuck` | `Prompt`, no I/O faults |
| `SeckillProofs`: `TypeCorrect`, `NeverOversold` | finitely many servers |
| `SeckillProofs`: `OneOrder`, `PromptSale` | `Prompt` |
| `ShopProofs`: `TypeCorrect`, `CacheCoherent` | none |
| `ShopProofs`: `RebuildsExclude` | `Prompt` |
| `ShopProofs`: `NoEntryForEver` | no failures; `getById` and the logical expiry not in use |
| `HmdpProofs`: `TypeCorrect`, `TokenHasItsOwner`, `NoTokenForEver`, `VouchersPublishedInOrder` | finitely many phone numbers |
| `AccountsProofs`: `TypeCorrect`, `SessionsStand`, `OneAcceptedForAPlanet`, `OneRowOfAnAccount` | none |
| `CacheProofs`: `TypeCorrect`, `CacheCoherent` | none |
| `OrmProofs`: `OrmTypeOK`, `OrmInsertedAsSent`, `OrmValidatedIsStored`, `OrmSentValuesStay`, `OrmRoundTrip` | none |

*The master.* `NoTaskLost` is not inductive by itself: a worker that calls again
could overwrite a handler that still holds a task. It is proved with
`HandlerOwned`: the worker of a busy handler is waiting or gone.
`ScanSound` is inductive because nothing but `schedule()` may make a Finish task
anything else while it holds `mu`; at `SchedEnd` it gives the premise of
`StartReduce` and `Finish`, and every other step maps to `Complete`, `Reopen` or
a stutter.

*The master without slow workers.* All four results follow from one invariant,
`OneCopy`: the copies in the channel, with the handlers and at the workers are
all different, and each agrees with the status the master keeps for it (Queue in
the channel or with a handler, Running at a worker). The reason is that `Prompt`
lets a task expire only when nobody is doing it. With distinct copies the
channel, whose capacity is the larger number of tasks, is never full when there
is one more task to send.

*The files.* `WInv` follows a map task from its loop to the report: a worker has
created the files below its loop variable (`MapProgress`), a task is reported
done, or is Finish, only when all of its files exist (`FinishedMaps`), and files
are never removed. `ScanSound` then carries this over the barrier. With slow
workers nothing more is true. Without them, `IntactInv` uses `OneCopy` of the
master, which holds here because `WorkersUseMaster`: who writes has the only copy
of a task that is still Running, so the files of a finished task are at rest. A
reducer therefore reads each of them complete, its output has the pairs of every
map task below its loop variable, and what it reports is complete
(`FinishedReduces`); `DoneSound` says that the master is done only when all
reduce tasks are. Since the workers are clients that `MRMaster` allows,
everything proved of the master is a theorem of the whole program too
(`ProgramImplementsJob`, `ProgramNeverStuck`).

*No overselling.* `NoOversell` counts orders and stock; between the update and
the insert a unit is in neither. `Counted` adds the claims: the handlers that
have deducted and not inserted. The sum of orders, claims and stock never grows.

*One order.* `SaleInv` joins the property with why it holds: a handler in the
section has its user's lock (`Held`), no two handlers in the section have the
same user (`Exclusive`), and one that has passed the check has no order yet
(`CheckStands`). `Started` carries the beginning of the sale from `Admit` to the
insert. `Prompt` is needed for `Held` in `Expire` alone, and `Held` is what makes
the unconditional `DEL` of `unLock` harmless.

*The shop cache.* `Typed` says more than the types: which label of `pc` belongs to
which way to query, so that `queryWithMutex` never stores a `None` and a rebuild
is always one of a shop. `OneRebuild` is proved as the seckill lock is.
`CacheInv` adds to `CoherentUnlessRaced` that a value on its way to the cache is
still the row's, or the shop is in `raced` (`FillsFresh`). `NoEntryForEver` is the
safety half of `StaleEnds`: in the ways to query of `shop_ttl` every entry has an
expiry, or a handler that has written it and sets the expiry next.

*Users, tokens and vouchers.* `TokenHasItsOwner` needs that whoever stores a token
has found a user of that phone number, by id, and that users stay. A user's id
must be fresh, and there is one because there are more ids than phone numbers
(`FreshId`, by cardinality); `OneRow`, the unique index, is in the invariant for
this count only. `NoTokenForEver`: a token is answered only after its expiry was
set, and no later `hmset` can bring it back without one.
`VouchersPublishedInOrder` needs `Writing`: each server at work has a voucher of
its own, which was begun and not answered, so that the end of one publication
cannot be taken for that of another, and ids that are given in order
(`IdsInOrder`). The two services share the servers, not their state; the step of
one leaves the other's invariant alone.

*Accounts.* Ids grow (`IdsBehind`), so that a session cannot come to mean another
user. The row that the second count looks at is still the one this handler
inserted (`RowStands`); of two registrations with one planet code, both rows still
there, the one that counts last counts the other's row and is refused. `CheckStands`: as long as nobody overlaps, what the check saw holds at
the insert.

*The Java cache.* The lock of the row lasts from the statement to the commit
(`RowHeld`), so one `update` of a shop runs at a time; between its `DEL` and the
commit the key is absent or the shop is marked (`NoKeyBeforeCommit`).
`queryWithMutex` unlocks what it does not own, and the theorem shows that this
has no effect on coherence: but for its type, `lock` does not occur in the
invariant.

*The classes.* The argument has two halves. `OrmTableProofs` says in `ClassOK` what
the functions of a class must amount to - the table (`TableOK`: distinct names, a
primary key that is NOT NULL, ...), objects from rows (`FromRowOK`), from and to
JSON (`FromJsonOK`), changes (`ChangeOK`), statements (`StatementOK`: `outputArgs`,
`updateColumns` and `updateArgs` go through the same columns in one order, as
`sqlForInserting` does) and validators (`ValidatorOK`) - and proves, from `ClassOK`
alone, that an invariant `IInv` is inductive for any number of columns of any
types. `OrmProofs` then shows `ClassOK` of each of the twelve classes (`TbBlogOK`
... `UserOK`) from the lists that the class writes out, and concludes for `Orm`.
A number out of order in one of these lists makes the lemma of its class fail.

`IInv` adds to the properties why they hold. `CreatorReady`: the object of a
creation is what reading the sent values gives, with a flag for each column that
was given. `UpdaterReady`: the flags of an object for update are those of the
columns that were given, but for the primary key, and it holds what was sent for
them, or, where that could not be read, a value that fits. `CheckedAccepted`: what
the validators let through has all required columns and no value of the wrong
kind. `SetterReady`: a set function gives one value, or NULL, and the object holds
it. `RowStored`: every value in the row is one that its column can store, so it
can be read back. `RefusedExcused`: a refused statement has one of the two
reasons. `Roles`: which clients there are depends on whether there was a row.
Under an insert lies a fact about counting: the place of a column among the "?"
of the statement is its rank among the bound columns, which is also its place in
`outputArgs` (`MarkPlaces`, `InsertEffect`); the same rank makes `updateColumns`
and `updateArgs` agree (`UpdateEffect`). `OrmSentValuesStay` compares the row with
what was sent, so its step is `UpdateStep`: a column that was given gets what the
object holds, which is what was sent unless it could not be read; another keeps
its value or, in `onUpdate`, gets the time of the statement. All steps but the
writes leave both sides alone (`NothingWritten`). That `onUpdate` does not contain
the primary key is part of `TableOK`. `RoundTrip` follows because reading what
`WriteJson` wrote, under any keys without repetitions, gives the value again
(`WrittenRead`).

**Model-checked only.** Liveness (`EventuallyDone`, `WorkersLeave`,
`LockoutEnds`, both `StaleEnds`): fairness and `ENABLED` are out of the prover's
reach. Every invariant and every other action property that a run checks is also
a theorem.

## 6. What is not modelled, and why

- What a map or reduce function computes, `ihash`, sorting and encoding: the
  models keep which task's pairs are where. `mrsequential.go` and the
  applications have nothing else.
- Several sockets or masters, and a restart of the master: it keeps no state.
- In the C++ services the lookup of the session, the formatting of responses,
  logs, and operations that only read: `queryByType`, `queryVoucherOfShop`,
  `searchUsers`. `logout` of hmdp and `searchUsersByTags` have empty bodies;
  `LoginFilter` of the user center lets every request pass.
- In the C++ shop service, `loadShopData` (not called); a query of the type
  `CHCHE_AVALANCHE`, which falls off the end of `queryById`; and
  `writeNullCache`, which is not reached because `findOne` throws when there is
  no row. `queryWithLogicalExpire` is the commented alternative in `queryById`
  and is modelled.
- Replies that are mixed up on a shared Redis connection: a command and its reply
  are one step.
- In the Java back end `queryWithLogicalExpire` (not called, and it needs a cache
  that only a test loads) and `queryShopByType`, which reads a geo index.
- The Java seckill: its order is decided by one atomic script and handed to a
  stream whose consumer has its body commented out. The Java Redis lock: used
  only by code that is commented out, and made of atomic commands.
- Java blogs and follows: likes, feed push, scroll paging and follow state in two
  stores. They are the next module to write (section 2, step 9). Java users, login and sign-in follow
  the protocol of `UserLogin`; sign-in is one `SETBIT`.
- spring-boot-init is a template whose registration differs from `Accounts` by a
  lock within the process.
- drogon's `Mapper` is not in the repository; it is modelled by the calls it makes
  of the classes.
- Front end, documents and study notes.

The hazards of these parts are listed in `PROJECT.json` with the reason why no
property covers them.
