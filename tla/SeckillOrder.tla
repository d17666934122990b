---------------------------- MODULE SeckillOrder ----------------------------
(***************************************************************************)
(* Ordering a flash-sale voucher in the C++ back end                       *)
(* (services/VoucherOrderServiceImpl.cc).                                  *)
(*                                                                         *)
(* A server process has one request thread (conf/config.json) and every    *)
(* call in the handler is synchronous, so a server handles one request at  *)
(* a time; requests interleave between the server processes, which share   *)
(* one MySQL and one Redis.  Each action is the code up to and including   *)
(* one SQL statement (autocommit) or one Redis command.                    *)
(***************************************************************************)
EXTENDS Integers, FiniteSets

CONSTANTS
  Servers,      \* the server processes
  Users,
  Vouchers,     \* rows of tb_seckill_voucher
  InitStock,    \* their stock at the beginning
  Begin, End,   \* their begin_time and end_time, in seconds
  MaxTime,      \* bound: the last second looked at
  Prompt,       \* TRUE: a handler is done within LOCK_ORDER_TTL
  Faults,       \* TRUE: servers crash, statements and commands fail
  None          \* model value: no request

ASSUME StockAssumption == InitStock \in [Vouchers -> Nat]
ASSUME TimeAssumption == Begin \in Nat /\ End \in Nat /\ MaxTime \in Nat
ASSUME ServersAssumption == IsFiniteSet(Servers)
ASSUME SwitchAssumption == Prompt \in BOOLEAN /\ Faults \in BOOLEAN

VARIABLES
  stock,        \* tb_seckill_voucher.stock
  orders,       \* tb_voucher_order
  lock,         \* does Redis hold the key LOCK_ORDER_KEY + userId
  now,          \* the wall clock, in seconds
  pc,           \* how far the handler of each server is
  req           \* the user and voucher it works for

vars == <<stock, orders, lock, now, pc, req>>

Request == [user : Users, voucher : Vouchers]
ASSUME NoneAssumption == None \notin Request

Order == [id : Nat \X Nat, user : Users, voucher : Vouchers]

OrdersOf(v) == {o \in orders : o.voucher = v}
Bought(r) == \E o \in orders : o.user = r.user /\ o.voucher = r.voucher

(* between a successful tryLock and the return of unLock *)
InSection(s) == pc[s] \in {"locked", "checked", "deducted", "ordered"}

TypeOK ==
  /\ stock \in [Vouchers -> Nat]
  /\ orders \subseteq Order
  /\ lock \in [Users -> BOOLEAN]
  /\ now \in 0 .. MaxTime
  /\ pc \in [Servers -> {"idle", "admitted", "locked", "checked", "deducted",
                         "ordered"}]
  /\ req \in [Servers -> Request \cup {None}]
  /\ \A s \in Servers : pc[s] # "idle" => req[s] # None

Init ==
  /\ stock = InitStock
  /\ orders = {}
  /\ lock = [u \in Users |-> FALSE]
  /\ now = 0
  /\ pc = [s \in Servers |-> "idle"]
  /\ req = [s \in Servers |-> None]

-----------------------------------------------------------------------------
Goto(s, label) == pc' = [pc EXCEPT ![s] = label] /\ UNCHANGED req

(* the handler returns or throws; whatever lock it has taken stays *)
Leave(s) ==
  /\ pc' = [pc EXCEPT ![s] = "idle"]
  /\ req' = [req EXCEPT ![s] = None]

(* mutated: no comparison with begin_time *)
AdmitEarly(s, r) ==
  /\ pc[s] = "idle"
  /\ now <= End
  /\ stock[r.voucher] >= 1
  /\ pc' = [pc EXCEPT ![s] = "admitted"]
  /\ req' = [req EXCEPT ![s] = r]
  /\ UNCHANGED <<stock, orders, lock, now>>

(* seckillVoucher: the row is read once; too early, too late and sold out *)
(* are refused without effect                                             *)
Admit(s, r) ==
  /\ pc[s] = "idle"
  /\ Begin <= now /\ now <= End
  /\ stock[r.voucher] >= 1
  /\ pc' = [pc EXCEPT ![s] = "admitted"]
  /\ req' = [req EXCEPT ![s] = r]
  /\ UNCHANGED <<stock, orders, lock, now>>

(* mutated: SET without NX *)
TryLockOverwrites(s) ==
  /\ pc[s] = "admitted"
  /\ lock' = [lock EXCEPT ![req[s].user] = TRUE]
  /\ Goto(s, "locked")
  /\ UNCHANGED <<stock, orders, now>>

(* tryLock: SET key 1 NX PX; a lock that is there is a refusal *)
TryLock(s) ==
  /\ pc[s] = "admitted"
  /\ IF lock[req[s].user]
       THEN Leave(s) /\ UNCHANGED lock
       ELSE lock' = [lock EXCEPT ![req[s].user] = TRUE] /\ Goto(s, "locked")
  /\ UNCHANGED <<stock, orders, now>>

(* 5.1, 5.2: the BusinessException of a second order leaves the lock *)
CheckOrders(s) ==
  /\ pc[s] = "locked"
  /\ IF Bought(req[s]) THEN Leave(s) ELSE Goto(s, "checked")
  /\ UNCHANGED <<stock, orders, lock, now>>

(* mutated: the update without "and stock>0" *)
DeductUnconditional(s) ==
  /\ pc[s] = "checked"
  /\ stock' = [stock EXCEPT ![req[s].voucher] = @ - 1]
  /\ Goto(s, "deducted")
  /\ UNCHANGED <<orders, lock, now>>

(* mutated: affectedRows is not looked at *)
DeductUnseen(s) ==
  /\ pc[s] = "checked"
  /\ stock' = [stock EXCEPT ![req[s].voucher] = IF @ > 0 THEN @ - 1 ELSE @]
  /\ Goto(s, "deducted")
  /\ UNCHANGED <<orders, lock, now>>

(* 6: update ... set stock = stock - 1 where ... and stock > 0 *)
Deduct(s) ==
  /\ pc[s] = "checked"
  /\ IF stock[req[s].voucher] > 0
       THEN /\ stock' = [stock EXCEPT ![req[s].voucher] = @ - 1]
            /\ Goto(s, "deducted")
       ELSE Leave(s) /\ UNCHANGED stock
  /\ UNCHANGED <<orders, lock, now>>

(* getRandomNumberStr calls srand with the second first: whatever digits    *)
(* come out, they are a function of it; it may be a second later already   *)
Digits == {now, now + 1}

(* 7.1: the second, followed by four digits *)
OrderIds == {now} \X Digits

(* 7: the insert; the primary key refuses an id that is taken, and neither *)
(* catch clause catches the DrogonDbException                              *)
Insert(s, id) ==
  /\ pc[s] = "deducted"
  /\ IF \E o \in orders : o.id = id
       THEN Leave(s) /\ UNCHANGED orders
       ELSE /\ orders' = orders \cup {[id |-> id, user |-> req[s].user,
                                       voucher |-> req[s].voucher]}
            /\ Goto(s, "ordered")
  /\ UNCHANGED <<stock, lock, now>>

(* unLock: DEL, whoever holds the key now *)
UnLock(s) ==
  /\ pc[s] = "ordered"
  /\ lock' = [lock EXCEPT ![req[s].user] = FALSE]
  /\ Leave(s)
  /\ UNCHANGED <<stock, orders, now>>

(* a statement or command fails, or the process dies and is restarted: an  *)
(* exception that ends the request and leaves what was committed           *)
Fail(s) ==
  /\ Faults
  /\ pc[s] # "idle"
  /\ Leave(s)
  /\ UNCHANGED <<stock, orders, lock, now>>

(* mutated: SET without PX *)
ExpireNever(u) == FALSE /\ UNCHANGED vars

(* Redis drops the key after LOCK_ORDER_TTL *)
Expire(u) ==
  /\ lock[u]
  /\ Prompt => \A s \in Servers : InSection(s) => req[s].user # u
  /\ lock' = [lock EXCEPT ![u] = FALSE]
  /\ UNCHANGED <<stock, orders, now, pc, req>>

Tick ==
  /\ now < MaxTime
  /\ now' = now + 1
  /\ UNCHANGED <<stock, orders, lock, pc, req>>

-----------------------------------------------------------------------------
ServerStep(s) ==
  \/ \E r \in Request : Admit(s, r)
  \/ TryLock(s)
  \/ CheckOrders(s)
  \/ Deduct(s)
  \/ \E id \in OrderIds : Insert(s, id)
  \/ UnLock(s)
  \/ Fail(s)

Next ==
  \/ \E s \in Servers : ServerStep(s)
  \/ \E u \in Users : Expire(u)
  \/ Tick

Spec == Init /\ [][Next]_vars

(* a handler goes on, or fails, and Redis drops a key when it is time *)
Fairness ==
  /\ \A s \in Servers :
       WF_vars(\/ TryLock(s) \/ CheckOrders(s) \/ Deduct(s) \/ UnLock(s)
               \/ \E id \in OrderIds : Insert(s, id))
  /\ \A u \in Users : WF_vars(Expire(u))

FairSpec == Spec /\ Fairness

-----------------------------------------------------------------------------
(* Properties *)

(* No more is sold than there was: with what is left, the orders of a     *)
(* voucher never exceed its first stock (the conditional update, 6),      *)
(* whatever expires, fails or crashes in between.                         *)
NoOversell ==
  \A v \in Vouchers : Cardinality(OrdersOf(v)) + stock[v] <= InitStock[v]

(* One order for each user and voucher ("5.", lines 80-109): the check and *)
(* the insert are two statements on a table without such a unique index,   *)
(* and only the lock keeps a second server from passing the check.         *)
OneOrderPerUser ==
  \A o, p \in orders : o.user = p.user /\ o.voucher = p.voucher => o = p

(* The orders grow as Sale says: after begin_time, one at a time, within   *)
(* the stock and one for each user and voucher.                            *)
Left == [v \in Vouchers |-> InitStock[v] - Cardinality(OrdersOf(v))]
SaleOf == INSTANCE Sale WITH left <- Left
SaleImplemented == SaleOf!SaleSpec

(* A lock never stays for good: servers that fail while they hold it, or   *)
(* refuse without unLock, do not shut their user out for ever.             *)
LockoutEnds == \A u \in Users : lock[u] ~> ~lock[u]
=============================================================================
