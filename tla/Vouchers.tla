------------------------------ MODULE Vouchers ------------------------------
(***************************************************************************)
(* Publishing vouchers in the C++ back end (services/VoucherServiceImpl.cc):*)
(* a voucher to be sold in a seckill is a row of tb_voucher, a row of      *)
(* tb_seckill_voucher and the stock in Redis, written one after the other  *)
(* without a transaction.  The column type of tb_voucher, which is to tell *)
(* the two kinds apart, holds what the client's JSON says, whichever of    *)
(* the two handlers inserts the row; no code reads it, and it is left out. *)
(***************************************************************************)
EXTENDS Integers

CONSTANTS
  Servers,
  MaxVouchers,  \* bound: rows of tb_voucher
  Faults        \* TRUE: servers crash, statements and commands fail

VARIABLES
  rows,         \* the ids in tb_voucher
  seckill,      \* the ids in tb_seckill_voucher
  stockKeys,    \* the ids with a key SECKILL_STOCK_KEY + id
  vpc,          \* how far the handler of each server is
  vid,          \* the voucher it publishes
  begun,        \* history: the vouchers that addSeckillVoucher inserted
  published,    \* history: those whose publication was answered
  broken        \* history: those whose publication ended without an answer

vvars == <<rows, seckill, stockKeys, vpc, vid, begun, published, broken>>

VoucherIds == 1 .. MaxVouchers
NextId == CHOOSE v \in VoucherIds : rows = 1 .. v - 1

VTypeOK ==
  /\ rows \subseteq VoucherIds
  /\ seckill \subseteq VoucherIds /\ stockKeys \subseteq VoucherIds
  /\ vpc \in [Servers -> {"idle", "row", "stock"}]
  /\ vid \in [Servers -> VoucherIds \cup {0}]
  /\ begun \cup published \cup broken \subseteq VoucherIds

VInit ==
  /\ rows = {} /\ seckill = {} /\ stockKeys = {}
  /\ vpc = [s \in Servers |-> "idle"]
  /\ vid = [s \in Servers |-> 0]
  /\ begun = {} /\ published = {} /\ broken = {}

-----------------------------------------------------------------------------
VLeave(s) ==
  /\ vpc' = [vpc EXCEPT ![s] = "idle"]
  /\ vid' = [vid EXCEPT ![s] = 0]

(* the handler ends without an answer *)
Break(s) ==
  /\ VLeave(s)
  /\ broken' = broken \cup {vid[s]}
  /\ UNCHANGED published

AddVoucher(s) ==
  /\ rows # VoucherIds
  /\ vpc[s] = "idle"
  /\ rows' = rows \cup {NextId}
  /\ UNCHANGED <<seckill, stockKeys, vpc, vid, begun, published, broken>>

(* addSeckillVoucher: insert, which sets the id *)
AddSeckillVoucher(s) ==
  /\ rows # VoucherIds
  /\ vpc[s] = "idle"
  /\ rows' = rows \cup {NextId}
  /\ begun' = begun \cup {NextId}
  /\ vpc' = [vpc EXCEPT ![s] = "row"]
  /\ vid' = [vid EXCEPT ![s] = NextId]
  /\ UNCHANGED <<seckill, stockKeys, published, broken>>

(* mutated: no row for the sale *)
InsertNothing(s) ==
  /\ vpc[s] = "row"
  /\ vpc' = [vpc EXCEPT ![s] = "stock"]
  /\ UNCHANGED <<rows, seckill, stockKeys, vid, begun, published, broken>>

(* stock, begin_time and end_time are converted, which throws on a JSON *)
(* value of another type, and inserted                                  *)
InsertSeckill(s) ==
  /\ vpc[s] = "row"
  /\ \/ /\ seckill' = seckill \cup {vid[s]}
        /\ vpc' = [vpc EXCEPT ![s] = "stock"]
        /\ UNCHANGED <<vid, published, broken>>
     \/ Break(s) /\ UNCHANGED seckill
  /\ UNCHANGED <<rows, stockKeys, begun>>

(* SET seckill:stock, and the answer, unless the cast of the reply fails, *)
(* which the code expects (line 41)                                       *)
SetStock(s) ==
  /\ vpc[s] = "stock"
  /\ stockKeys' = stockKeys \cup {vid[s]}
  /\ \/ /\ published' = published \cup {vid[s]}
        /\ VLeave(s)
        /\ UNCHANGED broken
     \/ Faults /\ Break(s)
  /\ UNCHANGED <<rows, seckill, begun>>

VFail(s) ==
  /\ Faults
  /\ vpc[s] # "idle"
  /\ Break(s)
  /\ UNCHANGED <<rows, seckill, stockKeys, begun>>

VoucherRequest(s) == AddVoucher(s) \/ AddSeckillVoucher(s)
VoucherStep(s) == InsertSeckill(s) \/ SetStock(s) \/ VFail(s)

-----------------------------------------------------------------------------
(* Properties *)

(* What can be ordered is a voucher of the shop that addSeckillVoucher     *)
(* inserted, what has a stock in Redis can be ordered, and a client that   *)
(* got an answer finds both.  A voucher on which addSeckillVoucher got     *)
(* stuck, with no row for the sale or with that row and no stock, was left *)
(* by a failure, unless a server is just writing what lacks (lines 19-47); *)
(* servers that publish at the same time do not mix their vouchers up.     *)
PublishedInOrder ==
  LET AtWork(v, label) == \E s \in Servers : vid[s] = v /\ vpc[s] = label
  IN /\ seckill \subseteq begun /\ begun \subseteq rows
     /\ stockKeys \subseteq seckill
     /\ published \subseteq stockKeys \ broken
     /\ \A v \in begun \ seckill : v \in broken \/ AtWork(v, "row")
     /\ \A v \in seckill \ stockKeys : v \in broken \/ AtWork(v, "stock")
=============================================================================
