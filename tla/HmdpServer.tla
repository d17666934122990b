----------------------------- MODULE HmdpServer -----------------------------
(***************************************************************************)
(* The servers of the C++ back end with two of their services: the request *)
(* thread of a process is in a handler of UserServiceImpl or in one of     *)
(* VoucherServiceImpl.                                                     *)
(***************************************************************************)
EXTENDS UserLogin

CONSTANT MaxVouchers   \* bound: rows of tb_voucher
ASSUME VouchersAssumption == MaxVouchers \in Nat

VARIABLES rows, seckill, stockKeys, vpc, vid, begun, published, broken

Voucher == INSTANCE Vouchers
publishing == <<rows, seckill, stockKeys, vpc, vid, begun, published, broken>>
vars == <<lvars, publishing>>

Idle(s) == pc[s] = "idle" /\ vpc[s] = "idle"

SInit == Init /\ Voucher!VInit

SNext ==
  \/ /\ \E s \in Servers : (Idle(s) /\ UserRequest(s)) \/ UserStep(s)
     /\ UNCHANGED publishing
  \/ KeyExpires /\ UNCHANGED publishing
  \/ /\ \E s \in Servers : \/ Idle(s) /\ Voucher!VoucherRequest(s)
                           \/ Voucher!VoucherStep(s)
     /\ UNCHANGED lvars

SSpec == SInit /\ [][SNext]_vars

PublishedInOrder == Voucher!PublishedInOrder
STypeOK == TypeOK /\ Voucher!VTypeOK
=============================================================================
