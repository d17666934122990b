-------------------------------- MODULE Sale --------------------------------
(***************************************************************************)
(* What the flash sale of vouchers promises: once it has begun, orders are *)
(* added one at a time while pieces of the voucher are left, at most one   *)
(* for each user and voucher; no order is ever changed or withdrawn.       *)
(***************************************************************************)
EXTENDS Naturals

CONSTANTS
  InitStock,    \* how many of each voucher are for sale
  Begin         \* begin_time of the sale

VARIABLES
  orders,       \* the orders, records with the fields user and voucher
  left,         \* how many of each voucher are left
  now           \* the time

Init == orders = {} /\ left = InitStock

(* o is the order that this step adds *)
Sell(o) ==
  /\ now >= Begin
  /\ left[o.voucher] > 0
  /\ \A p \in orders : ~(p.user = o.user /\ p.voucher = o.voucher)
  /\ orders' = orders \cup {o}
  /\ left' = [left EXCEPT ![o.voucher] = @ - 1]
  /\ now' = now

TimePasses == now' > now /\ UNCHANGED <<orders, left>>

Next == TimePasses \/ \E o \in orders' : Sell(o)

SaleSpec == Init /\ [][Next]_<<orders, left, now>>
=============================================================================
