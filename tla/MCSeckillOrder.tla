--------------------------- MODULE MCSeckillOrder ---------------------------
EXTENDS SeckillOrder

(* one voucher with a piece for each of two users, one with a piece less *)
OneShort ==
  CHOOSE f \in [Vouchers -> {1, 2}] : {f[v] : v \in Vouchers} = {1, 2}
=============================================================================
