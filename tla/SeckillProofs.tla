---------------------------- MODULE SeckillProofs ----------------------------
(***************************************************************************)
(* Flash-sale ordering, for every number of servers, users and vouchers:   *)
(* the stock is never oversold, whatever expires, fails or crashes, and,   *)
(* if no handler outlives its lock (Prompt), the orders implement Sale.    *)
(***************************************************************************)
EXTENDS SeckillOrder, FiniteSetTheorems, TLAPS

-----------------------------------------------------------------------------
(* Types *)

(* Every variable keeps its type: in particular the stock never gets       *)
(* negative (tb_seckill_voucher.stock, line 115).                          *)
THEOREM TypeCorrect == Spec => []TypeOK
<1>1. Init => TypeOK
  BY StockAssumption, TimeAssumption
     DEF StockAssumption, TimeAssumption, Init, TypeOK
<1>2. TypeOK /\ [Next]_vars => TypeOK'
  <2> SUFFICES ASSUME TypeOK, [Next]_vars PROVE TypeOK'
    OBVIOUS
  <2> USE DEF TypeOK, Leave, Goto
  <2>1. ASSUME NEW s \in Servers, NEW r \in Request, Admit(s, r) PROVE TypeOK'
    BY <2>1, NoneAssumption DEF Admit, NoneAssumption
  <2>2. ASSUME NEW s \in Servers, TryLock(s) PROVE TypeOK'
    BY <2>2 DEF TryLock
  <2>3. ASSUME NEW s \in Servers, CheckOrders(s) PROVE TypeOK'
    BY <2>3 DEF CheckOrders
  <2>4. ASSUME NEW s \in Servers, Deduct(s) PROVE TypeOK'
    BY <2>4 DEF Deduct, Request
  <2>5. ASSUME NEW s \in Servers, NEW id \in OrderIds, Insert(s, id) PROVE TypeOK'
    <3>1. [id |-> id, user |-> req[s].user, voucher |-> req[s].voucher] \in Order
      BY <2>5, TimeAssumption DEF Insert, Order, OrderIds, Digits, Request, TimeAssumption
    <3> QED
      BY <2>5, <3>1 DEF Insert
  <2>6. ASSUME NEW s \in Servers, UnLock(s) PROVE TypeOK'
    BY <2>6 DEF UnLock
  <2>7. ASSUME NEW s \in Servers, Fail(s) PROVE TypeOK'
    BY <2>7 DEF Fail
  <2>8. ASSUME NEW u \in Users, Expire(u) PROVE TypeOK'
    BY <2>8 DEF Expire
  <2>9. CASE Tick
    BY <2>9, TimeAssumption DEF Tick, TimeAssumption
  <2>10. CASE UNCHANGED vars
    BY <2>10 DEF vars
  <2> QED
    BY <2>1, <2>2, <2>3, <2>4, <2>5, <2>6, <2>7, <2>8, <2>9, <2>10
       DEF Next, ServerStep
<1> QED
  BY <1>1, <1>2, PTL DEF Spec

-----------------------------------------------------------------------------
(* Counting *)

(* the servers that have taken a unit of v and not yet inserted its order *)
Pending(v) == {s \in Servers : pc[s] = "deducted" /\ req[s].voucher = v}

CountOf(v) ==
  Cardinality(OrdersOf(v)) + Cardinality(Pending(v)) + stock[v] <= InitStock[v]

Counted == IsFiniteSet(orders) /\ \A v \in Vouchers : CountOf(v)

LEMMA Finite ==
  ASSUME IsFiniteSet(orders), NEW v
  PROVE  /\ IsFiniteSet(OrdersOf(v)) /\ Cardinality(OrdersOf(v)) \in Nat
         /\ IsFiniteSet(Pending(v)) /\ Cardinality(Pending(v)) \in Nat
<1>1. OrdersOf(v) \subseteq orders /\ Pending(v) \subseteq Servers
  BY DEF OrdersOf, Pending
<1> QED
  BY <1>1, ServersAssumption, FS_Subset, FS_CardinalityType
     DEF ServersAssumption

(* steps that take nothing from the stock and add neither order nor claim *)
LEMMA NothingTaken ==
  ASSUME TypeOK, Counted, UNCHANGED <<stock, orders>>,
         \A s \in Servers : pc'[s] = "deducted" => pc[s] = "deducted" /\ req'[s] = req[s]
  PROVE  Counted'
<1>1. IsFiniteSet(orders')
  BY DEF Counted
<1>2. ASSUME NEW v \in Vouchers PROVE CountOf(v)'
  <2>1. Pending(v)' \subseteq Pending(v) /\ OrdersOf(v)' = OrdersOf(v)
    BY DEF Pending, OrdersOf
  <2>2. Cardinality(Pending(v)') <= Cardinality(Pending(v))
        /\ Cardinality(Pending(v)') \in Nat
    BY <2>1, Finite, FS_Subset, FS_CardinalityType DEF Counted
  <2>3. stock[v] \in Nat /\ InitStock[v] \in Nat
    BY StockAssumption DEF StockAssumption, TypeOK
  <2> QED
    BY <2>1, <2>2, <2>3, Finite DEF Counted, CountOf
<1> QED
  BY <1>1, <1>2 DEF Counted

(* the conditional update moves one unit from the stock to a claim *)
LEMMA DeductCounts ==
  ASSUME TypeOK, Counted, NEW s \in Servers, Deduct(s)
  PROVE  Counted'
<1>1. CASE ~(stock[req[s].voucher] > 0)
  BY <1>1, NothingTaken DEF Deduct, Leave, TypeOK
<1>2. CASE stock[req[s].voucher] > 0
  <2>1. PICK x \in Vouchers : x = req[s].voucher
    BY DEF Deduct, TypeOK, Request
  <2>2. IsFiniteSet(orders')
    BY DEF Counted, Deduct
  <2>3. ASSUME NEW v \in Vouchers, v # x PROVE CountOf(v)'
    <3>1. Pending(v)' = Pending(v) /\ OrdersOf(v)' = OrdersOf(v) /\ stock'[v] = stock[v]
      BY <1>2, <2>1, <2>3 DEF Deduct, Goto, Pending, OrdersOf, TypeOK
    <3> QED
      BY <3>1 DEF Counted, CountOf
  <2>4. CountOf(x)'
    <3>1. /\ Pending(x)' = Pending(x) \cup {s}
          /\ OrdersOf(x)' = OrdersOf(x)
          /\ stock'[x] = stock[x] - 1
      BY <1>2, <2>1 DEF Deduct, Goto, Pending, OrdersOf, TypeOK
    <3>2. s \notin Pending(x)
      BY <2>1 DEF Deduct, Pending
    <3>3. Cardinality(Pending(x)') = Cardinality(Pending(x)) + 1
      BY <3>1, <3>2, Finite, FS_AddElement DEF Counted
    <3>4. stock[x] \in Nat /\ InitStock[x] \in Nat
      BY <2>1, StockAssumption DEF StockAssumption, TypeOK
    <3>5. CountOf(x)
      BY <2>1 DEF Counted
    <3> QED
      BY <3>1, <3>3, <3>4, <3>5, Finite DEF Counted, CountOf
  <2> QED
    BY <2>2, <2>3, <2>4 DEF Counted
<1> QED
  BY <1>1, <1>2

NewOrder(s, id) ==
  [id |-> id, user |-> req[s].user, voucher |-> req[s].voucher]

(* what a server about to insert an order knows of the count *)
LEMMA ClaimLeavesRoom ==
  ASSUME TypeOK, Counted, NEW s \in Servers, pc[s] = "deducted"
  PROVE  Cardinality(OrdersOf(req[s].voucher)) < InitStock[req[s].voucher]
<1> DEFINE x == req[s].voucher
<1>1. x \in Vouchers
  BY DEF TypeOK, Request
<1>2. s \in Pending(x)
  BY DEF Pending
<1>3. Cardinality(Pending(x)) # 0
  BY <1>2, Finite, FS_EmptySet DEF Counted
<1>4. stock[x] \in Nat /\ InitStock[x] \in Nat
  BY <1>1, StockAssumption DEF StockAssumption, TypeOK
<1>5. CountOf(x)
  BY <1>1 DEF Counted
<1> HIDE DEF x
<1>6. Cardinality(OrdersOf(x)) < InitStock[x]
  BY <1>3, <1>4, <1>5, Finite DEF Counted, CountOf
<1> QED
  BY <1>6 DEF x

(* the insert turns a claim into an order, or drops the claim *)
LEMMA InsertCounts ==
  ASSUME TypeOK, Counted, NEW s \in Servers, NEW id \in OrderIds, Insert(s, id)
  PROVE  Counted'
<1>1. CASE \E o \in orders : o.id = id
  BY <1>1, NothingTaken DEF Insert, Leave, TypeOK
<1>2. CASE ~\E o \in orders : o.id = id
  <2>1. PICK x \in Vouchers : x = req[s].voucher
    BY DEF Insert, TypeOK, Request
  <2>2. orders' = orders \cup {NewOrder(s, id)} /\ NewOrder(s, id) \notin orders
    BY <1>2 DEF Insert, NewOrder
  <2>3. IsFiniteSet(orders')
    BY <2>2, FS_AddElement DEF Counted
  <2>4. ASSUME NEW v \in Vouchers, v # x PROVE CountOf(v)'
    <3>1. Pending(v)' = Pending(v) /\ OrdersOf(v)' = OrdersOf(v) /\ stock'[v] = stock[v]
      BY <1>2, <2>1, <2>2, <2>4 DEF Insert, Goto, Pending, OrdersOf, TypeOK, NewOrder
    <3> QED
      BY <3>1 DEF Counted, CountOf
  <2>5. CountOf(x)'
    <3>1. /\ Pending(x)' = Pending(x) \ {s}
          /\ OrdersOf(x)' = OrdersOf(x) \cup {NewOrder(s, id)}
          /\ stock'[x] = stock[x]
      BY <1>2, <2>1, <2>2 DEF Insert, Goto, Pending, OrdersOf, TypeOK, NewOrder
    <3>2. s \in Pending(x) /\ NewOrder(s, id) \notin OrdersOf(x)
      BY <2>1, <2>2 DEF Insert, Pending, OrdersOf
    <3>3. Cardinality(Pending(x)') = Cardinality(Pending(x)) - 1
      BY <3>1, <3>2, Finite, FS_RemoveElement DEF Counted
    <3>4. Cardinality(OrdersOf(x)') = Cardinality(OrdersOf(x)) + 1
      BY <3>1, <3>2, Finite, FS_AddElement DEF Counted
    <3>5. stock[x] \in Nat /\ InitStock[x] \in Nat
      BY <2>1, StockAssumption DEF StockAssumption, TypeOK
    <3>6. CountOf(x)
      BY <2>1 DEF Counted
    <3> QED
      BY <3>1, <3>3, <3>4, <3>5, <3>6, Finite DEF Counted, CountOf
  <2> QED
    BY <2>3, <2>4, <2>5 DEF Counted
<1> QED
  BY <1>1, <1>2

LEMMA CountedHolds == Spec => []Counted
<1>1. Init => Counted
  <2> SUFFICES ASSUME Init PROVE Counted
    OBVIOUS
  <2>1. IsFiniteSet(orders)
    BY FS_EmptySet DEF Init
  <2>2. ASSUME NEW v \in Vouchers PROVE CountOf(v)
    <3>1. OrdersOf(v) = {} /\ Pending(v) = {} /\ stock[v] = InitStock[v]
      BY DEF Init, OrdersOf, Pending
    <3>2. InitStock[v] \in Nat
      BY StockAssumption DEF StockAssumption
    <3> QED
      BY <3>1, <3>2, FS_EmptySet DEF CountOf
  <2> QED
    BY <2>1, <2>2 DEF Counted
<1>2. TypeOK /\ Counted /\ [Next]_vars => Counted'
  <2> SUFFICES ASSUME TypeOK, Counted, [Next]_vars PROVE Counted'
    OBVIOUS
  <2>1. ASSUME NEW s \in Servers, NEW r \in Request, Admit(s, r) PROVE Counted'
    BY <2>1, NothingTaken DEF Admit, TypeOK
  <2>2. ASSUME NEW s \in Servers, TryLock(s) PROVE Counted'
    BY <2>2, NothingTaken DEF TryLock, Leave, Goto, TypeOK
  <2>3. ASSUME NEW s \in Servers, CheckOrders(s) PROVE Counted'
    BY <2>3, NothingTaken DEF CheckOrders, Leave, Goto, TypeOK
  <2>4. ASSUME NEW s \in Servers, UnLock(s) PROVE Counted'
    BY <2>4, NothingTaken DEF UnLock, Leave, TypeOK
  <2>5. ASSUME NEW s \in Servers, Fail(s) PROVE Counted'
    BY <2>5, NothingTaken DEF Fail, Leave, TypeOK
  <2>6. ASSUME NEW u \in Users, Expire(u) PROVE Counted'
    BY <2>6, NothingTaken DEF Expire
  <2>7. CASE Tick
    BY <2>7, NothingTaken DEF Tick
  <2>8. CASE UNCHANGED vars
    BY <2>8, NothingTaken DEF vars
  <2> QED
    BY <2>1, <2>2, <2>3, <2>4, <2>5, <2>6, <2>7, <2>8, DeductCounts, InsertCounts
       DEF Next, ServerStep
<1> QED
  BY <1>1, <1>2, TypeCorrect, PTL DEF Spec

(* Orders and what is left never exceed the first stock, with expired      *)
(* locks, crashes and failing statements.                                  *)
THEOREM NeverOversold == Spec => []NoOversell
<1>1. TypeOK /\ Counted => NoOversell
  <2> SUFFICES ASSUME TypeOK, Counted, NEW v \in Vouchers
               PROVE  Cardinality(OrdersOf(v)) + stock[v] <= InitStock[v]
    BY DEF NoOversell
  <2>1. stock[v] \in Nat /\ InitStock[v] \in Nat
    BY StockAssumption DEF StockAssumption, TypeOK
  <2> QED
    BY <2>1, Finite DEF Counted, CountOf
<1> QED
  BY <1>1, TypeCorrect, CountedHolds, PTL

-----------------------------------------------------------------------------
(* One order for each user and voucher, if no handler outlives its lock *)

(* The lock is what one server at a time holds: those in the section have  *)
(* it in Redis, no two are there for one user, and the answer of the check *)
(* (5.1) stays true until the insert.                                      *)
Held == \A s \in Servers : InSection(s) => lock[req[s].user]

Exclusive ==
  \A s, t \in Servers :
    InSection(s) /\ InSection(t) /\ req[s].user = req[t].user => s = t

CheckStands ==
  \A s \in Servers : pc[s] \in {"checked", "deducted"} => ~Bought(req[s])

Started == \A s \in Servers : pc[s] # "idle" => now >= Begin

SaleInv == Held /\ Exclusive /\ CheckStands /\ Started /\ OneOrderPerUser

(* steps in which nobody enters the section, no lock goes and none is sold *)
LEMMA NobodyEnters ==
  ASSUME TypeOK, SaleInv, UNCHANGED <<orders, lock, now>>,
         NEW s \in Servers,
         \A t \in Servers \ {s} : pc'[t] = pc[t] /\ req'[t] = req[t],
         \/ pc'[s] = "idle"
         \/ /\ pc[s] # "idle" /\ req'[s] = req[s]
            /\ InSection(s)' => InSection(s)
            /\ pc'[s] \in {"checked", "deducted"} => ~Bought(req[s])
  PROVE  SaleInv'
<1>1. \A t \in Servers : InSection(t)' => InSection(t) /\ req'[t] = req[t]
  BY DEF InSection
<1>2. Held' /\ Exclusive'
  BY <1>1 DEF SaleInv, Held, Exclusive
<1>3. CheckStands'
  BY DEF SaleInv, CheckStands, Bought
<1>4. Started'
  BY DEF SaleInv, Started
<1>5. OneOrderPerUser'
  BY DEF SaleInv, OneOrderPerUser
<1> QED
  BY <1>2, <1>3, <1>4, <1>5 DEF SaleInv

LEMMA LockExcludes ==
  ASSUME TypeOK, SaleInv, NEW s \in Servers, TryLock(s)
  PROVE  SaleInv'
<1>1. CASE lock[req[s].user]
  BY <1>1, NobodyEnters DEF TryLock, Leave, TypeOK
<1>2. CASE ~lock[req[s].user]
  <2>1. PICK u \in Users : u = req[s].user
    BY DEF TryLock, TypeOK, Request
  <2>2. /\ lock' = [lock EXCEPT ![u] = TRUE]
        /\ pc' = [pc EXCEPT ![s] = "locked"]
        /\ UNCHANGED <<stock, orders, now, req>>
    BY <1>2, <2>1 DEF TryLock, Goto
  <2>3. \A t \in Servers : InSection(t) => req[t].user # u
    BY <1>2, <2>1 DEF SaleInv, Held
  <2>4. \A t \in Servers : InSection(t)' => InSection(t) \/ t = s
    BY <2>2 DEF InSection, TypeOK
  <2>5. Held'
    <3> SUFFICES ASSUME NEW t \in Servers, InSection(t)' PROVE lock'[req'[t].user]
      BY DEF Held
    <3>1. CASE t = s
      BY <3>1, <2>1, <2>2 DEF TypeOK
    <3>2. CASE t # s
      BY <3>2, <2>1, <2>2, <2>4 DEF SaleInv, Held, TypeOK
    <3> QED
      BY <3>1, <3>2
  <2>6. Exclusive'
    BY <2>1, <2>2, <2>3, <2>4 DEF SaleInv, Exclusive
  <2>7. CheckStands'
    BY <2>2 DEF SaleInv, CheckStands, Bought, TypeOK
  <2>8. Started'
    BY <2>2 DEF SaleInv, Started, TryLock, TypeOK
  <2>9. OneOrderPerUser'
    BY <2>2 DEF SaleInv, OneOrderPerUser
  <2> QED
    BY <2>5, <2>6, <2>7, <2>8, <2>9 DEF SaleInv
<1> QED
  BY <1>1, <1>2

LEMMA InsertKeepsOne ==
  ASSUME TypeOK, SaleInv, NEW s \in Servers, NEW id \in OrderIds, Insert(s, id)
  PROVE  SaleInv'
<1>1. CASE \E o \in orders : o.id = id
  BY <1>1, NobodyEnters DEF Insert, Leave, TypeOK
<1>2. CASE ~\E o \in orders : o.id = id
  <2>1. /\ orders' = orders \cup {NewOrder(s, id)}
        /\ pc' = [pc EXCEPT ![s] = "ordered"]
        /\ UNCHANGED <<stock, lock, now, req>>
    BY <1>2 DEF Insert, Goto, NewOrder
  <2>2. \A t \in Servers : InSection(t)' <=> InSection(t)
    BY <2>1 DEF InSection, Insert, TypeOK
  <2>3. ~Bought(req[s])
    BY DEF SaleInv, CheckStands, Insert
  <2>4. Held' /\ Exclusive'
    BY <2>1, <2>2 DEF SaleInv, Held, Exclusive
  <2>5. CheckStands'
    <3> SUFFICES ASSUME NEW t \in Servers, pc'[t] \in {"checked", "deducted"}
                 PROVE  ~Bought(req[t])'
      BY <2>1 DEF CheckStands, Bought
    <3>1. t # s /\ pc[t] \in {"checked", "deducted"}
      BY <2>1 DEF TypeOK
    <3>2. req[t].user # req[s].user
      BY <3>1 DEF SaleInv, Exclusive, InSection, Insert
    <3>3. ~Bought(req[t])
      BY <3>1 DEF SaleInv, CheckStands
    <3> QED
      BY <2>1, <3>2, <3>3 DEF Bought, NewOrder
  <2>6. Started'
    BY <2>1 DEF SaleInv, Started, Insert, TypeOK
  <2>7. OneOrderPerUser'
    BY <2>1, <2>3 DEF SaleInv, OneOrderPerUser, Bought, NewOrder
  <2> QED
    BY <2>4, <2>5, <2>6, <2>7 DEF SaleInv
<1> QED
  BY <1>1, <1>2

LEMMA UnLockReleasesOwn ==
  ASSUME TypeOK, SaleInv, NEW s \in Servers, UnLock(s)
  PROVE  SaleInv'
<1>1. PICK u \in Users : u = req[s].user
  BY DEF UnLock, TypeOK, Request
<1>2. /\ lock' = [lock EXCEPT ![u] = FALSE]
      /\ pc' = [pc EXCEPT ![s] = "idle"]
      /\ \A t \in Servers \ {s} : req'[t] = req[t]
      /\ UNCHANGED <<stock, orders, now>>
  BY <1>1 DEF UnLock, Leave, TypeOK
<1>3. \A t \in Servers : InSection(t)' =>
        InSection(t) /\ t # s /\ req'[t] = req[t] /\ req[t].user # u
  BY <1>1, <1>2 DEF SaleInv, Exclusive, InSection, UnLock, TypeOK
<1>4. Held'
  <2> SUFFICES ASSUME NEW t \in Servers, InSection(t)' PROVE lock'[req'[t].user]
    BY DEF Held
  <2>1. req[t] # None /\ req[t] \in Request \cup {None}
    BY <1>3 DEF TypeOK, InSection
  <2>2. req[t].user \in Users
    BY <2>1 DEF Request
  <2> QED
    BY <1>2, <1>3, <2>2 DEF SaleInv, Held, TypeOK
<1>5. Exclusive'
  BY <1>3 DEF SaleInv, Exclusive
<1>6. CheckStands' /\ Started'
  BY <1>2 DEF SaleInv, CheckStands, Started, Bought, TypeOK
<1>7. OneOrderPerUser'
  BY <1>2 DEF SaleInv, OneOrderPerUser
<1> QED
  BY <1>4, <1>5, <1>6, <1>7 DEF SaleInv

LEMMA ExpireTakesOrphans ==
  ASSUME Prompt, TypeOK, SaleInv, NEW u \in Users, Expire(u)
  PROVE  SaleInv'
<1>1. Held'
  <2> SUFFICES ASSUME NEW t \in Servers, InSection(t)' PROVE lock'[req'[t].user]
    BY DEF Held
  <2>1. InSection(t) /\ req[t].user # u /\ req' = req
    BY DEF Expire, InSection
  <2> QED
    BY <2>1 DEF Expire, SaleInv, Held, TypeOK
<1> QED
  BY <1>1 DEF Expire, SaleInv, Held, Exclusive, CheckStands, Started, Bought,
              OneOrderPerUser, InSection

LEMMA SaleInvHolds == ASSUME Prompt PROVE Spec => []SaleInv
<1>1. Init => SaleInv
  BY DEF Init, SaleInv, Held, Exclusive, CheckStands, Started, OneOrderPerUser,
         InSection
<1>2. TypeOK /\ SaleInv /\ [Next]_vars => SaleInv'
  <2> SUFFICES ASSUME TypeOK, SaleInv, [Next]_vars PROVE SaleInv'
    OBVIOUS
  <2>1. ASSUME NEW s \in Servers, NEW r \in Request, Admit(s, r) PROVE SaleInv'
    <3>1. /\ ~InSection(s) /\ ~InSection(s)'
          /\ \A t \in Servers \ {s} : pc'[t] = pc[t] /\ req'[t] = req[t]
          /\ pc'[s] = "admitted" /\ now >= Begin
          /\ UNCHANGED <<orders, lock, now>>
      BY <2>1, TimeAssumption DEF TimeAssumption, Admit, InSection, TypeOK
    <3>2. \A t \in Servers : InSection(t)' => InSection(t) /\ req'[t] = req[t]
      BY <3>1 DEF InSection
    <3>3. Held' /\ Exclusive'
      BY <3>1, <3>2 DEF SaleInv, Held, Exclusive
    <3>4. CheckStands' /\ Started'
      BY <3>1 DEF SaleInv, CheckStands, Started, Bought
    <3> QED
      BY <3>1, <3>3, <3>4 DEF SaleInv, OneOrderPerUser
  <2>2. ASSUME NEW s \in Servers, CheckOrders(s) PROVE SaleInv'
    BY <2>2, NobodyEnters DEF CheckOrders, Leave, Goto, InSection, TypeOK
  <2>3. ASSUME NEW s \in Servers, Deduct(s) PROVE SaleInv'
    <3>1. ~Bought(req[s])
      BY <2>3 DEF Deduct, SaleInv, CheckStands
    <3> QED
      BY <2>3, <3>1, NobodyEnters DEF Deduct, Leave, Goto, InSection, TypeOK
  <2>4. ASSUME NEW s \in Servers, Fail(s) PROVE SaleInv'
    BY <2>4, NobodyEnters DEF Fail, Leave, TypeOK
  <2>5. CASE Tick
    <3>1. now' >= now /\ now \in Int /\ now' \in Int /\ Begin \in Int
      BY <2>5, TimeAssumption DEF TimeAssumption, Tick, TypeOK
    <3>2. Started'
      BY <2>5, <3>1 DEF Tick, SaleInv, Started
    <3> QED
      BY <2>5, <3>2 DEF Tick, SaleInv, Held, Exclusive, CheckStands, Bought,
                        OneOrderPerUser, InSection
  <2>6. CASE UNCHANGED vars
    BY <2>6 DEF vars, SaleInv, Held, Exclusive, CheckStands, Started, Bought,
                OneOrderPerUser, InSection
  <2> QED
    BY <2>1, <2>2, <2>3, <2>4, <2>5, <2>6, LockExcludes, InsertKeepsOne,
       UnLockReleasesOwn, ExpireTakesOrphans DEF Next, ServerStep
<1> QED
  BY <1>1, <1>2, TypeCorrect, PTL DEF Spec

(* With any number of servers, nobody gets two orders for one voucher, if  *)
(* every handler ends before its lock does.                                *)
THEOREM OneOrder == ASSUME Prompt PROVE Spec => []OneOrderPerUser
<1>1. SaleInv => OneOrderPerUser
  BY DEF SaleInv
<1> QED
  BY <1>1, SaleInvHolds, PTL

(* Under the same assumption the orders grow as Sale promises. *)
THEOREM PromptSale == ASSUME Prompt PROVE Spec => SaleImplemented
<1>1. Init => SaleOf!Init
  <2> SUFFICES ASSUME Init PROVE Left = InitStock
    BY DEF Init, SaleOf!Init
  <2>1. \A v \in Vouchers : OrdersOf(v) = {} /\ InitStock[v] \in Nat
    BY StockAssumption DEF StockAssumption, Init, OrdersOf
  <2>2. \A v \in Vouchers : InitStock[v] - Cardinality(OrdersOf(v)) = InitStock[v]
    BY <2>1, FS_EmptySet
  <2> QED
    BY <2>2, StockAssumption DEF StockAssumption, Left
<1>2. TypeOK /\ Counted /\ SaleInv /\ [Next]_vars
        => [SaleOf!Next]_<<orders, Left, now>>
  <2> SUFFICES ASSUME TypeOK, Counted, SaleInv, [Next]_vars,
                      ~UNCHANGED <<orders, Left, now>>
               PROVE  SaleOf!Next
    OBVIOUS
  <2>1. UNCHANGED orders => UNCHANGED Left
    BY DEF Left, OrdersOf
  <2>2. CASE Tick
    BY <2>1, <2>2 DEF Tick, TypeOK, SaleOf!Next, SaleOf!TimePasses
  <2>3. ASSUME NEW s \in Servers, NEW id \in OrderIds, Insert(s, id) PROVE SaleOf!Next
    <3>1. orders' # orders
      BY <2>1, <2>3 DEF Insert
    <3>2. orders' = orders \cup {NewOrder(s, id)} /\ now' = now
      BY <2>3, <3>1 DEF Insert, NewOrder
    <3>3. PICK x \in Vouchers : x = req[s].voucher
      BY <2>3 DEF Insert, TypeOK, Request
    <3>4. NewOrder(s, id).voucher = x /\ NewOrder(s, id).user = req[s].user
      BY <3>3 DEF NewOrder
    <3>5. now >= Begin /\ ~Bought(req[s])
      BY <2>3 DEF Insert, SaleInv, Started, CheckStands
    <3>6. Left[x] > 0
      <4>1. Cardinality(OrdersOf(x)) < InitStock[x]
        BY <2>3, <3>3, ClaimLeavesRoom DEF Insert
      <4>2. Cardinality(OrdersOf(x)) \in Nat /\ InitStock[x] \in Nat
        BY Finite, StockAssumption DEF Counted, StockAssumption
      <4>3. InitStock[x] - Cardinality(OrdersOf(x)) > 0
        BY <4>1, <4>2
      <4> QED
        BY <4>3 DEF Left
    <3>7. Left' = [Left EXCEPT ![x] = @ - 1]
      <4>1. OrdersOf(x)' = OrdersOf(x) \cup {NewOrder(s, id)}
            /\ NewOrder(s, id) \notin OrdersOf(x)
        BY <3>1, <3>2, <3>4 DEF OrdersOf
      <4>2. Cardinality(OrdersOf(x)') = Cardinality(OrdersOf(x)) + 1
        BY <4>1, Finite, FS_AddElement DEF Counted
      <4>3. Cardinality(OrdersOf(x)) \in Nat /\ InitStock[x] \in Nat
        BY Finite, StockAssumption DEF Counted, StockAssumption
      <4>4. InitStock[x] - Cardinality(OrdersOf(x)')
              = (InitStock[x] - Cardinality(OrdersOf(x))) - 1
        BY <4>2, <4>3
      <4>5. \A v \in Vouchers : v # x => OrdersOf(v)' = OrdersOf(v)
        BY <3>2, <3>4 DEF OrdersOf
      <4> QED
        BY <4>4, <4>5 DEF Left
    <3>8. \A p \in orders : ~(p.user = NewOrder(s, id).user
                              /\ p.voucher = NewOrder(s, id).voucher)
      BY <3>3, <3>4, <3>5 DEF Bought
    <3>9. SaleOf!Sell(NewOrder(s, id))
      BY <3>2, <3>4, <3>5, <3>6, <3>7, <3>8 DEF SaleOf!Sell
    <3> QED
      BY <3>2, <3>9 DEF SaleOf!Next
  <2> QED
    BY <2>1, <2>2, <2>3 DEF Next, ServerStep, Admit, TryLock, CheckOrders,
                            Deduct, UnLock, Fail, Expire, vars
<1> QED
  BY <1>1, <1>2, TypeCorrect, CountedHolds, SaleInvHolds, PTL
     DEF Spec, SaleImplemented, SaleOf!SaleSpec
=============================================================================
