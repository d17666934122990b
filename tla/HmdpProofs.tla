----------------------------- MODULE HmdpProofs -----------------------------
(***************************************************************************)
(* Login and the publication of vouchers in the C++ back end, for every    *)
(* number of servers, phones, codes, tokens and vouchers.                  *)
(***************************************************************************)
EXTENDS HmdpServer, FiniteSetTheorems, FunctionTheorems, TLAPS

-----------------------------------------------------------------------------
(* Types of the users and their sessions *)

OneRow == \A u, v \in users : u.phone = v.phone => u = v

(* what a handler has at its label *)
Has(s) ==
  /\ pc[s] \in {"get", "find", "insert", "recount", "hmset"} => req[s].phone \in Phones
  /\ pc[s] \in {"expire", "refresh"} => req[s].token \in Tokens
  /\ pc[s] \in {"recount", "hmset"} =>
       \E u \in users : u.id = got[s] /\ u.phone = req[s].phone

Typed == TypeOK /\ IsFiniteSet(users) /\ OneRow /\ \A s \in Servers : Has(s)

LEMMA InitTyped == Init => Typed
<1>1. Init => IsFiniteSet(users)
  BY FS_EmptySet DEF Init
<1>2. Init => TypeOK
  BY DEF Init, TypeOK, Exists
<1> QED
  BY <1>1, <1>2 DEF Init, Typed, OneRow, Has

(* there is an id for the user of a phone that has none *)
LEMMA FreshId ==
  ASSUME Typed, NEW p \in Phones, RowsOf(p) = {}
  PROVE  Cardinality(users) + 1 \in Ids
<1> DEFINE T == Phones \ {p}
           f == [u \in users |-> u.phone]
<1>1. /\ IsFiniteSet(T) /\ Cardinality(T) = Cardinality(Phones) - 1
      /\ Cardinality(T) \in Nat /\ Cardinality(Phones) \in Nat
  BY PhonesAssumption, FS_RemoveElement, FS_CardinalityType DEF PhonesAssumption
<1>2. IsFiniteSet(users) /\ Cardinality(users) \in Nat
  BY FS_CardinalityType DEF Typed
<1>3. f \in [users -> T]
  BY DEF Typed, TypeOK, Row, RowsOf
<1>4. \A x, y \in users : x # y => f[x] # f[y]
  BY DEF Typed, OneRow
<1> HIDE DEF T, f
<1>5. ~(Cardinality(T) < Cardinality(users))
  BY <1>1, <1>2, <1>3, <1>4, FS_PigeonHole
<1> QED
  BY <1>1, <1>2, <1>5 DEF Ids

(* a step that keeps the users and moves one handler *)
LEMMA Moves ==
  ASSUME Typed, NEW s \in Servers, users' = users, TypeOK', Has(s)',
         \A t \in Servers : t # s => /\ pc'[t] = pc[t] /\ req'[t] = req[t]
                                     /\ got'[t] = got[t]
  PROVE  Typed'
BY DEF Typed, OneRow, Has

(* the other part of the types *)
LEMMA LeaveTyped ==
  ASSUME Typed, NEW s \in Servers, Leave(s), UNCHANGED <<code, users, keys>>
  PROVE  Typed'
<1>1. TypeOK'
  BY DEF Typed, TypeOK, Leave, keys, Exists
<1>2. Has(s)'
  BY DEF Typed, TypeOK, Leave, Has
<1> QED
  BY <1>1, <1>2, Moves DEF Typed, TypeOK, Leave

LEMMA RequestTyped ==
  ASSUME Typed, NEW s \in Servers, UserRequest(s)
  PROVE  Typed'
<1>1. ASSUME NEW p \in Phones, NEW c \in Codes, SendCode(s, p, c) PROVE Typed'
  <2>1. TypeOK'
    BY <1>1 DEF SendCode, Typed, TypeOK, keys, Exists
  <2> QED
    BY <1>1, <2>1 DEF SendCode, Typed, OneRow, Has
<1>2. ASSUME NEW p \in Phones, NEW c \in Codes, Login(s, p, c) PROVE Typed'
  <2>1. [phone |-> p, code |-> c, token |-> None] \in Request
    BY DEF Request
  <2>2. [phone |-> p, code |-> c, token |-> None] # None
    BY <2>1, NoneAssumption DEF Request, NoneAssumption
  <2>3. TypeOK'
    BY <1>2, <2>1, <2>2 DEF Login, Start, Typed, TypeOK, keys, Exists
  <2>4. Has(s)'
    BY <1>2 DEF Login, Start, Typed, TypeOK, Has
  <2> QED
    BY <1>2, <2>3, <2>4, Moves DEF Login, Start, Typed, TypeOK
<1>3. ASSUME NEW t \in Tokens, GetCurrent(s, t) PROVE Typed'
  <2>1. [phone |-> None, code |-> None, token |-> t] \in Request
    BY DEF Request
  <2>2. [phone |-> None, code |-> None, token |-> t] # None
    BY <2>1, NoneAssumption DEF NoneAssumption
  <2>3. TypeOK'
    BY <1>3, <2>1, <2>2 DEF GetCurrent, Start, Typed, TypeOK, keys, Exists
  <2>4. Has(s)'
    BY <1>3 DEF GetCurrent, Start, Typed, TypeOK, Has
  <2> QED
    BY <1>3, <2>3, <2>4, Moves DEF GetCurrent, Start, Typed, TypeOK
<1> QED
  BY <1>1, <1>2, <1>3 DEF UserRequest

LEMMA StepTyped ==
  ASSUME Typed, NEW s \in Servers, UserStep(s)
  PROVE  Typed'
<1>1. ASSUME NEW label, NEW id \in Ids \cup {0}, Goto(s, label, id),
             UNCHANGED <<code, users, keys>>,
             \/ label \in {"find", "insert"}
             \/ /\ label \in {"recount", "hmset"}
                /\ \E u \in users : u.id = id /\ u.phone = req[s].phone,
             pc[s] # "idle", req[s].phone \in Phones
      PROVE  Typed'
  <2>1. TypeOK'
    BY <1>1 DEF Goto, Typed, TypeOK, keys, Exists
  <2>2. Has(s)'
    BY <1>1 DEF Goto, Typed, TypeOK, Has
  <2> QED
    BY <1>1, <2>1, <2>2, Moves DEF Goto, Typed, TypeOK
<1>2. CASE CheckCode(s)
  BY <1>1, <1>2, LeaveTyped DEF CheckCode, Typed, Has
<1>3. CASE FindUser(s)
  <2>1. req[s].phone \in Phones
    BY <1>3 DEF FindUser, Typed, Has
  <2>2. ASSUME NEW u \in RowsOf(req[s].phone)
        PROVE  u \in users /\ u.phone = req[s].phone /\ u.id \in Ids
    BY DEF RowsOf, Typed, TypeOK, Row
  <2>3. pc[s] # "idle" /\ UNCHANGED <<code, users, keys>>
    BY <1>3 DEF FindUser
  <2>4. CASE Goto(s, "insert", 0)
    BY <1>1, <2>1, <2>3, <2>4
  <2>5. ASSUME NEW u \in RowsOf(req[s].phone), Goto(s, "hmset", u.id) PROVE Typed'
    BY <1>1, <2>1, <2>2, <2>3, <2>5
  <2>6. CASE Leave(s)
    BY <2>3, <2>6, LeaveTyped
  <2> QED
    BY <1>3, <2>4, <2>5, <2>6 DEF FindUser
<1>4. CASE InsertUser(s)
  <2>1. req[s].phone \in Phones
    BY <1>4 DEF InsertUser, Typed, Has
  <2>2. CASE RowsOf(req[s].phone) # {}
    BY <1>4, <2>2, LeaveTyped DEF InsertUser
  <2>3. CASE RowsOf(req[s].phone) = {}
    <3> DEFINE id == Cardinality(users) + 1
               r == [id |-> id, phone |-> req[s].phone]
    <3>1. id \in Ids
      BY <2>1, <2>3, FreshId
    <3>2. users' = users \cup {r} /\ Goto(s, "recount", id) /\ UNCHANGED <<code, keys>>
      BY <1>4, <2>3 DEF InsertUser
    <3>3. r \in Row /\ r.phone = req[s].phone /\ r.id = id
      BY <2>1, <3>1 DEF Row
    <3> HIDE DEF id, r
    <3>4. TypeOK'
      <4>1. users' \subseteq Row
        BY <3>2, <3>3 DEF Typed, TypeOK
      <4>2. pc[s] # "idle"
        BY <1>4 DEF InsertUser
      <4> QED
        BY <3>1, <3>2, <4>1, <4>2 DEF Goto, Typed, TypeOK, keys, Exists
    <3>5. IsFiniteSet(users')
      BY <3>2, FS_AddElement DEF Typed
    <3>6. OneRow'
      BY <2>3, <3>2, <3>3 DEF Typed, OneRow, RowsOf
    <3>7. ASSUME NEW t \in Servers PROVE Has(t)'
      <4>1. CASE t = s
        BY <2>1, <3>2, <3>3, <4>1 DEF Goto, Typed, TypeOK, Has
      <4>2. CASE t # s
        BY <3>2, <4>2 DEF Goto, Typed, TypeOK, Has
      <4> QED
        BY <4>1, <4>2
    <3> QED
      BY <3>4, <3>5, <3>6, <3>7 DEF Typed
  <2> QED
    BY <2>2, <2>3
<1>5. CASE Recount(s)
  <2>1. CASE Goto(s, "hmset", got[s])
    <3>1. got[s] \in Ids \cup {0}
      BY DEF Typed, TypeOK
    <3> QED
      BY <1>1, <1>5, <2>1, <3>1 DEF Recount, Typed, Has
  <2>2. CASE Leave(s)
    BY <1>5, <2>2, LeaveTyped DEF Recount
  <2> QED
    BY <1>5, <2>1, <2>2 DEF Recount
<1>6. ASSUME NEW t \in Tokens, StoreToken(s, t) PROVE Typed'
  <2> DEFINE r == [phone |-> None, code |-> None, token |-> t]
  <2>1. r \in Request /\ r.token = t
    BY DEF Request
  <2>2. r # None
    BY <2>1, NoneAssumption DEF NoneAssumption
  <2>3. got[s] \in Ids /\ got[s] # 0
    BY <1>6 DEF StoreToken, Typed, TypeOK, Has, Row, Ids
  <2>4. req[s].phone \in Phones
    BY <1>6 DEF StoreToken, Typed, Has
  <2>5. /\ pc' = [pc EXCEPT ![s] = "expire"] /\ req' = [req EXCEPT ![s] = r]
        /\ session' = [session EXCEPT ![t] = got[s]]
        /\ owner' = [owner EXCEPT ![t] = req[s].phone]
        /\ UNCHANGED <<code, users, ttl, got, answered>>
    BY <1>6 DEF StoreToken
  <2> HIDE DEF r
  <2>6. TypeOK'
    BY <2>1, <2>2, <2>3, <2>4, <2>5 DEF Typed, TypeOK, Exists
  <2>7. Has(s)'
    BY <2>1, <2>5 DEF Typed, TypeOK, Has
  <2> QED
    BY <2>5, <2>6, <2>7, Moves DEF Typed, TypeOK
<1>7. CASE SetExpiry(s) \/ Refresh(s)
  <2>1. req[s].token \in Tokens
    BY <1>7 DEF SetExpiry, Refresh, Typed, Has
  <2>2. TypeOK'
    BY <1>7, <2>1 DEF SetExpiry, Refresh, Leave, Typed, TypeOK, Exists
  <2>3. Has(s)'
    BY <1>7 DEF SetExpiry, Refresh, Leave, Typed, TypeOK, Has
  <2> QED
    BY <1>7, <2>2, <2>3, Moves DEF SetExpiry, Refresh, Leave, Typed, TypeOK
<1>8. CASE Fail(s)
  BY <1>8, LeaveTyped DEF Fail
<1> QED
  BY <1>2, <1>3, <1>4, <1>5, <1>6, <1>7, <1>8 DEF UserStep

LEMMA ExpiryTyped ==
  ASSUME Typed, KeyExpires
  PROVE  Typed'
<1>1. UNCHANGED <<users, pc, req, got>>
  BY DEF KeyExpires, CodeExpires, TokenExpires
<1>2. TypeOK'
  BY DEF KeyExpires, CodeExpires, TokenExpires, Typed, TypeOK, keys, Exists
<1> QED
  BY <1>1, <1>2 DEF Typed, OneRow, Has

LEMMA UsersTyped ==
  ASSUME Typed, [SNext]_vars
  PROVE  Typed'
<1>1. CASE UNCHANGED lvars
  BY <1>1 DEF lvars, Typed, TypeOK, OneRow, Has, Exists
<1> QED
  BY <1>1, RequestTyped, StepTyped, ExpiryTyped DEF SNext, vars

-----------------------------------------------------------------------------
(* Users and tokens *)

(* only login stores a session, for a new token *)
LEMMA SessionStep ==
  ASSUME Typed, [SNext]_vars, NEW t \in Tokens,
         session'[t] # session[t] \/ owner'[t] # owner[t]
  PROVE  \/ \E s \in Servers : StoreToken(s, t)
         \/ session'[t] = 0 /\ owner'[t] = owner[t]
<1>1. \/ \E s \in Servers, k \in Tokens : StoreToken(s, k)
      \/ \E k \in Tokens : TokenExpires(k)
  BY DEF SNext, vars, lvars, keys, UserRequest, SendCode, Login, GetCurrent, UserStep,
     CheckCode, FindUser, InsertUser, Recount, SetExpiry, Refresh, Fail, KeyExpires,
     CodeExpires
<1>2. ASSUME NEW s \in Servers, NEW k \in Tokens, StoreToken(s, k) PROVE k = t
  BY <1>2 DEF StoreToken, Typed, TypeOK
<1>3. ASSUME NEW k \in Tokens, TokenExpires(k)
      PROVE  session'[t] = 0 /\ owner'[t] = owner[t]
  BY <1>3 DEF TokenExpires, Typed, TypeOK
<1> QED
  BY <1>1, <1>2, <1>3

(* The session of a token belongs to the user of the phone that logged in. *)
THEOREM TokenHasItsOwner == SSpec => []TokenOwner
<1>1. SInit => Typed /\ TokenOwner
  BY InitTyped DEF SInit, Init, TokenOwner, Exists
<1>2. Typed /\ TokenOwner /\ [SNext]_vars => TokenOwner'
  <2> SUFFICES ASSUME Typed, TokenOwner, [SNext]_vars, NEW t \in Tokens, session'[t] # 0
               PROVE  \E u \in users' : u.id = session'[t] /\ u.phone = owner'[t]
    BY DEF TokenOwner, Exists
  <2>1. users \subseteq users'
    BY DEF SNext, vars, lvars, UserRequest, SendCode, Login, GetCurrent, UserStep,
       CheckCode, FindUser, InsertUser, Recount, StoreToken, SetExpiry, Refresh, Fail,
       KeyExpires, CodeExpires, TokenExpires
  <2>2. CASE session'[t] = session[t] /\ owner'[t] = owner[t]
    BY <2>1, <2>2 DEF TokenOwner, Exists
  <2>3. ASSUME NEW s \in Servers, StoreToken(s, t)
        PROVE  \E u \in users' : u.id = session'[t] /\ u.phone = owner'[t]
    <3>1. session'[t] = got[s] /\ owner'[t] = req[s].phone
      BY <2>3 DEF StoreToken, Typed, TypeOK
    <3>2. \E u \in users : u.id = got[s] /\ u.phone = req[s].phone
      BY <2>3 DEF StoreToken, Typed, Has
    <3> QED
      BY <2>1, <3>1, <3>2
  <2> QED
    BY <2>2, <2>3, SessionStep
<1> QED
  BY <1>1, <1>2, UsersTyped, PTL DEF SSpec

(* a token that was stored is known to have been *)
TokensUsed ==
  /\ \A t \in answered : owner[t] # None
  /\ \A s \in Servers : pc[s] = "expire" => owner[req[s].token] # None

TokenInv == TokensUsed /\ AnsweredExpires

(* Each token that a client has got expires. *)
THEOREM NoTokenForEver == SSpec => []AnsweredExpires
<1>1. SInit => Typed /\ TokenInv
  BY InitTyped DEF SInit, Init, TokenInv, TokensUsed, AnsweredExpires
<1>2. Typed /\ TokenInv /\ [SNext]_vars => TokenInv'
  <2> SUFFICES ASSUME Typed, TokenInv, [SNext]_vars PROVE TokenInv'
    OBVIOUS
  <2> USE DEF TokenInv, TokensUsed, AnsweredExpires
  <2>1. ASSUME NEW s \in Servers, UserRequest(s) PROVE TokenInv'
    BY <2>1 DEF UserRequest, SendCode, Login, GetCurrent, Start, keys, Typed, TypeOK,
       Exists
  <2>2. ASSUME NEW s \in Servers,
               CheckCode(s) \/ FindUser(s) \/ InsertUser(s) \/ Recount(s) \/ Fail(s)
        PROVE  TokenInv'
    <3>1. UNCHANGED keys /\ \A t \in Servers :
            /\ pc'[t] = "expire" => pc[t] = "expire" /\ t # s
            /\ t # s => req'[t] = req[t]
      <4>1. UNCHANGED keys
        BY <2>2 DEF CheckCode, FindUser, InsertUser, Recount, Fail
      <4>2. \/ Leave(s)
            \/ \E label \in {"find", "insert", "recount", "hmset"} :
                  \E id : Goto(s, label, id)
        <5>1. CASE CheckCode(s)
          BY <5>1, Zenon DEF CheckCode
        <5>2. CASE FindUser(s)
          BY <5>2 DEF FindUser
        <5>3. CASE InsertUser(s)
          BY <5>3, Zenon DEF InsertUser
        <5>4. CASE Recount(s)
          BY <5>4, Zenon DEF Recount
        <5> QED
          BY <2>2, <5>1, <5>2, <5>3, <5>4 DEF Fail
      <4> QED
        BY <4>1, <4>2 DEF Goto, Leave, Typed, TypeOK
    <3> QED
      BY <3>1 DEF keys, Exists
  <2>3. ASSUME NEW s \in Servers, NEW t \in Tokens, StoreToken(s, t) PROVE TokenInv'
    <3>1. req[s].phone # None
      BY <2>3, NoneAssumption DEF NoneAssumption, StoreToken, Typed, Has
    <3>2. t \notin answered
      BY <2>3 DEF StoreToken
    <3>3. \A k \in Tokens : owner[k] # None => owner'[k] # None
      BY <2>3, <3>1 DEF StoreToken, Typed, TypeOK
    <3>4. owner'[t] # None
      BY <2>3, <3>1 DEF StoreToken, Typed, TypeOK
    <3>5. \A k \in Servers : pc'[k] = "expire" => owner'[req'[k].token] # None
      BY <2>3, <3>3, <3>4 DEF StoreToken, Typed, TypeOK, Has
    <3>6. \A k \in answered : session'[k] = session[k]
      BY <2>3, <3>2 DEF StoreToken, Typed, TypeOK
    <3> QED
      BY <2>3, <3>3, <3>5, <3>6 DEF StoreToken, Typed, TypeOK, Exists
  <2>4. ASSUME NEW s \in Servers, SetExpiry(s) \/ Refresh(s) PROVE TokenInv'
    <3>1. req[s].token \in Tokens
      BY <2>4 DEF SetExpiry, Refresh, Typed, Has
    <3>2. /\ ttl' = [ttl EXCEPT ![req[s].token] = session[req[s].token] # 0]
          /\ UNCHANGED <<session, owner>>
          /\ answered' \subseteq answered \cup {req[s].token}
          /\ req[s].token \in answered' \ answered => pc[s] = "expire"
          /\ \A k \in Servers : pc'[k] = "expire" => pc[k] = "expire" /\ req'[k] = req[k]
      BY <2>4 DEF SetExpiry, Refresh, Leave, Exists, Typed, TypeOK
    <3>3. AnsweredExpires'
      <4> SUFFICES ASSUME NEW t \in answered', session'[t] # 0 PROVE ttl'[t]
        BY DEF Exists
      <4>1. CASE t = req[s].token
        BY <3>1, <3>2, <4>1 DEF Typed, TypeOK
      <4>2. CASE t # req[s].token
        BY <3>1, <3>2, <4>2 DEF Exists, Typed, TypeOK
      <4> QED
        BY <4>1, <4>2
    <3>4. TokensUsed'
      BY <3>1, <3>2
    <3> QED
      BY <3>3, <3>4
  <2>5. CASE KeyExpires
    BY <2>5 DEF KeyExpires, CodeExpires, TokenExpires, keys, Exists, Typed, TypeOK
  <2>6. CASE UNCHANGED lvars
    BY <2>6 DEF lvars, Exists
  <2> QED
    BY <2>1, <2>2, <2>3, <2>4, <2>5, <2>6 DEF SNext, UserStep, vars
<1>3. TokenInv => AnsweredExpires
  BY DEF TokenInv
<1> QED
  BY <1>1, <1>2, <1>3, UsersTyped, PTL DEF SSpec

-----------------------------------------------------------------------------
(* Vouchers *)

(* AUTO_INCREMENT: the ids in use are the first ones *)
IdsInOrder == \E n \in 0 .. MaxVouchers : rows = 1 .. n

(* A server at work has a voucher of its own, which nobody has answered *)
Writing ==
  /\ published \cup broken \subseteq begun /\ begun \subseteq rows
  /\ \A s \in Servers :
       /\ vpc[s] = "idle" <=> vid[s] = 0
       /\ vid[s] # 0 => vid[s] \in begun \ (published \cup broken)
       /\ vpc[s] = "stock" => vid[s] \in seckill
       /\ \A t \in Servers : vid[t] = vid[s] /\ vid[s] # 0 => t = s

VTyped == Voucher!VTypeOK /\ IdsInOrder /\ Writing

VoucherInv == VTyped /\ PublishedInOrder

LEMMA NextIdIsFree ==
  ASSUME VTyped, rows # Voucher!VoucherIds
  PROVE  /\ Voucher!NextId \in Voucher!VoucherIds \ rows
         /\ Voucher!NextId # 0 /\ Voucher!NextId \in 0 .. MaxVouchers
         /\ rows \cup {Voucher!NextId} = 1 .. Voucher!NextId
<1> USE VouchersAssumption DEF VouchersAssumption
<1>1. PICK n \in 0 .. MaxVouchers : rows = 1 .. n
  BY DEF VTyped, IdsInOrder
<1>2. n < MaxVouchers
  BY <1>1 DEF Voucher!VoucherIds
<1>3. n + 1 \in Voucher!VoucherIds /\ n + 1 \notin rows
  BY <1>1, <1>2 DEF Voucher!VoucherIds
<1>4. Voucher!NextId = n + 1
  <2>1. rows = 1 .. (n + 1) - 1
    BY <1>1
  <2>2. /\ Voucher!NextId \in Voucher!VoucherIds
        /\ rows = 1 .. Voucher!NextId - 1
    BY <1>3, <2>1, Zenon DEF Voucher!NextId
  <2>3. Voucher!NextId \in 1 .. MaxVouchers
    BY <2>2 DEF Voucher!VoucherIds
  <2> HIDE DEF Voucher!NextId
  <2>4. ~(n < Voucher!NextId - 1)
    BY <1>1, <2>2, <2>3
  <2>5. ~(Voucher!NextId - 1 < n)
    BY <1>1, <2>2, <2>3
  <2> QED
    BY <2>3, <2>4, <2>5
<1> QED
  BY <1>1, <1>2, <1>3, <1>4

(* What the end of a publication without an answer leaves *)
LEMMA BreakTyped ==
  ASSUME VTyped, NEW s \in Servers, vpc[s] # "idle", Voucher!Break(s),
         UNCHANGED <<rows, seckill, begun>>, stockKeys' \subseteq stockKeys \cup {vid[s]}
  PROVE  VTyped'
BY DEF Voucher!Break, Voucher!VLeave, VTyped, Voucher!VTypeOK, IdsInOrder, Writing

LEMMA VouchersTyped ==
  ASSUME VTyped, [SNext]_vars
  PROVE  VTyped'
<1> USE DEF Voucher!VTypeOK, Writing
<1>1. ASSUME NEW s \in Servers, Voucher!VoucherRequest(s) PROVE VTyped'
  <2> DEFINE new == Voucher!NextId
  <2>1. /\ new \in Voucher!VoucherIds \ rows /\ new # 0 /\ new \in 0 .. MaxVouchers
        /\ rows \cup {new} = 1 .. new
    BY <1>1, NextIdIsFree
       DEF Voucher!VoucherRequest, Voucher!AddVoucher, Voucher!AddSeckillVoucher
  <2>2. /\ vpc[s] = "idle" /\ rows' = rows \cup {new}
        /\ \/ UNCHANGED <<vpc, vid, begun>>
           \/ /\ vpc' = [vpc EXCEPT ![s] = "row"] /\ vid' = [vid EXCEPT ![s] = new]
              /\ begun' = begun \cup {new}
        /\ UNCHANGED <<seckill, stockKeys, published, broken>>
    BY <1>1 DEF Voucher!VoucherRequest, Voucher!AddVoucher, Voucher!AddSeckillVoucher
  <2> HIDE DEF new
  <2>3. Voucher!VTypeOK'
    BY <2>1, <2>2 DEF VTyped
  <2>4. \A t \in Servers : vid[t] # new
    BY <2>1 DEF VTyped
  <2>5. Writing'
    BY <2>1, <2>2, <2>4 DEF VTyped
  <2> QED
    BY <2>1, <2>2, <2>3, <2>5 DEF VTyped, IdsInOrder
<1>2. ASSUME NEW s \in Servers, Voucher!VoucherStep(s) PROVE VTyped'
  <2>1. UNCHANGED <<rows, begun>> /\ vpc[s] # "idle"
    BY <1>2 DEF Voucher!VoucherStep, Voucher!InsertSeckill, Voucher!SetStock, Voucher!VFail
  <2>2. vid[s] # 0 /\ vid[s] \in Voucher!VoucherIds
    BY <2>1 DEF VTyped
  <2>3. CASE /\ Voucher!Break(s) /\ UNCHANGED seckill
             /\ stockKeys' \in {stockKeys, stockKeys \cup {vid[s]}}
    BY <2>1, <2>3, BreakTyped
  <2>4. CASE Voucher!InsertSeckill(s) /\ ~Voucher!Break(s)
    BY <2>1, <2>2, <2>4 DEF Voucher!InsertSeckill, VTyped, IdsInOrder
  <2>5. CASE Voucher!SetStock(s) /\ ~Voucher!Break(s)
    BY <2>1, <2>2, <2>5 DEF Voucher!SetStock, Voucher!VLeave, VTyped, IdsInOrder
  <2>6. /\ Voucher!Break(s) /\ Voucher!InsertSeckill(s) => UNCHANGED <<seckill, stockKeys>>
        /\ Voucher!SetStock(s) => UNCHANGED seckill /\ stockKeys' = stockKeys \cup {vid[s]}
        /\ Voucher!VFail(s) => Voucher!Break(s) /\ UNCHANGED <<seckill, stockKeys>>
    BY <2>2 DEF Voucher!InsertSeckill, Voucher!SetStock, Voucher!VFail, Voucher!Break,
       Voucher!VLeave, VTyped
  <2> QED
    BY <1>2, <2>3, <2>4, <2>5, <2>6 DEF Voucher!VoucherStep
<1>3. CASE UNCHANGED publishing
  BY <1>3 DEF publishing, VTyped, IdsInOrder
<1> QED
  BY <1>1, <1>2, <1>3 DEF SNext, vars

LEMMA InitVoucher == SInit => VoucherInv
<1>1. SInit => IdsInOrder
  <2> SUFFICES ASSUME SInit PROVE rows = 1 .. 0 /\ 0 \in 0 .. MaxVouchers
    BY DEF IdsInOrder
  <2> QED
    BY VouchersAssumption DEF VouchersAssumption, SInit, Voucher!VInit
<1> QED
  BY <1>1 DEF SInit, Voucher!VInit, VoucherInv, VTyped, Writing, Voucher!VTypeOK,
     PublishedInOrder, Voucher!PublishedInOrder

(* Every variable of the servers and of both services keeps its type. *)
THEOREM TypeCorrect == SSpec => []STypeOK
<1>1. SInit => Typed /\ VTyped
  BY InitTyped, InitVoucher DEF SInit, VoucherInv
<1>2. Typed /\ VTyped => STypeOK
  BY DEF Typed, VTyped, STypeOK
<1> QED
  BY <1>1, <1>2, UsersTyped, VouchersTyped, PTL DEF SSpec

(* What can be ordered was inserted by addSeckillVoucher, what has a stock *)
(* can be ordered, and a publication that got stuck between two writes was *)
(* left by a failure, however many servers publish at a time.              *)
THEOREM VouchersPublishedInOrder == SSpec => []PublishedInOrder
<1>1. VoucherInv /\ [SNext]_vars => VoucherInv'
  <2> SUFFICES ASSUME VTyped, PublishedInOrder, [SNext]_vars, VTyped'
               PROVE  PublishedInOrder'
    BY VouchersTyped DEF VoucherInv
  <2> USE DEF PublishedInOrder, Voucher!PublishedInOrder
  <2>1. ASSUME NEW s \in Servers, Voucher!VoucherRequest(s) PROVE PublishedInOrder'
    <3> DEFINE new == Voucher!NextId
    <3>1. new \in Voucher!VoucherIds \ rows
      BY <2>1, NextIdIsFree
         DEF Voucher!VoucherRequest, Voucher!AddVoucher, Voucher!AddSeckillVoucher
    <3>2. vpc[s] = "idle"
      BY <2>1 DEF Voucher!VoucherRequest, Voucher!AddVoucher, Voucher!AddSeckillVoucher
    <3>3. /\ rows' = rows \cup {new}
          /\ \/ UNCHANGED <<vpc, vid, begun>>
             \/ /\ vpc' = [vpc EXCEPT ![s] = "row"] /\ vid' = [vid EXCEPT ![s] = new]
                /\ begun' = begun \cup {new}
          /\ UNCHANGED <<seckill, stockKeys, published, broken>>
      BY <2>1 DEF Voucher!VoucherRequest, Voucher!AddVoucher, Voucher!AddSeckillVoucher
    <3> HIDE DEF new
    <3>4. CASE UNCHANGED <<vpc, vid, begun>>
      BY <3>3, <3>4
    <3>5. CASE /\ vpc' = [vpc EXCEPT ![s] = "row"] /\ vid' = [vid EXCEPT ![s] = new]
               /\ begun' = begun \cup {new}
      <4>1. \A t \in Servers : vpc[t] # "idle" => vpc'[t] = vpc[t] /\ vid'[t] = vid[t]
        BY <3>2, <3>5 DEF VTyped, Voucher!VTypeOK
      <4>2. vpc'[s] = "row" /\ vid'[s] = new
        BY <3>5 DEF VTyped, Voucher!VTypeOK
      <4> QED
        BY <3>3, <3>5, <4>1, <4>2
    <3> QED
      BY <3>3, <3>4, <3>5
  <2>2. ASSUME NEW s \in Servers, Voucher!VoucherStep(s) PROVE PublishedInOrder'
    <3>1. /\ UNCHANGED <<rows, begun>> /\ vpc[s] # "idle"
          /\ vid[s] \in begun \ (published \cup broken)
      BY <2>2 DEF Voucher!VoucherStep, Voucher!InsertSeckill, Voucher!SetStock,
         Voucher!VFail, VTyped, Writing
    <3>2. \A v, label : v # vid[s] /\ (\E t \in Servers : vid[t] = v /\ vpc[t] = label) =>
            \E t \in Servers : vid'[t] = v /\ vpc'[t] = label
      <4>1. \A t \in Servers \ {s} : vid'[t] = vid[t] /\ vpc'[t] = vpc[t]
        BY <2>2 DEF Voucher!VoucherStep, Voucher!InsertSeckill, Voucher!SetStock,
           Voucher!VFail, Voucher!Break, Voucher!VLeave, VTyped, Voucher!VTypeOK
      <4> QED
        BY <4>1
    <3>3. CASE /\ Voucher!Break(s) /\ UNCHANGED seckill
               /\ \/ stockKeys' = stockKeys
                  \/ vid[s] \in seckill /\ stockKeys' = stockKeys \cup {vid[s]}
      BY <3>1, <3>2, <3>3 DEF Voucher!Break
    <3>4. CASE Voucher!InsertSeckill(s) /\ ~Voucher!Break(s)
      <4>1. vpc'[s] = "stock" /\ vid'[s] = vid[s] /\ seckill' = seckill \cup {vid[s]}
            /\ UNCHANGED <<stockKeys, published, broken>>
        BY <3>4 DEF Voucher!InsertSeckill, VTyped, Voucher!VTypeOK
      <4> QED
        BY <3>1, <3>2, <4>1
    <3>5. CASE Voucher!SetStock(s) /\ ~Voucher!Break(s)
      <4>1. vid[s] \in seckill
        BY <3>5 DEF Voucher!SetStock, VTyped, Writing
      <4> QED
        BY <3>1, <3>2, <3>5, <4>1 DEF Voucher!SetStock
    <3>6. /\ Voucher!Break(s) /\ Voucher!InsertSeckill(s) =>
               UNCHANGED <<seckill, stockKeys>>
          /\ Voucher!SetStock(s) => /\ UNCHANGED seckill /\ vid[s] \in seckill
                                    /\ stockKeys' = stockKeys \cup {vid[s]}
          /\ Voucher!VFail(s) => Voucher!Break(s) /\ UNCHANGED <<seckill, stockKeys>>
      BY <3>1 DEF Voucher!InsertSeckill, Voucher!SetStock, Voucher!VFail, Voucher!Break,
         Voucher!VLeave, VTyped, Voucher!VTypeOK, Writing
    <3> QED
      BY <2>2, <3>3, <3>4, <3>5, <3>6 DEF Voucher!VoucherStep
  <2>3. CASE UNCHANGED publishing
    BY <2>3 DEF publishing
  <2> QED
    BY <2>1, <2>2, <2>3 DEF SNext, vars
<1>2. VoucherInv => PublishedInOrder
  BY DEF VoucherInv
<1> QED
  BY InitVoucher, <1>1, <1>2, PTL DEF SSpec
=============================================================================
