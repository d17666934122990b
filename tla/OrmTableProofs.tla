--------------------------- MODULE OrmTableProofs ---------------------------
(***************************************************************************)
(* What holds of one generated class, for every table and every JSON.  A   *)
(* class is written out column by column; ClassOK says what its functions  *)
(* amount to, and everything here follows from ClassOK.  OrmProofs shows   *)
(* that each of the twelve classes satisfies it.                           *)
(***************************************************************************)
EXTENDS OrmTable, FiniteSetTheorems, SequenceTheorems, TLAPS

(* the columns in their order, and those that a statement binds *)
All == [i \in 1 .. Size |-> i]
Bindable ==
  IF auto = {} THEN All
  ELSE [i \in 1 .. Size - 1 |-> IF i < primaryKey THEN i ELSE i + 1]

(* What the table has to be: the last column may be left out by Hiding *)
TableOK ==
  /\ Size \in Nat \ {0}
  /\ Columns = 1 .. Size
  /\ \A c, d \in Columns : metaData_[c].name = metaData_[d].name => c = d
  /\ \A c \in Columns : metaData_[c].name # ""
  /\ primaryKey \in Columns /\ NotNull(primaryKey) /\ Type(primaryKey) # "time"
  /\ auto \in {{}, {primaryKey}}
  /\ defaulted \subseteq Columns \ {primaryKey}
  /\ onUpdate \subseteq Columns \ {primaryKey}
  /\ Size \notin Required

(* an object from a row *)
FromRowOK ==
  /\ \A r : FromRowByName(r) = ReadRow([c \in Columns |-> r[Names[c]]])
  /\ \A r, offset : FromRowByIndex(r, offset) =
       IF offset + Size > Len(r) THEN New(Size)
       ELSE ReadRow([c \in Columns |-> r[offset + c]])

(* an object from JSON, JSON from an object *)
FromJsonOK ==
  /\ \A j : FromJson(j) = ReadJson(metaData_, New(Size), j, Names, Columns)
  /\ \A j, pv : FromMasqueradedJson(j, pv) =
       IF Len(pv) # Size THEN New(Size)
       ELSE ReadJson(metaData_, New(Size), j, pv, Columns)
  /\ \A m : toJson(m) = WriteJson(metaData_, m, Names)
  /\ \A m, pv : toMasqueradedJson(m, pv) =
       WriteJson(metaData_, m, IF Len(pv) = Size THEN pv ELSE Names)

(* changes of an object: the flag of the primary key stays *)
ChangeOK ==
  /\ \A m, j : updateByJson(m, j) =
       ReadJson(metaData_, m, j, Names, Columns \ {primaryKey})
  /\ \A m, j, pv : updateByMasqueradedJson(m, j, pv) =
       IF Len(pv) # Size THEN m
       ELSE ReadJson(metaData_, m, j, pv, Columns \ {primaryKey})
  /\ \A m, c, v : Set(m, c, v) \in {m, Assigned(m, c, v)}
  /\ \A m, id : updateId(m, id) =
       IF auto = {} THEN m ELSE [m EXCEPT !.val[primaryKey] = id]

(* the statements *)
StatementOK ==
  /\ \A m : outputArgs(m) = Bound(m, Bindable)
  /\ \A m : updateColumns(m) = Dirty(m, Bindable)
  /\ \A m : updateArgs(m) = Bound(m, Bindable)
  /\ \A m : sqlForInserting(m) = InsertSql(m, All, auto, defaulted)

Checks(j, keys, isForCreation) ==
  [c \in Given(j, keys) |->
     ValidField(metaData_, auto, c, j[keys[c]], isForCreation)]

ValidatorOK ==
  /\ \A j : validateJsonForCreation(j) = Validated(Checks(j, Names, TRUE), Required)
  /\ \A j, pv : validateMasqueradedJsonForCreation(j, pv) =
       (Len(pv) = Size /\
        Validated(Checks(j, pv, TRUE), {c \in Required : pv[c] # ""}))
  /\ \A j : validateJsonForUpdate(j) =
       Validated(Checks(j, Names, FALSE), {primaryKey})
  /\ \A j, pv : validateMasqueradedJsonForUpdate(j, pv) =
       (Len(pv) = Size /\ Validated(Checks(j, pv, FALSE), {primaryKey}))

ClassOK ==
  TableOK /\ FromRowOK /\ FromJsonOK /\ ChangeOK /\ StatementOK /\ ValidatorOK

-----------------------------------------------------------------------------
(* The inductive invariant *)

Values == Tags \X Int
Objects == [val : [Columns -> Values], dirty : SUBSET Columns]

(* An object as it reads the values v *)
Read(m, v, marked) ==
  [val |-> [c \in Columns |->
              IF v[c] # Absent /\ Readable(Type(c), v[c])
                THEN Converted(Type(c), v[c]) ELSE m.val[c]],
   dirty |-> m.dirty \cup ({c \in Columns : v[c] # Absent} \cap marked)]

Seen(keys, s) == [c \in Columns |-> IF keys[c] # "" THEN s[c] ELSE Absent]

GivenIn(v) == {c \in Columns : v[c] # Absent}

(* A value that is read back from the table as it is stored there *)
Stable(c, v) == v = Null \/ (Readable(Type(c), v) /\ Converted(Type(c), v) = v)
Stored(c, v) == Stable(c, v) /\ ~(v[1] = "wide" /\ Type(c) = "text")

Typed ==
  /\ row = <<>> \/ row \in [Columns -> Values]
  /\ pc \in [Clients -> {"idle", "ready", "done", "refused", "away"}]
  /\ obj \in [Clients -> Objects]
  /\ sent \in [Clients -> [Columns -> Values]]
  /\ checked \in [Clients -> BOOLEAN]
  /\ last \in [Columns -> Values]

(* One builds a row, or two change one *)
Roles ==
  /\ \A k \in Clients \ {"creator"} :
       pc[k] # "away" => pc["creator"] = "away" /\ row # <<>>
  /\ pc["creator"] \in {"idle", "ready"} => row = <<>>

(* What the validators let through *)
Accepted(k, v) ==
  /\ \A c \in GivenIn(v) : ValidField(metaData_, auto, c, v[c], k = "creator")
  /\ IF k = "creator" THEN Required \subseteq GivenIn(v) ELSE primaryKey \in GivenIn(v)
CheckedAccepted ==
  \A k \in {"creator", "editor"} : checked[k] => Accepted(k, sent[k])

CreatorReady ==
  pc["creator"] = "ready" =>
    obj["creator"] = Read(New(Size), sent["creator"], Columns)

(* An object for update: the flags are those of what was given, but for   *)
(* the primary key, and a value that could not be read left one that fits *)
Took(m, v) ==
  /\ m.dirty \subseteq GivenIn(v)
  /\ GivenIn(v) \ {primaryKey} \subseteq m.dirty
  /\ \A c \in Columns : Stable(c, m.val[c])
  /\ \A c \in GivenIn(v) :
       IF Readable(Type(c), v[c]) THEN m.val[c] = Converted(Type(c), v[c])
                                  ELSE Stored(c, m.val[c])
UpdaterReady ==
  \A k \in Clients \ {"creator"} : pc[k] = "ready" => Took(obj[k], sent[k])

(* A set function gives one value, or NULL, and the object holds it *)
SetTo(m, v) ==
  \A c \in GivenIn(v) : v[c] \in {Null, <<"set", c>>} /\ m.val[c] = v[c]
SetterReady == pc["setter"] = "ready" => SetTo(obj["setter"], sent["setter"])

RowStored == row # <<>> => \A c \in Columns : Stored(c, row[c])

(* The only reasons to refuse a statement that a validator let through *)
Excused(v) ==
  \/ \E c \in GivenIn(v) : v[c][1] = "garbled" /\ NotNull(c)
  \/ GivenIn(v) = {primaryKey}
RefusedExcused ==
  \A k \in {"creator", "editor"} :
    checked[k] /\ pc[k] = "refused" => Excused(sent[k])

IInv ==
  /\ Typed /\ Roles /\ CheckedAccepted /\ CreatorReady /\ UpdaterReady
  /\ SetterReady /\ RowStored /\ RefusedExcused /\ SentValuesStay /\ InsertedAsSent

-----------------------------------------------------------------------------
(* The place of a member in a finite set of numbers *)
Rank(D, c) == Cardinality({d \in D : d <= c})

LEMMA RankType ==
  ASSUME NEW D \in SUBSET Int, IsFiniteSet(D), NEW c \in Int
  PROVE  /\ IsFiniteSet({d \in D : d <= c})
         /\ Rank(D, c) \in Nat
         /\ c \in D => Rank(D, c) \in 1 .. Cardinality(D)
<1> DEFINE below == {d \in D : d <= c}
<1>1. IsFiniteSet(below) /\ Cardinality(below) <= Cardinality(D)
  BY FS_Subset
<1>2. Cardinality(below) \in Nat /\ Cardinality(D) \in Nat
  BY <1>1, FS_CardinalityType
<1>3. c \in D => c \in below
  OBVIOUS
<1>4. c \in D => Cardinality(below) # 0
  BY <1>1, <1>3, FS_EmptySet
<1> QED
  BY <1>1, <1>2, <1>4 DEF Rank

LEMMA RankOrder ==
  ASSUME NEW D \in SUBSET Int, IsFiniteSet(D), NEW c \in D, NEW d \in D, c < d
  PROVE  Rank(D, c) < Rank(D, d)
<1> DEFINE B(x) == {e \in D : e <= x}
<1>1. /\ IsFiniteSet(B(c)) /\ Cardinality(B(c)) \in Nat
      /\ IsFiniteSet(B(d)) /\ Cardinality(B(d)) \in Nat
  <2>1. c \in Int /\ d \in Int
    OBVIOUS
  <2>2. IsFiniteSet(B(c)) /\ IsFiniteSet(B(d))
    BY <2>1, RankType
  <2> QED
    BY <2>2, FS_CardinalityType
<1>2. B(c) \in SUBSET B(d) /\ d \in B(d) /\ d \notin B(c)
  <2>1. c \in Int /\ d \in Int
    OBVIOUS
  <2>2. \A e \in B(c) : e \in B(d)
    BY <2>1
  <2>3. d \in B(d) /\ ~(d <= c)
    BY <2>1
  <2> QED
    BY <2>2, <2>3
<1>3. Cardinality(B(c)) <= Cardinality(B(d)) /\ Cardinality(B(c)) # Cardinality(B(d))
  <2> HIDE DEF B
  <2> QED
    BY <1>1, <1>2, FS_Subset
<1> QED
  BY <1>1, <1>3 DEF Rank

LEMMA RankMonotone ==
  ASSUME NEW D \in SUBSET Int, IsFiniteSet(D), NEW c \in D, NEW d \in D
  PROVE  /\ c <= d <=> Rank(D, c) <= Rank(D, d)
         /\ Rank(D, c) = Rank(D, d) => c = d
<1>1. c \in Int /\ d \in Int
  OBVIOUS
<1>2. Rank(D, c) \in Nat /\ Rank(D, d) \in Nat
  BY <1>1, RankType, Zenon
<1>3. (c < d => Rank(D, c) < Rank(D, d)) /\ (d < c => Rank(D, d) < Rank(D, c))
  BY RankOrder
<1> QED
  BY <1>1, <1>2, <1>3

(* Every number up to the size of the set is the place of a member *)
LEMMA RankOnto ==
  ASSUME NEW D \in SUBSET Int, IsFiniteSet(D), NEW n \in 1 .. Cardinality(D)
  PROVE  \E c \in D : Rank(D, c) = n
<1> DEFINE N == Cardinality(D)
           f == [c \in D |-> Rank(D, c)]
<1>1. N \in Nat
  BY FS_CardinalityType
<1>2. \A c \in D : Rank(D, c) \in 1 .. N
  BY RankType
<1>3. \A c, d \in D : Rank(D, c) = Rank(D, d) => c = d
  BY RankMonotone
<1>4. f \in Injection(D, 1 .. N)
  BY <1>2, <1>3 DEF Injection, IsInjective
<1>5. IsFiniteSet(1 .. N) /\ Cardinality(1 .. N) = N
  BY <1>1, FS_Interval
<1>6. f \in Surjection(D, 1 .. N)
  BY <1>4, <1>5, FS_Injection
<1> QED
  BY <1>6 DEF Surjection

(* Two sets of the same size, by a renaming *)
LEMMA SameSize ==
  ASSUME NEW S, NEW T, IsFiniteSet(S), NEW f \in [S -> T],
         \A x, y \in S : f[x] = f[y] => x = y,
         \A z \in T : \E x \in S : f[x] = z
  PROVE  IsFiniteSet(T) /\ Cardinality(T) = Cardinality(S)
<1>1. f \in Bijection(S, T)
  BY DEF Bijection, Injection, IsInjective, Surjection
<1> QED
  BY <1>1, FS_Bijection DEF ExistsBijection

(* K lists the members of D in their order *)
Listing(D, K) ==
  /\ IsFiniteSet(D)
  /\ K = [i \in 1 .. Cardinality(D) |-> K[i]]
  /\ \A i \in 1 .. Cardinality(D) : K[i] \in D /\ Rank(D, K[i]) = i
  /\ \A c \in D : K[Rank(D, c)] = c

(* The members of S in the list cols of columns, in the order of the list *)
LEMMA KeptList ==
  ASSUME NEW n \in Nat, NEW cols \in [1 .. n -> Int],
         \A i, j \in 1 .. n : i < j => cols[i] < cols[j],
         NEW S, NEW D \in SUBSET Int,
         \A c : c \in D <=> (\E i \in 1 .. n : cols[i] = c) /\ c \in S,
         NEW K, K = Kept(cols, S)
  PROVE  Listing(D, K)
<1> DEFINE P == {i \in 1 .. n : cols[i] \in S}
<1>1. P \in SUBSET Int /\ P \in SUBSET (1 .. n) /\ DOMAIN cols = 1 .. n
  OBVIOUS
<1>2. IsFiniteSet(P)
  <2>1. IsFiniteSet(1 .. n)
    BY FS_Interval
  <2> QED
    BY <1>1, <2>1, FS_Subset
<1>3. \A i, j \in 1 .. n : (i <= j <=> cols[i] <= cols[j]) /\ (cols[i] = cols[j] => i = j)
  <2> SUFFICES ASSUME NEW i \in 1 .. n, NEW j \in 1 .. n
               PROVE  (i <= j <=> cols[i] <= cols[j]) /\ (cols[i] = cols[j] => i = j)
    OBVIOUS
  <2>1. cols[i] \in Int /\ cols[j] \in Int /\ i \in Int /\ j \in Int
    OBVIOUS
  <2>2. i < j \/ i = j \/ j < i
    BY <2>1
  <2> QED
    BY <2>1, <2>2
<1>4. IsFiniteSet(D) /\ Cardinality(D) = Cardinality(P)
  <2> DEFINE f == [i \in P |-> cols[i]]
  <2>1. f \in [P -> D]
    OBVIOUS
  <2>2. \A i, j \in P : f[i] = f[j] => i = j
    BY <1>3
  <2>3. \A c \in D : \E i \in P : f[i] = c
    OBVIOUS
  <2> HIDE DEF f, P
  <2> QED
    BY <1>2, <2>1, <2>2, <2>3, SameSize
<1>5. ASSUME NEW i \in P PROVE cols[i] \in D /\ Rank(D, cols[i]) = Rank(P, i)
  <2> DEFINE A == {j \in P : j <= i}
             B == {d \in D : d <= cols[i]}
             f == [j \in A |-> cols[j]]
  <2>1. IsFiniteSet(A)
    BY <1>1, <1>2, RankType
  <2>2. f \in [A -> B]
    BY <1>3
  <2>3. \A j, k \in A : f[j] = f[k] => j = k
    BY <1>3
  <2>4. \A c \in B : \E j \in A : f[j] = c
    <3> SUFFICES ASSUME NEW c \in B PROVE \E j \in A : f[j] = c
      OBVIOUS
    <3>1. PICK j \in 1 .. n : cols[j] = c /\ c \in S
      OBVIOUS
    <3>2. j \in A
      BY <1>3, <3>1
    <3> QED
      BY <3>1, <3>2
  <2>5. Cardinality(B) = Cardinality(A)
    <3> HIDE DEF A, B, f
    <3> QED
      BY <2>1, <2>2, <2>3, <2>4, SameSize
  <2>6. cols[i] \in D
    OBVIOUS
  <2> QED
    BY <2>5, <2>6 DEF Rank
<1>6. K = [m \in 1 .. Cardinality(P) |-> cols[CHOOSE i \in P : Rank(P, i) = m]]
  BY <1>1 DEF Kept, Rank
<1>7. ASSUME NEW m \in 1 .. Cardinality(P) PROVE K[m] \in D /\ Rank(D, K[m]) = m
  <2>1. \E i \in P : Rank(P, i) = m
    BY <1>1, <1>2, RankOnto
  <2>2. PICK i \in P : K[m] = cols[i] /\ Rank(P, i) = m
    BY <1>6, <2>1
  <2> QED
    BY <1>5, <2>2
<1>8. ASSUME NEW c \in D PROVE K[Rank(D, c)] = c
  <2>1. Rank(D, c) \in 1 .. Cardinality(P)
    BY <1>4, RankType
  <2> QED
    BY <1>4, <1>7, <2>1, RankMonotone
<1> QED
  BY <1>4, <1>6, <1>7, <1>8 DEF Listing

-----------------------------------------------------------------------------
(* The statements *)

LEMMA Lists ==
  ASSUME TableOK
  PROVE  /\ Columns = 1 .. Size /\ Columns \in SUBSET Int
         /\ All \in [1 .. Size -> Int]
         /\ \A i, j \in 1 .. Size : i < j => All[i] < All[j]
         /\ \A c : c \in Columns <=> \E i \in 1 .. Size : All[i] = c
         /\ \E n \in Nat :
              /\ Bindable \in [1 .. n -> Int]
              /\ \A i, j \in 1 .. n : i < j => Bindable[i] < Bindable[j]
              /\ \A c : c \in Columns \ auto <=> \E i \in 1 .. n : Bindable[i] = c
<1>1. Columns = 1 .. Size /\ Size \in Nat \ {0} /\ primaryKey \in 1 .. Size
  BY DEF TableOK
<1>2. /\ All \in [1 .. Size -> Int]
      /\ \A i, j \in 1 .. Size : i < j => All[i] < All[j]
      /\ \A c : c \in Columns <=> \E i \in 1 .. Size : All[i] = c
  BY <1>1 DEF All
<1>3. CASE auto = {}
  <2>1. Bindable = All /\ Columns \ auto = Columns
    BY <1>3 DEF Bindable
  <2> QED
    BY <1>1, <1>2, <2>1
<1>4. CASE auto = {primaryKey}
  <2> DEFINE n == Size - 1
  <2>1. n \in Nat /\ Bindable = [i \in 1 .. n |-> IF i < primaryKey THEN i ELSE i + 1]
    BY <1>1, <1>4 DEF Bindable
  <2>2. \A i, j \in 1 .. n : i < j => Bindable[i] < Bindable[j]
    BY <1>1, <2>1
  <2>3. ASSUME NEW c \in Columns \ auto PROVE \E i \in 1 .. n : Bindable[i] = c
    <3>1. CASE c < primaryKey
      <4>1. c \in 1 .. n /\ Bindable[c] = c
        BY <1>1, <2>1, <3>1
      <4> QED
        BY <4>1
    <3>2. CASE ~(c < primaryKey)
      <4>1. c - 1 \in 1 .. n /\ Bindable[c - 1] = c
        BY <1>1, <1>4, <2>1, <3>2
      <4> QED
        BY <4>1
    <3> QED
      BY <3>1, <3>2
  <2>4. \A i \in 1 .. n : Bindable[i] \in Columns \ auto /\ Bindable[i] \in Int
    BY <1>1, <1>4, <2>1
  <2>5. Bindable \in [1 .. n -> Int]
    BY <2>1, <2>4
  <2>6. \A c : c \in Columns \ auto <=> \E i \in 1 .. n : Bindable[i] = c
    BY <2>3, <2>4
  <2> HIDE DEF n
  <2>7. \E k \in Nat :
          /\ Bindable \in [1 .. k -> Int]
          /\ \A i, j \in 1 .. k : i < j => Bindable[i] < Bindable[j]
          /\ \A c : c \in Columns \ auto <=> \E i \in 1 .. k : Bindable[i] = c
    BY <2>1, <2>2, <2>5, <2>6
  <2> QED
    BY <1>1, <1>2, <2>7
<1> QED
  BY <1>3, <1>4 DEF TableOK

(* The columns that a statement binds: those whose flag is set, but for an *)
(* automatic primary key                                                   *)
LEMMA DirtyList ==
  ASSUME TableOK, NEW m \in Objects
  PROVE  LET D == m.dirty \ auto
         IN /\ D \in SUBSET Columns /\ D \in SUBSET Int
            /\ Listing(D, Dirty(m, Bindable))
<1> DEFINE D == m.dirty \ auto
<1>1. D \in SUBSET Columns /\ D \in SUBSET Int
  BY Lists DEF Objects
<1>2. PICK n \in Nat :
        /\ Bindable \in [1 .. n -> Int]
        /\ \A i, j \in 1 .. n : i < j => Bindable[i] < Bindable[j]
        /\ \A c : c \in Columns \ auto <=> \E i \in 1 .. n : Bindable[i] = c
  BY Lists
<1>3. \A c : c \in D <=> (\E i \in 1 .. n : Bindable[i] = c) /\ c \in m.dirty
  BY <1>1, <1>2
<1> HIDE DEF D
<1>4. Listing(D, Kept(Bindable, m.dirty))
  BY <1>1, <1>2, <1>3, KeptList
<1> QED
  BY <1>1, <1>4 DEF D, Dirty

(* r with the columns of D set to the values of the object *)
Written(m, D, r) == [c \in Columns |-> IF c \in D THEN m.val[c] ELSE r[c]]

(* update writes the columns whose flag is set, and the time of the update *)
(* in the columns of onUpdate that are not among them                      *)
LEMMA UpdateEffect ==
  ASSUME TableOK, StatementOK, NEW m \in Objects, NEW r
  PROVE  LET D == m.dirty \ auto
             cols == updateColumns(m)
             args == updateArgs(m)
         IN /\ Updated(m, r) =
                 [c \in Columns |->
                    IF c \in onUpdate /\ c \notin D /\ Written(m, D, r) # r
                      THEN <<"now", c>> ELSE Written(m, D, r)[c]]
            /\ cols = <<>> <=> D = {}
            /\ Len(args) = Len(cols)
            /\ \A i \in DOMAIN cols : cols[i] \in D /\ args[i] = m.val[cols[i]]
            /\ \A c \in D : \E i \in DOMAIN cols : cols[i] = c
<1> DEFINE D == m.dirty \ auto
           N == Cardinality(D)
           cols == updateColumns(m)
           args == updateArgs(m)
<1>1. cols = Dirty(m, Bindable) /\ args = Bound(m, Bindable)
  BY DEF StatementOK
<1>2. /\ D \in SUBSET Columns /\ D \in SUBSET Int /\ IsFiniteSet(D)
      /\ cols = [i \in 1 .. N |-> cols[i]]
      /\ \A i \in 1 .. N : cols[i] \in D /\ Rank(D, cols[i]) = i
      /\ \A c \in D : cols[Rank(D, c)] = c
  BY <1>1, DirtyList DEF Listing
<1>3. N \in Nat /\ (N = 0 <=> D = {})
  BY <1>2, FS_CardinalityType, FS_EmptySet
<1> HIDE DEF D, N, cols, args
<1>4. DOMAIN cols = 1 .. N /\ args = [i \in 1 .. N |-> m.val[cols[i]]]
  BY <1>1, <1>2 DEF Bound
<1>5. \A c \in D : Rank(D, c) \in 1 .. N
  BY <1>2, RankType DEF N
<1>6. Updated(m, r) =
        [c \in Columns |-> IF c \in onUpdate /\ c \notin D /\ Written(m, D, r) # r
                            THEN <<"now", c>> ELSE Written(m, D, r)[c]]
  <2> DEFINE L(c) == \E i \in DOMAIN cols : cols[i] = c
             W == [c \in Columns |->
                     IF L(c) THEN args[CHOOSE i \in DOMAIN cols : cols[i] = c] ELSE r[c]]
  <2>1. ASSUME NEW c \in Columns
        PROVE  (L(c) <=> c \in D) /\ W[c] = IF c \in D THEN m.val[c] ELSE r[c]
    <3>1. L(c) <=> c \in D
      BY <1>2, <1>4, <1>5
    <3>2. CASE c \in D
      <4>1. PICK i \in 1 .. N : (CHOOSE j \in DOMAIN cols : cols[j] = c) = i /\ cols[i] = c
        BY <1>4, <3>1, <3>2
      <4> QED
        BY <1>4, <3>1, <3>2, <4>1
    <3> QED
      BY <3>1, <3>2
  <2>2. Updated(m, r) =
          [c \in Columns |-> IF c \in onUpdate /\ ~L(c) /\ W # r
                              THEN <<"now", c>> ELSE W[c]]
    BY DEF Updated, cols, args
  <2>3. W = [c \in Columns |-> W[c]]
    OBVIOUS
  <2> HIDE DEF W, L
  <2>4. W = Written(m, D, r)
    BY <2>1, <2>3 DEF Written
  <2> QED
    BY <2>1, <2>2, <2>4
<1>7. cols = <<>> <=> D = {}
  BY <1>2, <1>3, <1>4
<1>8. Len(args) = Len(cols)
  <2>1. args \in Seq({m.val[cols[i]] : i \in 1 .. N}) /\ cols \in Seq(D)
    BY <1>2, <1>3, <1>4
  <2> QED
    BY <1>3, <1>4, <2>1
<1> QED
  BY <1>2, <1>4, <1>5, <1>6, <1>7, <1>8 DEF D, cols, args

(* sqlForInserting marks the columns whose flag is set, but for an         *)
(* automatic primary key, in their order: as outputArgs binds them         *)
LEMMA InsertMarks ==
  ASSUME TableOK, StatementOK, NEW m \in Objects
  PROVE  LET L == m.dirty \cup auto \cup defaulted
             D == m.dirty \ auto
             sql == sqlForInserting(m)
         IN /\ L \in SUBSET Columns /\ L \in SUBSET Int /\ D \in SUBSET L
            /\ Listing(L, sql.columns)
            /\ sql.values = [i \in 1 .. Cardinality(L) |-> sql.values[i]]
            /\ \A i \in 1 .. Cardinality(L) :
                 sql.values[i] = "?" <=> sql.columns[i] \in D
            /\ sql.needSelection <=> auto # {} \/ ~(defaulted \subseteq m.dirty)
<1> DEFINE L == m.dirty \cup auto \cup defaulted
           D == m.dirty \ auto
           listed == Kept(All, L)
           sql == sqlForInserting(m)
<1>1. L \in SUBSET Columns /\ L \in SUBSET Int /\ D \in SUBSET L
  <2>1. m.dirty \in SUBSET Columns /\ auto \in SUBSET Columns /\ defaulted \in SUBSET Columns
    BY DEF Objects, TableOK
  <2> QED
    BY <2>1, Lists
<1>2. \A c : c \in L <=> (\E i \in 1 .. Size : All[i] = c) /\ c \in L
  BY <1>1, Lists
<1>3. sql = InsertSql(m, All, auto, defaulted)
  BY DEF StatementOK
<1> HIDE DEF L
<1>4. Listing(L, listed)
  <2>1. Size \in Nat
    BY DEF TableOK
  <2> QED
    BY <1>1, <1>2, <2>1, Lists, KeptList
<1>5. sql = [columns |-> listed,
             values |-> [i \in DOMAIN listed |->
               IF listed[i] \in auto \/ listed[i] \notin m.dirty THEN "default" ELSE "?"],
             needSelection |-> auto # {} \/ ~(defaulted \subseteq m.dirty)]
  BY <1>3 DEF InsertSql, L
<1>6. DOMAIN listed = 1 .. Cardinality(L)
  BY <1>4 DEF Listing
<1> HIDE DEF listed, sql
<1>7. /\ sql.columns = listed
      /\ sql.needSelection <=> auto # {} \/ ~(defaulted \subseteq m.dirty)
  BY <1>5
<1>8. sql.values = [i \in 1 .. Cardinality(L) |->
               IF listed[i] \in auto \/ listed[i] \notin m.dirty THEN "default" ELSE "?"]
  BY <1>5, <1>6
<1> QED
  BY <1>1, <1>4, <1>7, <1>8 DEF L, sql

LEMMA MarkPlaces ==
  ASSUME NEW L \in SUBSET Int, IsFiniteSet(L), NEW D \in SUBSET L,
         NEW sql, Listing(L, sql.columns),
         \A i \in 1 .. Cardinality(L) : sql.values[i] = "?" <=> sql.columns[i] \in D
  PROVE  /\ Marks(sql, Cardinality(L)) = Cardinality(D)
         /\ \A c \in L : Marks(sql, Rank(L, c)) = Rank(D, c)
<1> DEFINE cols == sql.columns
           N == Cardinality(L)
<1>1. /\ \A i \in 1 .. N : cols[i] \in L /\ Rank(L, cols[i]) = i
      /\ \A c \in L : cols[Rank(L, c)] = c
      /\ \A c \in L : Rank(L, c) \in 1 .. N
  BY RankType DEF Listing
<1>2. D \in SUBSET Int /\ IsFiniteSet(D) /\ N \in Nat
  BY FS_Subset, FS_CardinalityType
<1> HIDE DEF cols, N
<1>3. \A i \in 1 .. N : sql.values[i] = "?" <=> cols[i] \in D
  BY DEF cols, N
<1>4. \A c, d \in L : Rank(L, c) = Rank(L, d) => c = d
  BY RankMonotone
<1>5. Marks(sql, N) = Cardinality(D)
  <2> DEFINE T == {i \in 1 .. N : sql.values[i] = "?"}
             f == [d \in D |-> Rank(L, d)]
  <2>1. f \in [D -> T]
    BY <1>1, <1>3
  <2>2. \A c, d \in D : f[c] = f[d] => c = d
    BY <1>4
  <2>3. \A i \in T : \E d \in D : f[d] = i
    BY <1>1, <1>3
  <2> HIDE DEF T, f
  <2>4. Cardinality(T) = Cardinality(D)
    BY <1>2, <2>1, <2>2, <2>3, SameSize
  <2> QED
    BY <2>4 DEF Marks, T
<1>6. ASSUME NEW c \in L PROVE Marks(sql, Rank(L, c)) = Rank(D, c)
  <2> DEFINE T == {i \in 1 .. Rank(L, c) : sql.values[i] = "?"}
             B == {d \in D : d <= c}
             f == [d \in B |-> Rank(L, d)]
  <2>1. c \in Int /\ Rank(L, c) \in 1 .. N
    BY <1>1
  <2>2. IsFiniteSet(B)
    BY <1>2, <2>1, RankType, Zenon
  <2>3. \A d \in L : d <= c <=> Rank(L, d) <= Rank(L, c)
    BY RankMonotone
  <2>4. f \in [B -> T]
    <3>1. ASSUME NEW d \in B PROVE Rank(L, d) \in T
      <4>1. d \in L /\ d \in D /\ Rank(L, d) <= Rank(L, c)
        BY <2>3
      <4>2. Rank(L, d) \in 1 .. N /\ sql.values[Rank(L, d)] = "?"
        BY <1>1, <1>3, <4>1
      <4> QED
        BY <1>2, <2>1, <4>1, <4>2
    <3> QED
      BY <3>1
  <2>5. \A d, e \in B : f[d] = f[e] => d = e
    BY <1>4
  <2>6. \A i \in T : \E d \in B : f[d] = i
    <3> SUFFICES ASSUME NEW i \in T PROVE \E d \in B : f[d] = i
      OBVIOUS
    <3>1. i \in 1 .. N /\ i <= Rank(L, c)
      BY <1>2, <2>1
    <3>2. cols[i] \in D /\ Rank(L, cols[i]) = i
      BY <1>1, <1>3, <3>1
    <3>3. cols[i] \in B
      BY <2>3, <3>1, <3>2
    <3> QED
      BY <3>2, <3>3
  <2> HIDE DEF T, B, f
  <2>7. Cardinality(T) = Cardinality(B)
    BY <2>2, <2>4, <2>5, <2>6, SameSize
  <2> QED
    BY <2>7 DEF Marks, Rank, T, B
<1> QED
  BY <1>5, <1>6 DEF N

(* insert stores the columns whose flag is set, the key of an automatic    *)
(* primary key, and the default or NULL elsewhere                          *)
LEMMA InsertEffect ==
  ASSUME TableOK, StatementOK, NEW m \in Objects
  PROVE  /\ Fits(m)
         /\ Inserted(m) =
              [c \in Columns |->
                 IF c \in auto THEN <<"id", c>>
                 ELSE IF c \in m.dirty THEN m.val[c]
                 ELSE IF c \in defaulted THEN <<"default", c>> ELSE Null]
         /\ sqlForInserting(m).needSelection <=>
              auto # {} \/ ~(defaulted \subseteq m.dirty)
<1> DEFINE L == m.dirty \cup auto \cup defaulted
           D == m.dirty \ auto
           sql == sqlForInserting(m)
           args == outputArgs(m)
           list == Dirty(m, Bindable)
<1>1. /\ L \in SUBSET Columns /\ L \in SUBSET Int /\ D \in SUBSET L
      /\ Listing(L, sql.columns)
      /\ sql.values = [i \in 1 .. Cardinality(L) |-> sql.values[i]]
      /\ \A i \in 1 .. Cardinality(L) :
           sql.values[i] = "?" <=> sql.columns[i] \in D
      /\ sql.needSelection <=> auto # {} \/ ~(defaulted \subseteq m.dirty)
  BY InsertMarks
<1>2. Listing(D, list) /\ D \in SUBSET Int
  BY DirtyList
<1>3. args = [i \in DOMAIN list |-> m.val[list[i]]]
  BY DEF StatementOK, Bound
<1>5. \A c : c \in L <=> c \in m.dirty \/ c \in auto \/ c \in defaulted
  OBVIOUS
<1>6. \A c : c \in D <=> c \in m.dirty /\ c \notin auto
  OBVIOUS
<1> HIDE DEF L, D, sql, args, list
<1>7. /\ Marks(sql, Cardinality(L)) = Cardinality(D)
      /\ \A c \in L : Marks(sql, Rank(L, c)) = Rank(D, c)
  <2>1. IsFiniteSet(L)
    BY <1>1 DEF Listing
  <2> QED
    BY <1>1, <2>1, MarkPlaces
<1>8. /\ IsFiniteSet(L) /\ IsFiniteSet(D)
      /\ Cardinality(L) \in Nat /\ Cardinality(D) \in Nat
  BY <1>1, <1>2, FS_CardinalityType DEF Listing
<1>9. Fits(m)
  <2>1. Len(sql.values) = Cardinality(L)
    <3>1. sql.values \in Seq({sql.values[i] : i \in 1 .. Cardinality(L)})
      BY <1>1, <1>8
    <3> QED
      BY <1>1, <1>8, <3>1
  <2>2. Len(args) = Cardinality(D)
    <3>1. args = [i \in 1 .. Cardinality(D) |-> m.val[list[i]]]
      BY <1>2, <1>3 DEF Listing
    <3>2. args \in Seq({m.val[list[i]] : i \in 1 .. Cardinality(D)})
      BY <1>8, <3>1
    <3> QED
      BY <1>8, <3>1, <3>2
  <2> QED
    BY <1>7, <2>1, <2>2 DEF Fits, sql, args
<1> DEFINE Place(c) == CHOOSE i \in DOMAIN sql.columns : sql.columns[i] = c
           Is(c) == \E i \in DOMAIN sql.columns : sql.columns[i] = c
           W(c) == IF Is(c) /\ sql.values[Place(c)] = "?"
                     THEN args[Marks(sql, Place(c))]
                   ELSE IF c \in auto THEN <<"id", c>>
                   ELSE IF c \in defaulted THEN <<"default", c>> ELSE Null
           V(c) == IF c \in auto THEN <<"id", c>>
                   ELSE IF c \in m.dirty THEN m.val[c]
                   ELSE IF c \in defaulted THEN <<"default", c>> ELSE Null
<1>10. ASSUME NEW c \in Columns PROVE W(c) = V(c)
  <2>1. CASE c \in L
    <3> DEFINE i == Place(c)
    <3>1. i \in 1 .. Cardinality(L) /\ sql.columns[i] = c
      <4>1. Rank(L, c) \in 1 .. Cardinality(L) /\ sql.columns[Rank(L, c)] = c
        BY <1>1, <1>8, <2>1, RankType DEF Listing
      <4>2. DOMAIN sql.columns = 1 .. Cardinality(L)
        BY <1>1 DEF Listing
      <4> QED
        BY <4>1, <4>2
    <3>2. i = Rank(L, c)
      BY <1>1, <3>1 DEF Listing
    <3>3. Is(c)
      BY <1>1, <3>1 DEF Listing
    <3>4. sql.values[i] = "?" <=> c \in D
      BY <1>1, <3>1
    <3>5. Marks(sql, i) = Rank(D, c)
      BY <1>7, <2>1, <3>2
    <3>6. c \in D => args[Rank(D, c)] = m.val[c]
      <4> SUFFICES ASSUME c \in D PROVE args[Rank(D, c)] = m.val[c]
        OBVIOUS
      <4>1. Rank(D, c) \in 1 .. Cardinality(D)
        BY <1>2, <1>8, RankType
      <4> QED
        BY <1>2, <1>3, <4>1 DEF Listing
    <3> HIDE DEF Place, Is
    <3> QED
      BY <1>5, <1>6, <2>1, <3>3, <3>4, <3>5, <3>6
  <2>2. CASE c \notin L
    <3>1. ~Is(c)
      BY <1>1, <2>2 DEF Listing
    <3> HIDE DEF Is
    <3> QED
      BY <1>5, <2>2, <3>1
  <2> QED
    BY <2>1, <2>2
<1>11. Inserted(m) = [c \in Columns |-> W(c)]
  BY DEF Inserted, sql, args
<1> HIDE DEF W, V
<1>12. [c \in Columns |-> W(c)] = [c \in Columns |-> V(c)]
  BY <1>10
<1> QED
  BY <1>1, <1>9, <1>11, <1>12 DEF V, sql

-----------------------------------------------------------------------------
(* JSON *)

LEMMA VectorLen ==
  ASSUME TableOK, NEW pv \in AllVectors
  PROVE  Len(pv) = Size /\ pv \in [Columns -> Texts]
<1>1. pv \in [1 .. Size -> Texts] /\ Size \in Nat
  BY Lists DEF AllVectors, TableOK
<1>2. pv \in Seq(Texts)
  BY <1>1
<1> QED
  BY <1>1, <1>2, Lists

LEMMA NamesVector ==
  ASSUME TableOK
  PROVE  /\ Names \in AllVectors
         /\ \A c \in Columns : Names[c] # ""
         /\ \A s \in [Columns -> Values] : Seen(Names, s) = s
<1>2. Names = [c \in Columns |-> metaData_[c].name]
  BY DEF Names, Columns
<1>3. Names \in [Columns -> Texts]
  BY <1>2 DEF Texts
<1>4. \A c \in Columns : Names[c] # ""
  BY <1>2 DEF TableOK
<1>5. \A c, d \in Columns : Names[c] = Names[d] => c = d
  BY <1>2 DEF TableOK
<1>6. \A s \in [Columns -> Values] : Seen(Names, s) = s
  BY <1>4 DEF Seen
<1> QED
  BY <1>3, <1>4, <1>5, <1>6 DEF AllVectors

LEMMA VectorsFit ==
  ASSUME TableOK
  PROVE  /\ Vectors \subseteq AllVectors
         /\ \A pv \in BadVectors : Len(pv) # Size
<1>1. /\ Names \in [1 .. Size -> Texts] /\ Columns = 1 .. Size /\ Size \in Nat \ {0}
      /\ \A c, d \in Columns : Names[c] = Names[d] => c = d
  <2>1. Columns = 1 .. Size /\ Size \in Nat \ {0}
    BY DEF TableOK
  <2>2. /\ Names \in [Columns -> Texts]
        /\ \A c, d \in Columns : Names[c] = Names[d] => c = d
    BY NamesVector DEF AllVectors
  <2> QED
    BY <2>1, <2>2
<1>2. Names \in Seq(Texts) /\ Len(Names) = Size /\ Names # <<>>
  BY <1>1
<1>3. /\ Tail(Names) \in Seq(Texts) /\ Len(Tail(Names)) = Size - 1
      /\ \A c \in 1 .. Size - 1 : Tail(Names)[c] = Names[c + 1]
  BY <1>1, <1>2, HeadTailProperties
<1>4. /\ Rotated \in [Columns -> Texts]
      /\ Rotated[Size] = Names[1]
      /\ \A c \in 1 .. Size - 1 : Rotated[c] = Names[c + 1]
  <2>1. Head(Names) = Names[1] /\ Head(Names) \in Texts
    BY <1>1, <1>2
  <2>2. Rotated = Append(Tail(Names), Head(Names))
    BY DEF Rotated
  <2>3. /\ Rotated \in Seq(Texts) /\ Len(Rotated) = Size
        /\ \A c \in 1 .. Size - 1 : Rotated[c] = Tail(Names)[c]
        /\ Rotated[Size] = Head(Names)
    BY <1>1, <1>3, <2>1, <2>2, AppendProperties
  <2> QED
    BY <1>1, <1>3, <2>1, <2>3
<1>5. Rotated \in AllVectors /\ \A c \in Columns : Rotated[c] # ""
  <2> DEFINE after(c) == IF c = Size THEN 1 ELSE c + 1
  <2>1. \A c \in Columns : after(c) \in Columns /\ Rotated[c] = Names[after(c)]
    BY <1>1, <1>4
  <2>2. \A c, d \in Columns : after(c) = after(d) => c = d
    BY <1>1
  <2> HIDE DEF after
  <2>3. \A c, d \in Columns : Rotated[c] = Rotated[d] => c = d
    BY <1>1, <2>1, <2>2
  <2>4. \A c \in Columns : Rotated[c] # ""
    BY <2>1, NamesVector
  <2> QED
    BY <1>4, <2>3, <2>4 DEF AllVectors
<1>6. Hiding \in AllVectors
  <2>1. Hiding = [c \in Columns |-> IF c = Size THEN "" ELSE Rotated[c]]
    BY <1>4 DEF Hiding
  <2>2. \A c, d \in Columns : Rotated[c] = Rotated[d] => c = d
    BY <1>5 DEF AllVectors
  <2>3. Hiding \in [Columns -> Texts]
    BY <1>4, <2>1 DEF Texts
  <2>4. \A c, d \in Columns : Hiding[c] = Hiding[d] /\ Hiding[c] # "" => c = d
    BY <2>1, <2>2
  <2> QED
    BY <2>3, <2>4 DEF AllVectors
<1>7. \A pv \in BadVectors : Len(pv) # Size
  BY <1>1, <1>3 DEF BadVectors, Short
<1> QED
  BY <1>5, <1>6, <1>7 DEF Vectors

LEMMA JsonGiven ==
  ASSUME TableOK, NEW keys \in AllVectors, NEW s \in [Columns -> Values]
  PROVE  LET j == Json(keys, s)
         IN /\ Given(j, keys) = {c \in Columns : Seen(keys, s)[c] # Absent}
            /\ \A c \in Given(j, keys) : j[keys[c]] = Seen(keys, s)[c]
            /\ Given(j, keys) \in SUBSET Columns
            /\ \A c \in Given(j, keys) : keys[c] # ""
<1> DEFINE j == Json(keys, s)
           members == {c \in DOMAIN keys : keys[c] # "" /\ s[c] # Absent}
<1>1. /\ DOMAIN keys = Columns
      /\ \A c, d \in Columns : keys[c] = keys[d] /\ keys[c] # "" => c = d
  BY DEF AllVectors
<1>2. j = [k \in {keys[c] : c \in members} |-> s[CHOOSE c \in members : keys[c] = k]]
  BY DEF Json
<1>3. ASSUME NEW c \in members PROVE keys[c] \in DOMAIN j /\ j[keys[c]] = s[c]
  <2>1. (CHOOSE d \in members : keys[d] = keys[c]) = c
    BY <1>1
  <2> QED
    BY <1>2, <2>1
<1>4. Given(j, keys) = members
  <2>1. \A c \in Columns : keys[c] # "" /\ keys[c] \in DOMAIN j => c \in members
    BY <1>1, <1>2
  <2> HIDE DEF j
  <2> QED
    BY <1>1, <1>3, <2>1 DEF Given
<1>5. members = {c \in Columns : Seen(keys, s)[c] # Absent}
  BY <1>1 DEF Seen
<1>6. \A c \in members : c \in Columns /\ Seen(keys, s)[c] = s[c] /\ keys[c] # ""
  BY <1>1 DEF Seen
<1> QED
  BY <1>3, <1>4, <1>5, <1>6

(* What a client has given is what the class reads and what it judges *)
LEMMA JsonRead ==
  ASSUME TableOK, NEW keys \in AllVectors, NEW s \in [Columns -> Values]
  PROVE  LET j == Json(keys, s)
             v == Seen(keys, s)
             given == {c \in Columns : v[c] # Absent}
         IN /\ v \in [Columns -> Values]
            /\ \A marked : \A m \in Objects :
                 ReadJson(metaData_, m, j, keys, marked) = Read(m, v, marked)
            /\ Throws(j, keys) <=> \E c \in Columns : v[c][1] = "bad"
            /\ \A creation, required :
                 Validated(Checks(j, keys, creation), required) <=>
                   /\ required \subseteq given
                   /\ \A c \in given : ValidField(metaData_, auto, c, v[c], creation)
<1> DEFINE j == Json(keys, s)
           v == Seen(keys, s)
           given == {c \in Columns : v[c] # Absent}
<1>1. /\ Given(j, keys) = given
      /\ \A c \in given : j[keys[c]] = v[c]
  BY JsonGiven
<1>2. v \in [Columns -> Values]
  <2>1. Absent \in Values
    BY DEF Absent, Values, Tags
  <2> QED
    BY <2>1 DEF Seen
<1> HIDE DEF j, v
<1>3. ASSUME NEW m \in Objects, NEW marked
      PROVE  ReadJson(metaData_, m, j, keys, marked) = Read(m, v, marked)
  <2>1. DOMAIN m.val = Columns
    BY DEF Objects
  <2>2. ReadJson(metaData_, m, j, keys, marked) =
          [val |-> [c \in Columns |->
                      IF c \in given /\ Readable(Type(c), j[keys[c]])
                        THEN Converted(Type(c), j[keys[c]]) ELSE m.val[c]],
           dirty |-> m.dirty \cup (given \cap marked)]
    BY <1>1, <2>1 DEF ReadJson, Type
  <2> HIDE DEF given
  <2>3. \A c \in Columns : c \in given <=> v[c] # Absent
    BY DEF given
  <2>4. [c \in Columns |->
           IF c \in given /\ Readable(Type(c), j[keys[c]])
             THEN Converted(Type(c), j[keys[c]]) ELSE m.val[c]] =
        [c \in Columns |->
           IF v[c] # Absent /\ Readable(Type(c), v[c])
             THEN Converted(Type(c), v[c]) ELSE m.val[c]]
    BY <1>1, <2>3
  <2> QED
    BY <2>2, <2>4 DEF Read, given
<1>4. Throws(j, keys) <=> \E c \in Columns : v[c][1] = "bad"
  BY <1>1 DEF Throws, Absent
<1>5. ASSUME NEW creation, NEW required
      PROVE  Validated(Checks(j, keys, creation), required) <=>
               /\ required \subseteq given
               /\ \A c \in given : ValidField(metaData_, auto, c, v[c], creation)
  BY <1>1 DEF Validated, Checks
<1> QED
  BY <1>2, <1>3, <1>4, <1>5 DEF j, v

-----------------------------------------------------------------------------
(* Values and objects *)

LEMMA ValueFacts ==
  /\ Null \in Values /\ Absent \in Values /\ Null # Absent
  /\ \A tag \in Tags, c \in Int : <<tag, c>> \in Values
BY DEF Null, Absent, Values, Tags

LEMMA ConvertedStored ==
  ASSUME NEW v \in Values, NEW c
  PROVE  /\ Converted(Type(c), v) \in Values
         /\ Readable(Type(c), v) =>
              Stable(c, Converted(Type(c), v)) /\ Converted(Type(c), v) # Null
<1> DEFINE t == Type(c)
           w == <<"other", v[2]>>
<1>1. w \in Values /\ w[1] = "other" /\ w # Null
  BY DEF Values, Tags, Null
<1>2. Converted(t, v) = w \/ Converted(t, v) = v
  BY DEF Converted
<1>3. Readable(t, w) /\ Converted(t, w) = w
  BY <1>1 DEF Readable, Converted
<1>4. Converted(t, v) = v => Converted(t, Converted(t, v)) = v
  OBVIOUS
<1> HIDE DEF t, w
<1>5. Readable(t, v) => v # Null
  BY DEF Readable
<1> QED
  BY <1>1, <1>2, <1>3, <1>4, <1>5 DEF Stable, t

LEMMA PlainStored ==
  ASSUME NEW c \in Int, NEW tag \in {"new", "edit", "old", "midnight", "set", "id", "default",
                              "now"}
  PROVE  Stored(c, <<tag, c>>) /\ Readable(Type(c), <<tag, c>>)
         /\ Converted(Type(c), <<tag, c>>) = <<tag, c>>
BY DEF Stored, Stable, Readable, Converted, Null

LEMMA NewObject ==
  ASSUME TableOK
  PROVE  /\ New(Size) \in Objects
         /\ New(Size).dirty = {} /\ \A c \in Columns : New(Size).val[c] = Null
<1>1. New(Size) = [val |-> [c \in Columns |-> Null], dirty |-> {}]
  BY DEF New, TableOK
<1> QED
  BY <1>1, ValueFacts DEF Objects

LEMMA ReadObject ==
  ASSUME NEW m \in Objects, NEW v \in [Columns -> Values], NEW marked
  PROVE  Read(m, v, marked) \in Objects
<1>1. \A c \in Columns : Converted(Type(c), v[c]) \in Values /\ m.val[c] \in Values
  BY ConvertedStored DEF Objects
<1> QED
  BY <1>1 DEF Read, Objects

LEMMA RowObject ==
  ASSUME TableOK, FromRowOK, NEW r \in [Columns -> Values]
  PROVE  /\ FromRowByIndex(r, 0) = [val |-> r, dirty |-> {}]
         /\ FromRowByIndex(<<Null>> \o r, 1) = [val |-> r, dirty |-> {}]
         /\ FromRowByName(ByName(r)) = [val |-> r, dirty |-> {}]
         /\ [val |-> r, dirty |-> {}] \in Objects
<1>1. r \in Seq(Values) /\ Len(r) = Size /\ Size \in Nat \ {0} /\ Columns = 1 .. Size
  <2>1. Size \in Nat \ {0} /\ Columns = 1 .. Size
    BY DEF TableOK
  <2>2. r \in [1 .. Size -> Values]
    BY <2>1
  <2>3. r \in Seq(Values)
    BY <2>1, <2>2
  <2> QED
    BY <2>1, <2>2, <2>3
<1>2. r = [c \in Columns |-> r[c]]
  OBVIOUS
<1>3. FromRowByIndex(r, 0) = [val |-> r, dirty |-> {}]
  <2>1. ~(0 + Size > Len(r)) /\ \A c \in Columns : 0 + c = c
    BY <1>1
  <2>2. [c \in Columns |-> r[0 + c]] = r
    BY <1>2, <2>1
  <2> QED
    BY <2>1, <2>2 DEF FromRowOK, ReadRow
<1>4. FromRowByIndex(<<Null>> \o r, 1) = [val |-> r, dirty |-> {}]
  <2> DEFINE s == <<Null>> \o r
  <2>1. <<Null>> \in Seq(Values) /\ Len(<<Null>>) = 1
    BY ValueFacts
  <2>2. Len(s) = 1 + Size /\ \A c \in Columns : s[1 + c] = r[c]
    BY <1>1, <2>1
  <2> HIDE DEF s
  <2>3. [c \in Columns |-> s[1 + c]] = r
    BY <1>2, <2>2
  <2>4. ~(1 + Size > Len(s))
    BY <1>1, <2>2
  <2>5. FromRowByIndex(s, 1) = [val |-> r, dirty |-> {}]
    BY <2>3, <2>4 DEF FromRowOK, ReadRow
  <2> QED
    BY <2>5 DEF s
<1>5. FromRowByName(ByName(r)) = [val |-> r, dirty |-> {}]
  <2>1. /\ DOMAIN Names = Columns
        /\ \A c, d \in Columns : Names[c] = Names[d] => c = d
    BY NamesVector DEF AllVectors
  <2>2. ByName(r) = [k \in {Names[c] : c \in Columns} |->
                       r[CHOOSE c \in Columns : Names[c] = k]]
    BY <2>1 DEF ByName
  <2>3. ASSUME NEW c \in Columns PROVE ByName(r)[Names[c]] = r[c]
    <3>1. (CHOOSE d \in Columns : Names[d] = Names[c]) = c
      BY <2>1
    <3> QED
      BY <2>2, <3>1
  <2>4. [c \in Columns |-> ByName(r)[Names[c]]] = r
    BY <1>2, <2>3
  <2> QED
    BY <2>4 DEF FromRowOK, ReadRow
<1> QED
  BY <1>3, <1>4, <1>5 DEF Objects

LEMMA InputsTyped ==
  ASSUME TableOK
  PROVE  /\ CreationInputs \subseteq [Columns -> Values]
         /\ AliasedInputs \subseteq [Columns -> Values]
         /\ EditInputs \subseteq [Columns -> Values]
<1>1. Columns \subseteq Int /\ Columns = 1 .. Size /\ primaryKey \in Columns
  BY Lists DEF TableOK
<1>2. AllInputs \subseteq [Columns -> Values]
  <2>1. 0 .. Size \subseteq Int
    OBVIOUS
  <2>2. Tags \X (0 .. Size) \subseteq Values
    BY <2>1 DEF Values
  <2> HIDE DEF Tags
  <2> QED
    BY <2>2 DEF AllInputs
<1>3. \A c \in Columns, tag \in Tags : <<tag, c>> \in Values
  BY <1>1, ValueFacts
<1>4. \A c \in Columns : Odd(c) \subseteq Values
  BY <1>3, ValueFacts DEF Odd, Tags
<1>5. ASSUME NEW s \in [Columns -> Values], NEW more, \A c \in Columns : more[c] \subseteq Values
      PROVE  Deviations(s, more) \subseteq [Columns -> Values]
  BY <1>4, <1>5 DEF Deviations
<1>6. Minimal \in [Columns -> Values] /\ Full \in [Columns -> Values]
  BY <1>3, ValueFacts DEF Minimal, Full, Tags
<1>7. PkOnly \in [Columns -> Values] /\ AllOf \in [Columns -> Values]
  BY <1>1, <1>3, ValueFacts DEF PkOnly, AllOf, Nothing, Value, Tags
<1>8. \A c \in Columns : /\ {Absent, <<"new", c>>} \subseteq Values
                          /\ {Absent, <<"edit", c>>} \subseteq Values
  BY <1>3, ValueFacts DEF Tags
<1>9. CreationInputs \subseteq [Columns -> Values]
  <2> DEFINE more == [c \in Columns |-> {Absent, <<"new", c>>}]
  <2>1. \A c \in Columns : more[c] \subseteq Values
    BY <1>8
  <2> HIDE DEF more
  <2>2. /\ Deviations(Minimal, more) \subseteq [Columns -> Values]
        /\ Deviations(Full, more) \subseteq [Columns -> Values]
    BY <1>5, <1>6, <2>1
  <2> QED
    BY <1>2, <2>2 DEF CreationInputs, more
<1>10. EditInputs \subseteq [Columns -> Values]
  <2> DEFINE more == [c \in Columns |-> {Absent, <<"edit", c>>}]
  <2>1. \A c \in Columns : more[c] \subseteq Values
    BY <1>8
  <2> HIDE DEF more
  <2>2. Deviations(PkOnly, more) \subseteq [Columns -> Values]
    BY <1>5, <1>7, <2>1
  <2> QED
    BY <1>2, <1>7, <2>2 DEF EditInputs, more
<1>11. AliasedInputs \subseteq [Columns -> Values]
  BY <1>2, <1>6 DEF AliasedInputs
<1> QED
  BY <1>9, <1>10, <1>11

-----------------------------------------------------------------------------
(* Each action keeps the invariant *)

LEMMA InitInv ==
  ASSUME TableOK, Init
  PROVE  IInv
<1>1. ASSUME NEW times \in {"old", "midnight"}
      PROVE  /\ Existing(times) \in [Columns -> Values] /\ Existing(times) # <<>>
             /\ \A c \in Columns : Stored(c, Existing(times)[c])
  <2>1. \A c \in Columns, tag \in {"old", "midnight"} :
          <<tag, c>> \in Values /\ Stored(c, <<tag, c>>)
    BY Lists, PlainStored, ValueFacts DEF Tags
  <2>2. primaryKey \in Columns
    BY DEF TableOK
  <2> DEFINE e == Existing(times)
  <2>3. /\ e = [c \in Columns |-> e[c]]
        /\ \A c \in Columns : e[c] \in {<<times, c>>, <<"old", c>>}
    BY DEF Existing
  <2> HIDE DEF e
  <2>4. \A c \in Columns : e[c] \in Values /\ Stored(c, e[c])
    BY <2>1, <2>3
  <2>5. e \in [Columns -> Values] /\ e # <<>>
    BY <2>2, <2>3, <2>4
  <2> QED
    BY <2>4, <2>5 DEF e
<1>2. New(Size) \in Objects /\ Nothing \in [Columns -> Values]
  BY NewObject, ValueFacts DEF Nothing
<1>3. row = <<>> \/ (row \in [Columns -> Values] /\ row # <<>>)
  BY <1>1 DEF Init
<1>4. Typed
  BY <1>1, <1>2, <1>3 DEF Init, Typed
<1>5. Roles
  <2>1. Existing("old") # <<>>
    BY <1>1
  <2>2. \A k \in Clients : pc[k] # "away" <=> row = IF k = "creator" THEN <<>> ELSE Existing("old")
    BY DEF Init
  <2> QED
    BY <2>1, <2>2 DEF Roles, Clients
<1>6. \A k \in Clients : pc[k] \in {"idle", "away"} /\ ~checked[k]
  BY DEF Init
<1>7. CheckedAccepted /\ CreatorReady /\ UpdaterReady /\ RefusedExcused /\ InsertedAsSent
  BY <1>6 DEF CheckedAccepted, CreatorReady, UpdaterReady, RefusedExcused,
              InsertedAsSent, Clients
<1>8. SetterReady
  BY <1>6 DEF SetterReady, Clients
<1>9. RowStored /\ SentValuesStay
  BY <1>1 DEF Init, RowStored, SentValuesStay
<1> QED
  BY <1>4, <1>5, <1>7, <1>8, <1>9 DEF IInv

(* A step that leaves the row alone, and the clients that have written it *)
LEMMA NothingWritten ==
  ASSUME SentValuesStay, UNCHANGED <<row, last>>,
         \A u \in Clients : pc[u] = "done" =>
           pc'[u] = "done" /\ obj'[u] = obj[u] /\ sent'[u] = sent[u]
  PROVE  SentValuesStay'
<1> SUFFICES ASSUME row # <<>>, NEW c \in Columns
             PROVE  \/ row[c] = last[c]
                    \/ /\ c \in onUpdate /\ row[c] = <<"now", c>>
                       /\ \E k \in Clients : pc'[k] = "done" /\ sent'[k][c] = Absent
                    \/ pc'["editor"] = "done" /\ Unread(c)' /\ row[c] = obj'["editor"].val[c]
  BY DEF SentValuesStay
<1>1. CASE c \in onUpdate /\ row[c] = <<"now", c>>
           /\ \E k \in Clients : pc[k] = "done" /\ sent[k][c] = Absent
  BY <1>1
<1>2. CASE pc["editor"] = "done" /\ Unread(c) /\ row[c] = obj["editor"].val[c]
  <2>1. "editor" \in Clients
    BY DEF Clients
  <2>2. pc'["editor"] = "done" /\ obj'["editor"] = obj["editor"]
        /\ sent'["editor"] = sent["editor"]
    BY <1>2, <2>1
  <2>3. Unread(c)'
    BY <1>2, <2>2 DEF Unread
  <2> QED
    BY <1>2, <2>2, <2>3
<1> QED
  BY <1>1, <1>2 DEF SentValuesStay

(* A client that holds an object m for what it was given, v *)
LEMMA BecomesReady ==
  ASSUME IInv, NEW k \in Clients, pc[k] = "idle",
         NEW m \in Objects, NEW v \in [Columns -> Values], NEW ok \in BOOLEAN,
         pc' = [pc EXCEPT ![k] = "ready"], Hold(k, m, v, ok), UNCHANGED <<row, last>>,
         ok /\ k # "setter" => Accepted(k, v),
         k = "creator" => m = Read(New(Size), v, Columns),
         k # "creator" => Took(m, v), k = "setter" => SetTo(m, v)
  PROVE  IInv'
<1>1. Typed'
  BY DEF IInv, Typed, Hold
<1>2. Roles'
  BY DEF IInv, Typed, Roles
<1>3. CheckedAccepted'
  BY DEF IInv, Typed, CheckedAccepted, Hold, Accepted, GivenIn, Clients
<1>4. CreatorReady'
  BY DEF IInv, Typed, CreatorReady, Hold, Clients
<1>5. UpdaterReady'
  BY DEF IInv, Typed, UpdaterReady, Hold
<1>6. RowStored'
  BY DEF IInv, RowStored
<1>7. RefusedExcused'
  BY DEF IInv, Typed, RefusedExcused, Hold, Clients
<1>8. SentValuesStay'
  BY NothingWritten DEF IInv, Typed, Hold
<1>9. InsertedAsSent'
  <2>1. pc'["creator"] # "done"
    BY DEF IInv, Typed, Roles, Clients
  <2> QED
    BY <2>1 DEF InsertedAsSent
<1>10. SetterReady'
  BY DEF IInv, Typed, SetterReady, SetTo, GivenIn, Hold, Clients
<1> QED
  BY <1>1, <1>2, <1>3, <1>4, <1>5, <1>6, <1>7, <1>8, <1>9, <1>10 DEF IInv

(* A request that a conversion ends *)
LEMMA BecomesRefused ==
  ASSUME IInv, NEW k \in Clients, pc[k] = "idle",
         NEW v \in [Columns -> Values],
         pc' = [pc EXCEPT ![k] = "refused"], UNCHANGED obj,
         sent' = [sent EXCEPT ![k] = v], checked' = [checked EXCEPT ![k] = FALSE],
         UNCHANGED <<row, last>>
  PROVE  IInv'
<1>1. Typed'
  BY DEF IInv, Typed
<1>2. Roles'
  BY DEF IInv, Typed, Roles
<1>3. CheckedAccepted'
  BY DEF IInv, Typed, CheckedAccepted, Clients
<1>4. CreatorReady'
  BY DEF IInv, Typed, CreatorReady, Clients
<1>5. UpdaterReady'
  BY DEF IInv, Typed, UpdaterReady
<1>6. RowStored'
  BY DEF IInv, RowStored
<1>7. RefusedExcused'
  BY DEF IInv, Typed, RefusedExcused, Clients
<1>8. SentValuesStay'
  BY NothingWritten DEF IInv, Typed
<1>9. InsertedAsSent'
  <2>1. pc'["creator"] # "done"
    BY DEF IInv, Typed, Roles, Clients
  <2> QED
    BY <2>1 DEF InsertedAsSent
<1>10. SetterReady'
  BY DEF IInv, Typed, SetterReady, SetTo, GivenIn, Clients
<1> QED
  BY <1>1, <1>2, <1>3, <1>4, <1>5, <1>6, <1>7, <1>8, <1>9, <1>10 DEF IInv

(* what makes a conversion throw is a value *)
LEMMA BadGiven ==
  ASSUME NEW v, NEW c \in Columns, v[c][1] = "bad"
  PROVE  c \in GivenIn(v)
BY DEF GivenIn, Absent

(* The object that a vector of aliases, or the names, select *)
LEMMA CreateFrom ==
  ASSUME IInv, ClassOK, pc["creator"] = "idle",
         NEW keys \in AllVectors, \A c \in Required : keys[c] # "",
         NEW s \in [Columns -> Values]
  PROVE  LET j == Json(keys, s)
             v == Seen(keys, s)
             m == ReadJson(metaData_, New(Size), j, keys, Columns)
             required == {c \in Required : keys[c] # ""}
             ok == Validated(Checks(j, keys, TRUE), required)
         IN /\ m = Read(New(Size), v, Columns) /\ m \in Objects
            /\ v \in [Columns -> Values]
            /\ ok => Accepted("creator", v)
            /\ Throws(j, keys) => ~ok
<1> DEFINE j == Json(keys, s)
           v == Seen(keys, s)
           m == ReadJson(metaData_, New(Size), j, keys, Columns)
           required == {c \in Required : keys[c] # ""}
           ok == Validated(Checks(j, keys, TRUE), required)
<1>1. TableOK
  BY DEF ClassOK
<1>2. required = Required
  OBVIOUS
<1>3. /\ v \in [Columns -> Values] /\ m = Read(New(Size), v, Columns)
      /\ Throws(j, keys) <=> \E c \in Columns : v[c][1] = "bad"
      /\ ok <=> /\ Required \subseteq GivenIn(v)
                /\ \A c \in GivenIn(v) : ValidField(metaData_, auto, c, v[c], TRUE)
  <2> HIDE DEF required
  <2>1. /\ v \in [Columns -> Values]
        /\ \A marked : \A n \in Objects :
             ReadJson(metaData_, n, j, keys, marked) = Read(n, v, marked)
        /\ Throws(j, keys) <=> \E c \in Columns : v[c][1] = "bad"
        /\ \A creation, req :
             Validated(Checks(j, keys, creation), req) <=>
               /\ req \subseteq GivenIn(v)
               /\ \A c \in GivenIn(v) : ValidField(metaData_, auto, c, v[c], creation)
    BY <1>1, JsonRead DEF GivenIn
  <2>2. m = Read(New(Size), v, Columns)
    BY <1>1, <2>1, NewObject
  <2> QED
    BY <1>2, <2>1, <2>2
<1> HIDE DEF j, v, m, ok
<1>4. m \in Objects
  BY <1>1, <1>3, NewObject, ReadObject
<1>5. ok => Accepted("creator", v)
  BY <1>3 DEF Accepted
<1>6. Throws(j, keys) => ~ok
  <2>1. \A c \in Columns : v[c][1] = "bad" => c \in GivenIn(v)
    BY BadGiven
  <2> QED
    BY <1>3, <2>1 DEF ValidField
<1> QED
  BY <1>3, <1>4, <1>5, <1>6 DEF j, v, m, ok

LEMMA CreateStep ==
  ASSUME IInv, ClassOK, NEW s \in CreationInputs, Create(s)
  PROVE  IInv'
<1> DEFINE j == Json(Names, s)
           m == ReadJson(metaData_, New(Size), j, Names, Columns)
           ok == Validated(Checks(j, Names, TRUE), Required)
<1>1. TableOK /\ s \in [Columns -> Values] /\ Names \in AllVectors
  BY InputsTyped, NamesVector DEF ClassOK
<1>2. /\ Seen(Names, s) = s /\ {c \in Required : Names[c] # ""} = Required
      /\ \A c \in Required : Names[c] # ""
  BY <1>1, NamesVector DEF Required
<1>3. pc["creator"] = "idle" /\ "creator" \in Clients /\ ok \in BOOLEAN
  BY DEF Create, Clients, Validated
<1>4. /\ m = Read(New(Size), s, Columns) /\ m \in Objects
      /\ ok => Accepted("creator", s)
      /\ Throws(j, Names) => ~ok
  BY <1>1, <1>2, <1>3, CreateFrom
<1>5. FromJson(j) = m /\ (validateJsonForCreation(j) = ok)
  BY DEF ClassOK, FromJsonOK, ValidatorOK
<1> HIDE DEF m, ok
<1>6. CASE Throws(j, Names)
  <2>1. /\ pc' = [pc EXCEPT !["creator"] = "refused"] /\ UNCHANGED obj
        /\ sent' = [sent EXCEPT !["creator"] = s]
        /\ checked' = [checked EXCEPT !["creator"] = FALSE]
        /\ UNCHANGED <<row, last>>
    BY <1>3, <1>4, <1>5, <1>6 DEF Create, Build, Become
  <2> QED
    BY <1>1, <1>3, <2>1, BecomesRefused
<1>7. CASE ~Throws(j, Names)
  <2>1. /\ pc' = [pc EXCEPT !["creator"] = "ready"]
        /\ Hold("creator", m, s, ok) /\ UNCHANGED <<row, last>>
    BY <1>5, <1>7 DEF Create, Build, Become, Hold
  <2> QED
    BY <1>1, <1>3, <1>4, <2>1, BecomesReady
<1> QED
  BY <1>6, <1>7

LEMMA CreateMasqueradedStep ==
  ASSUME IInv, ClassOK, NEW s \in AliasedInputs, NEW pv \in CreationVectors \cup BadVectors,
         CreateMasqueraded(s, pv)
  PROVE  IInv'
<1> DEFINE j == Json(pv, s)
           seen == [c \in Columns |->
                      IF Len(pv) = Size /\ pv[c] # "" THEN s[c] ELSE Absent]
           m == FromMasqueradedJson(j, pv)
           ok == validateMasqueradedJsonForCreation(j, pv)
<1>1. TableOK /\ s \in [Columns -> Values]
  BY InputsTyped DEF ClassOK
<1>2. pc["creator"] = "idle" /\ "creator" \in Clients
  BY DEF CreateMasqueraded, Clients
<1>3. /\ pc' = [pc EXCEPT !["creator"] = "ready"]
      /\ Hold("creator", m, seen, ok) /\ UNCHANGED <<row, last>>
  BY DEF CreateMasqueraded, Become
<1>4. CASE pv \in CreationVectors
  <2>1. pv \in AllVectors /\ Len(pv) = Size /\ \A c \in Required : pv[c] # ""
    BY <1>1, <1>4, VectorsFit, VectorLen DEF CreationVectors
  <2>2. seen = Seen(pv, s)
    BY <2>1 DEF Seen
  <2>3. /\ m = ReadJson(metaData_, New(Size), j, pv, Columns)
        /\ ok = Validated(Checks(j, pv, TRUE), {c \in Required : pv[c] # ""})
    BY <2>1 DEF ClassOK, FromJsonOK, ValidatorOK, Validated
  <2>4. ok \in BOOLEAN
    BY <2>3 DEF Validated
  <2> HIDE DEF j, seen, m, ok
  <2>5. /\ m = Read(New(Size), seen, Columns) /\ m \in Objects
        /\ seen \in [Columns -> Values]
        /\ ok => Accepted("creator", seen)
    BY <1>1, <1>2, <2>1, <2>2, <2>3, CreateFrom DEF j
  <2> QED
    BY <1>2, <1>3, <2>4, <2>5, BecomesReady
<1>5. CASE pv \in BadVectors
  <2>1. Len(pv) # Size
    BY <1>1, <1>5, VectorsFit
  <2>2. m = New(Size) /\ ok = FALSE
    BY <2>1 DEF ClassOK, FromJsonOK, ValidatorOK
  <2>3. seen = Nothing /\ Nothing \in [Columns -> Values]
    BY <2>1, ValueFacts DEF Nothing
  <2>4. New(Size) \in Objects /\ New(Size) = Read(New(Size), Nothing, Columns)
    <3>1. New(Size) = [val |-> [c \in Columns |-> Null], dirty |-> {}]
      BY <1>1 DEF New, TableOK
    <3> QED
      BY <1>1, <3>1, NewObject DEF Read, Nothing
  <2> HIDE DEF m, seen, ok
  <2> QED
    BY <1>2, <1>3, <2>2, <2>3, <2>4, BecomesReady
<1> QED
  BY <1>4, <1>5

LEMMA TookRead ==
  ASSUME TableOK, NEW m \in Objects, m.dirty = {}, \A c \in Columns : Stored(c, m.val[c]),
         NEW v \in [Columns -> Values], NEW marked \in {Columns, Columns \ {primaryKey}}
  PROVE  Took(Read(m, v, marked), v) /\ Read(m, v, marked) \in Objects
<1> DEFINE n == Read(m, v, marked)
<1>1. /\ n.dirty = GivenIn(v) \cap marked
      /\ \A c \in Columns :
           n.val[c] = IF v[c] # Absent /\ Readable(Type(c), v[c])
                        THEN Converted(Type(c), v[c]) ELSE m.val[c]
  BY DEF Read, GivenIn
<1>2. \A c \in Columns : Readable(Type(c), v[c]) => Stable(c, Converted(Type(c), v[c]))
  BY ConvertedStored
<1>3. \A c \in Columns : Stable(c, m.val[c])
  BY DEF Stored
<1>4. \A c \in GivenIn(v) : c \in Columns /\ v[c] # Absent
  BY DEF GivenIn
<1>5. GivenIn(v) \subseteq Columns
  BY DEF GivenIn
<1> HIDE DEF n
<1>6. n.dirty \subseteq GivenIn(v) /\ GivenIn(v) \ {primaryKey} \subseteq n.dirty
  BY <1>1, <1>5
<1>7. \A c \in Columns : Stable(c, n.val[c])
  BY <1>1, <1>2, <1>3
<1>8. \A c \in GivenIn(v) :
        IF Readable(Type(c), v[c]) THEN n.val[c] = Converted(Type(c), v[c])
                                   ELSE Stored(c, n.val[c])
  BY <1>1, <1>4
<1> QED
  BY <1>6, <1>7, <1>8, ReadObject DEF Took, n

(* An object for update from JSON: m is new, or has been read from the row *)
LEMMA EditFrom ==
  ASSUME IInv, ClassOK, NEW m \in Objects, m.dirty = {},
         \A c \in Columns : Stored(c, m.val[c]),
         NEW marked \in {Columns, Columns \ {primaryKey}},
         NEW keys \in AllVectors, NEW s \in [Columns -> Values]
  PROVE  LET j == Json(keys, s)
             v == Seen(keys, s)
             n == ReadJson(metaData_, m, j, keys, marked)
             ok == Validated(Checks(j, keys, FALSE), {primaryKey})
         IN /\ Took(n, v) /\ n \in Objects /\ v \in [Columns -> Values]
            /\ ok \in BOOLEAN /\ (ok => Accepted("editor", v))
            /\ Throws(j, keys) => ~ok
<1> DEFINE j == Json(keys, s)
           v == Seen(keys, s)
           n == ReadJson(metaData_, m, j, keys, marked)
           ok == Validated(Checks(j, keys, FALSE), {primaryKey})
<1>1. TableOK
  BY DEF ClassOK
<1>2. /\ v \in [Columns -> Values]
      /\ \A mark : \A o \in Objects :
           ReadJson(metaData_, o, j, keys, mark) = Read(o, v, mark)
      /\ Throws(j, keys) <=> \E c \in Columns : v[c][1] = "bad"
      /\ \A creation, req :
           Validated(Checks(j, keys, creation), req) <=>
             /\ req \subseteq GivenIn(v)
             /\ \A c \in GivenIn(v) : ValidField(metaData_, auto, c, v[c], creation)
  BY <1>1, JsonRead DEF GivenIn
<1>3. n = Read(m, v, marked)
  BY <1>2
<1>4. ok <=> /\ {primaryKey} \subseteq GivenIn(v)
            /\ \A c \in GivenIn(v) : ValidField(metaData_, auto, c, v[c], FALSE)
  BY <1>2
<1>5. ok \in BOOLEAN
  BY DEF Validated
<1> HIDE DEF j, v, n, ok
<1>6. Took(n, v) /\ n \in Objects
  BY <1>1, <1>2, <1>3, TookRead
<1>7. ok => Accepted("editor", v)
  BY <1>4 DEF Accepted
<1>8. Throws(j, keys) => ~ok
  <2>1. \A c \in Columns : v[c][1] = "bad" => c \in GivenIn(v)
    BY DEF GivenIn, Absent
  <2> QED
    BY <1>2, <1>4, <2>1 DEF ValidField
<1> QED
  BY <1>2, <1>5, <1>6, <1>7, <1>8 DEF j, v, n, ok

LEMMA ReplaceStep ==
  ASSUME IInv, ClassOK, NEW s \in EditInputs, Replace(s)
  PROVE  IInv'
<1> DEFINE j == Json(Names, s)
           m == ReadJson(metaData_, New(Size), j, Names, Columns)
           ok == Validated(Checks(j, Names, FALSE), {primaryKey})
<1>1. TableOK /\ s \in [Columns -> Values] /\ Names \in AllVectors
  BY InputsTyped, NamesVector DEF ClassOK
<1>2. Seen(Names, s) = s
  BY <1>1, NamesVector
<1>3. /\ New(Size) \in Objects /\ New(Size).dirty = {}
      /\ \A c \in Columns : Stored(c, New(Size).val[c])
  BY <1>1, NewObject DEF Stored, Stable, Null
<1>4. pc["editor"] = "idle" /\ "editor" \in Clients
  BY DEF Replace, Clients
<1>5. /\ Took(m, s) /\ m \in Objects
      /\ ok \in BOOLEAN /\ (ok => Accepted("editor", s))
      /\ Throws(j, Names) => ~ok
  BY <1>1, <1>2, <1>3, EditFrom
<1>6. FromJson(j) = m /\ validateJsonForUpdate(j) = ok
  BY DEF ClassOK, FromJsonOK, ValidatorOK
<1> HIDE DEF m, ok
<1>7. CASE Throws(j, Names)
  <2>1. /\ pc' = [pc EXCEPT !["editor"] = "refused"] /\ UNCHANGED obj
        /\ sent' = [sent EXCEPT !["editor"] = s]
        /\ checked' = [checked EXCEPT !["editor"] = FALSE]
        /\ UNCHANGED <<row, last>>
    BY <1>5, <1>6, <1>7 DEF Replace, Build, Become
  <2> QED
    BY <1>1, <1>4, <2>1, BecomesRefused
<1>8. CASE ~Throws(j, Names)
  <2>1. /\ pc' = [pc EXCEPT !["editor"] = "ready"]
        /\ Hold("editor", m, s, ok) /\ UNCHANGED <<row, last>>
    BY <1>6, <1>8 DEF Replace, Build, Become, Hold
  <2> QED
    BY <1>1, <1>4, <1>5, <2>1, BecomesReady
<1> QED
  BY <1>7, <1>8

(* The object that find builds *)
LEMMA Found ==
  ASSUME IInv, ClassOK, NEW k \in Clients \ {"creator"}, pc[k] = "idle"
  PROVE  LET m == [val |-> row, dirty |-> {}]
         IN /\ row \in [Columns -> Values]
            /\ FromRowByIndex(row, 0) = m /\ FromRowByName(ByName(row)) = m
            /\ m \in Objects /\ m.dirty = {}
            /\ \A c \in Columns : Stored(c, m.val[c])
<1>1. row \in [Columns -> Values] /\ row # <<>>
  BY DEF IInv, Typed, Roles
<1>2. \A c \in Columns : Stored(c, row[c])
  BY <1>1 DEF IInv, RowStored
<1> QED
  BY <1>1, <1>2, RowObject DEF ClassOK

LEMMA EditStep ==
  ASSUME IInv, ClassOK, NEW s \in EditInputs, Edit(s)
  PROVE  IInv'
<1> DEFINE j == Json(Names, s)
           m == [val |-> row, dirty |-> {}]
           n == ReadJson(metaData_, m, j, Names, Columns \ {primaryKey})
           ok == Validated(Checks(j, Names, FALSE), {primaryKey})
<1>1. TableOK /\ s \in [Columns -> Values] /\ Names \in AllVectors
  BY InputsTyped, NamesVector DEF ClassOK
<1>2. Seen(Names, s) = s
  BY <1>1, NamesVector
<1>3. pc["editor"] = "idle" /\ "editor" \in Clients \ {"creator"}
  BY DEF Edit, Clients
<1>4. /\ FromRowByIndex(row, 0) = m /\ FromRowByName(ByName(row)) = m
      /\ m \in Objects /\ m.dirty = {}
      /\ \A c \in Columns : Stored(c, m.val[c])
  BY <1>3, Found
<1>5. \A o, i : updateByJson(o, i) = ReadJson(metaData_, o, i, Names, Columns \ {primaryKey})
  BY DEF ClassOK, ChangeOK
<1>6. validateJsonForUpdate(j) = ok
  BY DEF ClassOK, ValidatorOK
<1> HIDE DEF j, m, ok
<1>7. /\ pc' = [pc EXCEPT !["editor"] = "ready"]
      /\ Hold("editor", n, s, ok) /\ UNCHANGED <<row, last>>
  BY <1>4, <1>5, <1>6 DEF Edit, Become, j
<1>8. /\ Took(n, s) /\ n \in Objects
      /\ ok \in BOOLEAN /\ (ok => Accepted("editor", s))
  BY <1>1, <1>2, <1>4, EditFrom DEF j, ok
<1> HIDE DEF n
<1> QED
  BY <1>1, <1>3, <1>7, <1>8, BecomesReady

LEMMA EditMasqueradedStep ==
  ASSUME IInv, ClassOK, NEW s \in EditInputs, NEW pv \in Vectors, EditMasqueraded(s, pv)
  PROVE  IInv'
<1> DEFINE j == Json(pv, s)
           v == Seen(pv, s)
           m == [val |-> row, dirty |-> {}]
           n == ReadJson(metaData_, m, j, pv, Columns \ {primaryKey})
           ok == Validated(Checks(j, pv, FALSE), {primaryKey})
<1>1. TableOK /\ s \in [Columns -> Values]
  BY InputsTyped DEF ClassOK
<1>2. pv \in AllVectors /\ Len(pv) = Size
  BY <1>1, VectorsFit, VectorLen
<1>3. pc["editor"] = "idle" /\ "editor" \in Clients \ {"creator"}
  BY DEF EditMasqueraded, Clients
<1>4. /\ FromRowByIndex(row, 0) = m
      /\ m \in Objects /\ m.dirty = {}
      /\ \A c \in Columns : Stored(c, m.val[c])
  BY <1>3, Found
<1>5. \A o : updateByMasqueradedJson(o, j, pv) =
        ReadJson(metaData_, o, j, pv, Columns \ {primaryKey})
  BY <1>2 DEF ClassOK, ChangeOK
<1>6. validateMasqueradedJsonForUpdate(j, pv) = ok
  BY <1>2 DEF ClassOK, ValidatorOK, Validated
<1> HIDE DEF j, m, ok
<1>7. /\ pc' = [pc EXCEPT !["editor"] = "ready"]
      /\ Hold("editor", n, v, ok) /\ UNCHANGED <<row, last>>
  BY <1>4, <1>5, <1>6 DEF EditMasqueraded, Become, Seen, j
<1>8. /\ Took(n, v) /\ n \in Objects /\ v \in [Columns -> Values]
      /\ ok \in BOOLEAN /\ (ok => Accepted("editor", v))
  BY <1>1, <1>2, <1>4, EditFrom DEF j, ok
<1> HIDE DEF n, v
<1> QED
  BY <1>3, <1>7, <1>8, BecomesReady

LEMMA SetStep ==
  ASSUME IInv, ClassOK, NEW c \in Columns, NEW v \in {Null, <<"set", c>>}, SetColumn(c, v)
  PROVE  IInv'
<1> DEFINE m == [val |-> row, dirty |-> {}]
           n == Assigned(m, c, v)
           s == [Nothing EXCEPT ![c] = v]
<1>1. TableOK /\ c \in Int
  BY Lists DEF ClassOK
<1>2. pc["setter"] = "idle" /\ "setter" \in Clients \ {"creator"}
  BY DEF SetColumn, Clients
<1>3. /\ row \in [Columns -> Values] /\ FromRowByIndex(row, 0) = m
      /\ \A d \in Columns : Stored(d, row[d])
  BY <1>2, Found
<1>4. /\ v \in Values /\ v # Absent /\ Stored(c, v)
      /\ Readable(Type(c), v) => Converted(Type(c), v) = v
  <2>1. CASE v = Null
    BY <2>1, ValueFacts DEF Stored, Stable, Readable, Null
  <2>2. CASE v = <<"set", c>>
    <3>1. v \in Values /\ v # Absent
      BY <1>1, <2>2, ValueFacts DEF Tags, Absent
    <3> QED
      BY <1>1, <2>2, <3>1, PlainStored
  <2> QED
    BY <2>1, <2>2
<1>5. n = [val |-> [row EXCEPT ![c] = v], dirty |-> {c}] /\ n \in Objects
  BY <1>3, <1>4 DEF Assigned, Objects
<1>6. /\ s \in [Columns -> Values] /\ s[c] = v /\ GivenIn(s) = {c}
  BY <1>4, ValueFacts DEF Nothing, GivenIn
<1>7. Set(m, c, v) \in {m, n}
  BY DEF ClassOK, ChangeOK
<1> HIDE DEF n, m
<1>8. /\ pc' = [pc EXCEPT !["setter"] = "ready"]
      /\ Hold("setter", n, s, FALSE) /\ UNCHANGED <<row, last>>
  BY <1>3, <1>7 DEF SetColumn, Become
<1> HIDE DEF s
<1>9. Took(n, s)
  <2>1. \A d \in Columns : Stable(d, n.val[d])
    BY <1>3, <1>4, <1>5 DEF Stored
  <2> QED
    BY <1>3, <1>4, <1>5, <1>6, <2>1 DEF Took
<1>10. SetTo(n, s)
  BY <1>3, <1>5, <1>6 DEF SetTo
<1> QED
  BY <1>2, <1>5, <1>6, <1>8, <1>9, <1>10, BecomesReady

(* The row that insert stores for the values v *)
LEMMA InsertedRow ==
  ASSUME ClassOK, NEW v \in [Columns -> Values], NEW m, m = Read(New(Size), v, Columns)
  PROVE  LET new == Inserted(m)
         IN /\ m \in Objects /\ Fits(m)
            /\ new \in [Columns -> Values] /\ new # <<>>
            /\ \A c \in Columns :
                 /\ Stable(c, new[c])
                 /\ c \in auto => new[c] = <<"id", c>>
                 /\ c \notin auto /\ v[c] = Absent =>
                      new[c] = IF c \in defaulted THEN <<"default", c>> ELSE Null
                 /\ c \notin auto /\ v[c] # Absent =>
                      new[c] = IF Readable(Type(c), v[c]) THEN Converted(Type(c), v[c])
                                                        ELSE Null
            /\ sqlForInserting(m).needSelection \/ (auto = {} /\ new = m.val)
<1> DEFINE new == Inserted(m)
<1>1. TableOK /\ StatementOK
  BY DEF ClassOK
<1>2. m \in Objects
  BY <1>1, NewObject, ReadObject
<1>3. /\ m.dirty = GivenIn(v)
      /\ m.val = [c \in Columns |->
                    IF v[c] # Absent /\ Readable(Type(c), v[c])
                      THEN Converted(Type(c), v[c]) ELSE Null]
  BY <1>1, NewObject DEF Read, GivenIn
<1>4. /\ Fits(m)
      /\ new = [c \in Columns |->
                  IF c \in auto THEN <<"id", c>>
                  ELSE IF c \in m.dirty THEN m.val[c]
                  ELSE IF c \in defaulted THEN <<"default", c>> ELSE Null]
      /\ sqlForInserting(m).needSelection <=> auto # {} \/ ~(defaulted \subseteq m.dirty)
  BY <1>1, <1>2, InsertEffect
<1>5. \A c \in Columns : c \in m.dirty <=> v[c] # Absent
  BY <1>3 DEF GivenIn
<1> HIDE DEF new
<1>6. ASSUME NEW c \in Columns
      PROVE /\ c \in auto => new[c] = <<"id", c>>
            /\ c \notin auto /\ v[c] = Absent =>
                 new[c] = IF c \in defaulted THEN <<"default", c>> ELSE Null
            /\ c \notin auto /\ v[c] # Absent =>
                 new[c] = IF Readable(Type(c), v[c]) THEN Converted(Type(c), v[c])
                                                   ELSE Null
  BY <1>3, <1>4, <1>5
<1>7. ASSUME NEW c \in Columns PROVE Stable(c, new[c]) /\ new[c] \in Values
  <2>1. c \in Int
    BY <1>1, Lists
  <2>2. \A w \in {Null, <<"id", c>>, <<"default", c>>} : Stable(c, w) /\ w \in Values
    BY <2>1, PlainStored, ValueFacts DEF Stored, Stable, Tags
  <2>3. /\ Converted(Type(c), v[c]) \in Values
        /\ Readable(Type(c), v[c]) => Stable(c, Converted(Type(c), v[c]))
    BY ConvertedStored
  <2>4. CASE c \in auto
    BY <1>6, <2>2, <2>4
  <2>5. CASE c \notin auto /\ v[c] = Absent
    BY <1>6, <2>2, <2>5
  <2>6. CASE c \notin auto /\ v[c] # Absent
    BY <1>6, <2>2, <2>3, <2>6
  <2> QED
    BY <2>4, <2>5, <2>6
<1>8. new \in [Columns -> Values] /\ new # <<>>
  <2>1. primaryKey \in Columns
    BY <1>1 DEF TableOK
  <2>2. DOMAIN new = Columns /\ new = [c \in Columns |-> new[c]]
    BY <1>4
  <2> QED
    BY <1>7, <2>1, <2>2
<1>9. sqlForInserting(m).needSelection \/ (auto = {} /\ new = m.val)
  <2> SUFFICES ASSUME auto = {}, defaulted \subseteq m.dirty PROVE new = m.val
    BY <1>4
  <2>1. \A c \in Columns : new[c] = m.val[c]
    BY <1>3, <1>4, <1>5
  <2> QED
    BY <1>3, <1>4, <2>1
<1> QED
  BY <1>2, <1>4, <1>6, <1>7, <1>8, <1>9 DEF new

(* Why a row that the validator let through is refused *)
LEMMA InsertRefused ==
  ASSUME ClassOK, NEW v \in [Columns -> Values], Accepted("creator", v),
         NEW c \in Columns, Refused(c, Inserted(Read(New(Size), v, Columns))[c])
  PROVE  Excused(v)
<1> DEFINE w == Inserted(Read(New(Size), v, Columns))[c]
<1>1. /\ c \in auto => w = <<"id", c>>
      /\ c \notin auto /\ v[c] = Absent =>
           w = IF c \in defaulted THEN <<"default", c>> ELSE Null
      /\ c \notin auto /\ v[c] # Absent =>
           w = IF Readable(Type(c), v[c]) THEN Converted(Type(c), v[c]) ELSE Null
  BY InsertedRow
<1>2. (w = Null /\ NotNull(c)) \/ (w[1] = "wide" /\ Type(c) = "text")
  BY DEF Refused
<1> HIDE DEF w
<1>3. c \notin auto /\ v[c] # Absent
  <2>1. w = Null => (c \notin auto /\ c \notin defaulted) \/ v[c] # Absent
    BY <1>1 DEF Null
  <2>2. w[1] # "wide" \/ (c \notin auto /\ v[c] # Absent)
    BY <1>1 DEF Null
  <2>3. c \in auto => w # Null
    BY <1>1 DEF Null
  <2>4. c \in Required => v[c] # Absent
    BY DEF Accepted, GivenIn
  <2> QED
    BY <1>2, <2>1, <2>2, <2>3, <2>4 DEF Required
<1>4. c \in GivenIn(v) /\ ValidField(metaData_, auto, c, v[c], TRUE)
  BY <1>3 DEF GivenIn, Accepted
<1>5. /\ v[c] = Null => ~NotNull(c)
      /\ ~(v[c][1] = "wide" /\ Type(c) = "text")
  BY <1>4 DEF ValidField, NotNull, Type
<1>6. CASE Readable(Type(c), v[c])
  <2>1. w = Converted(Type(c), v[c]) /\ w # Null
    BY <1>1, <1>3, <1>6, ConvertedStored
  <2>2. w[1] = "wide" /\ Type(c) = "text" => w = v[c]
    BY <2>1 DEF Converted
  <2> QED
    BY <1>2, <1>5, <2>1, <2>2
<1>7. CASE ~Readable(Type(c), v[c])
  <2>1. w = Null
    BY <1>1, <1>3, <1>7
  <2>2. NotNull(c)
    BY <1>2, <2>1 DEF Null
  <2>3. v[c][1] = "garbled"
    BY <1>5, <1>7, <2>2 DEF Readable
  <2> QED
    BY <1>4, <2>2, <2>3 DEF Excused
<1> QED
  BY <1>6, <1>7

LEMMA InsertStep ==
  ASSUME IInv, ClassOK, Insert
  PROVE  IInv'
<1> DEFINE m == obj["creator"]
           v == sent["creator"]
           new == Inserted(m)
<1>1. TableOK
  BY DEF ClassOK
<1>2. /\ pc["creator"] = "ready" /\ "creator" \in Clients
      /\ m = Read(New(Size), v, Columns) /\ v \in [Columns -> Values]
  BY DEF Insert, Clients, IInv, Typed, CreatorReady
<1>3. /\ row = <<>>
      /\ \A k \in Clients \ {"creator"} : pc[k] = "away"
  BY <1>2 DEF IInv, Roles
<1>4. /\ m \in Objects /\ Fits(m) /\ new \in [Columns -> Values] /\ new # <<>>
      /\ \A c \in Columns :
           /\ Stable(c, new[c])
           /\ c \in auto => new[c] = <<"id", c>>
           /\ c \notin auto /\ v[c] = Absent =>
                new[c] = IF c \in defaulted THEN <<"default", c>> ELSE Null
           /\ c \notin auto /\ v[c] # Absent =>
                new[c] = IF Readable(Type(c), v[c]) THEN Converted(Type(c), v[c])
                                                  ELSE Null
      /\ sqlForInserting(m).needSelection \/ (auto = {} /\ new = m.val)
  BY <1>2, InsertedRow
<1>5. UNCHANGED <<sent, checked>>
  BY DEF Insert
<1>6. CASE \A c \in Columns : ~Refused(c, new[c])
  <2> DEFINE n == IF sqlForInserting(m).needSelection
                    THEN FromRowByIndex(new, 0) ELSE updateId(m, <<"id", primaryKey>>)
  <2>1. n \in Objects /\ n.val = new
    <3>1. FromRowByIndex(new, 0) \in Objects /\ FromRowByIndex(new, 0).val = new
      <4>1. FromRowOK /\ new \in [Columns -> Values]
        BY <1>4 DEF ClassOK
      <4> HIDE DEF new
      <4>2. /\ FromRowByIndex(new, 0) = [val |-> new, dirty |-> {}]
            /\ [val |-> new, dirty |-> {}] \in Objects
        BY <1>1, <4>1, RowObject
      <4> QED
        BY <4>2
    <3>2. auto = {} => updateId(m, <<"id", primaryKey>>) = m
      BY DEF ClassOK, ChangeOK
    <3> HIDE DEF m, new
    <3> QED
      BY <1>4, <3>1, <3>2
  <2>2. /\ row' = new /\ last' = new
        /\ obj' = [obj EXCEPT !["creator"] = n]
        /\ pc' = [pc EXCEPT !["creator"] = "done"]
    BY <1>4, <1>6 DEF Insert, Become
  <2> HIDE DEF n, new
  <2>3. Typed'
    BY <1>4, <1>5, <2>1, <2>2 DEF IInv, Typed
  <2>4. Roles'
    <3>1. pc'["creator"] = "done" /\ \A k \in Clients \ {"creator"} : pc'[k] = "away"
      BY <1>2, <1>3, <2>2 DEF IInv, Typed
    <3> QED
      BY <3>1 DEF Roles
  <2>5. CheckedAccepted'
    BY <1>5 DEF IInv, CheckedAccepted
  <2>6. CreatorReady' /\ UpdaterReady' /\ SetterReady' /\ RefusedExcused'
    BY <1>2, <1>3, <1>5, <2>2 DEF IInv, Typed, CreatorReady, UpdaterReady, SetterReady,
                                  RefusedExcused, Clients
  <2>7. RowStored'
    BY <1>4, <1>6, <2>2 DEF RowStored, Stored, Refused
  <2>8. SentValuesStay'
    BY <2>2 DEF SentValuesStay
  <2>9. InsertedAsSent'
    <3>1. obj'["creator"].val = row' /\ sent'["creator"] = v
      BY <1>2, <1>5, <2>1, <2>2 DEF IInv, Typed
    <3> HIDE DEF v
    <3>2. ASSUME NEW c \in Columns
          PROVE  row'[c] = CASE c \in auto -> <<"id", c>>
                       [] c \notin auto /\ v[c] = Absent ->
                            IF c \in defaulted THEN <<"default", c>> ELSE Null
                       [] c \notin auto /\ v[c] # Absent ->
                            IF Readable(Type(c), v[c]) THEN Converted(Type(c), v[c]) ELSE Null
      <4>1. CASE c \in auto
        BY <1>4, <2>2, <4>1
      <4>2. CASE c \notin auto /\ v[c] = Absent
        BY <1>4, <2>2, <4>2
      <4>3. CASE c \notin auto /\ v[c] # Absent
        BY <1>4, <2>2, <4>3
      <4> QED
        BY <4>1, <4>2, <4>3
    <3> QED
      BY <3>1, <3>2 DEF InsertedAsSent
  <2> QED
    BY <2>3, <2>4, <2>5, <2>6, <2>7, <2>8, <2>9 DEF IInv
<1>7. CASE ~(\A c \in Columns : ~Refused(c, new[c]))
  <2>1. /\ pc' = [pc EXCEPT !["creator"] = "refused"]
        /\ UNCHANGED <<row, last, obj>>
    BY <1>7 DEF Insert, Become
  <2>2. PICK c \in Columns : Refused(c, new[c])
    BY <1>7
  <2>3. checked["creator"] => Excused(v)
    <3>1. checked["creator"] => Accepted("creator", v)
      BY DEF IInv, CheckedAccepted
    <3> QED
      BY <1>2, <2>2, <3>1, InsertRefused
  <2> HIDE DEF new, m
  <2>4. Typed'
    BY <1>5, <2>1 DEF IInv, Typed
  <2>5. Roles'
    BY <1>3, <2>1 DEF IInv, Typed, Roles
  <2>6. CheckedAccepted'
    BY <1>5 DEF IInv, CheckedAccepted
  <2>7. CreatorReady' /\ UpdaterReady' /\ SetterReady'
    BY <1>2, <1>3, <1>5, <2>1 DEF IInv, Typed, CreatorReady, UpdaterReady, SetterReady,
                                  Clients
  <2>8. RefusedExcused'
    BY <1>2, <1>3, <1>5, <2>1, <2>3 DEF IInv, Typed, RefusedExcused, Clients
  <2>9. RowStored' /\ SentValuesStay'
    BY <1>3, <2>1 DEF RowStored, SentValuesStay
  <2>10. InsertedAsSent'
    BY <1>2, <2>1 DEF IInv, Typed, InsertedAsSent
  <2> QED
    BY <2>4, <2>5, <2>6, <2>7, <2>8, <2>9, <2>10 DEF IInv
<1> QED
  BY <1>6, <1>7

(* Why an update that the validator let through is refused *)
LEMMA UpdateRefused ==
  ASSUME ClassOK, NEW m \in Objects, NEW v \in [Columns -> Values],
         Took(m, v), Accepted("editor", v),
         \/ m.val[primaryKey] = Null
         \/ m.dirty \ auto = {}
         \/ \E c \in m.dirty \ auto : Refused(c, m.val[c])
  PROVE  Excused(v)
<1>1. /\ primaryKey \in Columns /\ NotNull(primaryKey) /\ Type(primaryKey) # "time"
      /\ auto \in {{}, {primaryKey}}
  BY DEF ClassOK, TableOK
<1>2. primaryKey \in GivenIn(v)
  BY DEF Accepted
<1>3. ASSUME NEW c \in GivenIn(v)
      PROVE  /\ v[c] = Null => ~NotNull(c)
             /\ ~(v[c][1] = "wide" /\ Type(c) = "text")
  BY DEF Accepted, ValidField, NotNull, Type
<1>4. CASE m.val[primaryKey] = Null
  <2>1. v[primaryKey] # Null
    BY <1>1, <1>2, <1>3
  <2>2. Readable(Type(primaryKey), v[primaryKey])
    BY <1>1, <2>1 DEF Readable
  <2>3. m.val[primaryKey] = Converted(Type(primaryKey), v[primaryKey])
    BY <1>2, <2>2 DEF Took
  <2> QED
    BY <1>1, <1>4, <2>2, <2>3, ConvertedStored
<1>5. CASE m.dirty \ auto = {}
  <2>1. GivenIn(v) \subseteq {primaryKey}
    BY <1>1, <1>5 DEF Took
  <2> QED
    BY <1>2, <2>1 DEF Excused
<1>6. CASE \E c \in m.dirty \ auto : Refused(c, m.val[c])
  <2>1. PICK c \in GivenIn(v) : Refused(c, m.val[c])
    BY <1>6 DEF Took
  <2>2. c \in Columns
    BY DEF GivenIn
  <2>3. CASE Readable(Type(c), v[c])
    <3>1. m.val[c] = Converted(Type(c), v[c]) /\ m.val[c] # Null
      BY <2>2, <2>3, ConvertedStored DEF Took
    <3>2. m.val[c][1] = "wide" /\ Type(c) = "text" => m.val[c] = v[c]
      BY <3>1 DEF Converted
    <3> QED
      BY <1>3, <2>1, <3>1, <3>2 DEF Refused
  <2>4. CASE ~Readable(Type(c), v[c])
    <3>1. Stored(c, m.val[c])
      BY <2>4 DEF Took
    <3>2. NotNull(c)
      BY <2>1, <3>1 DEF Refused, Stored
    <3>3. v[c][1] = "garbled"
      BY <1>3, <2>4, <3>2 DEF Readable
    <3> QED
      BY <3>2, <3>3 DEF Excused
  <2> QED
    BY <2>3, <2>4
<1> QED
  BY <1>4, <1>5, <1>6

(* The row after an update of the row it was meant for: what was given is  *)
(* as in the object, the rest as it was, but for the time of the update    *)
LEMMA UpdatedRow ==
  ASSUME ClassOK, NEW m \in Objects, NEW v \in [Columns -> Values], Took(m, v),
         NEW r \in [Columns -> Values], \A c \in Columns : Stored(c, r[c]),
         m.val[primaryKey] = r[primaryKey],
         \A c \in m.dirty \ auto : ~Refused(c, m.val[c])
  PROVE  LET new == Updated(m, r)
         IN /\ new \in [Columns -> Values] /\ new # <<>>
            /\ \A c \in Columns :
                 /\ Stored(c, new[c])
                 /\ v[c] = Absent =>
                      new[c] = r[c] \/ (c \in onUpdate /\ new[c] = <<"now", c>>)
                 /\ v[c] # Absent => new[c] = m.val[c]
<1> DEFINE new == Updated(m, r)
           D == m.dirty \ auto
<1>1. /\ TableOK /\ StatementOK /\ primaryKey \in Columns /\ auto \in {{}, {primaryKey}}
      /\ onUpdate \subseteq Columns \ {primaryKey}
  BY DEF ClassOK, TableOK
<1>2. /\ new = [c \in Columns |-> new[c]]
      /\ \A c \in Columns :
           \/ new[c] = IF c \in D THEN m.val[c] ELSE r[c]
           \/ c \in onUpdate /\ c \notin D /\ new[c] = <<"now", c>>
  <2>1. new = [c \in Columns |->
                 IF c \in onUpdate /\ c \notin D /\ Written(m, D, r) # r
                   THEN <<"now", c>> ELSE Written(m, D, r)[c]]
    BY <1>1, UpdateEffect
  <2>2. \A c \in Columns : Written(m, D, r)[c] = IF c \in D THEN m.val[c] ELSE r[c]
    BY DEF Written
  <2> HIDE DEF new, D
  <2> QED
    BY <2>1, <2>2
<1> HIDE DEF new
<1>3. ASSUME NEW c \in Columns PROVE Stored(c, new[c]) /\ new[c] \in Values
  <2>1. c \in Int /\ m.val[c] \in Values /\ r[c] \in Values
    BY <1>1, Lists DEF Objects
  <2>2. CASE c \in D /\ new[c] = m.val[c]
    BY <2>1, <2>2 DEF Took, Stored, Refused
  <2>3. CASE new[c] = r[c]
    BY <2>1, <2>3
  <2>4. CASE new[c] = <<"now", c>>
    BY <2>1, <2>4, PlainStored, ValueFacts DEF Tags
  <2> QED
    BY <1>2, <2>2, <2>3, <2>4
<1>4. new \in [Columns -> Values] /\ new # <<>>
  <2>1. new \in [Columns -> Values]
    BY <1>2, <1>3
  <2> QED
    BY <1>1, <2>1
<1>5. ASSUME NEW c \in Columns, v[c] = Absent
      PROVE  new[c] = r[c] \/ (c \in onUpdate /\ new[c] = <<"now", c>>)
  <2>1. c \notin D
    BY <1>5 DEF Took, GivenIn
  <2> QED
    BY <1>2, <2>1
<1>6. ASSUME NEW c \in Columns, v[c] # Absent PROVE new[c] = m.val[c]
  <2>1. CASE c = primaryKey
    BY <1>1, <1>2, <2>1
  <2>2. CASE c # primaryKey
    <3>1. c \in D
      BY <1>1, <1>6, <2>2 DEF Took, GivenIn
    <3> QED
      BY <1>2, <3>1
  <2> QED
    BY <2>1, <2>2
<1> QED
  BY <1>3, <1>4, <1>5, <1>6 DEF new

LEMMA UpdateStep ==
  ASSUME IInv, ClassOK, NEW k \in Clients, Update(k)
  PROVE  IInv'
<1> DEFINE m == obj[k]
           v == sent[k]
           D == m.dirty \ auto
           cols == updateColumns(m)
           args == updateArgs(m)
           new == Updated(m, row)
           Meant(c) == IF v[c] = Absent \/ (v[c][1] = "garbled" /\ Type(c) = "time")
                         THEN last[c] ELSE Converted(Type(c), v[c])
<1>1. k \in {"editor", "setter"} /\ pc[k] = "ready" /\ UNCHANGED <<obj, sent, checked>>
  BY DEF Update, Clients
<1>2. /\ m \in Objects /\ v \in [Columns -> Values] /\ Took(m, v)
      /\ pc["creator"] = "away" /\ row # <<>> /\ row \in [Columns -> Values]
      /\ last \in [Columns -> Values] /\ \A c \in Columns : Stored(c, row[c])
      /\ k = "setter" => SetTo(m, v)
  BY <1>1 DEF IInv, Typed, Roles, UpdaterReady, SetterReady, RowStored
<1>3. /\ cols = <<>> <=> D = {}
      /\ Len(args) = Len(cols)
      /\ \A i \in DOMAIN cols : cols[i] \in D /\ args[i] = m.val[cols[i]]
      /\ \A c \in D : \E i \in DOMAIN cols : cols[i] = c
  BY <1>2, UpdateEffect DEF ClassOK
<1>4. /\ CheckedAccepted'
      /\ CreatorReady' \/ pc'["creator"] = "ready"
  BY <1>1 DEF IInv, CheckedAccepted, CreatorReady
<1>5. "creator" \in Clients
  BY DEF Clients
<1> DEFINE bad == \/ m.val[primaryKey] = Null \/ cols = <<>> \/ Len(args) # Len(cols)
                  \/ \E i \in DOMAIN cols : Refused(cols[i], args[i])
<1>6. bad <=> \/ m.val[primaryKey] = Null \/ D = {}
              \/ \E c \in D : Refused(c, m.val[c])
  BY <1>3
<1>7. \/ /\ bad /\ pc' = [pc EXCEPT ![k] = "refused"] /\ UNCHANGED <<row, last>>
      \/ /\ ~bad /\ pc' = [pc EXCEPT ![k] = "done"]
         /\ \/ /\ m.val[primaryKey] = row[primaryKey]
               /\ row' = new
               /\ last' = [c \in Columns |-> Meant(c)]
            \/ UNCHANGED <<row, last>>
  BY DEF Update, Become
<1> HIDE DEF m, v, D, cols, args, new, bad
<1>8. \A c \in Columns : Meant(c) \in Values
  BY <1>2, ConvertedStored
<1>9. /\ pc' \in [Clients -> {"idle", "ready", "done", "refused", "away"}]
      /\ pc'["creator"] = "away" /\ pc'[k] \in {"refused", "done"}
      /\ \A u \in Clients \ {k} : pc'[u] = pc[u]
      /\ pc'[k] = "refused" => bad
  BY <1>1, <1>2, <1>5, <1>7 DEF IInv, Typed
<1>10. CreatorReady' /\ UpdaterReady' /\ InsertedAsSent'
  BY <1>1, <1>4, <1>9 DEF IInv, CreatorReady, UpdaterReady, InsertedAsSent
<1>11. SetterReady'
  BY <1>1, <1>9 DEF IInv, SetterReady, Clients
<1>12. RefusedExcused'
  <2>1. ASSUME k = "editor", checked["editor"], bad PROVE Excused(sent["editor"])
    <3>1. Accepted("editor", v) /\ v = sent["editor"]
      BY <2>1 DEF IInv, CheckedAccepted, v
    <3> QED
      BY <1>2, <1>6, <2>1, <3>1, UpdateRefused DEF D
  <2> QED
    BY <1>1, <1>9, <2>1 DEF IInv, RefusedExcused, Clients
<1>13. CASE UNCHANGED <<row, last>>
  <2>1. Typed'
    BY <1>1, <1>9, <1>13 DEF IInv, Typed
  <2>2. Roles' /\ RowStored'
    BY <1>2, <1>9, <1>13 DEF IInv, Roles, RowStored
  <2>3. SentValuesStay'
    BY <1>1, <1>9, <1>13, NothingWritten DEF IInv
  <2> QED
    BY <1>4, <1>10, <1>12, <1>11, <2>1, <2>2, <2>3 DEF IInv
<1>14. CASE /\ ~bad /\ pc' = [pc EXCEPT ![k] = "done"]
            /\ m.val[primaryKey] = row[primaryKey]
            /\ row' = new /\ last' = [c \in Columns |-> Meant(c)]
  <2>1. /\ new \in [Columns -> Values] /\ new # <<>>
        /\ \A c \in Columns :
             /\ Stored(c, new[c])
             /\ v[c] = Absent =>
                  new[c] = row[c] \/ (c \in onUpdate /\ new[c] = <<"now", c>>)
             /\ v[c] # Absent => new[c] = m.val[c]
    BY <1>2, <1>6, <1>14, UpdatedRow DEF D, new
  <2>2. last' \in [Columns -> Values]
    BY <1>8, <1>14
  <2>3. Typed'
    BY <1>1, <1>9, <1>14, <2>1, <2>2 DEF IInv, Typed
  <2>4. Roles' /\ RowStored'
    BY <1>9, <1>14, <2>1 DEF Roles, RowStored
  <2>5. pc'[k] = "done" /\ sent' = sent /\ obj' = obj /\ v = sent[k] /\ m = obj[k]
    BY <1>1, <1>9, <1>14 DEF IInv, Typed, v, m
  <2>6. ASSUME NEW c \in Columns
        PROVE  \/ new[c] = Meant(c)
               \/ /\ c \in onUpdate /\ new[c] = <<"now", c>>
                  /\ \E u \in Clients : pc'[u] = "done" /\ sent[u][c] = Absent
               \/ pc'["editor"] = "done" /\ Unread(c) /\ new[c] = obj["editor"].val[c]
    <3>1. CASE v[c] = Absent /\ new[c] = row[c]
      <4>1. \A u \in Clients : pc[u] = "done" => pc'[u] = "done"
        BY <1>1, <1>9
      <4>2. "editor" \in Clients
        BY DEF Clients
      <4>3. \/ row[c] = last[c]
            \/ /\ c \in onUpdate /\ row[c] = <<"now", c>>
               /\ \E u \in Clients : pc[u] = "done" /\ sent[u][c] = Absent
            \/ pc["editor"] = "done" /\ Unread(c) /\ row[c] = obj["editor"].val[c]
        BY <1>2 DEF IInv, SentValuesStay
      <4> QED
        BY <3>1, <4>1, <4>2, <4>3
    <3>2. CASE v[c] = Absent /\ c \in onUpdate /\ new[c] = <<"now", c>>
      BY <2>5, <3>2
    <3>3. CASE v[c] # Absent /\ Readable(Type(c), v[c])
      <4>1. m.val[c] = Converted(Type(c), v[c])
        BY <1>2, <3>3 DEF Took, GivenIn
      <4> QED
        BY <2>1, <3>3, <4>1 DEF Readable
    <3>4. CASE v[c] # Absent /\ ~Readable(Type(c), v[c]) /\ k = "editor"
      BY <2>1, <2>5, <3>4 DEF Unread
    <3>5. CASE v[c] # Absent /\ ~Readable(Type(c), v[c]) /\ k = "setter"
      <4>1. v[c] \in {Null, <<"set", c>>} /\ m.val[c] = v[c]
        BY <1>2, <3>5 DEF SetTo, GivenIn
      <4>2. v[c] = Null
        BY <3>5, <4>1 DEF Readable
      <4>3. Meant(c) = Null
        BY <3>5, <4>2 DEF Null, Converted
      <4> QED
        BY <2>1, <3>5, <4>1, <4>2, <4>3
    <3> QED
      BY <1>1, <2>1, <3>1, <3>2, <3>3, <3>4, <3>5
  <2>7. SentValuesStay'
    <3>1. \A c \in Columns : last'[c] = Meant(c) /\ row'[c] = new[c] /\ (Unread(c)' <=> Unread(c))
      BY <1>14, <2>5 DEF Unread
    <3> QED
      BY <2>5, <2>6, <3>1 DEF SentValuesStay
  <2> QED
    BY <1>4, <1>10, <1>12, <1>11, <2>3, <2>4, <2>7 DEF IInv
<1> QED
  BY <1>7, <1>13, <1>14

(* A step of the class, or of nothing, keeps the invariant *)
LEMMA NextInv ==
  ASSUME IInv, ClassOK, Next \/ UNCHANGED tvars
  PROVE  IInv'
<1>1. CASE UNCHANGED tvars
  BY <1>1 DEF tvars, IInv, Typed, Roles, CheckedAccepted, CreatorReady, UpdaterReady,
              SetterReady, RowStored, RefusedExcused, SentValuesStay, Unread,
              InsertedAsSent
<1>2. ASSUME NEW s \in CreationInputs, Create(s) PROVE IInv'
  BY <1>2, CreateStep
<1>3. ASSUME NEW s \in AliasedInputs, NEW pv \in CreationVectors \cup BadVectors,
             CreateMasqueraded(s, pv)
      PROVE  IInv'
  BY <1>3, CreateMasqueradedStep
<1>4. CASE Insert
  BY <1>4, InsertStep
<1>5. ASSUME NEW s \in EditInputs, Replace(s) PROVE IInv'
  BY <1>5, ReplaceStep
<1>6. ASSUME NEW s \in EditInputs, Edit(s) PROVE IInv'
  BY <1>6, EditStep
<1>7. ASSUME NEW s \in EditInputs, NEW pv \in Vectors, EditMasqueraded(s, pv) PROVE IInv'
  BY <1>7, EditMasqueradedStep
<1>8. ASSUME NEW c \in Columns, NEW v \in {Null, <<"set", c>>}, SetColumn(c, v) PROVE IInv'
  BY <1>8, SetStep
<1>9. ASSUME NEW k \in Clients, Update(k) PROVE IInv'
  BY <1>9, UpdateStep
<1> QED
  BY <1>1, <1>2, <1>3, <1>4, <1>5, <1>6, <1>7, <1>8, <1>9 DEF Next

-----------------------------------------------------------------------------
(* What the invariant says *)

LEMMA InvTypeOK ==
  ASSUME IInv
  PROVE  TypeOK
BY DEF IInv, Typed, TypeOK, Objects

LEMMA InvValidated ==
  ASSUME IInv, ClassOK
  PROVE  ValidatedIsStored
<1> SUFFICES ASSUME NEW k \in {"creator", "editor"}, checked[k]
             PROVE  /\ pc[k] = "ready" =>
                         \A c \in GivenIn(sent[k]) : NotNull(c) /\ Type(c) # "time" =>
                           obj[k].val[c] = Converted(Type(c), sent[k][c])
                    /\ pc[k] = "done" /\ k = "creator" =>
                         \A c \in GivenIn(sent[k]) : Readable(Type(c), sent[k][c]) =>
                           row[c] = Converted(Type(c), sent[k][c])
                    /\ pc[k] = "refused" => Excused(sent[k])
  BY DEF ValidatedIsStored, GivenIn, Excused
<1>1. Accepted(k, sent[k])
  BY DEF IInv, CheckedAccepted
<1>2. ASSUME NEW c \in GivenIn(sent[k])
      PROVE  /\ c \in Columns /\ sent[k][c] # Absent
             /\ sent[k][c] = Null => ~NotNull(c)
             /\ ~(c \in auto /\ k = "creator")
  BY <1>1 DEF Accepted, ValidField, NotNull, GivenIn
<1>3. pc[k] = "refused" => Excused(sent[k])
  BY DEF IInv, RefusedExcused
<1>4. ASSUME pc[k] = "done", k = "creator", NEW c \in GivenIn(sent[k]),
             Readable(Type(c), sent[k][c])
      PROVE  row[c] = Converted(Type(c), sent[k][c])
  BY <1>2, <1>4 DEF IInv, InsertedAsSent
<1>5. ASSUME pc[k] = "ready", NEW c \in GivenIn(sent[k]), NotNull(c), Type(c) # "time"
      PROVE  obj[k].val[c] = Converted(Type(c), sent[k][c])
  <2>1. Readable(Type(c), sent[k][c])
    BY <1>2, <1>5 DEF Readable
  <2>2. CASE k = "creator"
    BY <1>2, <1>5, <2>1, <2>2 DEF IInv, CreatorReady, Read
  <2>3. CASE k = "editor"
    <3>1. Took(obj[k], sent[k])
      BY <1>5, <2>3 DEF IInv, UpdaterReady, Clients
    <3> QED
      BY <1>5, <2>1, <3>1 DEF Took
  <2> QED
    BY <2>2, <2>3
<1> QED
  BY <1>3, <1>4, <1>5

(* JSON of an object, read again *)
LEMMA WrittenRead ==
  ASSUME TableOK, NEW r \in [Columns -> Values], \A c \in Columns : Stored(c, r[c]),
         NEW keys \in AllVectors, NEW c \in Columns, keys[c] # "",
         Printed(Type(c), r[c]) = r[c]
  PROVE  LET m == [val |-> r, dirty |-> {}]
             j == WriteJson(metaData_, m, keys)
         IN ReadJson(metaData_, New(Size), j, keys, Columns).val[c] = r[c]
<1> DEFINE m == [val |-> r, dirty |-> {}]
           j == WriteJson(metaData_, m, keys)
           kept == {d \in DOMAIN keys : keys[d] # ""}
<1>1. /\ DOMAIN keys = Columns
      /\ \A d, e \in Columns : keys[d] = keys[e] /\ keys[d] # "" => d = e
  BY DEF AllVectors
<1>2. j = [k \in {keys[d] : d \in kept} |->
             Printed(metaData_[CHOOSE d \in kept : keys[d] = k].type,
                     m.val[CHOOSE d \in kept : keys[d] = k])]
  BY DEF WriteJson
<1>3. keys[c] \in DOMAIN j /\ j[keys[c]] = r[c]
  <2>1. c \in kept /\ (CHOOSE d \in kept : keys[d] = keys[c]) = c
    BY <1>1
  <2> HIDE DEF kept, j
  <2> QED
    BY <1>2, <2>1 DEF Type
<1> HIDE DEF j
<1>4. c \in Given(j, keys)
  BY <1>1, <1>3 DEF Given
<1>5. DOMAIN New(Size).val = Columns /\ New(Size).val[c] = Null
  BY NewObject DEF Objects
<1>6. ReadJson(metaData_, New(Size), j, keys, Columns).val[c] =
        IF Readable(Type(c), r[c]) THEN Converted(Type(c), r[c]) ELSE Null
  BY <1>3, <1>4, <1>5 DEF ReadJson, Type
<1>7. Stable(c, r[c])
  BY DEF Stored
<1>8. r[c] = Null => ~Readable(Type(c), r[c])
  BY DEF Readable
<1> QED
  BY <1>6, <1>7, <1>8 DEF Stable, j

LEMMA InvRoundTrip ==
  ASSUME IInv, ClassOK
  PROVE  RoundTrip
<1> SUFFICES ASSUME row # <<>>
             PROVE  LET m == FromRowByIndex(row, 0)
                        Same(n, cols) ==
                          \A c \in cols : Printed(Type(c), row[c]) = row[c] => n.val[c] = m.val[c]
                    IN /\ FromRowByName(ByName(row)) = m
                       /\ FromRowByIndex(<<Null>> \o row, 1) = m
                       /\ Same(FromJson(toJson(m)), Columns)
                       /\ \A pv \in Vectors :
                            Same(FromMasqueradedJson(toMasqueradedJson(m, pv), pv),
                                 {c \in Columns : pv[c] # ""})
                       /\ \A pv \in BadVectors : toMasqueradedJson(m, pv) = toJson(m)
  BY DEF RoundTrip
<1> DEFINE m == [val |-> row, dirty |-> {}]
<1>1. TableOK /\ FromRowOK /\ FromJsonOK
  BY DEF ClassOK
<1>2. row \in [Columns -> Values] /\ \A c \in Columns : Stored(c, row[c])
  BY DEF IInv, Typed, RowStored
<1>3. /\ FromRowByIndex(row, 0) = m
      /\ FromRowByIndex(<<Null>> \o row, 1) = m
      /\ FromRowByName(ByName(row)) = m
  BY <1>1, <1>2, RowObject
<1>4. ASSUME NEW c \in Columns, Printed(Type(c), row[c]) = row[c]
      PROVE  FromJson(toJson(m)).val[c] = row[c]
  <2>1. Names \in AllVectors /\ Names[c] # ""
    BY <1>1, NamesVector
  <2>2. ReadJson(metaData_, New(Size), WriteJson(metaData_, m, Names), Names, Columns).val[c]
          = row[c]
    BY <1>1, <1>2, <1>4, <2>1, WrittenRead
  <2> QED
    BY <1>1, <2>2 DEF FromJsonOK
<1>5. ASSUME NEW pv \in Vectors, NEW c \in Columns, pv[c] # "",
             Printed(Type(c), row[c]) = row[c]
      PROVE  FromMasqueradedJson(toMasqueradedJson(m, pv), pv).val[c] = row[c]
  <2>1. pv \in AllVectors /\ Len(pv) = Size
    BY <1>1, VectorsFit, VectorLen
  <2>2. ReadJson(metaData_, New(Size), WriteJson(metaData_, m, pv), pv, Columns).val[c] = row[c]
    BY <1>1, <1>2, <1>5, <2>1, WrittenRead
  <2> QED
    BY <1>1, <2>1, <2>2 DEF FromJsonOK
<1>6. \A pv \in BadVectors : toMasqueradedJson(m, pv) = toJson(m)
  BY <1>1, VectorsFit DEF FromJsonOK
<1>7. m.val = row
  OBVIOUS
<1> HIDE DEF m
<1>8. \A c \in Columns : Printed(Type(c), row[c]) = row[c] =>
        FromJson(toJson(m)).val[c] = m.val[c]
  BY <1>4, <1>7
<1>9. \A pv \in Vectors : \A c \in {d \in Columns : pv[d] # ""} :
        Printed(Type(c), row[c]) = row[c] =>
          FromMasqueradedJson(toMasqueradedJson(m, pv), pv).val[c] = m.val[c]
  BY <1>5, <1>7
<1> QED
  BY <1>3, <1>6, <1>8, <1>9
=============================================================================
