------------------------------ MODULE OrmProofs ------------------------------
(***************************************************************************)
(* The twelve generated classes satisfy ClassOK (see OrmTableProofs), and  *)
(* so the properties of Orm hold for every JSON, every vector of column    *)
(* names or aliases and every set of aliases.                              *)
(*                                                                         *)
(* A lemma TbXOK compares what the class writes out, column by column,     *)
(* with what its table amounts to: <1>1 to <1>7 are about the table,       *)
(* <1>8 to <1>13 about the functions.  The operators of OrmModel reach a   *)
(* class twice, by its own EXTENDS and through OrmTable; each function     *)
(* first identifies the two.                                               *)
(***************************************************************************)
EXTENDS Orm, Sequences, TLAPS

-----------------------------------------------------------------------------
(* models/TbBlog.cc of the hmdp back end: the lists of columns of its functions *)
(* are those of its table *)
LEMMA TbBlogOK == Blog!Table!ClassOK
<1> DEFINE N == [c \in 1 .. 10 |-> Blog!metaData_[c].name]
<1>1. /\ Blog!Table!Size = 10 /\ Blog!Table!Columns = 1 .. 10
      /\ Blog!primaryKey = 1 /\ Blog!auto = {1}
      /\ Blog!defaulted = {7, 9, 10} /\ Blog!onUpdate = {10}
  BY DEF Blog!Table!Size, Blog!Table!Columns, Blog!metaData_, Blog!primaryKey,
         Blog!auto, Blog!defaulted, Blog!onUpdate
<1>2. /\ Blog!Names = Blog!Table!Names
      /\ \A c \in 1 .. 10 : Blog!Table!Names[c] = Blog!metaData_[c].name
  BY <1>1 DEF Blog!Names, Blog!Table!Names, Blog!Table!Columns
<1>3. /\ N[1] = "id" /\ N[2] = "shop_id" /\ N[3] = "user_id" /\ N[4] = "title"
      /\ N[5] = "images" /\ N[6] = "content" /\ N[7] = "liked" /\ N[8] = "comments"
      /\ N[9] = "create_time" /\ N[10] = "update_time"
  BY DEF Blog!metaData_, Blog!Column
<1> HIDE DEF N
<1>4. \A c, d \in 1 .. 10 : N[c] = N[d] => c = d
  <2> SUFFICES ASSUME NEW c \in 1 .. 10, NEW d \in 1 .. 10, c # d PROVE N[c] # N[d]
    OBVIOUS
  <2> QED
    BY <1>3
<1>5. \A c \in 1 .. 10 : N[c] # ""
  <2>1. \A c \in 1 .. 10 :
          N[c] \in {"id", "shop_id", "user_id", "title", "images", "content",
                   "liked", "comments", "create_time", "update_time"}
    BY <1>3
  <2>2. \A x \in
          {"id", "shop_id", "user_id", "title", "images", "content", "liked",
           "comments", "create_time", "update_time"} :
          x # ""
    BY Zenon
  <2> QED
    BY <2>1, <2>2, Zenon
<1>6. Blog!Table!Required = {2, 3, 4, 5, 6}
  <2>1. \A c \in 1 .. 10 :
          Blog!metaData_[c].notNull <=> c \in {1, 2, 3, 4, 5, 6, 9, 10}
    BY DEF Blog!metaData_, Blog!Column
  <2> QED
    BY <1>1, <2>1 DEF Blog!Table!Required, Blog!Table!NotNull
<1>7. Blog!Table!TableOK
  <2>1. Blog!Table!NotNull(1) /\ Blog!Table!Type(1) # "time"
    BY DEF Blog!Table!NotNull, Blog!Table!Type, Blog!metaData_, Blog!Column
  <2>2. {7, 9, 10} \cup {10} \subseteq (1 .. 10) \ {1}
    OBVIOUS
  <2>3. 10 \notin {2, 3, 4, 5, 6} /\ 10 \in Nat \ {0} /\ 1 \in 1 .. 10
    OBVIOUS
  <2>4. {1} \in {{}, {1}}
    OBVIOUS
  <2> QED
    BY <1>1, <1>4, <1>5, <1>6, <2>1, <2>2, <2>3, <2>4, Zenon DEF Blog!Table!TableOK, N
<1>8. Blog!Table!FromRowOK
  <2>1. /\ \A r : Blog!ReadRow(r) = Blog!Table!ReadRow(r)
        /\ Blog!New(10) = Blog!Table!New(10)
    BY DEF Blog!ReadRow, Blog!Table!ReadRow, Blog!New, Blog!Table!New, Blog!Null,
           Blog!Table!Null
  <2> QED
    BY <1>1, <1>2, <2>1
    DEF Blog!Table!FromRowOK, Blog!FromRowByName, Blog!FromRowByIndex
<1>9. \A m, j, keys, marked :
        Blog!ReadJson(Blog!metaData_, m, j, keys, marked) =
          Blog!Table!ReadJson(Blog!metaData_, m, j, keys, marked)
  BY DEF Blog!ReadJson, Blog!Table!ReadJson, Blog!Given, Blog!Table!Given,
         Blog!Readable, Blog!Table!Readable, Blog!Converted, Blog!Table!Converted,
         Blog!Null, Blog!Table!Null
<1>10. Blog!Table!FromJsonOK
  <2>1. Blog!New(10) = Blog!Table!New(10)
    BY DEF Blog!New, Blog!Table!New, Blog!Null, Blog!Table!Null
  <2>2. \A m, keys : Blog!WriteJson(Blog!metaData_, m, keys) =
                     Blog!Table!WriteJson(Blog!metaData_, m, keys)
    BY DEF Blog!WriteJson, Blog!Table!WriteJson, Blog!Printed, Blog!Table!Printed
  <2> QED
    BY <1>1, <1>2, <1>9, <2>1, <2>2
    DEF Blog!Table!FromJsonOK, Blog!FromJson, Blog!FromMasqueradedJson, Blog!toJson,
        Blog!toMasqueradedJson
<1>11. Blog!Table!ChangeOK
  <2>1. 2 .. 10 = Blog!Table!Columns \ {Blog!primaryKey}
    BY <1>1
  <2>2. \A m, c, v : Blog!Assigned(m, c, v) = Blog!Table!Assigned(m, c, v)
    BY DEF Blog!Assigned, Blog!Table!Assigned
  <2> QED
    BY <1>1, <1>2, <1>9, <2>1, <2>2
    DEF Blog!Table!ChangeOK, Blog!updateByJson, Blog!updateByMasqueradedJson,
        Blog!Set, Blog!updateId
<1>12. Blog!Table!StatementOK
  <2>1. Blog!Table!All = <<1, 2, 3, 4, 5, 6, 7, 8, 9, 10>>
    BY <1>1 DEF Blog!Table!All
  <2>2. Blog!Table!Bindable = <<2, 3, 4, 5, 6, 7, 8, 9, 10>>
    BY <1>1, <2>1 DEF Blog!Table!Bindable
  <2>3. \A cols, S : Blog!Kept(cols, S) = Blog!Table!Kept(cols, S)
    BY DEF Blog!Kept, Blog!Table!Kept, Blog!Cardinality, Blog!Table!Cardinality,
           Blog!IsFiniteSet, Blog!Table!IsFiniteSet
  <2>4. \A m, cols : Blog!Dirty(m, cols) = Blog!Table!Dirty(m, cols)
    BY <2>3 DEF Blog!Dirty, Blog!Table!Dirty
  <2>5. \A m, cols : Blog!Bound(m, cols) = Blog!Table!Bound(m, cols)
    BY <2>4 DEF Blog!Bound, Blog!Table!Bound
  <2>6. \A m, cols, a, d :
          Blog!InsertSql(m, cols, a, d) = Blog!Table!InsertSql(m, cols, a, d)
    BY <2>3 DEF Blog!InsertSql, Blog!Table!InsertSql
  <2> QED
    BY <2>1, <2>2, <2>4, <2>5, <2>6
    DEF Blog!Table!StatementOK, Blog!outputArgs, Blog!updateColumns, Blog!updateArgs,
        Blog!sqlForInserting
<1>13. Blog!Table!ValidatorOK
  <2>1. \A j, keys : Blog!Given(j, keys) = Blog!Table!Given(j, keys)
    BY DEF Blog!Given, Blog!Table!Given
  <2>2. \A c, v, b :
          Blog!validJsonOfField(c, v, b) =
            Blog!Table!ValidField(Blog!metaData_, Blog!auto, c, v, b)
    BY DEF Blog!validJsonOfField, Blog!ValidField, Blog!Table!ValidField, Blog!Null,
           Blog!Table!Null
  <2>3. \A v, r : Blog!Validated(v, r) = Blog!Table!Validated(v, r)
    BY DEF Blog!Validated, Blog!Table!Validated
  <2>4. \A j, keys, b :
          Blog!Table!Checks(j, keys, b) =
            [c \in Blog!Given(j, keys) |->
               Blog!validJsonOfField(c, j[keys[c]], b)]
    BY <2>1, <2>2 DEF Blog!Table!Checks
  <2> QED
    BY <1>1, <1>2, <1>6, <2>3, <2>4, Zenon
    DEF Blog!Table!ValidatorOK, Blog!validateJsonForCreation,
        Blog!validateMasqueradedJsonForCreation, Blog!validateJsonForUpdate,
        Blog!validateMasqueradedJsonForUpdate
<1> QED
  BY <1>7, <1>8, <1>10, <1>11, <1>12, <1>13 DEF Blog!Table!ClassOK

(* models/TbBlogComments.cc of the hmdp back end: the lists of columns of its functions *)
(* are those of its table *)
LEMMA TbBlogCommentsOK == BlogComments!Table!ClassOK
<1> DEFINE N == [c \in 1 .. 10 |-> BlogComments!metaData_[c].name]
<1>1. /\ BlogComments!Table!Size = 10 /\ BlogComments!Table!Columns = 1 .. 10
      /\ BlogComments!primaryKey = 1 /\ BlogComments!auto = {1}
      /\ BlogComments!defaulted = {9, 10} /\ BlogComments!onUpdate = {10}
  BY DEF BlogComments!Table!Size, BlogComments!Table!Columns, BlogComments!metaData_,
         BlogComments!primaryKey, BlogComments!auto, BlogComments!defaulted,
         BlogComments!onUpdate
<1>2. /\ BlogComments!Names = BlogComments!Table!Names
      /\ \A c \in 1 .. 10 : BlogComments!Table!Names[c] = BlogComments!metaData_[c].name
  BY <1>1 DEF BlogComments!Names, BlogComments!Table!Names, BlogComments!Table!Columns
<1>3. /\ N[1] = "id" /\ N[2] = "user_id" /\ N[3] = "blog_id" /\ N[4] = "parent_id"
      /\ N[5] = "answer_id" /\ N[6] = "content" /\ N[7] = "liked" /\ N[8] = "status"
      /\ N[9] = "create_time" /\ N[10] = "update_time"
  BY DEF BlogComments!metaData_, BlogComments!Column
<1> HIDE DEF N
<1>4. \A c, d \in 1 .. 10 : N[c] = N[d] => c = d
  <2> SUFFICES ASSUME NEW c \in 1 .. 10, NEW d \in 1 .. 10, c # d PROVE N[c] # N[d]
    OBVIOUS
  <2> QED
    BY <1>3
<1>5. \A c \in 1 .. 10 : N[c] # ""
  <2>1. \A c \in 1 .. 10 :
          N[c] \in {"id", "user_id", "blog_id", "parent_id", "answer_id", "content",
                   "liked", "status", "create_time", "update_time"}
    BY <1>3
  <2>2. \A x \in
          {"id", "user_id", "blog_id", "parent_id", "answer_id", "content", "liked",
           "status", "create_time", "update_time"} :
          x # ""
    BY Zenon
  <2> QED
    BY <2>1, <2>2, Zenon
<1>6. BlogComments!Table!Required = {2, 3, 4, 5, 6}
  <2>1. \A c \in 1 .. 10 :
          BlogComments!metaData_[c].notNull <=> c \in {1, 2, 3, 4, 5, 6, 9, 10}
    BY DEF BlogComments!metaData_, BlogComments!Column
  <2> QED
    BY <1>1, <2>1 DEF BlogComments!Table!Required, BlogComments!Table!NotNull
<1>7. BlogComments!Table!TableOK
  <2>1. BlogComments!Table!NotNull(1) /\ BlogComments!Table!Type(1) # "time"
    BY DEF BlogComments!Table!NotNull, BlogComments!Table!Type,
           BlogComments!metaData_, BlogComments!Column
  <2>2. {9, 10} \cup {10} \subseteq (1 .. 10) \ {1}
    OBVIOUS
  <2>3. 10 \notin {2, 3, 4, 5, 6} /\ 10 \in Nat \ {0} /\ 1 \in 1 .. 10
    OBVIOUS
  <2>4. {1} \in {{}, {1}}
    OBVIOUS
  <2> QED
    BY <1>1, <1>4, <1>5, <1>6, <2>1, <2>2, <2>3, <2>4, Zenon DEF BlogComments!Table!TableOK, N
<1>8. BlogComments!Table!FromRowOK
  <2>1. /\ \A r : BlogComments!ReadRow(r) = BlogComments!Table!ReadRow(r)
        /\ BlogComments!New(10) = BlogComments!Table!New(10)
    BY DEF BlogComments!ReadRow, BlogComments!Table!ReadRow, BlogComments!New,
           BlogComments!Table!New, BlogComments!Null, BlogComments!Table!Null
  <2> QED
    BY <1>1, <1>2, <2>1
    DEF BlogComments!Table!FromRowOK, BlogComments!FromRowByName,
        BlogComments!FromRowByIndex
<1>9. \A m, j, keys, marked :
        BlogComments!ReadJson(BlogComments!metaData_, m, j, keys, marked) =
          BlogComments!Table!ReadJson(BlogComments!metaData_, m, j, keys, marked)
  BY DEF BlogComments!ReadJson, BlogComments!Table!ReadJson, BlogComments!Given,
         BlogComments!Table!Given, BlogComments!Readable, BlogComments!Table!Readable,
         BlogComments!Converted, BlogComments!Table!Converted, BlogComments!Null,
         BlogComments!Table!Null
<1>10. BlogComments!Table!FromJsonOK
  <2>1. BlogComments!New(10) = BlogComments!Table!New(10)
    BY DEF BlogComments!New, BlogComments!Table!New, BlogComments!Null,
           BlogComments!Table!Null
  <2>2. \A m, keys : BlogComments!WriteJson(BlogComments!metaData_, m, keys) =
                     BlogComments!Table!WriteJson(BlogComments!metaData_, m, keys)
    BY DEF BlogComments!WriteJson, BlogComments!Table!WriteJson, BlogComments!Printed,
           BlogComments!Table!Printed
  <2> QED
    BY <1>1, <1>2, <1>9, <2>1, <2>2
    DEF BlogComments!Table!FromJsonOK, BlogComments!FromJson,
        BlogComments!FromMasqueradedJson, BlogComments!toJson,
        BlogComments!toMasqueradedJson
<1>11. BlogComments!Table!ChangeOK
  <2>1. 2 .. 10 = BlogComments!Table!Columns \ {BlogComments!primaryKey}
    BY <1>1
  <2>2. \A m, c, v : BlogComments!Assigned(m, c, v) = BlogComments!Table!Assigned(m, c, v)
    BY DEF BlogComments!Assigned, BlogComments!Table!Assigned
  <2> QED
    BY <1>1, <1>2, <1>9, <2>1, <2>2
    DEF BlogComments!Table!ChangeOK, BlogComments!updateByJson,
        BlogComments!updateByMasqueradedJson, BlogComments!Set, BlogComments!updateId
<1>12. BlogComments!Table!StatementOK
  <2>1. BlogComments!Table!All = <<1, 2, 3, 4, 5, 6, 7, 8, 9, 10>>
    BY <1>1 DEF BlogComments!Table!All
  <2>2. BlogComments!Table!Bindable = <<2, 3, 4, 5, 6, 7, 8, 9, 10>>
    BY <1>1, <2>1 DEF BlogComments!Table!Bindable
  <2>3. \A cols, S : BlogComments!Kept(cols, S) = BlogComments!Table!Kept(cols, S)
    BY DEF BlogComments!Kept, BlogComments!Table!Kept, BlogComments!Cardinality,
           BlogComments!Table!Cardinality, BlogComments!IsFiniteSet,
           BlogComments!Table!IsFiniteSet
  <2>4. \A m, cols : BlogComments!Dirty(m, cols) = BlogComments!Table!Dirty(m, cols)
    BY <2>3 DEF BlogComments!Dirty, BlogComments!Table!Dirty
  <2>5. \A m, cols : BlogComments!Bound(m, cols) = BlogComments!Table!Bound(m, cols)
    BY <2>4 DEF BlogComments!Bound, BlogComments!Table!Bound
  <2>6. \A m, cols, a, d :
          BlogComments!InsertSql(m, cols, a, d) = BlogComments!Table!InsertSql(m, cols, a, d)
    BY <2>3 DEF BlogComments!InsertSql, BlogComments!Table!InsertSql
  <2> QED
    BY <2>1, <2>2, <2>4, <2>5, <2>6
    DEF BlogComments!Table!StatementOK, BlogComments!outputArgs,
        BlogComments!updateColumns, BlogComments!updateArgs,
        BlogComments!sqlForInserting
<1>13. BlogComments!Table!ValidatorOK
  <2>1. \A j, keys : BlogComments!Given(j, keys) = BlogComments!Table!Given(j, keys)
    BY DEF BlogComments!Given, BlogComments!Table!Given
  <2>2. \A c, v, b :
          BlogComments!validJsonOfField(c, v, b) =
            BlogComments!Table!ValidField(BlogComments!metaData_, BlogComments!auto, c, v, b)
    BY DEF BlogComments!validJsonOfField, BlogComments!ValidField,
           BlogComments!Table!ValidField, BlogComments!Null, BlogComments!Table!Null
  <2>3. \A v, r : BlogComments!Validated(v, r) = BlogComments!Table!Validated(v, r)
    BY DEF BlogComments!Validated, BlogComments!Table!Validated
  <2>4. \A j, keys, b :
          BlogComments!Table!Checks(j, keys, b) =
            [c \in BlogComments!Given(j, keys) |->
               BlogComments!validJsonOfField(c, j[keys[c]], b)]
    BY <2>1, <2>2 DEF BlogComments!Table!Checks
  <2> QED
    BY <1>1, <1>2, <1>6, <2>3, <2>4, Zenon
    DEF BlogComments!Table!ValidatorOK, BlogComments!validateJsonForCreation,
        BlogComments!validateMasqueradedJsonForCreation,
        BlogComments!validateJsonForUpdate,
        BlogComments!validateMasqueradedJsonForUpdate
<1> QED
  BY <1>7, <1>8, <1>10, <1>11, <1>12, <1>13 DEF BlogComments!Table!ClassOK

(* models/TbFollow.cc of the hmdp back end: the lists of columns of its functions *)
(* are those of its table *)
LEMMA TbFollowOK == Follow!Table!ClassOK
<1> DEFINE N == [c \in 1 .. 4 |-> Follow!metaData_[c].name]
<1>1. /\ Follow!Table!Size = 4 /\ Follow!Table!Columns = 1 .. 4
      /\ Follow!primaryKey = 1 /\ Follow!auto = {1}
      /\ Follow!defaulted = {4} /\ Follow!onUpdate = {}
  BY DEF Follow!Table!Size, Follow!Table!Columns, Follow!metaData_, Follow!primaryKey,
         Follow!auto, Follow!defaulted, Follow!onUpdate
<1>2. /\ Follow!Names = Follow!Table!Names
      /\ \A c \in 1 .. 4 : Follow!Table!Names[c] = Follow!metaData_[c].name
  BY <1>1 DEF Follow!Names, Follow!Table!Names, Follow!Table!Columns
<1>3. /\ N[1] = "id" /\ N[2] = "user_id" /\ N[3] = "follow_user_id"
      /\ N[4] = "create_time"
  BY DEF Follow!metaData_, Follow!Column
<1> HIDE DEF N
<1>4. \A c, d \in 1 .. 4 : N[c] = N[d] => c = d
  <2> SUFFICES ASSUME NEW c \in 1 .. 4, NEW d \in 1 .. 4, c # d PROVE N[c] # N[d]
    OBVIOUS
  <2> QED
    BY <1>3
<1>5. \A c \in 1 .. 4 : N[c] # ""
  <2>1. \A c \in 1 .. 4 :
          N[c] \in {"id", "user_id", "follow_user_id", "create_time"}
    BY <1>3
  <2>2. \A x \in
          {"id", "user_id", "follow_user_id", "create_time"} :
          x # ""
    BY Zenon
  <2> QED
    BY <2>1, <2>2, Zenon
<1>6. Follow!Table!Required = {2, 3}
  <2>1. \A c \in 1 .. 4 :
          Follow!metaData_[c].notNull <=> c \in {1, 2, 3, 4}
    BY DEF Follow!metaData_, Follow!Column
  <2> QED
    BY <1>1, <2>1 DEF Follow!Table!Required, Follow!Table!NotNull
<1>7. Follow!Table!TableOK
  <2>1. Follow!Table!NotNull(1) /\ Follow!Table!Type(1) # "time"
    BY DEF Follow!Table!NotNull, Follow!Table!Type, Follow!metaData_, Follow!Column
  <2>2. {4} \cup {} \subseteq (1 .. 4) \ {1}
    OBVIOUS
  <2>3. 4 \notin {2, 3} /\ 4 \in Nat \ {0} /\ 1 \in 1 .. 4
    OBVIOUS
  <2>4. {1} \in {{}, {1}}
    OBVIOUS
  <2> QED
    BY <1>1, <1>4, <1>5, <1>6, <2>1, <2>2, <2>3, <2>4, Zenon DEF Follow!Table!TableOK, N
<1>8. Follow!Table!FromRowOK
  <2>1. /\ \A r : Follow!ReadRow(r) = Follow!Table!ReadRow(r)
        /\ Follow!New(4) = Follow!Table!New(4)
    BY DEF Follow!ReadRow, Follow!Table!ReadRow, Follow!New, Follow!Table!New,
           Follow!Null, Follow!Table!Null
  <2> QED
    BY <1>1, <1>2, <2>1
    DEF Follow!Table!FromRowOK, Follow!FromRowByName, Follow!FromRowByIndex
<1>9. \A m, j, keys, marked :
        Follow!ReadJson(Follow!metaData_, m, j, keys, marked) =
          Follow!Table!ReadJson(Follow!metaData_, m, j, keys, marked)
  BY DEF Follow!ReadJson, Follow!Table!ReadJson, Follow!Given, Follow!Table!Given,
         Follow!Readable, Follow!Table!Readable, Follow!Converted,
         Follow!Table!Converted, Follow!Null, Follow!Table!Null
<1>10. Follow!Table!FromJsonOK
  <2>1. Follow!New(4) = Follow!Table!New(4)
    BY DEF Follow!New, Follow!Table!New, Follow!Null, Follow!Table!Null
  <2>2. \A m, keys : Follow!WriteJson(Follow!metaData_, m, keys) =
                     Follow!Table!WriteJson(Follow!metaData_, m, keys)
    BY DEF Follow!WriteJson, Follow!Table!WriteJson, Follow!Printed,
           Follow!Table!Printed
  <2> QED
    BY <1>1, <1>2, <1>9, <2>1, <2>2
    DEF Follow!Table!FromJsonOK, Follow!FromJson, Follow!FromMasqueradedJson,
        Follow!toJson, Follow!toMasqueradedJson
<1>11. Follow!Table!ChangeOK
  <2>1. 2 .. 4 = Follow!Table!Columns \ {Follow!primaryKey}
    BY <1>1
  <2>2. \A m, c, v : Follow!Assigned(m, c, v) = Follow!Table!Assigned(m, c, v)
    BY DEF Follow!Assigned, Follow!Table!Assigned
  <2> QED
    BY <1>1, <1>2, <1>9, <2>1, <2>2
    DEF Follow!Table!ChangeOK, Follow!updateByJson, Follow!updateByMasqueradedJson,
        Follow!Set, Follow!updateId
<1>12. Follow!Table!StatementOK
  <2>1. Follow!Table!All = <<1, 2, 3, 4>>
    BY <1>1 DEF Follow!Table!All
  <2>2. Follow!Table!Bindable = <<2, 3, 4>>
    BY <1>1, <2>1 DEF Follow!Table!Bindable
  <2>3. \A cols, S : Follow!Kept(cols, S) = Follow!Table!Kept(cols, S)
    BY DEF Follow!Kept, Follow!Table!Kept, Follow!Cardinality,
           Follow!Table!Cardinality, Follow!IsFiniteSet, Follow!Table!IsFiniteSet
  <2>4. \A m, cols : Follow!Dirty(m, cols) = Follow!Table!Dirty(m, cols)
    BY <2>3 DEF Follow!Dirty, Follow!Table!Dirty
  <2>5. \A m, cols : Follow!Bound(m, cols) = Follow!Table!Bound(m, cols)
    BY <2>4 DEF Follow!Bound, Follow!Table!Bound
  <2>6. \A m, cols, a, d :
          Follow!InsertSql(m, cols, a, d) = Follow!Table!InsertSql(m, cols, a, d)
    BY <2>3 DEF Follow!InsertSql, Follow!Table!InsertSql
  <2> QED
    BY <2>1, <2>2, <2>4, <2>5, <2>6
    DEF Follow!Table!StatementOK, Follow!outputArgs, Follow!updateColumns,
        Follow!updateArgs, Follow!sqlForInserting
<1>13. Follow!Table!ValidatorOK
  <2>1. \A j, keys : Follow!Given(j, keys) = Follow!Table!Given(j, keys)
    BY DEF Follow!Given, Follow!Table!Given
  <2>2. \A c, v, b :
          Follow!validJsonOfField(c, v, b) =
            Follow!Table!ValidField(Follow!metaData_, Follow!auto, c, v, b)
    BY DEF Follow!validJsonOfField, Follow!ValidField, Follow!Table!ValidField,
           Follow!Null, Follow!Table!Null
  <2>3. \A v, r : Follow!Validated(v, r) = Follow!Table!Validated(v, r)
    BY DEF Follow!Validated, Follow!Table!Validated
  <2>4. \A j, keys, b :
          Follow!Table!Checks(j, keys, b) =
            [c \in Follow!Given(j, keys) |->
               Follow!validJsonOfField(c, j[keys[c]], b)]
    BY <2>1, <2>2 DEF Follow!Table!Checks
  <2> QED
    BY <1>1, <1>2, <1>6, <2>3, <2>4, Zenon
    DEF Follow!Table!ValidatorOK, Follow!validateJsonForCreation,
        Follow!validateMasqueradedJsonForCreation, Follow!validateJsonForUpdate,
        Follow!validateMasqueradedJsonForUpdate
<1> QED
  BY <1>7, <1>8, <1>10, <1>11, <1>12, <1>13 DEF Follow!Table!ClassOK

(* models/TbSeckillVoucher.cc of the hmdp back end: the lists of columns of its functions *)
(* are those of its table *)
LEMMA TbSeckillVoucherOK == SeckillVoucher!Table!ClassOK
<1> DEFINE N == [c \in 1 .. 6 |-> SeckillVoucher!metaData_[c].name]
<1>1. /\ SeckillVoucher!Table!Size = 6 /\ SeckillVoucher!Table!Columns = 1 .. 6
      /\ SeckillVoucher!primaryKey = 1 /\ SeckillVoucher!auto = {}
      /\ SeckillVoucher!defaulted = {3, 4, 5, 6} /\ SeckillVoucher!onUpdate = {6}
  BY DEF SeckillVoucher!Table!Size, SeckillVoucher!Table!Columns,
         SeckillVoucher!metaData_, SeckillVoucher!primaryKey, SeckillVoucher!auto,
         SeckillVoucher!defaulted, SeckillVoucher!onUpdate
<1>2. /\ SeckillVoucher!Names = SeckillVoucher!Table!Names
      /\ \A c \in 1 .. 6 : SeckillVoucher!Table!Names[c] = SeckillVoucher!metaData_[c].name
  BY <1>1 DEF SeckillVoucher!Names, SeckillVoucher!Table!Names, SeckillVoucher!Table!Columns
<1>3. /\ N[1] = "voucher_id" /\ N[2] = "stock" /\ N[3] = "create_time"
      /\ N[4] = "begin_time" /\ N[5] = "end_time" /\ N[6] = "update_time"
  BY DEF SeckillVoucher!metaData_, SeckillVoucher!Column
<1> HIDE DEF N
<1>4. \A c, d \in 1 .. 6 : N[c] = N[d] => c = d
  <2> SUFFICES ASSUME NEW c \in 1 .. 6, NEW d \in 1 .. 6, c # d PROVE N[c] # N[d]
    OBVIOUS
  <2> QED
    BY <1>3
<1>5. \A c \in 1 .. 6 : N[c] # ""
  <2>1. \A c \in 1 .. 6 :
          N[c] \in {"voucher_id", "stock", "create_time", "begin_time", "end_time",
                   "update_time"}
    BY <1>3
  <2>2. \A x \in
          {"voucher_id", "stock", "create_time", "begin_time", "end_time",
           "update_time"} :
          x # ""
    BY Zenon
  <2> QED
    BY <2>1, <2>2, Zenon
<1>6. SeckillVoucher!Table!Required = {1, 2}
  <2>1. \A c \in 1 .. 6 :
          SeckillVoucher!metaData_[c].notNull <=> c \in {1, 2, 3, 4, 5, 6}
    BY DEF SeckillVoucher!metaData_, SeckillVoucher!Column
  <2> QED
    BY <1>1, <2>1 DEF SeckillVoucher!Table!Required, SeckillVoucher!Table!NotNull
<1>7. SeckillVoucher!Table!TableOK
  <2>1. SeckillVoucher!Table!NotNull(1) /\ SeckillVoucher!Table!Type(1) # "time"
    BY DEF SeckillVoucher!Table!NotNull, SeckillVoucher!Table!Type,
           SeckillVoucher!metaData_, SeckillVoucher!Column
  <2>2. {3, 4, 5, 6} \cup {6} \subseteq (1 .. 6) \ {1}
    OBVIOUS
  <2>3. 6 \notin {1, 2} /\ 6 \in Nat \ {0} /\ 1 \in 1 .. 6
    OBVIOUS
  <2>4. {} \in {{}, {1}}
    OBVIOUS
  <2> QED
    BY <1>1, <1>4, <1>5, <1>6, <2>1, <2>2, <2>3, <2>4, Zenon DEF SeckillVoucher!Table!TableOK, N
<1>8. SeckillVoucher!Table!FromRowOK
  <2>1. /\ \A r : SeckillVoucher!ReadRow(r) = SeckillVoucher!Table!ReadRow(r)
        /\ SeckillVoucher!New(6) = SeckillVoucher!Table!New(6)
    BY DEF SeckillVoucher!ReadRow, SeckillVoucher!Table!ReadRow, SeckillVoucher!New,
           SeckillVoucher!Table!New, SeckillVoucher!Null, SeckillVoucher!Table!Null
  <2> QED
    BY <1>1, <1>2, <2>1
    DEF SeckillVoucher!Table!FromRowOK, SeckillVoucher!FromRowByName,
        SeckillVoucher!FromRowByIndex
<1>9. \A m, j, keys, marked :
        SeckillVoucher!ReadJson(SeckillVoucher!metaData_, m, j, keys, marked) =
          SeckillVoucher!Table!ReadJson(SeckillVoucher!metaData_, m, j, keys, marked)
  BY DEF SeckillVoucher!ReadJson, SeckillVoucher!Table!ReadJson, SeckillVoucher!Given,
         SeckillVoucher!Table!Given, SeckillVoucher!Readable,
         SeckillVoucher!Table!Readable, SeckillVoucher!Converted,
         SeckillVoucher!Table!Converted, SeckillVoucher!Null,
         SeckillVoucher!Table!Null
<1>10. SeckillVoucher!Table!FromJsonOK
  <2>1. SeckillVoucher!New(6) = SeckillVoucher!Table!New(6)
    BY DEF SeckillVoucher!New, SeckillVoucher!Table!New, SeckillVoucher!Null,
           SeckillVoucher!Table!Null
  <2>2. \A m, keys : SeckillVoucher!WriteJson(SeckillVoucher!metaData_, m, keys) =
                     SeckillVoucher!Table!WriteJson(SeckillVoucher!metaData_, m, keys)
    BY DEF SeckillVoucher!WriteJson, SeckillVoucher!Table!WriteJson,
           SeckillVoucher!Printed, SeckillVoucher!Table!Printed
  <2> QED
    BY <1>1, <1>2, <1>9, <2>1, <2>2
    DEF SeckillVoucher!Table!FromJsonOK, SeckillVoucher!FromJson,
        SeckillVoucher!FromMasqueradedJson, SeckillVoucher!toJson,
        SeckillVoucher!toMasqueradedJson
<1>11. SeckillVoucher!Table!ChangeOK
  <2>1. 2 .. 6 = SeckillVoucher!Table!Columns \ {SeckillVoucher!primaryKey}
    BY <1>1
  <2>2. \A m, c, v : SeckillVoucher!Assigned(m, c, v) = SeckillVoucher!Table!Assigned(m, c, v)
    BY DEF SeckillVoucher!Assigned, SeckillVoucher!Table!Assigned
  <2> QED
    BY <1>1, <1>2, <1>9, <2>1, <2>2
    DEF SeckillVoucher!Table!ChangeOK, SeckillVoucher!updateByJson,
        SeckillVoucher!updateByMasqueradedJson, SeckillVoucher!Set,
        SeckillVoucher!updateId
<1>12. SeckillVoucher!Table!StatementOK
  <2>1. SeckillVoucher!Table!All = <<1, 2, 3, 4, 5, 6>>
    BY <1>1 DEF SeckillVoucher!Table!All
  <2>2. SeckillVoucher!Table!Bindable = <<1, 2, 3, 4, 5, 6>>
    BY <1>1, <2>1 DEF SeckillVoucher!Table!Bindable
  <2>3. \A cols, S : SeckillVoucher!Kept(cols, S) = SeckillVoucher!Table!Kept(cols, S)
    BY DEF SeckillVoucher!Kept, SeckillVoucher!Table!Kept, SeckillVoucher!Cardinality,
           SeckillVoucher!Table!Cardinality, SeckillVoucher!IsFiniteSet,
           SeckillVoucher!Table!IsFiniteSet
  <2>4. \A m, cols : SeckillVoucher!Dirty(m, cols) = SeckillVoucher!Table!Dirty(m, cols)
    BY <2>3 DEF SeckillVoucher!Dirty, SeckillVoucher!Table!Dirty
  <2>5. \A m, cols : SeckillVoucher!Bound(m, cols) = SeckillVoucher!Table!Bound(m, cols)
    BY <2>4 DEF SeckillVoucher!Bound, SeckillVoucher!Table!Bound
  <2>6. \A m, cols, a, d :
          SeckillVoucher!InsertSql(m, cols, a, d) = SeckillVoucher!Table!InsertSql(m, cols, a, d)
    BY <2>3 DEF SeckillVoucher!InsertSql, SeckillVoucher!Table!InsertSql
  <2> QED
    BY <2>1, <2>2, <2>4, <2>5, <2>6
    DEF SeckillVoucher!Table!StatementOK, SeckillVoucher!outputArgs,
        SeckillVoucher!updateColumns, SeckillVoucher!updateArgs,
        SeckillVoucher!sqlForInserting
<1>13. SeckillVoucher!Table!ValidatorOK
  <2>1. \A j, keys : SeckillVoucher!Given(j, keys) = SeckillVoucher!Table!Given(j, keys)
    BY DEF SeckillVoucher!Given, SeckillVoucher!Table!Given
  <2>2. \A c, v, b :
          SeckillVoucher!validJsonOfField(c, v, b) =
            SeckillVoucher!Table!ValidField(SeckillVoucher!metaData_, SeckillVoucher!auto, c, v, b)
    BY DEF SeckillVoucher!validJsonOfField, SeckillVoucher!ValidField,
           SeckillVoucher!Table!ValidField, SeckillVoucher!Null,
           SeckillVoucher!Table!Null
  <2>3. \A v, r : SeckillVoucher!Validated(v, r) = SeckillVoucher!Table!Validated(v, r)
    BY DEF SeckillVoucher!Validated, SeckillVoucher!Table!Validated
  <2>4. \A j, keys, b :
          SeckillVoucher!Table!Checks(j, keys, b) =
            [c \in SeckillVoucher!Given(j, keys) |->
               SeckillVoucher!validJsonOfField(c, j[keys[c]], b)]
    BY <2>1, <2>2 DEF SeckillVoucher!Table!Checks
  <2> QED
    BY <1>1, <1>2, <1>6, <2>3, <2>4, Zenon
    DEF SeckillVoucher!Table!ValidatorOK, SeckillVoucher!validateJsonForCreation,
        SeckillVoucher!validateMasqueradedJsonForCreation,
        SeckillVoucher!validateJsonForUpdate,
        SeckillVoucher!validateMasqueradedJsonForUpdate
<1> QED
  BY <1>7, <1>8, <1>10, <1>11, <1>12, <1>13 DEF SeckillVoucher!Table!ClassOK

(* models/TbShop.cc of the hmdp back end: the lists of columns of its functions *)
(* are those of its table *)
LEMMA TbShopOK == Shop!Table!ClassOK
<1> DEFINE N == [c \in 1 .. 15 |-> Shop!metaData_[c].name]
<1>1. /\ Shop!Table!Size = 15 /\ Shop!Table!Columns = 1 .. 15
      /\ Shop!primaryKey = 1 /\ Shop!auto = {1}
      /\ Shop!defaulted = {14, 15} /\ Shop!onUpdate = {15}
  BY DEF Shop!Table!Size, Shop!Table!Columns, Shop!metaData_, Shop!primaryKey,
         Shop!auto, Shop!defaulted, Shop!onUpdate
<1>2. /\ Shop!Names = Shop!Table!Names
      /\ \A c \in 1 .. 15 : Shop!Table!Names[c] = Shop!metaData_[c].name
  BY <1>1 DEF Shop!Names, Shop!Table!Names, Shop!Table!Columns
<1>3. /\ N[1] = "id" /\ N[2] = "name" /\ N[3] = "type_id" /\ N[4] = "images"
      /\ N[5] = "area" /\ N[6] = "address" /\ N[7] = "x" /\ N[8] = "y"
      /\ N[9] = "avg_price" /\ N[10] = "sold" /\ N[11] = "comments" /\ N[12] = "score"
      /\ N[13] = "open_hours" /\ N[14] = "create_time" /\ N[15] = "update_time"
  BY DEF Shop!metaData_, Shop!Column
<1> HIDE DEF N
<1>4. \A c, d \in 1 .. 15 : N[c] = N[d] => c = d
  <2> SUFFICES ASSUME NEW c \in 1 .. 15, NEW d \in 1 .. 15, c # d PROVE N[c] # N[d]
    OBVIOUS
  <2> QED
    BY <1>3
<1>5. \A c \in 1 .. 15 : N[c] # ""
  <2>1. \A c \in 1 .. 15 :
          N[c] \in {"id", "name", "type_id", "images", "area", "address", "x", "y",
                   "avg_price", "sold", "comments", "score", "open_hours",
                   "create_time", "update_time"}
    BY <1>3
  <2>2. \A x \in
          {"id", "name", "type_id", "images", "area", "address", "x", "y",
           "avg_price", "sold", "comments", "score", "open_hours", "create_time",
           "update_time"} :
          x # ""
    BY Zenon
  <2> QED
    BY <2>1, <2>2, Zenon
<1>6. Shop!Table!Required = {2, 3, 4, 6, 7, 8, 10, 11, 12}
  <2>1. \A c \in 1 .. 15 :
          Shop!metaData_[c].notNull <=> c \in {1, 2, 3, 4, 6, 7, 8, 10, 11, 12}
    BY DEF Shop!metaData_, Shop!Column
  <2> QED
    BY <1>1, <2>1 DEF Shop!Table!Required, Shop!Table!NotNull
<1>7. Shop!Table!TableOK
  <2>1. Shop!Table!NotNull(1) /\ Shop!Table!Type(1) # "time"
    BY DEF Shop!Table!NotNull, Shop!Table!Type, Shop!metaData_, Shop!Column
  <2>2. {14, 15} \cup {15} \subseteq (1 .. 15) \ {1}
    OBVIOUS
  <2>3. 15 \notin {2, 3, 4, 6, 7, 8, 10, 11, 12} /\ 15 \in Nat \ {0} /\ 1 \in 1 .. 15
    OBVIOUS
  <2>4. {1} \in {{}, {1}}
    OBVIOUS
  <2> QED
    BY <1>1, <1>4, <1>5, <1>6, <2>1, <2>2, <2>3, <2>4, Zenon DEF Shop!Table!TableOK, N
<1>8. Shop!Table!FromRowOK
  <2>1. /\ \A r : Shop!ReadRow(r) = Shop!Table!ReadRow(r)
        /\ Shop!New(15) = Shop!Table!New(15)
    BY DEF Shop!ReadRow, Shop!Table!ReadRow, Shop!New, Shop!Table!New, Shop!Null,
           Shop!Table!Null
  <2> QED
    BY <1>1, <1>2, <2>1
    DEF Shop!Table!FromRowOK, Shop!FromRowByName, Shop!FromRowByIndex
<1>9. \A m, j, keys, marked :
        Shop!ReadJson(Shop!metaData_, m, j, keys, marked) =
          Shop!Table!ReadJson(Shop!metaData_, m, j, keys, marked)
  BY DEF Shop!ReadJson, Shop!Table!ReadJson, Shop!Given, Shop!Table!Given,
         Shop!Readable, Shop!Table!Readable, Shop!Converted, Shop!Table!Converted,
         Shop!Null, Shop!Table!Null
<1>10. Shop!Table!FromJsonOK
  <2>1. Shop!New(15) = Shop!Table!New(15)
    BY DEF Shop!New, Shop!Table!New, Shop!Null, Shop!Table!Null
  <2>2. \A m, keys : Shop!WriteJson(Shop!metaData_, m, keys) =
                     Shop!Table!WriteJson(Shop!metaData_, m, keys)
    BY DEF Shop!WriteJson, Shop!Table!WriteJson, Shop!Printed, Shop!Table!Printed
  <2> QED
    BY <1>1, <1>2, <1>9, <2>1, <2>2
    DEF Shop!Table!FromJsonOK, Shop!FromJson, Shop!FromMasqueradedJson, Shop!toJson,
        Shop!toMasqueradedJson
<1>11. Shop!Table!ChangeOK
  <2>1. 2 .. 15 = Shop!Table!Columns \ {Shop!primaryKey}
    BY <1>1
  <2>2. \A m, c, v : Shop!Assigned(m, c, v) = Shop!Table!Assigned(m, c, v)
    BY DEF Shop!Assigned, Shop!Table!Assigned
  <2> QED
    BY <1>1, <1>2, <1>9, <2>1, <2>2
    DEF Shop!Table!ChangeOK, Shop!updateByJson, Shop!updateByMasqueradedJson,
        Shop!Set, Shop!updateId
<1>12. Shop!Table!StatementOK
  <2>1. Shop!Table!All = <<1, 2, 3, 4, 5, 6, 7, 8, 9, 10, 11, 12, 13, 14, 15>>
    BY <1>1 DEF Shop!Table!All
  <2>2. Shop!Table!Bindable = <<2, 3, 4, 5, 6, 7, 8, 9, 10, 11, 12, 13, 14, 15>>
    BY <1>1, <2>1 DEF Shop!Table!Bindable
  <2>3. \A cols, S : Shop!Kept(cols, S) = Shop!Table!Kept(cols, S)
    BY DEF Shop!Kept, Shop!Table!Kept, Shop!Cardinality, Shop!Table!Cardinality,
           Shop!IsFiniteSet, Shop!Table!IsFiniteSet
  <2>4. \A m, cols : Shop!Dirty(m, cols) = Shop!Table!Dirty(m, cols)
    BY <2>3 DEF Shop!Dirty, Shop!Table!Dirty
  <2>5. \A m, cols : Shop!Bound(m, cols) = Shop!Table!Bound(m, cols)
    BY <2>4 DEF Shop!Bound, Shop!Table!Bound
  <2>6. \A m, cols, a, d :
          Shop!InsertSql(m, cols, a, d) = Shop!Table!InsertSql(m, cols, a, d)
    BY <2>3 DEF Shop!InsertSql, Shop!Table!InsertSql
  <2> QED
    BY <2>1, <2>2, <2>4, <2>5, <2>6
    DEF Shop!Table!StatementOK, Shop!outputArgs, Shop!updateColumns, Shop!updateArgs,
        Shop!sqlForInserting
<1>13. Shop!Table!ValidatorOK
  <2>1. \A j, keys : Shop!Given(j, keys) = Shop!Table!Given(j, keys)
    BY DEF Shop!Given, Shop!Table!Given
  <2>2. \A c, v, b :
          Shop!validJsonOfField(c, v, b) =
            Shop!Table!ValidField(Shop!metaData_, Shop!auto, c, v, b)
    BY DEF Shop!validJsonOfField, Shop!ValidField, Shop!Table!ValidField, Shop!Null,
           Shop!Table!Null
  <2>3. \A v, r : Shop!Validated(v, r) = Shop!Table!Validated(v, r)
    BY DEF Shop!Validated, Shop!Table!Validated
  <2>4. \A j, keys, b :
          Shop!Table!Checks(j, keys, b) =
            [c \in Shop!Given(j, keys) |->
               Shop!validJsonOfField(c, j[keys[c]], b)]
    BY <2>1, <2>2 DEF Shop!Table!Checks
  <2> QED
    BY <1>1, <1>2, <1>6, <2>3, <2>4, Zenon
    DEF Shop!Table!ValidatorOK, Shop!validateJsonForCreation,
        Shop!validateMasqueradedJsonForCreation, Shop!validateJsonForUpdate,
        Shop!validateMasqueradedJsonForUpdate
<1> QED
  BY <1>7, <1>8, <1>10, <1>11, <1>12, <1>13 DEF Shop!Table!ClassOK

(* models/TbShopType.cc of the hmdp back end: the lists of columns of its functions *)
(* are those of its table *)
LEMMA TbShopTypeOK == ShopType!Table!ClassOK
<1> DEFINE N == [c \in 1 .. 6 |-> ShopType!metaData_[c].name]
<1>1. /\ ShopType!Table!Size = 6 /\ ShopType!Table!Columns = 1 .. 6
      /\ ShopType!primaryKey = 1 /\ ShopType!auto = {1}
      /\ ShopType!defaulted = {5, 6} /\ ShopType!onUpdate = {6}
  BY DEF ShopType!Table!Size, ShopType!Table!Columns, ShopType!metaData_,
         ShopType!primaryKey, ShopType!auto, ShopType!defaulted, ShopType!onUpdate
<1>2. /\ ShopType!Names = ShopType!Table!Names
      /\ \A c \in 1 .. 6 : ShopType!Table!Names[c] = ShopType!metaData_[c].name
  BY <1>1 DEF ShopType!Names, ShopType!Table!Names, ShopType!Table!Columns
<1>3. /\ N[1] = "id" /\ N[2] = "name" /\ N[3] = "icon" /\ N[4] = "sort"
      /\ N[5] = "create_time" /\ N[6] = "update_time"
  BY DEF ShopType!metaData_, ShopType!Column
<1> HIDE DEF N
<1>4. \A c, d \in 1 .. 6 : N[c] = N[d] => c = d
  <2> SUFFICES ASSUME NEW c \in 1 .. 6, NEW d \in 1 .. 6, c # d PROVE N[c] # N[d]
    OBVIOUS
  <2> QED
    BY <1>3
<1>5. \A c \in 1 .. 6 : N[c] # ""
  <2>1. \A c \in 1 .. 6 :
          N[c] \in {"id", "name", "icon", "sort", "create_time", "update_time"}
    BY <1>3
  <2>2. \A x \in
          {"id", "name", "icon", "sort", "create_time", "update_time"} :
          x # ""
    BY Zenon
  <2> QED
    BY <2>1, <2>2, Zenon
<1>6. ShopType!Table!Required = {}
  <2>1. \A c \in 1 .. 6 :
          ShopType!metaData_[c].notNull <=> c \in {1}
    BY DEF ShopType!metaData_, ShopType!Column
  <2> QED
    BY <1>1, <2>1 DEF ShopType!Table!Required, ShopType!Table!NotNull
<1>7. ShopType!Table!TableOK
  <2>1. ShopType!Table!NotNull(1) /\ ShopType!Table!Type(1) # "time"
    BY DEF ShopType!Table!NotNull, ShopType!Table!Type, ShopType!metaData_,
           ShopType!Column
  <2>2. {5, 6} \cup {6} \subseteq (1 .. 6) \ {1}
    OBVIOUS
  <2>3. 6 \notin {} /\ 6 \in Nat \ {0} /\ 1 \in 1 .. 6
    OBVIOUS
  <2>4. {1} \in {{}, {1}}
    OBVIOUS
  <2> QED
    BY <1>1, <1>4, <1>5, <1>6, <2>1, <2>2, <2>3, <2>4, Zenon DEF ShopType!Table!TableOK, N
<1>8. ShopType!Table!FromRowOK
  <2>1. /\ \A r : ShopType!ReadRow(r) = ShopType!Table!ReadRow(r)
        /\ ShopType!New(6) = ShopType!Table!New(6)
    BY DEF ShopType!ReadRow, ShopType!Table!ReadRow, ShopType!New, ShopType!Table!New,
           ShopType!Null, ShopType!Table!Null
  <2> QED
    BY <1>1, <1>2, <2>1
    DEF ShopType!Table!FromRowOK, ShopType!FromRowByName, ShopType!FromRowByIndex
<1>9. \A m, j, keys, marked :
        ShopType!ReadJson(ShopType!metaData_, m, j, keys, marked) =
          ShopType!Table!ReadJson(ShopType!metaData_, m, j, keys, marked)
  BY DEF ShopType!ReadJson, ShopType!Table!ReadJson, ShopType!Given,
         ShopType!Table!Given, ShopType!Readable, ShopType!Table!Readable,
         ShopType!Converted, ShopType!Table!Converted, ShopType!Null,
         ShopType!Table!Null
<1>10. ShopType!Table!FromJsonOK
  <2>1. ShopType!New(6) = ShopType!Table!New(6)
    BY DEF ShopType!New, ShopType!Table!New, ShopType!Null, ShopType!Table!Null
  <2>2. \A m, keys : ShopType!WriteJson(ShopType!metaData_, m, keys) =
                     ShopType!Table!WriteJson(ShopType!metaData_, m, keys)
    BY DEF ShopType!WriteJson, ShopType!Table!WriteJson, ShopType!Printed,
           ShopType!Table!Printed
  <2> QED
    BY <1>1, <1>2, <1>9, <2>1, <2>2
    DEF ShopType!Table!FromJsonOK, ShopType!FromJson, ShopType!FromMasqueradedJson,
        ShopType!toJson, ShopType!toMasqueradedJson
<1>11. ShopType!Table!ChangeOK
  <2>1. 2 .. 6 = ShopType!Table!Columns \ {ShopType!primaryKey}
    BY <1>1
  <2>2. \A m, c, v : ShopType!Assigned(m, c, v) = ShopType!Table!Assigned(m, c, v)
    BY DEF ShopType!Assigned, ShopType!Table!Assigned
  <2> QED
    BY <1>1, <1>2, <1>9, <2>1, <2>2
    DEF ShopType!Table!ChangeOK, ShopType!updateByJson,
        ShopType!updateByMasqueradedJson, ShopType!Set, ShopType!updateId
<1>12. ShopType!Table!StatementOK
  <2>1. ShopType!Table!All = <<1, 2, 3, 4, 5, 6>>
    BY <1>1 DEF ShopType!Table!All
  <2>2. ShopType!Table!Bindable = <<2, 3, 4, 5, 6>>
    BY <1>1, <2>1 DEF ShopType!Table!Bindable
  <2>3. \A cols, S : ShopType!Kept(cols, S) = ShopType!Table!Kept(cols, S)
    BY DEF ShopType!Kept, ShopType!Table!Kept, ShopType!Cardinality,
           ShopType!Table!Cardinality, ShopType!IsFiniteSet,
           ShopType!Table!IsFiniteSet
  <2>4. \A m, cols : ShopType!Dirty(m, cols) = ShopType!Table!Dirty(m, cols)
    BY <2>3 DEF ShopType!Dirty, ShopType!Table!Dirty
  <2>5. \A m, cols : ShopType!Bound(m, cols) = ShopType!Table!Bound(m, cols)
    BY <2>4 DEF ShopType!Bound, ShopType!Table!Bound
  <2>6. \A m, cols, a, d :
          ShopType!InsertSql(m, cols, a, d) = ShopType!Table!InsertSql(m, cols, a, d)
    BY <2>3 DEF ShopType!InsertSql, ShopType!Table!InsertSql
  <2> QED
    BY <2>1, <2>2, <2>4, <2>5, <2>6
    DEF ShopType!Table!StatementOK, ShopType!outputArgs, ShopType!updateColumns,
        ShopType!updateArgs, ShopType!sqlForInserting
<1>13. ShopType!Table!ValidatorOK
  <2>1. \A j, keys : ShopType!Given(j, keys) = ShopType!Table!Given(j, keys)
    BY DEF ShopType!Given, ShopType!Table!Given
  <2>2. \A c, v, b :
          ShopType!validJsonOfField(c, v, b) =
            ShopType!Table!ValidField(ShopType!metaData_, ShopType!auto, c, v, b)
    BY DEF ShopType!validJsonOfField, ShopType!ValidField, ShopType!Table!ValidField,
           ShopType!Null, ShopType!Table!Null
  <2>3. \A v, r : ShopType!Validated(v, r) = ShopType!Table!Validated(v, r)
    BY DEF ShopType!Validated, ShopType!Table!Validated
  <2>4. \A j, keys, b :
          ShopType!Table!Checks(j, keys, b) =
            [c \in ShopType!Given(j, keys) |->
               ShopType!validJsonOfField(c, j[keys[c]], b)]
    BY <2>1, <2>2 DEF ShopType!Table!Checks
  <2> QED
    BY <1>1, <1>2, <1>6, <2>3, <2>4, Zenon
    DEF ShopType!Table!ValidatorOK, ShopType!validateJsonForCreation,
        ShopType!validateMasqueradedJsonForCreation, ShopType!validateJsonForUpdate,
        ShopType!validateMasqueradedJsonForUpdate
<1> QED
  BY <1>7, <1>8, <1>10, <1>11, <1>12, <1>13 DEF ShopType!Table!ClassOK

(* models/TbSign.cc of the hmdp back end: the lists of columns of its functions *)
(* are those of its table *)
LEMMA TbSignOK == Sign!Table!ClassOK
<1> DEFINE N == [c \in 1 .. 6 |-> Sign!metaData_[c].name]
<1>1. /\ Sign!Table!Size = 6 /\ Sign!Table!Columns = 1 .. 6
      /\ Sign!primaryKey = 1 /\ Sign!auto = {1}
      /\ Sign!defaulted = {} /\ Sign!onUpdate = {}
  BY DEF Sign!Table!Size, Sign!Table!Columns, Sign!metaData_, Sign!primaryKey,
         Sign!auto, Sign!defaulted, Sign!onUpdate
<1>2. /\ Sign!Names = Sign!Table!Names
      /\ \A c \in 1 .. 6 : Sign!Table!Names[c] = Sign!metaData_[c].name
  BY <1>1 DEF Sign!Names, Sign!Table!Names, Sign!Table!Columns
<1>3. /\ N[1] = "id" /\ N[2] = "user_id" /\ N[3] = "year" /\ N[4] = "month"
      /\ N[5] = "date" /\ N[6] = "is_backup"
  BY DEF Sign!metaData_, Sign!Column
<1> HIDE DEF N
<1>4. \A c, d \in 1 .. 6 : N[c] = N[d] => c = d
  <2> SUFFICES ASSUME NEW c \in 1 .. 6, NEW d \in 1 .. 6, c # d PROVE N[c] # N[d]
    OBVIOUS
  <2> QED
    BY <1>3
<1>5. \A c \in 1 .. 6 : N[c] # ""
  <2>1. \A c \in 1 .. 6 :
          N[c] \in {"id", "user_id", "year", "month", "date", "is_backup"}
    BY <1>3
  <2>2. \A x \in
          {"id", "user_id", "year", "month", "date", "is_backup"} :
          x # ""
    BY Zenon
  <2> QED
    BY <2>1, <2>2, Zenon
<1>6. Sign!Table!Required = {2, 3, 4, 5}
  <2>1. \A c \in 1 .. 6 :
          Sign!metaData_[c].notNull <=> c \in {1, 2, 3, 4, 5}
    BY DEF Sign!metaData_, Sign!Column
  <2> QED
    BY <1>1, <2>1 DEF Sign!Table!Required, Sign!Table!NotNull
<1>7. Sign!Table!TableOK
  <2>1. Sign!Table!NotNull(1) /\ Sign!Table!Type(1) # "time"
    BY DEF Sign!Table!NotNull, Sign!Table!Type, Sign!metaData_, Sign!Column
  <2>2. {} \cup {} \subseteq (1 .. 6) \ {1}
    OBVIOUS
  <2>3. 6 \notin {2, 3, 4, 5} /\ 6 \in Nat \ {0} /\ 1 \in 1 .. 6
    OBVIOUS
  <2>4. {1} \in {{}, {1}}
    OBVIOUS
  <2> QED
    BY <1>1, <1>4, <1>5, <1>6, <2>1, <2>2, <2>3, <2>4, Zenon DEF Sign!Table!TableOK, N
<1>8. Sign!Table!FromRowOK
  <2>1. /\ \A r : Sign!ReadRow(r) = Sign!Table!ReadRow(r)
        /\ Sign!New(6) = Sign!Table!New(6)
    BY DEF Sign!ReadRow, Sign!Table!ReadRow, Sign!New, Sign!Table!New, Sign!Null,
           Sign!Table!Null
  <2> QED
    BY <1>1, <1>2, <2>1
    DEF Sign!Table!FromRowOK, Sign!FromRowByName, Sign!FromRowByIndex
<1>9. \A m, j, keys, marked :
        Sign!ReadJson(Sign!metaData_, m, j, keys, marked) =
          Sign!Table!ReadJson(Sign!metaData_, m, j, keys, marked)
  BY DEF Sign!ReadJson, Sign!Table!ReadJson, Sign!Given, Sign!Table!Given,
         Sign!Readable, Sign!Table!Readable, Sign!Converted, Sign!Table!Converted,
         Sign!Null, Sign!Table!Null
<1>10. Sign!Table!FromJsonOK
  <2>1. Sign!New(6) = Sign!Table!New(6)
    BY DEF Sign!New, Sign!Table!New, Sign!Null, Sign!Table!Null
  <2>2. \A m, keys : Sign!WriteJson(Sign!metaData_, m, keys) =
                     Sign!Table!WriteJson(Sign!metaData_, m, keys)
    BY DEF Sign!WriteJson, Sign!Table!WriteJson, Sign!Printed, Sign!Table!Printed
  <2> QED
    BY <1>1, <1>2, <1>9, <2>1, <2>2
    DEF Sign!Table!FromJsonOK, Sign!FromJson, Sign!FromMasqueradedJson, Sign!toJson,
        Sign!toMasqueradedJson
<1>11. Sign!Table!ChangeOK
  <2>1. 2 .. 6 = Sign!Table!Columns \ {Sign!primaryKey}
    BY <1>1
  <2>2. \A m, c, v : Sign!Assigned(m, c, v) = Sign!Table!Assigned(m, c, v)
    BY DEF Sign!Assigned, Sign!Table!Assigned
  <2> QED
    BY <1>1, <1>2, <1>9, <2>1, <2>2
    DEF Sign!Table!ChangeOK, Sign!updateByJson, Sign!updateByMasqueradedJson,
        Sign!Set, Sign!updateId
<1>12. Sign!Table!StatementOK
  <2>1. Sign!Table!All = <<1, 2, 3, 4, 5, 6>>
    BY <1>1 DEF Sign!Table!All
  <2>2. Sign!Table!Bindable = <<2, 3, 4, 5, 6>>
    BY <1>1, <2>1 DEF Sign!Table!Bindable
  <2>3. \A cols, S : Sign!Kept(cols, S) = Sign!Table!Kept(cols, S)
    BY DEF Sign!Kept, Sign!Table!Kept, Sign!Cardinality, Sign!Table!Cardinality,
           Sign!IsFiniteSet, Sign!Table!IsFiniteSet
  <2>4. \A m, cols : Sign!Dirty(m, cols) = Sign!Table!Dirty(m, cols)
    BY <2>3 DEF Sign!Dirty, Sign!Table!Dirty
  <2>5. \A m, cols : Sign!Bound(m, cols) = Sign!Table!Bound(m, cols)
    BY <2>4 DEF Sign!Bound, Sign!Table!Bound
  <2>6. \A m, cols, a, d :
          Sign!InsertSql(m, cols, a, d) = Sign!Table!InsertSql(m, cols, a, d)
    BY <2>3 DEF Sign!InsertSql, Sign!Table!InsertSql
  <2> QED
    BY <2>1, <2>2, <2>4, <2>5, <2>6
    DEF Sign!Table!StatementOK, Sign!outputArgs, Sign!updateColumns, Sign!updateArgs,
        Sign!sqlForInserting
<1>13. Sign!Table!ValidatorOK
  <2>1. \A j, keys : Sign!Given(j, keys) = Sign!Table!Given(j, keys)
    BY DEF Sign!Given, Sign!Table!Given
  <2>2. \A c, v, b :
          Sign!validJsonOfField(c, v, b) =
            Sign!Table!ValidField(Sign!metaData_, Sign!auto, c, v, b)
    BY DEF Sign!validJsonOfField, Sign!ValidField, Sign!Table!ValidField, Sign!Null,
           Sign!Table!Null
  <2>3. \A v, r : Sign!Validated(v, r) = Sign!Table!Validated(v, r)
    BY DEF Sign!Validated, Sign!Table!Validated
  <2>4. \A j, keys, b :
          Sign!Table!Checks(j, keys, b) =
            [c \in Sign!Given(j, keys) |->
               Sign!validJsonOfField(c, j[keys[c]], b)]
    BY <2>1, <2>2 DEF Sign!Table!Checks
  <2> QED
    BY <1>1, <1>2, <1>6, <2>3, <2>4, Zenon
    DEF Sign!Table!ValidatorOK, Sign!validateJsonForCreation,
        Sign!validateMasqueradedJsonForCreation, Sign!validateJsonForUpdate,
        Sign!validateMasqueradedJsonForUpdate
<1> QED
  BY <1>7, <1>8, <1>10, <1>11, <1>12, <1>13 DEF Sign!Table!ClassOK

(* models/TbUser.cc of the hmdp back end: the lists of columns of its functions *)
(* are those of its table *)
LEMMA TbUserOK == HmdpUser!Table!ClassOK
<1> DEFINE N == [c \in 1 .. 7 |-> HmdpUser!metaData_[c].name]
<1>1. /\ HmdpUser!Table!Size = 7 /\ HmdpUser!Table!Columns = 1 .. 7
      /\ HmdpUser!primaryKey = 1 /\ HmdpUser!auto = {1}
      /\ HmdpUser!defaulted = {6, 7} /\ HmdpUser!onUpdate = {7}
  BY DEF HmdpUser!Table!Size, HmdpUser!Table!Columns, HmdpUser!metaData_,
         HmdpUser!primaryKey, HmdpUser!auto, HmdpUser!defaulted, HmdpUser!onUpdate
<1>2. /\ HmdpUser!Names = HmdpUser!Table!Names
      /\ \A c \in 1 .. 7 : HmdpUser!Table!Names[c] = HmdpUser!metaData_[c].name
  BY <1>1 DEF HmdpUser!Names, HmdpUser!Table!Names, HmdpUser!Table!Columns
<1>3. /\ N[1] = "id" /\ N[2] = "phone" /\ N[3] = "password" /\ N[4] = "nick_name"
      /\ N[5] = "icon" /\ N[6] = "create_time" /\ N[7] = "update_time"
  BY DEF HmdpUser!metaData_, HmdpUser!Column
<1> HIDE DEF N
<1>4. \A c, d \in 1 .. 7 : N[c] = N[d] => c = d
  <2> SUFFICES ASSUME NEW c \in 1 .. 7, NEW d \in 1 .. 7, c # d PROVE N[c] # N[d]
    OBVIOUS
  <2> QED
    BY <1>3
<1>5. \A c \in 1 .. 7 : N[c] # ""
  <2>1. \A c \in 1 .. 7 :
          N[c] \in {"id", "phone", "password", "nick_name", "icon", "create_time",
                   "update_time"}
    BY <1>3
  <2>2. \A x \in
          {"id", "phone", "password", "nick_name", "icon", "create_time",
           "update_time"} :
          x # ""
    BY Zenon
  <2> QED
    BY <2>1, <2>2, Zenon
<1>6. HmdpUser!Table!Required = {2}
  <2>1. \A c \in 1 .. 7 :
          HmdpUser!metaData_[c].notNull <=> c \in {1, 2, 6, 7}
    BY DEF HmdpUser!metaData_, HmdpUser!Column
  <2> QED
    BY <1>1, <2>1 DEF HmdpUser!Table!Required, HmdpUser!Table!NotNull
<1>7. HmdpUser!Table!TableOK
  <2>1. HmdpUser!Table!NotNull(1) /\ HmdpUser!Table!Type(1) # "time"
    BY DEF HmdpUser!Table!NotNull, HmdpUser!Table!Type, HmdpUser!metaData_,
           HmdpUser!Column
  <2>2. {6, 7} \cup {7} \subseteq (1 .. 7) \ {1}
    OBVIOUS
  <2>3. 7 \notin {2} /\ 7 \in Nat \ {0} /\ 1 \in 1 .. 7
    OBVIOUS
  <2>4. {1} \in {{}, {1}}
    OBVIOUS
  <2> QED
    BY <1>1, <1>4, <1>5, <1>6, <2>1, <2>2, <2>3, <2>4, Zenon DEF HmdpUser!Table!TableOK, N
<1>8. HmdpUser!Table!FromRowOK
  <2>1. /\ \A r : HmdpUser!ReadRow(r) = HmdpUser!Table!ReadRow(r)
        /\ HmdpUser!New(7) = HmdpUser!Table!New(7)
    BY DEF HmdpUser!ReadRow, HmdpUser!Table!ReadRow, HmdpUser!New, HmdpUser!Table!New,
           HmdpUser!Null, HmdpUser!Table!Null
  <2> QED
    BY <1>1, <1>2, <2>1
    DEF HmdpUser!Table!FromRowOK, HmdpUser!FromRowByName, HmdpUser!FromRowByIndex
<1>9. \A m, j, keys, marked :
        HmdpUser!ReadJson(HmdpUser!metaData_, m, j, keys, marked) =
          HmdpUser!Table!ReadJson(HmdpUser!metaData_, m, j, keys, marked)
  BY DEF HmdpUser!ReadJson, HmdpUser!Table!ReadJson, HmdpUser!Given,
         HmdpUser!Table!Given, HmdpUser!Readable, HmdpUser!Table!Readable,
         HmdpUser!Converted, HmdpUser!Table!Converted, HmdpUser!Null,
         HmdpUser!Table!Null
<1>10. HmdpUser!Table!FromJsonOK
  <2>1. HmdpUser!New(7) = HmdpUser!Table!New(7)
    BY DEF HmdpUser!New, HmdpUser!Table!New, HmdpUser!Null, HmdpUser!Table!Null
  <2>2. \A m, keys : HmdpUser!WriteJson(HmdpUser!metaData_, m, keys) =
                     HmdpUser!Table!WriteJson(HmdpUser!metaData_, m, keys)
    BY DEF HmdpUser!WriteJson, HmdpUser!Table!WriteJson, HmdpUser!Printed,
           HmdpUser!Table!Printed
  <2> QED
    BY <1>1, <1>2, <1>9, <2>1, <2>2
    DEF HmdpUser!Table!FromJsonOK, HmdpUser!FromJson, HmdpUser!FromMasqueradedJson,
        HmdpUser!toJson, HmdpUser!toMasqueradedJson
<1>11. HmdpUser!Table!ChangeOK
  <2>1. 2 .. 7 = HmdpUser!Table!Columns \ {HmdpUser!primaryKey}
    BY <1>1
  <2>2. \A m, c, v : HmdpUser!Assigned(m, c, v) = HmdpUser!Table!Assigned(m, c, v)
    BY DEF HmdpUser!Assigned, HmdpUser!Table!Assigned
  <2> QED
    BY <1>1, <1>2, <1>9, <2>1, <2>2
    DEF HmdpUser!Table!ChangeOK, HmdpUser!updateByJson,
        HmdpUser!updateByMasqueradedJson, HmdpUser!Set, HmdpUser!updateId
<1>12. HmdpUser!Table!StatementOK
  <2>1. HmdpUser!Table!All = <<1, 2, 3, 4, 5, 6, 7>>
    BY <1>1 DEF HmdpUser!Table!All
  <2>2. HmdpUser!Table!Bindable = <<2, 3, 4, 5, 6, 7>>
    BY <1>1, <2>1 DEF HmdpUser!Table!Bindable
  <2>3. \A cols, S : HmdpUser!Kept(cols, S) = HmdpUser!Table!Kept(cols, S)
    BY DEF HmdpUser!Kept, HmdpUser!Table!Kept, HmdpUser!Cardinality,
           HmdpUser!Table!Cardinality, HmdpUser!IsFiniteSet,
           HmdpUser!Table!IsFiniteSet
  <2>4. \A m, cols : HmdpUser!Dirty(m, cols) = HmdpUser!Table!Dirty(m, cols)
    BY <2>3 DEF HmdpUser!Dirty, HmdpUser!Table!Dirty
  <2>5. \A m, cols : HmdpUser!Bound(m, cols) = HmdpUser!Table!Bound(m, cols)
    BY <2>4 DEF HmdpUser!Bound, HmdpUser!Table!Bound
  <2>6. \A m, cols, a, d :
          HmdpUser!InsertSql(m, cols, a, d) = HmdpUser!Table!InsertSql(m, cols, a, d)
    BY <2>3 DEF HmdpUser!InsertSql, HmdpUser!Table!InsertSql
  <2> QED
    BY <2>1, <2>2, <2>4, <2>5, <2>6
    DEF HmdpUser!Table!StatementOK, HmdpUser!outputArgs, HmdpUser!updateColumns,
        HmdpUser!updateArgs, HmdpUser!sqlForInserting
<1>13. HmdpUser!Table!ValidatorOK
  <2>1. \A j, keys : HmdpUser!Given(j, keys) = HmdpUser!Table!Given(j, keys)
    BY DEF HmdpUser!Given, HmdpUser!Table!Given
  <2>2. \A c, v, b :
          HmdpUser!validJsonOfField(c, v, b) =
            HmdpUser!Table!ValidField(HmdpUser!metaData_, HmdpUser!auto, c, v, b)
    BY DEF HmdpUser!validJsonOfField, HmdpUser!ValidField, HmdpUser!Table!ValidField,
           HmdpUser!Null, HmdpUser!Table!Null
  <2>3. \A v, r : HmdpUser!Validated(v, r) = HmdpUser!Table!Validated(v, r)
    BY DEF HmdpUser!Validated, HmdpUser!Table!Validated
  <2>4. \A j, keys, b :
          HmdpUser!Table!Checks(j, keys, b) =
            [c \in HmdpUser!Given(j, keys) |->
               HmdpUser!validJsonOfField(c, j[keys[c]], b)]
    BY <2>1, <2>2 DEF HmdpUser!Table!Checks
  <2> QED
    BY <1>1, <1>2, <1>6, <2>3, <2>4, Zenon
    DEF HmdpUser!Table!ValidatorOK, HmdpUser!validateJsonForCreation,
        HmdpUser!validateMasqueradedJsonForCreation, HmdpUser!validateJsonForUpdate,
        HmdpUser!validateMasqueradedJsonForUpdate
<1> QED
  BY <1>7, <1>8, <1>10, <1>11, <1>12, <1>13 DEF HmdpUser!Table!ClassOK

(* models/TbUserInfo.cc of the hmdp back end: the lists of columns of its functions *)
(* are those of its table *)
LEMMA TbUserInfoOK == UserInfo!Table!ClassOK
<1> DEFINE N == [c \in 1 .. 11 |-> UserInfo!metaData_[c].name]
<1>1. /\ UserInfo!Table!Size = 11 /\ UserInfo!Table!Columns = 1 .. 11
      /\ UserInfo!primaryKey = 1 /\ UserInfo!auto = {}
      /\ UserInfo!defaulted = {4, 5, 6, 8, 9, 10, 11} /\ UserInfo!onUpdate = {11}
  BY DEF UserInfo!Table!Size, UserInfo!Table!Columns, UserInfo!metaData_,
         UserInfo!primaryKey, UserInfo!auto, UserInfo!defaulted, UserInfo!onUpdate
<1>2. /\ UserInfo!Names = UserInfo!Table!Names
      /\ \A c \in 1 .. 11 : UserInfo!Table!Names[c] = UserInfo!metaData_[c].name
  BY <1>1 DEF UserInfo!Names, UserInfo!Table!Names, UserInfo!Table!Columns
<1>3. /\ N[1] = "user_id" /\ N[2] = "city" /\ N[3] = "introduce" /\ N[4] = "fans"
      /\ N[5] = "followee" /\ N[6] = "gender" /\ N[7] = "birthday" /\ N[8] = "credits"
      /\ N[9] = "level" /\ N[10] = "create_time" /\ N[11] = "update_time"
  BY DEF UserInfo!metaData_, UserInfo!Column
<1> HIDE DEF N
<1>4. \A c, d \in 1 .. 11 : N[c] = N[d] => c = d
  <2> SUFFICES ASSUME NEW c \in 1 .. 11, NEW d \in 1 .. 11, c # d PROVE N[c] # N[d]
    OBVIOUS
  <2> QED
    BY <1>3
<1>5. \A c \in 1 .. 11 : N[c] # ""
  <2>1. \A c \in 1 .. 11 :
          N[c] \in {"user_id", "city", "introduce", "fans", "followee", "gender",
                   "birthday", "credits", "level", "create_time", "update_time"}
    BY <1>3
  <2>2. \A x \in
          {"user_id", "city", "introduce", "fans", "followee", "gender", "birthday",
           "credits", "level", "create_time", "update_time"} :
          x # ""
    BY Zenon
  <2> QED
    BY <2>1, <2>2, Zenon
<1>6. UserInfo!Table!Required = {1}
  <2>1. \A c \in 1 .. 11 :
          UserInfo!metaData_[c].notNull <=> c \in {1, 10, 11}
    BY DEF UserInfo!metaData_, UserInfo!Column
  <2> QED
    BY <1>1, <2>1 DEF UserInfo!Table!Required, UserInfo!Table!NotNull
<1>7. UserInfo!Table!TableOK
  <2>1. UserInfo!Table!NotNull(1) /\ UserInfo!Table!Type(1) # "time"
    BY DEF UserInfo!Table!NotNull, UserInfo!Table!Type, UserInfo!metaData_,
           UserInfo!Column
  <2>2. {4, 5, 6, 8, 9, 10, 11} \cup {11} \subseteq (1 .. 11) \ {1}
    OBVIOUS
  <2>3. 11 \notin {1} /\ 11 \in Nat \ {0} /\ 1 \in 1 .. 11
    OBVIOUS
  <2>4. {} \in {{}, {1}}
    OBVIOUS
  <2> QED
    BY <1>1, <1>4, <1>5, <1>6, <2>1, <2>2, <2>3, <2>4, Zenon DEF UserInfo!Table!TableOK, N
<1>8. UserInfo!Table!FromRowOK
  <2>1. /\ \A r : UserInfo!ReadRow(r) = UserInfo!Table!ReadRow(r)
        /\ UserInfo!New(11) = UserInfo!Table!New(11)
    BY DEF UserInfo!ReadRow, UserInfo!Table!ReadRow, UserInfo!New, UserInfo!Table!New,
           UserInfo!Null, UserInfo!Table!Null
  <2> QED
    BY <1>1, <1>2, <2>1
    DEF UserInfo!Table!FromRowOK, UserInfo!FromRowByName, UserInfo!FromRowByIndex
<1>9. \A m, j, keys, marked :
        UserInfo!ReadJson(UserInfo!metaData_, m, j, keys, marked) =
          UserInfo!Table!ReadJson(UserInfo!metaData_, m, j, keys, marked)
  BY DEF UserInfo!ReadJson, UserInfo!Table!ReadJson, UserInfo!Given,
         UserInfo!Table!Given, UserInfo!Readable, UserInfo!Table!Readable,
         UserInfo!Converted, UserInfo!Table!Converted, UserInfo!Null,
         UserInfo!Table!Null
<1>10. UserInfo!Table!FromJsonOK
  <2>1. UserInfo!New(11) = UserInfo!Table!New(11)
    BY DEF UserInfo!New, UserInfo!Table!New, UserInfo!Null, UserInfo!Table!Null
  <2>2. \A m, keys : UserInfo!WriteJson(UserInfo!metaData_, m, keys) =
                     UserInfo!Table!WriteJson(UserInfo!metaData_, m, keys)
    BY DEF UserInfo!WriteJson, UserInfo!Table!WriteJson, UserInfo!Printed,
           UserInfo!Table!Printed
  <2> QED
    BY <1>1, <1>2, <1>9, <2>1, <2>2
    DEF UserInfo!Table!FromJsonOK, UserInfo!FromJson, UserInfo!FromMasqueradedJson,
        UserInfo!toJson, UserInfo!toMasqueradedJson
<1>11. UserInfo!Table!ChangeOK
  <2>1. 2 .. 11 = UserInfo!Table!Columns \ {UserInfo!primaryKey}
    BY <1>1
  <2>2. \A m, c, v : UserInfo!Assigned(m, c, v) = UserInfo!Table!Assigned(m, c, v)
    BY DEF UserInfo!Assigned, UserInfo!Table!Assigned
  <2> QED
    BY <1>1, <1>2, <1>9, <2>1, <2>2
    DEF UserInfo!Table!ChangeOK, UserInfo!updateByJson,
        UserInfo!updateByMasqueradedJson, UserInfo!Set, UserInfo!updateId
<1>12. UserInfo!Table!StatementOK
  <2>1. UserInfo!Table!All = <<1, 2, 3, 4, 5, 6, 7, 8, 9, 10, 11>>
    BY <1>1 DEF UserInfo!Table!All
  <2>2. UserInfo!Table!Bindable = <<1, 2, 3, 4, 5, 6, 7, 8, 9, 10, 11>>
    BY <1>1, <2>1 DEF UserInfo!Table!Bindable
  <2>3. \A cols, S : UserInfo!Kept(cols, S) = UserInfo!Table!Kept(cols, S)
    BY DEF UserInfo!Kept, UserInfo!Table!Kept, UserInfo!Cardinality,
           UserInfo!Table!Cardinality, UserInfo!IsFiniteSet,
           UserInfo!Table!IsFiniteSet
  <2>4. \A m, cols : UserInfo!Dirty(m, cols) = UserInfo!Table!Dirty(m, cols)
    BY <2>3 DEF UserInfo!Dirty, UserInfo!Table!Dirty
  <2>5. \A m, cols : UserInfo!Bound(m, cols) = UserInfo!Table!Bound(m, cols)
    BY <2>4 DEF UserInfo!Bound, UserInfo!Table!Bound
  <2>6. \A m, cols, a, d :
          UserInfo!InsertSql(m, cols, a, d) = UserInfo!Table!InsertSql(m, cols, a, d)
    BY <2>3 DEF UserInfo!InsertSql, UserInfo!Table!InsertSql
  <2> QED
    BY <2>1, <2>2, <2>4, <2>5, <2>6
    DEF UserInfo!Table!StatementOK, UserInfo!outputArgs, UserInfo!updateColumns,
        UserInfo!updateArgs, UserInfo!sqlForInserting
<1>13. UserInfo!Table!ValidatorOK
  <2>1. \A j, keys : UserInfo!Given(j, keys) = UserInfo!Table!Given(j, keys)
    BY DEF UserInfo!Given, UserInfo!Table!Given
  <2>2. \A c, v, b :
          UserInfo!validJsonOfField(c, v, b) =
            UserInfo!Table!ValidField(UserInfo!metaData_, UserInfo!auto, c, v, b)
    BY DEF UserInfo!validJsonOfField, UserInfo!ValidField, UserInfo!Table!ValidField,
           UserInfo!Null, UserInfo!Table!Null
  <2>3. \A v, r : UserInfo!Validated(v, r) = UserInfo!Table!Validated(v, r)
    BY DEF UserInfo!Validated, UserInfo!Table!Validated
  <2>4. \A j, keys, b :
          UserInfo!Table!Checks(j, keys, b) =
            [c \in UserInfo!Given(j, keys) |->
               UserInfo!validJsonOfField(c, j[keys[c]], b)]
    BY <2>1, <2>2 DEF UserInfo!Table!Checks
  <2> QED
    BY <1>1, <1>2, <1>6, <2>3, <2>4, Zenon
    DEF UserInfo!Table!ValidatorOK, UserInfo!validateJsonForCreation,
        UserInfo!validateMasqueradedJsonForCreation, UserInfo!validateJsonForUpdate,
        UserInfo!validateMasqueradedJsonForUpdate
<1> QED
  BY <1>7, <1>8, <1>10, <1>11, <1>12, <1>13 DEF UserInfo!Table!ClassOK

(* models/TbVoucher.cc of the hmdp back end: the lists of columns of its functions *)
(* are those of its table *)
LEMMA TbVoucherOK == Voucher!Table!ClassOK
<1> DEFINE N == [c \in 1 .. 11 |-> Voucher!metaData_[c].name]
<1>1. /\ Voucher!Table!Size = 11 /\ Voucher!Table!Columns = 1 .. 11
      /\ Voucher!primaryKey = 1 /\ Voucher!auto = {1}
      /\ Voucher!defaulted = {8, 9, 10, 11} /\ Voucher!onUpdate = {11}
  BY DEF Voucher!Table!Size, Voucher!Table!Columns, Voucher!metaData_,
         Voucher!primaryKey, Voucher!auto, Voucher!defaulted, Voucher!onUpdate
<1>2. /\ Voucher!Names = Voucher!Table!Names
      /\ \A c \in 1 .. 11 : Voucher!Table!Names[c] = Voucher!metaData_[c].name
  BY <1>1 DEF Voucher!Names, Voucher!Table!Names, Voucher!Table!Columns
<1>3. /\ N[1] = "id" /\ N[2] = "shop_id" /\ N[3] = "title" /\ N[4] = "sub_title"
      /\ N[5] = "rules" /\ N[6] = "pay_value" /\ N[7] = "actual_value"
      /\ N[8] = "type" /\ N[9] = "status" /\ N[10] = "create_time"
      /\ N[11] = "update_time"
  BY DEF Voucher!metaData_, Voucher!Column
<1> HIDE DEF N
<1>4. \A c, d \in 1 .. 11 : N[c] = N[d] => c = d
  <2> SUFFICES ASSUME NEW c \in 1 .. 11, NEW d \in 1 .. 11, c # d PROVE N[c] # N[d]
    OBVIOUS
  <2> QED
    BY <1>3
<1>5. \A c \in 1 .. 11 : N[c] # ""
  <2>1. \A c \in 1 .. 11 :
          N[c] \in {"id", "shop_id", "title", "sub_title", "rules", "pay_value",
                   "actual_value", "type", "status", "create_time", "update_time"}
    BY <1>3
  <2>2. \A x \in
          {"id", "shop_id", "title", "sub_title", "rules", "pay_value",
           "actual_value", "type", "status", "create_time", "update_time"} :
          x # ""
    BY Zenon
  <2> QED
    BY <2>1, <2>2, Zenon
<1>6. Voucher!Table!Required = {3, 6, 7}
  <2>1. \A c \in 1 .. 11 :
          Voucher!metaData_[c].notNull <=> c \in {1, 3, 6, 7, 8, 9, 10, 11}
    BY DEF Voucher!metaData_, Voucher!Column
  <2> QED
    BY <1>1, <2>1 DEF Voucher!Table!Required, Voucher!Table!NotNull
<1>7. Voucher!Table!TableOK
  <2>1. Voucher!Table!NotNull(1) /\ Voucher!Table!Type(1) # "time"
    BY DEF Voucher!Table!NotNull, Voucher!Table!Type, Voucher!metaData_,
           Voucher!Column
  <2>2. {8, 9, 10, 11} \cup {11} \subseteq (1 .. 11) \ {1}
    OBVIOUS
  <2>3. 11 \notin {3, 6, 7} /\ 11 \in Nat \ {0} /\ 1 \in 1 .. 11
    OBVIOUS
  <2>4. {1} \in {{}, {1}}
    OBVIOUS
  <2> QED
    BY <1>1, <1>4, <1>5, <1>6, <2>1, <2>2, <2>3, <2>4, Zenon DEF Voucher!Table!TableOK, N
<1>8. Voucher!Table!FromRowOK
  <2>1. /\ \A r : Voucher!ReadRow(r) = Voucher!Table!ReadRow(r)
        /\ Voucher!New(11) = Voucher!Table!New(11)
    BY DEF Voucher!ReadRow, Voucher!Table!ReadRow, Voucher!New, Voucher!Table!New,
           Voucher!Null, Voucher!Table!Null
  <2> QED
    BY <1>1, <1>2, <2>1
    DEF Voucher!Table!FromRowOK, Voucher!FromRowByName, Voucher!FromRowByIndex
<1>9. \A m, j, keys, marked :
        Voucher!ReadJson(Voucher!metaData_, m, j, keys, marked) =
          Voucher!Table!ReadJson(Voucher!metaData_, m, j, keys, marked)
  BY DEF Voucher!ReadJson, Voucher!Table!ReadJson, Voucher!Given, Voucher!Table!Given,
         Voucher!Readable, Voucher!Table!Readable, Voucher!Converted,
         Voucher!Table!Converted, Voucher!Null, Voucher!Table!Null
<1>10. Voucher!Table!FromJsonOK
  <2>1. Voucher!New(11) = Voucher!Table!New(11)
    BY DEF Voucher!New, Voucher!Table!New, Voucher!Null, Voucher!Table!Null
  <2>2. \A m, keys : Voucher!WriteJson(Voucher!metaData_, m, keys) =
                     Voucher!Table!WriteJson(Voucher!metaData_, m, keys)
    BY DEF Voucher!WriteJson, Voucher!Table!WriteJson, Voucher!Printed,
           Voucher!Table!Printed
  <2> QED
    BY <1>1, <1>2, <1>9, <2>1, <2>2
    DEF Voucher!Table!FromJsonOK, Voucher!FromJson, Voucher!FromMasqueradedJson,
        Voucher!toJson, Voucher!toMasqueradedJson
<1>11. Voucher!Table!ChangeOK
  <2>1. 2 .. 11 = Voucher!Table!Columns \ {Voucher!primaryKey}
    BY <1>1
  <2>2. \A m, c, v : Voucher!Assigned(m, c, v) = Voucher!Table!Assigned(m, c, v)
    BY DEF Voucher!Assigned, Voucher!Table!Assigned
  <2> QED
    BY <1>1, <1>2, <1>9, <2>1, <2>2
    DEF Voucher!Table!ChangeOK, Voucher!updateByJson, Voucher!updateByMasqueradedJson,
        Voucher!Set, Voucher!updateId
<1>12. Voucher!Table!StatementOK
  <2>1. Voucher!Table!All = <<1, 2, 3, 4, 5, 6, 7, 8, 9, 10, 11>>
    BY <1>1 DEF Voucher!Table!All
  <2>2. Voucher!Table!Bindable = <<2, 3, 4, 5, 6, 7, 8, 9, 10, 11>>
    BY <1>1, <2>1 DEF Voucher!Table!Bindable
  <2>3. \A cols, S : Voucher!Kept(cols, S) = Voucher!Table!Kept(cols, S)
    BY DEF Voucher!Kept, Voucher!Table!Kept, Voucher!Cardinality,
           Voucher!Table!Cardinality, Voucher!IsFiniteSet, Voucher!Table!IsFiniteSet
  <2>4. \A m, cols : Voucher!Dirty(m, cols) = Voucher!Table!Dirty(m, cols)
    BY <2>3 DEF Voucher!Dirty, Voucher!Table!Dirty
  <2>5. \A m, cols : Voucher!Bound(m, cols) = Voucher!Table!Bound(m, cols)
    BY <2>4 DEF Voucher!Bound, Voucher!Table!Bound
  <2>6. \A m, cols, a, d :
          Voucher!InsertSql(m, cols, a, d) = Voucher!Table!InsertSql(m, cols, a, d)
    BY <2>3 DEF Voucher!InsertSql, Voucher!Table!InsertSql
  <2> QED
    BY <2>1, <2>2, <2>4, <2>5, <2>6
    DEF Voucher!Table!StatementOK, Voucher!outputArgs, Voucher!updateColumns,
        Voucher!updateArgs, Voucher!sqlForInserting
<1>13. Voucher!Table!ValidatorOK
  <2>1. \A j, keys : Voucher!Given(j, keys) = Voucher!Table!Given(j, keys)
    BY DEF Voucher!Given, Voucher!Table!Given
  <2>2. \A c, v, b :
          Voucher!validJsonOfField(c, v, b) =
            Voucher!Table!ValidField(Voucher!metaData_, Voucher!auto, c, v, b)
    BY DEF Voucher!validJsonOfField, Voucher!ValidField, Voucher!Table!ValidField,
           Voucher!Null, Voucher!Table!Null
  <2>3. \A v, r : Voucher!Validated(v, r) = Voucher!Table!Validated(v, r)
    BY DEF Voucher!Validated, Voucher!Table!Validated
  <2>4. \A j, keys, b :
          Voucher!Table!Checks(j, keys, b) =
            [c \in Voucher!Given(j, keys) |->
               Voucher!validJsonOfField(c, j[keys[c]], b)]
    BY <2>1, <2>2 DEF Voucher!Table!Checks
  <2> QED
    BY <1>1, <1>2, <1>6, <2>3, <2>4, Zenon
    DEF Voucher!Table!ValidatorOK, Voucher!validateJsonForCreation,
        Voucher!validateMasqueradedJsonForCreation, Voucher!validateJsonForUpdate,
        Voucher!validateMasqueradedJsonForUpdate
<1> QED
  BY <1>7, <1>8, <1>10, <1>11, <1>12, <1>13 DEF Voucher!Table!ClassOK

(* models/TbVoucherOrder.cc of the hmdp back end: the lists of columns of its functions *)
(* are those of its table *)
LEMMA TbVoucherOrderOK == VoucherOrder!Table!ClassOK
<1> DEFINE N == [c \in 1 .. 10 |-> VoucherOrder!metaData_[c].name]
<1>1. /\ VoucherOrder!Table!Size = 10 /\ VoucherOrder!Table!Columns = 1 .. 10
      /\ VoucherOrder!primaryKey = 1 /\ VoucherOrder!auto = {}
      /\ VoucherOrder!defaulted = {4, 5, 6, 10} /\ VoucherOrder!onUpdate = {10}
  BY DEF VoucherOrder!Table!Size, VoucherOrder!Table!Columns, VoucherOrder!metaData_,
         VoucherOrder!primaryKey, VoucherOrder!auto, VoucherOrder!defaulted,
         VoucherOrder!onUpdate
<1>2. /\ VoucherOrder!Names = VoucherOrder!Table!Names
      /\ \A c \in 1 .. 10 : VoucherOrder!Table!Names[c] = VoucherOrder!metaData_[c].name
  BY <1>1 DEF VoucherOrder!Names, VoucherOrder!Table!Names, VoucherOrder!Table!Columns
<1>3. /\ N[1] = "id" /\ N[2] = "user_id" /\ N[3] = "voucher_id" /\ N[4] = "pay_type"
      /\ N[5] = "status" /\ N[6] = "create_time" /\ N[7] = "pay_time"
      /\ N[8] = "use_time" /\ N[9] = "refund_time" /\ N[10] = "update_time"
  BY DEF VoucherOrder!metaData_, VoucherOrder!Column
<1> HIDE DEF N
<1>4. \A c, d \in 1 .. 10 : N[c] = N[d] => c = d
  <2> SUFFICES ASSUME NEW c \in 1 .. 10, NEW d \in 1 .. 10, c # d PROVE N[c] # N[d]
    OBVIOUS
  <2> QED
    BY <1>3
<1>5. \A c \in 1 .. 10 : N[c] # ""
  <2>1. \A c \in 1 .. 10 :
          N[c] \in {"id", "user_id", "voucher_id", "pay_type", "status",
                   "create_time", "pay_time", "use_time", "refund_time",
                   "update_time"}
    BY <1>3
  <2>2. \A x \in
          {"id", "user_id", "voucher_id", "pay_type", "status", "create_time",
           "pay_time", "use_time", "refund_time", "update_time"} :
          x # ""
    BY Zenon
  <2> QED
    BY <2>1, <2>2, Zenon
<1>6. VoucherOrder!Table!Required = {1, 2, 3}
  <2>1. \A c \in 1 .. 10 :
          VoucherOrder!metaData_[c].notNull <=> c \in {1, 2, 3, 4, 5, 6, 10}
    BY DEF VoucherOrder!metaData_, VoucherOrder!Column
  <2> QED
    BY <1>1, <2>1 DEF VoucherOrder!Table!Required, VoucherOrder!Table!NotNull
<1>7. VoucherOrder!Table!TableOK
  <2>1. VoucherOrder!Table!NotNull(1) /\ VoucherOrder!Table!Type(1) # "time"
    BY DEF VoucherOrder!Table!NotNull, VoucherOrder!Table!Type,
           VoucherOrder!metaData_, VoucherOrder!Column
  <2>2. {4, 5, 6, 10} \cup {10} \subseteq (1 .. 10) \ {1}
    OBVIOUS
  <2>3. 10 \notin {1, 2, 3} /\ 10 \in Nat \ {0} /\ 1 \in 1 .. 10
    OBVIOUS
  <2>4. {} \in {{}, {1}}
    OBVIOUS
  <2> QED
    BY <1>1, <1>4, <1>5, <1>6, <2>1, <2>2, <2>3, <2>4, Zenon DEF VoucherOrder!Table!TableOK, N
<1>8. VoucherOrder!Table!FromRowOK
  <2>1. /\ \A r : VoucherOrder!ReadRow(r) = VoucherOrder!Table!ReadRow(r)
        /\ VoucherOrder!New(10) = VoucherOrder!Table!New(10)
    BY DEF VoucherOrder!ReadRow, VoucherOrder!Table!ReadRow, VoucherOrder!New,
           VoucherOrder!Table!New, VoucherOrder!Null, VoucherOrder!Table!Null
  <2> QED
    BY <1>1, <1>2, <2>1
    DEF VoucherOrder!Table!FromRowOK, VoucherOrder!FromRowByName,
        VoucherOrder!FromRowByIndex
<1>9. \A m, j, keys, marked :
        VoucherOrder!ReadJson(VoucherOrder!metaData_, m, j, keys, marked) =
          VoucherOrder!Table!ReadJson(VoucherOrder!metaData_, m, j, keys, marked)
  BY DEF VoucherOrder!ReadJson, VoucherOrder!Table!ReadJson, VoucherOrder!Given,
         VoucherOrder!Table!Given, VoucherOrder!Readable, VoucherOrder!Table!Readable,
         VoucherOrder!Converted, VoucherOrder!Table!Converted, VoucherOrder!Null,
         VoucherOrder!Table!Null
<1>10. VoucherOrder!Table!FromJsonOK
  <2>1. VoucherOrder!New(10) = VoucherOrder!Table!New(10)
    BY DEF VoucherOrder!New, VoucherOrder!Table!New, VoucherOrder!Null,
           VoucherOrder!Table!Null
  <2>2. \A m, keys : VoucherOrder!WriteJson(VoucherOrder!metaData_, m, keys) =
                     VoucherOrder!Table!WriteJson(VoucherOrder!metaData_, m, keys)
    BY DEF VoucherOrder!WriteJson, VoucherOrder!Table!WriteJson, VoucherOrder!Printed,
           VoucherOrder!Table!Printed
  <2> QED
    BY <1>1, <1>2, <1>9, <2>1, <2>2
    DEF VoucherOrder!Table!FromJsonOK, VoucherOrder!FromJson,
        VoucherOrder!FromMasqueradedJson, VoucherOrder!toJson,
        VoucherOrder!toMasqueradedJson
<1>11. VoucherOrder!Table!ChangeOK
  <2>1. 2 .. 10 = VoucherOrder!Table!Columns \ {VoucherOrder!primaryKey}
    BY <1>1
  <2>2. \A m, c, v : VoucherOrder!Assigned(m, c, v) = VoucherOrder!Table!Assigned(m, c, v)
    BY DEF VoucherOrder!Assigned, VoucherOrder!Table!Assigned
  <2> QED
    BY <1>1, <1>2, <1>9, <2>1, <2>2
    DEF VoucherOrder!Table!ChangeOK, VoucherOrder!updateByJson,
        VoucherOrder!updateByMasqueradedJson, VoucherOrder!Set, VoucherOrder!updateId
<1>12. VoucherOrder!Table!StatementOK
  <2>1. VoucherOrder!Table!All = <<1, 2, 3, 4, 5, 6, 7, 8, 9, 10>>
    BY <1>1 DEF VoucherOrder!Table!All
  <2>2. VoucherOrder!Table!Bindable = <<1, 2, 3, 4, 5, 6, 7, 8, 9, 10>>
    BY <1>1, <2>1 DEF VoucherOrder!Table!Bindable
  <2>3. \A cols, S : VoucherOrder!Kept(cols, S) = VoucherOrder!Table!Kept(cols, S)
    BY DEF VoucherOrder!Kept, VoucherOrder!Table!Kept, VoucherOrder!Cardinality,
           VoucherOrder!Table!Cardinality, VoucherOrder!IsFiniteSet,
           VoucherOrder!Table!IsFiniteSet
  <2>4. \A m, cols : VoucherOrder!Dirty(m, cols) = VoucherOrder!Table!Dirty(m, cols)
    BY <2>3 DEF VoucherOrder!Dirty, VoucherOrder!Table!Dirty
  <2>5. \A m, cols : VoucherOrder!Bound(m, cols) = VoucherOrder!Table!Bound(m, cols)
    BY <2>4 DEF VoucherOrder!Bound, VoucherOrder!Table!Bound
  <2>6. \A m, cols, a, d :
          VoucherOrder!InsertSql(m, cols, a, d) = VoucherOrder!Table!InsertSql(m, cols, a, d)
    BY <2>3 DEF VoucherOrder!InsertSql, VoucherOrder!Table!InsertSql
  <2> QED
    BY <2>1, <2>2, <2>4, <2>5, <2>6
    DEF VoucherOrder!Table!StatementOK, VoucherOrder!outputArgs,
        VoucherOrder!updateColumns, VoucherOrder!updateArgs,
        VoucherOrder!sqlForInserting
<1>13. VoucherOrder!Table!ValidatorOK
  <2>1. \A j, keys : VoucherOrder!Given(j, keys) = VoucherOrder!Table!Given(j, keys)
    BY DEF VoucherOrder!Given, VoucherOrder!Table!Given
  <2>2. \A c, v, b :
          VoucherOrder!validJsonOfField(c, v, b) =
            VoucherOrder!Table!ValidField(VoucherOrder!metaData_, VoucherOrder!auto, c, v, b)
    BY DEF VoucherOrder!validJsonOfField, VoucherOrder!ValidField,
           VoucherOrder!Table!ValidField, VoucherOrder!Null, VoucherOrder!Table!Null
  <2>3. \A v, r : VoucherOrder!Validated(v, r) = VoucherOrder!Table!Validated(v, r)
    BY DEF VoucherOrder!Validated, VoucherOrder!Table!Validated
  <2>4. \A j, keys, b :
          VoucherOrder!Table!Checks(j, keys, b) =
            [c \in VoucherOrder!Given(j, keys) |->
               VoucherOrder!validJsonOfField(c, j[keys[c]], b)]
    BY <2>1, <2>2 DEF VoucherOrder!Table!Checks
  <2> QED
    BY <1>1, <1>2, <1>6, <2>3, <2>4, Zenon
    DEF VoucherOrder!Table!ValidatorOK, VoucherOrder!validateJsonForCreation,
        VoucherOrder!validateMasqueradedJsonForCreation,
        VoucherOrder!validateJsonForUpdate,
        VoucherOrder!validateMasqueradedJsonForUpdate
<1> QED
  BY <1>7, <1>8, <1>10, <1>11, <1>12, <1>13 DEF VoucherOrder!Table!ClassOK

(* models/User.cc of the user center: the lists of columns of its functions *)
(* are those of its table *)
LEMMA UserOK == CenterUser!Table!ClassOK
<1> DEFINE N == [c \in 1 .. 14 |-> CenterUser!metaData_[c].name]
<1>1. /\ CenterUser!Table!Size = 14 /\ CenterUser!Table!Columns = 1 .. 14
      /\ CenterUser!primaryKey = 2 /\ CenterUser!auto = {2}
      /\ CenterUser!defaulted = {9, 10, 11, 12, 13} /\ CenterUser!onUpdate = {11}
  BY DEF CenterUser!Table!Size, CenterUser!Table!Columns, CenterUser!metaData_,
         CenterUser!primaryKey, CenterUser!auto, CenterUser!defaulted,
         CenterUser!onUpdate
<1>2. /\ CenterUser!Names = CenterUser!Table!Names
      /\ \A c \in 1 .. 14 : CenterUser!Table!Names[c] = CenterUser!metaData_[c].name
  BY <1>1 DEF CenterUser!Names, CenterUser!Table!Names, CenterUser!Table!Columns
<1>3. /\ N[1] = "username" /\ N[2] = "id" /\ N[3] = "userAccount"
      /\ N[4] = "avatarUrl" /\ N[5] = "gender" /\ N[6] = "userPassword"
      /\ N[7] = "iphone" /\ N[8] = "email" /\ N[9] = "userStatus"
      /\ N[10] = "createTime" /\ N[11] = "updateTime" /\ N[12] = "idDelete"
      /\ N[13] = "userRole" /\ N[14] = "planetCode"
  BY DEF CenterUser!metaData_, CenterUser!Column
<1> HIDE DEF N
<1>4. \A c, d \in 1 .. 14 : N[c] = N[d] => c = d
  <2> SUFFICES ASSUME NEW c \in 1 .. 14, NEW d \in 1 .. 14, c # d PROVE N[c] # N[d]
    OBVIOUS
  <2> QED
    BY <1>3
<1>5. \A c \in 1 .. 14 : N[c] # ""
  <2>1. \A c \in 1 .. 14 :
          N[c] \in {"username", "id", "userAccount", "avatarUrl", "gender",
                   "userPassword", "iphone", "email", "userStatus", "createTime",
                   "updateTime", "idDelete", "userRole", "planetCode"}
    BY <1>3
  <2>2. \A x \in
          {"username", "id", "userAccount", "avatarUrl", "gender", "userPassword",
           "iphone", "email", "userStatus", "createTime", "updateTime", "idDelete",
           "userRole", "planetCode"} :
          x # ""
    BY Zenon
  <2> QED
    BY <2>1, <2>2, Zenon
<1>6. CenterUser!Table!Required = {6, 8}
  <2>1. \A c \in 1 .. 14 :
          CenterUser!metaData_[c].notNull <=> c \in {2, 6, 8, 12, 13}
    BY DEF CenterUser!metaData_, CenterUser!Column
  <2> QED
    BY <1>1, <2>1 DEF CenterUser!Table!Required, CenterUser!Table!NotNull
<1>7. CenterUser!Table!TableOK
  <2>1. CenterUser!Table!NotNull(2) /\ CenterUser!Table!Type(2) # "time"
    BY DEF CenterUser!Table!NotNull, CenterUser!Table!Type, CenterUser!metaData_,
           CenterUser!Column
  <2>2. {9, 10, 11, 12, 13} \cup {11} \subseteq (1 .. 14) \ {2}
    OBVIOUS
  <2>3. 14 \notin {6, 8} /\ 14 \in Nat \ {0} /\ 2 \in 1 .. 14
    OBVIOUS
  <2>4. {2} \in {{}, {2}}
    OBVIOUS
  <2> QED
    BY <1>1, <1>4, <1>5, <1>6, <2>1, <2>2, <2>3, <2>4, Zenon DEF CenterUser!Table!TableOK, N
<1>8. CenterUser!Table!FromRowOK
  <2>1. /\ \A r : CenterUser!ReadRow(r) = CenterUser!Table!ReadRow(r)
        /\ CenterUser!New(14) = CenterUser!Table!New(14)
    BY DEF CenterUser!ReadRow, CenterUser!Table!ReadRow, CenterUser!New,
           CenterUser!Table!New, CenterUser!Null, CenterUser!Table!Null
  <2> QED
    BY <1>1, <1>2, <2>1
    DEF CenterUser!Table!FromRowOK, CenterUser!FromRowByName,
        CenterUser!FromRowByIndex
<1>9. \A m, j, keys, marked :
        CenterUser!ReadJson(CenterUser!metaData_, m, j, keys, marked) =
          CenterUser!Table!ReadJson(CenterUser!metaData_, m, j, keys, marked)
  BY DEF CenterUser!ReadJson, CenterUser!Table!ReadJson, CenterUser!Given,
         CenterUser!Table!Given, CenterUser!Readable, CenterUser!Table!Readable,
         CenterUser!Converted, CenterUser!Table!Converted, CenterUser!Null,
         CenterUser!Table!Null
<1>10. CenterUser!Table!FromJsonOK
  <2>1. CenterUser!New(14) = CenterUser!Table!New(14)
    BY DEF CenterUser!New, CenterUser!Table!New, CenterUser!Null,
           CenterUser!Table!Null
  <2>2. \A m, keys : CenterUser!WriteJson(CenterUser!metaData_, m, keys) =
                     CenterUser!Table!WriteJson(CenterUser!metaData_, m, keys)
    BY DEF CenterUser!WriteJson, CenterUser!Table!WriteJson, CenterUser!Printed,
           CenterUser!Table!Printed
  <2> QED
    BY <1>1, <1>2, <1>9, <2>1, <2>2
    DEF CenterUser!Table!FromJsonOK, CenterUser!FromJson,
        CenterUser!FromMasqueradedJson, CenterUser!toJson,
        CenterUser!toMasqueradedJson
<1>11. CenterUser!Table!ChangeOK
  <2>1. (1 .. 14) \ {2} = CenterUser!Table!Columns \ {CenterUser!primaryKey}
    BY <1>1
  <2>2. \A m, c, v : CenterUser!Assigned(m, c, v) = CenterUser!Table!Assigned(m, c, v)
    BY DEF CenterUser!Assigned, CenterUser!Table!Assigned
  <2> QED
    BY <1>1, <1>2, <1>9, <2>1, <2>2
    DEF CenterUser!Table!ChangeOK, CenterUser!updateByJson,
        CenterUser!updateByMasqueradedJson, CenterUser!Set, CenterUser!updateId
<1>12. CenterUser!Table!StatementOK
  <2>1. CenterUser!Table!All = <<1, 2, 3, 4, 5, 6, 7, 8, 9, 10, 11, 12, 13, 14>>
    BY <1>1 DEF CenterUser!Table!All
  <2>2. CenterUser!Table!Bindable = <<1, 3, 4, 5, 6, 7, 8, 9, 10, 11, 12, 13, 14>>
    BY <1>1, <2>1 DEF CenterUser!Table!Bindable
  <2>3. \A cols, S : CenterUser!Kept(cols, S) = CenterUser!Table!Kept(cols, S)
    BY DEF CenterUser!Kept, CenterUser!Table!Kept, CenterUser!Cardinality,
           CenterUser!Table!Cardinality, CenterUser!IsFiniteSet,
           CenterUser!Table!IsFiniteSet
  <2>4. \A m, cols : CenterUser!Dirty(m, cols) = CenterUser!Table!Dirty(m, cols)
    BY <2>3 DEF CenterUser!Dirty, CenterUser!Table!Dirty
  <2>5. \A m, cols : CenterUser!Bound(m, cols) = CenterUser!Table!Bound(m, cols)
    BY <2>4 DEF CenterUser!Bound, CenterUser!Table!Bound
  <2>6. \A m, cols, a, d :
          CenterUser!InsertSql(m, cols, a, d) = CenterUser!Table!InsertSql(m, cols, a, d)
    BY <2>3 DEF CenterUser!InsertSql, CenterUser!Table!InsertSql
  <2> QED
    BY <2>1, <2>2, <2>4, <2>5, <2>6
    DEF CenterUser!Table!StatementOK, CenterUser!outputArgs, CenterUser!updateColumns,
        CenterUser!updateArgs, CenterUser!sqlForInserting
<1>13. CenterUser!Table!ValidatorOK
  <2>1. \A j, keys : CenterUser!Given(j, keys) = CenterUser!Table!Given(j, keys)
    BY DEF CenterUser!Given, CenterUser!Table!Given
  <2>2. \A c, v, b :
          CenterUser!validJsonOfField(c, v, b) =
            CenterUser!Table!ValidField(CenterUser!metaData_, CenterUser!auto, c, v, b)
    BY DEF CenterUser!validJsonOfField, CenterUser!ValidField,
           CenterUser!Table!ValidField, CenterUser!Null, CenterUser!Table!Null
  <2>3. \A v, r : CenterUser!Validated(v, r) = CenterUser!Table!Validated(v, r)
    BY DEF CenterUser!Validated, CenterUser!Table!Validated
  <2>4. \A j, keys, b :
          CenterUser!Table!Checks(j, keys, b) =
            [c \in CenterUser!Given(j, keys) |->
               CenterUser!validJsonOfField(c, j[keys[c]], b)]
    BY <2>1, <2>2 DEF CenterUser!Table!Checks
  <2> QED
    BY <1>1, <1>2, <1>6, <2>3, <2>4, Zenon
    DEF CenterUser!Table!ValidatorOK, CenterUser!validateJsonForCreation,
        CenterUser!validateMasqueradedJsonForCreation,
        CenterUser!validateJsonForUpdate, CenterUser!validateMasqueradedJsonForUpdate
<1> QED
  BY <1>7, <1>8, <1>10, <1>11, <1>12, <1>13 DEF CenterUser!Table!ClassOK

-----------------------------------------------------------------------------
(* Every class at once: one of them in each behaviour *)

OrmInv ==
  /\ class \in
       {"TbBlog", "TbBlogComments", "TbFollow", "TbSeckillVoucher", "TbShop",
        "TbShopType", "TbSign", "TbUser", "TbUserInfo", "TbVoucher",
        "TbVoucherOrder", "User"}
  /\ class = "TbBlog" => Blog!Table!IInv
  /\ class = "TbBlogComments" => BlogComments!Table!IInv
  /\ class = "TbFollow" => Follow!Table!IInv
  /\ class = "TbSeckillVoucher" => SeckillVoucher!Table!IInv
  /\ class = "TbShop" => Shop!Table!IInv
  /\ class = "TbShopType" => ShopType!Table!IInv
  /\ class = "TbSign" => Sign!Table!IInv
  /\ class = "TbUser" => HmdpUser!Table!IInv
  /\ class = "TbUserInfo" => UserInfo!Table!IInv
  /\ class = "TbVoucher" => Voucher!Table!IInv
  /\ class = "TbVoucherOrder" => VoucherOrder!Table!IInv
  /\ class = "User" => CenterUser!Table!IInv

(* At first: no row, no object *)
LEMMA OrmInit == Init => OrmInv
<1>1. class = "TbBlog" /\ Blog!Table!Init => Blog!Table!IInv
  BY TbBlogOK, Blog!Table!InitInv DEF Blog!Table!ClassOK
<1>2. class = "TbBlogComments" /\ BlogComments!Table!Init => BlogComments!Table!IInv
  BY TbBlogCommentsOK, BlogComments!Table!InitInv DEF BlogComments!Table!ClassOK
<1>3. class = "TbFollow" /\ Follow!Table!Init => Follow!Table!IInv
  BY TbFollowOK, Follow!Table!InitInv DEF Follow!Table!ClassOK
<1>4. class = "TbSeckillVoucher" /\ SeckillVoucher!Table!Init => SeckillVoucher!Table!IInv
  BY TbSeckillVoucherOK, SeckillVoucher!Table!InitInv DEF SeckillVoucher!Table!ClassOK
<1>5. class = "TbShop" /\ Shop!Table!Init => Shop!Table!IInv
  BY TbShopOK, Shop!Table!InitInv DEF Shop!Table!ClassOK
<1>6. class = "TbShopType" /\ ShopType!Table!Init => ShopType!Table!IInv
  BY TbShopTypeOK, ShopType!Table!InitInv DEF ShopType!Table!ClassOK
<1>7. class = "TbSign" /\ Sign!Table!Init => Sign!Table!IInv
  BY TbSignOK, Sign!Table!InitInv DEF Sign!Table!ClassOK
<1>8. class = "TbUser" /\ HmdpUser!Table!Init => HmdpUser!Table!IInv
  BY TbUserOK, HmdpUser!Table!InitInv DEF HmdpUser!Table!ClassOK
<1>9. class = "TbUserInfo" /\ UserInfo!Table!Init => UserInfo!Table!IInv
  BY TbUserInfoOK, UserInfo!Table!InitInv DEF UserInfo!Table!ClassOK
<1>10. class = "TbVoucher" /\ Voucher!Table!Init => Voucher!Table!IInv
  BY TbVoucherOK, Voucher!Table!InitInv DEF Voucher!Table!ClassOK
<1>11. class = "TbVoucherOrder" /\ VoucherOrder!Table!Init => VoucherOrder!Table!IInv
  BY TbVoucherOrderOK, VoucherOrder!Table!InitInv DEF VoucherOrder!Table!ClassOK
<1>12. class = "User" /\ CenterUser!Table!Init => CenterUser!Table!IInv
  BY UserOK, CenterUser!Table!InitInv DEF CenterUser!Table!ClassOK
<1> QED
  BY <1>1, <1>2, <1>3, <1>4, <1>5, <1>6, <1>7, <1>8, <1>9, <1>10, <1>11, <1>12 DEF Init, OrmInv

(* Every request, statement and refusal of every class *)
LEMMA OrmNext == OrmInv /\ [Next]_vars => OrmInv'
<1> SUFFICES ASSUME OrmInv, [Next]_vars PROVE OrmInv'
  OBVIOUS
<1>0. class' = class
  BY DEF Next, vars
<1>1. ASSUME class = "TbBlog" PROVE Blog!Table!IInv'
  <2>1. Blog!Table!IInv
    BY <1>1 DEF OrmInv
  <2>2. Blog!Table!Next \/ UNCHANGED Blog!Table!tvars
    BY <1>1 DEF Next, vars, Blog!Table!tvars
  <2> QED
    BY <2>1, <2>2, TbBlogOK, Blog!Table!NextInv
<1>2. ASSUME class = "TbBlogComments" PROVE BlogComments!Table!IInv'
  <2>1. BlogComments!Table!IInv
    BY <1>2 DEF OrmInv
  <2>2. BlogComments!Table!Next \/ UNCHANGED BlogComments!Table!tvars
    BY <1>2 DEF Next, vars, BlogComments!Table!tvars
  <2> QED
    BY <2>1, <2>2, TbBlogCommentsOK, BlogComments!Table!NextInv
<1>3. ASSUME class = "TbFollow" PROVE Follow!Table!IInv'
  <2>1. Follow!Table!IInv
    BY <1>3 DEF OrmInv
  <2>2. Follow!Table!Next \/ UNCHANGED Follow!Table!tvars
    BY <1>3 DEF Next, vars, Follow!Table!tvars
  <2> QED
    BY <2>1, <2>2, TbFollowOK, Follow!Table!NextInv
<1>4. ASSUME class = "TbSeckillVoucher" PROVE SeckillVoucher!Table!IInv'
  <2>1. SeckillVoucher!Table!IInv
    BY <1>4 DEF OrmInv
  <2>2. SeckillVoucher!Table!Next \/ UNCHANGED SeckillVoucher!Table!tvars
    BY <1>4 DEF Next, vars, SeckillVoucher!Table!tvars
  <2> QED
    BY <2>1, <2>2, TbSeckillVoucherOK, SeckillVoucher!Table!NextInv
<1>5. ASSUME class = "TbShop" PROVE Shop!Table!IInv'
  <2>1. Shop!Table!IInv
    BY <1>5 DEF OrmInv
  <2>2. Shop!Table!Next \/ UNCHANGED Shop!Table!tvars
    BY <1>5 DEF Next, vars, Shop!Table!tvars
  <2> QED
    BY <2>1, <2>2, TbShopOK, Shop!Table!NextInv
<1>6. ASSUME class = "TbShopType" PROVE ShopType!Table!IInv'
  <2>1. ShopType!Table!IInv
    BY <1>6 DEF OrmInv
  <2>2. ShopType!Table!Next \/ UNCHANGED ShopType!Table!tvars
    BY <1>6 DEF Next, vars, ShopType!Table!tvars
  <2> QED
    BY <2>1, <2>2, TbShopTypeOK, ShopType!Table!NextInv
<1>7. ASSUME class = "TbSign" PROVE Sign!Table!IInv'
  <2>1. Sign!Table!IInv
    BY <1>7 DEF OrmInv
  <2>2. Sign!Table!Next \/ UNCHANGED Sign!Table!tvars
    BY <1>7 DEF Next, vars, Sign!Table!tvars
  <2> QED
    BY <2>1, <2>2, TbSignOK, Sign!Table!NextInv
<1>8. ASSUME class = "TbUser" PROVE HmdpUser!Table!IInv'
  <2>1. HmdpUser!Table!IInv
    BY <1>8 DEF OrmInv
  <2>2. HmdpUser!Table!Next \/ UNCHANGED HmdpUser!Table!tvars
    BY <1>8 DEF Next, vars, HmdpUser!Table!tvars
  <2> QED
    BY <2>1, <2>2, TbUserOK, HmdpUser!Table!NextInv
<1>9. ASSUME class = "TbUserInfo" PROVE UserInfo!Table!IInv'
  <2>1. UserInfo!Table!IInv
    BY <1>9 DEF OrmInv
  <2>2. UserInfo!Table!Next \/ UNCHANGED UserInfo!Table!tvars
    BY <1>9 DEF Next, vars, UserInfo!Table!tvars
  <2> QED
    BY <2>1, <2>2, TbUserInfoOK, UserInfo!Table!NextInv
<1>10. ASSUME class = "TbVoucher" PROVE Voucher!Table!IInv'
  <2>1. Voucher!Table!IInv
    BY <1>10 DEF OrmInv
  <2>2. Voucher!Table!Next \/ UNCHANGED Voucher!Table!tvars
    BY <1>10 DEF Next, vars, Voucher!Table!tvars
  <2> QED
    BY <2>1, <2>2, TbVoucherOK, Voucher!Table!NextInv
<1>11. ASSUME class = "TbVoucherOrder" PROVE VoucherOrder!Table!IInv'
  <2>1. VoucherOrder!Table!IInv
    BY <1>11 DEF OrmInv
  <2>2. VoucherOrder!Table!Next \/ UNCHANGED VoucherOrder!Table!tvars
    BY <1>11 DEF Next, vars, VoucherOrder!Table!tvars
  <2> QED
    BY <2>1, <2>2, TbVoucherOrderOK, VoucherOrder!Table!NextInv
<1>12. ASSUME class = "User" PROVE CenterUser!Table!IInv'
  <2>1. CenterUser!Table!IInv
    BY <1>12 DEF OrmInv
  <2>2. CenterUser!Table!Next \/ UNCHANGED CenterUser!Table!tvars
    BY <1>12 DEF Next, vars, CenterUser!Table!tvars
  <2> QED
    BY <2>1, <2>2, UserOK, CenterUser!Table!NextInv
<1> QED
  BY <1>0, <1>1, <1>2, <1>3, <1>4, <1>5, <1>6, <1>7, <1>8, <1>9, <1>10, <1>11, <1>12 DEF OrmInv

(* The strengthened invariant holds in every state *)
LEMMA OrmInvariant == Spec => []OrmInv
BY OrmInit, OrmNext, PTL DEF Spec

(* Objects, rows and what was sent are well formed, whatever JSON was      *)
(* parsed.                                                                 *)
THEOREM OrmTypeOK == Spec => []TypeOK
<1>1. OrmInv => TypeOK
  <2>1. Blog!Table!IInv => Blog!Table!TypeOK
    BY Blog!Table!InvTypeOK
  <2>2. BlogComments!Table!IInv => BlogComments!Table!TypeOK
    BY BlogComments!Table!InvTypeOK
  <2>3. Follow!Table!IInv => Follow!Table!TypeOK
    BY Follow!Table!InvTypeOK
  <2>4. SeckillVoucher!Table!IInv => SeckillVoucher!Table!TypeOK
    BY SeckillVoucher!Table!InvTypeOK
  <2>5. Shop!Table!IInv => Shop!Table!TypeOK
    BY Shop!Table!InvTypeOK
  <2>6. ShopType!Table!IInv => ShopType!Table!TypeOK
    BY ShopType!Table!InvTypeOK
  <2>7. Sign!Table!IInv => Sign!Table!TypeOK
    BY Sign!Table!InvTypeOK
  <2>8. HmdpUser!Table!IInv => HmdpUser!Table!TypeOK
    BY HmdpUser!Table!InvTypeOK
  <2>9. UserInfo!Table!IInv => UserInfo!Table!TypeOK
    BY UserInfo!Table!InvTypeOK
  <2>10. Voucher!Table!IInv => Voucher!Table!TypeOK
    BY Voucher!Table!InvTypeOK
  <2>11. VoucherOrder!Table!IInv => VoucherOrder!Table!TypeOK
    BY VoucherOrder!Table!InvTypeOK
  <2>12. CenterUser!Table!IInv => CenterUser!Table!TypeOK
    BY CenterUser!Table!InvTypeOK
  <2> QED
    BY <2>1, <2>2, <2>3, <2>4, <2>5, <2>6, <2>7, <2>8, <2>9, <2>10, <2>11, <2>12 DEF OrmInv, TypeOK
<1> QED
  BY <1>1, OrmInvariant, PTL

(* The row that Mapper::insert stores, and the object it hands back, hold  *)
(* each value in the column it was given for: sqlForInserting, outputArgs  *)
(* and the flags agree for every choice of columns, in all classes.        *)
THEOREM OrmInsertedAsSent == Spec => []InsertedAsSent
<1>1. OrmInv => InsertedAsSent
  <2>1. Blog!Table!IInv => Blog!Table!InsertedAsSent
    BY DEF Blog!Table!IInv
  <2>2. BlogComments!Table!IInv => BlogComments!Table!InsertedAsSent
    BY DEF BlogComments!Table!IInv
  <2>3. Follow!Table!IInv => Follow!Table!InsertedAsSent
    BY DEF Follow!Table!IInv
  <2>4. SeckillVoucher!Table!IInv => SeckillVoucher!Table!InsertedAsSent
    BY DEF SeckillVoucher!Table!IInv
  <2>5. Shop!Table!IInv => Shop!Table!InsertedAsSent
    BY DEF Shop!Table!IInv
  <2>6. ShopType!Table!IInv => ShopType!Table!InsertedAsSent
    BY DEF ShopType!Table!IInv
  <2>7. Sign!Table!IInv => Sign!Table!InsertedAsSent
    BY DEF Sign!Table!IInv
  <2>8. HmdpUser!Table!IInv => HmdpUser!Table!InsertedAsSent
    BY DEF HmdpUser!Table!IInv
  <2>9. UserInfo!Table!IInv => UserInfo!Table!InsertedAsSent
    BY DEF UserInfo!Table!IInv
  <2>10. Voucher!Table!IInv => Voucher!Table!InsertedAsSent
    BY DEF Voucher!Table!IInv
  <2>11. VoucherOrder!Table!IInv => VoucherOrder!Table!InsertedAsSent
    BY DEF VoucherOrder!Table!IInv
  <2>12. CenterUser!Table!IInv => CenterUser!Table!InsertedAsSent
    BY DEF CenterUser!Table!IInv
  <2> QED
    BY <2>1, <2>2, <2>3, <2>4, <2>5, <2>6, <2>7, <2>8, <2>9, <2>10, <2>11, <2>12 DEF OrmInv, InsertedAsSent
<1> QED
  BY <1>1, OrmInvariant, PTL

(* What validateJsonForCreation and validateJsonForUpdate accept is        *)
(* stored, and MySQL refuses it only for the two reasons they do not       *)
(* look at.                                                                *)
THEOREM OrmValidatedIsStored == Spec => []ValidatedIsStored
<1>1. OrmInv => ValidatedIsStored
  <2>1. Blog!Table!IInv => Blog!Table!ValidatedIsStored
    BY TbBlogOK, Blog!Table!InvValidated
  <2>2. BlogComments!Table!IInv => BlogComments!Table!ValidatedIsStored
    BY TbBlogCommentsOK, BlogComments!Table!InvValidated
  <2>3. Follow!Table!IInv => Follow!Table!ValidatedIsStored
    BY TbFollowOK, Follow!Table!InvValidated
  <2>4. SeckillVoucher!Table!IInv => SeckillVoucher!Table!ValidatedIsStored
    BY TbSeckillVoucherOK, SeckillVoucher!Table!InvValidated
  <2>5. Shop!Table!IInv => Shop!Table!ValidatedIsStored
    BY TbShopOK, Shop!Table!InvValidated
  <2>6. ShopType!Table!IInv => ShopType!Table!ValidatedIsStored
    BY TbShopTypeOK, ShopType!Table!InvValidated
  <2>7. Sign!Table!IInv => Sign!Table!ValidatedIsStored
    BY TbSignOK, Sign!Table!InvValidated
  <2>8. HmdpUser!Table!IInv => HmdpUser!Table!ValidatedIsStored
    BY TbUserOK, HmdpUser!Table!InvValidated
  <2>9. UserInfo!Table!IInv => UserInfo!Table!ValidatedIsStored
    BY TbUserInfoOK, UserInfo!Table!InvValidated
  <2>10. Voucher!Table!IInv => Voucher!Table!ValidatedIsStored
    BY TbVoucherOK, Voucher!Table!InvValidated
  <2>11. VoucherOrder!Table!IInv => VoucherOrder!Table!ValidatedIsStored
    BY TbVoucherOrderOK, VoucherOrder!Table!InvValidated
  <2>12. CenterUser!Table!IInv => CenterUser!Table!ValidatedIsStored
    BY UserOK, CenterUser!Table!InvValidated
  <2> QED
    BY <2>1, <2>2, <2>3, <2>4, <2>5, <2>6, <2>7, <2>8, <2>9, <2>10, <2>11, <2>12 DEF OrmInv, ValidatedIsStored
<1> QED
  BY <1>1, OrmInvariant, PTL

(* Each column holds the value given for it last, whichever of two clients *)
(* of one row writes first, but for the time of the last update, which     *)
(* MySQL sets, and a column for which JSON gave a null or an unreadable    *)
(* time: Mapper::update writes the stale value of the object there.        *)
THEOREM OrmSentValuesStay == Spec => []SentValuesStay
<1>1. OrmInv => SentValuesStay
  <2>1. Blog!Table!IInv => Blog!Table!SentValuesStay
    BY DEF Blog!Table!IInv
  <2>2. BlogComments!Table!IInv => BlogComments!Table!SentValuesStay
    BY DEF BlogComments!Table!IInv
  <2>3. Follow!Table!IInv => Follow!Table!SentValuesStay
    BY DEF Follow!Table!IInv
  <2>4. SeckillVoucher!Table!IInv => SeckillVoucher!Table!SentValuesStay
    BY DEF SeckillVoucher!Table!IInv
  <2>5. Shop!Table!IInv => Shop!Table!SentValuesStay
    BY DEF Shop!Table!IInv
  <2>6. ShopType!Table!IInv => ShopType!Table!SentValuesStay
    BY DEF ShopType!Table!IInv
  <2>7. Sign!Table!IInv => Sign!Table!SentValuesStay
    BY DEF Sign!Table!IInv
  <2>8. HmdpUser!Table!IInv => HmdpUser!Table!SentValuesStay
    BY DEF HmdpUser!Table!IInv
  <2>9. UserInfo!Table!IInv => UserInfo!Table!SentValuesStay
    BY DEF UserInfo!Table!IInv
  <2>10. Voucher!Table!IInv => Voucher!Table!SentValuesStay
    BY DEF Voucher!Table!IInv
  <2>11. VoucherOrder!Table!IInv => VoucherOrder!Table!SentValuesStay
    BY DEF VoucherOrder!Table!IInv
  <2>12. CenterUser!Table!IInv => CenterUser!Table!SentValuesStay
    BY DEF CenterUser!Table!IInv
  <2> QED
    BY <2>1, <2>2, <2>3, <2>4, <2>5, <2>6, <2>7, <2>8, <2>9, <2>10, <2>11, <2>12 DEF OrmInv, SentValuesStay
<1> QED
  BY <1>1, OrmInvariant, PTL

(* An object reads the same from its row by name, by index, at an offset,  *)
(* and from its own JSON with or without aliases.                          *)
THEOREM OrmRoundTrip == Spec => []RoundTrip
<1>1. OrmInv => RoundTrip
  <2>1. Blog!Table!IInv => Blog!Table!RoundTrip
    BY TbBlogOK, Blog!Table!InvRoundTrip
  <2>2. BlogComments!Table!IInv => BlogComments!Table!RoundTrip
    BY TbBlogCommentsOK, BlogComments!Table!InvRoundTrip
  <2>3. Follow!Table!IInv => Follow!Table!RoundTrip
    BY TbFollowOK, Follow!Table!InvRoundTrip
  <2>4. SeckillVoucher!Table!IInv => SeckillVoucher!Table!RoundTrip
    BY TbSeckillVoucherOK, SeckillVoucher!Table!InvRoundTrip
  <2>5. Shop!Table!IInv => Shop!Table!RoundTrip
    BY TbShopOK, Shop!Table!InvRoundTrip
  <2>6. ShopType!Table!IInv => ShopType!Table!RoundTrip
    BY TbShopTypeOK, ShopType!Table!InvRoundTrip
  <2>7. Sign!Table!IInv => Sign!Table!RoundTrip
    BY TbSignOK, Sign!Table!InvRoundTrip
  <2>8. HmdpUser!Table!IInv => HmdpUser!Table!RoundTrip
    BY TbUserOK, HmdpUser!Table!InvRoundTrip
  <2>9. UserInfo!Table!IInv => UserInfo!Table!RoundTrip
    BY TbUserInfoOK, UserInfo!Table!InvRoundTrip
  <2>10. Voucher!Table!IInv => Voucher!Table!RoundTrip
    BY TbVoucherOK, Voucher!Table!InvRoundTrip
  <2>11. VoucherOrder!Table!IInv => VoucherOrder!Table!RoundTrip
    BY TbVoucherOrderOK, VoucherOrder!Table!InvRoundTrip
  <2>12. CenterUser!Table!IInv => CenterUser!Table!RoundTrip
    BY UserOK, CenterUser!Table!InvRoundTrip
  <2> QED
    BY <2>1, <2>2, <2>3, <2>4, <2>5, <2>6, <2>7, <2>8, <2>9, <2>10, <2>11, <2>12 DEF OrmInv, RoundTrip
<1> QED
  BY <1>1, OrmInvariant, PTL
=============================================================================
