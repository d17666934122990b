----------------------------- MODULE TbShopType -----------------------------
(* The class of table tb_shop_type (models/TbShopType.cc, models/TbShopType.h) *)
EXTENDS OrmModel

CONSTANTS AnyInput, Aliases
VARIABLES row, pc, obj, sent, checked, last

metaData_ == <<
  Column("id", "int64", TRUE),
  Column("name", "text", FALSE),
  Column("icon", "text", FALSE),
  Column("sort", "int32", FALSE),
  Column("create_time", "time", FALSE),
  Column("update_time", "time", FALSE)>>

Names == [c \in 1 .. 6 |-> metaData_[c].name]
primaryKey == 1
auto == {1}
defaulted == {5, 6}   \* with a default in the table
onUpdate == {6}   \* the time of the last update in the table

FromRowByName(r) == ReadRow([c \in 1 .. 6 |-> r[Names[c]]])
FromRowByIndex(r, offset) ==
  IF offset + 6 > Len(r) THEN New(6)
  ELSE ReadRow([c \in 1 .. 6 |-> r[offset + c]])
FromJson(j) == ReadJson(metaData_, New(6), j, Names, 1 .. 6)
FromMasqueradedJson(j, pv) ==
  IF Len(pv) # 6 THEN New(6)
  ELSE ReadJson(metaData_, New(6), j, pv, 1 .. 6)
updateByJson(m, j) == ReadJson(metaData_, m, j, Names, 2 .. 6)
updateByMasqueradedJson(m, j, pv) ==
  IF Len(pv) # 6 THEN m ELSE ReadJson(metaData_, m, j, pv, 2 .. 6)
Set(m, c, v) ==
  IF v = Null /\ c \notin {2, 3, 4, 5, 6} THEN m ELSE Assigned(m, c, v)
updateId(m, id) == [m EXCEPT !.val[1] = id]

outputArgs(m) == Bound(m, <<2, 3, 4, 5, 6>>)
updateColumns(m) == Dirty(m, <<2, 3, 4, 5, 6>>)
updateArgs(m) == Bound(m, <<2, 3, 4, 5, 6>>)
sqlForInserting(m) == InsertSql(m, <<1, 2, 3, 4, 5, 6>>, auto, defaulted)
toJson(m) == WriteJson(metaData_, m, Names)
toMasqueradedJson(m, pv) ==
  WriteJson(metaData_, m, IF Len(pv) = 6 THEN pv ELSE Names)

validJsonOfField(c, v, isForCreation) ==
  ValidField(metaData_, auto, c, v, isForCreation)
validateJsonForCreation(j) ==
  Validated([c \in Given(j, Names) |-> validJsonOfField(c, j[Names[c]], TRUE)],
            {})
validateMasqueradedJsonForCreation(j, pv) ==
  /\ Len(pv) = 6
  /\ Validated([c \in Given(j, pv) |-> validJsonOfField(c, j[pv[c]], TRUE)],
               {c \in {} : pv[c] # ""})
validateJsonForUpdate(j) ==
  Validated([c \in Given(j, Names) |-> validJsonOfField(c, j[Names[c]], FALSE)],
            {1})
validateMasqueradedJsonForUpdate(j, pv) ==
  /\ Len(pv) = 6
  /\ Validated([c \in Given(j, pv) |-> validJsonOfField(c, j[pv[c]], FALSE)],
               {1})

(* OrmTable, with what OrmTableProofs proves of every class *)
Table == INSTANCE OrmTableProofs
=============================================================================
