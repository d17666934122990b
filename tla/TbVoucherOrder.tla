--------------------------- MODULE TbVoucherOrder ---------------------------
(* The class of table tb_voucher_order (models/TbVoucherOrder.cc, models/TbVoucherOrder.h) *)
EXTENDS OrmModel

CONSTANTS AnyInput, Aliases
VARIABLES row, pc, obj, sent, checked, last

metaData_ == <<
  Column("id", "int64", TRUE),
  Column("user_id", "int64", TRUE),
  Column("voucher_id", "int64", TRUE),
  Column("pay_type", "int8", TRUE),
  Column("status", "int8", TRUE),
  Column("create_time", "time", TRUE),
  Column("pay_time", "time", FALSE),
  Column("use_time", "time", FALSE),
  Column("refund_time", "time", FALSE),
  Column("update_time", "time", TRUE)>>

Names == [c \in 1 .. 10 |-> metaData_[c].name]
primaryKey == 1
auto == {}
defaulted == {4, 5, 6, 10}   \* with a default in the table
onUpdate == {10}   \* the time of the last update in the table

FromRowByName(r) == ReadRow([c \in 1 .. 10 |-> r[Names[c]]])
FromRowByIndex(r, offset) ==
  IF offset + 10 > Len(r) THEN New(10)
  ELSE ReadRow([c \in 1 .. 10 |-> r[offset + c]])
FromJson(j) == ReadJson(metaData_, New(10), j, Names, 1 .. 10)
FromMasqueradedJson(j, pv) ==
  IF Len(pv) # 10 THEN New(10)
  ELSE ReadJson(metaData_, New(10), j, pv, 1 .. 10)
updateByJson(m, j) == ReadJson(metaData_, m, j, Names, 2 .. 10)
updateByMasqueradedJson(m, j, pv) ==
  IF Len(pv) # 10 THEN m ELSE ReadJson(metaData_, m, j, pv, 2 .. 10)
Set(m, c, v) ==
  IF v = Null /\ c \notin {7, 8, 9} THEN m ELSE Assigned(m, c, v)
updateId(m, id) == m

outputArgs(m) == Bound(m, <<1, 2, 3, 4, 5, 6, 7, 8, 9, 10>>)
updateColumns(m) == Dirty(m, <<1, 2, 3, 4, 5, 6, 7, 8, 9, 10>>)
updateArgs(m) == Bound(m, <<1, 2, 3, 4, 5, 6, 7, 8, 9, 10>>)
sqlForInserting(m) ==
  InsertSql(m, <<1, 2, 3, 4, 5, 6, 7, 8, 9, 10>>, auto, defaulted)
toJson(m) == WriteJson(metaData_, m, Names)
toMasqueradedJson(m, pv) ==
  WriteJson(metaData_, m, IF Len(pv) = 10 THEN pv ELSE Names)

validJsonOfField(c, v, isForCreation) ==
  ValidField(metaData_, auto, c, v, isForCreation)
validateJsonForCreation(j) ==
  Validated([c \in Given(j, Names) |-> validJsonOfField(c, j[Names[c]], TRUE)],
            {1, 2, 3})
validateMasqueradedJsonForCreation(j, pv) ==
  /\ Len(pv) = 10
  /\ Validated([c \in Given(j, pv) |-> validJsonOfField(c, j[pv[c]], TRUE)],
               {c \in {1, 2, 3} : pv[c] # ""})
validateJsonForUpdate(j) ==
  Validated([c \in Given(j, Names) |-> validJsonOfField(c, j[Names[c]], FALSE)],
            {1})
validateMasqueradedJsonForUpdate(j, pv) ==
  /\ Len(pv) = 10
  /\ Validated([c \in Given(j, pv) |-> validJsonOfField(c, j[pv[c]], FALSE)],
               {1})

(* OrmTable, with what OrmTableProofs proves of every class *)
Table == INSTANCE OrmTableProofs
=============================================================================
