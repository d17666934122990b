----------------------------- MODULE TbVoucher ------------------------------
(* The class of table tb_voucher (models/TbVoucher.cc, models/TbVoucher.h) *)
EXTENDS OrmModel

CONSTANTS AnyInput, Aliases
VARIABLES row, pc, obj, sent, checked, last

metaData_ == <<
  Column("id", "int64", TRUE),
  Column("shop_id", "int64", FALSE),
  Column("title", "text", TRUE),
  Column("sub_title", "text", FALSE),
  Column("rules", "text", FALSE),
  Column("pay_value", "int64", TRUE),
  Column("actual_value", "int64", TRUE),
  Column("type", "int8", TRUE),
  Column("status", "int8", TRUE),
  Column("create_time", "time", TRUE),
  Column("update_time", "time", TRUE)>>

Names == [c \in 1 .. 11 |-> metaData_[c].name]
primaryKey == 1
auto == {1}
defaulted == {8, 9, 10, 11}   \* with a default in the table
onUpdate == {11}   \* the time of the last update in the table

FromRowByName(r) == ReadRow([c \in 1 .. 11 |-> r[Names[c]]])
FromRowByIndex(r, offset) ==
  IF offset + 11 > Len(r) THEN New(11)
  ELSE ReadRow([c \in 1 .. 11 |-> r[offset + c]])
FromJson(j) == ReadJson(metaData_, New(11), j, Names, 1 .. 11)
FromMasqueradedJson(j, pv) ==
  IF Len(pv) # 11 THEN New(11)
  ELSE ReadJson(metaData_, New(11), j, pv, 1 .. 11)
updateByJson(m, j) == ReadJson(metaData_, m, j, Names, 2 .. 11)
updateByMasqueradedJson(m, j, pv) ==
  IF Len(pv) # 11 THEN m ELSE ReadJson(metaData_, m, j, pv, 2 .. 11)
Set(m, c, v) ==
  IF v = Null /\ c \notin {2, 4, 5} THEN m ELSE Assigned(m, c, v)
updateId(m, id) == [m EXCEPT !.val[1] = id]


(* mutated: title and sub_title in the wrong order *)
outputArgsSwapped(m) == Bound(m, <<2, 4, 3, 5, 6, 7, 8, 9, 10, 11>>)
outputArgs(m) == Bound(m, <<2, 3, 4, 5, 6, 7, 8, 9, 10, 11>>)
updateColumns(m) == Dirty(m, <<2, 3, 4, 5, 6, 7, 8, 9, 10, 11>>)
updateArgs(m) == Bound(m, <<2, 3, 4, 5, 6, 7, 8, 9, 10, 11>>)
sqlForInserting(m) ==
  InsertSql(m, <<1, 2, 3, 4, 5, 6, 7, 8, 9, 10, 11>>, auto, defaulted)
toJson(m) == WriteJson(metaData_, m, Names)
toMasqueradedJson(m, pv) ==
  WriteJson(metaData_, m, IF Len(pv) = 11 THEN pv ELSE Names)

validJsonOfField(c, v, isForCreation) ==
  ValidField(metaData_, auto, c, v, isForCreation)
validateJsonForCreation(j) ==
  Validated([c \in Given(j, Names) |-> validJsonOfField(c, j[Names[c]], TRUE)],
            {3, 6, 7})
validateMasqueradedJsonForCreation(j, pv) ==
  /\ Len(pv) = 11
  /\ Validated([c \in Given(j, pv) |-> validJsonOfField(c, j[pv[c]], TRUE)],
               {c \in {3, 6, 7} : pv[c] # ""})
validateJsonForUpdate(j) ==
  Validated([c \in Given(j, Names) |-> validJsonOfField(c, j[Names[c]], FALSE)],
            {1})
validateMasqueradedJsonForUpdate(j, pv) ==
  /\ Len(pv) = 11
  /\ Validated([c \in Given(j, pv) |-> validJsonOfField(c, j[pv[c]], FALSE)],
               {1})

(* OrmTable, with what OrmTableProofs proves of every class *)
Table == INSTANCE OrmTableProofs
=============================================================================
