----------------------------- MODULE TbUserInfo -----------------------------
(* The class of table tb_user_info (models/TbUserInfo.cc, models/TbUserInfo.h) *)
EXTENDS OrmModel

CONSTANTS AnyInput, Aliases
VARIABLES row, pc, obj, sent, checked, last

metaData_ == <<
  Column("user_id", "int64", TRUE),
  Column("city", "text", FALSE),
  Column("introduce", "text", FALSE),
  Column("fans", "int32", FALSE),
  Column("followee", "int32", FALSE),
  Column("gender", "int8", FALSE),
  Column("birthday", "date", FALSE),
  Column("credits", "int32", FALSE),
  Column("level", "int8", FALSE),
  Column("create_time", "time", TRUE),
  Column("update_time", "time", TRUE)>>

Names == [c \in 1 .. 11 |-> metaData_[c].name]
primaryKey == 1
auto == {}
defaulted == {4, 5, 6, 8, 9, 10, 11}   \* with a default in the table
onUpdate == {11}   \* the time of the last update in the table

FromRowByName(r) == ReadRow([c \in 1 .. 11 |-> r[Names[c]]])
FromRowByIndex(r, offset) ==
  IF offset + 11 > Len(r) THEN New(11)
  ELSE ReadRow([c \in 1 .. 11 |-> r[offset + c]])
FromJson(j) == ReadJson(metaData_, New(11), j, Names, 1 .. 11)
FromMasqueradedJson(j, pv) ==
  IF Len(pv) # 11 THEN New(11)
  ELSE ReadJson(metaData_, New(11), j, pv, 1 .. 11)
updateByJson(m, j) == ReadJson(metaData_, m, j, Names, 2 .. 11)
updateByMasqueradedJson(m, j, pv) ==
  IF Len(pv) # 11 THEN m ELSE ReadJson(metaData_, m, j, pv, 2 .. 11)
Set(m, c, v) ==
  IF v = Null /\ c \notin {2, 3, 4, 5, 6, 7, 8, 9} THEN m ELSE Assigned(m, c, v)
updateId(m, id) == m

outputArgs(m) == Bound(m, <<1, 2, 3, 4, 5, 6, 7, 8, 9, 10, 11>>)
updateColumns(m) == Dirty(m, <<1, 2, 3, 4, 5, 6, 7, 8, 9, 10, 11>>)
updateArgs(m) == Bound(m, <<1, 2, 3, 4, 5, 6, 7, 8, 9, 10, 11>>)
sqlForInserting(m) ==
  InsertSql(m, <<1, 2, 3, 4, 5, 6, 7, 8, 9, 10, 11>>, auto, defaulted)
toJson(m) == WriteJson(metaData_, m, Names)
toMasqueradedJson(m, pv) ==
  WriteJson(metaData_, m, IF Len(pv) = 11 THEN pv ELSE Names)

validJsonOfField(c, v, isForCreation) ==
  ValidField(metaData_, auto, c, v, isForCreation)
validateJsonForCreation(j) ==
  Validated([c \in Given(j, Names) |-> validJsonOfField(c, j[Names[c]], TRUE)],
            {1})
validateMasqueradedJsonForCreation(j, pv) ==
  /\ Len(pv) = 11
  /\ Validated([c \in Given(j, pv) |-> validJsonOfField(c, j[pv[c]], TRUE)],
               {c \in {1} : pv[c] # ""})
validateJsonForUpdate(j) ==
  Validated([c \in Given(j, Names) |-> validJsonOfField(c, j[Names[c]], FALSE)],
            {1})
validateMasqueradedJsonForUpdate(j, pv) ==
  /\ Len(pv) = 11
  /\ Validated([c \in Given(j, pv) |-> validJsonOfField(c, j[pv[c]], FALSE)],
               {1})

(* OrmTable, with what OrmTableProofs proves of every class *)
Table == INSTANCE OrmTableProofs
=============================================================================
