------------------------------ MODULE TbFollow ------------------------------
(* The class of table tb_follow (models/TbFollow.cc, models/TbFollow.h) *)
EXTENDS OrmModel

CONSTANTS AnyInput, Aliases
VARIABLES row, pc, obj, sent, checked, last

metaData_ == <<
  Column("id", "int64", TRUE),
  Column("user_id", "int64", TRUE),
  Column("follow_user_id", "int64", TRUE),
  Column("create_time", "time", TRUE)>>

Names == [c \in 1 .. 4 |-> metaData_[c].name]
primaryKey == 1
auto == {1}
defaulted == {4}   \* with a default in the table
onUpdate == {}   \* the time of the last update in the table

FromRowByName(r) == ReadRow([c \in 1 .. 4 |-> r[Names[c]]])
FromRowByIndex(r, offset) ==
  IF offset + 4 > Len(r) THEN New(4)
  ELSE ReadRow([c \in 1 .. 4 |-> r[offset + c]])
FromJson(j) == ReadJson(metaData_, New(4), j, Names, 1 .. 4)
FromMasqueradedJson(j, pv) ==
  IF Len(pv) # 4 THEN New(4)
  ELSE ReadJson(metaData_, New(4), j, pv, 1 .. 4)
updateByJson(m, j) == ReadJson(metaData_, m, j, Names, 2 .. 4)
updateByMasqueradedJson(m, j, pv) ==
  IF Len(pv) # 4 THEN m ELSE ReadJson(metaData_, m, j, pv, 2 .. 4)
Set(m, c, v) == IF v = Null THEN m ELSE Assigned(m, c, v)
updateId(m, id) == [m EXCEPT !.val[1] = id]

outputArgs(m) == Bound(m, <<2, 3, 4>>)
updateColumns(m) == Dirty(m, <<2, 3, 4>>)
updateArgs(m) == Bound(m, <<2, 3, 4>>)
sqlForInserting(m) == InsertSql(m, <<1, 2, 3, 4>>, auto, defaulted)
toJson(m) == WriteJson(metaData_, m, Names)
toMasqueradedJson(m, pv) ==
  WriteJson(metaData_, m, IF Len(pv) = 4 THEN pv ELSE Names)

validJsonOfField(c, v, isForCreation) ==
  ValidField(metaData_, auto, c, v, isForCreation)
validateJsonForCreation(j) ==
  Validated([c \in Given(j, Names) |-> validJsonOfField(c, j[Names[c]], TRUE)],
            {2, 3})
validateMasqueradedJsonForCreation(j, pv) ==
  /\ Len(pv) = 4
  /\ Validated([c \in Given(j, pv) |-> validJsonOfField(c, j[pv[c]], TRUE)],
               {c \in {2, 3} : pv[c] # ""})
validateJsonForUpdate(j) ==
  Validated([c \in Given(j, Names) |-> validJsonOfField(c, j[Names[c]], FALSE)],
            {1})
validateMasqueradedJsonForUpdate(j, pv) ==
  /\ Len(pv) = 4
  /\ Validated([c \in Given(j, pv) |-> validJsonOfField(c, j[pv[c]], FALSE)],
               {1})

(* OrmTable, with what OrmTableProofs proves of every class *)
Table == INSTANCE OrmTableProofs
=============================================================================
