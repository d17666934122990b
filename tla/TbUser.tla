------------------------------- MODULE TbUser -------------------------------
(* The class of table tb_user (models/TbUser.cc, models/TbUser.h) *)
EXTENDS OrmModel

CONSTANTS AnyInput, Aliases
VARIABLES row, pc, obj, sent, checked, last

metaData_ == <<
  Column("id", "int64", TRUE),
  Column("phone", "text", TRUE),
  Column("password", "text", FALSE),
  Column("nick_name", "text", FALSE),
  Column("icon", "text", FALSE),
  Column("create_time", "time", TRUE),
  Column("update_time", "time", TRUE)>>

Names == [c \in 1 .. 7 |-> metaData_[c].name]
primaryKey == 1
auto == {1}
defaulted == {6, 7}   \* with a default in the table
onUpdate == {7}   \* the time of the last update in the table

FromRowByName(r) == ReadRow([c \in 1 .. 7 |-> r[Names[c]]])
FromRowByIndex(r, offset) ==
  IF offset + 7 > Len(r) THEN New(7)
  ELSE ReadRow([c \in 1 .. 7 |-> r[offset + c]])
FromJson(j) == ReadJson(metaData_, New(7), j, Names, 1 .. 7)
FromMasqueradedJson(j, pv) ==
  IF Len(pv) # 7 THEN New(7)
  ELSE ReadJson(metaData_, New(7), j, pv, 1 .. 7)
updateByJson(m, j) == ReadJson(metaData_, m, j, Names, 2 .. 7)
updateByMasqueradedJson(m, j, pv) ==
  IF Len(pv) # 7 THEN m ELSE ReadJson(metaData_, m, j, pv, 2 .. 7)
Set(m, c, v) ==
  IF v = Null /\ c \notin {3, 4, 5} THEN m ELSE Assigned(m, c, v)
updateId(m, id) == [m EXCEPT !.val[1] = id]

outputArgs(m) == Bound(m, <<2, 3, 4, 5, 6, 7>>)
updateColumns(m) == Dirty(m, <<2, 3, 4, 5, 6, 7>>)
updateArgs(m) == Bound(m, <<2, 3, 4, 5, 6, 7>>)
sqlForInserting(m) == InsertSql(m, <<1, 2, 3, 4, 5, 6, 7>>, auto, defaulted)
toJson(m) == WriteJson(metaData_, m, Names)
toMasqueradedJson(m, pv) ==
  WriteJson(metaData_, m, IF Len(pv) = 7 THEN pv ELSE Names)


(* mutated: a null is accepted for every column *)
validJsonOfFieldNull(c, v, isForCreation) ==
  v = Null \/ ValidField(metaData_, auto, c, v, isForCreation)
validJsonOfField(c, v, isForCreation) ==
  ValidField(metaData_, auto, c, v, isForCreation)
validateJsonForCreation(j) ==
  Validated([c \in Given(j, Names) |-> validJsonOfField(c, j[Names[c]], TRUE)],
            {2})
validateMasqueradedJsonForCreation(j, pv) ==
  /\ Len(pv) = 7
  /\ Validated([c \in Given(j, pv) |-> validJsonOfField(c, j[pv[c]], TRUE)],
               {c \in {2} : pv[c] # ""})
validateJsonForUpdate(j) ==
  Validated([c \in Given(j, Names) |-> validJsonOfField(c, j[Names[c]], FALSE)],
            {1})
validateMasqueradedJsonForUpdate(j, pv) ==
  /\ Len(pv) = 7
  /\ Validated([c \in Given(j, pv) |-> validJsonOfField(c, j[pv[c]], FALSE)],
               {1})

(* OrmTable, with what OrmTableProofs proves of every class *)
Table == INSTANCE OrmTableProofs
=============================================================================
