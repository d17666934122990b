-------------------------------- MODULE User --------------------------------
(* The class of table user (models/User.cc, models/User.h) *)
EXTENDS OrmModel

CONSTANTS AnyInput, Aliases
VARIABLES row, pc, obj, sent, checked, last

metaData_ == <<
  Column("username", "text", FALSE),
  Column("id", "int64", TRUE),
  Column("userAccount", "text", FALSE),
  Column("avatarUrl", "text", FALSE),
  Column("gender", "int8", FALSE),
  Column("userPassword", "text", TRUE),
  Column("iphone", "text", FALSE),
  Column("email", "text", TRUE),
  Column("userStatus", "int32", FALSE),
  Column("createTime", "time", FALSE),
  Column("updateTime", "time", FALSE),
  Column("idDelete", "int8", TRUE),
  Column("userRole", "int32", TRUE),
  Column("planetCode", "text", FALSE)>>

Names == [c \in 1 .. 14 |-> metaData_[c].name]
primaryKey == 2
auto == {2}
defaulted == {9, 10, 11, 12, 13}   \* with a default in the table
onUpdate == {11}   \* the time of the last update in the table

FromRowByName(r) == ReadRow([c \in 1 .. 14 |-> r[Names[c]]])
FromRowByIndex(r, offset) ==
  IF offset + 14 > Len(r) THEN New(14)
  ELSE ReadRow([c \in 1 .. 14 |-> r[offset + c]])
FromJson(j) == ReadJson(metaData_, New(14), j, Names, 1 .. 14)
FromMasqueradedJson(j, pv) ==
  IF Len(pv) # 14 THEN New(14)
  ELSE ReadJson(metaData_, New(14), j, pv, 1 .. 14)
updateByJson(m, j) == ReadJson(metaData_, m, j, Names, (1 .. 14) \ {2})
updateByMasqueradedJson(m, j, pv) ==
  IF Len(pv) # 14 THEN m ELSE ReadJson(metaData_, m, j, pv, (1 .. 14) \ {2})
Set(m, c, v) ==
  IF v = Null /\ c \notin {1, 3, 4, 5, 7, 9, 10, 11, 14} THEN m ELSE Assigned(m, c, v)
updateId(m, id) == [m EXCEPT !.val[2] = id]

outputArgs(m) == Bound(m, <<1, 3, 4, 5, 6, 7, 8, 9, 10, 11, 12, 13, 14>>)
updateColumns(m) == Dirty(m, <<1, 3, 4, 5, 6, 7, 8, 9, 10, 11, 12, 13, 14>>)
updateArgs(m) == Bound(m, <<1, 3, 4, 5, 6, 7, 8, 9, 10, 11, 12, 13, 14>>)
sqlForInserting(m) ==
  InsertSql(m, <<1, 2, 3, 4, 5, 6, 7, 8, 9, 10, 11, 12, 13, 14>>, auto, defaulted)
toJson(m) == WriteJson(metaData_, m, Names)
toMasqueradedJson(m, pv) ==
  WriteJson(metaData_, m, IF Len(pv) = 14 THEN pv ELSE Names)

validJsonOfField(c, v, isForCreation) ==
  ValidField(metaData_, auto, c, v, isForCreation)
validateJsonForCreation(j) ==
  Validated([c \in Given(j, Names) |-> validJsonOfField(c, j[Names[c]], TRUE)],
            {6, 8})
validateMasqueradedJsonForCreation(j, pv) ==
  /\ Len(pv) = 14
  /\ Validated([c \in Given(j, pv) |-> validJsonOfField(c, j[pv[c]], TRUE)],
               {c \in {6, 8} : pv[c] # ""})
validateJsonForUpdate(j) ==
  Validated([c \in Given(j, Names) |-> validJsonOfField(c, j[Names[c]], FALSE)],
            {2})
validateMasqueradedJsonForUpdate(j, pv) ==
  /\ Len(pv) = 14
  /\ Validated([c \in Given(j, pv) |-> validJsonOfField(c, j[pv[c]], FALSE)],
               {2})

(* OrmTable, with what OrmTableProofs proves of every class *)
Table == INSTANCE OrmTableProofs
=============================================================================
