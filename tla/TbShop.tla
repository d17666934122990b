------------------------------- MODULE TbShop -------------------------------
(* The class of table tb_shop (models/TbShop.cc, models/TbShop.h) *)
EXTENDS OrmModel

CONSTANTS AnyInput, Aliases
VARIABLES row, pc, obj, sent, checked, last

metaData_ == <<
  Column("id", "int64", TRUE),
  Column("name", "text", TRUE),
  Column("type_id", "int64", TRUE),
  Column("images", "text", TRUE),
  Column("area", "text", FALSE),
  Column("address", "text", TRUE),
  Column("x", "double", TRUE),
  Column("y", "double", TRUE),
  Column("avg_price", "int64", FALSE),
  Column("sold", "int32", TRUE),
  Column("comments", "int32", TRUE),
  Column("score", "int32", TRUE),
  Column("open_hours", "text", FALSE),
  Column("create_time", "time", FALSE),
  Column("update_time", "time", FALSE)>>

Names == [c \in 1 .. 15 |-> metaData_[c].name]
primaryKey == 1
auto == {1}
defaulted == {14, 15}   \* with a default in the table
onUpdate == {15}   \* the time of the last update in the table

FromRowByName(r) == ReadRow([c \in 1 .. 15 |-> r[Names[c]]])
FromRowByIndex(r, offset) ==
  IF offset + 15 > Len(r) THEN New(15)
  ELSE ReadRow([c \in 1 .. 15 |-> r[offset + c]])

(* mutated: the flag of the next column *)
FromJsonFlagsNext(j) ==
  LET m == ReadJson(metaData_, New(15), j, Names, 1 .. 15)
  IN [m EXCEPT !.dirty = {c + 1 : c \in @}]
FromJson(j) == ReadJson(metaData_, New(15), j, Names, 1 .. 15)
FromMasqueradedJson(j, pv) ==
  IF Len(pv) # 15 THEN New(15)
  ELSE ReadJson(metaData_, New(15), j, pv, 1 .. 15)

(* mutated: every column is flagged *)
updateByJsonAllDirty(m, j) ==
  ReadJson(metaData_, [m EXCEPT !.dirty = 1 .. 15], j, Names, 2 .. 15)
updateByJson(m, j) == ReadJson(metaData_, m, j, Names, 2 .. 15)
updateByMasqueradedJson(m, j, pv) ==
  IF Len(pv) # 15 THEN m ELSE ReadJson(metaData_, m, j, pv, 2 .. 15)
Set(m, c, v) ==
  IF v = Null /\ c \notin {5, 9, 13, 14, 15} THEN m ELSE Assigned(m, c, v)
updateId(m, id) == [m EXCEPT !.val[1] = id]

outputArgs(m) == Bound(m, <<2, 3, 4, 5, 6, 7, 8, 9, 10, 11, 12, 13, 14, 15>>)
updateColumns(m) ==
  Dirty(m, <<2, 3, 4, 5, 6, 7, 8, 9, 10, 11, 12, 13, 14, 15>>)
updateArgs(m) == Bound(m, <<2, 3, 4, 5, 6, 7, 8, 9, 10, 11, 12, 13, 14, 15>>)
sqlForInserting(m) ==
  InsertSql(m, <<1, 2, 3, 4, 5, 6, 7, 8, 9, 10, 11, 12, 13, 14, 15>>, auto, defaulted)
toJson(m) == WriteJson(metaData_, m, Names)
toMasqueradedJson(m, pv) ==
  WriteJson(metaData_, m, IF Len(pv) = 15 THEN pv ELSE Names)

validJsonOfField(c, v, isForCreation) ==
  ValidField(metaData_, auto, c, v, isForCreation)
validateJsonForCreation(j) ==
  Validated([c \in Given(j, Names) |-> validJsonOfField(c, j[Names[c]], TRUE)],
            {2, 3, 4, 6, 7, 8, 10, 11, 12})
validateMasqueradedJsonForCreation(j, pv) ==
  /\ Len(pv) = 15
  /\ Validated([c \in Given(j, pv) |-> validJsonOfField(c, j[pv[c]], TRUE)],
               {c \in {2, 3, 4, 6, 7, 8, 10, 11, 12} : pv[c] # ""})
validateJsonForUpdate(j) ==
  Validated([c \in Given(j, Names) |-> validJsonOfField(c, j[Names[c]], FALSE)],
            {1})
validateMasqueradedJsonForUpdate(j, pv) ==
  /\ Len(pv) = 15
  /\ Validated([c \in Given(j, pv) |-> validJsonOfField(c, j[pv[c]], FALSE)],
               {1})

(* OrmTable, with what OrmTableProofs proves of every class *)
Table == INSTANCE OrmTableProofs
=============================================================================
