------------------------------ MODULE OrmModel ------------------------------
(***************************************************************************)
(* What the classes that drogon_ctl generates for the tables have in       *)
(* common.  The code of a class is the same few steps once for each        *)
(* column; an operator here is such a step for a list of columns, and the  *)
(* module of a class says which columns each of its functions goes         *)
(* through.  Columns are numbered from 1 (dirtyFlag_ from 0).              *)
(*                                                                         *)
(* A value is <<tag, column>>: the column it was made for shows an         *)
(* argument bound to the wrong one.  The tags stand for                    *)
(*   wide     a text longer than the column, a number beyond its width     *)
(*   other    what is stored instead of a value that does not fit          *)
(*   garbled  a text that is not in the format of strptime                 *)
(*   midnight a time whose time of day is 00:00:00                         *)
(*   bad      a JSON value of a type that Json::Value does not convert     *)
(*   now      the time at which the database carries out a statement       *)
(***************************************************************************)
EXTENDS Integers, Sequences, FiniteSets

Null == <<"null", 0>>       \* an empty shared_ptr, a JSON null, an SQL NULL
Absent == <<"absent", 0>>   \* no such member
Tags == {"null", "absent", "new", "edit", "set", "old", "midnight", "wide", "other",
         "garbled", "bad", "id", "default", "now"}

(* a row of metaData_, by what the code distinguishes *)
Column(name, type, notNull) == [name |-> name, type |-> type, notNull |-> notNull]

New(n) == [val |-> [c \in 1 .. n |-> Null], dirty |-> {}]

(* The cast to the column's integer type and mktime of a zeroed tm *)
Converted(type, v) ==
  IF \/ v[1] = "wide" /\ type \in {"int8", "int32"}
     \/ v[1] = "garbled" /\ type = "date"
  THEN <<"other", v[2]>>
  ELSE v

(* strptime returns NULL for a time it cannot read: nothing is stored *)
Readable(type, v) == v # Null /\ ~(v[1] = "garbled" /\ type = "time")

(* The members of a JSON object that the names or aliases in keys select *)
Given(json, keys) == {c \in DOMAIN keys : keys[c] # "" /\ keys[c] \in DOMAIN json}

(* asInt64(), asString() ... throw *)
Throws(json, keys) == \E c \in Given(json, keys) : json[keys[c]][1] = "bad"

(* if(isMember(key)) { dirtyFlag_[c] = true; if(!isNull()) value = ... } *)
(* for every column, without the flag for those not in marked            *)
ReadJson(meta, m, json, keys, marked) ==
  LET given == Given(json, keys)
      Reads(c) == c \in given /\ Readable(meta[c].type, json[keys[c]])
  IN [val |-> [c \in DOMAIN m.val |->
                 IF Reads(c) THEN Converted(meta[c].type, json[keys[c]])
                             ELSE m.val[c]],
      dirty |-> m.dirty \cup (given \cap marked)]

(* if(!r[...].isNull()) value = ...; no flag is set *)
ReadRow(r) == [val |-> r, dirty |-> {}]

(* value = v; dirtyFlag_[c] = true *)
Assigned(m, c, v) ==
  [val |-> [m.val EXCEPT ![c] = v], dirty |-> m.dirty \cup {c}]

(* one if after another, each for a column of cols: those that hold for S, *)
(* in the order of the code                                                *)
Kept(cols, S) ==
  LET places == {i \in DOMAIN cols : cols[i] \in S}
      Rank(i) == Cardinality({j \in places : j <= i})
  IN [n \in 1 .. Cardinality(places) |-> cols[CHOOSE i \in places : Rank(i) = n]]

(* the columns of cols whose flag is set *)
Dirty(m, cols) == Kept(cols, m.dirty)

(* if(dirtyFlag_[c]) binder << value or nullptr *)
Bound(m, cols) == LET d == Dirty(m, cols) IN [i \in DOMAIN d |-> m.val[d[i]]]

(* sqlForInserting: auto is listed always with the value default, those in *)
(* defaulted are listed always, the others when their flag is set          *)
InsertSql(m, cols, auto, defaulted) ==
  LET listed == Kept(cols, m.dirty \cup auto \cup defaulted)
  IN [columns |-> listed,
      values |-> [i \in DOMAIN listed |->
                    IF listed[i] \in auto \/ listed[i] \notin m.dirty
                    THEN "default" ELSE "?"],
      needSelection |-> auto # {} \/ ~(defaulted \subseteq m.dirty)]

(* toDbStringLocal leaves out a time of day of 00:00:00, which strptime *)
(* then misses                                                          *)
Printed(type, v) ==
  IF v[1] = "midnight" /\ type = "time" THEN <<"garbled", v[2]>> ELSE v

(* ret[key] = value or Json::Value() for every column with a key *)
WriteJson(meta, m, keys) ==
  LET kept == {c \in DOMAIN keys : keys[c] # ""}
  IN [k \in {keys[c] : c \in kept} |->
        LET c == CHOOSE d \in kept : keys[d] = k
        IN Printed(meta[c].type, m.val[c])]

(* one case of validJsonOfField; auto: the automatic primary key *)
ValidField(meta, auto, c, v, isForCreation) ==
  /\ v = Null => ~meta[c].notNull
  /\ ~(c \in auto /\ isForCreation)
  /\ v[1] # "bad"
  /\ ~(v[1] = "wide" /\ meta[c].type \in {"text", "int32"})

(* every given member is valid, and those of required are given *)
Validated(valid, required) ==
  required \subseteq DOMAIN valid /\ \A c \in DOMAIN valid : valid[c]
=============================================================================
