------------------------------ MODULE OrmTable ------------------------------
(***************************************************************************)
(* One generated class at work.  The parameters are the functions of the   *)
(* class; the actions are those of its callers and of drogon's Mapper,     *)
(* which is not in this repository and is modelled by the calls it makes   *)
(* (the class declares it a friend): insert runs sqlForInserting and       *)
(* outputArgs, then updateId and, if needed, reads the row back; update    *)
(* runs "set <updateColumns> where <primary key> = ?" with updateArgs;     *)
(* find builds an object from a row.                                       *)
(*                                                                         *)
(* "creator" builds a row from JSON.  When there is a row, "editor"        *)
(* changes it by JSON and "setter" through a set function, at the same     *)
(* time, each on an object of its own.                                     *)
(***************************************************************************)
EXTENDS OrmModel, FiniteSets

CONSTANTS
  AnyInput,   \* TRUE: a JSON may give any of its members any value; FALSE: at
              \* most one of them is unusual
  Aliases,    \* what may be an alias, besides the names of the columns
  metaData_, primaryKey, auto, defaulted, onUpdate,
  FromRowByName(_), FromRowByIndex(_, _), FromJson(_),
  FromMasqueradedJson(_, _), updateByJson(_, _),
  updateByMasqueradedJson(_, _, _), Set(_, _, _), updateId(_, _),
  outputArgs(_), updateColumns(_), updateArgs(_), sqlForInserting(_),
  toJson(_), toMasqueradedJson(_, _),
  validateJsonForCreation(_), validateMasqueradedJsonForCreation(_, _),
  validateJsonForUpdate(_), validateMasqueradedJsonForUpdate(_, _)

VARIABLES
  row,      \* the row of the table with primary key 1, << >> if there is none
  pc,       \* what each client has done
  obj,      \* the object it works on
  sent,     \* the values it has given for the columns
  checked,  \* did the validator accept its JSON
  last      \* history: for each column, the value a client gave last

tvars == <<row, pc, obj, sent, checked, last>>

Columns == DOMAIN metaData_
Size == Len(metaData_)
Names == LET meta == metaData_ IN [c \in DOMAIN meta |-> meta[c].name]
Type(c) == metaData_[c].type
NotNull(c) == metaData_[c].notNull

Clients == {"creator", "editor", "setter"}
Value(tag) == [c \in Columns |-> <<tag, c>>]
Nothing == [c \in Columns |-> Absent]

(* aliases of the columns: the name of the next one, also with the last    *)
(* one left out, and a vector of the wrong size                           *)
Rotated == LET names == Names IN Append(Tail(names), Head(names))
Hiding == [Rotated EXCEPT ![Size] = ""]
Short == Tail(Names)

Json(keys, s) ==
  LET members == {c \in DOMAIN keys : keys[c] # "" /\ s[c] # Absent}
  IN [k \in {keys[c] : c \in members} |->
        s[CHOOSE c \in members : keys[c] = k]]

(* what a member of a column may be besides a plain value *)
Odd(c) ==
  {Null, <<"bad", c>>}
  \cup (IF Type(c) \in {"text", "int32", "int8"} THEN {<<"wide", c>>} ELSE {})
  \cup (IF Type(c) \in {"time", "date"} THEN {<<"garbled", c>>} ELSE {})

(* one member of s replaced, or none *)
Deviations(s, more) ==
  {s} \cup UNION {{[s EXCEPT ![c] = v] : v \in Odd(c) \cup more[c]} : c \in Columns}

AllInputs ==
  {s \in [Columns -> Tags \X (0 .. Size)] :
     \A c \in Columns :
       s[c] \in Odd(c) \cup {Absent, <<"new", c>>, <<"edit", c>>, <<"old", c>>}}

Required == {c \in Columns \ (auto \cup defaulted) : NotNull(c)}
Minimal == [c \in Columns |-> IF c \in Required THEN <<"new", c>> ELSE Absent]
Full == [c \in Columns |-> IF c \in auto THEN Absent ELSE <<"new", c>>]
CreationInputs ==
  LET more == [c \in Columns |-> {Absent, <<"new", c>>}]
  IN IF AnyInput THEN AllInputs
     ELSE Deviations(Minimal, more) \cup Deviations(Full, more)
AliasedInputs == IF AnyInput THEN AllInputs ELSE {Minimal, Full}

PkOnly == [Nothing EXCEPT ![primaryKey] = <<"old", primaryKey>>]
AllOf == [Value("edit") EXCEPT ![primaryKey] = <<"old", primaryKey>>]
EditInputs ==
  LET more == [c \in Columns |-> {Absent, <<"edit", c>>}]
  IN IF AnyInput THEN AllInputs ELSE Deviations(PkOnly, more) \cup {AllOf}

(* vectors of one alias for each column: "" leaves a column out, no two    *)
(* others are the same                                                     *)
Texts == Aliases \cup {""} \cup {Names[c] : c \in Columns}
AllVectors ==
  {pv \in [Columns -> Texts] :
     \A c, d \in Columns : pv[c] = pv[d] /\ pv[c] # "" => c = d}
Vectors == IF AnyInput THEN AllVectors ELSE {Rotated, Hiding}
BadVectors == IF AnyInput THEN {pv \in Seq(Texts) : Len(pv) # Size} ELSE {Short}

(* a caller that creates rows by aliases leaves out what a row may lack *)
CreationVectors == {pv \in Vectors : \A c \in Required : pv[c] # ""}

TypeOK ==
  /\ row = <<>> \/ DOMAIN row = Columns
  /\ pc \in [Clients -> {"idle", "ready", "done", "refused", "away"}]
  /\ \A k \in Clients : /\ DOMAIN obj[k].val = Columns
                        /\ obj[k].dirty \subseteq Columns
                        /\ DOMAIN sent[k] = Columns
  /\ checked \in [Clients -> BOOLEAN]
  /\ DOMAIN last = Columns

ByName(r) ==
  LET names == Names
  IN [k \in {names[c] : c \in DOMAIN names} |->
        r[CHOOSE c \in DOMAIN names : names[c] = k]]

Existing(times) ==
  [c \in Columns |-> IF Type(c) = "time" THEN <<times, c>> ELSE <<"old", c>>]

Init ==
  /\ row \in {<<>>, Existing("old"), Existing("midnight")}
  /\ pc = [k \in Clients |->
             IF row = IF k = "creator" THEN <<>> ELSE Existing("old")
               THEN "idle" ELSE "away"]
  /\ obj = [k \in Clients |-> New(Size)]
  /\ sent = [k \in Clients |-> Nothing]
  /\ checked = [k \in Clients |-> FALSE]
  /\ last = IF row = <<>> THEN Nothing ELSE row

-----------------------------------------------------------------------------
Become(k, label) == pc' = [pc EXCEPT ![k] = label]
Hold(k, m, s, ok) ==
  /\ obj' = [obj EXCEPT ![k] = m]
  /\ sent' = [sent EXCEPT ![k] = s]
  /\ checked' = [checked EXCEPT ![k] = ok]

(* an object from JSON, also a JSON the validator refuses: the services do *)
(* not call it; a conversion that throws ends the request                  *)
Build(k, s) ==
  LET json == Json(Names, s)
  IN /\ IF Throws(json, Names)
          THEN Become(k, "refused") /\ UNCHANGED obj
          ELSE Become(k, "ready") /\ obj' = [obj EXCEPT ![k] = FromJson(json)]
     /\ sent' = [sent EXCEPT ![k] = s]

Create(s) ==
  /\ pc["creator"] = "idle"
  /\ Build("creator", s)
  /\ checked' = [checked EXCEPT !["creator"] =
                   validateJsonForCreation(Json(Names, s))]
  /\ UNCHANGED <<row, last>>

(* the same with aliases *)
CreateMasqueraded(s, pv) ==
  LET json == Json(pv, s)
      seen == [c \in Columns |->
                 IF Len(pv) = Size /\ pv[c] # "" THEN s[c] ELSE Absent]
  IN /\ pc["creator"] = "idle"
     /\ Len(pv) = Size => ~Throws(json, pv)
     /\ Become("creator", "ready")
     /\ Hold("creator", FromMasqueradedJson(json, pv), seen,
             validateMasqueradedJsonForCreation(json, pv))
     /\ UNCHANGED <<row, last>>

(* a whole object from JSON for update, as ShopServiceImpl::update gets it *)
Replace(s) ==
  /\ pc["editor"] = "idle"
  /\ Build("editor", s)
  /\ checked' = [checked EXCEPT !["editor"] =
                   validateJsonForUpdate(Json(Names, s))]
  /\ UNCHANGED <<row, last>>

(* find, then updateByJson on the object that was read *)
Edit(s) ==
  LET json == Json(Names, s)
  IN /\ pc["editor"] = "idle"
     /\ ~Throws(json, Names)
     /\ Become("editor", "ready")
     /\ \E m \in {FromRowByIndex(row, 0), FromRowByName(ByName(row))} :
          Hold("editor", updateByJson(m, json), s, validateJsonForUpdate(json))
     /\ UNCHANGED <<row, last>>

EditMasqueraded(s, pv) ==
  LET json == Json(pv, s)
  IN /\ pc["editor"] = "idle"
     /\ ~Throws(json, pv)
     /\ Become("editor", "ready")
     /\ Hold("editor", updateByMasqueradedJson(FromRowByIndex(row, 0), json, pv),
             [c \in Columns |-> IF pv[c] # "" THEN s[c] ELSE Absent],
             validateMasqueradedJsonForUpdate(json, pv))
     /\ UNCHANGED <<row, last>>

(* find, then one set function *)
SetColumn(c, v) ==
  LET m == FromRowByIndex(row, 0)
  IN /\ pc["setter"] = "idle"
     /\ Set(m, c, v) # m
     /\ Become("setter", "ready")
     /\ Hold("setter", Set(m, c, v), [Nothing EXCEPT ![c] = v], FALSE)
     /\ UNCHANGED <<row, last>>

(* what MySQL, in its strict mode, does not store in a column *)
Refused(c, v) ==
  \/ v = Null /\ NotNull(c)
  \/ v[1] = "wide" /\ Type(c) = "text"

(* Mapper::insert: the i-th "?" gets the i-th argument *)
Marks(sql, n) == Cardinality({i \in 1 .. n : sql.values[i] = "?"})
Fits(m) ==
  LET sql == sqlForInserting(m) IN Marks(sql, Len(sql.values)) = Len(outputArgs(m))
Inserted(m) ==
  LET sql == sqlForInserting(m)
      args == outputArgs(m)
      Place(c) == CHOOSE i \in DOMAIN sql.columns : sql.columns[i] = c
      Listed(c) == \E i \in DOMAIN sql.columns : sql.columns[i] = c
  IN [c \in Columns |->
        IF Listed(c) /\ sql.values[Place(c)] = "?" THEN args[Marks(sql, Place(c))]
        ELSE IF c \in auto THEN <<"id", c>>
        ELSE IF c \in defaulted THEN <<"default", c>> ELSE Null]

(* Mapper::update: r with the columns of updateColumns set to updateArgs;  *)
(* if that changes anything, the columns of onUpdate that are not among    *)
(* them get the time of the statement                                      *)
Updated(m, r) ==
  LET cols == updateColumns(m)
      Listed(c) == \E i \in DOMAIN cols : cols[i] = c
      set == [c \in Columns |->
                IF Listed(c)
                  THEN updateArgs(m)[CHOOSE i \in DOMAIN cols : cols[i] = c] ELSE r[c]]
  IN [c \in Columns |->
        IF c \in onUpdate /\ ~Listed(c) /\ set # r THEN <<"now", c>> ELSE set[c]]

(* needSelection: the row is read back *)
Insert ==
  LET m == obj["creator"]
      new == Inserted(m)
  IN /\ pc["creator"] = "ready"
     /\ IF Fits(m) /\ \A c \in Columns : ~Refused(c, new[c])
          THEN /\ row' = new
               /\ last' = new
               /\ obj' = [obj EXCEPT !["creator"] =
                            IF sqlForInserting(m).needSelection
                              THEN FromRowByIndex(new, 0)
                              ELSE updateId(m, <<"id", primaryKey>>)]
               /\ Become("creator", "done")
          ELSE Become("creator", "refused") /\ UNCHANGED <<row, last, obj>>
     /\ UNCHANGED <<sent, checked>>

(* Mapper::update; without a primary key getPrimaryKey dereferences an     *)
(* empty pointer, and without a column the statement is no SQL.  What a    *)
(* client gives for a column is what it sends, NULL included, but for a    *)
(* text that is no time; whether the object holds it is not asked.         *)
Update(k) ==
  LET m == obj[k]
      cols == updateColumns(m)
      args == updateArgs(m)
      new == Updated(m, row)
      given(c) ==
        IF sent[k][c] = Absent \/ (sent[k][c][1] = "garbled" /\ Type(c) = "time")
          THEN last[c] ELSE Converted(Type(c), sent[k][c])
  IN /\ k # "creator"
     /\ pc[k] = "ready"
     /\ IF \/ m.val[primaryKey] = Null \/ cols = <<>> \/ Len(args) # Len(cols)
           \/ \E i \in DOMAIN cols : Refused(cols[i], args[i])
          THEN Become(k, "refused") /\ UNCHANGED <<row, last>>
          ELSE /\ Become(k, "done")
               /\ IF m.val[primaryKey] = row[primaryKey]
                    THEN row' = new /\ last' = [c \in Columns |-> given(c)]
                    ELSE UNCHANGED <<row, last>>
     /\ UNCHANGED <<obj, sent, checked>>

Next ==
  \/ /\ pc["creator"] = "idle"
     /\ \/ \E s \in CreationInputs : Create(s)
        \/ \E s \in AliasedInputs, pv \in CreationVectors \cup BadVectors :
             CreateMasqueraded(s, pv)
  \/ Insert
  \/ /\ pc["editor"] = "idle"
     /\ \/ \E s \in EditInputs : Replace(s) \/ Edit(s)
        \/ \E s \in EditInputs, pv \in Vectors : EditMasqueraded(s, pv)
  \/ \E c \in Columns : \E v \in {Null, <<"set", c>>} : SetColumn(c, v)
  \/ \E k \in Clients : Update(k)

-----------------------------------------------------------------------------
(* Properties of the class *)

(* The row that insert stores, and the object it leaves to the caller,     *)
(* hold what was given, in the columns it was given for, and the column's  *)
(* default or NULL elsewhere: the column list and the marks of             *)
(* sqlForInserting, the arguments of outputArgs and the flags of the       *)
(* constructor agree although each is written out on its own.              *)
InsertedAsSent ==
  pc["creator"] = "done" =>
    /\ obj["creator"].val = row
    /\ \A c \in Columns :
         LET v == sent["creator"][c]
         IN row[c] = CASE c \in auto -> <<"id", c>>
                       [] c \notin auto /\ v = Absent ->
                            IF c \in defaulted THEN <<"default", c>> ELSE Null
                       [] c \notin auto /\ v # Absent ->
                            IF Readable(Type(c), v) THEN Converted(Type(c), v) ELSE Null

(* What the validators let through is stored: the object holds the value   *)
(* given for each NOT NULL column, insert stores every value (an automatic *)
(* primary key would be dropped), and a statement is refused only for a    *)
(* time text that no strptime reads, which they do not look at, or when    *)
(* nothing but the primary key was given.                                  *)
ValidatedIsStored ==
  \A k \in {"creator", "editor"} : checked[k] =>
    LET given == {c \in Columns : sent[k][c] # Absent}
    IN /\ pc[k] = "ready" =>
            \A c \in given : NotNull(c) /\ Type(c) # "time" =>
              obj[k].val[c] = Converted(Type(c), sent[k][c])
       /\ pc[k] = "done" /\ k = "creator" =>
            \A c \in given : Readable(Type(c), sent[k][c]) =>
              row[c] = Converted(Type(c), sent[k][c])
       /\ pc[k] = "refused" =>
            \/ \E c \in given : sent[k][c][1] = "garbled" /\ NotNull(c)
            \/ given = {primaryKey}

(* JSON gave the column a null, or a text that is no time: updateByJson    *)
(* sets its flag and keeps the value that was read, the constructor has    *)
(* none                                                                    *)
Unread(c) == sent["editor"][c] # Absent /\ ~Readable(Type(c), sent["editor"][c])

(* Whatever two clients that read the same row send, in whichever order    *)
(* they write, each column holds the value given for it last, with two     *)
(* exceptions: the time of the last update, which an update that does not  *)
(* name it sets, and a column for which JSON gave a null or an unreadable  *)
(* time.  That one holds what the object held, and this may undo the       *)
(* update of the other client.  No other update is lost.                   *)
SentValuesStay ==
  row # <<>> => \A c \in Columns :
    \/ row[c] = last[c]
    \/ /\ c \in onUpdate /\ row[c] = <<"now", c>>
       /\ \E k \in Clients : pc[k] = "done" /\ sent[k][c] = Absent
    \/ pc["editor"] = "done" /\ Unread(c) /\ row[c] = obj["editor"].val[c]

(* An object reads the same from a row by name, by index and at an offset, *)
(* and from its own JSON, with or without aliases, but for the times at    *)
(* midnight; a vector of the wrong size falls back to the column names.    *)
RoundTrip ==
  row # <<>> /\ (\A k \in Clients : pc[k] # "ready") =>
    LET m == FromRowByIndex(row, 0)
        Same(n, cols) ==
          \A c \in cols : Printed(Type(c), row[c]) = row[c] => n.val[c] = m.val[c]
    IN /\ FromRowByName(ByName(row)) = m
       /\ FromRowByIndex(<<Null>> \o row, 1) = m
       /\ Same(FromJson(toJson(m)), Columns)
       /\ \A pv \in Vectors :
            Same(FromMasqueradedJson(toMasqueradedJson(m, pv), pv),
                 {c \in Columns : pv[c] # ""})
       /\ \A pv \in BadVectors : toMasqueradedJson(m, pv) = toJson(m)
=============================================================================
