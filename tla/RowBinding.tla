------------------------------ MODULE RowBinding ------------------------------
(***************************************************************************)
(* The parameters of the REPLACE statement of table_onParseColumn, for the *)
(* rows that the decoder delivers.  One prepared statement inserts all rows*)
(* of a table; its parameters are not cleared, and texts and blobs in them *)
(* are pointers into the column, which is cleared after each row: each row *)
(* must bind every parameter anew.                                         *)
(***************************************************************************)
EXTENDS Payload

CONSTANTS
  Columns,    \* ctx->real_columns: columns of the table in the target
  IpkColumn   \* ctx->ipk_column: the INTEGER PRIMARY KEY, 0 without one

ASSUME RowBindingAssumption ==
  Columns \in Nat \ {0} /\ IpkColumn \in 0 .. Columns

VARIABLES
  params,   \* the parameters of ctx->stmt
  inserted  \* history: each row, its values and what was inserted

bindVars == <<params, inserted>>
vars     == <<payloadVars, bindVars>>

(* Parameters are told apart by where they come from: the row r and its    *)
(* column c, the rowid of r, the default of c.                             *)
Null       == [from |-> "null", r |-> 0, c |-> 0]
Own(r, c)  == [from |-> "row", r |-> r, c |-> c]
RowId(r)   == [from |-> "rowid", r |-> r, c |-> 0]
Default(c) == [from |-> "default", r |-> 0, c |-> c]

(* Mutant: nothing is bound for NULL.                                      *)
MutProvided(row, r, c, old) ==
  IF row[c].kind # "null" THEN Own(r, c)
  ELSE IF c = IpkColumn THEN RowId(r) ELSE old

(* The value that row number r provides for parameter c.                   *)
Provided(row, r, c, old) ==
  IF row[c].kind # "null" THEN Own(r, c)
  ELSE IF c = IpkColumn THEN RowId(r) ELSE Null

(* The loop over the values of the row, which may have fewer than the table*)
(* when it is older than an ALTER TABLE ADD COLUMN; then the loop over the *)
(* remaining columns, which counts from 0 and binds the default of column  *)
(* i + 1 to parameter i.  A parameter that does not exist is not bound.    *)
Bound(row, r) ==
  [c \in 1 .. Columns |->
     IF c \in Len(row) .. Columns - 1 THEN Default(c + 1)
     ELSE IF c <= Len(row) THEN Provided(row, r, c, params[c])
     ELSE params[c]]

InsertRow ==
  /\ Deliver
  /\ params' = Bound(values.items, Len(inserted) + 1)
  /\ inserted' = Append(inserted, [row |-> values.items, bound |-> params'])

Init ==
  /\ PayloadInit
  /\ params = [c \in 1 .. Columns |-> Null]
  /\ inserted = <<>>

Next == (Decode /\ UNCHANGED bindVars) \/ InsertRow

Spec == Init /\ [][Next]_vars

-----------------------------------------------------------------------------
(* Parameters are not cleared between rows, yet no value of an earlier row,*)
(* whose memory is gone, reaches a later one, except in the last column,   *)
(* which a row that is too short does not bind.                            *)
NoStaleValue ==
  \A r \in DOMAIN inserted : \A c \in 1 .. Columns - 1 :
    inserted[r].bound[c].r \in {0, r}

(* Refuted.  The values that a row has are inserted, and defaults for the  *)
(* remaining ones only: "Bind values provided by the repair kit." and "Use *)
(* defaults for remaining values." (sqliterk_output.cpp).                  *)
ProvidedAreInserted ==
  \A r \in DOMAIN inserted : \A c \in 1 .. Columns :
    c <= Len(inserted[r].row) /\ inserted[r].row[c].kind # "null"
      => inserted[r].bound[c] = Own(r, c)
=============================================================================
