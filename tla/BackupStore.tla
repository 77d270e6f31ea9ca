----------------------------- MODULE BackupStore -----------------------------
(***************************************************************************)
(* What sqliterk_save_master and sqliterk_load_master promise: a path      *)
(* holds nothing, junk that no load accepts, or one whole backup.  A save  *)
(* replaces what the path held by junk and then, in one step, by the       *)
(* backup; a save that returns an error has not done the latter.  A load   *)
(* returns the whole backup, or nothing.                                   *)
(***************************************************************************)
EXTENDS MasterRows

CONSTANTS Nothing, Junk, Refused

VARIABLES
  store,    \* what each path holds
  saving,   \* the save that runs
  answer    \* what the load has returned, until its caller takes it

storeVars == <<store, saving, answer>>

Backup(rows, key) == [rows |-> rows, key |-> key]
IsBackup(c)       == c \notin {Nothing, Junk}

NotSaving == [on |-> FALSE, path |-> Nothing, backup |-> Junk, done |-> FALSE,
              rc |-> "none"]
NoAnswer  == Nothing

Begin(p, b) ==
  /\ ~ saving.on
  /\ saving' = [NotSaving EXCEPT !.on = TRUE, !.path = p, !.backup = b]
  /\ UNCHANGED <<store, answer>>

(* The call goes on, rc = "none", or returns.                              *)
Spoil(rc) ==
  /\ saving.on /\ saving.rc = "none" /\ ~ saving.done
  /\ store' = [store EXCEPT ![saving.path] = Junk]
  /\ saving' = [saving EXCEPT !.rc = rc]
  /\ UNCHANGED answer

Commit(rc) ==
  /\ saving.on /\ saving.rc = "none" /\ ~ saving.done
  /\ rc # "failed"
  /\ store' = [store EXCEPT ![saving.path] = saving.backup]
  /\ saving' = [saving EXCEPT !.done = TRUE, !.rc = rc]
  /\ UNCHANGED answer

(* OK is no promise that the backup is there.                              *)
Return(rc) ==
  /\ saving.on /\ saving.rc = "none"
  /\ saving.done => rc # "failed"
  /\ saving' = [saving EXCEPT !.rc = rc]
  /\ UNCHANGED <<store, answer>>

End ==
  /\ saving.on /\ saving.rc # "none"
  /\ saving' = NotSaving
  /\ UNCHANGED <<store, answer>>

Accepts(c, key) == IsBackup(c) /\ (c.key = key \/ c.rows = <<>>)

Answer(p, key, filter) ==
  /\ answer' \in {Refused} \cup
       {Selection(c.rows, filter) : c \in {c \in {store[p]} : Accepts(c, key)}}
  /\ UNCHANGED <<store, saving>>

Take ==
  /\ answer' = NoAnswer
  /\ UNCHANGED <<store, saving>>

(* Files are removed and copied, in part or whole, when nothing runs.      *)
Move(p) ==
  /\ ~ saving.on
  /\ \E c \in {Nothing, Junk} \cup {store[q] : q \in Paths} :
       store' = [store EXCEPT ![p] = c]
  /\ UNCHANGED <<saving, answer>>

(* The process stops and starts again.                                     *)
Restart ==
  /\ saving' = NotSaving /\ answer' = NoAnswer
  /\ UNCHANGED store

StoreInit ==
  /\ store = [p \in Paths |-> Nothing]
  /\ saving = NotSaving /\ answer = NoAnswer

StoreNext ==
  \/ \E p \in Paths : Move(p)
  \/ \E p \in Paths, s \in Schemas, k \in Keys :
       Begin(p, Backup(SavedRows(s), k))
  \/ \E rc \in {"none", "OK", "failed"} : Spoil(rc) \/ Commit(rc) \/ Return(rc)
  \/ End
  \/ \E p \in Paths, k \in Keys, f \in Filters : Answer(p, k, f)
  \/ Take \/ Restart

StoreSpec == StoreInit /\ [][StoreNext]_storeVars
=============================================================================
