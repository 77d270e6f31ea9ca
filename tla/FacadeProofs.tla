----------------------------- MODULE FacadeProofs -----------------------------
(***************************************************************************)
(* Proofs about the calls of WCRepairKitManage: where the rows of the      *)
(* database are, and where a good backup is, at every step of a call.      *)
(***************************************************************************)
EXTENDS Facade, TLAPS

-----------------------------------------------------------------------------
(* Types.                                                                  *)

RecPlaces == {"output", "replace", "copyBack", "copyingBack", "clean"}
Places    == RecPlaces \cup
  {"idle", "removeOld", "copy", "copying", "remove", "dbOpen", "save", "discard",
   "restore", "restoring", "dropOld", "load", "open"}

IsStore(f)  == \E S : f \in [Paths -> S]
IsCall(c)   == \E S : c \in [at : Places, key : S, from : S, over : S]
IsSaving(s) == \E S : s \in [on : S, path : S, backup : S, done : S, rc : S]

Typed ==
  /\ IsStore(store) /\ IsCall(call) /\ IsSaving(saving)
  /\ db \in Files \cup {Nothing} /\ rec \in (SUBSET RowIds) \cup {Nothing}
  /\ owed \in SUBSET RowIds
  /\ At("save") => saving.on /\ saving.path = "backup"

LEMMA PathsAre ==
  "backup" \in Paths /\ "old" \in Paths /\ "backup" # "old"
BY FacadeAssumption

LEMMA HoldsIs ==
  ASSUME IsStore(store), NEW p \in Paths, NEW c, Holds(p, c)
  PROVE  /\ IsStore(store') /\ saving' = saving
         /\ store'[p] = c
         /\ \A q \in Paths : q # p => store'[q] = store[q]
<1>1. PICK S : store \in [Paths -> S]
  BY DEF IsStore
<1> DEFINE T == S \cup {c}
<1>2. store' \in [Paths -> T]
  BY <1>1 DEF Holds
<1>3. store'[p] = c /\ \A q \in Paths : q # p => store'[q] = store[q]
  BY <1>1 DEF Holds
<1> HIDE DEF T
<1> QED
  BY <1>2, <1>3 DEF IsStore, Holds

LEMMA GotoIs ==
  ASSUME IsCall(call), NEW x \in Places, Goto(x)
  PROVE  IsCall(call') /\ call'.at = x /\ result' = result
<1>1. PICK S : call \in [at : Places, key : S, from : S, over : S]
  BY DEF IsCall
<1>2. call' \in [at : Places, key : S, from : S, over : S] /\ call'.at = x
  BY <1>1 DEF Goto
<1> QED
  BY <1>2 DEF IsCall, Goto

LEMMA CallIs ==
  ASSUME NEW x \in Places, NEW k, NEW f, NEW o
  PROVE  LET c == [at |-> x, key |-> k, from |-> f, over |-> o]
         IN IsCall(c) /\ c.at = x
<1> DEFINE S == {k, f, o}
           c == [at |-> x, key |-> k, from |-> f, over |-> o]
<1>1. c \in [at : Places, key : S, from : S, over : S]
  OBVIOUS
<1> HIDE DEF S
<1> QED
  BY <1>1 DEF IsCall

LEMMA ReturnsIs ==
  ASSUME NEW r, Returns(r)
  PROVE  IsCall(call') /\ call'.at = "idle" /\ result' = r
BY CallIs DEF Returns, NoCall, Places

LEMMA SavingIs ==
  ASSUME IsSaving(saving), IsStore(store), saving.path = "backup"
  PROVE  /\ \A rc : Spoil(rc) =>
              /\ IsSaving(saving') /\ saving'.path = "backup"
              /\ saving'.on = saving.on /\ saving'.rc = rc
              /\ IsStore(store') /\ store'["backup"] = Junk
              /\ store'["old"] = store["old"]
         /\ \A rc : Commit(rc) =>
              /\ IsSaving(saving') /\ saving'.path = "backup"
              /\ saving'.on = saving.on /\ saving'.rc = rc
              /\ IsStore(store') /\ store'["old"] = store["old"]
         /\ \A rc : Return(rc) =>
              /\ IsSaving(saving') /\ saving'.path = "backup"
              /\ saving'.on = saving.on /\ saving'.rc = rc
              /\ store' = store
<1>1. PICK S : saving \in [on : S, path : S, backup : S, done : S, rc : S]
  BY DEF IsSaving
<1>2. PICK F : store \in [Paths -> F]
  BY DEF IsStore
<1>3. ASSUME NEW rc, saving' = [saving EXCEPT !.rc = rc]
      PROVE  /\ IsSaving(saving') /\ saving'.path = saving.path
             /\ saving'.on = saving.on /\ saving'.rc = rc
  <2> DEFINE s == [saving EXCEPT !.rc = rc]
             T == S \cup {rc}
  <2>1. /\ s \in [on : T, path : T, backup : T, done : T, rc : T]
        /\ s.path = saving.path /\ s.on = saving.on /\ s.rc = rc
    BY <1>1
  <2> HIDE DEF T
  <2> QED
    BY <1>3, <2>1 DEF IsSaving
<1>4. ASSUME NEW rc, saving' = [saving EXCEPT !.done = TRUE, !.rc = rc]
      PROVE  /\ IsSaving(saving') /\ saving'.path = saving.path
             /\ saving'.on = saving.on /\ saving'.rc = rc
  <2> DEFINE s == [saving EXCEPT !.done = TRUE, !.rc = rc]
             T == S \cup {rc, TRUE}
  <2>1. /\ s \in [on : T, path : T, backup : T, done : T, rc : T]
        /\ s.path = saving.path /\ s.on = saving.on /\ s.rc = rc
    BY <1>1
  <2> HIDE DEF T
  <2> QED
    BY <1>4, <2>1 DEF IsSaving
<1>5. ASSUME NEW c, store' = [store EXCEPT !["backup"] = c]
      PROVE  IsStore(store') /\ store'["backup"] = c /\ store'["old"] = store["old"]
  <2> DEFINE T == F \cup {c}
  <2>1. store' \in [Paths -> T] /\ store'["backup"] = c /\ store'["old"] = store["old"]
    BY <1>2, <1>5, PathsAre
  <2> HIDE DEF T
  <2> QED
    BY <2>1 DEF IsStore
<1>6. ASSUME NEW rc, Spoil(rc)
      PROVE  /\ saving' = [saving EXCEPT !.rc = rc]
             /\ store' = [store EXCEPT !["backup"] = Junk]
  BY <1>6 DEF Spoil
<1>7. ASSUME NEW rc, Commit(rc)
      PROVE  /\ saving' = [saving EXCEPT !.done = TRUE, !.rc = rc]
             /\ store' = [store EXCEPT !["backup"] = saving.backup]
  BY <1>7 DEF Commit
<1>8. ASSUME NEW rc, Return(rc)
      PROVE  saving' = [saving EXCEPT !.rc = rc] /\ store' = store
  BY <1>8 DEF Return
<1>9. ASSUME NEW rc, Spoil(rc)
      PROVE  /\ IsSaving(saving') /\ saving'.path = "backup"
             /\ saving'.on = saving.on /\ saving'.rc = rc
             /\ IsStore(store') /\ store'["backup"] = Junk
             /\ store'["old"] = store["old"]
  BY <1>3, <1>5, <1>6, <1>9
<1>10. ASSUME NEW rc, Commit(rc)
       PROVE  /\ IsSaving(saving') /\ saving'.path = "backup"
              /\ saving'.on = saving.on /\ saving'.rc = rc
              /\ IsStore(store') /\ store'["old"] = store["old"]
  BY <1>4, <1>5, <1>7, <1>10
<1>11. ASSUME NEW rc, Return(rc)
       PROVE  /\ IsSaving(saving') /\ saving'.path = "backup"
              /\ saving'.on = saving.on /\ saving'.rc = rc /\ store' = store
  BY <1>3, <1>8, <1>11
<1> QED
  BY <1>9, <1>10, <1>11

-----------------------------------------------------------------------------
(* The invariant: at each place of a call, in which files the rows and the *)
(* backup are.                                                             *)

RecRows == IF rec = Nothing THEN {} ELSE rec

Owed ==
  /\ DatabaseOrRecovery
  /\ At("output") => db # Nothing
  /\ call.at \in {"output", "replace", "copyBack", "copyingBack"} => rec # Nothing
  /\ call.at \in {"replace", "copyBack", "copyingBack", "clean"}
       => owed \subseteq RecRows
  /\ At("clean") => owed \subseteq RowsOf(db)

(* The call has found a good backup, and all files do as they are told.    *)
Guarded == calm /\ IsBackup(before) /\ before \notin Small

Guarding ==
  /\ ~ At("idle") => result # "nil"
  /\ Guarded =>
       /\ result = "nil" => store["backup"] = before
       /\ At("idle") => IsBackup(store["backup"]) \/ IsBackup(store["old"])
       /\ call.at \in {"removeOld", "copy", "copying", "dropOld", "load", "open"}
                        \cup RecPlaces
            => store["backup"] = before
       /\ At("copy") => store["old"] = Nothing
       /\ call.at \in {"remove", "dbOpen", "save", "discard", "restore", "restoring"}
            => store["old"] = before
       /\ At("restore") => store["backup"] = Nothing
       /\ At("save") /\ saving.rc \notin {"none", "OK"} => store["backup"] = Junk

IFacade == Typed /\ Owed /\ Guarding

LEMMA AsideOwed ==
  ASSUME IFacade, UNCHANGED <<db, rec, owed>>, call'.at \notin RecPlaces
  PROVE  Owed'
BY DEF IFacade, Owed, DatabaseOrRecovery, At, RecPlaces

LEMMA FailsGuarding ==
  ASSUME calm' = FALSE, call'.at # "idle" => result' # "nil"
  PROVE  Guarding'
BY DEF Guarding, Guarded, At

(* A recovery leaves the backups alone.                                    *)
LEMMA RecoveryGuarding ==
  ASSUME IFacade, call.at \in {"load", "open"} \cup RecPlaces,
         store' = store, before' = before, calm' => calm,
         \/ call'.at \in {"open"} \cup RecPlaces /\ result' = result
         \/ call'.at = "idle"
  PROVE  Guarding'
<1>1. ~ At("idle") /\ result # "nil"
  BY DEF IFacade, Guarding, At, RecPlaces
<1>2. Guarded' => Guarded
  BY DEF Guarded
<1>3. Guarded => store["backup"] = before /\ IsBackup(before)
  BY DEF IFacade, Guarding, Guarded
<1>4. CASE call'.at = "idle"
  BY <1>2, <1>3, <1>4 DEF Guarding, At, RecPlaces
<1>5. CASE call'.at \in {"open"} \cup RecPlaces /\ result' = result
  BY <1>1, <1>2, <1>3, <1>5 DEF Guarding, At, RecPlaces
<1> QED
  BY <1>4, <1>5

LEMMA StartsTyped == FacadeInit => IFacade
<1> SUFFICES ASSUME FacadeInit PROVE IFacade
  OBVIOUS
<1>1. /\ IsCall(call) /\ call.at = "idle" /\ result = "none"
      /\ db = Nothing /\ rec = Nothing /\ owed = {} /\ before = Nothing
  BY CallIs DEF FacadeInit, NoCall, Places
<1>2. IsStore(store)
  <2>1. store \in [Paths -> {Nothing}]
    BY DEF FacadeInit, StoreInit
  <2> QED
    BY <2>1 DEF IsStore
<1>3. IsSaving(saving)
  <2> DEFINE S == {FALSE, Nothing, Junk, "none"}
  <2>1. saving \in [on : S, path : S, backup : S, done : S, rc : S]
    BY DEF FacadeInit, StoreInit, NotSaving
  <2> HIDE DEF S
  <2> QED
    BY <2>1 DEF IsSaving
<1>4. Typed
  BY <1>1, <1>2, <1>3 DEF Typed, At
<1>5. Owed
  BY <1>1 DEF Owed, DatabaseOrRecovery, At
<1>6. Guarding
  BY <1>1 DEF Guarding, Guarded, IsBackup, At
<1> QED
  BY <1>4, <1>5, <1>6 DEF IFacade

(* A call begins.                                                          *)
LEMMA EnterStep ==
  ASSUME IFacade, NEW x \in Places \ (RecPlaces \cup {"save"}), NEW k, NEW f, NEW o,
         Enter(x, k, f, o),
         Guarded' => \/ x \in {"removeOld", "load"}
                     \/ x = "copy" /\ store["old"] = Nothing
  PROVE  IFacade'
<1>1. /\ UNCHANGED <<store, saving, db, rec, owed>>
      /\ before' = store["backup"] /\ result' = "none"
      /\ IsCall(call') /\ call'.at = x
  BY CallIs DEF Enter
<1>2. Typed'
  BY <1>1 DEF IFacade, Typed, At
<1>3. Owed'
  BY <1>1, AsideOwed
<1>4. Guarding'
  BY <1>1 DEF Guarding, At, RecPlaces
<1> QED
  BY <1>2, <1>3, <1>4 DEF IFacade

LEMMA BackupBeginStep ==
  ASSUME IFacade, NEW k, BackupBegin(k)
  PROVE  IFacade'
<1>1. PICK big \in Sizes("backup") :
        Enter(IF ~ Exists("backup") THEN "dbOpen"
              ELSE IF ~ big THEN "remove"
              ELSE IF Exists("old") THEN "removeOld" ELSE "copy",
              k, "backup", FALSE)
  BY DEF BackupBegin
<1> DEFINE x == IF ~ Exists("backup") THEN "dbOpen"
                ELSE IF ~ big THEN "remove"
                ELSE IF Exists("old") THEN "removeOld" ELSE "copy"
<1>2. x \in Places \ (RecPlaces \cup {"save"})
  BY DEF Places, RecPlaces
<1>3. Guarded' => \/ x \in {"removeOld", "load"}
                  \/ x = "copy" /\ store["old"] = Nothing
  <2> SUFFICES ASSUME Guarded'
               PROVE  \/ x \in {"removeOld", "load"}
                      \/ x = "copy" /\ store["old"] = Nothing
    OBVIOUS
  <2>1. before' = store["backup"]
    BY <1>1 DEF Enter
  <2>2. Exists("backup") /\ big
    BY <2>1 DEF Guarded, IsBackup, Exists, Sizes
  <2> QED
    BY <2>2 DEF Exists
<1> HIDE DEF x
<1>4. Enter(x, k, "backup", FALSE)
  BY <1>1 DEF x
<1> QED
  BY <1>2, <1>3, <1>4, EnterStep

LEMMA RecoveryBeginStep ==
  ASSUME IFacade, NEW k, NEW over, RecoveryBegin(k, over)
  PROVE  IFacade'
<1>1. "load" \in Places \ (RecPlaces \cup {"save"})
  BY DEF Places, RecPlaces
<1> QED
  BY <1>1, EnterStep DEF RecoveryBegin

-----------------------------------------------------------------------------
(* The steps of a backup.                                                  *)

(* A step that moves files, and goes on or returns.                        *)
LEMMA FileStep ==
  ASSUME IFacade, Aside, IsStore(store'), UNCHANGED saving,
         IsCall(call'), call'.at \notin RecPlaces \cup {"save"}, Guarding'
  PROVE  IFacade'
<1>1. UNCHANGED <<db, rec, owed>>
  BY DEF Aside, History
<1>2. Typed'
  BY <1>1 DEF IFacade, Typed, At
<1>3. Owed'
  BY <1>1, AsideOwed
<1> QED
  BY <1>2, <1>3 DEF IFacade

LEMMA Stays ==
  ASSUME IFacade, StoreStays
  PROVE  IsStore(store') /\ store' = store /\ saving' = saving
BY DEF IFacade, Typed, StoreStays

(* Guarding at a place where the older backup is the good one.             *)
LEMMA OldGuards ==
  ASSUME Works, UNCHANGED before,
         call'.at \in {"remove", "dbOpen", "discard", "restore", "restoring"},
         result' # "nil",
         Guarded => store'["old"] = before,
         Guarded /\ call'.at = "restore" => store'["backup"] = Nothing
  PROVE  Guarding'
BY DEF Guarding, Guarded, Works, At, RecPlaces

LEMMA RemoveOldStep == IFacade /\ RemoveOld => IFacade'
<1> SUFFICES ASSUME IFacade, RemoveOld PROVE IFacade'
  OBVIOUS
<1>1. IsCall(call') /\ call'.at = "copy" /\ result' = result
  BY GotoIs DEF RemoveOld, IFacade, Typed, Places
<1>2. Aside /\ UNCHANGED before /\ At("removeOld")
  BY DEF RemoveOld, Aside, History
<1>3. CASE Holds("old", Nothing) /\ Works
  <2>1. /\ IsStore(store') /\ UNCHANGED saving
        /\ store'["old"] = Nothing /\ store'["backup"] = store["backup"]
    BY <1>3, HoldsIs, PathsAre DEF IFacade, Typed
  <2>2. Guarding'
    BY <1>1, <1>2, <1>3, <2>1 DEF IFacade, Guarding, Guarded, Works, At, RecPlaces
  <2> QED
    BY <1>1, <1>2, <2>1, <2>2, FileStep DEF RecPlaces
<1>4. CASE StoreStays /\ Fails
  <2>1. Guarding'
    BY <1>1, <1>2, <1>4, FailsGuarding DEF Fails, IFacade, Guarding, At
  <2> QED
    BY <1>1, <1>2, <1>4, <2>1, Stays, FileStep DEF RecPlaces
<1> QED
  BY <1>3, <1>4 DEF RemoveOld

LEMMA RotateStep == IFacade /\ Rotate => IFacade'
<1> SUFFICES ASSUME IFacade, Rotate PROVE IFacade'
  OBVIOUS
<1>1. CASE CopyBegins("copy", "old", "copying")
  <2>1. IsCall(call') /\ call'.at = "copying" /\ result' = result
    BY <1>1, GotoIs DEF CopyBegins, IFacade, Typed, Places
  <2>2. /\ IsStore(store') /\ UNCHANGED saving
        /\ store'["backup"] = store["backup"]
    BY <1>1, HoldsIs, PathsAre DEF IFacade, Typed, CopyBegins
  <2>3. Aside /\ UNCHANGED before /\ At("copy") /\ Works
    BY <1>1 DEF CopyBegins, Aside, History
  <2>4. Guarding'
    BY <2>1, <2>2, <2>3 DEF IFacade, Guarding, Guarded, Works, At, RecPlaces
  <2> QED
    BY <2>1, <2>2, <2>3, <2>4, FileStep DEF RecPlaces
<1>2. CASE CopyEnds("copying", "backup", "old", "remove")
  <2>1. IsCall(call') /\ call'.at = "remove" /\ result' = result
    BY <1>2, GotoIs DEF CopyEnds, IFacade, Typed, Places
  <2>2. Aside /\ UNCHANGED before /\ At("copying") /\ result # "nil"
    BY <1>2 DEF CopyEnds, Aside, History, IFacade, Guarding, At
  <2>3. CASE Holds("old", store["backup"]) /\ Works
    <3>1. IsStore(store') /\ UNCHANGED saving /\ store'["old"] = store["backup"]
      BY <2>3, HoldsIs, PathsAre DEF IFacade, Typed
    <3>2. Guarded => store["backup"] = before
      BY <2>2 DEF IFacade, Guarding, At
    <3>3. Guarding'
      BY <2>1, <2>2, <2>3, <3>1, <3>2, OldGuards
    <3> QED
      BY <2>1, <2>2, <3>1, <3>3, FileStep DEF RecPlaces
  <2>4. CASE StoreStays /\ Fails
    <3>1. Guarding'
      BY <2>1, <2>2, <2>4, FailsGuarding DEF Fails
    <3> QED
      BY <2>1, <2>2, <2>4, <3>1, Stays, FileStep DEF RecPlaces
  <2> QED
    BY <1>2, <2>3, <2>4 DEF CopyEnds
<1>3. CASE CopyFails("copy", "old", "remove")
  <2>1. IsCall(call') /\ call'.at = "remove" /\ result' = result
    BY <1>3, GotoIs DEF CopyFails, IFacade, Typed, Places
  <2>2. Aside /\ UNCHANGED before /\ At("copy") /\ StoreStays /\ result # "nil"
    BY <1>3 DEF CopyFails, Aside, History, IFacade, Guarding, At
  <2>3. CASE Exists("old") /\ Works
    <3>1. ~ Guarded
      BY <2>2, <2>3 DEF IFacade, Guarding, Exists, At
    <3>2. Guarding'
      BY <2>1, <2>2, <2>3, <3>1, OldGuards
    <3> QED
      BY <2>1, <2>2, <3>2, Stays, FileStep DEF RecPlaces
  <2>4. CASE Fails
    <3>1. Guarding'
      BY <2>1, <2>2, <2>4, FailsGuarding DEF Fails
    <3> QED
      BY <2>1, <2>2, <3>1, Stays, FileStep DEF RecPlaces
  <2> QED
    BY <1>3, <2>3, <2>4 DEF CopyFails
<1> QED
  BY <1>1, <1>2, <1>3 DEF Rotate

LEMMA RemoveStep == IFacade /\ Remove => IFacade'
<1> SUFFICES ASSUME IFacade, Remove PROVE IFacade'
  OBVIOUS
<1>1. IsCall(call') /\ call'.at = "dbOpen" /\ result' = result
  BY GotoIs DEF Remove, IFacade, Typed, Places
<1>2. Aside /\ UNCHANGED before /\ At("remove") /\ result # "nil"
  BY DEF Remove, Aside, History, IFacade, Guarding, At
<1>3. CASE Holds("backup", Nothing) /\ Works
  <2>1. IsStore(store') /\ UNCHANGED saving /\ store'["old"] = store["old"]
    BY <1>3, HoldsIs, PathsAre DEF IFacade, Typed
  <2>2. Guarded => store["old"] = before
    BY <1>2 DEF IFacade, Guarding, At
  <2>3. Guarding'
    BY <1>1, <1>2, <1>3, <2>1, <2>2, OldGuards
  <2> QED
    BY <1>1, <1>2, <2>1, <2>3, FileStep DEF RecPlaces
<1>4. CASE StoreStays /\ Fails
  <2>1. Guarding'
    BY <1>1, <1>2, <1>4, FailsGuarding DEF Fails
  <2> QED
    BY <1>1, <1>2, <1>4, <2>1, Stays, FileStep DEF RecPlaces
<1> QED
  BY <1>3, <1>4 DEF Remove

LEMMA NotSavingIs == IsSaving(NotSaving) /\ NotSaving.rc = "none"
<1> DEFINE S == {FALSE, Nothing, Junk, "none"}
<1>1. NotSaving \in [on : S, path : S, backup : S, done : S, rc : S]
  BY DEF NotSaving
<1>2. NotSaving.rc = "none"
  BY DEF NotSaving
<1> HIDE DEF S
<1> QED
  BY <1>1, <1>2 DEF IsSaving

LEMMA DbOpenStep == IFacade /\ DbOpen => IFacade'
<1> SUFFICES ASSUME IFacade, DbOpen PROVE IFacade'
  OBVIOUS
<1>1. Aside /\ UNCHANGED before /\ At("dbOpen") /\ result # "nil"
  BY DEF DbOpen, Aside, History, IFacade, Guarding, At
<1>2. CASE StoreStays /\ Returns("nil") /\ Fails
  <2>1. IsCall(call') /\ call'.at = "idle" /\ result' = "nil"
    BY <1>2, ReturnsIs
  <2>2. Guarding'
    BY <2>1, <1>2, FailsGuarding DEF Fails
  <2> QED
    BY <1>1, <1>2, <2>1, <2>2, Stays, FileStep DEF RecPlaces
<1>3. ASSUME NEW b, Begin("backup", b), Goto("save"), Works
      PROVE  IFacade'
  <2>1. IsCall(call') /\ call'.at = "save" /\ result' = result
    BY <1>3, GotoIs DEF IFacade, Typed, Places
  <2>2. /\ IsSaving(saving') /\ saving'.on /\ saving'.path = "backup"
        /\ saving'.rc = "none" /\ store' = store
    <3> PICK R : NotSaving \in [on : R, path : R, backup : R, done : R, rc : R]
      BY NotSavingIs DEF IsSaving
    <3> DEFINE S == R \cup {TRUE, "backup", b}
               s == [NotSaving EXCEPT !.on = TRUE, !.path = "backup", !.backup = b]
    <3>2. s \in [on : S, path : S, backup : S, done : S, rc : S]
      OBVIOUS
    <3>3. saving' = s /\ store' = store
      BY <1>3 DEF Begin
    <3>4. s.on /\ s.path = "backup" /\ s.rc = "none"
      BY NotSavingIs
    <3> HIDE DEF S, s
    <3> QED
      BY <3>2, <3>3, <3>4 DEF IsSaving
  <2>3. UNCHANGED <<db, rec, owed>>
    BY <1>1 DEF Aside, History
  <2>4. Typed'
    BY <2>1, <2>2, <2>3 DEF IFacade, Typed, At
  <2>5. Owed'
    BY <2>1, <2>3, AsideOwed DEF RecPlaces
  <2>6. Guarding'
    BY <1>1, <1>3, <2>1, <2>2 DEF IFacade, Guarding, Guarded, Works, At, RecPlaces
  <2> QED
    BY <2>4, <2>5, <2>6 DEF IFacade
<1> QED
  BY <1>2, <1>3 DEF DbOpen

LEMMA SaveStep == IFacade /\ Save => IFacade'
<1> SUFFICES ASSUME IFacade, Save PROVE IFacade'
  OBVIOUS
<1>1. /\ Aside /\ UNCHANGED <<before, db, rec, owed, call, result>>
      /\ At("save") /\ result # "nil"
      /\ IsSaving(saving) /\ IsStore(store) /\ saving.path = "backup" /\ saving.on
  BY DEF Save, Aside, History, IFacade, Typed, Guarding, At
<1>2. Owed'
  BY <1>1, AsideOwed DEF At, RecPlaces
<1>3. ASSUME IsSaving(saving'), saving'.on, saving'.path = "backup",
             IsStore(store'), Guarding'
      PROVE  IFacade'
  <2>1. Typed'
    BY <1>1, <1>3 DEF IFacade, Typed, At
  <2> QED
    BY <1>2, <1>3, <2>1 DEF IFacade
<1>4. ASSUME Works, store'["old"] = store["old"],
             saving'.rc \in {"none", "OK"} \/ store'["backup"] = Junk
      PROVE  Guarding'
  BY <1>1, <1>4 DEF IFacade, Guarding, Guarded, Works, At, RecPlaces
<1>5. CASE Spoil("none") /\ Works
  BY <1>1, <1>3, <1>4, <1>5, SavingIs
<1>6. CASE Commit("OK") /\ Works
  BY <1>1, <1>3, <1>4, <1>6, SavingIs
<1>7. CASE Spoil("failed") /\ Works
  BY <1>1, <1>3, <1>4, <1>7, SavingIs
<1>8. ASSUME NEW rc, Spoil(rc) \/ Return(rc), Fails
      PROVE  IFacade'
  <2>1. Guarding'
    BY <1>1, <1>8, FailsGuarding DEF Fails
  <2> QED
    BY <1>1, <1>3, <1>8, <2>1, SavingIs
<1> QED
  BY <1>5, <1>6, <1>7, <1>8 DEF Save

LEMMA SaveEndStep == IFacade /\ SaveEnd => IFacade'
<1> SUFFICES ASSUME IFacade, SaveEnd PROVE IFacade'
  OBVIOUS
<1>1. /\ Aside /\ UNCHANGED <<before, db, rec, owed, store>> /\ Works
      /\ At("save") /\ result # "nil" /\ saving' = NotSaving /\ saving.rc # "none"
  BY DEF SaveEnd, End, Aside, History, IFacade, Guarding, At
<1>2. ASSUME IsCall(call'), call'.at \in {"idle", "discard"}, Guarding'
      PROVE  IFacade'
  <2>1. Typed'
    BY <1>1, <1>2, NotSavingIs DEF IFacade, Typed, At
  <2>2. Owed'
    BY <1>1, <1>2, AsideOwed DEF RecPlaces
  <2> QED
    BY <1>2, <2>1, <2>2 DEF IFacade
<1>3. Guarded => IsBackup(before) /\ store["old"] = before
  BY <1>1 DEF IFacade, Guarding, Guarded, At
<1>4. CASE saving.rc = "OK" /\ Returns("backup")
  <2>1. IsCall(call') /\ call'.at = "idle" /\ result' = "backup"
    BY <1>4, ReturnsIs
  <2>2. Guarding'
    BY <1>1, <1>3, <2>1 DEF Guarding, Guarded, Works, At, RecPlaces
  <2> QED
    BY <1>2, <2>1, <2>2
<1>5. CASE saving.rc # "OK" /\ Exists("backup") /\ Goto("discard")
  <2>1. IsCall(call') /\ call'.at = "discard" /\ result' = result
    BY <1>5, GotoIs DEF IFacade, Typed, Places
  <2>2. Guarding'
    BY <1>1, <1>3, <2>1, OldGuards
  <2> QED
    BY <1>2, <2>1, <2>2
<1>6. CASE saving.rc # "OK" /\ ~ Exists("backup") /\ Returns("nil")
  <2>1. IsCall(call') /\ call'.at = "idle" /\ result' = "nil"
    BY <1>6, ReturnsIs
  <2>2. ~ Guarded
    BY <1>1, <1>6, FacadeAssumption DEF IFacade, Guarding, At, Exists
  <2>3. Guarding'
    BY <1>1, <2>1, <2>2 DEF Guarding, Guarded, Works, At
  <2> QED
    BY <1>2, <2>1, <2>3
<1> QED
  BY <1>4, <1>5, <1>6 DEF SaveEnd

LEMMA DiscardStep == IFacade /\ Discard => IFacade'
<1> SUFFICES ASSUME IFacade, Discard PROVE IFacade'
  OBVIOUS
<1>1. Aside /\ UNCHANGED before /\ At("discard") /\ result # "nil"
  BY DEF Discard, Aside, History, IFacade, Guarding, At
<1>2. Guarded => IsBackup(before) /\ before \notin Small /\ store["old"] = before
  BY <1>1 DEF IFacade, Guarding, Guarded, At
<1>3. /\ IsCall(call') /\ call'.at \in {"restore", "idle"}
      /\ call'.at = "restore" => result' = result
      /\ Guarded => call'.at = "restore"
  <2>1. PICK big \in Sizes("old") :
          IF Exists("old") /\ big THEN Goto("restore") ELSE Returns("nil")
    BY DEF Discard
  <2>2. Guarded => Exists("old") /\ big
    BY <1>2 DEF Exists, Sizes, IsBackup
  <2>3. CASE Goto("restore") /\ Exists("old") /\ big
    BY <2>3, GotoIs DEF IFacade, Typed, Places
  <2>4. CASE Returns("nil") /\ ~ (Exists("old") /\ big)
    BY <2>2, <2>4, ReturnsIs
  <2> QED
    BY <2>1, <2>3, <2>4
<1>4. CASE Holds("backup", Nothing) /\ Works
  <2>1. /\ IsStore(store') /\ UNCHANGED saving
        /\ store'["backup"] = Nothing /\ store'["old"] = store["old"]
    BY <1>4, HoldsIs, PathsAre DEF IFacade, Typed
  <2>2. Guarding'
    BY <1>1, <1>2, <1>3, <1>4, <2>1 DEF Guarding, Guarded, Works, At, RecPlaces
  <2> QED
    BY <1>1, <1>3, <2>1, <2>2, FileStep DEF RecPlaces
<1>5. CASE StoreStays /\ Fails
  <2>1. Guarding'
    BY <1>1, <1>3, <1>5, FailsGuarding DEF Fails
  <2> QED
    BY <1>1, <1>3, <1>5, <2>1, Stays, FileStep DEF RecPlaces
<1> QED
  BY <1>4, <1>5 DEF Discard

LEMMA RestoreStep == IFacade /\ Restore => IFacade'
<1> SUFFICES ASSUME IFacade, Restore PROVE IFacade'
  OBVIOUS
<1>1. CASE CopyBegins("restore", "backup", "restoring")
  <2>1. IsCall(call') /\ call'.at = "restoring" /\ result' = result
    BY <1>1, GotoIs DEF CopyBegins, IFacade, Typed, Places
  <2>2. /\ IsStore(store') /\ UNCHANGED saving /\ store'["old"] = store["old"]
    BY <1>1, HoldsIs, PathsAre DEF IFacade, Typed, CopyBegins
  <2>3. Aside /\ UNCHANGED before /\ At("restore") /\ Works /\ result # "nil"
    BY <1>1 DEF CopyBegins, Aside, History, IFacade, Guarding, At
  <2>4. Guarded => store["old"] = before
    BY <2>3 DEF IFacade, Guarding, At
  <2>5. Guarding'
    BY <2>1, <2>2, <2>3, <2>4, OldGuards
  <2> QED
    BY <2>1, <2>2, <2>3, <2>5, FileStep DEF RecPlaces
<1>2. CASE CopyEnds("restoring", "old", "backup", "dropOld")
  <2>1. IsCall(call') /\ call'.at = "dropOld" /\ result' = result
    BY <1>2, GotoIs DEF CopyEnds, IFacade, Typed, Places
  <2>2. Aside /\ UNCHANGED before /\ At("restoring") /\ result # "nil"
    BY <1>2 DEF CopyEnds, Aside, History, IFacade, Guarding, At
  <2>3. CASE Holds("backup", store["old"]) /\ Works
    <3>1. IsStore(store') /\ UNCHANGED saving /\ store'["backup"] = store["old"]
      BY <2>3, HoldsIs, PathsAre DEF IFacade, Typed
    <3>2. Guarded => store["old"] = before
      BY <2>2 DEF IFacade, Guarding, At
    <3>3. Guarding'
      BY <2>1, <2>2, <2>3, <3>1, <3>2 DEF Guarding, Guarded, Works, At
    <3> QED
      BY <2>1, <2>2, <3>1, <3>3, FileStep DEF RecPlaces
  <2>4. CASE StoreStays /\ Fails
    <3>1. Guarding'
      BY <2>1, <2>2, <2>4, FailsGuarding DEF Fails
    <3> QED
      BY <2>1, <2>2, <2>4, <3>1, Stays, FileStep DEF RecPlaces
  <2> QED
    BY <1>2, <2>3, <2>4 DEF CopyEnds
<1>3. CASE CopyFails("restore", "backup", "dropOld")
  <2>1. IsCall(call') /\ call'.at = "dropOld" /\ result' = result
    BY <1>3, GotoIs DEF CopyFails, IFacade, Typed, Places
  <2>2. Aside /\ UNCHANGED before /\ At("restore") /\ StoreStays /\ result # "nil"
    BY <1>3 DEF CopyFails, Aside, History, IFacade, Guarding, At
  <2>3. CASE Exists("backup") /\ Works
    <3>1. ~ Guarded
      BY <2>2, <2>3 DEF IFacade, Guarding, Exists, At
    <3>2. Guarding'
      BY <2>1, <2>2, <2>3, <3>1 DEF Guarding, Guarded, Works, At
    <3> QED
      BY <2>1, <2>2, <3>2, Stays, FileStep DEF RecPlaces
  <2>4. CASE Fails
    <3>1. Guarding'
      BY <2>1, <2>2, <2>4, FailsGuarding DEF Fails
    <3> QED
      BY <2>1, <2>2, <3>1, Stays, FileStep DEF RecPlaces
  <2> QED
    BY <1>3, <2>3, <2>4 DEF CopyFails
<1> QED
  BY <1>1, <1>2, <1>3 DEF Restore

LEMMA DropOldStep == IFacade /\ DropOld => IFacade'
<1> SUFFICES ASSUME IFacade, DropOld PROVE IFacade'
  OBVIOUS
<1>1. IsCall(call') /\ call'.at = "idle" /\ result' = "nil"
  BY ReturnsIs DEF DropOld
<1>2. Aside /\ UNCHANGED before /\ At("dropOld")
  BY DEF DropOld, Aside, History
<1>3. Guarded => store["backup"] = before
  BY <1>2 DEF IFacade, Guarding, At
<1>4. CASE Holds("old", Nothing) /\ Works
  <2>1. IsStore(store') /\ UNCHANGED saving /\ store'["backup"] = store["backup"]
    BY <1>4, HoldsIs, PathsAre DEF IFacade, Typed
  <2>2. Guarding'
    BY <1>1, <1>2, <1>3, <1>4, <2>1 DEF Guarding, Guarded, Works, At, RecPlaces
  <2> QED
    BY <1>1, <1>2, <2>1, <2>2, FileStep DEF RecPlaces
<1>5. CASE StoreStays /\ Fails
  <2>1. Guarding'
    BY <1>1, <1>5, FailsGuarding DEF Fails
  <2> QED
    BY <1>1, <1>2, <1>5, <2>1, Stays, FileStep DEF RecPlaces
<1> QED
  BY <1>4, <1>5 DEF DropOld

-----------------------------------------------------------------------------
(* The steps of a recovery.                                                *)

(* They touch neither a backup nor the history of the call.                *)
LEMMA RecoveryStep ==
  ASSUME IFacade, call.at \in {"load", "open"} \cup RecPlaces,
         UNCHANGED <<store, saving, before>>, calm' => calm,
         db' \in Files \cup {Nothing}, rec' \in (SUBSET RowIds) \cup {Nothing},
         owed' \in SUBSET RowIds, Owed',
         \/ \E x \in {"open"} \cup RecPlaces : Goto(x)
         \/ \E r : Returns(r)
         \/ UNCHANGED <<call, result>> /\ ~ At("load")
  PROVE  IFacade'
<1>1. IsCall(call)
  BY DEF IFacade, Typed
<1>2. CASE \E x \in {"open"} \cup RecPlaces : Goto(x)
  <2>1. PICK x \in {"open"} \cup RecPlaces : Goto(x)
    BY <1>2
  <2>2. IsCall(call') /\ call'.at = x /\ result' = result
    BY <1>1, <2>1, GotoIs DEF Places, RecPlaces
  <2>3. Guarding'
    BY <2>2, RecoveryGuarding
  <2>4. Typed'
    BY <2>2 DEF IFacade, Typed, At, RecPlaces
  <2> QED
    BY <2>3, <2>4 DEF IFacade
<1>3. CASE \E r : Returns(r)
  <2>1. IsCall(call') /\ call'.at = "idle"
    BY <1>3, ReturnsIs
  <2>2. Guarding'
    BY <2>1, RecoveryGuarding
  <2>3. Typed'
    BY <2>1 DEF IFacade, Typed, At, RecPlaces
  <2> QED
    BY <2>2, <2>3 DEF IFacade
<1>4. CASE UNCHANGED <<call, result>> /\ ~ At("load")
  <2>1. Guarding'
    BY <1>4, RecoveryGuarding DEF At
  <2>2. Typed'
    BY <1>1, <1>4 DEF IFacade, Typed, At, RecPlaces
  <2> QED
    BY <2>1, <2>2 DEF IFacade
<1> QED
  BY <1>2, <1>3, <1>4

(* Where neither the database, the file -recovery nor the debt changes.    *)
LEMMA SameFiles ==
  ASSUME IFacade, UNCHANGED <<db, rec, owed>>
  PROVE  /\ db' \in Files \cup {Nothing} /\ rec' \in (SUBSET RowIds) \cup {Nothing}
         /\ owed' \in SUBSET RowIds
         /\ \A r : Returns(r) => Owed'
         /\ Goto("open") => Owed'
<1>1. ASSUME NEW r, Returns(r) PROVE Owed'
  BY <1>1, ReturnsIs, AsideOwed DEF RecPlaces
<1>2. ASSUME Goto("open") PROVE Owed'
  <2>1. call'.at = "open"
    BY <1>2, GotoIs DEF IFacade, Typed, Places
  <2> QED
    BY <2>1, AsideOwed DEF RecPlaces
<1> QED
  BY <1>1, <1>2 DEF IFacade, Typed

LEMMA LoadStep == IFacade /\ Load => IFacade'
<1> SUFFICES ASSUME IFacade, Load PROVE IFacade'
  OBVIOUS
<1>1. /\ call.at = "load" /\ Goto("open") /\ UNCHANGED <<store, saving, before>>
      /\ UNCHANGED <<db, rec, owed>> /\ (calm' => calm)
  BY DEF Load, At, Aside, History, Answer, Works, Fails
<1> QED
  BY <1>1, SameFiles, RecoveryStep

LEMMA OpenStep == IFacade /\ Open => IFacade'
<1> SUFFICES ASSUME IFacade, Open PROVE IFacade'
  OBVIOUS
<1>1. call.at = "open" /\ UNCHANGED <<store, saving, before, db, owed>> /\ (calm' => calm)
  BY DEF Open, At, Take, Aside, History, Works, Fails
<1>2. CASE UNCHANGED rec /\ Returns("nil")
  BY <1>1, <1>2, SameFiles, RecoveryStep
<1>3. CASE db # Nothing /\ rec' = RecRows /\ Goto("output")
  <2>1. call'.at = "output"
    BY <1>3, GotoIs DEF IFacade, Typed, Places, RecPlaces
  <2>2. RecRows \in SUBSET RowIds /\ RecRows # Nothing
    BY FacadeAssumption DEF RecRows, IFacade, Typed
  <2>3. Owed'
    BY <1>1, <1>3, <2>1, <2>2 DEF IFacade, Owed, DatabaseOrRecovery, At, RecRows
  <2> QED
    BY <1>1, <1>3, <2>2, <2>3, RecoveryStep DEF IFacade, Typed, RecPlaces
<1> QED
  BY <1>2, <1>3 DEF Open, Aside, RecRows

LEMMA OutputRowStep == IFacade /\ OutputRow => IFacade'
<1> SUFFICES ASSUME IFacade, OutputRow PROVE IFacade'
  OBVIOUS
<1>1. /\ call.at = "output" /\ UNCHANGED <<store, saving, before, db, owed, call, result>>
      /\ (calm' => calm)
  BY DEF OutputRow, At, StoreStays, History, Works
<1>2. PICK r \in db.rows \ rec : rec' = rec \cup {r}
  BY DEF OutputRow
<1>3. db # Nothing /\ rec # Nothing
  BY <1>1 DEF IFacade, Owed, At
<1>4. db.rows \subseteq RowIds /\ rec \subseteq RowIds
  BY <1>3 DEF IFacade, Typed, Files
<1>5. rec' \in SUBSET RowIds /\ rec' # Nothing
  BY <1>2, <1>4, FacadeAssumption
<1>6. Owed'
  BY <1>1, <1>2, <1>3, <1>5 DEF IFacade, Owed, DatabaseOrRecovery, At, RecPlaces
<1> QED
  BY <1>1, <1>5, <1>6, RecoveryStep DEF IFacade, Typed, RecPlaces, At

LEMMA OutputEndStep == IFacade /\ (OutputOK \/ OutputFails) => IFacade'
<1> SUFFICES ASSUME IFacade, OutputOK \/ OutputFails PROVE IFacade'
  OBVIOUS
<1>1. /\ call.at = "output" /\ UNCHANGED <<store, saving, before, db, rec>>
      /\ (calm' => calm)
  BY DEF OutputOK, OutputFails, At, StoreStays, Aside, History, Works
<1>2. CASE OutputFails
  BY <1>1, <1>2, SameFiles, RecoveryStep DEF OutputFails, Aside, History, RecPlaces
<1>3. CASE OutputOK
  <2>1. rec # Nothing /\ owed' = rec
    BY <1>1, <1>3 DEF IFacade, Owed, At, OutputOK
  <2>2. \/ Goto("replace") /\ call'.at = "replace"
        \/ Returns("recovery") /\ call'.at = "idle"
    BY <1>3, GotoIs, ReturnsIs DEF OutputOK, IFacade, Typed, Places, RecPlaces
  <2>3. Owed'
    BY <1>1, <2>1, <2>2 DEF Owed, DatabaseOrRecovery, At, RecRows
  <2> QED
    BY <1>1, <2>1, <2>2, <2>3, RecoveryStep DEF IFacade, Typed, RecPlaces
<1> QED
  BY <1>2, <1>3

LEMMA RemoveDbStep == IFacade /\ RemoveDb => IFacade'
<1> SUFFICES ASSUME IFacade, RemoveDb PROVE IFacade'
  OBVIOUS
<1>1. /\ call.at = "replace" /\ UNCHANGED <<store, saving, before, rec, owed>>
      /\ (calm' => calm)
  BY DEF RemoveDb, At, StoreStays, History, Works, Fails
<1>2. CASE UNCHANGED db /\ Returns("nil")
  BY <1>1, <1>2, SameFiles, RecoveryStep DEF RecPlaces
<1>3. CASE db' = Nothing /\ Goto("copyBack")
  <2>1. call'.at = "copyBack"
    BY <1>3, GotoIs DEF IFacade, Typed, Places, RecPlaces
  <2>2. rec # Nothing /\ owed \subseteq RecRows
    BY <1>1 DEF IFacade, Owed
  <2>3. Owed'
    BY <1>1, <1>3, <2>1, <2>2 DEF Owed, DatabaseOrRecovery, At, RecRows
  <2> QED
    BY <1>1, <1>3, <2>3, RecoveryStep DEF IFacade, Typed, RecPlaces
<1> QED
  BY <1>2, <1>3 DEF RemoveDb

LEMMA CopyBackStep == IFacade /\ CopyBack => IFacade'
<1> SUFFICES ASSUME IFacade, CopyBack PROVE IFacade'
  OBVIOUS
<1>1. /\ call.at = "copyBack" /\ UNCHANGED <<store, saving, before, rec, owed>>
      /\ (calm' => calm) /\ Goto("copyingBack")
  BY DEF CopyBack, At, StoreStays, History, Works
<1>2. db' \in Files
  BY DEF CopyBack
<1>3. call'.at = "copyingBack"
  BY <1>1, GotoIs DEF IFacade, Typed, Places, RecPlaces
<1>4. rec # Nothing /\ owed \subseteq RecRows
  BY <1>1 DEF IFacade, Owed
<1>5. Owed'
  BY <1>1, <1>3, <1>4 DEF Owed, DatabaseOrRecovery, At, RecRows
<1> QED
  BY <1>1, <1>2, <1>5, RecoveryStep DEF IFacade, Typed, RecPlaces

LEMMA CopiedBackStep == IFacade /\ CopiedBack => IFacade'
<1> SUFFICES ASSUME IFacade, CopiedBack PROVE IFacade'
  OBVIOUS
<1>1. /\ call.at = "copyingBack" /\ UNCHANGED <<store, saving, before, rec, owed>>
      /\ (calm' => calm)
  BY DEF CopiedBack, At, StoreStays, History, Works, Fails
<1>2. CASE UNCHANGED db /\ Returns("nil")
  BY <1>1, <1>2, SameFiles, RecoveryStep DEF RecPlaces
<1>3. ASSUME NEW f \in Files, f.rows = rec, db' = f, Goto("clean") PROVE IFacade'
  <2>1. call'.at = "clean"
    BY <1>3, GotoIs DEF IFacade, Typed, Places, RecPlaces
  <2>2. rec # Nothing /\ owed \subseteq rec
    BY <1>1 DEF IFacade, Owed, RecRows
  <2>3. f # Nothing
    BY FacadeAssumption
  <2>4. Owed'
    BY <1>1, <1>3, <2>1, <2>2, <2>3 DEF Owed, DatabaseOrRecovery, At, RecRows, RowsOf
  <2> QED
    BY <1>1, <1>3, <2>4, RecoveryStep DEF IFacade, Typed, RecPlaces
<1> QED
  BY <1>2, <1>3 DEF CopiedBack

LEMMA CleanStep == IFacade /\ Clean => IFacade'
<1> SUFFICES ASSUME IFacade, Clean PROVE IFacade'
  OBVIOUS
<1>1. /\ call.at = "clean" /\ UNCHANGED <<store, saving, before, db, owed>>
      /\ (calm' => calm)
  BY DEF Clean, At, StoreStays, History, Works, Fails
<1>2. CASE UNCHANGED rec /\ Returns("nil")
  BY <1>1, <1>2, SameFiles, RecoveryStep DEF RecPlaces
<1>3. CASE rec' = Nothing /\ Returns("database")
  <2>1. call'.at = "idle"
    BY <1>3, ReturnsIs
  <2>2. owed \subseteq RowsOf(db)
    BY <1>1 DEF IFacade, Owed, At
  <2>3. Owed'
    BY <1>1, <1>3, <2>1, <2>2 DEF Owed, DatabaseOrRecovery, At, RecRows, RowsOf
  <2> QED
    BY <1>1, <1>3, <2>3, RecoveryStep DEF IFacade, Typed, RecPlaces
<1> QED
  BY <1>2, <1>3 DEF Clean

-----------------------------------------------------------------------------
(* Between calls, and where the process stops.                             *)

LEMMA IdleSame ==
  ASSUME IFacade, UNCHANGED <<store, saving, db, rec, call, result, owed, before, calm>>
  PROVE  IFacade'
BY DEF IFacade, Typed, At, Owed, DatabaseOrRecovery, RecRows, Guarding, Guarded

LEMMA LaunchStep == ASSUME IFacade, NEW id, Launch(id) PROVE IFacade'
BY IdleSame, RecoveryBeginStep DEF Launch

LEMMA DueStep == IFacade /\ Due => IFacade'
BY IdleSame, BackupBeginStep DEF Due

LEMMA EnvironmentStep == IFacade /\ Environment => IFacade'
<1> SUFFICES ASSUME IFacade, Environment PROVE IFacade'
  OBVIOUS
<1>1. /\ call.at = "idle" /\ UNCHANGED <<store, saving, rec, call, before, calm>>
      /\ result' = "none"
  BY DEF Environment, At, StoreStays, Works
<1>2. Guarding'
  BY <1>1 DEF IFacade, Guarding, Guarded, At, RecPlaces
<1>3. ASSUME db' \in Files, owed' \in SUBSET RowIds,
             owed' \subseteq RowsOf(db') \cup RecRows
      PROVE  IFacade'
  <2>1. Owed'
    BY <1>1, <1>3 DEF Owed, DatabaseOrRecovery, At, RecRows
  <2>2. Typed'
    BY <1>1, <1>3 DEF IFacade, Typed, At
  <2> QED
    BY <1>2, <2>1, <2>2 DEF IFacade
<1>4. owed \subseteq RowsOf(db) \cup RecRows /\ owed \in SUBSET RowIds
  BY DEF IFacade, Owed, DatabaseOrRecovery, RecRows, Typed
<1>5. CASE db = Nothing /\ UNCHANGED owed
           /\ \E s \in Schemas : db' = [rows |-> {}, schema |-> s, harm |-> "none"]
  <2>1. db' \in Files /\ owed' \in SUBSET RowIds
    BY <1>4, <1>5 DEF Files, Harms
  <2>2. owed' \subseteq RowsOf(db') \cup RecRows
    BY <1>4, <1>5 DEF RowsOf
  <2> QED
    BY <1>3, <2>1, <2>2
<1>6. CASE db # Nothing /\ \E r \in RowIds : /\ db' = [db EXCEPT !.rows = @ \cup {r}]
                                             /\ owed' = owed \cup {r}
  <2>1. PICK r \in RowIds : /\ db' = [db EXCEPT !.rows = @ \cup {r}]
                            /\ owed' = owed \cup {r}
    BY <1>6
  <2>2. db \in [rows : SUBSET RowIds, schema : Schemas, harm : Harms]
    BY <1>6 DEF IFacade, Typed, Files
  <2>3. db' \in Files /\ db'.rows = db.rows \cup {r}
    BY <2>1, <2>2 DEF Files
  <2>4. RowsOf(db) = db.rows /\ RowsOf(db') = db'.rows
    BY <1>6, <2>3, FacadeAssumption DEF RowsOf
  <2>5. owed' \in SUBSET RowIds
    BY ONLY <1>4, <2>1
  <2>6. owed' \subseteq RowsOf(db') \cup RecRows
    BY ONLY <1>4, <2>1, <2>3, <2>4
  <2> QED
    BY <1>3, <2>3, <2>5, <2>6
<1>7. CASE db # Nothing /\ UNCHANGED owed
           /\ \/ \E s \in Schemas : db' = [db EXCEPT !.schema = s]
              \/ \E h \in Harms : db' = [db EXCEPT !.harm = h]
  <2>1. db \in [rows : SUBSET RowIds, schema : Schemas, harm : Harms]
    BY <1>7 DEF IFacade, Typed, Files
  <2>2. db' \in Files /\ db'.rows = db.rows
    BY <1>7, <2>1 DEF Files
  <2>3. RowsOf(db) = db.rows /\ RowsOf(db') = db'.rows
    BY <1>7, <2>2, FacadeAssumption DEF RowsOf
  <2> QED
    BY <1>3, <1>4, <1>7, <2>2, <2>3
<1> QED
  BY <1>5, <1>6, <1>7 DEF Environment

LEMMA StopStep == IFacade /\ Stop => IFacade'
<1> SUFFICES ASSUME IFacade, Stop PROVE IFacade'
  OBVIOUS
<1>1. /\ call.at # "idle" /\ UNCHANGED <<store, db, rec, owed, before, calm>>
      /\ call' = NoCall /\ result' = "none" /\ saving' = NotSaving
  BY DEF Stop, Restart, At
<1>2. IsCall(call') /\ call'.at = "idle"
  BY <1>1, CallIs DEF NoCall, Places
<1>3. Typed'
  BY <1>1, <1>2, NotSavingIs DEF IFacade, Typed, At
<1>4. Owed'
  BY <1>1, <1>2, AsideOwed DEF RecPlaces
<1>5. Guarded => store["backup"] = before \/ store["old"] = before
  BY <1>1 DEF IFacade, Typed, IsCall, Guarding, Guarded, At, Places
<1>6. Guarding'
  BY <1>1, <1>2, <1>5 DEF Guarding, Guarded, At, RecPlaces
<1> QED
  BY <1>3, <1>4, <1>6 DEF IFacade

LEMMA FacadeSteps == IFacade /\ [FacadeNext]_facadeVars => IFacade'
<1> SUFFICES ASSUME IFacade, [FacadeNext]_facadeVars PROVE IFacade'
  OBVIOUS
<1>1. CASE UNCHANGED facadeVars
  BY <1>1, IdleSame DEF facadeVars
<1>2. CASE CallStep
  BY <1>2, RemoveOldStep, RotateStep, RemoveStep, DbOpenStep, SaveStep, SaveEndStep,
     DiscardStep, RestoreStep, DropOldStep, LoadStep, OpenStep, OutputRowStep,
     OutputEndStep, RemoveDbStep, CopyBackStep, CopiedBackStep, CleanStep
     DEF CallStep
<1>3. CASE \/ \E k \in Keys : BackupBegin(k) /\ UNCHANGED <<due, ident>>
           \/ \E k \in Keys, over \in BOOLEAN :
                RecoveryBegin(k, over) /\ UNCHANGED <<due, ident>>
           \/ \E id \in Idents : Launch(id)
           \/ Due \/ Environment \/ Stop
  BY <1>3, BackupBeginStep, RecoveryBeginStep, LaunchStep, DueStep, EnvironmentStep,
     StopStep
<1> QED
  BY <1>1, <1>2, <1>3 DEF FacadeNext

LEMMA FacadeInvariant == FacadeSpec => []IFacade
<1>1. FacadeInit => IFacade
  BY StartsTyped
<1>2. IFacade /\ [FacadeNext]_facadeVars => IFacade'
  BY FacadeSteps
<1> QED
  BY <1>1, <1>2, PTL DEF FacadeSpec

-----------------------------------------------------------------------------
(* The rows of the database, or those that sqliterk_output said it has     *)
(* recovered, are in the database or in the file -recovery, wherever       *)
(* recoveryDBPath: stops or fails between removing the one and copying the *)
(* other.                                                                  *)
THEOREM RowsAreSomewhere == FacadeSpec => []DatabaseOrRecovery
<1>1. IFacade => DatabaseOrRecovery
  BY DEF IFacade, Owed
<1> QED
  BY <1>1, FacadeInvariant, PTL

(* The rotation of backupDBPath: and the restoring after a failed save keep*)
(* a whole backup in one of the two files at every moment.                 *)
THEOREM ABackupIsAlwaysThere == FacadeSpec => []GoodBackupSurvives
<1>1. IFacade => GoodBackupSurvives
  <2> SUFFICES ASSUME IFacade, Guarded
               PROVE  \E p \in Paths : IsBackup(store[p])
    BY DEF GoodBackupSurvives, Guarded
  <2>1. IsBackup(before) /\ call.at \in Places
    BY DEF Guarded, IFacade, Typed, IsCall
  <2>2. IsBackup(store["backup"]) \/ IsBackup(store["old"])
    BY <2>1 DEF IFacade, Guarding, At, Places
  <2> QED
    BY <2>2, PathsAre
<1> QED
  BY <1>1, FacadeInvariant, PTL

(* A backup that returns nil because the database cannot be read, all file *)
(* operations having done as they were told, leaves the newer backup as it *)
(* has found it.                                                           *)
THEOREM FailedBackupRestores == FacadeSpec => []FailedCallRestores
<1>1. IFacade => FailedCallRestores
  BY DEF IFacade, Guarding, Guarded, FailedCallRestores
<1> QED
  BY <1>1, FacadeInvariant, PTL
=============================================================================
