-------------------------- MODULE MigrationProofs --------------------------
(***************************************************************************)
(* For any programs, heights, blocks and bounds: what a service wrote is   *)
(* not lost, the old data is in where the status says so, no service makes *)
(* an empty database while there is old data to bring in, and a merge      *)
(* leaves what was written since the last one.                             *)
(*                                                                         *)
(* The copy, the rename, the flush, the marker and the status are written  *)
(* in separate steps, with a crash or a power cut between any two.  So the *)
(* invariant says that nobody has the database open from the lock on       *)
(* (LockKept), what the copy holds at each place of Run (CopyInStep), what *)
(* a cut may bring back (InPlace, Before), what marker and status vouch    *)
(* for (OldDataKnown), and how each row stands against the old one         *)
(* (Untouched).                                                            *)
(***************************************************************************)
EXTENDS Migration, FiniteSetTheorems, TLAPS

SavedRows == [saved : Int]
Cells     == Units \cup {NoUnit} \cup SavedRows
RowSets   == {r \in [Keys -> Cells] : /\ r[Settings] \in SavedRows \cup {NoUnit}
                                      /\ \A h \in Heights : r[h] \in Units \cup {NoUnit}}
Actions   == {None, "move", "merge"}
CopyTypes == [state : {None, "partial", "prepared"}, mode : Actions,
              written : RowSets, rows : RowSets, existing : RowSets \cup {None}]
UndoTypes == [db : RowSets \cup {None}, tmp : CopyTypes, touched : SUBSET Keys]
OldTypes  == [rows : RowSets, folder : {"ok", "gone", "damaged"}, clean : BOOLEAN]
MigPlaces == {"off", "plan", "lock", "server", "prepare", "copy", "verify", "merge", "check", "finish",
              "stop", "commit", "rename", "sync", "mark", "done"}
MigTypes  == [pc : MigPlaces, action : Actions, held : BOOLEAN, fresh : BOOLEAN,
              read : RowSets \cup {None}, exit : {None, "ok", "held back", "failed", "deferred"}]

Words == {"none", "done", "failed", "skipped", "degraded", "deferred"}
StatusTypes == {None} \cup Words
SvcPlaces == {"off", "maintenance", "waiting", "locked", "open", "stale"}

\* The types of the variables the proofs are about.
TypeOK ==
    /\ host \in {"off", "up"}
    /\ db \in RowSets \cup {None} /\ wal \in RowSets
    /\ tmp \in CopyTypes /\ undo \in UndoTypes \cup {None}
    /\ marker \in {None, "current", "other"}
    /\ skip \in BOOLEAN /\ without \in BOOLEAN
    /\ status \in StatusTypes /\ unsaid \in {"never", "now", "before"}
    /\ pg \in OldTypes /\ mig \in MigTypes
    /\ svc \in [Services -> SvcPlaces]
    /\ started \subseteq Services /\ records \in Nat
    /\ kept \subseteq Keys /\ touched \subseteq Keys

\* The migrator's places, from the lock on where it keeps the lock, and once the copy is in place.
Locked == {"server", "prepare", "copy", "verify", "merge", "check", "finish", "stop", "commit"}
Placed == {"sync", "mark", "done"}

\* Nobody has the database open while the migrator holds the lock, as it does wherever it writes it.
LockKept ==
    /\ mig.held => Holders = {}
    /\ OneProcess /\ mig.pc \in Locked => mig.held
    /\ mig.pc \in {"rename"} \cup Placed => mig.held
    /\ \A s \in Services : svc[s] # "stale" /\ (svc[s] = "open" => db # None)
    /\ host = "off" => mig.pc = "off" /\ mig.exit = None

\* What a power cut may bring back, seen as a database: its log was folded in before the rename.
Before == IF undo.db = None THEN Empty ELSE undo.db

\* The settings of the old data are there, and no newer than the last record.
OldSettings == pg.rows[Settings] \in SavedRows /\ pg.rows[Settings].saved <= records

\* What the copy holds at each place of the migrator: at the end what the merge should come to.
CopyInStep ==
    /\ mig.pc \in {"lock", "server", "prepare", "copy", "verify", "merge", "check", "finish"} =>
          mig.action \in {"move", "merge"}
    /\ mig.pc \notin {"off", "stop"} => mig.exit = None
    /\ mig.pc = "stop" => mig.exit \in {None, "failed", "deferred"}
    /\ mig.pc \in {"copy", "verify", "merge", "check", "finish"} /\ mig.action = "merge" =>
          mig.read \in RowSets
    /\ mig.pc = "verify" => tmp.written \in convertRow(pg.rows)
    /\ mig.pc \in {"merge", "check"} => tmp.written = pg.rows
    /\ mig.pc = "check" =>
          IF mig.action = "merge" THEN tmp.rows[Settings] = Merged(pg.rows, mig.read)[Settings]
          ELSE tmp.rows = pg.rows
    /\ mig.pc = "finish" => tmp.rows = IF mig.action = "merge" THEN Merged(pg.rows, mig.read) ELSE pg.rows
    /\ mig.pc \in {"stop", "commit"} /\ mig.exit = None =>
          /\ tmp.mode \in {"move", "merge"}
          /\ tmp.mode = "move"  => tmp.rows = pg.rows
          /\ tmp.mode = "merge" => tmp.existing \in RowSets /\ tmp.rows = Merged(pg.rows, tmp.existing)

\* The copy that takes the database's place is the merge of the old data with it; only a rename of Run's
\* may be undone by a power cut, before anything is written to the new database.
InPlace ==
    /\ mig.pc = "rename" => tmp.rows = Merged(pg.rows, View) /\ (db # None => wal = Empty)
    /\ mig.pc \in Placed => db # None
    /\ undo # None => OneProcess /\ mig.pc = "sync" /\ wal = Empty

\* What the services wrote is in the database, and in the one a power cut brings back.
KeptThere ==
    /\ \A k \in kept : View[k] # NoUnit
    /\ undo # None => \A k \in kept : Before[k] # NoUnit

\* A database has the old data: every row of it, or another, and settings no older.
Has(rows) ==
    /\ \A k \in Keys : pg.rows[k] # NoUnit => rows[k] # NoUnit
    /\ rows[Settings] \in SavedRows => rows[Settings].saved >= pg.rows[Settings].saved

\* No service is there, nor will be before a migrator comes to its end.
Quiet ==
    /\ started = {} /\ svc = Off
    /\ mig.pc = "off" => mig.exit = None \/ (OneProcess /\ mig.exit # "ok")

\* From the old server's start, which rewrites pg_control, no marker names it as it is.
Unmarked ==
    {"prepare", "copy", "verify", "merge", "check", "finish", "stop", "commit", "rename", "sync", "mark"}

\* The old data is in a database put in place, and where the marker or the status of this start says so,
\* unless the earlier version ran since: then no service comes before the migrator.
OldDataKnown ==
    /\ mig.pc \in Placed => Has(View)
    /\ mig.pc \in Unmarked => marker # "current"
    /\ marker = "current" => db # None /\ Has(View)
    /\ status \in {"none", "done"} /\ pg.folder = "ok" /\ unsaid # "now" =>
          (Has(View) \/ Quiet) /\ (undo # None => Has(Before) \/ Quiet)

\* While there is no database, or may be none again after a power cut, but old data the user has not
\* left, nobody opens one: the status holds the services back, or nothing starts them; as long as what
\* came of each start could be recorded, as it must on Umbrel.
Bare == db = None \/ (undo # None /\ undo.db = None)
NobodyOpens ==
    /\ \A s \in Services : svc[s] \in {"off", "maintenance"}
    /\ status = "failed" \/ Quiet
NoneYet ==
    /\ skip => without
    /\ pg.folder # "gone" /\ ~without /\ ~WentOn =>
          /\ Bare => NobodyOpens
          /\ mig.pc = "stop" /\ mig.exit = "deferred" => db # None

\* What a merge makes of a row s written over a row t of the old data: it stays, save an orphaned block,
\* which gives way to the block it was found after.
Stands(k, t, s) ==
    \/ s = t
    \/ k = Settings /\ settingsWin(t, s)
    \/ k \in Heights /\ existingWins(t, s)
    \/ /\ k \in Heights /\ t \in Units /\ s \in Units /\ s.status = "orphaned" /\ t.hash # s.hash
       /\ t.status = "orphaned" \/ FoundAt[s.hash] > FoundAt[t.hash]

\* Every row the earlier version has not touched since the last merge stands against it, in the database
\* and in the one a power cut brings back.
Untouched ==
    /\ db = None => touched = Keys
    /\ db # None => \A k \in Keys \ touched : Stands(k, pg.rows[k], View[k])
    /\ undo # None /\ undo.db = None => undo.touched = Keys
    /\ undo # None /\ undo.db # None => \A k \in Keys \ undo.touched : Stands(k, pg.rows[k], Before[k])

IInv ==
    /\ TypeOK /\ OldSettings /\ LockKept /\ CopyInStep /\ InPlace /\ KeptThere /\ OldDataKnown
    /\ NoneYet /\ Untouched

\* The rows of an empty database, and of no database, are none.
LEMMA EmptyTyped == Empty \in RowSets /\ \A k \in Keys : Empty[k] = NoUnit
BY DEF Empty, RowSets, Cells, Keys

\* No set of rows is taken for no file, no block for none, and no place of the settings for a height.
LEMMA NoneApart ==
  /\ None \notin RowSets
  /\ NoUnit \notin Units /\ NoUnit \notin SavedRows /\ Units \cap SavedRows = {}
BY NoneAssumption DEF RowSets, Cells, SavedRows, NoUnit, Units

\* What is seen of a database is what its log says, and its file where the log says nothing.
LEMMA ViewFacts ==
  ASSUME TypeOK
  PROVE  /\ View \in RowSets
         /\ db = None => View = Empty
         /\ db # None => \A k \in Keys : View[k] = IF wal[k] # NoUnit THEN wal[k] ELSE db[k]
<1>1. CASE db = None BY <1>1, EmptyTyped DEF View
<1>2. CASE db # None
  <2>1. db \in RowSets /\ wal \in RowSets BY <1>2 DEF TypeOK
  <2>2. Settings \in Keys /\ Heights \subseteq Keys BY DEF Keys
  <2>3. View = [k \in Keys |-> IF wal[k] # NoUnit THEN wal[k] ELSE db[k]] BY <1>2 DEF View, Overlay
  <2>4. View \in [Keys -> Cells] BY <2>1, <2>3 DEF RowSets
  <2>5. View[Settings] \in SavedRows \cup {NoUnit} /\ \A h \in Heights : View[h] \in Units \cup {NoUnit}
    BY <2>1, <2>2, <2>3 DEF RowSets
  <2> QED BY <1>2, <2>3, <2>4, <2>5 DEF RowSets
<1> QED BY <1>1, <1>2

\* A database with its log folded in shows the same.
LEMMA Folded ==
  ASSUME TypeOK, db # None, db' = View, wal' = Empty
  PROVE  View' = View /\ db' \in RowSets /\ wal' \in RowSets /\ db' # None
<1>1. View \in RowSets BY ViewFacts
<1>2. db' # None BY <1>1, NoneApart
<1>3. View' = [k \in Keys |-> IF Empty[k] # NoUnit THEN Empty[k] ELSE View[k]]
  BY <1>2 DEF View, Overlay
<1>4. View' = [k \in Keys |-> View[k]] BY <1>3, EmptyTyped
<1> QED BY <1>1, <1>2, <1>4, EmptyTyped DEF RowSets

\* So exclusive changes nothing of what is seen.
LEMMA FoldKeeps ==
  ASSUME TypeOK, Fold
  PROVE  /\ View' = View /\ db' \in RowSets \cup {None} /\ wal' \in RowSets
         /\ db' = None <=> db = None
         /\ db' # None => wal' = Empty /\ db' = View
<1>1. CASE db = None BY <1>1 DEF Fold, View, TypeOK
<1>2. CASE db # None BY <1>2, Folded DEF Fold
<1> QED BY <1>1, <1>2

\* A merge takes a row of one side wherever there is one, and settings no older than the old data's;
\* merged with nothing the old data stays as it is.
LEMMA MergedFacts ==
  ASSUME NEW old \in RowSets, NEW new \in RowSets
  PROVE  /\ Merged(old, new) \in RowSets
         /\ \A k \in Keys : old[k] # NoUnit \/ new[k] # NoUnit => Merged(old, new)[k] # NoUnit
         /\ old[Settings] \in SavedRows => /\ Merged(old, new)[Settings] \in SavedRows
                                           /\ Merged(old, new)[Settings].saved >= old[Settings].saved
<1> DEFINE m == Merged(old, new)
<1>0. Settings \in Keys /\ Heights \subseteq Keys BY DEF Keys
<1>1. m \in [Keys -> Cells] BY DEF Merged, RowSets
<1>2. \A k \in Keys : m[k] = new[k] \/ m[k] = old[k] BY DEF Merged
<1>3. m[Settings] \in SavedRows \cup {NoUnit} /\ \A h \in Heights : m[h] \in Units \cup {NoUnit}
  BY <1>0, <1>2 DEF RowSets
<1>4. ASSUME NEW k \in Keys, old[k] # NoUnit \/ new[k] # NoUnit PROVE m[k] # NoUnit
  BY <1>4 DEF Merged, settingsWin, existingWins
<1>5. ASSUME old[Settings] \in SavedRows
      PROVE  m[Settings] \in SavedRows /\ m[Settings].saved >= old[Settings].saved
  <2>1. m[Settings] = IF settingsWin(old[Settings], new[Settings]) THEN new[Settings] ELSE old[Settings]
    BY <1>0 DEF Merged
  <2>2. new[Settings] \in SavedRows \cup {NoUnit} BY DEF RowSets
  <2> QED BY <1>5, <2>1, <2>2, NoneApart DEF settingsWin, SavedRows
<1> QED BY <1>1, <1>3, <1>4, <1>5 DEF RowSets

\* Merged with nothing the old data stays as it is.
LEMMA MergedWithNone ==
  ASSUME NEW old \in RowSets
  PROVE  Merged(old, Empty) = old
<1>1. Merged(old, Empty) = [k \in Keys |-> old[k]]
  BY EmptyTyped DEF Merged, existingWins, settingsWin
<1> QED BY <1>1 DEF RowSets

\* A row written over another leaves rows of a database.
LEMMA RowPut ==
  ASSUME NEW r \in RowSets, NEW k \in Keys, NEW row,
         k = Settings => row \in SavedRows \cup {NoUnit},
         k \in Heights => row \in Units \cup {NoUnit}
  PROVE  [r EXCEPT ![k] = row] \in RowSets
<1> DEFINE e == [r EXCEPT ![k] = row]
<1>1. k \in Heights \/ k = Settings BY DEF Keys
<1>2. row \in Cells BY <1>1 DEF Cells
<1>3. Settings \in Keys /\ Heights \subseteq Keys BY DEF Keys
<1>4. e \in [Keys -> Cells] BY <1>2 DEF RowSets
<1>5. \A o \in Keys : e[o] = IF o = k THEN row ELSE r[o] BY DEF RowSets
<1>6. e[Settings] \in SavedRows \cup {NoUnit} BY <1>3, <1>5 DEF RowSets
<1>7. \A h \in Heights : e[h] \in Units \cup {NoUnit} BY <1>3, <1>5 DEF RowSets
<1> QED BY <1>4, <1>6, <1>7 DEF RowSets

\* Rows that came out wrong are rows all the same, of which one at most is another.
LEMMA WrongTyped ==
  ASSUME NEW r \in RowSets, NEW w \in Wrong(r)
  PROVE  w \in RowSets
<1>1. CASE \E k \in Keys : w = [r EXCEPT ![k] = NoUnit] BY <1>1, RowPut
<1>2. CASE \E h \in Heights, st \in Status : r[h] # NoUnit /\ w = [r EXCEPT ![h].status = st]
  <2>1. PICK h \in Heights, st \in Status : r[h] # NoUnit /\ w = [r EXCEPT ![h].status = st] BY <1>2
  <2>2. r[h] \in Units BY <2>1 DEF RowSets
  <2> DEFINE u == [r[h] EXCEPT !.status = st]
  <2>3. u \in Units BY <2>1, <2>2 DEF Units
  <2>4. w = [r EXCEPT ![h] = u] BY <2>1
  <2>5. h \in Keys /\ h # Settings BY HeightsAssumption DEF Keys
  <2> HIDE DEF u
  <2> QED BY <2>3, <2>4, <2>5, RowPut
<1>3. CASE w = [r EXCEPT ![Settings] = Saved(-1)]
  <2>1. Saved(-1) \in SavedRows BY DEF Saved, SavedRows
  <2>2. Settings \in Keys /\ Settings \notin Heights BY HeightsAssumption DEF Keys
  <2> QED BY <1>3, <2>1, <2>2, RowPut
<1> QED BY <1>1, <1>2, <1>3 DEF Wrong, Keys

\* What a service or the earlier version writes is a row there, never none; settings are saved later
\* than any before.
LEMMA WritesARow ==
  ASSUME TypeOK, NEW r \in RowSets, NEW k \in Keys, NEW row \in Rows, Writes(r, k, row)
  PROVE  /\ [r EXCEPT ![k] = row] \in RowSets /\ row # NoUnit
         /\ k = Settings => row = Saved(records + 1) /\ row \in SavedRows
<1>1. records + 1 \in Nat BY DEF TypeOK
<1>2. Saved(records + 1) \in SavedRows BY <1>1 DEF Saved, SavedRows
<1>3. k = Settings => row = Saved(records + 1) BY HeightsAssumption DEF Writes
<1>4. k \in Heights => row \in Units BY HeightsAssumption DEF Writes
<1>5. row \in Units \cup SavedRows BY <1>2 DEF Rows
<1> QED BY <1>2, <1>3, <1>4, <1>5, RowPut, NoneApart

\* The migrator goes on to its next place.
LEMMA Stepped ==
  ASSUME TypeOK, NEW p \in MigPlaces, Step(p)
  PROVE  /\ mig' \in MigTypes /\ mig'.pc = p
         /\ mig'.action = mig.action /\ mig'.held = mig.held /\ mig'.fresh = mig.fresh
         /\ mig'.read = mig.read /\ mig'.exit = mig.exit
BY DEF TypeOK, MigTypes, Step

\* No migrator runs.
LEMMA EndedTyped ==
  /\ Ended \in MigTypes /\ Ended.pc = "off" /\ Ended.action = None /\ Ended.held = FALSE
  /\ Ended.read = None /\ Ended.exit = None
BY DEF MigTypes, Ended, Actions, MigPlaces

\* The migrator ends, and gives its lock back.
LEMMA EndedAs ==
  ASSUME NEW e \in {None, "ok", "held back", "failed", "deferred"}, mig' = [Ended EXCEPT !.exit = e]
  PROVE  /\ mig' \in MigTypes /\ mig'.pc = "off"
         /\ mig'.action = None /\ mig'.held = FALSE /\ mig'.fresh = FALSE
         /\ mig'.read = None /\ mig'.exit = e
BY DEF MigTypes, Ended, Actions, MigPlaces

\* It ends with what came of the move in the status file, or holds the services back, or, the
\* launcher, goes on with the status there.
LEMMA Outcomes ==
  ASSUME TypeOK, NEW st \in Words, NEW n, Outcome(st, n)
  PROVE  /\ mig' \in MigTypes /\ mig'.pc = "off" /\ mig'.action = None /\ mig'.held = FALSE
         /\ status' \in StatusTypes /\ unsaid' \in {"never", "now", "before"}
         /\ \/ /\ mig'.exit = "ok"
               /\ status' = st \/ (st = "none" /\ status = None /\ status' = None)
            \/ mig'.exit = "held back" /\ OneProcess /\ UNCHANGED recorded
            \/ mig'.exit = "ok" /\ ~OneProcess /\ unsaid' = "now" /\ status' = status
<1> USE DEF TypeOK, StatusTypes
<1>1. CASE OneProcess
  <2>1. CASE status' = st /\ End("ok") /\ UNCHANGED unsaid BY <2>1, EndedAs DEF End
  <2>2. CASE End("held back") /\ UNCHANGED <<status, unsaid>>
    BY <1>1, <2>2, EndedAs DEF End, recorded
  <2> QED BY <1>1, <2>1, <2>2 DEF Outcome, RunRecords
<1>2. CASE ~OneProcess
  <2>1. mig' \in MigTypes /\ mig'.pc = "off" /\ mig'.action = None /\ mig'.held = FALSE /\ mig'.exit = "ok"
    BY <1>2, EndedAs DEF Outcome, LauncherRecords, End
  <2>2. CASE status' = (IF Needless(st) THEN None ELSE st) /\ Said
    BY <2>1, <2>2 DEF Needless, Said
  <2>3. CASE unsaid' = "now" /\ UNCHANGED status BY <1>2, <2>1, <2>3
  <2> QED BY <1>2, <2>2, <2>3 DEF Outcome, LauncherRecords
<1> QED BY <1>1, <1>2

\* A start the launcher went on without a word is not forgotten.
LEMMA Unsaids ==
  ASSUME NEW st, NEW n, Outcome(st, n)
  PROVE  unsaid # "never" => unsaid' # "never"
BY DEF Outcome, RunRecords, LauncherRecords, Said

\* What the plan is.
LEMMA Decisions ==
  /\ Decision \in {"none", "failed", "skipped", "degraded", "move", "merge"}
  /\ Decision = "skipped" => skip
  /\ Decision \in {"degraded", "failed"} => pg.folder \notin {"ok", "gone"}
  /\ Decision \notin {"skipped", "none"} => pg.folder # "gone"
  /\ Decision = "none" => pg.folder = "gone" \/ (db # None /\ marker = "current")
  /\ Decision # "skipped" => ~skip
  /\ Decision = "degraded" => db # None
BY DEF Decision, quickPlan, Plan

\* A failed copy is gone, and so is the move.
LEMMA Removed ==
  ASSUME TypeOK, removeMigrating
  PROVE  /\ mig' \in MigTypes /\ mig'.pc = "stop" /\ mig'.exit = "failed" /\ mig'.action = mig.action
         /\ mig'.held = OneProcess
         /\ tmp' = NoCopy /\ tmp' \in CopyTypes
BY EmptyTyped DEF TypeOK, MigTypes, MigPlaces, removeMigrating, OneProcess, NoCopy, CopyTypes,
   Actions

\* Every step of every program keeps the variables' types.
LEMMA TypeKept ==
  ASSUME IInv, [Next]_vars
  PROVE  TypeOK'
<1> USE DEF IInv, StatusTypes, Words, SvcPlaces
<1>1. ASSUME NEW s \in Services, ServiceStarts(s) PROVE TypeOK'
  BY <1>1, ViewFacts, EmptyTyped DEF TypeOK, ServiceStarts, Goto, files, choices, recorded, bounds, history
<1>2. ASSUME NEW s \in Services, LeaveMaintenance(s) PROVE TypeOK'
  BY <1>2, ViewFacts, EmptyTyped DEF TypeOK, LeaveMaintenance, Goto, files, choices, recorded, bounds, history
<1>3. ASSUME NEW s \in Services, holdInUse(s) PROVE TypeOK'
  BY <1>3, ViewFacts, EmptyTyped DEF TypeOK, holdInUse, Goto, files, choices, recorded, bounds, history
<1>4. ASSUME NEW s \in Services, openSQLite(s) PROVE TypeOK'
  BY <1>4, ViewFacts, EmptyTyped DEF TypeOK, openSQLite, Goto, files, choices, recorded, bounds, history
<1>5. ASSUME NEW s \in Services, Record(s) PROVE TypeOK'
  <2>1. PICK k \in Keys, row \in Rows :
            Writes(View, k, row) /\ wal' = [wal EXCEPT ![k] = row] /\ kept' = kept \cup {k}
    BY <1>5 DEF Record
  <2>2. wal' \in RowSets
    <3>1. View \in RowSets /\ wal \in RowSets BY ViewFacts DEF IInv, TypeOK
    <3>2. [View EXCEPT ![k] = row] \in RowSets /\ (k = Settings => row \in SavedRows)
      BY <2>1, <3>1, WritesARow DEF IInv
    <3>3. k \in Heights => row \in Units BY <2>1, HeightsAssumption DEF Writes
    <3> QED BY <2>1, <3>1, <3>2, <3>3, RowPut
  <2>3. records' \in Nat BY <1>5 DEF Record, TypeOK
  <2> QED BY <1>5, <2>1, <2>2, <2>3 DEF TypeOK, Record, choices, recorded
<1>6. ASSUME NEW s \in Services, Close(s) PROVE TypeOK'
  BY <1>6, ViewFacts, EmptyTyped DEF TypeOK, Close, Goto, files, choices, recorded, bounds, history
<1>7. ASSUME NEW s \in Services, Crash(s) PROVE TypeOK'
  BY <1>7, ViewFacts, EmptyTyped DEF TypeOK, Crash, Goto, Fault, files, choices, recorded, bounds, history
<1>8. CASE Boot
  <2>1. mig' \in MigTypes BY <1>8 DEF Boot, Ended, MigTypes, Actions, MigPlaces
  <2>2. svc' \in [Services -> SvcPlaces]
    BY <1>8 DEF Boot, Off, TypeOK
  <2> QED BY <1>8, <2>1, <2>2 DEF TypeOK, Boot, files, choices, recorded, bounds, history
<1>9. CASE Shutdown
  <2>2. mig' \in MigTypes BY <1>9, EndedTyped DEF Shutdown
  <2>3. tmp' \in CopyTypes BY <1>9, EmptyTyped DEF Shutdown, TypeOK, NoCopy, CopyTypes, Actions
  <2>4. pg' \in OldTypes BY <1>9 DEF Shutdown, TypeOK, OldTypes
  <2>5. db' \in RowSets \cup {None} /\ wal' \in RowSets
    BY <1>9, ViewFacts, EmptyTyped DEF Shutdown, TypeOK
  <2> QED BY <1>9, <2>2, <2>3, <2>4, <2>5 DEF TypeOK, Shutdown, Off, files, choices, recorded, bounds, history
<1>10. CASE PowerCut
  <2>2. mig' \in MigTypes BY <1>10, EndedTyped DEF PowerCut
  <2>3. undo # None => undo.db \in RowSets \cup {None} /\ undo.tmp \in CopyTypes /\ undo.touched \subseteq Keys
    BY DEF TypeOK, UndoTypes
  <2>4. db' \in RowSets \cup {None} /\ tmp' \in CopyTypes BY <1>10, <2>3 DEF PowerCut, TypeOK
  <2>5. touched' \subseteq Keys BY <1>10, <2>3 DEF PowerCut, TypeOK
  <2> QED BY <1>10, <2>2, <2>4, <2>5 DEF TypeOK, PowerCut, Off, Fault, choices, recorded
<1>11. CASE LauncherDies
  <2>2. mig' \in MigTypes BY <1>11, EndedTyped DEF LauncherDies
  <2> QED BY <1>11, <2>2 DEF TypeOK, LauncherDies, Fault, files, choices, recorded, bounds, history
<1>12. CASE OldVersionRuns
  <2>1. PICK k \in Keys, row \in Rows :
            /\ Writes(pg.rows, k, row)
            /\ pg' = [pg EXCEPT !.rows[k] = row, !.clean = TRUE]
            /\ touched' = touched \cup {k}
    BY <1>12 DEF OldVersionRuns
  <2> DEFINE r == [pg.rows EXCEPT ![k] = row]
  <2>2. pg.rows \in RowSets BY DEF TypeOK, OldTypes
  <2>3. r \in RowSets BY <2>1, <2>2, WritesARow
  <2>4. pg' = [pg EXCEPT !.rows = r, !.clean = TRUE] BY <2>1
  <2>5. pg' \in OldTypes
    <3> HIDE DEF r
    <3> QED BY <2>3, <2>4 DEF TypeOK, OldTypes
  <2>6. records' \in Nat BY <1>12 DEF OldVersionRuns, TypeOK
  <2> QED BY <1>12, <2>1, <2>5, <2>6 DEF TypeOK, OldVersionRuns, choices, recorded
<1>13. CASE FolderBreaks
  <2>1. pg' \in OldTypes BY <1>13 DEF FolderBreaks, TypeOK, OldTypes
  <2> QED BY <1>13, <2>1 DEF TypeOK, FolderBreaks, Fault, files, choices, recorded, bounds, history
<1>14. CASE saveOldDataChoice
  BY <1>14, ViewFacts, EmptyTyped DEF TypeOK, saveOldDataChoice, files, choices, recorded, bounds, history
<1>15. CASE Start
  <2>1. mig' \in MigTypes /\ status' \in StatusTypes /\ unsaid' \in {"never", "now", "before"}
    <3>1. CASE Decision \in {"move", "merge"}
      <4>0. CASE CannotPlan BY <4>0, Outcomes DEF CannotPlan, TypeOK
      <4>1. CASE mig' = [mig EXCEPT !.pc = "lock", !.action = Decision] /\ UNCHANGED recorded
        BY <3>1, <4>1 DEF TypeOK, MigTypes, MigPlaces, Actions, recorded
      <4> QED BY <1>15, <3>1, <4>0, <4>1 DEF Start
    <3>2. CASE Decision \notin {"move", "merge"}
      <4>1. Decision \in {"none", "failed", "skipped", "degraded"} BY <3>2, Decisions
      <4> QED BY <1>15, <3>2, <4>1, Outcomes DEF Start, CannotPlan
    <3> QED BY <3>1, <3>2
  <2> QED BY <1>15, <2>1 DEF TypeOK, Start, files, choices, recorded, bounds, history
<1>16. CASE TakeLock
  <2>1. mig' \in MigTypes /\ status' \in StatusTypes /\ unsaid' \in {"never", "now", "before"}
    <3>1. CASE OneProcess /\ Busy
      BY <1>16, <3>1, Outcomes DEF TakeLock, TypeOK
    <3>2. CASE ~(OneProcess /\ Busy)
      <4>1. mig' = [mig EXCEPT !.pc = "server", !.held = OneProcess] /\ UNCHANGED recorded
        BY <1>16, <3>2 DEF TakeLock
      <4>2. OneProcess \in BOOLEAN BY DEF OneProcess
      <4> QED BY <4>1, <4>2 DEF TypeOK, MigTypes, MigPlaces, recorded
    <3> QED BY <3>1, <3>2
  <2>2. db' \in RowSets \cup {None} /\ wal' \in RowSets
    BY <1>16, FoldKeeps DEF TakeLock, TypeOK
  <2> QED BY <1>16, <2>1, <2>2 DEF TypeOK, TakeLock, history
<1>17. CASE StartServer
  <2>1. mig' \in MigTypes /\ status' \in StatusTypes /\ unsaid' \in {"never", "now", "before"}
    BY <1>17, Stepped, Outcomes DEF StartServer, MigPlaces, recorded, TypeOK
  <2>2. pg' \in OldTypes BY <1>17 DEF StartServer, TypeOK, OldTypes
  <2> QED BY <1>17, <2>1, <2>2 DEF TypeOK, StartServer, Fault, history
<1>18. CASE Prepare
  <2>1. mig' \in MigTypes
    <3>1. View \in RowSets BY ViewFacts
    <3>2. CASE Step("copy") BY <3>2, Stepped DEF MigPlaces
    <3>3. CASE mig' = [mig EXCEPT !.pc = "copy", !.held = TRUE, !.read = View]
      BY <3>1, <3>3 DEF TypeOK, MigTypes, MigPlaces
    <3>4. CASE \E e \in {"failed", "deferred"} : mig' = [mig EXCEPT !.pc = "stop", !.exit = e]
      BY <3>4 DEF TypeOK, MigTypes, MigPlaces
    <3> QED BY <1>18, <3>2, <3>3, <3>4 DEF Prepare, openExisting, fileIdentity
  <2>2. db' \in RowSets \cup {None} /\ wal' \in RowSets
    BY <1>18, FoldKeeps DEF Prepare, openExisting, TypeOK
  <2>3. tmp' \in CopyTypes BY <1>18, EmptyTyped DEF Prepare, NoCopy, CopyTypes, Actions, TypeOK
  <2> QED BY <1>18, <2>1, <2>2, <2>3 DEF TypeOK, Prepare, choices, recorded, bounds, history
<1>19. CASE Copy
  <2>1. CASE Copies
    <3>1. PICK written \in convertRow(pg.rows) : \E stored \in write(written) :
              tmp' = [tmp EXCEPT !.written = written, !.rows = stored]
      BY <2>1 DEF Copies
    <3>2. PICK stored \in write(written) : tmp' = [tmp EXCEPT !.written = written, !.rows = stored]
      BY <3>1
    <3>3. pg.rows \in RowSets BY DEF TypeOK, OldTypes
    <3>4. written \in RowSets BY <3>3, WrongTyped DEF convertRow
    <3>5. stored \in RowSets BY <3>4, WrongTyped DEF write
    <3>6. tmp' \in CopyTypes BY <3>2, <3>4, <3>5 DEF TypeOK, CopyTypes
    <3>7. mig' \in MigTypes BY <2>1, Stepped DEF Copies, MigPlaces
    <3> QED BY <1>19, <3>6, <3>7 DEF TypeOK, Copy, choices, recorded, history
  <2>2. CASE CopyFails
    BY <1>19, <2>2, Removed DEF TypeOK, Copy, CopyFails, choices, recorded, history
  <2> QED BY <1>19, <2>1, <2>2 DEF Copy
<1>20. CASE verifyCopy
  <2>1. mig' \in MigTypes /\ tmp' \in CopyTypes
    BY <1>20, Stepped, Removed DEF verifyCopy, MigPlaces, TypeOK
  <2> QED BY <1>20, <2>1 DEF TypeOK, verifyCopy, choices, recorded, bounds, history
<1>21. CASE Merge
  <2> DEFINE rows == IF mig.action = "merge" THEN Merged(tmp.written, mig.read) ELSE tmp.written
  <2>1. rows \in RowSets
    <3>1. tmp.written \in RowSets BY DEF TypeOK, CopyTypes
    <3>2. mig.action = "merge" => mig.read \in RowSets BY <1>21 DEF CopyInStep, Merge, At
    <3> QED BY <3>1, <3>2, MergedFacts
  <2>2. \A h \in Heights : [rows EXCEPT ![h] = NoUnit] \in RowSets
    <3> HIDE DEF rows
    <3> QED BY <2>1, RowPut DEF Keys
  <2>3. \E r \in RowSets : tmp' = [tmp EXCEPT !.rows = r]
    <3>1. \/ tmp' = [tmp EXCEPT !.rows = rows]
          \/ \E h \in Heights : tmp' = [tmp EXCEPT !.rows = [rows EXCEPT ![h] = NoUnit]]
      BY <1>21 DEF Merge
    <3> HIDE DEF rows
    <3> QED BY <2>1, <2>2, <3>1
  <2>4. tmp' \in CopyTypes BY <2>3 DEF TypeOK, CopyTypes
  <2>5. mig' \in MigTypes BY <1>21, Stepped DEF Merge, MigPlaces
  <2> QED BY <1>21, <2>4, <2>5 DEF TypeOK, Merge, choices, recorded, history
<1>22. CASE verifyMerge
  <2>1. mig' \in MigTypes BY <1>22, Stepped, Removed DEF verifyMerge, MigPlaces
  <2>2. tmp' \in CopyTypes
    <3>1. CASE removeMigrating BY <3>1, Removed
    <3>2. CASE tmp' = [tmp EXCEPT !.written = Empty] BY <3>2, EmptyTyped DEF TypeOK, CopyTypes
    <3> QED BY <1>22, <3>1, <3>2 DEF verifyMerge
  <2> QED BY <1>22, <2>1, <2>2 DEF TypeOK, verifyMerge, choices, recorded, bounds, history
<1>23. CASE Finish
  <2>1. mig' \in MigTypes /\ tmp' \in CopyTypes
    <3>1. CASE removeMigrating BY <3>1, Removed
    <3>2. CASE /\ tmp' = [tmp EXCEPT !.state = "prepared", !.mode = mig.action, !.existing = mig.read]
               /\ mig' = [mig EXCEPT !.pc = "stop", !.held = OneProcess]
      BY <3>2 DEF TypeOK, CopyTypes, MigTypes, MigPlaces, OneProcess
    <3> QED BY <1>23, <3>1, <3>2 DEF Finish
  <2> QED BY <1>23, <2>1 DEF TypeOK, Finish, choices, recorded, history
<1>24. CASE StopServer
  <2>1. mig' \in MigTypes /\ status' \in StatusTypes /\ unsaid' \in {"never", "now", "before"}
    <3>0. At("stop") /\ (mig.exit = None \/ mig.exit \in {"failed", "deferred"})
      BY <1>24 DEF StopServer, At, CopyInStep
    <3>1. CASE Step("commit") /\ UNCHANGED recorded BY <3>1, Stepped DEF MigPlaces, TypeOK, recorded
    <3>2. CASE mig.exit # None /\ Outcome(mig.exit, 0) BY <3>0, <3>2, Outcomes
    <3>3. CASE Outcome(IF mig.exit = None THEN "failed" ELSE mig.exit, 1) BY <3>0, <3>3, Outcomes
    <3> QED BY <1>24, <3>1, <3>2, <3>3 DEF StopServer
  <2>2. pg' \in OldTypes BY <1>24 DEF StopServer, TypeOK, OldTypes
  <2> QED BY <1>24, <2>1, <2>2 DEF TypeOK, StopServer, files, history
<1>25. CASE CommitStarts
  <2>1. mig' \in MigTypes /\ status' \in StatusTypes /\ unsaid' \in {"never", "now", "before"}
    <3>1. CASE \E n \in {0, 1} : Outcome("deferred", n) \/ Outcome("failed", n) BY <3>1, Outcomes
    <3>2. CASE mig' = [mig EXCEPT !.pc = "rename", !.held = TRUE, !.fresh = TRUE] /\ UNCHANGED recorded
      BY <3>2 DEF TypeOK, MigTypes, MigPlaces, recorded
    <3> QED BY <1>25, <3>1, <3>2 DEF CommitStarts
  <2>2. db' \in RowSets \cup {None} /\ wal' \in RowSets
    BY <1>25, FoldKeeps DEF CommitStarts, TypeOK
  <2> QED BY <1>25, <2>1, <2>2 DEF TypeOK, CommitStarts, history
<1>26. CASE Rename
  <2>1. mig' \in MigTypes BY <1>26, Stepped DEF Rename, MigPlaces
  <2>2. db' \in RowSets /\ wal' \in RowSets /\ tmp' \in CopyTypes
    BY <1>26, EmptyTyped DEF Rename, TypeOK, CopyTypes, NoCopy, Actions
  <2>3. undo' \in UndoTypes \cup {None} BY <1>26 DEF Rename, TypeOK, UndoTypes
  <2>4. svc' \in [Services -> SvcPlaces]
    BY <1>26 DEF Rename, TypeOK
  <2> QED BY <1>26, <2>1, <2>2, <2>3, <2>4 DEF TypeOK, Rename, choices, recorded, bounds
<1>27. CASE Sync
  <2>1. mig' \in MigTypes BY <1>27, Stepped DEF Sync, MigPlaces
  <2> QED BY <1>27, <2>1 DEF TypeOK, Sync, choices, recorded, bounds, history
<1>28. CASE WriteMarker
  <2>1. mig' \in MigTypes /\ status' \in StatusTypes /\ unsaid' \in {"never", "now", "before"}
    BY <1>28, Stepped, Outcomes DEF WriteMarker, MigPlaces, recorded, TypeOK
  <2> QED BY <1>28, <2>1 DEF TypeOK, WriteMarker, Fault, history
<1>29. CASE WriteDone
  <2>1. mig' \in MigTypes /\ status' \in StatusTypes /\ unsaid' \in {"never", "now", "before"}
    BY <1>29, Outcomes, EndedAs DEF WriteDone, End, Said, TypeOK
  <2> QED BY <1>29, <2>1 DEF TypeOK, WriteDone, files, history
<1>30. CASE UNCHANGED vars
  <2>1. UNCHANGED <<vars>>
    BY <1>30 DEF vars, files, choices, recorded, bounds, history
  <2> QED BY <2>1 DEF TypeOK, vars, files, choices, recorded, bounds, history
<1> QED BY <1>1, <1>2, <1>3, <1>4, <1>5, <1>6, <1>7, <1>8, <1>9, <1>10, <1>11, <1>12, <1>13,
          <1>14, <1>15, <1>16, <1>17, <1>18, <1>19, <1>20, <1>21, <1>22, <1>23, <1>24, <1>25,
          <1>26, <1>27, <1>28, <1>29, <1>30 DEF Next, Service, Migrator

\* Where each step takes the migrator.
LEMMA Places ==
  ASSUME TypeOK, LockKept, CopyInStep
  PROVE  /\ Boot => mig'.pc = "plan"
         /\ Shutdown => mig'.pc = "off"
         /\ PowerCut => mig'.pc = "off"
         /\ LauncherDies => mig'.pc = "off"
         /\ OldVersionRuns => mig'.pc = "off"
         /\ FolderBreaks => mig'.pc = "off"
         /\ Start => mig'.pc \in {"lock", "off"}
         /\ TakeLock => mig'.pc \in {"server", "off"}
         /\ StartServer => mig'.pc \in {"prepare", "off"}
         /\ Prepare => mig'.pc \in {"copy", "stop"}
         /\ Copy => mig'.pc \in {"verify", "stop"}
         /\ verifyCopy => mig'.pc \in {"merge", "stop"}
         /\ Merge => mig'.pc = "check"
         /\ verifyMerge => mig'.pc \in {"finish", "stop"}
         /\ Finish => mig'.pc = "stop"
         /\ StopServer => mig'.pc \in {"commit", "off"}
         /\ CommitStarts => mig'.pc \in {"rename", "off"}
         /\ Rename => mig'.pc = "sync"
         /\ Sync => mig'.pc = "mark"
         /\ WriteMarker => mig'.pc \in {"done", "off"}
         /\ WriteDone => mig'.pc = "off"
<1>1. ASSUME Boot PROVE mig'.pc = "plan"
  BY <1>1 DEF Boot, Ended
<1>2. ASSUME Shutdown PROVE mig'.pc = "off"
  BY <1>2, EndedTyped DEF Shutdown
<1>3. ASSUME PowerCut PROVE mig'.pc = "off"
  BY <1>3, EndedTyped DEF PowerCut
<1>4. ASSUME LauncherDies PROVE mig'.pc = "off"
  BY <1>4, EndedTyped DEF LauncherDies
<1>5. ASSUME OldVersionRuns PROVE mig'.pc = "off"
  BY <1>5 DEF OldVersionRuns, LockKept
<1>6. ASSUME FolderBreaks PROVE mig'.pc = "off"
  BY <1>6 DEF FolderBreaks, LockKept
<1>7. ASSUME Start PROVE mig'.pc \in {"lock", "off"}
  <2>1. CASE Decision \in {"move", "merge"}
    BY <1>7, <2>1, Outcomes DEF Start, TypeOK, MigTypes, CannotPlan, Words
  <2>2. CASE Decision \notin {"move", "merge"}
    BY <1>7, <2>2, Decisions, Outcomes DEF Start, CannotPlan, Words
  <2> QED BY <2>1, <2>2
<1>8. ASSUME TakeLock PROVE mig'.pc \in {"server", "off"}
  <2>1. CASE OneProcess /\ Busy BY <1>8, <2>1, Outcomes DEF TakeLock, Words
  <2>2. CASE ~(OneProcess /\ Busy)
    <3>1. mig' = [mig EXCEPT !.pc = "server", !.held = OneProcess] BY <1>8, <2>2 DEF TakeLock
    <3> QED BY <3>1 DEF TypeOK, MigTypes
  <2> QED BY <2>1, <2>2
<1>9. ASSUME StartServer PROVE mig'.pc \in {"prepare", "off"}
  BY <1>9, Stepped, Outcomes DEF StartServer, MigPlaces, Words
<1>10. ASSUME Prepare PROVE mig'.pc \in {"copy", "stop"}
  <2>1. CASE \E e \in {"failed", "deferred"} : mig' = [mig EXCEPT !.pc = "stop", !.exit = e]
    BY <2>1 DEF TypeOK, MigTypes
  <2>2. CASE mig' = [mig EXCEPT !.pc = "copy", !.held = TRUE, !.read = View]
    BY <2>2 DEF TypeOK, MigTypes
  <2>3. CASE Step("copy") BY <2>3, Stepped DEF MigPlaces
  <2> QED BY <1>10, <2>1, <2>2, <2>3 DEF Prepare, openExisting, fileIdentity
<1>11. ASSUME Copy PROVE mig'.pc \in {"verify", "stop"}
  BY <1>11, Stepped, Removed DEF Copy, Copies, CopyFails, MigPlaces
<1>12. ASSUME verifyCopy PROVE mig'.pc \in {"merge", "stop"}
  BY <1>12, Stepped, Removed DEF verifyCopy, MigPlaces
<1>13. ASSUME Merge PROVE mig'.pc = "check"
  BY <1>13, Stepped DEF Merge, MigPlaces
<1>14. ASSUME verifyMerge PROVE mig'.pc \in {"finish", "stop"}
  BY <1>14, Stepped, Removed DEF verifyMerge, MigPlaces
<1>15. ASSUME Finish PROVE mig'.pc = "stop"
  BY <1>15, Removed DEF Finish, TypeOK, MigTypes
<1>16. ASSUME StopServer PROVE mig'.pc \in {"commit", "off"}
  <2>0. mig.exit = None \/ mig.exit \in {"failed", "deferred"}
    BY <1>16 DEF StopServer, At, CopyInStep
  <2>1. CASE Step("commit") BY <2>1, Stepped DEF MigPlaces
  <2>2. CASE mig.exit # None /\ Outcome(mig.exit, 0) BY <2>0, <2>2, Outcomes DEF Words
  <2>3. CASE Outcome(IF mig.exit = None THEN "failed" ELSE mig.exit, 1) BY <2>0, <2>3, Outcomes DEF Words
  <2> QED BY <1>16, <2>1, <2>2, <2>3 DEF StopServer
<1>17. ASSUME CommitStarts PROVE mig'.pc \in {"rename", "off"}
  <2>1. CASE \E n \in {0, 1} : Outcome("deferred", n) \/ Outcome("failed", n) BY <2>1, Outcomes DEF Words
  <2>2. CASE mig' = [mig EXCEPT !.pc = "rename", !.held = TRUE, !.fresh = TRUE]
    BY <2>2 DEF TypeOK, MigTypes
  <2> QED BY <1>17, <2>1, <2>2 DEF CommitStarts
<1>18. ASSUME Rename PROVE mig'.pc = "sync"
  BY <1>18, Stepped DEF Rename, MigPlaces
<1>19. ASSUME Sync PROVE mig'.pc = "mark"
  BY <1>19, Stepped DEF Sync, MigPlaces
<1>20. ASSUME WriteMarker PROVE mig'.pc \in {"done", "off"}
  BY <1>20, Stepped, Outcomes DEF WriteMarker, MigPlaces, Words
<1>21. ASSUME WriteDone PROVE mig'.pc = "off"
  BY <1>21, Outcomes, EndedAs DEF WriteDone, End, Words
<1> QED BY <1>1, <1>2, <1>3, <1>4, <1>5, <1>6, <1>7, <1>8, <1>9, <1>10, <1>11, <1>12, <1>13,
         <1>14, <1>15, <1>16, <1>17, <1>18, <1>19, <1>20, <1>21

\* The old data's settings are never newer than the last record.
LEMMA SettingsKept ==
  ASSUME IInv, [Next]_vars
  PROVE  OldSettings'
<1> USE DEF IInv
<1>1. ASSUME NEW s \in Services, Record(s) PROVE OldSettings'
  <2>1. records \in Nat /\ records' = records + 1 /\ UNCHANGED pg BY <1>1 DEF Record, TypeOK
  <2> QED BY <2>1 DEF OldSettings, SavedRows
<1>2. CASE Shutdown
  <2>1. pg'.rows = pg.rows /\ UNCHANGED records
    BY <1>2 DEF Shutdown, TypeOK, OldTypes, bounds, history
  <2> QED BY <2>1 DEF OldSettings
<1>3. CASE OldVersionRuns
  <2>1. PICK k \in Keys, row \in Rows :
            Writes(pg.rows, k, row) /\ pg' = [pg EXCEPT !.rows[k] = row, !.clean = TRUE]
    BY <1>3 DEF OldVersionRuns
  <2>2. pg.rows \in RowSets BY DEF TypeOK, OldTypes
  <2>3. pg'.rows = [pg.rows EXCEPT ![k] = row] BY <2>1 DEF TypeOK, OldTypes
  <2>4. records \in Nat /\ records' = records + 1 BY <1>3 DEF OldVersionRuns, TypeOK
  <2>5. pg'.rows[Settings] = IF k = Settings THEN row ELSE pg.rows[Settings]
    BY <2>2, <2>3 DEF RowSets, Keys
  <2>6. k = Settings => row = Saved(records + 1) BY <2>1, <2>2, WritesARow
  <2> QED BY <2>4, <2>5, <2>6 DEF OldSettings, Saved, SavedRows
<1>4. CASE FolderBreaks
  <2>1. pg'.rows = pg.rows /\ UNCHANGED records
    BY <1>4 DEF FolderBreaks, TypeOK, OldTypes, bounds, history
  <2> QED BY <2>1 DEF OldSettings
<1>5. CASE StartServer
  <2>1. pg'.rows = pg.rows /\ UNCHANGED records
    BY <1>5 DEF StartServer, TypeOK, OldTypes, bounds, history
  <2> QED BY <2>1 DEF OldSettings
<1>6. CASE StopServer
  <2>1. pg'.rows = pg.rows /\ UNCHANGED records
    BY <1>6 DEF StopServer, TypeOK, OldTypes, bounds, history
  <2> QED BY <2>1 DEF OldSettings
<1>7. ASSUME NEW s \in Services, ServiceStarts(s) \/ LeaveMaintenance(s) \/ holdInUse(s) \/ openSQLite(s)
                   \/ Close(s) \/ Crash(s)
      PROVE  OldSettings'
  <2>1. UNCHANGED <<pg, records>>
    BY <1>7 DEF ServiceStarts, LeaveMaintenance, holdInUse, openSQLite, Close, Crash, Goto, files,
             choices, recorded, bounds, history
  <2> QED BY <2>1 DEF OldSettings
<1>8. CASE Boot \/ PowerCut \/ LauncherDies \/ saveOldDataChoice \/ Start \/ TakeLock
            \/ Prepare \/ Copy \/ verifyCopy \/ Merge \/ verifyMerge \/ Finish \/ CommitStarts
            \/ Rename \/ Sync \/ WriteMarker \/ WriteDone \/ UNCHANGED vars
  <2>1. UNCHANGED <<pg, records>>
    BY <1>8 DEF Boot, PowerCut, LauncherDies, saveOldDataChoice, Start, TakeLock, Prepare, Copy,
             verifyCopy, Merge, verifyMerge, Finish, CommitStarts, Rename, Sync, WriteMarker,
             WriteDone, vars, files, choices, recorded, bounds, history
  <2> QED BY <2>1 DEF OldSettings
<1> QED BY <1>1, <1>2, <1>3, <1>4, <1>5, <1>6, <1>7, <1>8 DEF Next, Service, Migrator

\* A step of one service leaves the others where they are.
LEMMA Went ==
  ASSUME TypeOK, NEW s \in Services, NEW p, Goto(s, p)
  PROVE  \A o \in Services : svc'[o] = IF o = s THEN p ELSE svc[o]
BY DEF Goto, TypeOK

\* Nobody gets at the database while the migrator holds the lock, which no program had before.
LEMMA LockStays ==
  ASSUME IInv, [Next]_vars
  PROVE  LockKept'
<1> USE DEF IInv
<1>1. ASSUME NEW s \in Services, ServiceStarts(s) PROVE LockKept'
  <2>1. \A o \in Services : svc'[o] = svc[o] \/ (o = s /\ svc'[o] \in {"off", "maintenance", "waiting"})
    BY <1>1, Went DEF ServiceStarts
  <2>2. UNCHANGED <<mig, host, platform>> /\ (db' = None => db = None)
    BY <1>1, ViewFacts, NoneApart DEF ServiceStarts, files
  <2> QED BY <2>1, <2>2 DEF LockKept, Holders, Locked, Placed, OneProcess
<1>2. ASSUME NEW s \in Services, LeaveMaintenance(s) PROVE LockKept'
  <2>1. \A o \in Services : svc'[o] = svc[o] \/ (o = s /\ svc'[o] \in {"off", "maintenance", "waiting"})
    BY <1>2, Went DEF LeaveMaintenance
  <2>2. UNCHANGED <<mig, host, platform>> /\ (db' = None => db = None)
    BY <1>2, ViewFacts, NoneApart DEF LeaveMaintenance, files
  <2> QED BY <2>1, <2>2 DEF LockKept, Holders, Locked, Placed, OneProcess
<1>3. ASSUME NEW s \in Services, holdInUse(s) PROVE LockKept'
  <2>1. \A o \in Services : svc'[o] = svc[o] \/ svc'[o] = "locked"
    BY <1>3, Went DEF holdInUse
  <2>2. UNCHANGED <<mig, host, platform, db>> /\ ~mig.held
    BY <1>3 DEF holdInUse, files
  <2> QED BY <2>1, <2>2 DEF LockKept, Holders, Locked, Placed, OneProcess
<1>4. ASSUME NEW s \in Services, openSQLite(s) PROVE LockKept'
  <2>1. \A o \in Services :
            \/ svc'[o] = svc[o]
            \/ svc[o] = "locked" /\ (svc'[o] = "waiting" \/ (svc'[o] = "open" /\ db' # None))
    BY <1>4, Went, EmptyTyped, NoneApart DEF openSQLite
  <2>2. UNCHANGED <<mig, host, platform>> /\ (db' = None => db = None)
    BY <1>4, EmptyTyped, NoneApart DEF openSQLite
  <2> QED BY <2>1, <2>2 DEF LockKept, Holders, Locked, Placed, OneProcess
<1>5. ASSUME NEW s \in Services, Close(s) PROVE LockKept'
  <2>1. \A o \in Services : svc'[o] = svc[o] \/ (o = s /\ svc'[o] \in {"off", "maintenance", "waiting"})
    BY <1>5, Went DEF Close
  <2>2. UNCHANGED <<mig, host, platform>> /\ (db' = None => db = None)
    BY <1>5, ViewFacts, NoneApart DEF Close, files
  <2> QED BY <2>1, <2>2 DEF LockKept, Holders, Locked, Placed, OneProcess
<1>6. ASSUME NEW s \in Services, Crash(s) PROVE LockKept'
  <2>1. \A o \in Services : svc'[o] = svc[o] \/ (o = s /\ svc'[o] \in {"off", "maintenance", "waiting"})
    BY <1>6, Went DEF Crash
  <2>2. UNCHANGED <<mig, host, platform>> /\ (db' = None => db = None)
    BY <1>6, ViewFacts, NoneApart DEF Crash, files
  <2> QED BY <2>1, <2>2 DEF LockKept, Holders, Locked, Placed, OneProcess
<1>7. CASE Boot
  <2>1. mig'.pc = "plan" /\ ~mig'.held BY <1>7 DEF Boot, Ended
  <2>2. \A o \in Services : svc'[o] = "off" \/ svc'[o] = svc[o] BY <1>7 DEF Boot, Off
  <2>3. UNCHANGED <<db, platform>> /\ host' = "up" BY <1>7 DEF Boot, files
  <2> QED BY <2>1, <2>2, <2>3 DEF LockKept, Holders, Locked, Placed, OneProcess
<1>8. CASE Shutdown
  <2>1. mig' = Ended /\ (\A o \in Services : svc'[o] = "off") BY <1>8 DEF Shutdown, Off
  <2>2. mig'.pc = "off" /\ ~mig'.held /\ mig'.exit = None BY <2>1, EndedTyped
  <2> QED BY <2>1, <2>2 DEF LockKept, Holders, Locked, Placed, OneProcess
<1>9. CASE PowerCut
  <2>1. mig' = Ended /\ (\A o \in Services : svc'[o] = "off") BY <1>9 DEF PowerCut, Off
  <2>2. mig'.pc = "off" /\ ~mig'.held /\ mig'.exit = None BY <2>1, EndedTyped
  <2> QED BY <2>1, <2>2 DEF LockKept, Holders, Locked, Placed, OneProcess
<1>10. CASE LauncherDies
  <2>1. mig' = Ended /\ UNCHANGED <<svc, db>> BY <1>10 DEF LauncherDies, files
  <2>2. mig'.pc = "off" /\ ~mig'.held /\ mig'.exit = None BY <2>1, EndedTyped
  <2> QED BY <2>1, <2>2 DEF LockKept, Holders, Locked, Placed, OneProcess
<1>11. CASE Start
  <2>1. UNCHANGED <<svc, db, host, platform>> BY <1>11 DEF Start, files
  <2>2. At("plan") BY <1>11 DEF Start
  <2>3. \/ mig'.pc = "lock"
        \/ mig'.pc = "off" /\ ~mig'.held
    <3>1. CASE Decision \in {"move", "merge"}
      BY <1>11, <3>1, Outcomes DEF Start, TypeOK, MigTypes, CannotPlan, Words
    <3>2. CASE Decision \notin {"move", "merge"}
      BY <1>11, <3>2, Decisions, Outcomes DEF Start, CannotPlan, Words
    <3> QED BY <3>1, <3>2
  <2>4. mig'.held => mig.held
    <3>1. CASE Decision \in {"move", "merge"}
      BY <1>11, <3>1, Outcomes DEF Start, TypeOK, MigTypes, CannotPlan, Words
    <3>2. CASE Decision \notin {"move", "merge"}
      BY <1>11, <3>2, Decisions, Outcomes DEF Start, CannotPlan, Words
    <3> QED BY <3>1, <3>2
  <2>5. host = "up" BY <2>2 DEF At
  <2> QED BY <2>1, <2>3, <2>4, <2>5 DEF LockKept, Holders, Locked, Placed, OneProcess
<1>12. CASE TakeLock
  <2>1. UNCHANGED <<svc, host, platform>> /\ host = "up" BY <1>12 DEF TakeLock, At
  <2>2. db' = None => db = None BY <1>12, FoldKeeps DEF TakeLock
  <2>3. \/ mig'.pc = "off" /\ ~mig'.held
        \/ mig'.pc = "server" /\ mig'.held = OneProcess /\ (OneProcess => ~Busy)
    <3>1. CASE OneProcess /\ Busy BY <1>12, <3>1, Outcomes DEF TakeLock, Words
    <3>2. CASE ~(OneProcess /\ Busy)
      <4>1. mig' = [mig EXCEPT !.pc = "server", !.held = OneProcess] BY <1>12, <3>2 DEF TakeLock
      <4> QED BY <3>2, <4>1 DEF TypeOK, MigTypes
    <3> QED BY <3>1, <3>2
  <2> QED BY <2>1, <2>2, <2>3 DEF LockKept, Holders, Locked, Placed, OneProcess, Busy
<1>13. CASE StartServer
  <2>1. UNCHANGED <<svc, db, host, platform>> /\ host = "up" /\ mig.pc = "server"
    BY <1>13 DEF StartServer, At
  <2>2. \/ mig'.pc = "prepare" /\ mig'.held = mig.held
        \/ mig'.pc = "off" /\ ~mig'.held
    BY <1>13, Stepped, Outcomes DEF StartServer, MigPlaces, Words
  <2> QED BY <2>1, <2>2 DEF LockKept, Holders, Locked, Placed, OneProcess
<1>14. CASE Prepare
  <2>1. UNCHANGED <<svc, host, platform>> /\ host = "up" /\ mig.pc = "prepare"
    BY <1>14 DEF Prepare, At
  <2>2. db' = None => db = None BY <1>14, FoldKeeps DEF Prepare, openExisting
  <2>3. \/ mig'.pc \in {"stop", "copy"} /\ mig'.held = mig.held
        \/ mig'.pc = "copy" /\ ~Busy
    <3>1. CASE mig.action = "move" /\ db # None BY <1>14, <3>1 DEF Prepare, TypeOK, MigTypes
    <3>2. CASE ~(mig.action = "move" /\ db # None) /\ mig.action = "merge" /\ Busy
      BY <1>14, <3>2 DEF Prepare, TypeOK, MigTypes
    <3>3. CASE ~(mig.action = "move" /\ db # None) /\ mig.action = "merge" /\ ~Busy
      BY <1>14, <3>3 DEF Prepare, openExisting, TypeOK, MigTypes
    <3>4. CASE ~(mig.action = "move" /\ db # None) /\ mig.action # "merge"
      BY <1>14, <3>4, Stepped DEF Prepare, MigPlaces
    <3> QED BY <3>1, <3>2, <3>3, <3>4
  <2>4. mig.held /\ OneProcess => mig'.held
    BY <1>14, Stepped DEF Prepare, openExisting, TypeOK, MigTypes, MigPlaces
  <2> QED BY <2>1, <2>2, <2>3, <2>4 DEF LockKept, Holders, Locked, Placed, OneProcess, Busy
<1>15. CASE Copy
  <2>1. UNCHANGED <<svc, db, host, platform>> /\ host = "up" /\ mig.pc = "copy"
    BY <1>15 DEF Copy, At
  <2>2. \/ mig'.pc = "verify" /\ mig'.held = mig.held
        \/ mig'.pc = "stop" /\ mig'.held = OneProcess
    BY <1>15, Stepped, Removed DEF Copy, Copies, CopyFails, MigPlaces
  <2> QED BY <2>1, <2>2 DEF LockKept, Holders, Locked, Placed, OneProcess
<1>16. CASE verifyCopy
  <2>1. UNCHANGED <<svc, db, host, platform>> /\ host = "up" /\ mig.pc = "verify"
    BY <1>16 DEF verifyCopy, At
  <2>2. \/ mig'.pc = "merge" /\ mig'.held = mig.held
        \/ mig'.pc = "stop" /\ mig'.held = OneProcess
    BY <1>16, Stepped, Removed DEF verifyCopy, MigPlaces
  <2> QED BY <2>1, <2>2 DEF LockKept, Holders, Locked, Placed, OneProcess
<1>17. CASE Merge
  <2>1. UNCHANGED <<svc, db, host, platform>> /\ host = "up" /\ mig.pc = "merge"
    BY <1>17 DEF Merge, At
  <2>2. \/ mig'.pc = "check" /\ mig'.held = mig.held
        \/ mig'.pc = "stop" /\ mig'.held = OneProcess
    BY <1>17, Stepped, Removed DEF Merge, MigPlaces
  <2> QED BY <2>1, <2>2 DEF LockKept, Holders, Locked, Placed, OneProcess
<1>18. CASE verifyMerge
  <2>1. UNCHANGED <<svc, db, host, platform>> /\ host = "up" /\ mig.pc = "check"
    BY <1>18 DEF verifyMerge, At
  <2>2. \/ mig'.pc = "finish" /\ mig'.held = mig.held
        \/ mig'.pc = "stop" /\ mig'.held = OneProcess
    BY <1>18, Stepped, Removed DEF verifyMerge, MigPlaces
  <2> QED BY <2>1, <2>2 DEF LockKept, Holders, Locked, Placed, OneProcess
<1>19. CASE Finish
  <2>1. UNCHANGED <<svc, db, host, platform>> /\ host = "up" /\ mig.pc = "finish"
    BY <1>19 DEF Finish, At
  <2>2. mig'.pc = "stop" /\ mig'.held = OneProcess
    BY <1>19, Removed DEF Finish, TypeOK, MigTypes
  <2> QED BY <2>1, <2>2 DEF LockKept, Holders, Locked, Placed, OneProcess
<1>20. CASE StopServer
  <2>1. UNCHANGED <<svc, db, host, platform>> /\ host = "up" /\ mig.pc = "stop"
    BY <1>20 DEF StopServer, At, files
  <2>2. \/ mig'.pc = "commit" /\ mig'.held = mig.held
        \/ mig'.pc = "off" /\ ~mig'.held
    <3>0. mig.exit = None \/ mig.exit \in {"failed", "deferred"} BY <2>1 DEF CopyInStep
    <3>1. CASE Step("commit") BY <3>1, Stepped DEF MigPlaces
    <3>2. CASE mig.exit # None /\ Outcome(mig.exit, 0) BY <3>0, <3>2, Outcomes DEF Words
    <3>3. CASE Outcome(IF mig.exit = None THEN "failed" ELSE mig.exit, 1) BY <3>0, <3>3, Outcomes DEF Words
    <3> QED BY <1>20, <3>1, <3>2, <3>3 DEF StopServer
  <2> QED BY <2>1, <2>2 DEF LockKept, Holders, Locked, Placed, OneProcess
<1>21. CASE CommitStarts
  <2>1. UNCHANGED <<svc, host, platform>> /\ host = "up" BY <1>21 DEF CommitStarts, At
  <2>2. db' = None => db = None BY <1>21, FoldKeeps DEF CommitStarts
  <2>3. \/ mig'.pc = "off" /\ ~mig'.held
        \/ mig'.pc = "rename" /\ mig'.held /\ ~Busy
    <3>1. CASE \E n \in {0, 1} : Outcome("deferred", n) \/ Outcome("failed", n) BY <3>1, Outcomes DEF Words
    <3>2. CASE ~Busy /\ mig' = [mig EXCEPT !.pc = "rename", !.held = TRUE, !.fresh = TRUE]
      BY <3>2 DEF TypeOK, MigTypes
    <3> QED BY <1>21, <3>1, <3>2 DEF CommitStarts
  <2> QED BY <2>1, <2>2, <2>3 DEF LockKept, Holders, Locked, Placed, OneProcess, Busy
<1>22. CASE Rename
  <2>1. mig.held /\ UNCHANGED <<host, platform>> /\ host = "up" BY <1>22 DEF Rename, At, LockKept
  <2>2. UNCHANGED svc
    <3>1. \A s \in Services : svc[s] # "open" BY <2>1 DEF LockKept, Holders
    <3> QED BY <1>22, <3>1 DEF Rename, TypeOK
  <2>3. mig'.pc = "sync" /\ mig'.held BY <1>22, <2>1, Stepped DEF Rename, MigPlaces
  <2>4. db' # None BY <1>22, NoneApart DEF Rename, TypeOK, CopyTypes
  <2> QED BY <2>1, <2>2, <2>3, <2>4 DEF LockKept, Holders, Locked, Placed, OneProcess
<1>23. CASE Sync
  <2>1. UNCHANGED <<svc, db, host, platform>> /\ host = "up" /\ mig.pc = "sync"
    BY <1>23 DEF Sync, At
  <2>2. mig'.pc = "mark" /\ mig'.held = mig.held BY <1>23, Stepped DEF Sync, MigPlaces
  <2> QED BY <2>1, <2>2 DEF LockKept, Holders, Locked, Placed, OneProcess
<1>24. CASE WriteMarker
  <2>1. UNCHANGED <<svc, db, host, platform>> /\ host = "up" /\ mig.pc = "mark"
    BY <1>24 DEF WriteMarker, At
  <2>2. \/ mig'.pc = "done" /\ mig'.held = mig.held
        \/ mig'.pc = "off" /\ ~mig'.held
    BY <1>24, Stepped, Outcomes DEF WriteMarker, MigPlaces, Words
  <2> QED BY <2>1, <2>2 DEF LockKept, Holders, Locked, Placed, OneProcess
<1>25. CASE WriteDone
  <2>1. UNCHANGED <<svc, db, host, platform>> /\ host = "up" BY <1>25 DEF WriteDone, At, files
  <2>2. mig'.pc = "off" /\ ~mig'.held BY <1>25, Outcomes, EndedAs DEF WriteDone, End, Words
  <2> QED BY <2>1, <2>2 DEF LockKept, Holders, Locked, Placed, OneProcess
<1>26. ASSUME NEW s \in Services, Record(s)
      PROVE  LockKept'
  <2>1. UNCHANGED <<mig, svc, db, host, platform>>
    BY <1>26 DEF Record, Goto, files, choices, recorded, bounds, history
  <2> QED BY <2>1 DEF LockKept, Holders, OneProcess
<1>27. CASE OldVersionRuns \/ FolderBreaks \/ saveOldDataChoice \/ UNCHANGED vars
  <2>1. UNCHANGED <<mig, svc, db, host, platform>>
    BY <1>27 DEF OldVersionRuns, FolderBreaks, saveOldDataChoice, FolderBreaks, vars, files,
             choices, recorded, bounds, history
  <2> QED BY <2>1 DEF LockKept, Holders, OneProcess
<1> QED BY <1>1, <1>2, <1>3, <1>4, <1>5, <1>6, <1>7, <1>8, <1>9, <1>10, <1>11, <1>12, <1>13,
          <1>14, <1>15, <1>16, <1>17, <1>18, <1>19, <1>20, <1>21, <1>22, <1>23, <1>24, <1>25,
          <1>26, <1>27 DEF Next, Service, Migrator

\* The checks of the copy let nothing through that is not the old data: a lost row is missed among the
\* keys, one of another status in that status's sum, and other settings where they are compared.
LEMMA VerifiedIsRight ==
  ASSUME TypeOK, tmp.written \in convertRow(pg.rows),
         verifyStored, verifyKeys, verifySatoshis, verifySettings
  PROVE  tmp.written = pg.rows
<1> DEFINE r == pg.rows
           w == tmp.rows
<1>1. r \in RowSets /\ w = tmp.written BY DEF TypeOK, OldTypes, verifyStored
<1>2. Settings \in Keys /\ Heights \subseteq Keys /\ Settings \notin Heights
  BY HeightsAssumption DEF Keys
<1>3. \A st \in Status : Sum(w, st) = Sum(r, st) BY DEF verifySatoshis
<1>4. Present(w) = Present(r) /\ w[Settings] = r[Settings] BY DEF verifyKeys, verifySettings
<1>5. w \in convertRow(r) BY <1>1
<1> SUFFICES w = r BY <1>1
<1> HIDE DEF r, w
<1>6. CASE \E k \in Keys : r[k] # NoUnit /\ w = [r EXCEPT ![k] = NoUnit]
  <2>1. PICK k \in Keys : r[k] # NoUnit /\ w = [r EXCEPT ![k] = NoUnit] BY <1>6
  <2>2. w[k] = NoUnit BY <1>1, <2>1 DEF RowSets
  <2> QED BY <1>4, <2>1, <2>2 DEF Present
<1>7. CASE \E h \in Heights, st \in Status : r[h] # NoUnit /\ w = [r EXCEPT ![h].status = st]
  <2>1. PICK h \in Heights, st \in Status : r[h] # NoUnit /\ w = [r EXCEPT ![h].status = st] BY <1>7
  <2> DEFINE u == [r[h] EXCEPT !.status = st]
             R == {o \in Heights : r[o].status = st}
             W == {o \in Heights : w[o].status = st}
  <2>2. r[h] \in Units BY <1>1, <2>1 DEF RowSets
  <2>3. u.status = st /\ (r[h].status = st => u = r[h]) BY <2>2 DEF Units
  <2>4. w = [r EXCEPT ![h] = u] BY <2>1
  <2>5. \A o \in Heights : w[o] = IF o = h THEN u ELSE r[o]
    <3> HIDE DEF u
    <3> QED BY <1>1, <1>2, <2>4 DEF RowSets
  <2>6. CASE r[h].status = st
    <3>1. w = [r EXCEPT ![h] = r[h]] BY <2>3, <2>4, <2>6
    <3> QED BY <1>1, <3>1 DEF RowSets
  <2>7. CASE r[h].status # st
    <3>1. W = R \cup {h} /\ h \notin R
      <4> HIDE DEF u
      <4> QED BY <2>1, <2>3, <2>5, <2>7
    <3>2. IsFiniteSet(R) BY HeightsAssumption, FS_Subset
    <3>3. Cardinality(R \cup {h}) = Cardinality(R) + 1 /\ Cardinality(R) \in Nat
      <4> HIDE DEF R
      <4> QED BY <3>1, <3>2, FS_AddElement, FS_CardinalityType
    <3>4. Cardinality(W) = Cardinality(R) BY <1>3, <2>1 DEF Sum
    <3> HIDE DEF R, W
    <3> QED BY <3>1, <3>3, <3>4
  <2> QED BY <2>6, <2>7
<1>8. CASE w = [r EXCEPT ![Settings] = Saved(-1)]
  <2>1. Saved(-1) = r[Settings] BY <1>1, <1>2, <1>4, <1>8 DEF RowSets
  <2>2. w = [r EXCEPT ![Settings] = r[Settings]] BY <1>8, <2>1
  <2>3. w = r BY <1>1, <2>2 DEF RowSets
  <2> QED BY <2>3
<1>10. w = r \/ (\E k \in Keys : r[k] # NoUnit /\ w = [r EXCEPT ![k] = NoUnit])
             \/ (\E h \in Heights, st \in Status : r[h] # NoUnit /\ w = [r EXCEPT ![h].status = st])
             \/ w = [r EXCEPT ![Settings] = Saved(-1)]
  BY <1>5 DEF convertRow, Wrong, Keys
<1> QED BY <1>1, <1>6, <1>7, <1>8, <1>10

\* Each step of the migrator leaves in the copy what the next one counts on.
LEMMA StepsKept ==
  ASSUME IInv, [Next]_vars
  PROVE  CopyInStep'
<1> USE DEF IInv
<1>1. CASE Boot
  <2>1. mig'.pc = "plan" /\ mig'.exit = None BY <1>1 DEF Boot, Ended
  <2> QED BY <2>1, NoneAssumption DEF CopyInStep
<1>2. CASE Shutdown
  <2>1. mig'.pc = "off" BY <1>2, EndedTyped DEF Shutdown
  <2> QED BY <2>1 DEF CopyInStep
<1>3. CASE PowerCut
  <2>1. mig'.pc = "off" BY <1>3, EndedTyped DEF PowerCut
  <2> QED BY <2>1 DEF CopyInStep
<1>4. CASE LauncherDies
  <2>1. mig'.pc = "off" BY <1>4, EndedTyped DEF LauncherDies
  <2> QED BY <2>1 DEF CopyInStep
<1>5. CASE OldVersionRuns
  <2>1. mig'.pc = "off" BY <1>5 DEF OldVersionRuns, LockKept
  <2> QED BY <2>1 DEF CopyInStep
<1>6. CASE FolderBreaks
  <2>1. mig'.pc = "off" BY <1>6 DEF FolderBreaks, LockKept
  <2> QED BY <2>1 DEF CopyInStep
<1>7. CASE Start
  <2>1. CASE /\ Decision \in {"move", "merge"}
             /\ mig' = [mig EXCEPT !.pc = "lock", !.action = Decision]
    <3>1. mig'.pc = "lock" /\ mig'.action = Decision /\ mig'.exit = mig.exit /\ mig.pc = "plan"
      BY <1>7, <2>1 DEF Start, TypeOK, MigTypes, At
    <3> QED BY <2>1, <3>1 DEF CopyInStep
  <2>2. CASE CannotPlan \/ (Decision \notin {"move", "merge"} /\ Outcome(Decision, 0))
    <3>1. mig'.pc = "off" BY <2>2, Decisions, Outcomes DEF CannotPlan, Words
    <3> QED BY <3>1 DEF CopyInStep
  <2> QED BY <1>7, <2>1, <2>2 DEF Start
<1>8. CASE TakeLock
  <2>1. CASE OneProcess /\ Busy
    <3>1. mig'.pc = "off" BY <1>8, <2>1, Outcomes DEF TakeLock, Words
    <3> QED BY <3>1 DEF CopyInStep
  <2>2. CASE ~(OneProcess /\ Busy)
    <3>1. mig' = [mig EXCEPT !.pc = "server", !.held = OneProcess] /\ mig.pc = "lock"
      BY <1>8, <2>2 DEF TakeLock, At
    <3>2. mig'.pc = "server" /\ mig'.action = mig.action /\ mig'.exit = mig.exit
      BY <3>1 DEF TypeOK, MigTypes
    <3> QED BY <3>1, <3>2 DEF CopyInStep
  <2> QED BY <2>1, <2>2
<1>9. CASE StartServer
  <2>1. mig.pc = "server" BY <1>9 DEF StartServer, At
  <2>2. \/ mig'.pc = "prepare" /\ mig'.action = mig.action /\ mig'.exit = mig.exit
        \/ mig'.pc = "off"
    BY <1>9, Stepped, Outcomes DEF StartServer, MigPlaces, Words
  <2> QED BY <2>1, <2>2, NoneAssumption DEF CopyInStep
<1>10. CASE Prepare
  <2>1. mig.pc = "prepare" BY <1>10 DEF Prepare, At
  <2>2. \/ mig'.pc = "stop" /\ mig'.exit \in {"failed", "deferred"}
        \/ /\ mig'.pc = "copy" /\ mig'.action = mig.action /\ mig'.exit = mig.exit
           /\ mig.action = "merge" => mig'.read = View
    <3>1. CASE \E e \in {"failed", "deferred"} : mig' = [mig EXCEPT !.pc = "stop", !.exit = e]
      BY <3>1 DEF TypeOK, MigTypes
    <3>2. CASE mig' = [mig EXCEPT !.pc = "copy", !.held = TRUE, !.read = View]
      BY <3>2 DEF TypeOK, MigTypes
    <3>3. CASE Step("copy") /\ mig.action # "merge" BY <3>3, Stepped DEF MigPlaces
    <3> QED BY <1>10, <3>1, <3>2, <3>3 DEF Prepare, openExisting, fileIdentity
  <2>3. View \in RowSets BY ViewFacts
  <2> QED BY <2>1, <2>2, <2>3, NoneAssumption DEF CopyInStep
<1>11. CASE Copy
  <2>1. mig.pc = "copy" /\ UNCHANGED pg BY <1>11 DEF Copy, At
  <2>2. CASE Copies
    <3>1. PICK written \in convertRow(pg.rows) : \E stored \in write(written) :
              tmp' = [tmp EXCEPT !.written = written, !.rows = stored]
      BY <2>2 DEF Copies
    <3>2. tmp'.written = written BY <3>1 DEF TypeOK, CopyTypes
    <3>3. /\ mig'.pc = "verify" /\ mig'.action = mig.action /\ mig'.exit = mig.exit
          /\ mig'.read = mig.read
      BY <2>2, Stepped DEF Copies, MigPlaces
    <3>4. tmp'.written \in convertRow(pg'.rows) BY <2>1, <3>1, <3>2
    <3> QED BY <2>1, <3>3, <3>4 DEF CopyInStep
  <2>3. CASE CopyFails
    <3>1. mig'.pc = "stop" /\ mig'.exit = "failed" BY <2>3, Removed DEF CopyFails
    <3> QED BY <3>1, NoneAssumption DEF CopyInStep
  <2> QED BY <1>11, <2>2, <2>3 DEF Copy
<1>12. CASE verifyCopy
  <2>1. mig.pc = "verify" /\ UNCHANGED pg BY <1>12 DEF verifyCopy, At
  <2>2. CASE removeMigrating
    <3>1. mig'.pc = "stop" /\ mig'.exit = "failed" BY <2>2, Removed
    <3> QED BY <3>1, NoneAssumption DEF CopyInStep
  <2>3. CASE /\ verifyStored /\ verifyKeys /\ verifySatoshis /\ verifySettings
             /\ Step("merge") /\ UNCHANGED tmp
    <3>1. tmp.written = pg.rows BY <2>1, <2>3, VerifiedIsRight DEF CopyInStep
    <3>2. /\ mig'.pc = "merge" /\ mig'.action = mig.action /\ mig'.exit = mig.exit
          /\ mig'.read = mig.read
      BY <2>3, Stepped DEF MigPlaces
    <3> QED BY <2>1, <2>3, <3>1, <3>2 DEF CopyInStep
  <2> QED BY <1>12, <2>2, <2>3 DEF verifyCopy
<1>13. CASE Merge
  <2> DEFINE rows == IF mig.action = "merge" THEN Merged(tmp.written, mig.read) ELSE tmp.written
  <2>1. mig.pc = "merge" /\ UNCHANGED pg /\ tmp.written = pg.rows BY <1>13 DEF Merge, At, CopyInStep
  <2>2. /\ mig'.pc = "check" /\ mig'.action = mig.action /\ mig'.exit = mig.exit
        /\ mig'.read = mig.read
    BY <1>13, Stepped DEF Merge, MigPlaces
  <2>3. \/ tmp' = [tmp EXCEPT !.rows = rows]
        \/ mig.action = "merge" /\ \E h \in Heights : tmp' = [tmp EXCEPT !.rows = [rows EXCEPT ![h] = NoUnit]]
    BY <1>13 DEF Merge
  <2>4. rows = IF mig.action = "merge" THEN Merged(pg.rows, mig.read) ELSE pg.rows BY <2>1
  <2>5. mig.action = "merge" => rows \in [Keys -> Cells]
    BY <2>1, <2>4, MergedFacts DEF CopyInStep, TypeOK, OldTypes, RowSets
  <2> HIDE DEF rows
  <2>6. tmp'.written = pg.rows BY <2>1, <2>3 DEF TypeOK, CopyTypes
  <2>7. \/ tmp'.rows = rows
        \/ mig.action = "merge" /\ \E h \in Heights : tmp'.rows = [rows EXCEPT ![h] = NoUnit]
    BY <2>3 DEF TypeOK, CopyTypes
  <2>8. mig.action = "merge" => tmp'.rows[Settings] = rows[Settings]
    BY <2>5, <2>7, HeightsAssumption DEF Keys
  <2>9. IF mig'.action = "merge" THEN tmp'.rows[Settings] = Merged(pg'.rows, mig'.read)[Settings]
        ELSE tmp'.rows = pg'.rows
    BY <2>1, <2>2, <2>4, <2>7, <2>8
  <2> QED BY <2>1, <2>2, <2>6, <2>9 DEF CopyInStep
<1>14. CASE verifyMerge
  <2>1. mig.pc = "check" /\ UNCHANGED pg /\ tmp.written = pg.rows
    BY <1>14 DEF verifyMerge, At, CopyInStep
  <2>2. CASE removeMigrating
    <3>1. mig'.pc = "stop" /\ mig'.exit = "failed" BY <2>2, Removed
    <3> QED BY <3>1, NoneAssumption DEF CopyInStep
  <2>3. CASE /\ ~(mig.action = "merge" /\ \E h \in Heights : tmp.rows[h] # Merged(tmp.written, mig.read)[h])
             /\ Step("finish") /\ tmp' = [tmp EXCEPT !.written = Empty]
    <3>1. /\ mig'.pc = "finish" /\ mig'.action = mig.action /\ mig'.exit = mig.exit
          /\ mig'.read = mig.read
      BY <2>3, Stepped DEF MigPlaces
    <3>2. tmp'.rows = tmp.rows BY <2>3 DEF TypeOK, CopyTypes
    <3>3. ASSUME mig.action = "merge" PROVE tmp.rows = Merged(pg.rows, mig.read)
      <4> DEFINE m == Merged(pg.rows, mig.read)
      <4>1. m \in RowSets BY <2>1, <3>3, MergedFacts DEF CopyInStep, TypeOK, OldTypes
      <4>2. \A k \in Keys : tmp.rows[k] = m[k] BY <2>1, <2>3, <3>3 DEF CopyInStep, Keys
      <4>3. tmp.rows \in RowSets BY DEF TypeOK, CopyTypes
      <4> HIDE DEF m
      <4>4. tmp.rows = m BY <4>1, <4>2, <4>3 DEF RowSets
      <4> QED BY <4>4 DEF m
    <3>4. mig.action # "merge" => tmp.rows = pg.rows BY <2>1 DEF CopyInStep
    <3>5. tmp'.rows = IF mig'.action = "merge" THEN Merged(pg'.rows, mig'.read) ELSE pg'.rows
      BY <2>1, <3>1, <3>2, <3>3, <3>4
    <3> QED BY <2>1, <3>1, <3>5 DEF CopyInStep
  <2> QED BY <1>14, <2>2, <2>3 DEF verifyMerge
<1>15. CASE Finish
  <2>1. mig.pc = "finish" /\ UNCHANGED pg BY <1>15 DEF Finish, At
  <2>2. CASE removeMigrating
    <3>1. mig'.pc = "stop" /\ mig'.exit = "failed" BY <2>2, Removed
    <3> QED BY <3>1, NoneAssumption DEF CopyInStep
  <2>3. CASE /\ tmp' = [tmp EXCEPT !.state = "prepared", !.mode = mig.action, !.existing = mig.read]
             /\ mig' = [mig EXCEPT !.pc = "stop", !.held = OneProcess]
    <3>1. mig'.pc = "stop" /\ mig'.exit = mig.exit BY <2>3 DEF TypeOK, MigTypes
    <3>2. tmp'.rows = tmp.rows /\ tmp'.mode = mig.action /\ tmp'.existing = mig.read
      BY <2>3 DEF TypeOK, CopyTypes
    <3> QED BY <2>1, <3>1, <3>2 DEF CopyInStep
  <2> QED BY <1>15, <2>2, <2>3 DEF Finish
<1>16. CASE StopServer
  <2>1. mig.pc = "stop" /\ UNCHANGED tmp BY <1>16 DEF StopServer, At, files
  <2>2. pg'.rows = pg.rows BY <1>16 DEF StopServer, TypeOK, OldTypes
  <2>3. \/ mig'.pc = "commit" /\ mig'.exit = mig.exit /\ mig.exit = None
        \/ mig'.pc = "off"
    <3>0. mig.exit = None \/ mig.exit \in {"failed", "deferred"} BY <2>1 DEF CopyInStep
    <3>1. CASE mig.exit = None /\ Step("commit") BY <3>1, Stepped DEF MigPlaces
    <3>2. CASE mig.exit # None /\ Outcome(mig.exit, 0) BY <3>0, <3>2, Outcomes DEF Words
    <3>3. CASE Outcome(IF mig.exit = None THEN "failed" ELSE mig.exit, 1) BY <3>0, <3>3, Outcomes DEF Words
    <3> QED BY <1>16, <3>1, <3>2, <3>3 DEF StopServer
  <2> QED BY <2>1, <2>2, <2>3, NoneAssumption DEF CopyInStep
<1>17. CASE CommitStarts
  <2>1. mig.pc = "commit" BY <1>17 DEF CommitStarts, At
  <2>2. CASE \E n \in {0, 1} : Outcome("deferred", n) \/ Outcome("failed", n)
    <3>1. mig'.pc = "off" BY <2>2, Outcomes DEF Words
    <3> QED BY <3>1 DEF CopyInStep
  <2>3. CASE mig' = [mig EXCEPT !.pc = "rename", !.held = TRUE, !.fresh = TRUE]
    <3>1. mig'.pc = "rename" /\ mig'.exit = mig.exit BY <2>3 DEF TypeOK, MigTypes
    <3> QED BY <2>1, <3>1 DEF CopyInStep
  <2> QED BY <1>17, <2>2, <2>3 DEF CommitStarts
<1>18. CASE Rename
  <2>1. mig.pc = "rename" /\ mig'.pc = "sync" /\ mig'.exit = mig.exit
    BY <1>18, Stepped DEF Rename, At, MigPlaces
  <2> QED BY <2>1, NoneAssumption DEF CopyInStep
<1>19. CASE Sync
  <2>1. mig.pc = "sync" /\ mig'.pc = "mark" /\ mig'.exit = mig.exit
    BY <1>19, Stepped DEF Sync, At, MigPlaces
  <2> QED BY <2>1, NoneAssumption DEF CopyInStep
<1>20. CASE WriteMarker
  <2>1. mig.pc = "mark" BY <1>20 DEF WriteMarker, At
  <2>2. (mig'.pc = "done" /\ mig'.exit = mig.exit) \/ mig'.pc = "off"
    BY <1>20, Stepped, Outcomes DEF WriteMarker, MigPlaces, Words
  <2> QED BY <2>1, <2>2, NoneAssumption DEF CopyInStep
<1>21. CASE WriteDone
  <2>1. mig'.pc = "off" BY <1>21, Outcomes, EndedAs DEF WriteDone, End, Words
  <2> QED BY <2>1 DEF CopyInStep
<1>22. ASSUME NEW s \in Services, ServiceStarts(s) \/ LeaveMaintenance(s) \/ holdInUse(s) \/ openSQLite(s)
                   \/ Record(s) \/ Close(s) \/ Crash(s)
      PROVE  CopyInStep'
  <2>1. UNCHANGED <<mig, tmp, pg>>
    BY <1>22 DEF ServiceStarts, LeaveMaintenance, holdInUse, openSQLite, Record, Close, Crash, Goto,
             files, choices, recorded, bounds, history
  <2> QED BY <2>1 DEF CopyInStep
<1>23. CASE saveOldDataChoice \/ UNCHANGED vars
  <2>1. UNCHANGED <<mig, tmp, pg>>
    BY <1>23 DEF saveOldDataChoice, vars, files, choices, recorded, bounds, history
  <2> QED BY <2>1 DEF CopyInStep
<1> QED BY <1>1, <1>2, <1>3, <1>4, <1>5, <1>6, <1>7, <1>8, <1>9, <1>10, <1>11, <1>12, <1>13,
          <1>14, <1>15, <1>16, <1>17, <1>18, <1>19, <1>20, <1>21, <1>22, <1>23 DEF Next, Service, Migrator

\* What is renamed into place is the merge of the old data with the database there.
LEMMA InPlaceStays ==
  ASSUME IInv, [Next]_vars
  PROVE  InPlace'
<1> USE DEF IInv
<1>1. ASSUME NEW s \in Services, openSQLite(s) PROVE InPlace'
  <2>1. svc[s] \in {"locked"} \/ UNCHANGED <<db, wal>> BY <1>1 DEF openSQLite
  <2>2. UNCHANGED <<mig, tmp, undo, pg, platform>> BY <1>1 DEF openSQLite
  <2>3. CASE UNCHANGED <<db, wal>> BY <2>2, <2>3 DEF InPlace, OneProcess, View
  <2>4. CASE svc[s] \in {"locked"}
    <3>1. ~mig.held BY <2>4 DEF LockKept, Holders
    <3>2. mig.pc \notin {"rename"} \cup Placed BY <3>1 DEF LockKept
    <3> QED BY <2>2, <3>2 DEF InPlace, OneProcess, Placed
  <2> QED BY <2>1, <2>3, <2>4
<1>2. ASSUME NEW s \in Services, Record(s) PROVE InPlace'
  <2>1. svc[s] \in {"open"} \/ UNCHANGED <<db, wal>> BY <1>2 DEF Record
  <2>2. UNCHANGED <<mig, tmp, undo, pg, platform>> BY <1>2 DEF Record
  <2>3. CASE UNCHANGED <<db, wal>> BY <2>2, <2>3 DEF InPlace, OneProcess, View
  <2>4. CASE svc[s] \in {"open"}
    <3>1. ~mig.held BY <2>4 DEF LockKept, Holders
    <3>2. mig.pc \notin {"rename"} \cup Placed BY <3>1 DEF LockKept
    <3> QED BY <2>2, <3>2 DEF InPlace, OneProcess, Placed
  <2> QED BY <2>1, <2>3, <2>4
<1>3. ASSUME NEW s \in Services, Close(s) PROVE InPlace'
  <2>1. svc[s] \in {"open"} \/ UNCHANGED <<db, wal>> BY <1>3 DEF Close
  <2>2. UNCHANGED <<mig, tmp, undo, pg, platform>> BY <1>3 DEF Close
  <2>3. CASE UNCHANGED <<db, wal>> BY <2>2, <2>3 DEF InPlace, OneProcess, View
  <2>4. CASE svc[s] \in {"open"}
    <3>1. ~mig.held BY <2>4 DEF LockKept, Holders
    <3>2. mig.pc \notin {"rename"} \cup Placed BY <3>1 DEF LockKept
    <3> QED BY <2>2, <3>2 DEF InPlace, OneProcess, Placed
  <2> QED BY <2>1, <2>3, <2>4
<1>4. CASE Boot
  <2>1. mig'.pc \notin {"rename", "sync", "mark", "done"} BY <1>4, Places
  <2>2. undo = None BY <1>4 DEF Boot, InPlace, At, LockKept
  <2>3. UNCHANGED undo BY <1>4 DEF Boot, files
  <2> QED BY <2>1, <2>2, <2>3 DEF InPlace, OneProcess, Placed
<1>5. CASE Shutdown
  <2>1. mig'.pc = "off" BY <1>5, Places
  <2>2. undo' = None BY <1>5 DEF Shutdown, InPlace, Committing, files, OneProcess
  <2> QED BY <2>1, <2>2 DEF InPlace, OneProcess, Placed
<1>6. CASE PowerCut
  <2>1. mig'.pc = "off" BY <1>6, Places
  <2>2. undo' = None BY <1>6 DEF PowerCut, InPlace, Committing, files, OneProcess
  <2> QED BY <2>1, <2>2 DEF InPlace, OneProcess, Placed
<1>7. CASE LauncherDies
  <2>1. mig'.pc = "off" BY <1>7, Places
  <2>2. undo' = None BY <1>7 DEF LauncherDies, InPlace, Committing, files, OneProcess
  <2> QED BY <2>1, <2>2 DEF InPlace, OneProcess, Placed
<1>8. CASE OldVersionRuns
  <2>1. mig'.pc \notin {"rename", "sync", "mark", "done"} BY <1>8, Places
  <2>2. undo = None BY <1>8 DEF OldVersionRuns, InPlace, At, LockKept
  <2>3. UNCHANGED undo BY <1>8 DEF OldVersionRuns, files
  <2> QED BY <2>1, <2>2, <2>3 DEF InPlace, OneProcess, Placed
<1>9. CASE FolderBreaks
  <2>1. mig'.pc \notin {"rename", "sync", "mark", "done"} BY <1>9, Places
  <2>2. undo = None BY <1>9 DEF FolderBreaks, InPlace, At, LockKept
  <2>3. UNCHANGED undo BY <1>9 DEF FolderBreaks, files
  <2> QED BY <2>1, <2>2, <2>3 DEF InPlace, OneProcess, Placed
<1>10. CASE Start
  <2>1. mig'.pc \notin {"rename", "sync", "mark", "done"} BY <1>10, Places
  <2>2. undo = None BY <1>10 DEF Start, InPlace, At, LockKept
  <2>3. UNCHANGED undo BY <1>10 DEF Start, files
  <2> QED BY <2>1, <2>2, <2>3 DEF InPlace, OneProcess, Placed
<1>11. CASE TakeLock
  <2>1. mig'.pc \notin {"rename", "sync", "mark", "done"} BY <1>11, Places
  <2>2. undo = None BY <1>11 DEF TakeLock, InPlace, At, LockKept
  <2>3. UNCHANGED undo BY <1>11 DEF TakeLock, files
  <2> QED BY <2>1, <2>2, <2>3 DEF InPlace, OneProcess, Placed
<1>12. CASE StartServer
  <2>1. mig'.pc \notin {"rename", "sync", "mark", "done"} BY <1>12, Places
  <2>2. undo = None BY <1>12 DEF StartServer, InPlace, At, LockKept
  <2>3. UNCHANGED undo BY <1>12 DEF StartServer, files
  <2> QED BY <2>1, <2>2, <2>3 DEF InPlace, OneProcess, Placed
<1>13. CASE Prepare
  <2>1. mig'.pc \notin {"rename", "sync", "mark", "done"} BY <1>13, Places
  <2>2. undo = None BY <1>13 DEF Prepare, InPlace, At, LockKept
  <2>3. UNCHANGED undo BY <1>13 DEF Prepare, files
  <2> QED BY <2>1, <2>2, <2>3 DEF InPlace, OneProcess, Placed
<1>14. CASE Copy
  <2>1. mig'.pc \notin {"rename", "sync", "mark", "done"} BY <1>14, Places
  <2>2. undo = None BY <1>14 DEF Copy, InPlace, At, LockKept
  <2>3. UNCHANGED undo BY <1>14 DEF Copy, files
  <2> QED BY <2>1, <2>2, <2>3 DEF InPlace, OneProcess, Placed
<1>15. CASE verifyCopy
  <2>1. mig'.pc \notin {"rename", "sync", "mark", "done"} BY <1>15, Places
  <2>2. undo = None BY <1>15 DEF verifyCopy, InPlace, At, LockKept
  <2>3. UNCHANGED undo BY <1>15 DEF verifyCopy, files
  <2> QED BY <2>1, <2>2, <2>3 DEF InPlace, OneProcess, Placed
<1>16. CASE Merge
  <2>1. mig'.pc \notin {"rename", "sync", "mark", "done"} BY <1>16, Places
  <2>2. undo = None BY <1>16 DEF Merge, InPlace, At, LockKept
  <2>3. UNCHANGED undo BY <1>16 DEF Merge, files
  <2> QED BY <2>1, <2>2, <2>3 DEF InPlace, OneProcess, Placed
<1>17. CASE verifyMerge
  <2>1. mig'.pc \notin {"rename", "sync", "mark", "done"} BY <1>17, Places
  <2>2. undo = None BY <1>17 DEF verifyMerge, InPlace, At, LockKept
  <2>3. UNCHANGED undo BY <1>17 DEF verifyMerge, files
  <2> QED BY <2>1, <2>2, <2>3 DEF InPlace, OneProcess, Placed
<1>18. CASE Finish
  <2>1. mig'.pc \notin {"rename", "sync", "mark", "done"} BY <1>18, Places
  <2>2. undo = None BY <1>18 DEF Finish, InPlace, At, LockKept
  <2>3. UNCHANGED undo BY <1>18 DEF Finish, files
  <2> QED BY <2>1, <2>2, <2>3 DEF InPlace, OneProcess, Placed
<1>19. CASE StopServer
  <2>1. mig'.pc \notin {"rename", "sync", "mark", "done"} BY <1>19, Places
  <2>2. undo = None BY <1>19 DEF StopServer, InPlace, At, LockKept
  <2>3. UNCHANGED undo BY <1>19 DEF StopServer, files
  <2> QED BY <2>1, <2>2, <2>3 DEF InPlace, OneProcess, Placed
<1>20. CASE CommitStarts
  <2>1. undo' = None BY <1>20 DEF CommitStarts, At, InPlace
  <2>2. CASE \E n \in {0, 1} : Outcome("deferred", n) \/ Outcome("failed", n)
    <3>1. mig'.pc = "off" BY <2>2, Outcomes DEF Words
    <3> QED BY <2>1, <3>1 DEF InPlace, Placed
  <2>3. CASE Fold /\ ~Refused /\ mig' = [mig EXCEPT !.pc = "rename", !.held = TRUE, !.fresh = TRUE]
    <3>1. mig'.pc = "rename" BY <2>3 DEF TypeOK, MigTypes
    <3>2. UNCHANGED <<tmp, pg>> /\ mig.pc = "commit" BY <1>20 DEF CommitStarts, At
    <3>3. View' = View /\ (db' # None => wal' = Empty) BY <2>3, FoldKeeps
    <3>4. mig.exit = None BY <3>2 DEF CopyInStep
    <3>5. pg.rows \in RowSets BY DEF TypeOK, OldTypes
    <3>6. CASE tmp.mode = "move"
      <4>1. View = Empty BY <2>3, <3>6, ViewFacts DEF Refused
      <4>2. tmp.rows = pg.rows BY <3>2, <3>4, <3>6 DEF CopyInStep
      <4>3. tmp.rows = Merged(pg.rows, View) BY <3>5, <4>1, <4>2, MergedWithNone
      <4> QED BY <2>1, <3>1, <3>2, <3>3, <4>3 DEF InPlace, Placed
    <3>7. CASE tmp.mode = "merge"
      <4>1. tmp.rows = Merged(pg.rows, View)
        BY <2>3, <3>2, <3>4, <3>7 DEF Refused, fileIdentity, CopyInStep
      <4> QED BY <2>1, <3>1, <3>2, <3>3, <4>1 DEF InPlace, Placed
    <3> QED BY <3>2, <3>4, <3>6, <3>7 DEF CopyInStep
  <2> QED BY <1>20, <2>2, <2>3 DEF CommitStarts
<1>21. CASE Rename
  <2>1. mig'.pc = "sync" BY <1>21, Places
  <2>2. db' # None BY <1>21, NoneApart DEF Rename, TypeOK, CopyTypes
  <2>3. wal' = Empty /\ UNCHANGED platform /\ (undo' # None => OneProcess)
    BY <1>21 DEF Rename, OneProcess
  <2> QED BY <2>1, <2>2, <2>3 DEF InPlace, Placed, OneProcess
<1>22. CASE Sync
  <2>1. mig.pc = "sync" /\ mig'.pc = "mark" BY <1>22, Places DEF Sync, At
  <2>2. undo' = None /\ UNCHANGED db BY <1>22 DEF Sync
  <2> QED BY <2>1, <2>2 DEF InPlace, Placed
<1>23. CASE WriteMarker
  <2>1. mig.pc = "mark" /\ UNCHANGED <<db, undo>> BY <1>23 DEF WriteMarker, At
  <2>2. mig'.pc \in {"done", "off"} BY <1>23, Places
  <2> QED BY <2>1, <2>2 DEF InPlace, Placed
<1>24. CASE WriteDone
  <2>1. mig.pc = "done" /\ UNCHANGED undo BY <1>24 DEF WriteDone, At, files
  <2>2. mig'.pc = "off" BY <1>24, Places
  <2> QED BY <2>1, <2>2 DEF InPlace, Placed
<1>25. ASSUME NEW s \in Services, ServiceStarts(s) \/ LeaveMaintenance(s) \/ holdInUse(s) \/ Crash(s)
      PROVE  InPlace'
  <2>1. UNCHANGED <<mig, tmp, db, wal, undo, pg, platform>>
    BY <1>25 DEF ServiceStarts, LeaveMaintenance, holdInUse, Crash, Goto, files, choices, recorded, bounds,
             history
  <2> QED BY <2>1 DEF InPlace, OneProcess, View
<1>26. CASE saveOldDataChoice \/ UNCHANGED vars
  <2>1. UNCHANGED <<mig, tmp, db, wal, undo, pg, platform>>
    BY <1>26 DEF saveOldDataChoice, vars, files, choices, recorded, bounds, history
  <2> QED BY <2>1 DEF InPlace, OneProcess, View
<1> QED BY <1>1, <1>2, <1>3, <1>4, <1>5, <1>6, <1>7, <1>8, <1>9, <1>10, <1>11, <1>12, <1>13,
          <1>14, <1>15, <1>16, <1>17, <1>18, <1>19, <1>20, <1>21, <1>22, <1>23, <1>24, <1>25,
          <1>26 DEF Next, Service, Migrator

\* What a step does to the rows that are seen: nothing, as long as the database is only folded, copied
\* from or closed;
SameRows ==
    /\ View' = View /\ (db' = None <=> db = None)
    /\ undo' \in {undo, None} /\ UNCHANGED kept

\* a service writes one, never none, to the database it has open;
Wrote ==
    /\ db # None /\ undo = None /\ UNCHANGED <<db, undo, pg, touched>>
    /\ \E k \in Keys, row \in Rows :
          /\ Writes(View, k, row) /\ row # NoUnit /\ (k = Settings => row = Saved(records + 1))
          /\ View' = [View EXCEPT ![k] = row] /\ kept' = kept \cup {k}

\* it makes an empty database;
MadeEmpty ==
    /\ db = None /\ db' = Empty /\ UNCHANGED <<wal, undo, kept>>
    /\ \E s \in Services : svc[s] = "locked"

\* the merge takes its place, to be undone by a power cut or not;
Replaced ==
    /\ Rename /\ View' = Merged(pg.rows, View) /\ db' = View' /\ db' # None /\ UNCHANGED kept
    /\ undo' = None \/ (undo'.db = db /\ undo'.touched = touched /\ Before' = View)

\* a power cut undoes that.
BroughtBack ==
    /\ PowerCut /\ undo # None /\ db' = undo.db /\ View' = Before
    /\ undo' = None /\ UNCHANGED kept

Seeing == SameRows \/ Wrote \/ MadeEmpty \/ Replaced \/ BroughtBack

\* A power cut leaves the database, or brings back the one before an unsynced rename.
LEMMA CutSees ==
  ASSUME IInv, PowerCut
  PROVE  (UNCHANGED <<db, wal>> /\ SameRows) \/ BroughtBack
<1> USE DEF IInv
<1>1. undo' = None /\ UNCHANGED <<wal, kept>> BY DEF PowerCut
<1>2. CASE UNCHANGED db BY <1>1, <1>2 DEF SameRows, View
<1>3. CASE undo # None /\ db' = undo.db
  <2>1. wal' = Empty BY <1>1, <1>3 DEF InPlace
  <2>2. CASE undo.db = None BY <1>1, <1>3, <2>2 DEF BroughtBack, Before, View
  <2>3. CASE undo.db # None
    <3>1. undo.db \in RowSets BY <1>3, <2>3 DEF TypeOK, UndoTypes
    <3>2. View' = [k \in Keys |-> undo.db[k]] BY <1>3, <2>1, <2>3, EmptyTyped DEF View, Overlay
    <3>3. View' = undo.db BY <3>1, <3>2 DEF RowSets
    <3> QED BY <1>1, <1>3, <2>3, <3>3 DEF BroughtBack, Before
  <2> QED BY <2>2, <2>3
<1> QED BY <1>2, <1>3 DEF PowerCut

\* The rename puts the merge in place.
LEMMA RenameSees ==
  ASSUME IInv, Rename
  PROVE  Replaced
<1> USE DEF IInv
<1>1. mig.pc = "rename" /\ db' = tmp.rows /\ wal' = Empty /\ UNCHANGED kept BY DEF Rename, At
<1>2. tmp.rows \in RowSets BY DEF TypeOK, CopyTypes
<1>3. db' # None BY <1>1, <1>2, NoneApart
<1>4. View' = [k \in Keys |-> tmp.rows[k]] BY <1>1, <1>3, EmptyTyped DEF View, Overlay
<1>5. View' = tmp.rows BY <1>2, <1>4 DEF RowSets
<1>6. View' = Merged(pg.rows, View) BY <1>1, <1>5 DEF InPlace
<1>7. CASE db = None
  <2>1. View = Empty BY <1>7 DEF View
  <2>2. undo' = None \/ (undo'.db = db /\ undo'.touched = touched /\ Before' = View)
    BY <1>7, <2>1 DEF Rename, Before
  <2> QED BY <1>1, <1>3, <1>5, <1>6, <2>2 DEF Replaced
<1>8. CASE db # None
  <2>1. wal = Empty /\ db \in RowSets BY <1>1, <1>8 DEF InPlace, TypeOK
  <2>2. View = [k \in Keys |-> db[k]] BY <1>8, <2>1, EmptyTyped DEF View, Overlay
  <2>3. View = db BY <2>1, <2>2 DEF RowSets
  <2>4. undo' = None \/ (undo'.db = db /\ undo'.touched = touched /\ Before' = View)
    BY <1>8, <2>3 DEF Rename, Before
  <2> QED BY <1>1, <1>3, <1>5, <1>6, <2>4 DEF Replaced
<1> QED BY <1>7, <1>8

\* Nothing else happens to what is seen of the database.
LEMMA Seen ==
  ASSUME IInv, [Next]_vars
  PROVE  Seeing
<1> USE DEF IInv, Seeing
<1>1. ASSUME NEW s \in Services, openSQLite(s) PROVE Seeing
  <2>1. CASE db = None /\ db' = Empty
    <3> QED BY <1>1, <2>1 DEF openSQLite, MadeEmpty, history
  <2>2. CASE UNCHANGED db
    <3>1. UNCHANGED <<wal, undo, kept>> BY <1>1 DEF openSQLite, history
    <3> QED BY <2>2, <3>1 DEF SameRows, View
  <2> QED BY <1>1, <2>1, <2>2 DEF openSQLite
<1>2. ASSUME NEW s \in Services, Record(s) PROVE Seeing
  <2>1. PICK k \in Keys, row \in Rows :
            Writes(View, k, row) /\ wal' = [wal EXCEPT ![k] = row] /\ kept' = kept \cup {k}
    BY <1>2 DEF Record
  <2>2. db # None BY <1>2 DEF Record, LockKept
  <2>3. View \in RowSets /\ wal \in RowSets /\ db \in RowSets BY <2>2, ViewFacts DEF TypeOK
  <2>4. row # NoUnit /\ (k = Settings => row = Saved(records + 1)) BY <2>1, <2>3, WritesARow
  <2>5. UNCHANGED <<db, undo, pg, touched>> BY <1>2 DEF Record
  <2>7. undo = None
    <3>1. ~mig.held BY <1>2 DEF Record, LockKept, Holders
    <3> QED BY <3>1 DEF InPlace, LockKept, Placed
  <2>6. View' = [View EXCEPT ![k] = row]
    <3>1. View' = [j \in Keys |-> IF wal'[j] # NoUnit THEN wal'[j] ELSE db[j]]
      BY <2>2, <2>5 DEF View, Overlay
    <3>2. View = [j \in Keys |-> IF wal[j] # NoUnit THEN wal[j] ELSE db[j]]
      BY <2>2 DEF View, Overlay
    <3>3. \A j \in Keys : wal'[j] = IF j = k THEN row ELSE wal[j] BY <2>1, <2>3 DEF RowSets
    <3>4. \A j \in Keys : View'[j] = IF j = k THEN row ELSE View[j] BY <2>4, <3>1, <3>2, <3>3
    <3> QED BY <3>1, <3>2, <3>4
  <2> QED BY <2>1, <2>2, <2>4, <2>5, <2>6, <2>7 DEF Wrote
<1>3. ASSUME NEW s \in Services, Close(s) PROVE Seeing
  <2>1. UNCHANGED <<undo, kept>> BY <1>3 DEF Close, history
  <2>2. CASE UNCHANGED <<db, wal>> BY <2>1, <2>2 DEF SameRows, View
  <2>3. CASE db # None /\ db' = View /\ wal' = Empty BY <2>1, <2>3, Folded DEF SameRows
  <2>4. (\E o \in Services : svc[o] = "open") => db # None BY DEF LockKept
  <2> QED BY <1>3, <2>2, <2>3, <2>4 DEF Close
<1>4. CASE Shutdown
  <2>1. UNCHANGED <<undo, kept>> BY <1>4 DEF Shutdown, history
  <2>2. CASE UNCHANGED <<db, wal>> BY <2>1, <2>2 DEF SameRows, View
  <2>3. CASE db # None /\ db' = View /\ wal' = Empty BY <2>1, <2>3, Folded DEF SameRows
  <2>4. (\E o \in Services : svc[o] = "open") => db # None BY DEF LockKept
  <2> QED BY <1>4, <2>2, <2>3, <2>4 DEF Shutdown
<1>5. CASE PowerCut
  BY <1>5, CutSees DEF IInv
<1>6. CASE TakeLock
  <2>1. UNCHANGED <<undo, kept>> BY <1>6 DEF TakeLock, history
  <2>2. CASE UNCHANGED <<db, wal>> BY <2>1, <2>2 DEF SameRows, View
  <2>3. CASE Fold BY <2>1, <2>3, FoldKeeps DEF SameRows
  <2> QED BY <1>6, <2>2, <2>3 DEF TakeLock
<1>7. CASE Prepare
  <2>1. UNCHANGED <<undo, kept>> BY <1>7 DEF Prepare, history
  <2>2. CASE UNCHANGED <<db, wal>> BY <2>1, <2>2 DEF SameRows, View
  <2>3. CASE Fold BY <2>1, <2>3, FoldKeeps DEF SameRows
  <2> QED BY <1>7, <2>2, <2>3 DEF Prepare, openExisting
<1>8. CASE CommitStarts
  <2>1. UNCHANGED <<undo, kept>> BY <1>8 DEF CommitStarts, history
  <2>2. CASE UNCHANGED <<db, wal>> BY <2>1, <2>2 DEF SameRows, View
  <2>3. CASE Fold BY <2>1, <2>3, FoldKeeps DEF SameRows
  <2> QED BY <1>8, <2>2, <2>3 DEF CommitStarts
<1>9. CASE Rename
  BY <1>9, RenameSees DEF IInv
<1>10. CASE Sync
  <2>1. UNCHANGED <<db, wal, kept>> /\ undo' = None BY <1>10 DEF Sync, history
  <2> QED BY <2>1 DEF SameRows, View
<1>11. ASSUME NEW s \in Services, ServiceStarts(s) \/ LeaveMaintenance(s) \/ holdInUse(s) \/ Crash(s)
      PROVE  Seeing
  <2>1. UNCHANGED <<db, wal, undo, kept>>
    BY <1>11 DEF ServiceStarts, LeaveMaintenance, holdInUse, Crash, Goto, files, choices, recorded, bounds,
             history
  <2> QED BY <2>1 DEF Seeing, SameRows, View
<1>12. CASE Boot \/ LauncherDies \/ OldVersionRuns \/ FolderBreaks \/ saveOldDataChoice \/ Start
            \/ StartServer \/ Copy \/ verifyCopy \/ Merge \/ verifyMerge \/ Finish \/ StopServer
            \/ WriteMarker \/ WriteDone \/ UNCHANGED vars
  <2>1. UNCHANGED <<db, wal, undo, kept>>
    BY <1>12 DEF Boot, LauncherDies, OldVersionRuns, FolderBreaks, saveOldDataChoice, Start,
             StartServer, Copy, verifyCopy, Merge, verifyMerge, Finish, StopServer, WriteMarker,
             WriteDone, vars, files, choices, recorded, bounds, history
  <2> QED BY <2>1 DEF Seeing, SameRows, View
<1> QED BY <1>1, <1>2, <1>3, <1>4, <1>5, <1>6, <1>7, <1>8, <1>9, <1>10, <1>11, <1>12 DEF Next,
   Service, Migrator

\* So what a service wrote stays, merged over or brought back.
LEMMA KeptStays ==
  ASSUME IInv, [Next]_vars
  PROVE  KeptThere'
<1> USE DEF IInv
<1>0. View \in RowSets /\ pg.rows \in RowSets /\ kept \subseteq Keys
  BY ViewFacts DEF TypeOK, OldTypes
<1>1. CASE SameRows BY <1>1 DEF SameRows, KeptThere, Before
<1>2. CASE Wrote
  <2>1. PICK k \in Keys, row \in Rows :
            row # NoUnit /\ View' = [View EXCEPT ![k] = row] /\ kept' = kept \cup {k}
    BY <1>2 DEF Wrote
  <2>2. \A j \in Keys : View'[j] = IF j = k THEN row ELSE View[j] BY <1>0, <2>1 DEF RowSets
  <2>3. \A j \in kept' : View'[j] # NoUnit BY <1>0, <2>1, <2>2 DEF KeptThere
  <2>4. undo' = None BY <1>2 DEF Wrote
  <2> QED BY <2>3, <2>4 DEF KeptThere
<1>3. CASE MadeEmpty
  <2>1. View = Empty BY <1>3, ViewFacts DEF MadeEmpty
  <2>2. kept = {} BY <1>0, <2>1, EmptyTyped DEF KeptThere
  <2> QED BY <1>3, <2>2 DEF MadeEmpty, KeptThere
<1>4. CASE Replaced
  <2>1. \A k \in kept : View'[k] # NoUnit BY <1>0, <1>4, MergedFacts DEF Replaced, KeptThere
  <2> QED BY <1>4, <2>1 DEF Replaced, KeptThere
<1>5. CASE BroughtBack BY <1>5 DEF BroughtBack, KeptThere
<1> QED BY <1>1, <1>2, <1>3, <1>4, <1>5, Seen DEF Seeing

\* Only the rename puts the merge in place; from there on the migrator leaves the old data alone.
LEMMA Placing ==
  ASSUME IInv, [Next]_vars
  PROVE  mig'.pc \in Placed => Rename \/ (mig.pc \in Placed /\ UNCHANGED <<pg, host>>)
<1> USE DEF IInv
<1>1. CASE Boot
  BY <1>1, Places DEF Placed
<1>2. CASE Shutdown
  BY <1>2, Places DEF Placed
<1>3. CASE PowerCut
  BY <1>3, Places DEF Placed
<1>4. CASE LauncherDies
  BY <1>4, Places DEF Placed
<1>5. CASE OldVersionRuns
  BY <1>5, Places DEF Placed
<1>6. CASE FolderBreaks
  BY <1>6, Places DEF Placed
<1>7. CASE Start
  BY <1>7, Places DEF Placed
<1>8. CASE TakeLock
  BY <1>8, Places DEF Placed
<1>9. CASE StartServer
  BY <1>9, Places DEF Placed
<1>10. CASE Prepare
  BY <1>10, Places DEF Placed
<1>11. CASE Copy
  BY <1>11, Places DEF Placed
<1>12. CASE verifyCopy
  BY <1>12, Places DEF Placed
<1>13. CASE Merge
  BY <1>13, Places DEF Placed
<1>14. CASE verifyMerge
  BY <1>14, Places DEF Placed
<1>15. CASE Finish
  BY <1>15, Places DEF Placed
<1>16. CASE StopServer
  BY <1>16, Places DEF Placed
<1>17. CASE CommitStarts
  BY <1>17, Places DEF Placed
<1>18. CASE Rename
  BY <1>18
<1>19. CASE Sync
  BY <1>19 DEF Sync, At, Placed
<1>20. CASE WriteMarker
  BY <1>20 DEF WriteMarker, At, Placed
<1>21. CASE WriteDone
  BY <1>21, Places DEF Placed
<1>22. ASSUME NEW s \in Services, ServiceStarts(s) \/ LeaveMaintenance(s) \/ holdInUse(s) \/ openSQLite(s)
                   \/ Record(s) \/ Close(s) \/ Crash(s)
      PROVE  mig'.pc \in Placed => Rename \/ (mig.pc \in Placed /\ UNCHANGED <<pg, host>>)
  <2>1. UNCHANGED <<mig, pg, host>>
    BY <1>22 DEF ServiceStarts, LeaveMaintenance, holdInUse, openSQLite, Record, Close, Crash, Goto,
             files, choices, recorded, bounds, history
  <2> QED BY <2>1
<1>23. CASE saveOldDataChoice \/ UNCHANGED vars
  <2>1. UNCHANGED <<mig, pg, host>>
    BY <1>23 DEF saveOldDataChoice, vars, files, choices, recorded, bounds, history
  <2> QED BY <2>1
<1> QED BY <1>1, <1>2, <1>3, <1>4, <1>5, <1>6, <1>7, <1>8, <1>9, <1>10, <1>11, <1>12, <1>13,
          <1>14, <1>15, <1>16, <1>17, <1>18, <1>19, <1>20, <1>21, <1>22, <1>23 DEF Next, Service, Migrator

\* Only the earlier version writes to the old data.
LEMMA OldRows ==
  ASSUME IInv, [Next]_vars
  PROVE  pg'.rows = pg.rows \/ OldVersionRuns
<1> USE DEF IInv
<1>1. CASE Shutdown
  BY <1>1 DEF Shutdown, TypeOK, OldTypes
<1>2. CASE OldVersionRuns
  BY <1>2
<1>3. CASE FolderBreaks
  BY <1>3 DEF FolderBreaks, TypeOK, OldTypes
<1>4. CASE StartServer
  BY <1>4 DEF StartServer, TypeOK, OldTypes
<1>5. CASE StopServer
  BY <1>5 DEF StopServer, TypeOK, OldTypes
<1>6. ASSUME NEW s \in Services, ServiceStarts(s) \/ LeaveMaintenance(s) \/ holdInUse(s) \/ openSQLite(s)
                   \/ Record(s) \/ Close(s) \/ Crash(s)
      PROVE  pg'.rows = pg.rows \/ OldVersionRuns
  <2>1. UNCHANGED <<pg>>
    BY <1>6 DEF ServiceStarts, LeaveMaintenance, holdInUse, openSQLite, Record, Close, Crash, Goto,
             files, choices, recorded, bounds, history
  <2> QED BY <2>1
<1>7. CASE Boot \/ PowerCut \/ LauncherDies \/ saveOldDataChoice \/ Start \/ TakeLock
            \/ Prepare \/ Copy \/ verifyCopy \/ Merge \/ verifyMerge \/ Finish \/ CommitStarts
            \/ Rename \/ Sync \/ WriteMarker \/ WriteDone \/ UNCHANGED vars
  <2>1. UNCHANGED <<pg>>
    BY <1>7 DEF Boot, PowerCut, LauncherDies, saveOldDataChoice, Start, TakeLock, Prepare, Copy,
             verifyCopy, Merge, verifyMerge, Finish, CommitStarts, Rename, Sync, WriteMarker,
             WriteDone, vars, files, choices, recorded, bounds, history
  <2> QED BY <2>1
<1> QED BY <1>1, <1>2, <1>3, <1>4, <1>5, <1>6, <1>7 DEF Next, Service, Migrator

\* A database with the old data keeps it, unless a power cut brings the one before back.
LEMMA HasKept ==
  ASSUME IInv, [Next]_vars, pg'.rows = pg.rows, Has(View)
  PROVE  Has(View)' \/ BroughtBack
<1> USE DEF IInv
<1>0. View \in RowSets /\ pg.rows \in RowSets BY ViewFacts DEF TypeOK, OldTypes
<1>1. CASE SameRows BY <1>1 DEF SameRows, Has
<1>2. CASE Wrote
  <2>1. PICK k \in Keys, row \in Rows :
            /\ row # NoUnit /\ (k = Settings => row = Saved(records + 1))
            /\ View' = [View EXCEPT ![k] = row]
    BY <1>2 DEF Wrote
  <2>2. \A j \in Keys : View'[j] = IF j = k THEN row ELSE View[j] BY <1>0, <2>1 DEF RowSets
  <2>3. \A j \in Keys : pg.rows[j] # NoUnit => View'[j] # NoUnit BY <2>1, <2>2 DEF Has
  <2>4. records \in Nat BY DEF TypeOK
  <2>5. View'[Settings] \in SavedRows => View'[Settings].saved >= pg.rows[Settings].saved
    BY <2>1, <2>2, <2>4 DEF Has, OldSettings, Saved, SavedRows, Keys
  <2> QED BY <2>3, <2>5 DEF Has
<1>3. CASE MadeEmpty
  <2>1. View = Empty BY <1>3, ViewFacts DEF MadeEmpty
  <2>2. pg.rows[Settings] = NoUnit BY <2>1, EmptyTyped DEF Has, Keys
  <2> QED BY <2>2, NoneApart DEF OldSettings
<1>4. CASE Replaced
  <2>1. Settings \in Keys BY DEF Keys
  <2> QED BY <1>0, <1>4, <2>1, MergedFacts DEF Replaced, Has, OldSettings
<1> QED BY <1>1, <1>2, <1>3, <1>4, Seen DEF Seeing

\* The marker does not name pg_control as it is before the migrator has come to write it.
LEMMA StaysUnmarked ==
  ASSUME IInv, [Next]_vars
  PROVE  mig'.pc \in Unmarked => marker' # "current"
<1> USE DEF IInv
<1>1. CASE Boot
  BY <1>1, Places DEF Unmarked
<1>2. CASE Shutdown
  BY <1>2, Places DEF Unmarked
<1>3. CASE PowerCut
  BY <1>3, Places DEF Unmarked
<1>4. CASE LauncherDies
  BY <1>4, Places DEF Unmarked
<1>5. CASE OldVersionRuns
  BY <1>5, Places DEF Unmarked
<1>6. CASE FolderBreaks
  BY <1>6, Places DEF Unmarked
<1>7. CASE Start
  BY <1>7, Places DEF Unmarked
<1>8. CASE TakeLock
  BY <1>8, Places DEF Unmarked
<1>9. CASE StartServer
  BY <1>9, NoneAssumption DEF StartServer
<1>10. CASE Prepare
  BY <1>10 DEF Prepare, At, OldDataKnown, Unmarked
<1>11. CASE Copy
  BY <1>11 DEF Copy, At, OldDataKnown, Unmarked
<1>12. CASE verifyCopy
  BY <1>12 DEF verifyCopy, At, OldDataKnown, Unmarked
<1>13. CASE Merge
  BY <1>13 DEF Merge, At, OldDataKnown, Unmarked
<1>14. CASE verifyMerge
  BY <1>14 DEF verifyMerge, At, OldDataKnown, Unmarked
<1>15. CASE Finish
  BY <1>15 DEF Finish, At, OldDataKnown, Unmarked
<1>16. CASE StopServer
  BY <1>16 DEF StopServer, At, OldDataKnown, Unmarked, files
<1>17. CASE CommitStarts
  BY <1>17 DEF CommitStarts, At, OldDataKnown, Unmarked
<1>18. CASE Rename
  BY <1>18 DEF Rename, At, OldDataKnown, Unmarked
<1>19. CASE Sync
  BY <1>19 DEF Sync, At, OldDataKnown, Unmarked
<1>20. CASE WriteMarker
  <2>1. mig'.pc \notin Unmarked BY <1>20, Places DEF Unmarked
  <2> QED BY <2>1
<1>21. CASE WriteDone
  BY <1>21, Places DEF Unmarked
<1>22. ASSUME NEW s \in Services, ServiceStarts(s) \/ LeaveMaintenance(s) \/ holdInUse(s) \/ openSQLite(s)
                   \/ Record(s) \/ Close(s) \/ Crash(s)
      PROVE  mig'.pc \in Unmarked => marker' # "current"
  <2>1. UNCHANGED <<mig, marker>>
    BY <1>22 DEF ServiceStarts, LeaveMaintenance, holdInUse, openSQLite, Record, Close, Crash, Goto,
             files, choices, recorded, bounds, history
  <2> QED BY <2>1 DEF OldDataKnown
<1>23. CASE saveOldDataChoice \/ UNCHANGED vars
  <2>1. UNCHANGED <<mig, marker>>
    BY <1>23 DEF saveOldDataChoice, vars, files, choices, recorded, bounds, history
  <2> QED BY <2>1 DEF OldDataKnown
<1> QED BY <1>1, <1>2, <1>3, <1>4, <1>5, <1>6, <1>7, <1>8, <1>9, <1>10, <1>11, <1>12, <1>13,
          <1>14, <1>15, <1>16, <1>17, <1>18, <1>19, <1>20, <1>21, <1>22, <1>23 DEF Next, Service, Migrator

\* The earlier version's run makes the marker out of date.
LEMMA OldRunUnmarks == OldVersionRuns => marker' # "current"
BY NoneAssumption DEF OldVersionRuns

\* Only WriteMarker makes it do so, and the earlier version's next run ends that.
LEMMA Marking ==
  ASSUME IInv, [Next]_vars
  PROVE  marker' = "current" => WriteMarker \/ marker = "current"
<1> USE DEF IInv
<1>1. CASE OldVersionRuns
  BY <1>1, NoneAssumption DEF OldVersionRuns
<1>2. CASE StartServer
  BY <1>2, NoneAssumption DEF StartServer
<1>3. CASE WriteMarker
  BY <1>3
<1>4. ASSUME NEW s \in Services, ServiceStarts(s) \/ LeaveMaintenance(s) \/ holdInUse(s) \/ openSQLite(s)
                   \/ Record(s) \/ Close(s) \/ Crash(s)
      PROVE  marker' = "current" => WriteMarker \/ marker = "current"
  <2>1. UNCHANGED <<marker>>
    BY <1>4 DEF ServiceStarts, LeaveMaintenance, holdInUse, openSQLite, Record, Close, Crash, Goto,
             files, choices, recorded, bounds, history
  <2> QED BY <2>1
<1>5. CASE Boot \/ Shutdown \/ PowerCut \/ LauncherDies \/ FolderBreaks \/ saveOldDataChoice
            \/ Start \/ TakeLock \/ Prepare \/ Copy \/ verifyCopy \/ Merge \/ verifyMerge
            \/ Finish \/ StopServer \/ CommitStarts \/ Rename \/ Sync \/ WriteDone \/ UNCHANGED
            vars
  <2>1. UNCHANGED <<marker>>
    BY <1>5 DEF Boot, Shutdown, PowerCut, LauncherDies, FolderBreaks, saveOldDataChoice, Start,
             TakeLock, Prepare, Copy, verifyCopy, Merge, verifyMerge, Finish, StopServer,
             CommitStarts, Rename, Sync, WriteDone, vars, files, choices, recorded, bounds, history
  <2> QED BY <2>1
<1> QED BY <1>1, <1>2, <1>3, <1>4, <1>5 DEF Next, Service, Migrator

\* The status stays what it was, and what has kept the services away stays;
QuietStays == UNCHANGED recorded /\ pg.folder = "ok" /\ (Quiet => Quiet')

\* or the migrator has found, or made, the old data's database complete.
InNow == undo = None /\ UNCHANGED <<db, wal, undo>> /\ pg'.rows = pg.rows /\ Has(View)

StatusHolds == status' \in {"none", "done"} /\ pg'.folder = "ok" /\ unsaid' # "now" => QuietStays \/ InNow

\* The status comes to say that the old data is in, or that there is none,
\* only where it is known to be in.
LEMMA StatusMoves ==
  ASSUME IInv, [Next]_vars
  PROVE  StatusHolds
<1> USE DEF IInv, StatusHolds
<1>1. ASSUME NEW s \in Services, ServiceStarts(s) PROVE StatusHolds
  <2>1. ~Quiet
    <3>1. MayStart(s) BY <1>1 DEF ServiceStarts
    <3> QED BY <3>1, NoneAssumption DEF MayStart, Quiet, OneProcess
  <2>2. UNCHANGED <<recorded, pg>> BY <1>1 DEF ServiceStarts, choices
  <2> QED BY <2>1, <2>2 DEF QuietStays
<1>2. ASSUME NEW s \in Services, LeaveMaintenance(s) PROVE StatusHolds
  <2>1. svc[s] # "off" /\ ~Quiet BY <1>2 DEF LeaveMaintenance, Quiet, Off
  <2>2. UNCHANGED <<recorded, pg>> BY <1>2 DEF LeaveMaintenance, choices
  <2> QED BY <2>1, <2>2 DEF QuietStays
<1>3. ASSUME NEW s \in Services, holdInUse(s) PROVE StatusHolds
  <2>1. svc[s] # "off" /\ ~Quiet BY <1>3 DEF holdInUse, Quiet, Off
  <2>2. UNCHANGED <<recorded, pg>> BY <1>3 DEF holdInUse, choices
  <2> QED BY <2>1, <2>2 DEF QuietStays
<1>4. ASSUME NEW s \in Services, openSQLite(s) PROVE StatusHolds
  <2>1. svc[s] # "off" /\ ~Quiet BY <1>4 DEF openSQLite, Quiet, Off
  <2>2. UNCHANGED <<recorded, pg>> BY <1>4 DEF openSQLite, choices
  <2> QED BY <2>1, <2>2 DEF QuietStays
<1>5. ASSUME NEW s \in Services, Record(s) PROVE StatusHolds
  <2>1. svc[s] # "off" /\ ~Quiet BY <1>5 DEF Record, Quiet, Off
  <2>2. UNCHANGED <<recorded, pg>> BY <1>5 DEF Record, choices
  <2> QED BY <2>1, <2>2 DEF QuietStays
<1>6. ASSUME NEW s \in Services, Close(s) PROVE StatusHolds
  <2>1. svc[s] # "off" /\ ~Quiet BY <1>6 DEF Close, Quiet, Off
  <2>2. UNCHANGED <<recorded, pg>> BY <1>6 DEF Close, choices
  <2> QED BY <2>1, <2>2 DEF QuietStays
<1>7. ASSUME NEW s \in Services, Crash(s) PROVE StatusHolds
  <2>1. svc[s] # "off" /\ ~Quiet BY <1>7 DEF Crash, Quiet, Off
  <2>2. UNCHANGED <<recorded, pg>> BY <1>7 DEF Crash, choices
  <2> QED BY <2>1, <2>2 DEF QuietStays
<1>8. CASE Boot
  <2>1. mig'.pc = "plan" BY <1>8 DEF Boot, Ended
  <2>2. UNCHANGED <<recorded, pg, started>> /\ (svc = Off => svc' = Off) BY <1>8 DEF Boot, choices
  <2> QED BY <2>1, <2>2 DEF QuietStays, Quiet, Off
<1>9. CASE Shutdown
  <2>1. mig'.exit = None BY <1>9, EndedTyped DEF Shutdown
  <2>2. UNCHANGED <<recorded, started>> /\ (svc = Off => svc' = Off) /\ pg'.folder = pg.folder
    BY <1>9, NoneAssumption DEF Shutdown, choices, TypeOK, OldTypes
  <2> QED BY <2>1, <2>2 DEF QuietStays, Quiet, Off
<1>10. CASE PowerCut
  <2>1. mig'.exit = None BY <1>10, EndedTyped DEF PowerCut
  <2>2. UNCHANGED <<recorded, started>> /\ (svc = Off => svc' = Off) /\ pg'.folder = pg.folder
    BY <1>10 DEF PowerCut, choices
  <2> QED BY <2>1, <2>2 DEF QuietStays, Quiet, Off
<1>11. CASE LauncherDies
  <2>1. mig'.exit = None BY <1>11, EndedTyped DEF LauncherDies
  <2>2. UNCHANGED <<recorded, started>> /\ (svc = Off => svc' = Off) /\ pg'.folder = pg.folder
    BY <1>11 DEF LauncherDies, choices
  <2> QED BY <2>1, <2>2 DEF QuietStays, Quiet, Off
<1>12. CASE OldVersionRuns
  <2>1. UNCHANGED <<recorded, mig, svc>> /\ started' = {} /\ svc = Off /\ pg.folder = "ok" /\ mig.exit = None
    BY <1>12 DEF OldVersionRuns, choices, LockKept
  <2> QED BY <2>1 DEF QuietStays, Quiet, Off
<1>13. CASE FolderBreaks
  <2>1. pg'.folder # "ok" BY <1>13 DEF FolderBreaks, TypeOK, OldTypes
  <2> QED BY <2>1
<1>14. CASE Start
  <2>1. UNCHANGED <<svc, started, pg, platform, db, wal, undo>> /\ mig.pc = "plan"
    BY <1>14 DEF Start, At, files
  <2>2. CASE UNCHANGED recorded /\ mig' = [mig EXCEPT !.pc = "lock", !.action = Decision]
    <3>1. mig'.pc # "off" BY <2>2 DEF TypeOK, MigTypes
    <3> QED BY <2>1, <2>2, <3>1 DEF QuietStays, Quiet, Off
  <2>3. CASE Outcome("failed", 1)
    <3>1. CASE mig'.exit = "held back" /\ OneProcess /\ UNCHANGED recorded
      BY <2>1, <3>1 DEF QuietStays, Quiet, Off, OneProcess
    <3> QED BY <2>3, <3>1, Outcomes DEF Words
  <2>4. CASE Decision \notin {"move", "merge"} /\ Outcome(Decision, 0)
    <3>1. Decision \in {"none", "failed", "skipped", "degraded"} BY <2>4, Decisions
    <3>2. \/ status' = Decision \/ status' = None
          \/ mig'.exit = "held back" /\ OneProcess /\ UNCHANGED recorded
          \/ unsaid' = "now"
      BY <2>4, <3>1, Outcomes DEF Words
    <3>3. CASE mig'.exit = "held back" /\ OneProcess /\ UNCHANGED recorded
      BY <2>1, <3>3 DEF QuietStays, Quiet, Off, OneProcess
    <3>4. CASE Decision = "none" /\ pg.folder = "ok"
      <4>1. Has(View) BY <3>4, Decisions DEF OldDataKnown
      <4>2. undo = None BY <2>1 DEF InPlace
      <4> QED BY <2>1, <4>1, <4>2 DEF InNow
    <3>5. CASE Decision # "none" BY <3>1, <3>2, <3>3, <3>5, NoneAssumption
    <3> QED BY <2>1, <3>4, <3>5
  <2> QED BY <1>14, <2>2, <2>3, <2>4 DEF Start, CannotPlan
<1>15. CASE TakeLock
  <2>1. UNCHANGED <<svc, started, pg, platform>> BY <1>15 DEF TakeLock
  <2>2. CASE mig'.exit = "held back" /\ OneProcess /\ UNCHANGED recorded
    BY <2>1, <2>2 DEF QuietStays, Quiet, Off, OneProcess
  <2>3. CASE OneProcess /\ Busy
    <3>1. Outcome("deferred", 0) BY <1>15, <2>3 DEF TakeLock
    <3> QED BY <2>2, <3>1, Outcomes DEF Words
  <2>4. CASE ~(OneProcess /\ Busy)
    <3>1. mig' = [mig EXCEPT !.pc = "server", !.held = OneProcess] /\ UNCHANGED recorded
      BY <1>15, <2>4 DEF TakeLock
    <3>2. mig'.pc # "off" BY <3>1 DEF TypeOK, MigTypes
    <3> QED BY <2>1, <3>1, <3>2 DEF QuietStays, Quiet, Off
  <2> QED BY <2>3, <2>4
<1>16. CASE StartServer
  <2>1. UNCHANGED <<svc, started, platform>> /\ pg'.folder = pg.folder
    BY <1>16 DEF StartServer, TypeOK, OldTypes, history
  <2>2. CASE Step("prepare") /\ UNCHANGED recorded
    <3>1. mig'.pc # "off" BY <2>2, Stepped DEF MigPlaces
    <3> QED BY <2>1, <2>2, <3>1 DEF QuietStays, Quiet, Off
  <2>3. CASE mig'.exit = "held back" /\ OneProcess /\ UNCHANGED recorded
    BY <2>1, <2>3 DEF QuietStays, Quiet, Off, OneProcess
  <2>4. CASE Outcome("failed", 1) BY <2>3, <2>4, Outcomes DEF Words
  <2> QED BY <1>16, <2>2, <2>4 DEF StartServer
<1>17. CASE Prepare
  <2>1. UNCHANGED <<recorded, svc, started>> /\ pg'.folder = pg.folder
    BY <1>17 DEF Prepare, choices, TypeOK, OldTypes
  <2>2. mig'.pc # "off" BY <1>17, Places
  <2> QED BY <2>1, <2>2 DEF QuietStays, Quiet, Off
<1>18. CASE Copy
  <2>1. UNCHANGED <<recorded, svc, started>> /\ pg'.folder = pg.folder
    BY <1>18 DEF Copy, choices, TypeOK, OldTypes
  <2>2. mig'.pc # "off" BY <1>18, Places
  <2> QED BY <2>1, <2>2 DEF QuietStays, Quiet, Off
<1>19. CASE verifyCopy
  <2>1. UNCHANGED <<recorded, svc, started>> /\ pg'.folder = pg.folder
    BY <1>19 DEF verifyCopy, choices, TypeOK, OldTypes
  <2>2. mig'.pc # "off" BY <1>19, Places
  <2> QED BY <2>1, <2>2 DEF QuietStays, Quiet, Off
<1>20. CASE Merge
  <2>1. UNCHANGED <<recorded, svc, started>> /\ pg'.folder = pg.folder
    BY <1>20 DEF Merge, choices, TypeOK, OldTypes
  <2>2. mig'.pc # "off" BY <1>20, Places
  <2> QED BY <2>1, <2>2 DEF QuietStays, Quiet, Off
<1>21. CASE verifyMerge
  <2>1. UNCHANGED <<recorded, svc, started>> /\ pg'.folder = pg.folder
    BY <1>21 DEF verifyMerge, choices, TypeOK, OldTypes
  <2>2. mig'.pc # "off" BY <1>21, Places
  <2> QED BY <2>1, <2>2 DEF QuietStays, Quiet, Off
<1>22. CASE Finish
  <2>1. UNCHANGED <<recorded, svc, started>> /\ pg'.folder = pg.folder
    BY <1>22 DEF Finish, choices, TypeOK, OldTypes
  <2>2. mig'.pc # "off" BY <1>22, Places
  <2> QED BY <2>1, <2>2 DEF QuietStays, Quiet, Off
<1>23. CASE StopServer
  <2>1. UNCHANGED <<svc, started, platform>> /\ pg'.folder = pg.folder
    BY <1>23 DEF StopServer, TypeOK, OldTypes, history
  <2>2. CASE mig'.exit = "held back" /\ OneProcess /\ UNCHANGED recorded
    BY <2>1, <2>2 DEF QuietStays, Quiet, Off, OneProcess
  <2>3. mig.exit = None \/ mig.exit \in {"failed", "deferred"}
    BY <1>23 DEF StopServer, At, CopyInStep
  <2>4. CASE Step("commit") /\ UNCHANGED recorded
    <3>1. mig'.pc # "off" BY <2>4, Stepped DEF MigPlaces
    <3> QED BY <2>1, <2>4, <3>1 DEF QuietStays, Quiet, Off
  <2>5. CASE mig.exit # None /\ Outcome(mig.exit, 0) BY <2>2, <2>3, <2>5, Outcomes DEF Words
  <2>6. CASE Outcome(IF mig.exit = None THEN "failed" ELSE mig.exit, 1)
    BY <2>2, <2>3, <2>6, Outcomes DEF Words
  <2> QED BY <1>23, <2>4, <2>5, <2>6 DEF StopServer
<1>24. CASE CommitStarts
  <2>1. UNCHANGED <<svc, started, platform, pg>> BY <1>24 DEF CommitStarts
  <2>2. CASE mig'.exit = "held back" /\ OneProcess /\ UNCHANGED recorded
    BY <2>1, <2>2 DEF QuietStays, Quiet, Off, OneProcess
  <2>3. CASE \E n \in {0, 1} : Outcome("deferred", n) \/ Outcome("failed", n)
    BY <2>2, <2>3, Outcomes DEF Words
  <2>4. CASE mig' = [mig EXCEPT !.pc = "rename", !.held = TRUE, !.fresh = TRUE] /\ UNCHANGED recorded
    <3>1. mig'.pc # "off" BY <2>4 DEF TypeOK, MigTypes
    <3> QED BY <2>1, <2>4, <3>1 DEF QuietStays, Quiet, Off
  <2> QED BY <1>24, <2>3, <2>4 DEF CommitStarts
<1>25. CASE Rename
  <2>1. UNCHANGED <<recorded, started, pg>> BY <1>25 DEF Rename, choices
  <2>2. svc = Off => svc' = Off BY <1>25 DEF Rename, Off
  <2>3. mig'.pc # "off" BY <1>25, Places
  <2> QED BY <2>1, <2>2, <2>3 DEF QuietStays, Quiet, Off
<1>26. CASE Sync
  <2>1. UNCHANGED <<recorded, svc, started>> /\ pg'.folder = pg.folder
    BY <1>26 DEF Sync, choices, TypeOK, OldTypes
  <2>2. mig'.pc # "off" BY <1>26, Places
  <2> QED BY <2>1, <2>2 DEF QuietStays, Quiet, Off
<1>27. CASE WriteMarker
  <2>1. UNCHANGED <<svc, started, platform, pg>> BY <1>27 DEF WriteMarker, history
  <2>2. CASE Step("done") /\ UNCHANGED recorded
    <3>1. mig'.pc # "off" BY <2>2, Stepped DEF MigPlaces
    <3> QED BY <2>1, <2>2, <3>1 DEF QuietStays, Quiet, Off
  <2>3. CASE mig'.exit = "held back" /\ OneProcess /\ UNCHANGED recorded
    BY <2>1, <2>3 DEF QuietStays, Quiet, Off, OneProcess
  <2>4. CASE Outcome("failed", 1) BY <2>3, <2>4, Outcomes DEF Words
  <2> QED BY <1>27, <2>2, <2>4 DEF WriteMarker
<1>28. CASE WriteDone
  <2>1. UNCHANGED <<db, wal, undo, pg>> /\ mig.pc = "done" BY <1>28 DEF WriteDone, At, files
  <2>2. Has(View) /\ undo = None BY <2>1 DEF OldDataKnown, InPlace, Placed
  <2> QED BY <2>1, <2>2 DEF InNow
<1>29. CASE saveOldDataChoice \/ UNCHANGED vars
  <2>1. UNCHANGED <<recorded, mig, svc, started, pg, platform>>
    BY <1>29 DEF saveOldDataChoice, vars, files, choices, bounds, history
  <2> QED BY <2>1 DEF StatusHolds, QuietStays, Quiet, Off, OneProcess
<1> QED BY <1>1, <1>2, <1>3, <1>4, <1>5, <1>6, <1>7, <1>8, <1>9, <1>10, <1>11, <1>12, <1>13,
          <1>14, <1>15, <1>16, <1>17, <1>18, <1>19, <1>20, <1>21, <1>22, <1>23, <1>24, <1>25,
          <1>26, <1>27, <1>28, <1>29 DEF Next, Service, Migrator

\* So the old data stays where it is known to be.
LEMMA OldDataStays ==
  ASSUME IInv, [Next]_vars
  PROVE  OldDataKnown'
<1> USE DEF IInv
<1>1. mig'.pc \in Placed => Has(View)'
  <2>1. CASE Rename
    <3>1. UNCHANGED pg /\ db' = tmp.rows /\ wal' = Empty BY <2>1 DEF Rename
    <3>2. tmp.rows = Merged(pg.rows, View) BY <2>1 DEF Rename, At, InPlace
    <3>3. tmp.rows \in RowSets /\ View \in RowSets /\ pg.rows \in RowSets
      BY ViewFacts DEF TypeOK, CopyTypes, OldTypes
    <3>4. View' = [k \in Keys |-> tmp.rows[k]]
      BY <3>1, <3>3, NoneApart, EmptyTyped DEF View, Overlay
    <3>5. View' = tmp.rows BY <3>3, <3>4 DEF RowSets
    <3>6. Settings \in Keys BY DEF Keys
    <3> QED BY <3>1, <3>2, <3>3, <3>5, <3>6, MergedFacts DEF Has, OldSettings
  <2>2. CASE mig.pc \in Placed /\ UNCHANGED <<pg, host>>
    <3>1. Has(View) BY <2>2 DEF OldDataKnown
    <3>2. ~BroughtBack BY <2>2 DEF BroughtBack, PowerCut
    <3> QED BY <2>2, <3>1, <3>2, HasKept
  <2> QED BY <2>1, <2>2, Placing
<1>2. mig'.pc \in Unmarked => marker' # "current" BY StaysUnmarked
<1>3. marker' = "current" => db' # None /\ Has(View)'
  <2>1. CASE WriteMarker
    <3>1. mig.pc = "mark" /\ UNCHANGED <<db, wal, pg>> BY <2>1 DEF WriteMarker, At
    <3>2. Has(View) /\ db # None BY <3>1 DEF OldDataKnown, InPlace, Placed
    <3>3. View' = View BY <3>1 DEF View
    <3> QED BY <3>1, <3>2, <3>3 DEF Has
  <2>2. CASE marker = "current" /\ marker' = "current"
    <3>1. pg'.rows = pg.rows BY <2>2, OldRows, OldRunUnmarks
    <3>2. db # None /\ Has(View) BY <2>2 DEF OldDataKnown
    <3>3. ~BroughtBack BY <2>2 DEF BroughtBack, InPlace, OldDataKnown, Unmarked
    <3>4. db' # None BY <3>2, <3>3, Seen DEF Seeing, SameRows, Wrote, MadeEmpty, Replaced
    <3> QED BY <3>1, <3>2, <3>3, <3>4, HasKept
  <2> QED BY <2>1, <2>2, Marking
<1>4. ASSUME status' \in {"none", "done"}, pg'.folder = "ok", unsaid' # "now"
      PROVE  (Has(View)' \/ Quiet') /\ (undo' # None => Has(Before)' \/ Quiet')
  <2>1. CASE InNow
    <3>1. View' = View BY <2>1 DEF InNow, View
    <3> QED BY <2>1, <3>1 DEF InNow, Has
  <2>2. CASE QuietStays /\ Quiet BY <2>2 DEF QuietStays
  <2>3. CASE QuietStays /\ ~Quiet
    <3>1. Has(View) /\ (undo # None => Has(Before)) BY <1>4, <2>3 DEF QuietStays, OldDataKnown, recorded
    <3>2. CASE OldVersionRuns
      <4>1. Quiet' BY <3>2 DEF OldVersionRuns, Quiet, Off, LockKept
      <4> QED BY <4>1
    <3>3. CASE pg'.rows = pg.rows
      <4>1. CASE SameRows BY <3>1, <3>3, <4>1 DEF SameRows, Has, Before
      <4>2. CASE Wrote
        <5>1. undo' = None /\ ~BroughtBack BY <4>2 DEF Wrote, BroughtBack
        <5> QED BY <3>1, <3>3, <5>1, HasKept
      <4>3. CASE MadeEmpty
        <5>1. View = Empty BY <4>3, ViewFacts DEF MadeEmpty
        <5>2. pg.rows[Settings] = NoUnit BY <3>1, <5>1, EmptyTyped DEF Has, Keys
        <5> QED BY <5>2, NoneApart DEF OldSettings
      <4>4. CASE Replaced
        <5>1. ~BroughtBack \/ undo' = None BY DEF BroughtBack
        <5>2. Has(View)' \/ BroughtBack BY <3>1, <3>3, HasKept
        <5>3. undo' # None => Has(Before)' BY <3>1, <3>3, <4>4 DEF Replaced, Has
        <5>4. BroughtBack => Has(View)' BY <3>1, <3>3 DEF BroughtBack, Has
        <5> QED BY <5>2, <5>3, <5>4
      <4>5. CASE BroughtBack BY <3>1, <3>3, <4>5 DEF BroughtBack, Has
      <4> QED BY <4>1, <4>2, <4>3, <4>4, <4>5, Seen DEF Seeing
    <3> QED BY <3>2, <3>3, OldRows
  <2> QED BY <1>4, <2>1, <2>2, <2>3, StatusMoves DEF StatusHolds
<1> QED BY <1>1, <1>2, <1>3, <1>4 DEF OldDataKnown

\* What is gone stays gone, and what the user chose, or a start could not record, is remembered.
ChoicesLast ==
    /\ pg'.folder # "gone" => pg.folder # "gone"
    /\ without => without'
    /\ (skip => without) => (skip' => without')
    /\ WentOn => WentOn'

\* The old folder does not come back, and the user's choice to go without it is remembered.
LEMMA Choices ==
  ASSUME IInv, [Next]_vars
  PROVE  ChoicesLast
<1> USE DEF IInv
<1>1. CASE Shutdown
  BY <1>1 DEF Shutdown, choices, recorded, history, ChoicesLast, TypeOK, OldTypes, WentOn, OneProcess
<1>2. CASE OldVersionRuns
  BY <1>2 DEF OldVersionRuns, choices, recorded, history, ChoicesLast, TypeOK, OldTypes, WentOn, OneProcess
<1>3. CASE FolderBreaks
  BY <1>3 DEF FolderBreaks, choices, recorded, history, ChoicesLast, TypeOK, OldTypes, WentOn, OneProcess
<1>4. CASE saveOldDataChoice
  BY <1>4 DEF saveOldDataChoice, recorded, ChoicesLast, WentOn, OneProcess
<1>5. CASE StartServer
  <2>1. pg'.folder = pg.folder /\ UNCHANGED <<platform, skip, without>>
    BY <1>5 DEF StartServer, history, TypeOK, OldTypes
  <2>2. unsaid # "never" => unsaid' # "never" BY <1>5, Unsaids DEF StartServer, recorded
  <2> QED BY <2>1, <2>2 DEF ChoicesLast, WentOn, OneProcess
<1>6. CASE StopServer
  <2>1. pg'.folder = pg.folder /\ UNCHANGED <<platform, skip, without>>
    BY <1>6 DEF StopServer, history, TypeOK, OldTypes
  <2>2. unsaid # "never" => unsaid' # "never" BY <1>6, Unsaids DEF StopServer, recorded
  <2> QED BY <2>1, <2>2 DEF ChoicesLast, WentOn, OneProcess
<1>7. ASSUME NEW s \in Services, ServiceStarts(s) \/ LeaveMaintenance(s) \/ holdInUse(s) \/ openSQLite(s)
                   \/ Record(s) \/ Close(s) \/ Crash(s)
      PROVE  ChoicesLast
  <2>1. UNCHANGED <<pg, skip, without, platform, unsaid>>
    BY <1>7 DEF ServiceStarts, LeaveMaintenance, holdInUse, openSQLite, Record, Close, Crash, Goto,
             files, choices, recorded, bounds, history
  <2> QED BY <2>1 DEF ChoicesLast, WentOn, OneProcess
<1>8. CASE Boot \/ PowerCut \/ LauncherDies \/ Prepare \/ Copy \/ verifyCopy \/ Merge \/ verifyMerge
            \/ Finish \/ Rename \/ Sync \/ UNCHANGED vars
  <2>1. UNCHANGED <<pg, skip, without, platform, unsaid>>
    BY <1>8 DEF Boot, PowerCut, LauncherDies, Prepare, Copy, verifyCopy, Merge, verifyMerge, Finish,
             Rename, Sync, vars, files, choices, recorded, bounds, history
  <2> QED BY <2>1 DEF ChoicesLast, WentOn, OneProcess
<1>9. CASE Start \/ TakeLock \/ CommitStarts \/ WriteMarker \/ WriteDone
  <2>1. UNCHANGED <<pg, skip, without, platform>>
    BY <1>9 DEF Start, TakeLock, CommitStarts, WriteMarker, WriteDone, history
  <2>2. unsaid # "never" => unsaid' # "never"
    BY <1>9, Unsaids DEF Start, CannotPlan, TakeLock, CommitStarts, WriteMarker, WriteDone, Said, recorded
  <2> QED BY <2>1, <2>2 DEF ChoicesLast, WentOn, OneProcess
<1> QED BY <1>1, <1>2, <1>3, <1>4, <1>5, <1>6, <1>7, <1>8, <1>9 DEF Next, Service, Migrator

\* Where there is no database, there was none, or the rename that made one is undone.
LEMMA BareBefore ==
  ASSUME IInv, [Next]_vars, Bare'
  PROVE  Bare
<1> USE DEF IInv
<1>1. CASE SameRows BY <1>1 DEF SameRows, Bare
<1>2. CASE Wrote BY <1>2 DEF Wrote, Bare
<1>3. CASE MadeEmpty BY <1>3 DEF MadeEmpty, Bare
<1>4. CASE Replaced BY <1>4 DEF Replaced, Bare
<1>5. CASE BroughtBack BY <1>5 DEF BroughtBack, Bare
<1> QED BY <1>1, <1>2, <1>3, <1>4, <1>5, Seen DEF Seeing

\* A failed move keeps the services from it, recorded or, on Umbrel, by the migrator's own end.
LEMMA FailedHolds ==
  ASSUME TypeOK, NobodyOpens, ~WentOn', NEW n, Outcome("failed", n),
         UNCHANGED <<svc, started, platform>>
  PROVE  NobodyOpens'
<1>1. CASE status' = "failed" BY <1>1 DEF NobodyOpens
<1>2. CASE mig'.exit = "held back" /\ OneProcess /\ UNCHANGED recorded
  BY <1>2 DEF NobodyOpens, Quiet, Off, OneProcess, recorded
<1>3. CASE ~OneProcess /\ unsaid' = "now" BY <1>3 DEF WentOn, OneProcess
<1> QED BY <1>1, <1>2, <1>3, Outcomes DEF Words

\* While there is none, whatever is tried next keeps the services from it.
LEMMA NobodyStays ==
  ASSUME IInv, [Next]_vars, NobodyOpens, Bare,
         pg.folder # "gone", ~without, ~skip, ~without', ~WentOn, ~WentOn'
  PROVE  NobodyOpens' \/ ~Bare'
<1> USE DEF IInv
<1>1. ASSUME NEW s \in Services, ServiceStarts(s) PROVE NobodyOpens' \/ ~Bare'
  <2>1. status = "failed"
    <3>1. MayStart(s) BY <1>1 DEF ServiceStarts
    <3> QED BY <3>1, NoneAssumption DEF MayStart, NobodyOpens, Quiet, OneProcess
  <2>2. \A o \in Services : svc'[o] = IF o = s THEN "maintenance" ELSE svc[o]
    BY <1>1, <2>1, Went DEF ServiceStarts, Blocked
  <2>3. UNCHANGED status BY <1>1 DEF ServiceStarts, choices, recorded
  <2> QED BY <2>1, <2>2, <2>3 DEF NobodyOpens
<1>2. ASSUME NEW s \in Services, LeaveMaintenance(s) PROVE NobodyOpens' \/ ~Bare'
  <2>1. status # "failed" /\ svc[s] = "maintenance" BY <1>2 DEF LeaveMaintenance, Blocked
  <2> QED BY <2>1 DEF NobodyOpens, Quiet, Off
<1>3. ASSUME NEW s \in Services, holdInUse(s) PROVE NobodyOpens' \/ ~Bare'
  <2>1. svc[s] \in {"waiting", "locked", "open"} BY <1>3 DEF holdInUse
  <2> QED BY <2>1 DEF NobodyOpens
<1>4. ASSUME NEW s \in Services, openSQLite(s) PROVE NobodyOpens' \/ ~Bare'
  <2>1. svc[s] \in {"waiting", "locked", "open"} BY <1>4 DEF openSQLite
  <2> QED BY <2>1 DEF NobodyOpens
<1>5. ASSUME NEW s \in Services, Record(s) PROVE NobodyOpens' \/ ~Bare'
  <2>1. svc[s] \in {"waiting", "locked", "open"} BY <1>5 DEF Record
  <2> QED BY <2>1 DEF NobodyOpens
<1>6. ASSUME NEW s \in Services, Close(s) PROVE NobodyOpens' \/ ~Bare'
  <2>1. svc[s] \in {"waiting", "locked", "open"} BY <1>6 DEF Close
  <2> QED BY <2>1 DEF NobodyOpens
<1>7. ASSUME NEW s \in Services, Crash(s) PROVE NobodyOpens' \/ ~Bare'
  <2>1. svc[s] \in {"waiting", "locked", "open"} BY <1>7 DEF Crash
  <2> QED BY <2>1 DEF NobodyOpens
<1>8. CASE Boot
  <2>1. mig'.pc = "plan" BY <1>8 DEF Boot, Ended
  <2>2. UNCHANGED <<status, started, platform>> /\ (svc' = Off \/ svc' = svc)
    BY <1>8 DEF Boot, choices, recorded
  <2> QED BY <2>1, <2>2 DEF NobodyOpens, Quiet, Off, OneProcess
<1>9. CASE Shutdown
  <2>1. mig'.exit = None BY <1>9, EndedTyped DEF Shutdown
  <2>2. UNCHANGED <<status, started, platform>> /\ (svc' = Off \/ svc' = svc)
    BY <1>9 DEF Shutdown, choices, recorded
  <2> QED BY <2>1, <2>2 DEF NobodyOpens, Quiet, Off, OneProcess
<1>10. CASE PowerCut
  <2>1. mig'.exit = None BY <1>10, EndedTyped DEF PowerCut
  <2>2. UNCHANGED <<status, started, platform>> /\ (svc' = Off \/ svc' = svc)
    BY <1>10 DEF PowerCut, choices, recorded
  <2> QED BY <2>1, <2>2 DEF NobodyOpens, Quiet, Off, OneProcess
<1>11. CASE LauncherDies
  <2>1. mig'.exit = None BY <1>11, EndedTyped DEF LauncherDies
  <2>2. UNCHANGED <<status, started, platform>> /\ (svc' = Off \/ svc' = svc)
    BY <1>11 DEF LauncherDies, choices, recorded
  <2> QED BY <2>1, <2>2 DEF NobodyOpens, Quiet, Off, OneProcess
<1>12. CASE OldVersionRuns
  <2>1. UNCHANGED <<status, mig, svc, platform>> /\ started' = {}
    BY <1>12 DEF OldVersionRuns, choices, recorded
  <2> QED BY <2>1 DEF NobodyOpens, Quiet, Off, OneProcess
<1>13. CASE FolderBreaks
  <2>1. UNCHANGED <<status, mig, svc, platform, started>> BY <1>13 DEF FolderBreaks, choices, recorded
  <2> QED BY <2>1 DEF NobodyOpens, Quiet, Off, OneProcess
<1>14. CASE saveOldDataChoice
  BY <1>14 DEF saveOldDataChoice
<1>15. CASE Start
  <2>1. UNCHANGED <<svc, started, platform, db>> /\ mig.pc = "plan" BY <1>15 DEF Start, At, files
  <2>2. CASE mig'.exit = "held back" /\ OneProcess /\ UNCHANGED recorded
    BY <2>1, <2>2 DEF NobodyOpens, Quiet, Off, OneProcess, recorded
  <2>3. db = None BY <2>1 DEF Bare, InPlace
  <2>4. CASE UNCHANGED recorded /\ mig' = [mig EXCEPT !.pc = "lock", !.action = Decision]
    <3>1. mig'.pc # "off" BY <2>4 DEF TypeOK, MigTypes
    <3> QED BY <2>1, <2>4, <3>1 DEF NobodyOpens, Quiet, Off, OneProcess, recorded
  <2>5. CASE CannotPlan \/ (Decision \notin {"move", "merge"} /\ Outcome(Decision, 0))
    <3>1. \E n \in {0, 1} : Outcome("failed", n) BY <2>3, <2>5, Decisions DEF CannotPlan
    <3> QED BY <2>1, <2>2, <3>1, FailedHolds
  <2> QED BY <1>15, <2>4, <2>5 DEF Start
<1>16. CASE TakeLock
  <2>1. UNCHANGED <<svc, started, platform>> BY <1>16 DEF TakeLock
  <2>2. ~Busy BY DEF NobodyOpens, Busy, Holders
  <2>3. mig' = [mig EXCEPT !.pc = "server", !.held = OneProcess] /\ UNCHANGED recorded
    BY <1>16, <2>2 DEF TakeLock
  <2>4. mig'.pc # "off" BY <2>3 DEF TypeOK, MigTypes
  <2> QED BY <2>1, <2>3, <2>4 DEF NobodyOpens, Quiet, Off, OneProcess, recorded
<1>17. CASE StartServer
  <2>1. UNCHANGED <<svc, started, platform>> BY <1>17 DEF StartServer, history
  <2>2. CASE Step("prepare") /\ UNCHANGED recorded
    <3>1. mig'.pc # "off" BY <2>2, Stepped DEF MigPlaces
    <3> QED BY <2>1, <2>2, <3>1 DEF NobodyOpens, Quiet, Off, OneProcess, recorded
  <2>3. CASE Outcome("failed", 1) BY <2>1, <2>3, FailedHolds
  <2> QED BY <1>17, <2>2, <2>3 DEF StartServer
<1>18. CASE Prepare
  <2>1. UNCHANGED <<status, svc, started, platform>> BY <1>18 DEF Prepare, choices, recorded
  <2>2. mig'.pc # "off" BY <1>18, Places
  <2> QED BY <2>1, <2>2 DEF NobodyOpens, Quiet, Off, OneProcess
<1>19. CASE Copy
  <2>1. UNCHANGED <<status, svc, started, platform>> BY <1>19 DEF Copy, choices, recorded
  <2>2. mig'.pc # "off" BY <1>19, Places
  <2> QED BY <2>1, <2>2 DEF NobodyOpens, Quiet, Off, OneProcess
<1>20. CASE verifyCopy
  <2>1. UNCHANGED <<status, svc, started, platform>> BY <1>20 DEF verifyCopy, choices, recorded
  <2>2. mig'.pc # "off" BY <1>20, Places
  <2> QED BY <2>1, <2>2 DEF NobodyOpens, Quiet, Off, OneProcess
<1>21. CASE Merge
  <2>1. UNCHANGED <<status, svc, started, platform>> BY <1>21 DEF Merge, choices, recorded
  <2>2. mig'.pc # "off" BY <1>21, Places
  <2> QED BY <2>1, <2>2 DEF NobodyOpens, Quiet, Off, OneProcess
<1>22. CASE verifyMerge
  <2>1. UNCHANGED <<status, svc, started, platform>> BY <1>22 DEF verifyMerge, choices, recorded
  <2>2. mig'.pc # "off" BY <1>22, Places
  <2> QED BY <2>1, <2>2 DEF NobodyOpens, Quiet, Off, OneProcess
<1>23. CASE Finish
  <2>1. UNCHANGED <<status, svc, started, platform>> BY <1>23 DEF Finish, choices, recorded
  <2>2. mig'.pc # "off" BY <1>23, Places
  <2> QED BY <2>1, <2>2 DEF NobodyOpens, Quiet, Off, OneProcess
<1>24. CASE StopServer
  <2>1. UNCHANGED <<svc, started, platform, db>> /\ mig.pc = "stop"
    BY <1>24 DEF StopServer, At, files, history
  <2>2. CASE mig'.exit = "held back" /\ OneProcess /\ UNCHANGED recorded
    BY <2>1, <2>2 DEF NobodyOpens, Quiet, Off, OneProcess, recorded
  <2>3. db = None BY <2>1 DEF Bare, InPlace
  <2>4. mig.exit \in {None, "failed"} BY <2>1, <2>3 DEF CopyInStep, NoneYet
  <2>5. CASE Step("commit") /\ UNCHANGED recorded
    <3>1. mig'.pc # "off" BY <2>5, Stepped DEF MigPlaces
    <3> QED BY <2>1, <2>5, <3>1 DEF NobodyOpens, Quiet, Off, OneProcess, recorded
  <2>6. CASE \E n \in {0, 1} : Outcome("failed", n) BY <2>1, <2>6, FailedHolds
  <2> QED BY <1>24, <2>4, <2>5, <2>6 DEF StopServer
<1>25. CASE CommitStarts
  <2>1. UNCHANGED <<svc, started, platform>> BY <1>25 DEF CommitStarts
  <2>2. CASE mig'.exit = "held back" /\ OneProcess /\ UNCHANGED recorded
    BY <2>1, <2>2 DEF NobodyOpens, Quiet, Off, OneProcess, recorded
  <2>3. ~Busy BY DEF NobodyOpens, Busy, Holders
  <2>5. CASE \E n \in {0, 1} : Outcome("failed", n) BY <2>1, <2>5, FailedHolds
  <2>6. CASE mig' = [mig EXCEPT !.pc = "rename", !.held = TRUE, !.fresh = TRUE] /\ UNCHANGED recorded
    <3>1. mig'.pc # "off" BY <2>6 DEF TypeOK, MigTypes
    <3> QED BY <2>1, <2>6, <3>1 DEF NobodyOpens, Quiet, Off, OneProcess, recorded
  <2> QED BY <1>25, <2>3, <2>5, <2>6 DEF CommitStarts
<1>26. CASE Rename
  <2>1. UNCHANGED <<status, started, platform>> BY <1>26 DEF Rename, choices, recorded
  <2>2. UNCHANGED svc BY <1>26 DEF Rename, NobodyOpens, TypeOK
  <2>3. mig'.pc # "off" BY <1>26, Places
  <2> QED BY <2>1, <2>2, <2>3 DEF NobodyOpens, Quiet, Off, OneProcess
<1>27. CASE Sync
  <2>1. UNCHANGED <<status, svc, started, platform>> BY <1>27 DEF Sync, choices, recorded
  <2>2. mig'.pc # "off" BY <1>27, Places
  <2> QED BY <2>1, <2>2 DEF NobodyOpens, Quiet, Off, OneProcess
<1>28. CASE WriteMarker
  <2>1. mig.pc = "mark" BY <1>28 DEF WriteMarker, At
  <2> QED BY <2>1 DEF Bare, InPlace, Placed
<1>29. CASE WriteDone
  <2>1. mig.pc = "done" BY <1>29 DEF WriteDone, At
  <2> QED BY <2>1 DEF Bare, InPlace, Placed
<1>30. CASE UNCHANGED vars
  <2>1. UNCHANGED <<status, mig, svc, started, platform>>
    BY <1>30 DEF vars, files, choices, recorded, bounds, history
  <2> QED BY <2>1 DEF NobodyOpens, Quiet, Off, OneProcess
<1> QED BY <1>1, <1>2, <1>3, <1>4, <1>5, <1>6, <1>7, <1>8, <1>9, <1>10, <1>11, <1>12, <1>13,
          <1>14, <1>15, <1>16, <1>17, <1>18, <1>19, <1>20, <1>21, <1>22, <1>23, <1>24, <1>25,
          <1>26, <1>27, <1>28, <1>29, <1>30 DEF Next, Service, Migrator

\* The move is deferred only for a program that has the database.
LEMMA Deferring ==
  ASSUME IInv, [Next]_vars
  PROVE  mig'.pc = "stop" /\ mig'.exit = "deferred" =>
             Busy \/ (mig.pc = "stop" /\ mig.exit = "deferred")
<1> USE DEF IInv
<1>1. CASE Boot
  <2>1. mig'.pc # "stop" BY <1>1, Places
  <2> QED BY <2>1
<1>2. CASE Shutdown
  <2>1. mig'.pc # "stop" BY <1>2, Places
  <2> QED BY <2>1
<1>3. CASE PowerCut
  <2>1. mig'.pc # "stop" BY <1>3, Places
  <2> QED BY <2>1
<1>4. CASE LauncherDies
  <2>1. mig'.pc # "stop" BY <1>4, Places
  <2> QED BY <2>1
<1>5. CASE OldVersionRuns
  <2>1. mig'.pc # "stop" BY <1>5, Places
  <2> QED BY <2>1
<1>6. CASE FolderBreaks
  <2>1. mig'.pc # "stop" BY <1>6, Places
  <2> QED BY <2>1
<1>7. CASE Start
  <2>1. mig'.pc # "stop" BY <1>7, Places
  <2> QED BY <2>1
<1>8. CASE TakeLock
  <2>1. mig'.pc # "stop" BY <1>8, Places
  <2> QED BY <2>1
<1>9. CASE StartServer
  <2>1. mig'.pc # "stop" BY <1>9, Places
  <2> QED BY <2>1
<1>10. CASE Prepare
  <2>1. CASE mig' = [mig EXCEPT !.pc = "stop", !.exit = "failed"] BY <2>1 DEF TypeOK, MigTypes
  <2>2. CASE Busy BY <2>2
  <2>3. CASE mig' = [mig EXCEPT !.pc = "copy", !.held = TRUE, !.read = View]
    BY <2>3 DEF TypeOK, MigTypes
  <2>4. CASE Step("copy") BY <2>4, Stepped DEF MigPlaces
  <2> QED BY <1>10, <2>1, <2>2, <2>3, <2>4 DEF Prepare, openExisting, fileIdentity
<1>11. CASE Copy
  <2>1. mig'.pc # "stop" \/ mig'.exit = "failed"
    BY <1>11, Stepped, Removed DEF Copy, Copies, CopyFails, MigPlaces
  <2> QED BY <2>1
<1>12. CASE verifyCopy
  <2>1. mig'.pc # "stop" \/ mig'.exit = "failed"
    BY <1>12, Stepped, Removed DEF verifyCopy, MigPlaces
  <2> QED BY <2>1
<1>13. CASE Merge
  <2>1. mig'.pc # "stop" BY <1>13, Places
  <2> QED BY <2>1
<1>14. CASE verifyMerge
  <2>1. mig'.pc # "stop" \/ mig'.exit = "failed"
    BY <1>14, Stepped, Removed DEF verifyMerge, MigPlaces
  <2> QED BY <2>1
<1>15. CASE Finish
  <2>1. mig.exit = None BY <1>15 DEF Finish, At, CopyInStep
  <2>2. mig'.exit \in {None, "failed"} BY <1>15, <2>1, Removed DEF Finish, TypeOK, MigTypes
  <2> QED BY <2>2, NoneAssumption
<1>16. CASE StopServer
  <2>1. mig'.pc # "stop" BY <1>16, Places
  <2> QED BY <2>1
<1>17. CASE CommitStarts
  <2>1. mig'.pc # "stop" BY <1>17, Places
  <2> QED BY <2>1
<1>18. CASE Rename
  <2>1. mig'.pc # "stop" BY <1>18, Places
  <2> QED BY <2>1
<1>19. CASE Sync
  <2>1. mig'.pc # "stop" BY <1>19, Places
  <2> QED BY <2>1
<1>20. CASE WriteMarker
  <2>1. mig'.pc # "stop" BY <1>20, Places
  <2> QED BY <2>1
<1>21. CASE WriteDone
  <2>1. mig'.pc # "stop" BY <1>21, Places
  <2> QED BY <2>1
<1>22. ASSUME NEW s \in Services, ServiceStarts(s) \/ LeaveMaintenance(s) \/ holdInUse(s) \/ openSQLite(s)
                   \/ Record(s) \/ Close(s) \/ Crash(s)
      PROVE  mig'.pc = "stop" /\ mig'.exit = "deferred" =>
             Busy \/ (mig.pc = "stop" /\ mig.exit = "deferred")
  <2>1. UNCHANGED <<mig>>
    BY <1>22 DEF ServiceStarts, LeaveMaintenance, holdInUse, openSQLite, Record, Close, Crash, Goto,
             files, choices, recorded, bounds, history
  <2> QED BY <2>1
<1>23. CASE saveOldDataChoice \/ UNCHANGED vars
  <2>1. UNCHANGED <<mig>>
    BY <1>23 DEF saveOldDataChoice, vars, files, choices, recorded, bounds, history
  <2> QED BY <2>1
<1> QED BY <1>1, <1>2, <1>3, <1>4, <1>5, <1>6, <1>7, <1>8, <1>9, <1>10, <1>11, <1>12, <1>13,
          <1>14, <1>15, <1>16, <1>17, <1>18, <1>19, <1>20, <1>21, <1>22, <1>23 DEF Next, Service, Migrator

\* So no service comes to make an empty database.
LEMMA NoneYetStays ==
  ASSUME IInv, [Next]_vars
  PROVE  NoneYet'
<1> USE DEF IInv
<1>1. skip' => without' BY Choices DEF ChoicesLast, NoneYet
<1>2. ASSUME pg'.folder # "gone", ~without', ~WentOn' PROVE Bare' => NobodyOpens'
  <2>1. pg.folder # "gone" /\ ~without /\ ~skip /\ ~WentOn BY <1>2, Choices DEF ChoicesLast, NoneYet
  <2>2. Bare' => NobodyOpens BY <2>1, BareBefore DEF NoneYet
  <2> QED BY <1>2, <2>1, <2>2, BareBefore, NobodyStays
<1>3. ASSUME pg'.folder # "gone", ~without', ~WentOn', mig'.pc = "stop", mig'.exit = "deferred"
      PROVE  db' # None
  <2>1. pg.folder # "gone" /\ ~without /\ ~WentOn BY <1>3, Choices DEF ChoicesLast
  <2>2. CASE db = None
    <3>1. NobodyOpens BY <2>1, <2>2 DEF NoneYet, Bare
    <3>2. ~Busy BY <3>1 DEF NobodyOpens, Busy, Holders
    <3>3. mig.pc = "stop" /\ mig.exit = "deferred" BY <1>3, <3>2, Deferring
    <3> QED BY <2>1, <2>2, <3>3 DEF NoneYet
  <2>3. CASE db # None
    <3>1. ~BroughtBack BY <1>3, EndedTyped DEF BroughtBack, PowerCut
    <3> QED BY <2>3, <3>1, Seen DEF Seeing, SameRows, Wrote, MadeEmpty, Replaced
  <2> QED BY <2>2, <2>3
<1> QED BY <1>1, <1>2, <1>3 DEF NoneYet

\* What a service writes over a row that stands stands too: a later judgement, settings saved later, or a
\* block found later, which is not the old data's.
LEMMA StandsOn ==
  ASSUME TypeOK, OldSettings, NEW k \in Keys, NEW row \in Rows,
         Writes(View, k, row), Stands(k, pg.rows[k], View[k])
  PROVE  Stands(k, pg.rows[k], row)
<1> DEFINE t == pg.rows[k]
           s == View[k]
<1>1. View \in RowSets /\ pg.rows \in RowSets BY ViewFacts DEF TypeOK, OldTypes
<1>2. CASE k = Settings
  <2>1. row = Saved(records + 1) /\ row \in SavedRows BY <1>1, <1>2, WritesARow
  <2>2. t \in SavedRows /\ t.saved <= records /\ records \in Nat BY <1>2 DEF OldSettings, TypeOK
  <2>3. row # NoUnit BY <2>1, NoneApart
  <2>4. row.saved = records + 1 BY <2>1 DEF Saved
  <2>5. row.saved > t.saved BY <2>2, <2>4 DEF SavedRows
  <2> QED BY <1>2, <2>3, <2>5 DEF Stands, settingsWin
<1>3. CASE k \in Heights
  <2>1. t \in Units \cup {NoUnit} /\ s \in Units \cup {NoUnit} /\ k # Settings
    BY <1>1, <1>3, HeightsAssumption DEF RowSets
  <2>2. row \in Units /\ Grows(s, row) /\ (row.hash = s.hash \/ New(row.hash))
    BY <1>3, HeightsAssumption DEF Writes
  <2>3. New(row.hash) => row.hash # t.hash BY <1>3 DEF New
  <2>4. Stands(k, t, s) OBVIOUS
  <2>5. \A x \in Hashes : FoundAt[x] \in Int BY FoundAtAssumption
  <2> SUFFICES Stands(k, t, row) OBVIOUS
  <2> HIDE DEF t, s
  <2>6. CASE t = NoUnit BY <1>3, <2>2, <2>6, NoneApart DEF Stands, existingWins
  <2>7. CASE t # NoUnit
    <3>1. t \in Units /\ s \in Units
      <4>1. s # NoUnit BY <2>1, <2>4, <2>7, NoneApart DEF Stands, settingsWin, existingWins
      <4> QED BY <2>1, <2>7, <4>1
    <3>2. t # NoUnit /\ s # NoUnit /\ row # NoUnit BY <2>2, <3>1, NoneApart
    <3>3. /\ t.hash \in Hashes /\ t.status \in Status /\ s.hash \in Hashes /\ s.status \in Status
          /\ row.hash \in Hashes /\ row.status \in Status
      BY <2>2, <3>1 DEF Units
    <3>4. CASE s.hash = row.hash /\ s.status = "pending" /\ row.status # "pending"
      <4>1. CASE t.hash = s.hash
        <5>1. t = s
          <6>1. t.status = "pending"
            BY <2>1, <2>4, <3>2, <3>3, <3>4, <4>1 DEF Stands, existingWins, rank, Status
          <6> QED BY <3>1, <3>4, <4>1, <6>1 DEF Units
        <5> QED BY <1>3, <3>2, <3>4, <4>1, <5>1 DEF Stands, existingWins, rank
      <4>2. CASE t.hash # s.hash
        <5>1. t.status = "orphaned" \/ FoundAt[s.hash] > FoundAt[t.hash]
          BY <2>1, <2>4, <3>2, <3>4, <4>2 DEF Stands, existingWins
        <5>2. CASE row.status = "orphaned" BY <1>3, <2>2, <3>1, <3>4, <4>2, <5>1, <5>2 DEF Stands
        <5>3. CASE row.status # "orphaned"
          BY <1>3, <3>2, <3>4, <4>2, <5>1, <5>3 DEF Stands, existingWins
        <5> QED BY <5>2, <5>3
      <4> QED BY <4>1, <4>2
    <3>5. CASE FoundAt[row.hash] > FoundAt[s.hash] /\ row.status = "pending" /\ s.status # "confirmed"
      <4>1. row.hash # s.hash BY <2>5, <3>3, <3>5
      <4>2. row.hash # t.hash BY <2>2, <2>3, <4>1
      <4>3. CASE t.status = "orphaned" BY <1>3, <3>2, <3>5, <4>2, <4>3 DEF Stands, existingWins
      <4>4. CASE t.status # "orphaned"
        <5>1. t = s \/ t.hash = s.hash \/ FoundAt[s.hash] > FoundAt[t.hash]
          BY <2>1, <2>4, <3>2, <4>4 DEF Stands, existingWins
        <5>2. FoundAt[row.hash] > FoundAt[t.hash] BY <2>5, <3>3, <3>5, <5>1
        <5> QED BY <1>3, <3>2, <3>5, <4>2, <4>4, <5>2 DEF Stands, existingWins
      <4> QED BY <4>3, <4>4
    <3> QED BY <2>2, <3>2, <3>4, <3>5 DEF Grows
  <2> QED BY <2>6, <2>7
<1> QED BY <1>2, <1>3 DEF Keys

\* A merge takes in every row, so that each stands against the old data.
LEMMA MergedStands ==
  ASSUME NEW old \in RowSets, NEW new \in RowSets, NEW k \in Keys
  PROVE  Stands(k, old[k], Merged(old, new)[k])
BY HeightsAssumption DEF Merged, Stands, Keys

\* Only the rename takes rows of the old data in, and only the earlier version touches them.
LEMMA Touching ==
  ASSUME IInv, [Next]_vars
  PROVE  UNCHANGED touched \/ Rename \/ PowerCut \/ OldVersionRuns
<1>1. CASE PowerCut
  BY <1>1
<1>2. CASE OldVersionRuns
  BY <1>2
<1>3. CASE Rename
  BY <1>3
<1>4. ASSUME NEW s \in Services, ServiceStarts(s) \/ LeaveMaintenance(s) \/ holdInUse(s) \/ openSQLite(s)
                   \/ Record(s) \/ Close(s) \/ Crash(s)
      PROVE  UNCHANGED touched \/ Rename \/ PowerCut \/ OldVersionRuns
  <2>1. UNCHANGED <<touched>>
    BY <1>4 DEF ServiceStarts, LeaveMaintenance, holdInUse, openSQLite, Record, Close, Crash, Goto,
             files, choices, recorded, bounds, history
  <2> QED BY <2>1
<1>5. CASE Boot \/ Shutdown \/ LauncherDies \/ FolderBreaks \/ saveOldDataChoice \/ Start
            \/ TakeLock \/ StartServer \/ Prepare \/ Copy \/ verifyCopy \/ Merge \/ verifyMerge
            \/ Finish \/ StopServer \/ CommitStarts \/ Sync \/ WriteMarker \/ WriteDone
            \/ UNCHANGED vars
  <2>1. UNCHANGED <<touched>>
    BY <1>5 DEF Boot, Shutdown, LauncherDies, FolderBreaks, saveOldDataChoice, Start, TakeLock,
             StartServer, Prepare, Copy, verifyCopy, Merge, verifyMerge, Finish, StopServer,
             CommitStarts, Sync, WriteMarker, WriteDone, vars, files, choices, recorded, bounds, history
  <2> QED BY <2>1
<1> QED BY <1>1, <1>2, <1>3, <1>4, <1>5 DEF Next, Service, Migrator

\* So every row the earlier version has not touched stands.
LEMMA UntouchedStays ==
  ASSUME IInv, [Next]_vars
  PROVE  Untouched'
<1> USE DEF IInv
<1>0. View \in RowSets /\ pg.rows \in RowSets /\ touched \subseteq Keys
  BY ViewFacts DEF TypeOK, OldTypes
<1>1. CASE Rename
  <2>1. Replaced /\ UNCHANGED pg BY <1>1, RenameSees DEF Rename
  <2>2. touched' = {} BY <1>1 DEF Rename
  <2>3. db' # None /\ \A k \in Keys : Stands(k, pg'.rows[k], View'[k])
    BY <1>0, <2>1, MergedStands DEF Replaced
  <2>4. undo' # None => undo'.db = db /\ undo'.touched = touched /\ Before' = View
    BY <2>1 DEF Replaced
  <2>5. undo' # None /\ undo'.db = None => undo'.touched = Keys BY <2>4 DEF Untouched
  <2>6. undo' # None /\ undo'.db # None => \A k \in Keys \ undo'.touched : Stands(k, pg'.rows[k], Before'[k])
    BY <2>1, <2>4 DEF Untouched
  <2> QED BY <2>2, <2>3, <2>5, <2>6 DEF Untouched
<1>2. CASE PowerCut
  <2>1. undo' = None /\ UNCHANGED <<pg, wal>> /\ touched' = IF db' # db THEN undo.touched ELSE touched
    BY <1>2 DEF PowerCut
  <2>2. CASE UNCHANGED db
    <3>1. View' = View BY <2>1, <2>2 DEF View
    <3> QED BY <2>1, <2>2, <3>1 DEF Untouched
  <2>3. CASE db' # db
    <3>1. undo # None /\ db' = undo.db /\ View' = Before
      BY <1>2, <2>3, CutSees DEF BroughtBack, SameRows
    <3> QED BY <2>1, <2>3, <3>1 DEF Untouched
  <2> QED BY <2>2, <2>3
<1>3. CASE OldVersionRuns
  <2>1. PICK k \in Keys, row \in Rows :
            /\ pg' = [pg EXCEPT !.rows[k] = row, !.clean = TRUE]
            /\ touched' = touched \cup {k}
    BY <1>3 DEF OldVersionRuns
  <2>2. \A o \in Keys : o # k => pg'.rows[o] = pg.rows[o]
    BY <1>0, <2>1 DEF TypeOK, OldTypes, RowSets
  <2>3. UNCHANGED <<db, wal, undo>> /\ undo = None BY <1>3 DEF OldVersionRuns, LockKept, InPlace
  <2>4. View' = View BY <2>3 DEF View
  <2>5. db' # None => \A o \in Keys \ touched' : Stands(o, pg'.rows[o], View'[o])
    BY <2>1, <2>2, <2>3, <2>4 DEF Untouched
  <2>6. db' = None => touched' = Keys BY <2>1, <2>3 DEF Untouched
  <2> QED BY <2>3, <2>5, <2>6 DEF Untouched
<1>4. CASE ~Rename /\ ~PowerCut /\ ~OldVersionRuns
  <2>1. UNCHANGED touched /\ pg'.rows = pg.rows BY <1>4, Touching, OldRows
  <2>2. CASE SameRows BY <2>1, <2>2 DEF SameRows, Untouched, Before
  <2>3. CASE Wrote
    <3>1. PICK k \in Keys, row \in Rows : Writes(View, k, row) /\ View' = [View EXCEPT ![k] = row]
      BY <2>3 DEF Wrote
    <3>2. \A o \in Keys : View'[o] = IF o = k THEN row ELSE View[o] BY <1>0, <3>1 DEF RowSets
    <3>3. \A o \in Keys \ touched : Stands(o, pg.rows[o], View[o]) BY <2>3 DEF Wrote, Untouched
    <3>4. k \notin touched => Stands(k, pg.rows[k], row) BY <3>1, <3>3, StandsOn
    <3>5. \A o \in Keys \ touched : Stands(o, pg.rows[o], View'[o]) BY <3>2, <3>3, <3>4
    <3>6. undo' = None /\ db' # None BY <2>3 DEF Wrote
    <3> QED BY <2>1, <3>5, <3>6 DEF Untouched
  <2>4. CASE MadeEmpty BY <2>1, <2>4 DEF MadeEmpty, Untouched, Before
  <2> QED BY <1>4, <2>2, <2>3, <2>4, Seen DEF Seeing, Replaced, BroughtBack
<1> QED BY <1>1, <1>2, <1>3, <1>4

\* It holds before anything runs: there is old data, and no database.
LEMMA InitIInv == Init => IInv
<1> SUFFICES ASSUME Init PROVE IInv OBVIOUS
<1>1. PICK h \in Heights, x \in Hashes :
          pg = [rows |-> [Empty EXCEPT ![h] = [hash |-> x, status |-> "pending"], ![Settings] = Saved(0)],
                folder |-> "ok", clean |-> TRUE]
  BY DEF Init
<1>2. pg.rows \in RowSets /\ pg.rows[Settings] = Saved(0) /\ pg.folder = "ok" /\ pg.clean = TRUE
  <2> DEFINE u == [hash |-> x, status |-> "pending"]
             e == [Empty EXCEPT ![h] = u]
  <2>1. u \in Units BY DEF Units, Status
  <2>2. h \in Keys /\ h # Settings /\ Settings \in Keys /\ Settings \notin Heights
    BY HeightsAssumption DEF Keys
  <2>3. e \in RowSets
    <3> HIDE DEF u
    <3> QED BY <2>1, <2>2, EmptyTyped, RowPut
  <2>4. Saved(0) \in SavedRows BY DEF Saved, SavedRows
  <2>5. pg.rows = [e EXCEPT ![Settings] = Saved(0)] /\ pg.folder = "ok" /\ pg.clean = TRUE BY <1>1
  <2> HIDE DEF e
  <2>6. [e EXCEPT ![Settings] = Saved(0)] \in RowSets BY <2>2, <2>3, <2>4, RowPut
  <2> QED BY <2>2, <2>3, <2>5, <2>6 DEF RowSets
<1>3. pg \in OldTypes
  <2>1. pg = [rows |-> pg.rows, folder |-> pg.folder, clean |-> pg.clean] BY <1>1
  <2> QED BY <1>2, <2>1 DEF OldTypes
<1>4. TypeOK
  <2>1. mig \in MigTypes BY EndedTyped DEF Init
  <2>2. tmp \in CopyTypes BY EmptyTyped DEF Init, NoCopy, CopyTypes, Actions
  <2> QED BY <1>3, <2>1, <2>2, EmptyTyped DEF Init, TypeOK, StatusTypes, SvcPlaces
<1>5. mig.pc = "off" /\ mig.exit = None /\ mig.held = FALSE /\ undo = None /\ kept = {}
  BY EndedTyped DEF Init
<1>6. OldSettings BY <1>2 DEF Init, OldSettings, Saved, SavedRows
<1>7. LockKept BY <1>5 DEF Init, LockKept, Locked, Placed
<1>8. CopyInStep /\ InPlace BY <1>5 DEF CopyInStep, InPlace, Placed
<1>9. KeptThere BY <1>5 DEF KeptThere
<1>10. Quiet BY <1>5 DEF Init, Quiet, Off
<1>11. OldDataKnown BY <1>5, <1>10, NoneAssumption DEF Init, OldDataKnown, Placed, Unmarked
<1>13. Untouched BY <1>5 DEF Init, Untouched
<1>12. NoneYet BY <1>5, <1>10 DEF Init, NoneYet, NobodyOpens, Quiet, Off
<1> QED BY <1>4, <1>6, <1>7, <1>8, <1>9, <1>11, <1>12, <1>13 DEF IInv

\* And every step keeps it.
LEMMA NextIInv == IInv /\ [Next]_vars => IInv'
BY TypeKept, SettingsKept, LockStays, StepsKept, InPlaceStays, KeptStays, OldDataStays,
   NoneYetStays, UntouchedStays DEF IInv

\* The invariant holds always.
LEMMA Invariant == Spec => []IInv
<1>1. Init => IInv BY InitIInv
<1>2. IInv /\ [Next]_vars => IInv' BY NextIInv
<1> QED BY <1>1, <1>2, PTL DEF Spec

\* What a service recorded is in the database whatever was merged over it and wherever the power
\* failed, and no service has a replaced file open (Commit, dblock, holdInUse).
THEOREM NothingIsLost == Spec => []NothingLost
<1>1. IInv => NothingLost BY DEF IInv, KeptThere, LockKept, NothingLost
<1> QED BY <1>1, Invariant, PTL

\* A service that has the database open, where this start's status says that the move is done or was
\* not needed, sees every height of the old data and settings no older (Plan, Prepare, Commit); a
\* status an earlier start left, which the Windows launcher could not replace, says nothing of it.
THEOREM OldDataArrives == Spec => []OldDataIsIn
<1>1. IInv => OldDataIsIn
  <2> SUFFICES ASSUME IInv, NEW s \in Services,
                      svc[s] = "open", status \in {"none", "done"}, pg.folder = "ok", unsaid # "now"
               PROVE  /\ \A k \in Keys : pg.rows[k] # NoUnit => View[k] # NoUnit
                      /\ View[Settings].saved >= pg.rows[Settings].saved
    BY DEF OldDataIsIn
  <2>1. Has(View) BY DEF IInv, OldDataKnown, Quiet, Off
  <2>2. pg.rows[Settings] # NoUnit /\ Settings \in Keys BY NoneApart DEF IInv, OldSettings, Keys
  <2>3. View[Settings] \in SavedRows BY <2>1, <2>2, ViewFacts DEF IInv, Has, RowSets
  <2> QED BY <2>1, <2>3 DEF Has
<1> QED BY <1>1, Invariant, PTL

\* A service makes an empty database only where the old data is gone, the user has chosen to go
\* without it (migstatus.Blocked, openSQLite), or the Windows launcher has gone on with a start it
\* could not record (recordStatus), as Umbrel's migrator never does.
THEOREM EmptyByChoice == Spec => NoEmptyStart
<1> DEFINE A == db = None /\ db' = Empty => pg.folder = "gone" \/ without \/ WentOn
<1>1. IInv /\ [Next]_vars => [A]_vars
  <2> SUFFICES ASSUME IInv, [Next]_vars, db = None, db' = Empty, pg.folder # "gone", ~without, ~WentOn
               PROVE  FALSE
    OBVIOUS
  <2>1. db' # None BY EmptyTyped, NoneApart
  <2>2. \A s \in Services : svc[s] \in {"off", "maintenance"}
    BY DEF IInv, NoneYet, Bare, NobodyOpens
  <2>3. CASE Replaced
    <3>1. pg.rows \in RowSets /\ View \in RowSets BY ViewFacts DEF IInv, TypeOK, OldTypes
    <3>2. Settings \in Keys /\ pg.rows[Settings] # NoUnit BY NoneApart DEF IInv, OldSettings, Keys
    <3>3. Empty[Settings] # NoUnit BY <2>3, <3>1, <3>2, MergedFacts DEF Replaced
    <3> QED BY <3>2, <3>3, EmptyTyped
  <2>4. CASE BroughtBack BY <2>4 DEF BroughtBack, IInv, InPlace, Placed
  <2> QED BY <2>1, <2>2, <2>3, <2>4, Seen DEF Seeing, SameRows, Wrote, MadeEmpty
<1> QED BY <1>1, Invariant, PTL DEF Spec, NoEmptyStart

\* A merge leaves a row the earlier version has not touched since the last one as the services made it,
\* but for a block they orphaned, in whose place the old data's other block may come (existingWins).
THEOREM WorkStays == Spec => WorkIsKept
<1> DEFINE A == mig.pc = "rename" /\ mig'.pc = "sync" /\ db # None =>
                  \A k \in Keys \ touched :
                      \/ db'[k] = View[k]
                      \/ k \in Heights /\ View[k].status = "orphaned" /\ db'[k].hash # View[k].hash
<1>1. IInv /\ [Next]_vars => [A]_vars
  <2> SUFFICES ASSUME IInv, [Next]_vars, mig.pc = "rename", mig'.pc = "sync", db # None,
                      NEW k \in Keys \ touched
               PROVE  \/ db'[k] = View[k]
                      \/ k \in Heights /\ View[k].status = "orphaned" /\ db'[k].hash # View[k].hash
    OBVIOUS
  <2>1. Rename BY Placing DEF Placed
  <2>2. db' = Merged(pg.rows, View) BY <2>1, RenameSees DEF Replaced
  <2>3. db'[k] = IF (IF k = Settings THEN settingsWin(pg.rows[k], View[k]) ELSE existingWins(pg.rows[k], View[k]))
                 THEN View[k] ELSE pg.rows[k]
    BY <2>2 DEF Merged
  <2>4. Stands(k, pg.rows[k], View[k]) BY DEF IInv, Untouched
  <2>5. k \in Heights => k # Settings BY HeightsAssumption
  <2> QED BY <2>3, <2>4, <2>5 DEF Stands
<1> QED BY <1>1, Invariant, PTL DEF Spec, WorkIsKept

=============================================================================
