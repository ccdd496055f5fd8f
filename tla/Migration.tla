----------------------------- MODULE Migration -----------------------------
(***************************************************************************)
(* The move of the earlier version's PostgreSQL data into forgesolo.db     *)
(* (internal/pgmigrate, internal/migstatus, internal/dblock,               *)
(* cmd/forge-solo-migrate, windows/launcher/migrate.go) beside the api and *)
(* the stratum that open it.  At each start the migrator plans, copies the *)
(* old data, merged with the database there, to a file beside it, and puts *)
(* that in the database's place; the services keep off while the move is   *)
(* failed and wait for the in-use lock.  The power may fail between any    *)
(* two steps, and the earlier version may run again between two starts.    *)
(***************************************************************************)
EXTENDS Integers, FiniteSets

CONSTANTS
    Services,      \* the programs that open the database: the api, the stratum
    Heights,       \* the heights of the ledger
    Hashes,        \* the blocks found at them
    FoundAt,       \* when each was found (created_at)
    Platforms,     \* of {"umbrel", "windows"}
    None,          \* no file, no status, no row
    MaxRecords,    \* bound: records the services and the earlier version write
    MaxFaults      \* bound: power cuts and failing steps

ASSUME FoundAtAssumption == \A x \in Hashes : FoundAt[x] \in Int

\* A database's rows: a unit by height, the block there and its credits, and the settings
\* (pool_config), of which only when they were saved is told apart.
Settings == "settings"
Keys   == Heights \cup {Settings}
NoUnit == [hash |-> None, status |-> None]
Status == {"pending", "confirmed", "orphaned"}
Units  == [hash : Hashes, status : Status]
Saved(n) == [saved |-> n]
Empty  == [k \in Keys |-> NoUnit]

ASSUME HeightsAssumption == IsFiniteSet(Heights) /\ Settings \notin Heights
ASSUME NoneAssumption ==
    /\ None \notin Hashes
    /\ None \notin {"ok", "held back", "failed", "deferred", "none", "done", "current"}
    /\ None \notin [Keys -> Units \cup {NoUnit} \cup [saved : Int]]

VARIABLES
    platform,      \* Umbrel's containers or the Windows launcher
    host,          \* off, or up
    db,            \* forgesolo.db, or None: its rows
    wal,           \* what its WAL holds
    tmp,           \* forgesolo.db.migrating, or None: its rows, those meant, what it is for
    undo,          \* what a power cut brings back of a rename not synced yet, or None
    marker,        \* postgres-migrated.json: none, or whether it names pg_control as it is now
    skip,          \* SKIP-POSTGRES-MIGRATION is there
    status,        \* the status file
    pg,            \* the old data: its rows, its folder, whether it was shut down cleanly
    mig,           \* the migrator: its place, the plan, its exclusive lock, pg_control as it read it
    svc,           \* each service
    started,       \* Umbrel: the containers Docker starts again with the host
    records, faults,
    kept,          \* history: the rows the services wrote
    without,       \* history: the user chose to go without the old data, now or before
    touched,       \* history: the rows of the old data no database has taken in yet
    unsaid         \* history: the Windows launcher went on with a status it could not write: never, now, before

files   == <<db, wal, tmp, undo, marker>>
recorded == <<status, unsaid>>
choices == <<skip, recorded>>
bounds  == <<records, faults>>
history == <<kept, without, touched>>
vars == <<platform, host, files, choices, pg, mig, svc, started, bounds, history>>

Ended == [pc |-> "off", action |-> None, held |-> FALSE, fresh |-> FALSE, read |-> None, exit |-> None]
NoCopy == [state |-> None, mode |-> None, written |-> Empty, rows |-> Empty, existing |-> None]

Init ==
    /\ platform \in Platforms /\ host = "off"
    /\ db = None /\ wal = Empty /\ tmp = NoCopy /\ undo = None /\ marker = None
    /\ skip = FALSE /\ status = None /\ unsaid = "never"
    /\ \E h \in Heights, x \in Hashes :
          pg = [rows |-> [Empty EXCEPT ![h] = [hash |-> x, status |-> "pending"], ![Settings] = Saved(0)],
                folder |-> "ok", clean |-> TRUE]
    /\ mig = Ended /\ svc = [s \in Services |-> "off"] /\ started = {}
    /\ records = 0 /\ faults = 0 /\ kept = {} /\ without = FALSE /\ touched = Keys

Faults(n) == faults + n <= MaxFaults /\ faults' = faults + n
Fault == Faults(1)
NoFault == Faults(0)

\* The rows a program that opens the database sees.
Overlay(file, log) == [k \in Keys |-> IF log[k] # NoUnit THEN log[k] ELSE file[k]]
View == IF db = None THEN Empty ELSE Overlay(db, wal)

\* The in-use lock's shared holders.
Holders == {s \in Services : svc[s] \in {"locked", "open", "stale"}}

\* TryExclusive by a step that does not hold the lock yet.
Busy == ~mig.held /\ Holders # {}

----------------------------------------------------------------------------
(* Merging: the copy's t and the database's s.                              *)

rank(u) == IF u.status = "pending" THEN 0 ELSE 1

existingWins(t, s) ==
    IF s = NoUnit \/ t = NoUnit THEN s # NoUnit
    ELSE IF t.hash = s.hash THEN rank(s) > rank(t)
    ELSE IF (t.status = "orphaned") # (s.status = "orphaned") THEN t.status = "orphaned"
    ELSE FoundAt[s.hash] > FoundAt[t.hash]

\* The settings saved last; the old data's on a tie.
settingsWin(t, s) == s # NoUnit /\ (t = NoUnit \/ s.saved > t.saved)

\* (mutant of Merged) the old data wins wherever it has the row.
MergedOldFirst(old, new) == [k \in Keys |-> IF old[k] = NoUnit THEN new[k] ELSE old[k]]

Merged(old, new) ==
    [k \in Keys |->
        IF (IF k = Settings THEN settingsWin(old[k], new[k]) ELSE existingWins(old[k], new[k]))
        THEN new[k] ELSE old[k]]

\* What a record makes of a height: a block found, a pending one judged, or another block over one
\* orphaned or superseded.
Grows(u, v) ==
    \/ u = NoUnit /\ v.status = "pending"
    \/ u # NoUnit /\ u.hash = v.hash /\ u.status = "pending" /\ v.status # "pending"
    \/ u # NoUnit /\ FoundAt[v.hash] > FoundAt[u.hash] /\ v.status = "pending" /\ u.status # "confirmed"

\* A block is found once: neither the services nor the earlier version find one that is recorded.
New(x) == \A h \in Heights : x # pg.rows[h].hash /\ x # View[h].hash

\* A row written to rows: a height's, or the settings saved from the dashboard.
Writes(rows, k, row) ==
    \/ k = Settings /\ row = Saved(records + 1)
    \/ /\ k \in Heights /\ row \in Units /\ Grows(rows[k], row)
       /\ row.hash = rows[k].hash \/ New(row.hash)

Rows == Units \cup {Saved(records + 1)}

----------------------------------------------------------------------------
(* The host, the earlier version and the user.                              *)

Off == [s \in Services |-> "off"]

\* stopLeftovers first: what an earlier launcher left is ended, if it ends in time.
Boot ==
    /\ host = "off" /\ host' = "up"
    /\ mig' = [Ended EXCEPT !.pc = "plan"]
    /\ svc' = Off \/ svc' = svc
    /\ UNCHANGED <<platform, files, choices, pg, started, bounds, history>>

\* The Windows launcher dies alone; what it started goes on, but for the migrator, which the next
\* one ends before anything else, and the old data's server, which it stops.
LauncherDies ==
    /\ platform = "windows" /\ host = "up" /\ Fault
    /\ host' = "off" /\ mig' = Ended
    /\ UNCHANGED <<platform, files, choices, pg, svc, started, records, history>>

Committing == mig.pc \in {"rename", "sync", "mark", "done"}

\* A clean end: the services close the database, which folds its WAL in, and a move not being
\* committed is interrupted, its copy removed and the old server stopped.
Shutdown ==
    /\ host = "up" /\ ~Committing
    /\ host' = "off" /\ mig' = Ended /\ svc' = Off
    /\ IF \E s \in Services : svc[s] = "open" THEN db' = View /\ wal' = Empty ELSE UNCHANGED <<db, wal>>
    /\ tmp' = IF tmp.state = "partial" THEN NoCopy ELSE tmp
    /\ pg' = [pg EXCEPT !.clean = pg.folder = "ok"]
    /\ UNCHANGED <<platform, undo, marker, choices, started, bounds, history>>

PowerCut ==
    /\ host = "up" /\ Fault
    /\ host' = "off" /\ mig' = Ended /\ svc' = Off
    /\ \/ UNCHANGED <<db, tmp>>
       \/ undo # None /\ db' = undo.db /\ tmp' = undo.tmp
    /\ undo' = None
    /\ touched' = IF db' # db THEN undo.touched ELSE touched
    /\ UNCHANGED <<platform, wal, marker, choices, pg, started, records, kept, without>>

\* 1.0.12 installed again: it mines, and records in PostgreSQL.
OldVersionRuns ==
    /\ host = "off" /\ svc = Off /\ pg.folder = "ok" /\ records < MaxRecords
    /\ records' = records + 1
    /\ \E k \in Keys, row \in Rows :
          /\ Writes(pg.rows, k, row)
          /\ pg' = [pg EXCEPT !.rows[k] = row, !.clean = TRUE]
          /\ touched' = touched \cup {k}
    /\ marker' = IF marker = None THEN None ELSE "other"
    /\ started' = {}
    /\ UNCHANGED <<platform, host, db, wal, tmp, undo, choices, mig, svc, faults, kept, without>>

\* The old folder is deleted, or its disk fails.
FolderBreaks ==
    /\ host = "off" /\ pg.folder = "ok" /\ Fault
    /\ \E f \in {"gone", "damaged"} : pg' = [pg EXCEPT !.folder = f]
    /\ UNCHANGED <<platform, host, files, choices, mig, svc, started, records, history>>

\* saveOldDataChoice: while the move is failed, or the old data was left out.
saveOldDataChoice ==
    /\ \E s \in Services : svc[s] = "maintenance" \/ (svc[s] = "open" /\ status \in {"failed", "skipped"})
    /\ skip' = ~skip /\ without' = TRUE
    /\ UNCHANGED <<platform, host, files, recorded, pg, mig, svc, started, bounds, kept, touched>>

----------------------------------------------------------------------------
(* A service.                                                               *)

Goto(s, place) == svc' = [svc EXCEPT ![s] = place]

\* Compose starts the services once the migrator has ended with 0, and Docker those started before
\* along with it; the Windows launcher after prepareDatabase, whatever came of it.
MayStart(s) ==
    \/ platform = "umbrel" /\ s \in started
    \/ platform = "umbrel" /\ mig.pc = "off" /\ mig.exit = "ok"
    \/ platform = "windows" /\ mig.pc = "off" /\ mig.exit # None

\* (mutant of ServiceStarts) the status file is not looked at.
ServiceStartsAnyway(s) ==
    /\ host = "up" /\ svc[s] = "off" /\ MayStart(s)
    /\ Goto(s, "waiting") /\ started' = started \cup {s}
    /\ UNCHANGED <<platform, host, files, choices, pg, mig, bounds, history>>

Blocked == status = "failed"

\* What a program looks at first of all.
ServiceStarts(s) ==
    /\ host = "up" /\ svc[s] = "off" /\ MayStart(s)
    /\ Goto(s, IF Blocked THEN "maintenance" ELSE "waiting")
    /\ started' = started \cup {s}
    /\ UNCHANGED <<platform, host, files, choices, pg, mig, bounds, history>>

\* watch, waitOutFailedMove: the program ends, to be started again.
LeaveMaintenance(s) ==
    /\ svc[s] = "maintenance" /\ ~Blocked
    /\ Goto(s, "off")
    /\ UNCHANGED <<platform, host, files, choices, pg, mig, started, bounds, history>>

\* holdInUse: waits while the migrator holds the lock.
holdInUse(s) ==
    /\ svc[s] = "waiting" /\ ~mig.held /\ Goto(s, "locked")
    /\ UNCHANGED <<platform, host, files, choices, pg, mig, started, bounds, history>>

\* openSQLite: opens or makes the file, or fails and gives the lock back until the next try.
openSQLite(s) ==
    /\ svc[s] = "locked"
    /\ \/ Goto(s, "open") /\ db' = IF db = None THEN Empty ELSE db
       \/ Goto(s, "waiting") /\ UNCHANGED db
    /\ UNCHANGED <<platform, host, wal, tmp, undo, marker, choices, pg, mig, started, bounds, history>>

Record(s) ==
    /\ svc[s] = "open" /\ records < MaxRecords
    /\ records' = records + 1
    /\ \E k \in Keys, row \in Rows :
          Writes(View, k, row) /\ wal' = [wal EXCEPT ![k] = row] /\ kept' = kept \cup {k}
    /\ UNCHANGED <<platform, host, db, tmp, undo, marker, choices, pg, mig, svc, started, faults, without, touched>>

\* CloseDB: the last connection to close folds the WAL in.
Close(s) ==
    /\ svc[s] \in {"waiting", "locked", "open"} /\ Goto(s, "off")
    /\ IF svc[s] = "open" /\ \A o \in Services \ {s} : svc[o] # "open"
       THEN db' = View /\ wal' = Empty ELSE UNCHANGED <<db, wal>>
    /\ UNCHANGED <<platform, host, tmp, undo, marker, choices, pg, mig, started, bounds, history>>

Crash(s) ==
    /\ svc[s] = "open" /\ Fault /\ Goto(s, "off")
    /\ UNCHANGED <<platform, host, files, choices, pg, mig, started, records, history>>

----------------------------------------------------------------------------
(* The migrator: Run on Umbrel, moveData with its prepare and commit on     *)
(* Windows.                                                                 *)

\* run does it all in one process and keeps its lock; the launcher runs prepare and commit.
OneProcess == platform = "umbrel"

At(pc) == host = "up" /\ mig.pc = pc
Step(pc) == mig' = [mig EXCEPT !.pc = pc]
End(exit) == mig' = [Ended EXCEPT !.exit = exit]

\* Run's record, n steps having failed: a status file that cannot be written holds the services back.
RunRecords(st, n) ==
    /\ \/ status' = st /\ End("ok") /\ Faults(n)
       \/ End("held back") /\ Faults(n + 1) /\ UNCHANGED status
    /\ UNCHANGED unsaid

\* The status file says what this start came to.
Said == unsaid' = IF unsaid = "now" THEN "before" ELSE unsaid

\* A fresh install gets no file.
Needless(st) == st = "none" /\ status = None

\* The launcher's: one that cannot be written is logged, and the start goes on by the file there.
LauncherRecords(st, n) ==
    /\ End("ok")
    /\ \/ status' = (IF Needless(st) THEN None ELSE st) /\ Faults(n)
          /\ Said
       \/ status # st /\ ~Needless(st) /\ Faults(n + 1) /\ unsaid' = "now" /\ UNCHANGED status

Outcome(st, n) == IF OneProcess THEN RunRecords(st, n) ELSE LauncherRecords(st, n)

\* The launcher has gone on without saying what came of a start.
WentOn == ~OneProcess /\ unsaid # "never"

\* (mutant of Plan) a marker is enough.
PlanByMarker ==
    IF skip THEN "skipped"
    ELSE IF pg.folder = "gone" THEN "none"
    ELSE IF db # None /\ marker # None
         THEN (IF pg.folder = "damaged" THEN "degraded" ELSE "none")
    ELSE IF pg.folder = "damaged" THEN "failed"
    ELSE IF db = None THEN "move" ELSE "merge"

Plan ==
    IF skip THEN "skipped"
    ELSE IF pg.folder = "gone" THEN "none"
    ELSE IF db # None /\ marker # None
         THEN (IF pg.folder = "damaged" THEN "degraded" ELSE IF marker = "current" THEN "none" ELSE "merge")
    ELSE IF pg.folder = "damaged" THEN "failed"
    ELSE IF db = None THEN "move" ELSE "merge"

\* The launcher's own, from the files alone, or None where only the migrator can tell.
quickPlan ==
    IF skip THEN "skipped"
    ELSE IF pg.folder = "gone" THEN "none"
    ELSE IF db = None \/ marker = None THEN None
    ELSE IF pg.folder = "damaged" THEN "degraded"
    ELSE IF marker = "current" THEN "none" ELSE None

\* The launcher asks the migrator, which may not run.
CannotPlan == platform = "windows" /\ quickPlan = None /\ Outcome("failed", 1)

Decision == IF platform = "windows" /\ quickPlan # None THEN quickPlan ELSE Plan

Start ==
    /\ At("plan")
    /\ \/ Decision \in {"move", "merge"} /\ NoFault /\ UNCHANGED recorded
          /\ mig' = [mig EXCEPT !.pc = "lock", !.action = Decision]
       \/ Decision \notin {"move", "merge"} /\ Outcome(Decision, 0)
       \/ CannotPlan
    /\ UNCHANGED <<platform, host, files, skip, pg, svc, started, records, history>>

\* exclusive: nobody has the file open, and a crashed program's WAL is folded in.
Fold == IF db # None THEN db' = View /\ wal' = Empty ELSE UNCHANGED <<db, wal>>

\* Run takes the in-use lock first, and keeps it; busy is deferred.
TakeLock ==
    /\ At("lock")
    /\ IF OneProcess /\ Busy THEN Outcome("deferred", 0) /\ UNCHANGED <<db, wal>>
       ELSE /\ NoFault /\ UNCHANGED recorded
            /\ mig' = [mig EXCEPT !.pc = "server", !.held = OneProcess]
            /\ IF OneProcess THEN Fold ELSE UNCHANGED <<db, wal>>
    /\ UNCHANGED <<platform, host, tmp, undo, marker, skip, pg, svc, started, records, history>>

\* The old data's server starts, which rewrites pg_control.
StartServer ==
    /\ At("server")
    /\ \/ Step("prepare") /\ NoFault /\ UNCHANGED recorded
       \/ Outcome("failed", 1)
    /\ pg' = [pg EXCEPT !.clean = FALSE]
    /\ marker' = IF marker = None THEN None ELSE "other"
    /\ UNCHANGED <<platform, host, db, wal, tmp, undo, skip, svc, started, records, history>>

\* What a merge's copy must still be laid over.
fileIdentity == View

\* The database for a merge, held until the copy is made.
openExisting ==
    /\ Fold
    /\ mig' = [mig EXCEPT !.pc = "copy", !.held = TRUE, !.read = fileIdentity]

\* Prepare up to its copy: openExisting for a merge, a move refused where a database appeared, and
\* what an earlier try left removed.
Prepare ==
    /\ At("prepare")
    /\ IF mig.action = "move" /\ db # None
       THEN mig' = [mig EXCEPT !.pc = "stop", !.exit = "failed"] /\ UNCHANGED <<db, wal, tmp>>
       ELSE IF mig.action = "merge" /\ Busy
       THEN mig' = [mig EXCEPT !.pc = "stop", !.exit = "deferred"] /\ UNCHANGED <<db, wal, tmp>>
       ELSE /\ IF mig.action = "merge" THEN openExisting ELSE Step("copy") /\ UNCHANGED <<db, wal>>
            /\ tmp' = [NoCopy EXCEPT !.state = "partial"]
    /\ UNCHANGED <<platform, host, undo, marker, choices, pg, svc, started, bounds, history>>

\* A failed copy is removed, and the old database given back.
removeMigrating ==
    /\ tmp' = NoCopy
    /\ mig' = [mig EXCEPT !.pc = "stop", !.held = OneProcess, !.exit = "failed"]

\* One row is missing, or is another.
Wrong(rows) ==
    LET there == {k \in Keys : rows[k] # NoUnit}
        lost  == {[rows EXCEPT ![k] = NoUnit] : k \in there}
        other == {[rows EXCEPT ![h].status = st] : h \in there \ {Settings}, st \in Status}
    IN  (lost \cup other \cup {[rows EXCEPT ![Settings] = Saved(-1)]}) \ {rows}

\* The old rows converted, or some converted wrongly.
convertRow(rows) == {rows} \cup Wrong(rows)

\* The converted rows as they are stored, or some stored wrongly.
write(rows) == {rows} \cup Wrong(rows)

\* plan refuses a column of a type it does not know; a write, or the source, fails.
CopyFails == Fault /\ removeMigrating

Copies ==
    /\ \E written \in convertRow(pg.rows) : \E stored \in write(written) :
          /\ written = pg.rows \/ stored = written
          /\ IF stored = pg.rows THEN NoFault ELSE Fault
          /\ tmp' = [tmp EXCEPT !.written = written, !.rows = stored]
    /\ Step("verify")

Copy ==
    /\ At("copy")
    /\ Copies \/ CopyFails
    /\ UNCHANGED <<platform, host, db, wal, undo, marker, choices, pg, svc, started, records, history>>

Present(rows) == {k \in Keys : rows[k] # NoUnit}

\* The rows of the two databases are as many, and those stored are those written.
verifyCount  == Cardinality(Present(tmp.rows)) = Cardinality(Present(pg.rows))
verifyStored == tmp.rows = tmp.written

\* The same blocks, at the same heights.
verifyKeys ==
    /\ Present(tmp.rows) = Present(pg.rows)
    /\ \A h \in Heights : tmp.rows[h].hash = pg.rows[h].hash

\* The same sums for each status: every block's credits come to the same.
Sum(rows, st) == Cardinality({h \in Heights : rows[h].status = st})
verifySatoshis == \A st \in Status : Sum(tmp.rows, st) = Sum(pg.rows, st)

verifySettings == tmp.rows[Settings] = pg.rows[Settings]

\* Each check of the copy against the old database.
verifyCopy ==
    /\ At("verify")
    /\ IF verifyCount /\ verifyStored /\ verifyKeys /\ verifySatoshis /\ verifySettings
       THEN Step("merge") /\ UNCHANGED tmp ELSE removeMigrating
    /\ UNCHANGED <<platform, host, db, wal, undo, marker, choices, pg, svc, started, bounds, history>>

\* The rows chosen are written over the copy, a height of them wrongly perhaps.
Merge ==
    /\ At("merge")
    /\ LET rows == IF mig.action = "merge" THEN Merged(tmp.written, mig.read) ELSE tmp.written
       IN  \/ NoFault /\ tmp' = [tmp EXCEPT !.rows = rows]
           \/ /\ mig.action = "merge" /\ Fault
              /\ \E h \in Heights : rows[h] # NoUnit /\ tmp' = [tmp EXCEPT !.rows = [rows EXCEPT ![h] = NoUnit]]
    /\ Step("check")
    /\ UNCHANGED <<platform, host, db, wal, undo, marker, choices, pg, svc, started, records, history>>

\* Every height of either side is the chosen one's; the settings are not compared.
verifyMerge ==
    /\ At("check")
    /\ IF mig.action = "merge" /\ \E h \in Heights : tmp.rows[h] # Merged(tmp.written, mig.read)[h]
       THEN removeMigrating
       ELSE Step("finish") /\ tmp' = [tmp EXCEPT !.written = Empty]
    /\ UNCHANGED <<platform, host, db, wal, undo, marker, choices, pg, svc, started, bounds, history>>

\* migration_meta says what was prepared from what, and the copy is synced, or fails.
Finish ==
    /\ At("finish")
    /\ \/ /\ NoFault
          /\ tmp' = [tmp EXCEPT !.state = "prepared", !.mode = mig.action, !.existing = mig.read]
          /\ mig' = [mig EXCEPT !.pc = "stop", !.held = OneProcess]
       \/ Fault /\ removeMigrating
    /\ UNCHANGED <<platform, host, db, wal, undo, marker, choices, pg, svc, started, records, history>>

\* The server is stopped, whatever came of the copy; stopped uncleanly ends the move.
StopServer ==
    /\ At("stop")
    /\ \/ /\ pg' = [pg EXCEPT !.clean = TRUE]
          /\ IF mig.exit = None THEN Step("commit") /\ NoFault /\ UNCHANGED recorded ELSE Outcome(mig.exit, 0)
       \/ UNCHANGED pg /\ Outcome(IF mig.exit = None THEN "failed" ELSE mig.exit, 1)
    /\ UNCHANGED <<platform, host, files, skip, svc, started, records, history>>

Refused ==
    \/ ~pg.clean \/ tmp.state # "prepared"
    \/ tmp.mode = "move" /\ db # None
    \/ tmp.mode = "merge" /\ tmp.existing # fileIdentity

\* (mutant of CommitStarts) a merge's database is not compared with what was merged.
CommitUnchecked ==
    /\ At("commit")
    /\ IF Busy THEN Outcome("deferred", 0) /\ UNCHANGED <<db, wal>>
       ELSE /\ Fold
            /\ IF ~pg.clean \/ tmp.state # "prepared" THEN Outcome("failed", 0)
               ELSE /\ mig' = [mig EXCEPT !.pc = "rename", !.held = TRUE, !.fresh = TRUE]
                    /\ NoFault /\ UNCHANGED recorded
    /\ UNCHANGED <<platform, host, tmp, undo, marker, skip, pg, svc, started, records, history>>

\* Commit's lock and its refusals; the before-merge copy, the removal of the old WAL and the rename
\* may fail, and nothing is replaced.
CommitStarts ==
    /\ At("commit")
    /\ IF Busy THEN Outcome("deferred", 0) /\ UNCHANGED <<db, wal>>
       ELSE /\ Fold
            /\ \/ ~Refused /\ mig' = [mig EXCEPT !.pc = "rename", !.held = TRUE, !.fresh = TRUE]
                  /\ NoFault /\ UNCHANGED recorded
               \/ Outcome("failed", IF Refused THEN 0 ELSE 1)
    /\ UNCHANGED <<platform, host, tmp, undo, marker, skip, pg, svc, started, records, history>>

\* The before-merge copy, the old WAL's removal and the rename.
Rename ==
    /\ At("rename") /\ Step("sync")
    /\ db' = tmp.rows /\ wal' = Empty /\ tmp' = NoCopy
    /\ undo' = IF platform = "umbrel" THEN [db |-> db, tmp |-> tmp, touched |-> touched] ELSE None
    /\ svc' = [s \in Services |-> IF svc[s] = "open" THEN "stale" ELSE svc[s]]
    /\ touched' = {}
    /\ UNCHANGED <<platform, host, marker, choices, pg, started, bounds, kept, without>>

Sync ==
    /\ At("sync") /\ Step("mark") /\ undo' = None
    /\ UNCHANGED <<platform, host, db, wal, tmp, marker, choices, pg, svc, started, bounds, history>>

\* postgres-migrated.json; unwritten, the database is there without it.
WriteMarker ==
    /\ At("mark")
    /\ \/ /\ Step("done") /\ NoFault /\ UNCHANGED recorded
          /\ marker' = IF mig.fresh THEN "current" ELSE "other"
       \/ Outcome("failed", 1) /\ UNCHANGED marker
    /\ UNCHANGED <<platform, host, db, wal, tmp, undo, skip, pg, svc, started, records, history>>

\* The status file says done; where it does not take that, or the files cannot be given to their
\* user, what failed is recorded: of Run's move, that it starts on the database now there.
WriteDone ==
    /\ At("done")
    /\ \/ status' = "done" /\ End("ok") /\ NoFault /\ Said
       \/ Outcome(IF OneProcess /\ mig.action = "move" THEN "degraded" ELSE "failed", 1)
    /\ UNCHANGED <<platform, host, files, skip, pg, svc, started, records, history>>

----------------------------------------------------------------------------
Service(s) ==
    \/ ServiceStarts(s) \/ LeaveMaintenance(s) \/ holdInUse(s) \/ openSQLite(s)
    \/ Record(s) \/ Close(s) \/ Crash(s)

Migrator ==
    \/ Start \/ TakeLock \/ StartServer \/ Prepare \/ Copy \/ verifyCopy \/ Merge \/ verifyMerge
    \/ Finish \/ StopServer \/ CommitStarts \/ Rename \/ Sync \/ WriteMarker \/ WriteDone

Next ==
    \/ Boot \/ Shutdown \/ PowerCut \/ LauncherDies \/ OldVersionRuns \/ FolderBreaks \/ saveOldDataChoice
    \/ \E s \in Services : Service(s)
    \/ Migrator

Spec == Init /\ [][Next]_vars

----------------------------------------------------------------------------
\* What a service recorded is never lost again, whatever is merged over the database and wherever
\* the power fails (Commit: "a crash before the rename leaves the old state, and one after it a
\* database without a marker"), and no program has the replaced file open, where what it writes
\* would be lost (dblock, holdInUse).
NothingLost ==
    /\ \A k \in kept : View[k] # NoUnit
    /\ \A s \in Services : svc[s] # "stale"

\* Where the status says there was nothing to move or the move is done, and the old data is whole,
\* a service that has the database open sees every height of it and settings no older than its, also
\* when the earlier version ran again in between, or rows came out wrong (Plan, verifyCopy); save that
\* the Windows launcher goes on by an older status where it could not write this start's (recordStatus).
OldDataIsIn ==
    \A s \in Services :
        svc[s] = "open" /\ status \in {"none", "done"} /\ pg.folder = "ok" /\ unsaid # "now"
        => /\ \A k \in Keys : pg.rows[k] # NoUnit => View[k] # NoUnit
           /\ View[Settings].saved >= pg.rows[Settings].saved

\* A service makes an empty database only where there is nothing to bring in, or the user chose to
\* go without it, now or before (migstatus.Blocked), or, on Windows, where a start has gone on with
\* a failed move it could not record (recordStatus); Umbrel's services are held back then.
NoEmptyStart ==
    [][db = None /\ db' = Empty => \/ pg.folder = "gone" \/ without
                                  \/ WentOn]_vars

\* A merge leaves every row the earlier version has not touched since the last one as the services
\* made it: their work since is not undone by the same old rows merged again, save that a block they
\* orphaned gives way to the old data's other block, which is then judged again.
WorkIsKept ==
    [][mig.pc = "rename" /\ mig'.pc = "sync" /\ db # None =>
          \A k \in Keys \ touched :
              \/ db'[k] = View[k]
              \/ k \in Heights /\ View[k].status = "orphaned" /\ db'[k].hash # View[k].hash]_vars

=============================================================================
