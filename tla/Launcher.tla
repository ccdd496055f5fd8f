------------------------------ MODULE Launcher ------------------------------
(***************************************************************************)
(* The Windows launcher (windows/launcher): the start that brings up the   *)
(* migrator, the nodes, the API and the miner; the goroutines that start a *)
(* program again when it exits on its own or could not start; Restart      *)
(* Mining and Try Again; and the stop, for Quit or a closing session.      *)
(* Each acts on its own, under mu only while a program is started, taken   *)
(* out of procs, or found to have exited.                                  *)
(***************************************************************************)
EXTENDS Integers, FiniteSets

CONSTANTS
    Nodes,         \* of {"bch2", "aux1175"}: treated alike
    Unsteady,      \* bound: the programs that may exit on their own
    MaxOwnExits,   \* bound: how often they do
    MaxFailures,   \* bound: starts that fail
    MaxClicks      \* bound: clicks on Restart Mining

ASSUME NodesAssumption == Nodes \subseteq {"bch2", "aux1175"}

Programs   == Nodes \cup {"migrate", "api", "stratum"}
Supervised == Programs \ {"migrate"}

VARIABLES
    boot,          \* where the start is
    nodesLeft,     \* the nodes it has not started
    offered,       \* what Try Again does now
    dashboardOpen, \* the dashboard is served
    minerDue,      \* the start has come to the miner
    run,           \* procs: nothing, a program that runs, or one that has exited and is still there
    leaving,       \* the programs taken out of procs that still run, by who stops them
    sleeping,      \* the goroutines waiting to start a program again
    retrying,      \* the programs tried again until they start
    reindex,       \* the nodes whose pending start is with -reindex
    repaired,      \* the nodes already started so, or about to be
    restart,       \* Restart Mining
    stopping,      \* no program starts any more
    quit,          \* the stop
    forced,        \* the stop is for a closing session
    todo,          \* the programs it has not come to
    session,       \* Windows: open, asking to end, and its answer
    ownExits, failures, clicks

starter == <<boot, nodesLeft, offered, dashboardOpen, minerDue>>
again   == <<sleeping, retrying, reindex, repaired>>
stop    == <<quit, forced, todo>>
limits  == <<ownExits, failures, clicks>>
launcherVars == <<starter, run, leaving, again, restart, stopping, stop, session, limits>>

LauncherInit ==
    /\ boot = "checks" /\ nodesLeft = Nodes /\ offered = "nothing" /\ dashboardOpen = FALSE /\ minerDue = FALSE
    /\ run = [k \in Programs |-> "none"] /\ leaving = [k \in Programs |-> {}]
    /\ sleeping = [k \in Programs |-> 0] /\ retrying = {} /\ reindex = {} /\ repaired = {}
    /\ restart = "idle" /\ stopping = FALSE /\ quit = "no" /\ forced = FALSE /\ todo = Programs /\ session = "open"
    /\ ownExits = 0 /\ failures = 0 /\ clicks = 0

Alive == quit \notin {"exited", "relaunched"}
StartFault == failures < MaxFailures /\ failures' = failures + 1
NoStartFault == failures' = failures

----------------------------------------------------------------------------
(* Starting a program: startTracked under mu, and what its callers make of  *)
(* its answer.                                                              *)

\* (mutant of Starts) whether the stop has begun is not looked at again under mu.
StartsLate(k) == run[k] = "none" /\ run' = [run EXCEPT ![k] = "runs"]

Starts(k) == ~stopping /\ run[k] = "none" /\ run' = [run EXCEPT ![k] = "runs"]

\* errStopping, errStarted.
NotStarted(k) == (stopping \/ run[k] # "none") /\ UNCHANGED run

\* The program cannot be started (an antivirus holds it, say).
CannotStart(k) == ~stopping /\ run[k] = "none" /\ UNCHANGED run /\ StartFault

\* (mutant of KeepTrying) a start that failed is left at that.
KeepTryingNot(k) == UNCHANGED retrying

\* keepStarting, as a background loop; one there already goes on alone.
KeepTrying(k) == retrying' = retrying \cup {k}

startOrKeepTrying(k) ==
    /\ \/ (Starts(k) \/ NotStarted(k)) /\ NoStartFault /\ UNCHANGED retrying
       \/ CannotStart(k) /\ KeepTrying(k)
    /\ UNCHANGED <<sleeping, reindex, repaired>>

----------------------------------------------------------------------------
(* Programs exit.                                                           *)

\* A crash, or a program that ends on an error; the migrator when it is done.
Crashes(k) ==
    /\ run[k] = "runs"
    /\ IF k = "migrate" THEN UNCHANGED ownExits ELSE k \in Unsteady /\ ownExits < MaxOwnExits /\ ownExits' = ownExits + 1
    /\ run' = [run EXCEPT ![k] = "died"]
    /\ UNCHANGED <<starter, leaving, again, restart, stopping, stop, session, failures, clicks>>

\* One that was asked to stop does, or is killed at the end of its grace.
Ends(k, who) ==
    /\ who \in leaving[k]
    /\ leaving' = [leaving EXCEPT ![k] = @ \ {who}]
    /\ UNCHANGED <<starter, run, again, restart, stopping, stop, session, limits>>

\* What a node wrote as it ran: that its chain data is damaged, or not.
damagedChain(k) == IF k \in Nodes THEN BOOLEAN ELSE {FALSE}

\* repairOnce: chain data the node says is damaged is rebuilt once in a run.
repairOnce(k) ==
    /\ reindex' = IF k \in repaired THEN reindex ELSE reindex \cup {k}
    /\ repaired' = repaired \cup {k}

\* Its exit is not the launcher's doing: it is taken out of procs, and a goroutine waits.
exitedOnItsOwn(k) ==
    /\ Alive /\ run[k] = "died" /\ ~stopping
    /\ run' = [run EXCEPT ![k] = "none"]
    /\ sleeping' = IF k \in Supervised THEN [sleeping EXCEPT ![k] = @ + 1] ELSE sleeping
    /\ \E says \in damagedChain(k) :
          IF says THEN repairOnce(k) ELSE UNCHANGED <<reindex, repaired>>
    /\ UNCHANGED <<starter, leaving, retrying, restart, stopping, stop, session, limits>>

\* A node's start that repairOnce made is with -reindex, until it has run so.
Rebuilds(k) == reindex' = IF run'[k] # run[k] THEN reindex \ {k} ELSE reindex

\* exitedOnItsOwn after its wait.
StartAgain(k) ==
    /\ Alive /\ sleeping[k] > 0
    /\ sleeping' = [sleeping EXCEPT ![k] = @ - 1]
    /\ \/ (Starts(k) \/ NotStarted(k)) /\ NoStartFault /\ UNCHANGED retrying
       \/ CannotStart(k) /\ KeepTrying(k)
    /\ Rebuilds(k)
    /\ UNCHANGED <<starter, leaving, repaired, restart, stopping, stop, session, ownExits, clicks>>

\* The loop's next try.
keepStarting(k) ==
    /\ Alive /\ k \in retrying
    /\ \/ (Starts(k) \/ NotStarted(k)) /\ NoStartFault /\ retrying' = retrying \ {k}
       \/ CannotStart(k) /\ UNCHANGED retrying
    /\ Rebuilds(k)
    /\ UNCHANGED <<starter, leaving, sleeping, repaired, restart, stopping, stop, session, ownExits, clicks>>

----------------------------------------------------------------------------
(* boot.                                                                    *)

Booting(at) == Alive /\ boot = at
rest == <<leaving, restart, stopping, stop, session, ownExits, clicks>>

\* Another program listens on a required port, or Windows keeps it for itself.
portTaken == StartFault

\* checkPublicPorts: a required port that is taken holds up the start.
checkPorts ==
    /\ Booting("checks")
    /\ \/ boot' = "database" /\ NoStartFault /\ UNCHANGED offered
       \/ portTaken /\ boot' = "failed" /\ offered' = "start"
    /\ UNCHANGED <<nodesLeft, dashboardOpen, minerDue, run, again, rest>>

\* prepareDatabase: nothing to do, or the migrator's two steps, prepare and commit.
PrepareDatabase ==
    /\ Booting("database")
    /\ \/ boot' = "nodes" /\ NoStartFault /\ UNCHANGED run
       \/ Starts("migrate") /\ boot' = "prepare" /\ NoStartFault
       \/ NotStarted("migrate") /\ boot' = "nodes" /\ NoStartFault
       \/ CannotStart("migrate") /\ boot' = "nodes"
    /\ UNCHANGED <<nodesLeft, offered, dashboardOpen, minerDue, again, rest>>

MigratorGone == run["migrate"] # "runs" /\ leaving["migrate"] = {}

\* runMigrator's end: it takes the program that has exited out of procs itself, for the next step
\* may start before exitedOnItsOwn comes to it.
runMigrator ==
    /\ boot \in {"prepare", "committing"} /\ Alive /\ MigratorGone
    /\ run' = [run EXCEPT !["migrate"] = "none"]
    /\ boot' = IF boot = "prepare" THEN "commit" ELSE "nodes"
    /\ UNCHANGED <<nodesLeft, offered, dashboardOpen, minerDue, again, rest, failures>>

CommitMove ==
    /\ Booting("commit")
    /\ \/ Starts("migrate") /\ boot' = "committing" /\ NoStartFault
       \/ NotStarted("migrate") /\ boot' = "nodes" /\ NoStartFault
       \/ CannotStart("migrate") /\ boot' = "nodes"
    /\ UNCHANGED <<nodesLeft, offered, dashboardOpen, minerDue, again, rest>>

\* One program of the start, and the next step, or none once the stop has begun.
BootStarts(k, next) ==
    /\ IF stopping THEN boot' = "over" /\ UNCHANGED <<run, again, failures>>
       ELSE startOrKeepTrying(k) /\ boot' = next
    /\ UNCHANGED <<offered, dashboardOpen, minerDue, rest>>

startNodes ==
    /\ Booting("nodes")
    /\ \E n \in nodesLeft :
          /\ nodesLeft' = nodesLeft \ {n}
          /\ BootStarts(n, IF nodesLeft = {n} THEN "api" ELSE "nodes")

BootAPI == Booting("api") /\ BootStarts("api", "dashboard") /\ UNCHANGED nodesLeft

\* Another program may hold the dashboard's port.
ServeDashboard ==
    \/ dashboardOpen' = TRUE /\ NoStartFault /\ UNCHANGED offered
    \/ StartFault /\ offered' = "dashboard" /\ UNCHANGED dashboardOpen

openDashboard ==
    /\ Booting("dashboard")
    /\ IF stopping THEN boot' = "over" /\ UNCHANGED <<offered, dashboardOpen, failures>>
       ELSE boot' = "rpc" /\ ServeDashboard
    /\ UNCHANGED <<nodesLeft, minerDue, run, again, rest>>

\* The nodes answer, or the wait for them is over.
minerStart ==
    /\ Booting("rpc")
    /\ boot' = IF stopping THEN "over" ELSE "miner"
    /\ minerDue' = ~stopping
    /\ UNCHANGED <<nodesLeft, offered, dashboardOpen, run, again, rest, failures>>

BootMiner ==
    /\ Booting("miner") /\ boot' = "over"
    /\ startOrKeepTrying("stratum")
    /\ UNCHANGED <<nodesLeft, offered, dashboardOpen, minerDue, rest>>

tryAgain ==
    /\ Alive /\ offered # "nothing" /\ offered' = "nothing"
    /\ IF stopping THEN UNCHANGED <<boot, dashboardOpen>>
       ELSE IF offered = "start" THEN boot' = "checks" /\ UNCHANGED dashboardOpen
       ELSE dashboardOpen' = TRUE /\ UNCHANGED boot
    /\ UNCHANGED <<nodesLeft, minerDue, run, again, rest, failures>>

----------------------------------------------------------------------------
(* Restart Mining.                                                          *)

\* untrack: the program is taken out of procs, and still runs until it stops.
untrack(k, who) ==
    /\ run' = [run EXCEPT ![k] = "none"]
    /\ leaving' = IF run[k] = "runs" THEN [leaving EXCEPT ![k] = @ \cup {who}] ELSE leaving

Click ==
    /\ Alive /\ clicks < MaxClicks /\ clicks' = clicks + 1
    /\ restart' = IF restart # "idle" THEN restart
                  ELSE IF run["stratum"] # "none" THEN "asking"
                  ELSE IF minerDue THEN "start" ELSE "idle"
    /\ UNCHANGED <<starter, run, leaving, again, stopping, stop, session, ownExits, failures>>

RestartAsks ==
    /\ Alive /\ restart = "asking" /\ restart' = "waiting"
    /\ untrack("stratum", "restart")
    /\ UNCHANGED <<starter, again, stopping, stop, session, limits>>

RestartWaited ==
    /\ Alive /\ restart = "waiting" /\ "restart" \notin leaving["stratum"]
    /\ restart' = "start"
    /\ UNCHANGED <<starter, run, leaving, again, stopping, stop, session, limits>>

RestartStarts ==
    /\ Alive /\ restart = "start" /\ restart' = "idle"
    /\ startOrKeepTrying("stratum")
    /\ UNCHANGED <<starter, leaving, stopping, stop, session, ownExits, clicks>>

----------------------------------------------------------------------------
(* The stop.                                                                *)

\* shutdown, once, for Quit or for Windows.
StopBegins == quit' = "begun" /\ stopping' = TRUE

Quit ==
    /\ quit = "no" /\ StopBegins
    /\ UNCHANGED <<starter, run, leaving, again, restart, forced, todo, session, limits>>

\* Windows asks whether the session may end, and says later whether it does.
SessionAsks ==
    /\ Alive /\ session = "open" /\ session' = "asking"
    /\ IF quit = "no" THEN StopBegins ELSE UNCHANGED <<quit, stopping>>
    /\ UNCHANGED <<starter, run, leaving, again, restart, forced, todo, limits>>

SessionAnswers ==
    /\ Alive /\ session = "asking" /\ session' \in {"ends", "stays"}
    /\ UNCHANGED <<starter, run, leaving, again, restart, stopping, stop, limits>>

\* Which stop it is, as the session is by then.
stopEverything ==
    /\ quit = "begun" /\ quit' = "stopping" /\ forced' = (session # "open")
    /\ UNCHANGED <<starter, run, leaving, again, restart, stopping, todo, session, limits>>

\* stopAll's order: the miner, the API, both nodes, then a move.
Before(k) ==
    IF k = "stratum" THEN {}
    ELSE IF k = "api" THEN {"stratum"}
    ELSE IF k \in Nodes THEN {"stratum", "api"}
    ELSE Programs \ {"migrate"}

Stopped(k) == k \notin todo /\ "stop" \notin leaving[k]

\* stopAll in its order, stopAllNow all at once.
StopOne(k) ==
    /\ quit = "stopping" /\ k \in todo
    /\ forced \/ \A j \in Before(k) : Stopped(j)
    /\ todo' = todo \ {k} /\ untrack(k, "stop")
    /\ UNCHANGED <<starter, again, restart, stopping, quit, forced, session, limits>>

\* Everything has stopped: the launcher exits, or starts Forge Solo again where Windows asked to end
\* the session and then did not, or never said.
relaunchAfterSessionStop ==
    /\ quit = "stopping" /\ \A k \in Programs : Stopped(k)
    /\ \/ session \in {"open", "ends"} /\ quit' = "exited"
       \/ session \in {"asking", "stays"} /\ quit' = "relaunched"
    /\ UNCHANGED <<starter, run, leaving, again, restart, stopping, forced, todo, session, limits>>

----------------------------------------------------------------------------
Boot ==
    \/ checkPorts \/ PrepareDatabase \/ runMigrator \/ CommitMove \/ startNodes \/ BootAPI \/ openDashboard
    \/ minerStart \/ BootMiner

Restart == RestartAsks \/ RestartWaited \/ RestartStarts

Shutdown == stopEverything \/ (\E k \in Programs : StopOne(k)) \/ relaunchAfterSessionStop

LauncherNext ==
    \/ Boot \/ tryAgain
    \/ \E k \in Programs : \/ Crashes(k) \/ exitedOnItsOwn(k) \/ StartAgain(k) \/ keepStarting(k)
                           \/ \E who \in {"restart", "stop"} : Ends(k, who)
    \/ Click \/ Restart
    \/ Quit \/ SessionAsks \/ SessionAnswers \/ Shutdown
    \/ ~Alive /\ UNCHANGED launcherVars

\* Every goroutine goes on, what is asked to stop does or is killed, and the migrator ends or is
\* ended (migrateLimit); that a program crashes, a click or the session's end is not promised.
LauncherFairness ==
    /\ WF_launcherVars(Boot) /\ WF_launcherVars(Restart) /\ WF_launcherVars(Shutdown)
    /\ WF_launcherVars(Crashes("migrate"))
    /\ \A k \in Supervised :
           WF_launcherVars(exitedOnItsOwn(k)) /\ WF_launcherVars(StartAgain(k)) /\ WF_launcherVars(keepStarting(k))
    /\ \A k \in Programs : WF_launcherVars(Ends(k, "stop"))
    /\ WF_launcherVars(Ends("stratum", "restart"))

LauncherSpec == LauncherInit /\ [][LauncherNext]_launcherVars /\ LauncherFairness

----------------------------------------------------------------------------
\* Nothing the launcher started is left running unasked when it exits: whatever was starting a
\* program when the stop began either started it before the stop came to it or not at all
\* (startTracked: "the stop finds every program that started").
NothingLeftRunning == ~Alive => \A k \in Programs : run[k] # "runs"

\* Quit stops the nodes and the API only after the miner it stops is gone, for a block it is still
\* submitting needs the BCH2 node (stopAll); a closing session does not wait.
MinerStopsFirst ==
    quit = "stopping" /\ ~forced /\ Programs \ todo # {} => run["stratum"] = "none" /\
        (("stop" \in leaving["stratum"]) => todo = Programs \ {"stratum"})

\* The stop ends everything, and the miner before what it needs.
StopsCleanly == NothingLeftRunning /\ MinerStopsFirst

\* The start comes to every program, and one that exited, could not start or is being restarted runs
\* again, unless the stop begins or the start could not be made (exitedOnItsOwn, keepStarting).
ComesBack ==
    \A k \in Supervised :
        (boot \notin {"checks", "failed"} /\ run[k] # "runs") ~> (run[k] = "runs" \/ stopping)

=============================================================================
