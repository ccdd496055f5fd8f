---------------------------- MODULE LinuxService ----------------------------
(***************************************************************************)
(* Forge Solo on Linux (cmd/forge-solo-linux): forge-solo run, the service *)
(* systemd runs, which keeps the node, the API and the stratum running and *)
(* stops them in order; and install-service and uninstall-service, which   *)
(* replace the release and the unit under it. Time is left out: a restart  *)
(* delay, a grace and a wait each end at some point.                       *)
(***************************************************************************)
EXTENDS Integers, Sequences

CONSTANTS
    Addrs,         \* dashboard addresses, on ports of their own
    defaultWeb,    \* one of them
    None,
    MaxExits,      \* bound: programs that exit on their own, the launcher among them
    MaxFaults,     \* bound: steps that fail, of the launcher and of install-service
    MaxSignals,    \* bound: signals that someone other than systemd sends the launcher
    MaxInstalls,   \* bound: runs of install-service
    MaxCrashes     \* bound: runs of install-service cut short

ASSUME AddrsAssumption == defaultWeb \in Addrs /\ None \notin Addrs

Children == {"stratum", "api", "node"}
StopOrder == <<"stratum", "api", "node">>

VARIABLES
    at,            \* where the launcher is: "off", or a stage of runCmd
    web,           \* the dashboard address it was started with
    left,          \* the children its stop has not ended, in order
    stopIn,        \* child.Stop has begun on the first of them
    atOnce,        \* a second signal has come
    proc,          \* each child's process
    sup,           \* its supervise goroutine
    childStopping, \* the children that start no more
    damaged,       \* the chain data on disk
    rebuild,       \* the node's rebuild: none, next, done
    taken,         \* another program, a Forge Solo started by hand say, holds its ports
    svc,           \* the service as systemd sees it
    unit, loaded,  \* the unit's dashboard address: on disk, and as systemd has read it
    dst, old, new, \* the release in /opt/forge-solo, and the two beside it: none, partial, whole
    adrift,        \* history: installs in a row that left replaceDir's swap with no whole release in dst
    ipc,           \* where install-service or uninstall-service is
    job,           \* what it found and chose: running, installed, servedAt, web
    said,          \* what it said of the service as it failed
    exits, faults, signals, installs, crashes

launcher == <<at, web, left, stopIn, atOnce>>
children == <<proc, sup, childStopping, damaged, rebuild, taken>>
release  == <<dst, old, new, adrift>>
install  == <<ipc, job, said>>
bounds   == <<exits, faults, signals, installs, crashes>>
vars == <<launcher, children, svc, unit, loaded, release, install, bounds>>

NoJob == [running |-> FALSE, installed |-> FALSE, servedAt |-> None, web |-> None]

Fresh ==
    /\ proc = [c \in Children |-> "none"] /\ sup = [c \in Children |-> "none"]
    /\ childStopping = {} /\ rebuild = "none"

Init ==
    /\ at = "off" /\ web = None /\ left = <<>> /\ stopIn = FALSE /\ atOnce = FALSE
    /\ Fresh /\ damaged = FALSE /\ taken = FALSE
    /\ svc = "inactive" /\ unit = None /\ loaded = None
    /\ dst = "none" /\ old = "none" /\ new = "none" /\ adrift = 0
    /\ ipc = "idle" /\ job = NoJob /\ said = "nothing"
    /\ exits = 0 /\ faults = 0 /\ signals = 0 /\ installs = 0 /\ crashes = 0

Fault   == faults < MaxFaults /\ faults' = faults + 1
FaultTwice == faults + 2 <= MaxFaults /\ faults' = faults + 2
NoFault == UNCHANGED faults
Others  == <<exits, signals, installs, crashes>>
Up(c)   == proc[c] \in {"up", "asked"}
AllGone == \A c \in Children : ~Up(c)

----------------------------------------------------------------------------
(* A supervised program.                                                    *)

\* The process starts; the node's pending -reindex start rebuilds its chain data.
spawned(c) ==
    /\ proc' = [proc EXCEPT ![c] = "up"]
    /\ IF c = "node" /\ rebuild = "next"
       THEN rebuild' = "done" /\ damaged' = FALSE
       ELSE UNCHANGED <<rebuild, damaged>>

Start(c) ==
    /\ spawned(c) /\ sup' = [sup EXCEPT ![c] = "watches"]
    /\ UNCHANGED <<childStopping, taken>>

\* The program cannot be run: done is closed at once.
StartFails(c) ==
    /\ Fault /\ sup' = [sup EXCEPT ![c] = "ended"]
    /\ UNCHANGED <<proc, childStopping, damaged, rebuild, taken>>

\* What the node logs as it ends on chain data it cannot use, looked for past where its logs ended
\* when it was started.
saysDamaged(c) == c = "node" /\ damaged

\* The node has said its chain data is damaged: its next start rebuilds it, once in a run.
afterExit(c) ==
    rebuild' = IF saysDamaged(c) /\ rebuild = "none" THEN "next" ELSE rebuild

\* supervise, as its program exits: it ends, or waits to start it again.
supervise(c) ==
    /\ sup[c] = "watches" /\ proc[c] = "gone"
    /\ IF c \in childStopping THEN sup' = [sup EXCEPT ![c] = "ended"] /\ UNCHANGED rebuild
                         ELSE sup' = [sup EXCEPT ![c] = "waits"] /\ afterExit(c)
    /\ UNCHANGED <<launcher, proc, childStopping, damaged, taken, svc, unit, loaded, release, install, bounds>>

\* (mutant of spawn) whether the program is being stopped is not looked at under mu.
spawnAnyway(c) ==
    /\ sup[c] = "waits"
    /\ \/ sup' = [sup EXCEPT ![c] = "watches"] /\ spawned(c) /\ NoFault
       \/ Fault /\ UNCHANGED <<proc, sup, damaged, rebuild>>
    /\ UNCHANGED <<launcher, childStopping, taken, svc, unit, loaded, release, install, Others>>

\* (mutant of spawn) a start that fails uses up the rebuild.
spawnForgets(c) ==
    /\ sup[c] = "waits"
    /\ IF c \in childStopping
       THEN sup' = [sup EXCEPT ![c] = "ended"] /\ NoFault /\ UNCHANGED <<proc, damaged, rebuild>>
       ELSE \/ sup' = [sup EXCEPT ![c] = "watches"] /\ spawned(c) /\ NoFault
            \/ Fault /\ rebuild' = (IF rebuild = "next" THEN "done" ELSE rebuild) /\ UNCHANGED <<proc, sup, damaged>>
    /\ UNCHANGED <<launcher, childStopping, taken, svc, unit, loaded, release, install, Others>>

\* supervise, after its delay, which Stop cuts short: spawn refuses once Stop or Kill has been there.
spawn(c) ==
    /\ sup[c] = "waits"
    /\ IF c \in childStopping
       THEN sup' = [sup EXCEPT ![c] = "ended"] /\ NoFault /\ UNCHANGED <<proc, damaged, rebuild>>
       ELSE \/ sup' = [sup EXCEPT ![c] = "watches"] /\ spawned(c) /\ NoFault
            \/ Fault /\ UNCHANGED <<proc, sup, damaged, rebuild>>
    /\ UNCHANGED <<launcher, childStopping, taken, svc, unit, loaded, release, install, Others>>

\* A crash, which may leave the node's chain data damaged; damaged data ends every start.
Dies(c) ==
    /\ proc[c] = "up" /\ proc' = [proc EXCEPT ![c] = "gone"]
    /\ \/ exits < MaxExits /\ exits' = exits + 1
          /\ damaged' \in (IF c = "node" THEN {damaged, TRUE} ELSE {damaged})
       \/ c = "node" /\ damaged /\ UNCHANGED <<exits, damaged>>
    /\ UNCHANGED <<launcher, sup, childStopping, rebuild, taken, svc, unit, loaded, release, install,
                   faults, signals, installs, crashes>>

\* It exits at SIGTERM, or is killed after its grace.
Exits(c) ==
    /\ proc[c] = "asked" /\ proc' = [proc EXCEPT ![c] = "gone"]
    /\ UNCHANGED <<launcher, sup, childStopping, damaged, rebuild, taken, svc, unit, loaded, release, install, bounds>>

----------------------------------------------------------------------------
(* forge-solo run.                                                          *)

\* The launcher's process ends: systemd starts it again after a failure, and kills what is left.
LauncherEnds(failed) ==
    /\ at' = "off" /\ left' = <<>> /\ stopIn' = FALSE /\ atOnce' = FALSE
    /\ svc' = IF failed /\ svc # "stopping" THEN "restarting" ELSE "inactive"

\* No other program listens on the public ports, or where the dashboard is to be.
checkPublicPorts == ~taken
checkDashboardAddr == ~taken

\* The release is whole: it was unpacked or copied to its end.
checkRelease == dst = "whole"

\* What runCmd checks and writes before it starts anything: the release, the lock on the data
\* directory, the ports, the secrets, the configurations.
RunChecks ==
    /\ at = "checks"
    /\ \/ checkRelease /\ checkPublicPorts /\ at' = "node" /\ NoFault /\ UNCHANGED <<left, stopIn, atOnce, svc>>
       \/ LauncherEnds(TRUE) /\ (Fault \/ (NoFault /\ ~(checkRelease /\ checkPublicPorts)))
    /\ UNCHANGED <<web, children, unit, loaded, release, install, Others>>

\* The node, the API and the dashboard, and the stratum once the node's RPC answers; one of the
\* first two that cannot start ends the run, and one that has started is stopped.
runCmd ==
    /\ \/ at = "node" /\ Start("node") /\ at' = "api" /\ NoFault /\ UNCHANGED <<left, stopIn, atOnce, svc>>
       \/ at = "node" /\ StartFails("node") /\ LauncherEnds(TRUE)
       \/ at = "api" /\ Start("api") /\ at' = "wait" /\ NoFault /\ UNCHANGED <<left, stopIn, atOnce, svc>>
       \/ at = "api" /\ StartFails("api") /\ at' = "failing" /\ left' = <<"node">>
          /\ UNCHANGED <<stopIn, atOnce, svc>>
       \/ at = "wait" /\ proc["node"] = "up" /\ at' = "serves"
          /\ ((Start("stratum") /\ NoFault) \/ StartFails("stratum"))
          /\ UNCHANGED <<left, stopIn, atOnce, svc>>
    /\ UNCHANGED <<web, unit, loaded, release, install, Others>>

\* What is killed is gone.
Ended(f) == [c \in Children |-> IF f[c] = "none" THEN "none" ELSE "gone"]

\* A second signal, while the first one's stop goes on.
Kill ==
    /\ at = "stopping" /\ signals < MaxSignals /\ signals' = signals + 1 /\ ~atOnce
    /\ atOnce' = TRUE /\ childStopping' = Children /\ proc' = Ended(proc)
    /\ UNCHANGED <<at, web, left, stopIn, sup, damaged, rebuild, taken, svc, unit, loaded, release, install,
                   exits, faults, installs, crashes>>

SignalTaken == at' = "stopping" /\ left' = StopOrder

\* Someone's Ctrl-C or kill.
Signal ==
    /\ at \in {"wait", "serves"} /\ signals < MaxSignals /\ signals' = signals + 1
    /\ SignalTaken
    /\ UNCHANGED <<web, stopIn, atOnce, children, svc, unit, loaded, release, install,
                   exits, faults, installs, crashes>>

\* The SIGTERM of a systemctl stop: taken when the launcher comes to it, and the end of one that has
\* not asked for signals yet.
StopAsked ==
    /\ svc = "stopping"
    /\ \/ at \in {"wait", "serves"} /\ SignalTaken /\ UNCHANGED <<stopIn, atOnce, svc>>
       \/ at = "checks" /\ LauncherEnds(FALSE)
    /\ UNCHANGED <<web, children, unit, loaded, release, install, bounds>>

\* child.Stop, of one after the other: it asks, then waits for the process and for supervise.
Stop ==
    /\ at \in {"stopping", "failing"} /\ left # <<>>
    /\ LET c == Head(left)
           asked == sup[c] # "none"
       IN \/ /\ ~stopIn /\ asked /\ stopIn' = TRUE
             /\ childStopping' = childStopping \cup {c}
             /\ proc' = [proc EXCEPT ![c] = IF @ = "up" THEN "asked" ELSE @]
             /\ UNCHANGED left
          \/ /\ (stopIn /\ ~Up(c) /\ sup[c] = "ended") \/ (~stopIn /\ ~asked)
             /\ left' = Tail(left) /\ stopIn' = FALSE
             /\ UNCHANGED <<childStopping, proc>>
    /\ UNCHANGED <<at, web, atOnce, sup, damaged, rebuild, taken, svc, unit, loaded, release, install, bounds>>

\* Everything is stopped: the launcher exits.
StopEnds ==
    /\ at \in {"stopping", "failing"} /\ left = <<>>
    /\ LauncherEnds(at = "failing")
    /\ UNCHANGED <<web, children, unit, loaded, release, install, bounds>>

\* The launcher is killed outright: systemd (KillMode=mixed) kills its programs.
LauncherDies ==
    /\ at # "off" /\ exits < MaxExits /\ exits' = exits + 1
    /\ proc' = Ended(proc) /\ sup' = [c \in Children |-> "ended"]
    /\ LauncherEnds(TRUE)
    /\ UNCHANGED <<web, childStopping, damaged, rebuild, taken, unit, loaded, release, install,
                   faults, signals, installs, crashes>>

----------------------------------------------------------------------------
(* systemd.                                                                 *)

\* Another program may take the ports while the service does not hold them, and let go of them.
TakesPorts ==
    /\ at = "off" /\ ~taken /\ Fault /\ taken' = TRUE
    /\ UNCHANGED <<launcher, proc, sup, childStopping, damaged, rebuild, svc, unit, loaded, release, install, Others>>

LeavesPorts ==
    /\ taken /\ taken' = FALSE
    /\ UNCHANGED <<launcher, proc, sup, childStopping, damaged, rebuild, svc, unit, loaded, release, install, bounds>>

\* The service is started: a new run of forge-solo, with the unit systemd has read.
Launched ==
    /\ at' = "checks" /\ web' = loaded /\ svc' = "active"
    /\ left' = <<>> /\ stopIn' = FALSE /\ atOnce' = FALSE
    /\ proc' = [c \in Children |-> "none"] /\ sup' = [c \in Children |-> "none"]
    /\ childStopping' = {} /\ rebuild' = "none" /\ UNCHANGED <<damaged, taken>>

\* Restart=on-failure.
Restarts ==
    /\ svc = "restarting" /\ at = "off" /\ Launched
    /\ UNCHANGED <<unit, loaded, release, install, bounds>>

\* The kernel executes the launcher only where a whole release is.
SystemctlStart == IF svc = "active" THEN UNCHANGED <<launcher, children, svc>> ELSE Launched

\* systemctl stop, until the service has stopped: a start that is pending is called off.
AskStop ==
    svc' = IF svc \in {"active", "stopping"} THEN "stopping" ELSE "inactive"

----------------------------------------------------------------------------
(* install-service.                                                         *)

elsewhere == <<launcher, children, svc>>
Goes(here, there) == ipc = here /\ ipc' = there

\* It ends with an error: a running service it stopped is started again.
Fails(cause, there) ==
    /\ Fault /\ ipc' = there
    /\ said' = cause

\* The dashboard address: the one given, else the installed service's own, else the default.
chooseWeb(given, was) ==
    IF given # None THEN given ELSE IF was # None THEN was ELSE defaultWeb

\* What can fail is checked while a running service still runs.
Begin ==
    /\ ipc = "idle" /\ installs < MaxInstalls /\ installs' = installs + 1
    /\ \E given \in Addrs \cup {None} :
          job' = [running |-> unit # None /\ svc = "active", installed |-> unit # None,
                  servedAt |-> IF unit = None THEN defaultWeb ELSE unit,
                  web |-> chooseWeb(given, unit)]
    /\ ipc' = "check" /\ said' = "nothing"
    /\ UNCHANGED <<elsewhere, unit, loaded, release, exits, faults, signals, crashes>>

\* checkPorts, or, of a running service, which holds them, only a dashboard's new port.
Check ==
    /\ ipc = "check"
    /\ \/ /\ job.running \/ checkPublicPorts
          /\ ipc' = "user" /\ NoFault /\ UNCHANGED said
       \/ /\ ipc' = "idle" /\ said' = "refused"
          /\ \/ ~job.running /\ ~checkPublicPorts /\ NoFault
             \/ job.running /\ job.web # job.servedAt /\ Fault
    /\ UNCHANGED <<job, elsewhere, unit, loaded, release, Others>>

ensureServiceUser ==
    /\ \/ Goes("user", "stop") /\ NoFault /\ UNCHANGED said
       \/ ipc = "user" /\ Fails("refused", "idle")
    /\ UNCHANGED <<job, elsewhere, unit, loaded, release, Others>>

\* (mutant of StopService) a service that is not running is left as it is.
StopRunning ==
    /\ ipc = "stop"
    /\ IF job.running THEN AskStop /\ ipc' = "stopped" ELSE UNCHANGED svc /\ ipc' = "ports"
    /\ UNCHANGED <<job, said, launcher, children, unit, loaded, release, bounds>>

\* systemctl stop, also of a service that is not running: one waiting to be started again would
\* start in the middle of this. It may fail, and the service runs on.
StopService ==
    /\ ipc = "stop"
    /\ \/ job.installed /\ AskStop /\ ipc' = "stopped" /\ NoFault /\ UNCHANGED said
       \/ job.installed /\ Fails("not stopped", "idle") /\ UNCHANGED svc
       \/ ~job.installed /\ ipc' = "ports" /\ NoFault /\ UNCHANGED <<said, svc>>
    /\ UNCHANGED <<job, launcher, children, unit, loaded, release, Others>>

ServiceStopped ==
    /\ Goes("stopped", "ports") /\ svc = "inactive"
    /\ UNCHANGED <<job, said, elsewhere, unit, loaded, release, bounds>>

\* (mutant of Undone) the service is left stopped, without a word.
UndoneNot == ipc' = "idle" /\ UNCHANGED said

\* install's defer: what fails from here on starts the service again.
Undone ==
    IF job.running THEN ipc' = "start again" /\ UNCHANGED said
                   ELSE ipc' = "idle" /\ said' = "failed"

\* checkPorts, once the service holds none.
checkInstallPorts ==
    /\ ipc = "ports" /\ NoFault
    /\ IF checkPublicPorts /\ checkDashboardAddr THEN ipc' = "copy" /\ UNCHANGED said ELSE Undone
    /\ UNCHANGED <<job, elsewhere, unit, loaded, release, Others>>

\* What a removal that fails leaves of a directory.
Remnant(d) == {d, "partial"}

\* The swap is over for this install: where it leaves the installed release.
Settled == adrift' = IF dst' = "whole" THEN 0 ELSE adrift + 1

\* The release's files are copied beside the installed release, where what an earlier install left
\* is removed first. A copy that fails is removed, and that failing is not looked at.
copyRelease ==
    /\ \/ Goes("copy", "copied") /\ new' = "partial" /\ NoFault /\ UNCHANGED said
       \/ ipc = "copy" /\ Undone /\ ((Fault /\ new' \in {new, "none"}) \/ (FaultTwice /\ new' \in Remnant(new)))
       \/ Goes("copied", "aside") /\ new' = "whole" /\ NoFault /\ UNCHANGED said
       \/ ipc = "copied" /\ Undone /\ ((Fault /\ new' = "none") \/ (FaultTwice /\ UNCHANGED new))
    /\ UNCHANGED <<dst, old, adrift, job, elsewhere, unit, loaded, Others>>

\* replaceDir removes the release before the last; that failing is not looked at.
removeOld ==
    /\ Goes("aside", "move")
    /\ (old' = "none" /\ NoFault) \/ (old # "none" /\ Fault /\ old' \in Remnant(old))
    /\ UNCHANGED <<dst, new, adrift, said>>

\* The installed release, where there is one, is renamed: which fails where a directory is left there.
moveAside ==
    \/ /\ Goes("move", "place") /\ dst = "none" /\ NoFault /\ UNCHANGED <<release, said>>
    \/ /\ Goes("move", "place") /\ dst # "none" /\ old = "none" /\ NoFault
       /\ old' = dst /\ dst' = "none" /\ UNCHANGED <<new, adrift, said>>
    \/ /\ ipc = "move" /\ dst # "none" /\ (Fault \/ (old # "none" /\ NoFault)) /\ Undone
       /\ UNCHANGED <<dst, old, new>> /\ Settled

\* The copy takes its place; where that fails the old one is renamed back, which may fail too, unsaid.
putInPlace ==
    /\ \/ Goes("place", "clear") /\ dst' = new /\ new' = "none" /\ NoFault /\ UNCHANGED <<old, said>>
       \/ ipc = "place" /\ Undone /\ Fault /\ dst' = old /\ old' = "none" /\ UNCHANGED new
       \/ ipc = "place" /\ Undone /\ old # "none" /\ FaultTwice /\ UNCHANGED <<dst, old, new>>
    /\ Settled

\* The release that was replaced is removed; that failing fails the install.
clearOld ==
    /\ \/ Goes("clear", "data") /\ old' = "none" /\ NoFault /\ UNCHANGED said
       \/ ipc = "clear" /\ old # "none" /\ Fault /\ Undone /\ old' \in Remnant(old)
    /\ UNCHANGED <<dst, new, adrift>>

\* replaceDir: the copy takes the installed release's place in two renames.
replaceDir ==
    /\ removeOld \/ moveAside \/ putInPlace \/ clearOld
    /\ UNCHANGED <<job, elsewhere, unit, loaded, Others>>

ensureDataDir ==
    /\ \/ Goes("data", "unit") /\ NoFault /\ UNCHANGED said
       \/ ipc = "data" /\ Fault /\ Undone
    /\ UNCHANGED <<job, elsewhere, unit, loaded, release, Others>>

\* A file is replaced whole or not at all.
writeFileAtomic(addr) == unit' = addr

\* writeUnit, daemon-reload and enable.
writeUnit ==
    /\ \/ Goes("unit", "reload") /\ writeFileAtomic(job.web) /\ job' = [job EXCEPT !.servedAt = job.web]
          /\ NoFault /\ UNCHANGED <<loaded, said>>
       \/ ipc = "unit" /\ Fault /\ Undone /\ UNCHANGED <<unit, loaded, job>>
       \/ Goes("reload", "restart") /\ loaded' = unit /\ NoFault /\ UNCHANGED <<unit, job, said>>
       \/ ipc = "reload" /\ Fault /\ Undone /\ loaded' \in {loaded, unit} /\ UNCHANGED <<unit, job>>
    /\ UNCHANGED <<elsewhere, release, Others>>

\* The start of the service as it now is; a failure from here on is the new service's own.
RestartService ==
    /\ ipc = "restart"
    /\ \/ ipc' = "wait" /\ SystemctlStart /\ NoFault /\ UNCHANGED said
       \/ Fails("could not be started", "idle") /\ UNCHANGED elsewhere
    /\ UNCHANGED <<job, unit, loaded, release, Others>>

\* waitServiceServing: the service's own launcher holds the address, and the dashboard answers.
Serving(addr) == svc = "active" /\ at \in {"wait", "serves"} /\ web = addr

waitServing ==
    /\ ipc = "wait" /\ ipc' = "idle"
    /\ IF Serving(job.web) THEN UNCHANGED said ELSE said' = "not serving"
    /\ UNCHANGED <<job, elsewhere, unit, loaded, release, bounds>>

\* startAgain.
startAgain ==
    /\ \/ Goes("start again", "wait again") /\ SystemctlStart /\ NoFault /\ UNCHANGED said
       \/ ipc = "start again" /\ Fails("stopped", "idle") /\ UNCHANGED elsewhere
       \/ Goes("wait again", "idle") /\ NoFault /\ UNCHANGED elsewhere
          /\ said' = IF Serving(job.servedAt) THEN "started again" ELSE "stopped"
    /\ UNCHANGED <<job, unit, loaded, release, Others>>

\* install-service is cut short (Ctrl-C, a lost terminal), in the middle of a removal too.
CutShort ==
    /\ ipc # "idle" /\ crashes < MaxCrashes /\ crashes' = crashes + 1
    /\ ipc' = "idle" /\ said' = "cut short"
    /\ old' \in (IF ipc \in {"aside", "clear"} /\ old # "none" THEN Remnant(old) ELSE {old})
    /\ UNCHANGED <<dst, new>> /\ (IF ipc \in {"aside", "move", "place"} THEN Settled ELSE UNCHANGED adrift)
    /\ UNCHANGED <<job, elsewhere, unit, loaded, exits, faults, signals, installs>>

\* uninstallService: disable --now, then the unit's file; the release and the data stay.
uninstallService ==
    /\ \/ ipc = "idle" /\ unit # None /\ installs < MaxInstalls /\ installs' = installs + 1
          /\ ipc' = "disable" /\ AskStop /\ said' = "nothing" /\ UNCHANGED <<unit, loaded>>
       \/ Goes("disable", "idle") /\ svc = "inactive" /\ unit' = None /\ loaded' = None
          /\ UNCHANGED <<svc, said, installs>>
    /\ UNCHANGED <<job, launcher, children, release, exits, faults, signals, crashes>>

----------------------------------------------------------------------------
Supervising(c) == supervise(c) \/ spawn(c)
Stopping == StopAsked \/ Stop \/ StopEnds
Installing ==
    \/ Check \/ ensureServiceUser \/ StopService \/ ServiceStopped \/ checkInstallPorts \/ copyRelease
    \/ replaceDir \/ ensureDataDir \/ writeUnit
    \/ RestartService \/ waitServing \/ startAgain

Next ==
    \/ \E c \in Children : Supervising(c) \/ Dies(c) \/ Exits(c)
    \/ RunChecks \/ runCmd \/ Signal \/ Kill \/ Stopping \/ LauncherDies \/ Restarts
    \/ TakesPorts \/ LeavesPorts
    \/ Begin \/ Installing \/ CutShort \/ uninstallService

\* Goroutines, systemd and install-service go on; a program asked to exit does or is killed; a node
\* whose chain data is damaged ends.
Fairness ==
    /\ WF_vars(RunChecks \/ runCmd) /\ WF_vars(Stopping) /\ WF_vars(Restarts)
    /\ \A c \in Children : WF_vars(supervise(c)) /\ WF_vars(spawn(c)) /\ WF_vars(Exits(c))
    /\ WF_vars(damaged /\ Dies("node"))

Spec == Init /\ [][Next]_vars /\ Fairness

----------------------------------------------------------------------------
\* The stop ends the stratum, then the API, then the node, each for good: what supervise was about to
\* start is not running once its program's turn is over, nor once the launcher has exited (child.Stop).
StopsForGood ==
    /\ at = "stopping" => \A c \in Children : (~\E i \in 1..Len(left) : left[i] = c) => ~Up(c)
    /\ at = "off" => AllGone

\* The release is replaced under no program of it: the service is stopped first, a restart that is
\* pending called off, and a stop ends only when every program has (install, unitFile).
NotUnderARunningOne ==
    /\ StopsForGood
    /\ ipc \in {"copy", "copied", "aside", "move", "place", "clear"} => at = "off" /\ AllGone

\* A release that is installed stays whole in its place, but for the time between the two renames,
\* until an install is cut short there or its rollback fails too (adrift); and one such install leaves
\* a whole release, beside the place or in it, and never half of one in it (replaceDir).
InstalledIsWhole ==
    /\ unit # None /\ adrift = 0 => dst = "whole" \/ ipc = "place"
    /\ unit # None /\ adrift <= 1 => dst # "partial" /\ "whole" \in {dst, old, new}

\* The place is left without a whole release only by an install that is cut short, or whose second
\* rename and whose rollback both fail: one step that fails is undone (replaceDir).
PlaceIsKept ==
    [][unit # None /\ adrift = 0 /\ adrift' > 0 => crashes' > crashes \/ faults' > faults + 1]_vars

\* No step removes the last whole release, but where two installs in a row have left none in its
\* place: the next copies over the one that those left beside it (replaceDir).
LastReleaseKept ==
    [][unit # None /\ "whole" \in {dst, old, new} /\ "whole" \notin {dst', old', new'}
       => adrift > 1]_vars

\* An install that fails after it stopped a running service leaves it started again, or says that
\* it is stopped (install: it "used to leave it stopped, and mining with it, without a word").
NeverSilentlyStopped ==
    [][/\ ipc \notin {"idle", "check", "user", "stop", "disable"} /\ ipc' = "idle" /\ crashes' = crashes
       /\ job.running
       => svc' = "active" \/ said' \in {"stopped", "could not be started", "not serving"}]_vars

\* An install that fails leaves a release to run and the service running, or says that it does not.
FailsSafely == []InstalledIsWhole /\ PlaceIsKept /\ LastReleaseKept /\ NeverSilentlyStopped

\* A program that exited on its own is started again, unless the launcher stops (supervise).
ServiceComesBack ==
    \A c \in Children : (sup[c] \in {"watches", "waits"} /\ proc[c] = "gone")
                            ~> (Up(c) \/ at \notin {"wait", "serves", "node", "api"})

\* A stop the launcher has begun comes to its end, whatever supervise was doing (Stop waits for it).
StopFinishes == (at = "stopping") ~> (at = "off")

\* Chain data the node says is damaged is rebuilt, where this run has not rebuilt it yet (afterExit).
DamageIsRebuilt ==
    (damaged /\ rebuild # "done" /\ at = "serves") ~> (~damaged \/ at # "serves")

\* What supervise keeps running comes back, with what it runs on.
ProgramsComeBack == ServiceComesBack /\ DamageIsRebuilt

=============================================================================
