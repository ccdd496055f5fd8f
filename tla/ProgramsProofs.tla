--------------------------- MODULE ProgramsProofs ---------------------------
(***************************************************************************)
(* What supervises the programs keeps its promises: the Linux launcher and *)
(* install-service (LinuxService), and the Windows launcher (Launcher).    *)
(*                                                                         *)
(* LinuxService: no two launchers' programs run at once and no release is  *)
(* replaced under one, by what systemd, the supervises and the install     *)
(* each know of the others (Replacing); and an install that fails or is    *)
(* cut short leaves a whole release, by where each step has it             *)
(* (ReleaseHeld).                                                          *)
(*                                                                         *)
(* Launcher: its stop takes every program out of procs before it ends and  *)
(* nothing starts meanwhile, the miner first (Stopper).                    *)
(***************************************************************************)
EXTENDS LinuxService, Launcher, TLAPS

\* Where the launcher is in its run, what its stop has left, and where an install is: its steps from the
\* check of the ports to the last rename (Calm) run with the service stopped.
Stages == {"off", "checks", "node", "api", "wait", "serves", "stopping", "failing"}
Lefts == {<<>>, <<"node">>, <<"api", "node">>, StopOrder}
In(s) == {s[i] : i \in 1..Len(s)}
\* No supervise would start the program again.
Quiet(c) == sup[c] \in {"none", "ended"}
Calm == {"ports", "copy", "copied", "aside", "move", "place", "clear"}
Steps == {"idle", "disable", "check", "user", "stop", "stopped", "data", "unit", "reload", "restart",
          "wait", "start again", "wait again"} \cup Calm

\* The types of the launcher's variables and its programs'.
RunTypes ==
    /\ at \in Stages /\ left \in Lefts
    /\ proc \in [Children -> {"none", "up", "asked", "gone"}]
    /\ sup \in [Children -> {"none", "watches", "waits", "ended"}]
    /\ childStopping \subseteq Children

\* systemd knows whether the launcher runs.
SystemdKnows ==
    /\ svc \in {"inactive", "active", "stopping", "restarting"}
    /\ at = "off" <=> svc \in {"inactive", "restarting"}

\* A program runs under its supervise alone, and what the run has not started or its stop is done with
\* has none.
Supervises ==
    /\ \A c \in Children : Up(c) => sup[c] = "watches"
    /\ at = "off" => \A c \in Children : Quiet(c)
    /\ at \in {"checks", "node"} => \A c \in Children : sup[c] = "none"
    /\ at = "api" => sup["api"] = "none" /\ sup["stratum"] = "none"
    /\ at = "wait" => sup["stratum"] = "none"
    /\ at \in {"stopping", "failing"} => \A c \in Children : c \in In(left) \/ Quiet(c)
    /\ at = "failing" => In(left) \subseteq {"node"}

\* What install-service knows of the service it replaces: whether there is one, and that it is stopped
\* from the check of the ports to the last rename.
InstallKnows ==
    /\ ipc \in Steps /\ unit \in Addrs \cup {None}
    /\ job \in [running : BOOLEAN, installed : BOOLEAN, servedAt : Addrs \cup {None}, web : Addrs \cup {None}]
    /\ ipc \notin {"idle", "disable"} => job.web \in Addrs
    /\ unit = None => svc = "inactive"
    /\ ipc \in Calm => svc = "inactive"
    /\ ipc \in {"check", "user", "stop"} => (job.installed <=> unit # None)
    /\ ipc \in {"reload", "restart"} => unit # None
    /\ ipc \notin {"idle", "disable"} /\ job.running => unit # None
    /\ ipc \in {"check", "user", "stop"} /\ job.running => job.installed
    /\ ipc = "start again" => job.running

Running == RunTypes /\ SystemdKnows /\ Supervises
Replacing == Running /\ InstallKnows

Counts == faults \in Nat /\ crashes \in Nat

Copies == {"none", "partial", "whole"}
Swap == {"aside", "move", "place"}

\* Where a release is while replaceDir moves it: what it renames is whole, and until two installs in a row
\* have left none in its place, one is there, set aside, or about to be put there.
ReleaseHeld ==
    /\ dst \in Copies /\ old \in Copies /\ new \in Copies /\ adrift \in Nat
    /\ ipc \in Swap => new = "whole"
    /\ ipc = "place" => dst = "none"
    /\ ipc \in {"clear", "data", "unit"} => dst = "whole" /\ adrift = 0
    /\ unit # None /\ adrift = 0 => dst = "whole" \/ (ipc = "place" /\ old = "whole")
    /\ unit # None /\ adrift = 1 => dst # "partial" /\ (dst = "whole" \/ old = "whole" \/ ipc \in Swap)

----------------------------------------------------------------------------
\* What is left of the stop, one after the other (Stop).
LEMMA WhatIsLeft ==
  /\ <<>> \in Lefts /\ <<"node">> \in Lefts /\ StopOrder \in Lefts
  /\ In(<<>>) = {} /\ In(<<"node">>) = {"node"} /\ In(StopOrder) = Children
  /\ \A s \in Lefts : s # <<>> =>
        /\ Head(s) \in Children /\ Tail(s) \in Lefts /\ In(Tail(s)) = In(s) \ {Head(s)}
<1>1. In(<<>>) = {} BY DEF In
<1>2. In(<<"node">>) = {"node"} BY DEF In
<1>3. In(<<"api", "node">>) = {"api", "node"}
  <2>1. Len(<<"api", "node">>) = 2 /\ 1..2 = {1, 2} OBVIOUS
  <2> QED BY <2>1 DEF In
<1>4. In(StopOrder) = Children
  <2>1. Len(StopOrder) = 3 /\ 1..3 = {1, 2, 3} BY DEF StopOrder
  <2> QED BY <2>1 DEF In, StopOrder, Children
<1>5. Head(<<"node">>) = "node" /\ Tail(<<"node">>) = <<>> OBVIOUS
<1>6. Head(<<"api", "node">>) = "api" /\ Tail(<<"api", "node">>) = <<"node">> OBVIOUS
<1>7. Head(StopOrder) = "stratum" /\ Tail(StopOrder) = <<"api", "node">> BY DEF StopOrder
<1> QED BY <1>1, <1>2, <1>3, <1>4, <1>5, <1>6, <1>7 DEF Lefts, Children

\* Before the first start nothing runs, and nothing is installed.
LEMMA InitReplacing == Init => Replacing /\ Counts /\ ReleaseHeld
<1> SUFFICES ASSUME Init PROVE Replacing /\ Counts /\ ReleaseHeld
  OBVIOUS
<1>1. RunTypes BY WhatIsLeft DEF Init, Fresh, RunTypes, Stages, Children
<1>2. SystemdKnows BY DEF Init, SystemdKnows
<1>3. Supervises BY DEF Init, Fresh, Supervises, Quiet, Up, Children
<1>4. InstallKnows BY DEF Init, InstallKnows, NoJob, Steps, Calm
<1> QED BY <1>1, <1>2, <1>3, <1>4 DEF Init, Running, Replacing, Counts, ReleaseHeld, Copies, Swap

\* The launcher's process ends: with no program under a supervise that could start it again.
LEMMA EndsRunning ==
  ASSUME Running, NEW failed \in BOOLEAN, LauncherEnds(failed),
         proc' \in [Children -> {"none", "up", "asked", "gone"}],
         sup' \in [Children -> {"none", "ended"}], childStopping' \subseteq Children,
         \A c \in Children : ~Up(c)'
  PROVE  Running'
<1>1. RunTypes' BY WhatIsLeft DEF RunTypes, LauncherEnds, Stages
<1>2. SystemdKnows' BY DEF SystemdKnows, LauncherEnds
<1>3. Supervises' BY DEF Supervises, LauncherEnds, Quiet
<1> QED BY <1>1, <1>2, <1>3 DEF Running

\* A new run of the launcher has nothing of the one before it.
LEMMA LaunchedRunning ==
  ASSUME Launched
  PROVE  Running'
<1>1. RunTypes' BY WhatIsLeft DEF RunTypes, Launched, Stages, Children
<1>2. SystemdKnows' BY DEF SystemdKnows, Launched
<1>3. Supervises' BY DEF Supervises, Launched, Quiet, Up
<1> QED BY <1>1, <1>2, <1>3 DEF Running

\* systemctl start.
LEMMA StartRunning ==
  ASSUME Running, SystemctlStart
  PROVE  Running'
<1>1. CASE svc = "active"
  BY <1>1 DEF SystemctlStart, launcher, children, Running, RunTypes, SystemdKnows, Supervises, Quiet, Up
<1>2. CASE svc # "active" BY <1>2, LaunchedRunning DEF SystemctlStart
<1> QED BY <1>1, <1>2

\* A step of supervise or of a program: nothing is started in a run that has not started it, or whose
\* stop is done with it.
LEMMA ProgramRunning ==
  ASSUME Running, NEW c \in Children, Supervising(c) \/ Dies(c) \/ Exits(c)
  PROVE  Running'
<1>1. UNCHANGED <<at, left, svc, childStopping>>
  BY DEF Supervising, supervise, spawn, Dies, Exits, launcher
<1>2. SystemdKnows' BY <1>1 DEF Running, SystemdKnows
<1>3. ASSUME UNCHANGED sup, proc' = [proc EXCEPT ![c] = "gone"] PROVE RunTypes' /\ Supervises'
  BY <1>1, <1>3 DEF Running, RunTypes, Supervises, Quiet, Up
<1>4. ASSUME ~Quiet(c), NEW to \in {"watches", "waits", "ended"}, sup' = [sup EXCEPT ![c] = to], ~Up(c),
             proc' = proc \/ (to = "watches" /\ proc' = [proc EXCEPT ![c] = "up"])
      PROVE  RunTypes' /\ Supervises'
  BY <1>1, <1>4 DEF Running, RunTypes, Supervises, Quiet, Up
<1>5. CASE Dies(c) \/ Exits(c) BY <1>2, <1>3, <1>5 DEF Running, Dies, Exits
<1>6. CASE supervise(c) BY <1>2, <1>4, <1>6 DEF Running, supervise, Quiet, Up
<1>7. CASE spawn(c)
  <2>1. ~Quiet(c) /\ ~Up(c) BY <1>7 DEF spawn, Quiet, Running, Supervises
  <2>2. CASE UNCHANGED <<proc, sup>>
    BY <1>1, <1>2, <2>2 DEF Running, RunTypes, Supervises, Quiet, Up
  <2>3. CASE ~(UNCHANGED <<proc, sup>>)
    BY <1>2, <1>4, <1>7, <2>1, <2>3 DEF Running, spawn, spawned
  <2> QED BY <2>2, <2>3
<1> QED BY <1>2, <1>5, <1>6, <1>7 DEF Running, Supervising

\* The launcher's own steps.
LEMMA LauncherRunning ==
  ASSUME Running, RunChecks \/ runCmd \/ Signal \/ Kill \/ Stopping \/ LauncherDies
  PROVE  Running'
<1> USE DEF Running
<1>1. CASE RunChecks
  <2>1. CASE at' = "node"
    BY <1>1, <2>1 DEF RunChecks, children, RunTypes, SystemdKnows, Supervises, Quiet, Up, Stages, LauncherEnds
  <2>2. CASE LauncherEnds(TRUE)
    BY <1>1, <2>2, EndsRunning DEF RunChecks, children, RunTypes, Supervises, Up
  <2> QED BY <1>1, <2>1, <2>2 DEF RunChecks
<1>2. CASE runCmd
  <2> USE DEF RunTypes, SystemdKnows, Supervises, Quiet, Up, Stages, Children
  <2>1. CASE at = "node" /\ Start("node") /\ at' = "api" /\ UNCHANGED <<left, svc>>
    BY <2>1 DEF Start, spawned
  <2>2. CASE at = "node" /\ StartFails("node") /\ LauncherEnds(TRUE)
    BY <2>2, EndsRunning DEF StartFails
  <2>3. CASE at = "api" /\ Start("api") /\ at' = "wait" /\ UNCHANGED <<left, svc>>
    BY <2>3 DEF Start, spawned
  <2>4. CASE at = "api" /\ StartFails("api") /\ at' = "failing" /\ left' = <<"node">> /\ UNCHANGED svc
    BY <2>4, WhatIsLeft DEF StartFails
  <2>5. CASE at = "wait" /\ (Start("stratum") \/ StartFails("stratum")) /\ at' = "serves" /\ UNCHANGED <<left, svc>>
    <3>1. CASE Start("stratum") BY <2>5, <3>1 DEF Start, spawned
    <3>2. CASE StartFails("stratum") BY <2>5, <3>2 DEF StartFails
    <3> QED BY <2>5, <3>1, <3>2
  <2> QED BY <1>2, <2>1, <2>2, <2>3, <2>4, <2>5 DEF runCmd
<1>3. CASE Signal
  BY <1>3, WhatIsLeft DEF Signal, SignalTaken, children, RunTypes, SystemdKnows, Supervises, Quiet, Up, Stages
<1>4. CASE Kill
  <2>1. \A c \in Children : ~Up(c)' BY <1>4 DEF Kill, Ended, Up
  <2> QED BY <1>4, <2>1 DEF Kill, Ended, RunTypes, SystemdKnows, Supervises, Quiet
<1>5. CASE StopAsked
  <2>1. CASE SignalTaken
    BY <1>5, <2>1, WhatIsLeft DEF StopAsked, SignalTaken, children, RunTypes, SystemdKnows, Supervises, Quiet, Up, Stages, LauncherEnds
  <2>2. CASE at = "checks" /\ LauncherEnds(FALSE)
    BY <1>5, <2>2, EndsRunning DEF StopAsked, children, RunTypes, Supervises, Up
  <2> QED BY <1>5, <2>1, <2>2 DEF StopAsked
<1>6. CASE Stop
  <2>1. left # <<>> /\ UNCHANGED <<at, sup, svc>> BY <1>6 DEF Stop
  <2>2. Head(left) \in Children BY <2>1, WhatIsLeft DEF RunTypes
  <2>3. CASE left' = left
    <3>1. childStopping' \subseteq Children /\ \E p \in {"none", "up", "asked", "gone"} :
              proc' = [proc EXCEPT ![Head(left)] = p] /\ (p \in {"up", "asked"} => Up(Head(left)))
      BY <1>6, <2>2, <2>3 DEF Stop, RunTypes, Up
    <3> QED BY <2>1, <2>2, <2>3, <3>1 DEF RunTypes, SystemdKnows, Supervises, Quiet, Up
  <2>4. CASE left' = Tail(left) /\ UNCHANGED <<childStopping, proc>> /\ Quiet(Head(left))
    BY <2>1, <2>2, <2>4, WhatIsLeft DEF RunTypes, SystemdKnows, Supervises, Quiet, Up
  <2> QED BY <1>6, <2>3, <2>4 DEF Stop, Quiet
<1>7. CASE StopEnds
  <2>1. \A c \in Children : Quiet(c) BY <1>7, WhatIsLeft DEF StopEnds, Supervises
  <2> QED BY <1>7, <2>1, EndsRunning DEF StopEnds, children, RunTypes, Supervises, Quiet, Up
<1>8. CASE LauncherDies
  <2>1. \A c \in Children : ~Up(c)' BY <1>8 DEF LauncherDies, Ended, Up
  <2> QED BY <1>8, <2>1, EndsRunning DEF LauncherDies, Ended, RunTypes
<1> QED BY <1>1, <1>2, <1>3, <1>4, <1>5, <1>6, <1>7, <1>8 DEF Stopping

\* What systemctl stop asks of the service leaves a service that has stopped as it is.
LEMMA AskStopRunning ==
  ASSUME Running, AskStop, UNCHANGED <<launcher, children>>
  PROVE  Running'
BY DEF Running, AskStop, launcher, children, RunTypes, SystemdKnows, Supervises, Quiet, Up

\* Every step keeps what is said of the launcher and its programs.
LEMMA RunStep ==
  ASSUME Replacing, [Next]_vars
  PROVE  Running'
<1> DEFINE Aside == UNCHANGED <<at, left, proc, sup, childStopping, svc>>
<1>0. Running /\ (Aside => Running')
  BY DEF Replacing, Running, RunTypes, SystemdKnows, Supervises, Quiet, Up
<1>1. CASE \E c \in Children : Supervising(c) \/ Dies(c) \/ Exits(c) BY <1>0, <1>1, ProgramRunning
<1>2. CASE RunChecks \/ runCmd \/ Signal \/ Kill \/ Stopping \/ LauncherDies BY <1>0, <1>2, LauncherRunning
<1>3. CASE Restarts BY <1>3, LaunchedRunning DEF Restarts
<1>4. CASE TakesPorts \/ LeavesPorts BY <1>0, <1>4 DEF TakesPorts, LeavesPorts, launcher
<1>5. CASE Begin \/ CutShort \/ UNCHANGED vars
  BY <1>0, <1>5 DEF Begin, CutShort, elsewhere, launcher, children, vars
<1>6. CASE uninstallService
  BY <1>0, <1>6, AskStopRunning DEF uninstallService, launcher, children
<1>7. CASE Check \/ ensureServiceUser \/ ServiceStopped \/ checkInstallPorts \/ copyRelease \/ replaceDir
           \/ ensureDataDir \/ writeUnit \/ waitServing
  BY <1>0, <1>7 DEF Check, ensureServiceUser, ServiceStopped, checkInstallPorts, copyRelease, replaceDir, removeOld, moveAside, putInPlace,
                    clearOld, release, ensureDataDir, writeUnit, waitServing, elsewhere, launcher, children
<1>8. CASE StopService
  BY <1>0, <1>8, AskStopRunning DEF StopService, launcher, children
<1>9. CASE RestartService \/ startAgain
  BY <1>0, <1>9, StartRunning DEF RestartService, startAgain, elsewhere, launcher, children
<1> QED BY <1>1, <1>2, <1>3, <1>4, <1>5, <1>6, <1>7, <1>8, <1>9 DEF Next, Installing

----------------------------------------------------------------------------
(* install-service.                                                         *)

\* While no install starts it the service that is stopped stays stopped.
LEMMA StaysStopped ==
  ASSUME Replacing,
         \/ \E c \in Children : Supervising(c) \/ Dies(c) \/ Exits(c)
         \/ RunChecks \/ runCmd \/ Signal \/ Kill \/ Stopping \/ LauncherDies \/ Restarts
         \/ TakesPorts \/ LeavesPorts \/ UNCHANGED vars
  PROVE  /\ UNCHANGED <<ipc, job, unit>>
         /\ svc = "inactive" => svc' = "inactive"
<1>1. UNCHANGED <<ipc, job, unit>>
  BY DEF Supervising, supervise, spawn, Dies, Exits, RunChecks, runCmd, Signal, Kill, Stopping, StopAsked, Stop,
         StopEnds, LauncherDies, Restarts, TakesPorts, LeavesPorts, vars, install
<1>2. svc = "inactive" => at = "off" BY DEF Replacing, Running, SystemdKnows
<1>3. CASE \/ \E c \in Children : Supervising(c) \/ Dies(c) \/ Exits(c)
           \/ TakesPorts \/ LeavesPorts \/ UNCHANGED vars
  BY <1>1, <1>3 DEF Supervising, supervise, spawn, Dies, Exits, TakesPorts, LeavesPorts, vars
<1>4. CASE RunChecks \/ runCmd \/ Signal \/ Kill \/ Stopping \/ LauncherDies \/ Restarts
  BY <1>1, <1>2, <1>4 DEF RunChecks, runCmd, Signal, Kill, Stopping, StopAsked, Stop, StopEnds, LauncherDies, Restarts
<1> QED BY <1>3, <1>4

\* Every step keeps what install-service knows.
LEMMA KnowsStep ==
  ASSUME Replacing, [Next]_vars
  PROVE  InstallKnows'
<1> USE DEF Replacing, InstallKnows, Steps, Calm
<1>1. CASE \/ \E c \in Children : Supervising(c) \/ Dies(c) \/ Exits(c)
           \/ RunChecks \/ runCmd \/ Signal \/ Kill \/ Stopping \/ LauncherDies \/ Restarts
           \/ TakesPorts \/ LeavesPorts \/ UNCHANGED vars
  BY <1>1, StaysStopped
<1>2. CASE Begin
  <2>1. PICK given \in Addrs \cup {None} :
           job' = [running |-> unit # None /\ svc = "active", installed |-> unit # None,
                   servedAt |-> IF unit = None THEN defaultWeb ELSE unit, web |-> chooseWeb(given, unit)]
    BY <1>2 DEF Begin
  <2>2. chooseWeb(given, unit) \in Addrs BY AddrsAssumption DEF chooseWeb
  <2>3. ipc' = "check" /\ UNCHANGED <<svc, unit>> BY <1>2 DEF Begin, elsewhere
  <2>4. /\ job'.running = (unit # None /\ svc = "active") /\ job'.installed = (unit # None)
        /\ job'.web \in Addrs
        /\ job' \in [running : BOOLEAN, installed : BOOLEAN, servedAt : Addrs \cup {None}, web : Addrs \cup {None}]
    BY <2>1, <2>2, AddrsAssumption
  <2> QED BY <2>3, <2>4
<1>3. CASE CutShort BY <1>3 DEF CutShort, elsewhere
<1>4. CASE uninstallService BY <1>4 DEF uninstallService, AskStop, Goes
<1>5. CASE Check \/ ensureServiceUser \/ ServiceStopped
  BY <1>5 DEF Check, ensureServiceUser, ServiceStopped, Goes, Fails, elsewhere
<1>6. CASE StopService BY <1>6 DEF StopService, AskStop, Fails
<1>7. CASE checkInstallPorts \/ copyRelease BY <1>7 DEF checkInstallPorts, copyRelease, Goes, Undone, elsewhere
<1>8. CASE replaceDir \/ ensureDataDir BY <1>8 DEF replaceDir, removeOld, moveAside, putInPlace, clearOld, ensureDataDir, Goes, Undone, elsewhere
<1>9. CASE writeUnit BY <1>9, AddrsAssumption DEF writeUnit, writeFileAtomic, Goes, Undone, elsewhere
<1>10. CASE RestartService \/ startAgain \/ waitServing
  BY <1>10 DEF RestartService, startAgain, waitServing, Goes, Fails, elsewhere
<1> QED BY <1>1, <1>2, <1>3, <1>4, <1>5, <1>6, <1>7, <1>8, <1>9, <1>10 DEF Next, Installing

\* The launcher, systemd and what install-service knows of them agree through every step.
LEMMA NextReplacing == Replacing /\ [Next]_vars => Replacing'
BY RunStep, KnowsStep DEF Replacing

\* What has gone wrong is counted, and a step that is cut short fails in no other way.
LEMMA CountsStep ==
  ASSUME Counts, [Next]_vars
  PROVE  Counts' /\ (UNCHANGED crashes \/ (CutShort /\ crashes' > crashes))
<1> DEFINE Failing == UNCHANGED crashes /\ faults' \in {faults, faults + 1, faults + 2}
<1>1. ASSUME Failing PROVE Counts' /\ UNCHANGED crashes BY <1>1 DEF Counts
<1>2. CASE CutShort
  <2>1. crashes' = crashes + 1 /\ UNCHANGED faults BY <1>2 DEF CutShort
  <2> QED BY <1>2, <2>1 DEF Counts
<1>3. CASE \/ \E c \in Children : Supervising(c) \/ Dies(c) \/ Exits(c)
           \/ RunChecks \/ runCmd \/ Signal \/ Kill \/ Stopping \/ LauncherDies \/ Restarts
           \/ TakesPorts \/ LeavesPorts \/ UNCHANGED vars
  <2>1. Failing
    BY <1>3 DEF Supervising, supervise, spawn, Dies, Exits, RunChecks, runCmd, Signal, Kill, Stopping, StopAsked,
                Stop, StopEnds, LauncherDies, Restarts, TakesPorts, LeavesPorts, vars, bounds, Others,
                Fault, NoFault, StartFails
  <2> QED BY <1>1, <2>1
<1>4. CASE Begin \/ Installing \/ uninstallService
  <2>1. Failing
    BY <1>4 DEF Begin, Installing, Check, ensureServiceUser, StopService, ServiceStopped, checkInstallPorts,
                copyRelease, replaceDir, removeOld, moveAside, putInPlace, clearOld, ensureDataDir, writeUnit,
                RestartService, waitServing, startAgain, uninstallService, Fails, Fault, FaultTwice, NoFault,
                Others, bounds
  <2> QED BY <1>1, <2>1
<1> QED BY <1>2, <1>3, <1>4 DEF Next

\* How many installs in a row left none in the place.
LEMMA SettledCounts ==
  ASSUME ReleaseHeld, Settled
  PROVE  /\ adrift' \in Nat /\ (adrift' = 0 <=> dst' = "whole")
         /\ adrift' = 1 => adrift = 0
BY DEF ReleaseHeld, Settled

\* What replaceDir moves is where it left it: what it renames is whole, and the release it replaces is
\* beside it until the new one is in place or a swap has come to nothing.
LEMMA ReleaseStep ==
  ASSUME Replacing, Counts, ReleaseHeld, [Next]_vars
  PROVE  ReleaseHeld'
<1> USE DEF ReleaseHeld, Copies, Swap
<1>1. CASE \/ \E c \in Children : Supervising(c) \/ Dies(c) \/ Exits(c)
           \/ RunChecks \/ runCmd \/ Signal \/ Kill \/ Stopping \/ LauncherDies \/ Restarts
           \/ TakesPorts \/ LeavesPorts \/ UNCHANGED vars
  <2>1. UNCHANGED <<ipc, unit>> BY <1>1, StaysStopped
  <2>2. UNCHANGED <<dst, old, new, adrift>>
    BY <1>1 DEF Supervising, supervise, spawn, Dies, Exits, RunChecks, runCmd, Signal, Kill, Stopping, StopAsked,
                Stop, StopEnds, LauncherDies, Restarts, TakesPorts, LeavesPorts, vars, release
  <2> QED BY <2>1, <2>2
<1>2. CASE Begin \/ Check \/ ensureServiceUser \/ StopService \/ ServiceStopped \/ checkInstallPorts
  BY <1>2 DEF Begin, Check, ensureServiceUser, StopService, ServiceStopped, checkInstallPorts, Goes, Fails, release, Undone
<1>3. CASE copyRelease BY <1>3 DEF copyRelease, Remnant, Goes, Undone
<1>4. CASE replaceDir
  <2>0. UNCHANGED unit BY <1>4 DEF replaceDir
  <2>1. CASE removeOld BY <2>0, <2>1 DEF removeOld, Remnant, Goes
  <2>2. CASE moveAside
    <3>1. CASE ipc' = "place" BY <2>0, <2>2, <3>1 DEF moveAside, Goes, release, Undone
    <3>2. CASE ipc' # "place"
      <4>1. ipc = "move" /\ ipc' \in {"start again", "idle"} /\ UNCHANGED <<dst, old, new>> /\ Settled
        BY <2>2, <3>2 DEF moveAside, Goes, Undone
      <4> QED BY <2>0, <4>1, SettledCounts
    <3> QED BY <3>1, <3>2
  <2>3. CASE putInPlace
    <3>0. Settled /\ ipc = "place" /\ new = "whole" BY <2>3 DEF putInPlace, Goes
    <3>1. CASE Goes("place", "clear") /\ dst' = new /\ new' = "none" /\ UNCHANGED old
      BY <2>0, <3>0, <3>1, SettledCounts DEF Goes
    <3>2. CASE Undone /\ UNCHANGED new /\ ((dst' = old /\ old' = "none") \/ UNCHANGED <<dst, old>>)
      <4>1. ipc' \in {"start again", "idle"} BY <3>2 DEF Undone
      <4> QED BY <2>0, <3>0, <3>2, <4>1, SettledCounts
    <3> QED BY <2>3, <3>1, <3>2 DEF putInPlace
  <2>4. CASE clearOld BY <2>0, <2>4 DEF clearOld, Remnant, Goes, Undone
  <2> QED BY <1>4, <2>1, <2>2, <2>3, <2>4 DEF replaceDir
<1>5. CASE ensureDataDir \/ writeUnit
  BY <1>5 DEF ensureDataDir, writeUnit, writeFileAtomic, Goes, Undone, release
<1>6. CASE RestartService \/ waitServing \/ startAgain
  BY <1>6 DEF RestartService, waitServing, startAgain, Goes, Fails, release
<1>7. CASE CutShort
  <2>1. ipc' = "idle" /\ UNCHANGED <<unit, dst, new>> /\ old' \in Copies BY <1>7 DEF CutShort, Remnant
  <2>2. CASE ipc \in Swap
    <3>1. Settled /\ (ipc # "aside" => UNCHANGED old) BY <1>7, <2>2 DEF CutShort
    <3> QED BY <2>1, <2>2, <3>1, SettledCounts
  <2>3. CASE ipc \notin Swap
    <3>1. UNCHANGED adrift /\ (ipc # "clear" => UNCHANGED old) BY <1>7, <2>3 DEF CutShort
    <3> QED BY <2>1, <2>3, <3>1
  <2> QED BY <2>2, <2>3
<1>8. CASE uninstallService BY <1>8 DEF uninstallService, Goes, release
<1> QED BY <1>1, <1>2, <1>3, <1>4, <1>5, <1>6, <1>7, <1>8 DEF Next, Installing

\* The invariant of the installs holds from the start through every step.
LEMMA HeldThroughout == Spec => [](Replacing /\ Counts /\ ReleaseHeld)
<1>1. Replacing /\ Counts /\ ReleaseHeld /\ [Next]_vars => (Replacing /\ Counts /\ ReleaseHeld)'
  BY NextReplacing, CountsStep, ReleaseStep
<1> QED BY <1>1, InitReplacing, PTL DEF Spec

\* What the stop is done with, and what the launcher leaves when it exits, runs no more, and no file of the
\* release is replaced while a program of it runs (child.Stop, install).
THEOREM ReplacedUnderNothing == Spec => []NotUnderARunningOne
<1>1. Replacing => NotUnderARunningOne
  <2> SUFFICES ASSUME Replacing PROVE NotUnderARunningOne
    OBVIOUS
  <2>1. \A c \in Children : Quiet(c) => ~Up(c) BY DEF Replacing, Running, Supervises, Quiet
  <2>2. ASSUME NEW c \in Children, ~\E i \in 1..Len(left) : left[i] = c PROVE c \notin In(left)
    BY <2>2 DEF In
  <2>3. StopsForGood
    BY <2>1, <2>2 DEF StopsForGood, AllGone, Replacing, Running, Supervises
  <2>4. ipc \in Calm => at = "off" BY DEF Replacing, Running, SystemdKnows, InstallKnows
  <2> QED BY <2>3, <2>4 DEF NotUnderARunningOne, StopsForGood, Calm
<1> QED BY <1>1, HeldThroughout, PTL

\* Steps that move no release.
Elsewhere ==
    \/ \E c \in Children : Supervising(c) \/ Dies(c) \/ Exits(c)
    \/ RunChecks \/ runCmd \/ Signal \/ Kill \/ Stopping \/ LauncherDies \/ Restarts
    \/ TakesPorts \/ LeavesPorts \/ UNCHANGED vars
    \/ Begin \/ Check \/ ensureServiceUser \/ StopService \/ ServiceStopped \/ checkInstallPorts
    \/ ensureDataDir \/ writeUnit \/ RestartService \/ waitServing \/ startAgain \/ uninstallService

LEMMA ElsewhereMovesNone == Elsewhere => UNCHANGED release
BY DEF Elsewhere, Supervising, supervise, spawn, Dies, Exits, RunChecks, runCmd, Signal, Kill, Stopping, StopAsked,
       Stop, StopEnds, LauncherDies, Restarts, TakesPorts, LeavesPorts, vars, release, Begin, Check,
       ensureServiceUser, StopService, ServiceStopped, checkInstallPorts, ensureDataDir, writeUnit, RestartService,
       waitServing, startAgain, uninstallService

\* An install takes the last whole release away only where two before it left none in its place: every
\* other copy begins with one there or set aside, and the swap moves what is whole (replaceDir).
LEMMA LastKept ==
  ASSUME ReleaseHeld, [Next]_vars, unit # None, "whole" \in {dst, old, new}, "whole" \notin {dst', old', new'}
  PROVE  adrift > 1
<1> USE DEF ReleaseHeld, Copies, Swap
<1>1. CASE copyRelease BY <1>1 DEF copyRelease, Goes
<1>2. CASE replaceDir
  BY <1>2 DEF replaceDir, removeOld, moveAside, putInPlace, clearOld, Goes, release
<1>3. CASE CutShort BY <1>3 DEF CutShort
<1>4. CASE Elsewhere BY <1>4, ElsewhereMovesNone DEF release
<1> QED BY <1>1, <1>2, <1>3, <1>4 DEF Next, Installing, Elsewhere

\* A whole release leaves its place for good only with an install that is cut short, or where the rename
\* and the one that undoes it both fail (replaceDir).
LEMMA Kept ==
  ASSUME Counts, ReleaseHeld, [Next]_vars, unit # None, adrift = 0, adrift' > 0
  PROVE  crashes' > crashes \/ faults' > faults + 1
<1> USE DEF ReleaseHeld, Copies, Swap
<1>1. CASE copyRelease BY <1>1 DEF copyRelease
<1>2. CASE replaceDir
  <2>1. CASE removeOld \/ clearOld BY <2>1 DEF removeOld, clearOld
  <2>2. CASE moveAside BY <2>2 DEF moveAside, Settled, release
  <2>3. CASE putInPlace BY <2>3 DEF putInPlace, Settled, FaultTwice, Goes, Counts
  <2> QED BY <1>2, <2>1, <2>2, <2>3 DEF replaceDir
<1>3. CASE CutShort
  <2>1. crashes' = crashes + 1 BY <1>3 DEF CutShort
  <2> QED BY <2>1 DEF Counts
<1>4. CASE Elsewhere BY <1>4, ElsewhereMovesNone DEF release
<1> QED BY <1>1, <1>2, <1>3, <1>4 DEF Next, Installing, Elsewhere

\* An install that ends after it stopped a running service has started it again, or says it has not.
LEMMA NeverSilent ==
  ASSUME Counts, [Next]_vars, ipc \notin {"idle", "check", "user", "stop", "disable"}, ipc' = "idle", crashes' = crashes,
         job.running
  PROVE  svc' = "active" \/ said' \in {"stopped", "could not be started", "not serving"}
<1>1. CASE CutShort
  <2>1. crashes + 1 # crashes BY DEF Counts
  <2> QED BY <1>1, <2>1 DEF CutShort
<1>2. CASE \/ checkInstallPorts \/ copyRelease \/ replaceDir \/ ensureDataDir \/ writeUnit \/ RestartService
           \/ ServiceStopped
  BY <1>2 DEF checkInstallPorts, copyRelease, replaceDir, removeOld, moveAside, putInPlace, clearOld, ensureDataDir,
              writeUnit, RestartService, Goes, Undone, Fails, ServiceStopped
<1>3. CASE waitServing BY <1>3 DEF waitServing, Serving, elsewhere
<1>4. CASE startAgain BY <1>4 DEF startAgain, Goes, Fails, Serving, elsewhere
<1>5. CASE Begin \/ Check \/ ensureServiceUser \/ StopService \/ uninstallService
  BY <1>5 DEF Begin, Check, ensureServiceUser, StopService, uninstallService, Goes
<1>6. CASE \/ \E c \in Children : Supervising(c) \/ Dies(c) \/ Exits(c)
           \/ RunChecks \/ runCmd \/ Signal \/ Kill \/ Stopping \/ LauncherDies \/ Restarts
           \/ TakesPorts \/ LeavesPorts \/ UNCHANGED vars
  BY <1>6 DEF Supervising, supervise, spawn, Dies, Exits, RunChecks, runCmd, Signal, Kill, Stopping, StopAsked,
              Stop, StopEnds, LauncherDies, Restarts, TakesPorts, LeavesPorts, vars, install
<1> QED BY <1>1, <1>2, <1>3, <1>4, <1>5, <1>6 DEF Next, Installing

\* A release that is installed stays whole in its place through any number of installs that fail or are
\* cut short, but for the ones cut short between its two renames, or whose rename and its rollback both
\* fail; one of these in a row leaves a whole release beside it; and an install that fails leaves the
\* service running or says that it does not (replaceDir, install's defer).
THEOREM InstallFailsSafely == Spec => FailsSafely
<1>1. ReleaseHeld => InstalledIsWhole
  BY DEF ReleaseHeld, InstalledIsWhole, Copies, Swap
<1>2. Spec => LastReleaseKept
  <2>1. ReleaseHeld /\ [Next]_vars =>
          [unit # None /\ "whole" \in {dst, old, new} /\ "whole" \notin {dst', old', new'} => adrift > 1]_vars
    BY LastKept
  <2> QED BY <2>1, HeldThroughout, PTL DEF Spec, LastReleaseKept
<1>3. Spec => PlaceIsKept
  <2>1. Counts /\ ReleaseHeld /\ [Next]_vars =>
          [unit # None /\ adrift = 0 /\ adrift' > 0 => crashes' > crashes \/ faults' > faults + 1]_vars
    BY Kept
  <2> QED BY <2>1, HeldThroughout, PTL DEF Spec, PlaceIsKept
<1>4. Spec => NeverSilentlyStopped
  <2>1. Counts /\ [Next]_vars =>
          [/\ ipc \notin {"idle", "check", "user", "stop", "disable"} /\ ipc' = "idle" /\ crashes' = crashes
           /\ job.running
           => svc' = "active" \/ said' \in {"stopped", "could not be started", "not serving"}]_vars
    BY NeverSilent
  <2> QED BY <2>1, HeldThroughout, PTL DEF Spec, NeverSilentlyStopped
<1> QED BY <1>1, <1>2, <1>3, <1>4, HeldThroughout, PTL DEF FailsSafely

----------------------------------------------------------------------------
(* The Windows launcher.                                                    *)

Places == {"no", "begun", "stopping", "exited", "relaunched"}

\* The types of the variables the proofs are about.
LauncherTypes ==
    /\ quit \in Places /\ stopping \in BOOLEAN /\ forced \in BOOLEAN /\ todo \subseteq Programs
    /\ run \in [Programs -> {"none", "runs", "died"}]
    /\ leaving \in [Programs -> SUBSET {"restart", "stop"}]
    /\ nodesLeft \subseteq Nodes

\* Once the stop has begun nothing is started, so what it has taken out of procs stays out, and it
\* takes all out before it ends.
StopTakesAll ==
    /\ quit # "no" => stopping
    /\ quit \in {"no", "begun"} => todo = Programs /\ \A k \in Programs : "stop" \notin leaving[k]
    /\ \A k \in Programs \ todo : run[k] = "none"
    /\ ~Alive => todo = {}

\* A stop that does not hurry comes to the miner first, and to the others once it is gone.
MinerFirst ==
    quit = "stopping" /\ ~forced =>
        /\ todo # Programs => "stratum" \notin todo
        /\ "stop" \in leaving["stratum"] => todo = Programs \ {"stratum"}

Stopper == LauncherTypes /\ StopTakesAll /\ MinerFirst

\* Before anything is started there is nothing to stop.
LEMMA InitStopper == LauncherInit => Stopper
BY DEF LauncherInit, Stopper, LauncherTypes, StopTakesAll, MinerFirst, Places, Alive, Programs

\* What starts, exits or is forgotten leaves the stop alone: nothing starts once it has begun.
RunsAside ==
    /\ UNCHANGED stop /\ UNCHANGED <<leaving, stopping>> /\ nodesLeft' \subseteq nodesLeft
    /\ \A k \in Programs : run'[k] = run[k] \/ run'[k] # "runs" \/ ~stopping
    /\ run' \in [Programs -> {"none", "runs", "died"}]
    /\ \A k \in Programs : run[k] = "none" /\ run'[k] # "none" => ~stopping

\* What leaves the stop alone keeps what the stop rests on.
LEMMA AsideKeeps ==
  ASSUME Stopper, RunsAside
  PROVE  Stopper'
<1> USE DEF Stopper, RunsAside, stop
<1>1. LauncherTypes' BY DEF LauncherTypes
<1>2. StopTakesAll'
  <2>1. ~stopping => todo = Programs BY DEF StopTakesAll, LauncherTypes, Places
  <2> QED BY <2>1 DEF StopTakesAll, Alive
<1>3. MinerFirst' BY DEF MinerFirst
<1> QED BY <1>1, <1>2, <1>3

\* startTracked looks under mu whether the stop has begun.
LEMMA StartsAside ==
  ASSUME LauncherTypes, NEW k \in Programs, Starts(k) \/ NotStarted(k) \/ CannotStart(k)
  PROVE  /\ run' \in [Programs -> {"none", "runs", "died"}]
         /\ \A j \in Programs : run'[j] = run[j] \/ ~stopping
BY DEF LauncherTypes, Starts, NotStarted, CannotStart

\* The start, Try Again and the goroutines that start a program again are no part of the stop.
LEMMA Beside ==
  ASSUME LauncherTypes,
         \/ Boot \/ tryAgain \/ RestartWaited \/ RestartStarts \/ Click \/ SessionAnswers \/ UNCHANGED launcherVars
         \/ \E k \in Programs : Crashes(k) \/ exitedOnItsOwn(k) \/ StartAgain(k) \/ keepStarting(k)
  PROVE  RunsAside
<1> USE DEF stop, rest, starter
<1> DEFINE Runs == run' \in [Programs -> {"none", "runs", "died"}]
<1>0. {"migrate", "api", "stratum"} \subseteq Programs /\ Nodes \subseteq Programs BY DEF Programs
<1>1. ASSUME UNCHANGED <<stop, leaving, stopping>>, nodesLeft' \subseteq nodesLeft, Runs,
             \A j \in Programs : run'[j] = run[j] \/ ~stopping
      PROVE  RunsAside
  BY <1>1 DEF RunsAside, LauncherTypes
<1>2. CASE UNCHANGED run
  <2>1. UNCHANGED <<stop, leaving, stopping>> /\ nodesLeft' \subseteq nodesLeft
    BY DEF Boot, tryAgain, RestartWaited, RestartStarts, Click, SessionAnswers, launcherVars, checkPorts,
           PrepareDatabase, runMigrator, CommitMove, startNodes, BootAPI, BootStarts, openDashboard,
           minerStart, BootMiner, Crashes, exitedOnItsOwn, StartAgain, keepStarting, starter
  <2> QED BY <1>1, <1>2, <2>1 DEF LauncherTypes
<1>3. ASSUME NEW k \in Programs, Crashes(k)
      PROVE  RunsAside
  BY <1>3 DEF Crashes, RunsAside, LauncherTypes
<1>4. ASSUME NEW k \in Programs, exitedOnItsOwn(k) PROVE RunsAside
  BY <1>4 DEF exitedOnItsOwn, RunsAside, LauncherTypes
<1>5. ASSUME NEW k \in Programs, StartAgain(k) \/ keepStarting(k) PROVE RunsAside
  BY <1>1, <1>5, StartsAside DEF StartAgain, keepStarting
<1>6. CASE runMigrator BY <1>0, <1>6 DEF runMigrator, RunsAside, LauncherTypes
<1>7. CASE PrepareDatabase \/ CommitMove
  BY <1>0, <1>1, <1>2, <1>7, StartsAside DEF PrepareDatabase, CommitMove
<1>8. CASE startNodes \/ BootAPI \/ BootMiner \/ RestartStarts
  <2>1. UNCHANGED <<stop, leaving, stopping>> /\ nodesLeft' \subseteq nodesLeft
    BY <1>8 DEF startNodes, BootAPI, BootStarts, BootMiner, RestartStarts, starter
  <2>2. UNCHANGED run \/ \E k \in Programs : Starts(k) \/ NotStarted(k) \/ CannotStart(k)
    <3> DEFINE Tries(k) == Starts(k) \/ NotStarted(k) \/ CannotStart(k)
    <3>1. ASSUME NEW k \in Programs, NEW next, BootStarts(k, next) PROVE UNCHANGED run \/ Tries(k)
      BY <3>1 DEF BootStarts, startOrKeepTrying
    <3>2. ASSUME NEW k \in Programs, startOrKeepTrying(k) PROVE Tries(k)
      BY <3>2 DEF startOrKeepTrying
    <3> HIDE DEF Tries
    <3>3. UNCHANGED run \/ \E k \in Programs : Tries(k)
      <4>1. CASE startNodes
        <5>1. PICK n \in nodesLeft : BootStarts(n, IF nodesLeft = {n} THEN "api" ELSE "nodes")
          BY <4>1 DEF startNodes
        <5> QED BY <1>0, <3>1, <5>1 DEF LauncherTypes
      <4>2. CASE BootAPI BY <1>0, <3>1, <4>2 DEF BootAPI
      <4>3. CASE BootMiner \/ RestartStarts BY <1>0, <3>2, <4>3 DEF BootMiner, RestartStarts
      <4> QED BY <1>8, <4>1, <4>2, <4>3
    <3> QED BY <3>3 DEF Tries
  <2> QED BY <1>1, <1>2, <2>1, <2>2, StartsAside
<1>9. CASE checkPorts \/ openDashboard \/ minerStart \/ tryAgain \/ RestartWaited \/ Click
           \/ SessionAnswers \/ UNCHANGED launcherVars
  BY <1>2, <1>9 DEF checkPorts, openDashboard, minerStart, tryAgain, RestartWaited, Click, again,
                     SessionAnswers, launcherVars
<1> QED BY <1>3, <1>4, <1>5, <1>6, <1>7, <1>8, <1>9 DEF Boot

\* What was asked to stop ends, and Restart Mining takes the miner out of procs to stop it.
LEMMA LeavingStep ==
  ASSUME Stopper, RestartAsks \/ \E k \in Programs, who \in {"restart", "stop"} : Ends(k, who)
  PROVE  Stopper'
<1> USE DEF Stopper, stop
<1>0. "stratum" \in Programs BY DEF Programs
<1>1. CASE RestartAsks
  <2>1. run' = [run EXCEPT !["stratum"] = "none"] /\ UNCHANGED <<stop, stopping, nodesLeft>>
    BY <1>1 DEF RestartAsks, untrack, starter
  <2>2. leaving' = leaving \/ leaving' = [leaving EXCEPT !["stratum"] = @ \cup {"restart"}]
    BY <1>1 DEF RestartAsks, untrack
  <2>3. LauncherTypes' BY <1>0, <2>1, <2>2 DEF LauncherTypes
  <2>4. \A k \in Programs : "stop" \in leaving'[k] => "stop" \in leaving[k]
    BY <1>0, <2>2 DEF LauncherTypes
  <2>5. \A k \in Programs : run'[k] = "none" \/ run'[k] = run[k] BY <1>0, <2>1 DEF LauncherTypes
  <2>6. StopTakesAll' BY <2>1, <2>4, <2>5 DEF StopTakesAll, Alive
  <2>7. MinerFirst' BY <1>0, <2>1, <2>4 DEF MinerFirst
  <2> QED BY <2>3, <2>6, <2>7
<1>2. ASSUME NEW k \in Programs, NEW who \in {"restart", "stop"}, Ends(k, who) PROVE Stopper'
  <2>1. leaving' = [leaving EXCEPT ![k] = @ \ {who}] /\ UNCHANGED <<stop, stopping, run, nodesLeft>>
    BY <1>2 DEF Ends, starter
  <2>2. LauncherTypes' BY <2>1 DEF LauncherTypes
  <2>3. \A j \in Programs : "stop" \in leaving'[j] => "stop" \in leaving[j] BY <2>1 DEF LauncherTypes
  <2>4. StopTakesAll' BY <2>1, <2>3 DEF StopTakesAll, Alive
  <2>5. MinerFirst' BY <1>0, <2>1, <2>3 DEF MinerFirst
  <2> QED BY <2>2, <2>4, <2>5
<1> QED BY <1>1, <1>2

\* The miner comes before any other program, unless the session ends.
LEMMA MinerBefore ==
  ASSUME NEW k \in Programs, k # "stratum"
  PROVE  "stratum" \in Before(k)
BY NodesAssumption DEF Before, Programs

\* The stop: it begins, takes one program after the other, and ends.
LEMMA StopStep ==
  ASSUME Stopper, Quit \/ SessionAsks \/ Shutdown
  PROVE  Stopper'
<1> USE DEF Stopper, stop
<1>0. "stratum" \in Programs BY DEF Programs
<1>1. CASE Quit \/ SessionAsks
  <2>1. UNCHANGED <<forced, todo, run, leaving, nodesLeft>> /\ stopping' \in BOOLEAN
    BY <1>1 DEF Quit, SessionAsks, StopBegins, LauncherTypes, starter
  <2>2. (UNCHANGED <<quit, stopping>>) \/ (quit = "no" /\ quit' = "begun" /\ stopping' = TRUE)
    BY <1>1 DEF Quit, SessionAsks, StopBegins
  <2>3. LauncherTypes' BY <2>1, <2>2 DEF LauncherTypes, Places
  <2>4. StopTakesAll' BY <2>1, <2>2 DEF StopTakesAll, Alive
  <2>5. MinerFirst' BY <2>1, <2>2 DEF MinerFirst
  <2> QED BY <2>3, <2>4, <2>5
<1>2. CASE stopEverything
  <2>1. UNCHANGED <<todo, run, leaving, stopping, nodesLeft>> /\ forced' \in BOOLEAN
        /\ quit = "begun" /\ quit' = "stopping"
    BY <1>2 DEF stopEverything, starter
  <2>2. LauncherTypes' BY <2>1 DEF LauncherTypes, Places
  <2>3. StopTakesAll' BY <2>1 DEF StopTakesAll, Alive
  <2>4. MinerFirst' BY <1>0, <2>1 DEF MinerFirst, StopTakesAll
  <2> QED BY <2>2, <2>3, <2>4
<1>3. ASSUME NEW k \in Programs, StopOne(k) PROVE Stopper'
  <2>1. /\ UNCHANGED <<quit, forced, stopping, nodesLeft>> /\ quit = "stopping" /\ k \in todo /\ todo' = todo \ {k}
        /\ run' = [run EXCEPT ![k] = "none"]
        /\ leaving' = leaving \/ leaving' = [leaving EXCEPT ![k] = @ \cup {"stop"}]
    BY <1>3 DEF StopOne, untrack, starter
  <2>2. LauncherTypes' BY <2>1 DEF LauncherTypes
  <2>3. StopTakesAll' BY <2>1 DEF StopTakesAll, LauncherTypes, Alive
  <2>4. MinerFirst'
    <3> SUFFICES ASSUME ~forced PROVE MinerFirst' BY <2>1 DEF MinerFirst
    <3>1. CASE k = "stratum"
      <4>1. todo = Programs BY <1>0, <2>1, <3>1 DEF MinerFirst
      <4> QED BY <2>1, <3>1, <4>1 DEF MinerFirst
    <3>2. CASE k # "stratum"
      <4>1. "stratum" \notin todo /\ "stop" \notin leaving["stratum"]
        BY <1>3, <3>2, MinerBefore DEF StopOne, Stopped
      <4>2. leaving'["stratum"] = leaving["stratum"] BY <1>0, <2>1, <3>2 DEF LauncherTypes
      <4> QED BY <2>1, <4>1, <4>2 DEF MinerFirst
    <3> QED BY <3>1, <3>2
  <2> QED BY <2>2, <2>3, <2>4
<1>4. CASE relaunchAfterSessionStop
  <2>1. UNCHANGED <<todo, run, leaving, stopping, forced, nodesLeft>>
        /\ quit = "stopping" /\ quit' \in {"exited", "relaunched"}
    BY <1>4 DEF relaunchAfterSessionStop, starter
  <2>2. todo = {} BY <1>4 DEF relaunchAfterSessionStop, Stopped, LauncherTypes
  <2>3. LauncherTypes' BY <2>1 DEF LauncherTypes, Places
  <2>4. StopTakesAll' BY <2>1, <2>2 DEF StopTakesAll, Alive
  <2>5. MinerFirst' BY <2>1 DEF MinerFirst
  <2> QED BY <2>3, <2>4, <2>5
<1> QED BY <1>1, <1>2, <1>3, <1>4 DEF Shutdown

\* The invariant holds from the start through every step.
LEMMA NextStopper == Stopper /\ [LauncherNext]_launcherVars => Stopper'
<1> SUFFICES ASSUME Stopper, [LauncherNext]_launcherVars PROVE Stopper'
  OBVIOUS
<1>1. CASE \/ Boot \/ tryAgain \/ RestartWaited \/ RestartStarts \/ Click \/ SessionAnswers \/ UNCHANGED launcherVars
           \/ \E k \in Programs : Crashes(k) \/ exitedOnItsOwn(k) \/ StartAgain(k) \/ keepStarting(k)
  BY <1>1, Beside, AsideKeeps DEF Stopper
<1>2. CASE RestartAsks \/ \E k \in Programs, who \in {"restart", "stop"} : Ends(k, who) BY <1>2, LeavingStep
<1>3. CASE Quit \/ SessionAsks \/ Shutdown BY <1>3, StopStep
<1> QED BY <1>1, <1>2, <1>3 DEF LauncherNext, Restart

\* When the launcher exits nothing it started is left running unasked, and unless the session ends it
\* stops nothing before the miner is gone (startTracked, stopAll).
THEOREM StopLeavesNothing == LauncherSpec => []StopsCleanly
<1>1. Stopper => StopsCleanly
  <2> SUFFICES ASSUME Stopper PROVE StopsCleanly
    OBVIOUS
  <2>1. NothingLeftRunning BY DEF Stopper, StopTakesAll, NothingLeftRunning
  <2>2. MinerStopsFirst
    <3> SUFFICES ASSUME quit = "stopping", ~forced, Programs \ todo # {}
                 PROVE  run["stratum"] = "none" /\ ("stop" \in leaving["stratum"] => todo = Programs \ {"stratum"})
      BY DEF MinerStopsFirst
    <3>1. "stratum" \in Programs \ todo BY DEF Stopper, MinerFirst, Programs
    <3> QED BY <3>1 DEF Stopper, MinerFirst, StopTakesAll
  <2> QED BY <2>1, <2>2 DEF StopsCleanly
<1> QED BY <1>1, InitStopper, NextStopper, PTL DEF LauncherSpec

=============================================================================
