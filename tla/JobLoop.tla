------------------------------ MODULE JobLoop ------------------------------
(***************************************************************************)
(* The stratum's job loop (cmd/stratum/job_loop.go, job_refresh.go,        *)
(* tides.go) with the registration half of the TIDES gateway               *)
(* (internal/tidesgw/gateway.go).                                          *)
(*                                                                         *)
(* One goroutine turns the BCH2 node's block templates into jobs.  Beside  *)
(* it run the dashboard watcher, which changes the payout mode and the     *)
(* addresses, one goroutine that registers a TIDES job at the pool, and    *)
(* the poller of the 1175 node (module AuxPoller; here only the cached     *)
(* work a job reads).  A turn of the loop is several steps because the     *)
(* others run between the template, the decision, the build and the send.  *)
(*                                                                         *)
(* A template is named by the block it builds on.  A job is the record of  *)
(* what decides where its block pays.  The clock is flags that may be      *)
(* raised at any time: 15 s since the last job, 5 s since the last new     *)
(* block's work, 45 s since the TIDES job was registered, one minute since *)
(* the pool was last tried.                                                *)
(***************************************************************************)
EXTENDS Naturals, FiniteSets

CONSTANTS
    Blocks,      \* blocks a node's tip may be
    Height,      \* their heights, from 1
    Addrs,       \* BCH2 payout addresses the dashboard may save
    AuxAddrs,    \* 1175 payout addresses the dashboard may save
    AuxTips,     \* 1175 tips aux work may build on
    Modes,       \* payout modes the dashboard may save
    NoAddr,      \* the empty address
    None         \* no block, no job, no aux work, no registration

ASSUME HeightAssumption == Height \in [Blocks -> Nat \ {0}]
ASSUME NoneAssumption   == None \notin Blocks /\ None \notin AuxTips
ASSUME AddrAssumption   == NoAddr \notin Addrs /\ NoAddr \notin AuxAddrs
ASSUME ModesAssumption  == Modes \subseteq {"solo", "tides"} /\ "solo" \in Modes

VARIABLES
    tip,         \* the BCH2 node's tip
    poolTip,     \* the pool's node's tip
    mode,        \* payoutModeVal
    payAddr,     \* jm.payoutAddr
    auxPay,      \* jm.auxPayout, NoAddr while merge mining is off
    auxTip,      \* the cached aux work, by the 1175 tip it builds on
    wpc,         \* the watcher: idle, or about to store the mode TIDES
    gwState,     \* g.state
    waitHeight,  \* g.waitHeight
    gwTip,       \* g.tip: the block the newest tracked TIDES job builds on
    young,       \* that job was registered less than KeepFor ago
    retryDue,    \* g.lastTry is at least RetryEvery ago
    pc,          \* where the loop is in its turn
    turn,        \* the turn's locals: template and isNewBlock
    job,         \* the job built, not yet sent
    cur,         \* the current job
    last,        \* l.lastHeight and l.lastPrevHash
    pending,     \* l.pending and the answer in its channel
    old,         \* periodicJobEvery has passed since l.lastJobTime
    asked,       \* tidesRefreshWanted
    spaced,      \* catchUpEvery has passed since l.lastNewBlockAt
    live         \* the jobs miners may still be working on

node  == <<tip, poolTip>>
dash  == <<mode, payAddr, auxPay, auxTip, wpc>>
gw    == <<gwState, waitHeight, gwTip, young, retryDue>>
loop  == <<pc, turn, job, cur, last, pending, old, asked, spaced, live>>
loopVars  == <<node, dash, gw, loop>>

SoloJobs  == [prev : Blocks, tides : {FALSE}, payTo : Addrs,
              aux : AuxTips \cup {None}, auxPayTo : AuxAddrs \cup {NoAddr}]
TidesJobs == [prev : Blocks, tides : {TRUE}, payTo : {NoAddr},
              aux : {None}, auxPayTo : {NoAddr}]
AllJobs == SoloJobs \cup TidesJobs

\* The pool's answer: a registration, or an error; wait is the height a
\* StaleError says to wait for, 0 in any other error.
Answers == [ok : BOOLEAN, wait : Nat]
Registrations == [prev : Blocks, new : BOOLEAN, answer : Answers \cup {None}]

NoTurn == [prev |-> None, new |-> FALSE]

LoopInit ==
    /\ tip \in Blocks /\ poolTip \in Blocks
    /\ Height[tip] = 1 /\ Height[poolTip] = 1
    /\ mode \in Modes
    /\ payAddr \in Addrs \cup {NoAddr}
    /\ auxPay = NoAddr /\ auxTip = None
    /\ wpc = "idle"
    /\ gwState = "starting" /\ waitHeight = 0 /\ gwTip = None
    /\ young = FALSE /\ retryDue = TRUE
    /\ pc = "idle" /\ turn = NoTurn /\ job = None
    /\ cur = None /\ last = None /\ pending = None
    /\ old = TRUE /\ asked = FALSE /\ spaced = TRUE
    /\ live = {}

----------------------------------------------------------------------------
(* The gateway, one operator per method.  Each runs under one hold of g.mu. *)

DueAt(new, height) ==
    \/ gwState # "fallback"
    \/ new /\ waitHeight > 0 /\ height >= waitHeight
    \/ ~new /\ retryDue

Due(new) == DueAt(new, 0)

Track(prev) ==
    /\ gwState' = "active" /\ gwTip' = prev /\ young' = TRUE
    /\ UNCHANGED <<waitHeight, retryDue>>

Fallback(answer) ==
    /\ gwState' = "fallback" /\ waitHeight' = answer.wait
    /\ UNCHANGED <<gwTip, young, retryDue>>

Reset ==
    /\ gwState' = "starting" /\ retryDue' = TRUE
    /\ UNCHANGED <<waitHeight, gwTip, young>>

----------------------------------------------------------------------------
(* What decides whether a job is due, and whether miners must drop work.    *)

\* fetchAuxWork: auxTip is None whenever merge mining is off.
TidesJob(prev) == [prev |-> prev, tides |-> TRUE, payTo |-> NoAddr, aux |-> None, auxPayTo |-> NoAddr]
SoloJob(prev)  == [prev |-> prev, tides |-> FALSE, payTo |-> payAddr, aux |-> auxTip, auxPayTo |-> auxPay]

payoutChanged == cur # None /\ ~cur.tides /\ cur.payTo # payAddr

auxChanged == cur # None /\ ~cur.tides /\ (cur.auxPayTo # auxPay \/ cur.aux # auxTip)

\* (mutant of jobDue) in solo a changed BCH2 address waits for the periodic job.
jobDueNoAddress(new, periodic, modeSwitch, tides) ==
    new \/ periodic \/ modeSwitch \/ (~tides /\ auxChanged)

jobDue(new, periodic, modeSwitch, tides) ==
    new \/ periodic \/ modeSwitch \/ (~tides /\ (payoutChanged \/ auxChanged))

mustDropWork(new) ==
    \/ new \/ cur = None \/ job.tides # cur.tides \/ job.payTo # cur.payTo
    \/ cur.aux # None /\ job.auxPayTo # cur.auxPayTo

----------------------------------------------------------------------------
(* The loop.                                                                *)

\* The node's template, for its tip; none while there is no address to pay.
GetBlockTemplate == IF payAddr = NoAddr THEN None ELSE tip

\* A tick or a notice, and the node's template.  No template: nothing changes.
Fetch ==
    /\ pc = "idle" /\ GetBlockTemplate # None
    /\ pc' = "decide" /\ turn' = [NoTurn EXCEPT !.prev = GetBlockTemplate]
    /\ UNCHANGED <<node, dash, gw, job, cur, last, pending, old, asked, spaced, live>>

isNewBlock == turn.prev # last \/ cur = None
tides      == mode = "tides"
dropped    == IF isNewBlock \/ ~tides THEN None ELSE pending

\* The turn ends and nothing is sent; p is the registration still running.
EndTurn(p) == pc' = "idle" /\ turn' = NoTurn /\ pending' = p

\* (mutant of CatchUp) the work of every block waits while the node is behind.
CatchUpUnbounded ==
    /\ pc = "decide" /\ isNewBlock
    /\ EndTurn(dropped)
    /\ UNCHANGED <<node, dash, gw, job, cur, last, old, asked, spaced, live>>

\* The node says it is behind its headers, within 5 s of the last block's work.
CatchUp ==
    /\ pc = "decide" /\ isNewBlock /\ ~spaced
    /\ EndTurn(dropped)
    /\ UNCHANGED <<node, dash, gw, job, cur, last, old, asked, spaced, live>>

\* The answer of the registration under way will make the next job.
LeaveToPending ==
    /\ pc = "decide" /\ dropped # None
    /\ EndTurn(dropped)
    /\ UNCHANGED <<node, dash, gw, job, cur, last, old, asked, spaced, live>>

\* (mutant of modeSwitch) leaving TIDES waits for the next periodic job.
modeSwitchToTides == cur # None /\ ~cur.tides /\ tides /\ Due(FALSE)

modeSwitch == cur # None /\ cur.tides # tides /\ (~tides \/ Due(FALSE))
due == jobDue(isNewBlock, old \/ asked, modeSwitch, tides)

NothingDue ==
    /\ pc = "decide" /\ dropped = None /\ ~due
    /\ EndTurn(None)
    /\ asked' = FALSE
    /\ UNCHANGED <<node, dash, gw, job, cur, last, old, spaced, live>>

\* Solo, or TIDES with the pool not due to be asked: build a solo job.
DecideSolo ==
    /\ pc = "decide" /\ dropped = None /\ due
    /\ ~tides \/ ~DueAt(isNewBlock, Height[turn.prev])
    /\ pc' = "build"
    /\ turn' = [turn EXCEPT !.new = isNewBlock]
    /\ pending' = None /\ asked' = FALSE
    /\ UNCHANGED <<node, dash, gw, job, cur, last, old, spaced, live>>

\* register, and for a new block wait for the answer.
DecideTides ==
    /\ pc = "decide" /\ dropped = None /\ due
    /\ tides /\ DueAt(isNewBlock, Height[turn.prev])
    /\ pending' = [prev |-> turn.prev, new |-> isNewBlock, answer |-> None]
    /\ retryDue' = FALSE
    /\ IF isNewBlock
       THEN pc' = "wait" /\ turn' = [turn EXCEPT !.new = TRUE]
       ELSE pc' = "idle" /\ turn' = NoTurn
    /\ asked' = FALSE
    /\ UNCHANGED <<node, dash, gwState, waitHeight, gwTip, young, job, cur, last, old, spaced, live>>

\* tidesAnswer: the pool's job, the job miners have, or a solo job meanwhile.
KeepsTip(r) == ~r.new /\ cur # None /\ cur.tides /\ cur.prev = r.prev /\ young

tidesAnswer(r) ==
    \/ /\ r.answer.ok
       /\ Track(r.prev)
       /\ job' = TidesJob(r.prev) /\ pc' = "send" /\ UNCHANGED old
    \/ /\ ~r.answer.ok /\ KeepsTip(r)
       /\ pc' = "idle" /\ old' = FALSE /\ UNCHANGED <<gw, job>>
    \/ /\ ~r.answer.ok /\ ~KeepsTip(r)
       /\ Fallback(r.answer)
       /\ pc' = "build" /\ UNCHANGED <<job, old>>

WaitAnswer ==
    /\ pc = "wait" /\ pending.answer # None
    /\ tidesAnswer(pending)
    /\ pending' = None
    /\ UNCHANGED <<node, dash, turn, cur, last, asked, spaced, live>>

\* newBlockWait passed: solo work goes out, and the registration runs on.
WaitTimeout ==
    /\ pc = "wait"
    /\ pc' = "build"
    /\ UNCHANGED <<node, dash, gw, turn, job, cur, last, pending, old, asked, spaced, live>>

Build ==
    /\ pc = "build"
    /\ job' = SoloJob(turn.prev) /\ pc' = "send"
    /\ UNCHANGED <<node, dash, gw, turn, cur, last, pending, old, asked, spaced, live>>

\* (mutant of Send) the block noted as served is the node's tip, read again.
SendNotesTip ==
    /\ pc = "send"
    /\ cur' = job
    /\ live' = IF mustDropWork(turn.new) THEN {job} ELSE live \cup {job}
    /\ last' = tip
    /\ spaced' = (spaced /\ ~turn.new)
    /\ old' = FALSE
    /\ pc' = "idle" /\ turn' = NoTurn /\ job' = None
    /\ UNCHANGED <<node, dash, gw, pending, asked>>

Send ==
    /\ pc = "send"
    /\ cur' = job
    /\ live' = IF mustDropWork(turn.new) THEN {job} ELSE live \cup {job}
    /\ last' = turn.prev
    /\ spaced' = (spaced /\ ~turn.new)
    /\ old' = FALSE
    /\ pc' = "idle" /\ turn' = NoTurn /\ job' = None
    /\ UNCHANGED <<node, dash, gw, pending, asked>>

\* finish: an answer for another block or after TIDES was left is thrown away.
Finish ==
    /\ pc = "idle" /\ pending # None /\ pending.answer # None
    /\ pending' = None
    /\ IF ~tides \/ pending.prev # last
       THEN UNCHANGED <<gw, pc, turn, job, old>>
       ELSE IF ~pending.answer.ok /\ pending.new
       THEN Fallback(pending.answer) /\ UNCHANGED <<pc, turn, job, old>>
       ELSE /\ tidesAnswer(pending)
            /\ turn' = IF pc' = "idle" THEN NoTurn ELSE [prev |-> pending.prev, new |-> FALSE]
    /\ UNCHANGED <<node, dash, cur, last, asked, spaced, live>>

Loop == Fetch \/ CatchUp \/ LeaveToPending \/ NothingDue \/ DecideSolo \/ DecideTides
        \/ WaitAnswer \/ WaitTimeout \/ Build \/ Send \/ Finish

----------------------------------------------------------------------------
(* The pool and the two nodes.                                              *)

\* RegisterCtx ends within RegisterFor.  The pool takes a job on its own tip
\* only; it may fail or refuse any job, as stale when it is on another block.
GoodAnswer == [ok |-> TRUE, wait |-> 0]
StaleWaits(prev) == {Height[prev]} \cup {h \in {Height[poolTip]} : h > Height[prev]}

\* (mutant of PoolTakes) the gateway's tip moves when the pool takes the job, not when miners get it.
PoolTakesTracks ==
    /\ pending # None /\ pending.answer = None /\ pending.prev = poolTip
    /\ pending' = [pending EXCEPT !.answer = GoodAnswer]
    /\ gwTip' = pending.prev
    /\ UNCHANGED <<node, dash, gwState, waitHeight, young, retryDue,
                   pc, turn, job, cur, last, old, asked, spaced, live>>

PoolTakes ==
    /\ pending # None /\ pending.answer = None /\ pending.prev = poolTip
    /\ pending' = [pending EXCEPT !.answer = GoodAnswer]
    /\ UNCHANGED <<node, dash, gw, pc, turn, job, cur, last, old, asked, spaced, live>>

PoolRefuses ==
    /\ pending # None /\ pending.answer = None
    /\ \E w \in {0} \cup (IF pending.prev = poolTip THEN {} ELSE StaleWaits(pending.prev)) :
           pending' = [pending EXCEPT !.answer = [ok |-> FALSE, wait |-> w]]
    /\ UNCHANGED <<node, dash, gw, pc, turn, job, cur, last, old, asked, spaced, live>>

NodeMoves(b) ==
    /\ Height[b] > Height[tip]
    /\ tip' = b
    /\ UNCHANGED <<poolTip, dash, gw, loop>>

PoolMoves(b) ==
    /\ Height[b] > Height[poolTip]
    /\ poolTip' = b
    /\ UNCHANGED <<tip, dash, gw, loop>>

----------------------------------------------------------------------------
(* The dashboard watcher, a login, and the aux cache.                       *)

SetAddress(a) ==
    /\ wpc = "idle" /\ payAddr # a
    /\ payAddr' = a
    /\ UNCHANGED <<node, mode, auxPay, auxTip, wpc, gw, loop>>

\* applyTidesMode("tides"): 1175 off and the gateway reset, then the mode.
ToTides ==
    /\ wpc = "idle" /\ mode = "solo" /\ "tides" \in Modes
    /\ auxPay' = NoAddr /\ auxTip' = None
    /\ Reset
    /\ wpc' = "tides"
    /\ UNCHANGED <<node, mode, payAddr, loop>>

StoreTides ==
    /\ wpc = "tides"
    /\ mode' = "tides" /\ wpc' = "idle"
    /\ UNCHANGED <<node, payAddr, auxPay, auxTip, gw, loop>>

ToSolo ==
    /\ wpc = "idle" /\ mode = "tides"
    /\ mode' = "solo"
    /\ UNCHANGED <<node, payAddr, auxPay, auxTip, wpc, gw, loop>>

\* Merge mining on, re-pointed (solo only) or off: the cached work is dropped.
SwitchAux(a) ==
    /\ wpc = "idle" /\ auxPay # a
    /\ a # NoAddr => mode = "solo"
    /\ auxPay' = a /\ auxTip' = None
    /\ UNCHANGED <<node, mode, payAddr, wpc, gw, loop>>

\* The poller stores work, or the work it stored grows too old to use.
AuxWorkChanges(t) ==
    /\ auxPay # NoAddr /\ auxTip # t
    /\ auxTip' = t
    /\ UNCHANGED <<node, mode, payAddr, auxPay, wpc, gw, loop>>

\* tidesLoginCheck: a miner above the difficulty the current job commits to.
LoginAsks ==
    /\ mode = "tides" /\ cur # None /\ cur.tides /\ ~asked
    /\ asked' = TRUE
    /\ UNCHANGED <<node, dash, gw, pc, turn, job, cur, last, pending, old, spaced, live>>

Watcher == \/ (\E a \in Addrs : SetAddress(a)) \/ ToTides \/ StoreTides \/ ToSolo
           \/ (\E a \in AuxAddrs \cup {NoAddr} : SwitchAux(a))

\* The clock.
PeriodComesDue == ~old /\ old' = TRUE
    /\ UNCHANGED <<node, dash, gw, pc, turn, job, cur, last, pending, asked, spaced, live>>
SpacingPasses == ~spaced /\ spaced' = TRUE
    /\ UNCHANGED <<node, dash, gw, pc, turn, job, cur, last, pending, old, asked, live>>
KeepForPasses == young /\ young' = FALSE
    /\ UNCHANGED <<node, dash, gwState, waitHeight, gwTip, retryDue, loop>>
RetryComesDue == ~retryDue /\ retryDue' = TRUE
    /\ UNCHANGED <<node, dash, gwState, waitHeight, gwTip, young, loop>>

Clock == PeriodComesDue \/ SpacingPasses \/ KeepForPasses \/ RetryComesDue

LoopNext ==
    \/ Loop \/ PoolTakes \/ PoolRefuses
    \/ (\E b \in Blocks : NodeMoves(b) \/ PoolMoves(b))
    \/ Watcher \/ (\E t \in AuxTips \cup {None} : AuxWorkChanges(t)) \/ LoginAsks \/ Clock

\* The loop's goroutine runs, its select does not pass over a channel for ever,
\* the clock moves on, and the watcher finishes what it began.  The node is up;
\* a registration is answered or times out, and a pool that is up and on the
\* job's block does not refuse every one.  The two nodes end on one chain.
\* The periodic job (PeriodComesDue) is left unfair: nothing below waits for it.
Fairness ==
    /\ SF_loopVars(Fetch) /\ SF_loopVars(Finish)
    /\ WF_loopVars(CatchUp \/ LeaveToPending \/ NothingDue \/ DecideSolo \/ DecideTides)
    /\ WF_loopVars(WaitTimeout \/ WaitAnswer) /\ WF_loopVars(Build) /\ WF_loopVars(Send)
    /\ WF_loopVars(PoolTakes \/ PoolRefuses) /\ SF_loopVars(PoolTakes)
    /\ WF_loopVars(SpacingPasses) /\ WF_loopVars(RetryComesDue)
    /\ WF_loopVars(StoreTides)
    /\ WF_loopVars(\E b \in Blocks : NodeMoves(b)) /\ WF_loopVars(\E b \in Blocks : PoolMoves(b))

LoopSpec == LoopInit /\ [][LoopNext]_loopVars
LiveSpec == LoopSpec /\ Fairness

----------------------------------------------------------------------------
(* Properties.                                                              *)

DashTypes == /\ mode \in Modes /\ payAddr \in Addrs \cup {NoAddr}
             /\ auxPay \in AuxAddrs \cup {NoAddr} /\ auxTip \in AuxTips \cup {None}
             /\ wpc \in {"idle", "tides"}
NodeTypes == tip \in Blocks /\ poolTip \in Blocks
GwTypes   == /\ gwState \in {"starting", "active", "fallback"} /\ waitHeight \in Nat
             /\ gwTip \in Blocks \cup {None}
FlagTypes == /\ young \in BOOLEAN /\ retryDue \in BOOLEAN
             /\ old \in BOOLEAN /\ asked \in BOOLEAN /\ spaced \in BOOLEAN
JobTypes  == /\ job \in AllJobs \cup {None} /\ cur \in AllJobs \cup {None}
             /\ last \in Blocks \cup {None} /\ live \subseteq AllJobs
TurnTypes == /\ pc \in {"idle", "decide", "wait", "build", "send"}
             /\ turn \in [prev : Blocks \cup {None}, new : BOOLEAN]
             /\ pending \in Registrations \cup {None}

\* Every variable keeps its type.  A solo job pays one of the addresses: no job is built while
\* mining is paused for want of one (job_loop.go:182-188).
TypeOK == DashTypes /\ NodeTypes /\ GwTypes /\ FlagTypes /\ JobTypes /\ TurnTypes

\* While miners are on a TIDES job the gateway's tip is the block they are on, so the shares they
\* send are not dropped as stale (job_loop.go:497-500, Flush): a late or out of order answer of the
\* pool never moves the gateway to another block than the miners.
TidesTipAgrees == cur # None /\ cur.tides /\ pc # "send" => gwTip = cur.prev

\* Whatever job a miner is still on, it builds on the current block, is for the current payout
\* mode and pays the current BCH2 address: a job that changes one of these is sent with clean_jobs
\* (mustDropWork), over any sequence of jobs that let miners keep their work.
LiveJobsPayAlike ==
    \A j \in live : j.prev = cur.prev /\ j.tides = cur.tides /\ j.payTo = cur.payTo

\* A block's work reaches the miners whatever the pool does and whenever it came: not held up by a
\* registration, an answer, or a node that stays behind its headers (job_loop.go:360-366, 436-440).
NewBlockGetsWork ==
    \A b \in Blocks : (tip = b /\ payAddr # NoAddr) ~> (tip # b \/ (cur # None /\ cur.prev = b))

\* Leaving TIDES moves the miners to solo work without waiting for the periodic job.
TidesLeft == (mode = "solo") ~> (mode # "solo" \/ cur = None \/ ~cur.tides)

\* While TIDES is the mode, and the two nodes come to agree, miners get (back) to TIDES work however
\* the pool failed before: every fall back ends (Due, DueAt).
TidesRegained ==
    (mode = "tides" /\ payAddr # NoAddr) ~> (mode # "tides" \/ (cur # None /\ cur.tides))

\* Either way the mode the user chose takes effect, whatever was under way when it was chosen.
ModeTakesEffect == TidesLeft /\ TidesRegained

\* In solo a new BCH2 address is paid by the next job, which does not wait for the periodic one.
AddressTakesEffect ==
    \A a \in Addrs : (mode = "solo" /\ payAddr = a)
                         ~> (mode # "solo" \/ payAddr # a \/ (cur # None /\ cur.payTo = a))

\* In solo, with an address set, the current job comes to carry the 1175 work and address in effect,
\* without waiting for the periodic job.
AuxTakesEffect ==
    \A a \in AuxAddrs \cup {NoAddr}, t \in AuxTips \cup {None} :
        (mode = "solo" /\ payAddr # NoAddr /\ auxPay = a /\ auxTip = t)
            ~> (mode # "solo" \/ auxPay # a \/ auxTip # t
                  \/ (cur # None /\ cur.auxPayTo = a /\ cur.aux = t))

\* In solo every setting takes effect without the periodic job.
SettingsTakeEffect == AddressTakesEffect /\ AuxTakesEffect

=============================================================================
