----------------------------- MODULE AuxPoller -----------------------------
(***************************************************************************)
(* The 1175 (aux chain) work cache of internal/mining/jobs.go.             *)
(*                                                                         *)
(* Three threads share JobManager.mu and the cached aux work:              *)
(*   - the dashboard watcher, which turns merge mining on, re-points it to *)
(*     another 1175 address, or turns it off;                              *)
(*   - the background poller (auxRefreshLoop), which asks the aux node for *)
(*     its tip and for work and stores the answer;                         *)
(*   - the job loop, which reads the cache for each BCH2 job and never     *)
(*     waits (JobWork below).                                              *)
(* A call to the aux node is two steps, the node answering and the answer  *)
(* being stored: everything else may happen between them.  What the code   *)
(* does under one hold of jm.mu is one step.  Ages (15 s between fetches,  *)
(* 20 s of usable work) are flags that the clock may raise at any time.    *)
(***************************************************************************)
EXTENDS Integers

CONSTANTS
    Addrs,       \* 1175 payout addresses the dashboard may save
    NoAddr,      \* the empty address: merge mining off
    NoWork,      \* no aux work (nil), or an RPC that failed
    MaxGen,      \* bound: enables and disables in one behaviour
    MaxTip       \* bound: aux blocks found in one behaviour

ASSUME NoAddrAssumption == NoAddr \notin Addrs
ASSUME NoWorkAssumption == NoWork \notin [tip : Nat, payTo : Addrs]
ASSUME BoundAssumption  == MaxGen \in Nat /\ MaxTip \in Nat

VARIABLES
    tip,         \* the aux node's chain tip, counted
    enabled,     \* jm.auxEnabled (jm.auxClient is non-nil exactly then)
    payout,      \* jm.auxPayout
    gen,         \* jm.auxGen
    work,        \* jm.auxWork and its commitment
    young,       \* jm.auxWorkAt is less than auxWorkMaxAge ago
    due,         \* jm.auxTriedAt is at least auxRefreshInterval ago
    active,      \* jm.auxRefreshActive
    wake,        \* a token waits in jm.auxRefreshNow
    poller,      \* the poller's local state
    watcher      \* the local state of EnableMergeMining

jm == <<enabled, payout, gen, work, young, due, active, wake>>
cacheVars == <<tip, jm, poller, watcher>>

Work == [tip : Nat, payTo : Addrs]

\* What a poller reads of the JobManager in one hold of the lock.
Snapshot == [payTo : Addrs \cup {NoAddr}, gen : Nat, work : Work \cup {NoWork}]
View == [payTo |-> payout, gen |-> gen, work |-> work]
NoView == [payTo |-> NoAddr, gen |-> 0, work |-> NoWork]

PollerState == [pc      : {"none", "read", "seenOff", "choose", "ask", "store", "sleep"},
                forced  : BOOLEAN,
                lastTip : Nat \cup {-1},
                saw     : Snapshot,
                answer  : Work \cup {NoWork}]

WatcherState == [pc     : {"idle", "ask", "store", "start"},
                 payTo  : Addrs \cup {NoAddr},
                 gen    : Nat,
                 start  : BOOLEAN,
                 answer : Work \cup {NoWork}]

NoPoller == [pc |-> "none", forced |-> FALSE, lastTip |-> -1,
             saw |-> NoView, answer |-> NoWork]

\* Waiting for the poll interval: the locals of the pass just made are gone.
Asleep(p) == [p EXCEPT !.pc = "sleep", !.forced = FALSE, !.saw = NoView, !.answer = NoWork]

CacheInit ==
    /\ tip = 0
    /\ enabled = FALSE /\ payout = NoAddr /\ gen = 0
    /\ work = NoWork /\ young = FALSE /\ due = TRUE
    /\ active = FALSE /\ wake = FALSE
    /\ poller = NoPoller
    /\ watcher = [pc |-> "idle", payTo |-> NoAddr, gen |-> 0, start |-> FALSE, answer |-> NoWork]

----------------------------------------------------------------------------
(* The dashboard watcher.                                                   *)

\* jm.auxWork, auxCommitment and auxWorkAt are dropped on every switch.
DropWork == work' = NoWork /\ young' = FALSE

\* (mutant of Disable) it clears auxRefreshActive itself, while the poller still runs.
DisableClearsActive ==
    /\ watcher.pc = "idle" /\ enabled /\ gen < MaxGen
    /\ enabled' = FALSE /\ payout' = NoAddr /\ gen' = gen + 1
    /\ DropWork
    /\ active' = FALSE
    /\ UNCHANGED <<tip, due, wake, poller, watcher>>

\* DisableMergeMining: the callers hold it back unless merge mining is on.
Disable ==
    /\ watcher.pc = "idle" /\ enabled /\ gen < MaxGen
    /\ enabled' = FALSE /\ payout' = NoAddr /\ gen' = gen + 1
    /\ DropWork
    /\ UNCHANGED <<tip, due, active, wake, poller, watcher>>

\* EnableMergeMining up to its Unlock: a first address, or a re-point.
Enable(a) ==
    /\ watcher.pc = "idle" /\ payout # a /\ gen < MaxGen
    /\ enabled' = TRUE /\ payout' = a /\ gen' = gen + 1
    /\ DropWork
    /\ active' = TRUE
    /\ watcher' = [pc |-> "ask", payTo |-> a, gen |-> gen + 1, start |-> ~active, answer |-> NoWork]
    /\ UNCHANGED <<tip, due, wake, poller>>

\* The node's answer to getauxblock for address a: work on its tip, or an error.
Answers(a) == {NoWork, [tip |-> tip, payTo |-> a]}

PrimeAsk ==
    /\ watcher.pc = "ask"
    /\ \E w \in Answers(watcher.payTo) : watcher' = [watcher EXCEPT !.pc = "store", !.answer = w]
    /\ UNCHANGED <<tip, jm, poller>>

\* (mutant of Store) the generation is not compared.
StoreAnyGeneration(w, g) ==
    /\ due' = FALSE
    /\ IF w = NoWork
       THEN UNCHANGED <<work, young>>
       ELSE work' = w /\ young' = TRUE

\* The end of refreshAuxOnce: an answer for another generation is thrown away.
Store(w, g) ==
    IF g # gen
    THEN UNCHANGED <<work, young, due>>
    ELSE /\ due' = FALSE
         /\ IF w = NoWork
            THEN UNCHANGED <<work, young>>
            ELSE work' = w /\ young' = TRUE

PrimeStore ==
    /\ watcher.pc = "store"
    /\ Store(watcher.answer, watcher.gen)
    /\ watcher' = [watcher EXCEPT !.pc = IF watcher.start THEN "start" ELSE "idle"]
    /\ UNCHANGED <<tip, enabled, payout, gen, active, wake, poller>>

\* go jm.auxRefreshLoop(): the goroutine's locals start over.
StartPoller ==
    /\ watcher.pc = "start"
    /\ poller' = [NoPoller EXCEPT !.pc = "read"]
    /\ watcher' = [watcher EXCEPT !.pc = "idle", !.start = FALSE]
    /\ UNCHANGED <<tip, jm>>

----------------------------------------------------------------------------
(* The poller: auxRefreshLoop.                                              *)

\* One hold of the read lock: enabled, client, payout, gen and work together.
PollRead ==
    /\ poller.pc = "read"
    /\ poller' = [poller EXCEPT !.pc = IF enabled THEN "choose" ELSE "seenOff", !.saw = View]
    /\ UNCHANGED <<tip, jm, watcher>>

\* It saw merge mining off: take the lock again, say so, and return.
PollExit ==
    /\ poller.pc = "seenOff"
    /\ active' = FALSE
    /\ poller' = NoPoller
    /\ UNCHANGED <<tip, enabled, payout, gen, work, young, due, wake, watcher>>

\* (mutant of PollChoose) a fetch for each new tip only: no age rule.
PollChooseByTipOnly ==
    /\ poller.pc = "choose"
    /\ IF /\ poller.saw.work # NoWork
          /\ tip # poller.lastTip /\ tip # poller.saw.work.tip
       THEN poller' = [poller EXCEPT !.pc = "ask", !.lastTip = tip]
       ELSE poller' = Asleep(poller)
    /\ UNCHANGED <<tip, jm, watcher>>

\* Fetch when asked to or when the last try is old; otherwise ask for the tip,
\* and fetch once for each new tip.  The tip call may fail.
PollChoose ==
    /\ poller.pc = "choose"
    /\ \/ /\ poller.forced \/ due
          /\ poller' = [poller EXCEPT !.pc = "ask"]
       \/ /\ ~poller.forced /\ ~due /\ poller.saw.work # NoWork
          /\ tip # poller.lastTip /\ tip # poller.saw.work.tip
          /\ poller' = [poller EXCEPT !.pc = "ask", !.lastTip = tip]
       \/ /\ ~poller.forced /\ ~due
          /\ poller' = Asleep(poller)
    /\ UNCHANGED <<tip, jm, watcher>>

PollAsk ==
    /\ poller.pc = "ask"
    /\ \E w \in Answers(poller.saw.payTo) : poller' = [poller EXCEPT !.pc = "store", !.answer = w]
    /\ UNCHANGED <<tip, jm, watcher>>

PollStore ==
    /\ poller.pc = "store"
    /\ Store(poller.answer, poller.saw.gen)
    /\ poller' = Asleep(poller)
    /\ UNCHANGED <<tip, enabled, payout, gen, active, wake, watcher>>

\* select: the poll interval passes, or RefreshAuxNow's token arrives.
PollWake ==
    /\ poller.pc = "sleep"
    /\ \/ poller' = [poller EXCEPT !.pc = "read"] /\ UNCHANGED wake
       \/ wake /\ wake' = FALSE /\ poller' = [poller EXCEPT !.pc = "read", !.forced = TRUE]
    /\ UNCHANGED <<tip, enabled, payout, gen, work, young, due, active, watcher>>

----------------------------------------------------------------------------
(* RefreshAuxNow, the aux chain and the clock.                              *)

\* A buffered channel of one: a second request while one waits is dropped.  The
\* channel exists from the first enable on, and is never closed.
RefreshAuxNow ==
    /\ gen > 0 /\ ~wake
    /\ wake' = TRUE
    /\ UNCHANGED <<tip, enabled, payout, gen, work, young, due, active, poller, watcher>>

TipMoves ==
    /\ tip < MaxTip
    /\ tip' = tip + 1
    /\ UNCHANGED <<jm, poller, watcher>>

WorkAges  == young /\ young' = FALSE
             /\ UNCHANGED <<tip, enabled, payout, gen, work, due, active, wake, poller, watcher>>
FetchComesDue == ~due /\ due' = TRUE
             /\ UNCHANGED <<tip, enabled, payout, gen, work, young, active, wake, poller, watcher>>

Watch == Disable \/ (\E a \in Addrs : Enable(a)) \/ PrimeAsk \/ PrimeStore \/ StartPoller
Poll  == PollRead \/ PollExit \/ PollChoose \/ PollAsk \/ PollStore \/ PollWake

CacheNext == Watch \/ Poll \/ RefreshAuxNow \/ TipMoves \/ WorkAges \/ FetchComesDue

\* Goroutines are scheduled, calls return (the client has a 3 s timeout), the
\* clock moves on, and an aux node that is up does not refuse for ever.
Fairness ==
    /\ WF_cacheVars(PrimeAsk) /\ WF_cacheVars(PrimeStore) /\ WF_cacheVars(StartPoller)
    /\ WF_cacheVars(Poll) /\ WF_cacheVars(FetchComesDue)
    /\ SF_cacheVars(PollAsk /\ poller'.answer # NoWork)

CacheSpec == CacheInit /\ [][CacheNext]_cacheVars
LiveSpec == CacheSpec /\ Fairness

\* fetchAuxWork: what the next BCH2 job commits to.
JobWork == IF enabled /\ work # NoWork /\ young THEN work ELSE NoWork

----------------------------------------------------------------------------
(* Properties.                                                              *)

SwitchTypes == enabled \in BOOLEAN /\ payout \in Addrs \cup {NoAddr} /\ gen \in Nat
CacheTypes  == work \in Work \cup {NoWork} /\ young \in BOOLEAN /\ due \in BOOLEAN
FlagTypes   == active \in BOOLEAN /\ wake \in BOOLEAN /\ tip \in Nat

\* Every variable keeps its type: the fields of JobManager, and the locals of its two threads.
TypeOK ==
    /\ SwitchTypes
    /\ CacheTypes
    /\ FlagTypes
    /\ poller \in PollerState
    /\ watcher \in WatcherState

\* A job can only commit to 1175 work that pays the address in effect, and to none while merge
\* mining is off: an answer asked for before a re-point never lands in the cache after it
\* (jobs.go:75-80 and the generation check of refreshAuxOnce).
WorkPaysAddressInEffect == work # NoWork => enabled /\ work.payTo = payout

\* A poller is started only when none runs: switching merge mining off and on again does not leave
\* two of them asking the node (auxRefreshActive, jobs.go:74 and 176-185).
OnePoller == watcher.pc # "idle" /\ watcher.start => poller.pc = "none"

\* While a poller runs and the node answers now and then, the cache comes to hold work on the aux
\* chain's tip once that tip stands still, whatever was refused, stored out of order or dropped on
\* the way (auxRefreshLoop's age rule, jobs.go:262-272).
FollowsTip ==
    \A t \in 0..MaxTip :
        (tip = t /\ enabled /\ poller.pc # "none")
            ~> (tip # t \/ ~enabled \/ poller.pc = "none" \/ (work # NoWork /\ work.tip = t))

=============================================================================
