------------------------------ MODULE Difficulty ------------------------------
(***************************************************************************)
(* The difficulty of one connection (internal/stratum/server.go).          *)
(*                                                                         *)
(* Three goroutines set client.Difficulty and send it: the connection's    *)
(* own reader (login, mining.suggest_difficulty, vardiff and the reduction *)
(* after rejected shares), BroadcastJob, which brings every miner down to  *)
(* a new block's network difficulty, and the idle rescue.  client.mu is    *)
(* held while the value is changed, client.sendMu while a message is       *)
(* queued: what is set and what is sent are separate steps, and some       *)
(* callers send the value they set, others the one in force by then.       *)
(*                                                                         *)
(* Difficulties are ranks: only their order matters.  The miner has had    *)
(* its first difficulty (mining.subscribe) when the model begins.  The     *)
(* grace after a raise (effectiveJudgingDifficulty) can only lower what a  *)
(* share is judged by and is taken as over.                                *)
(***************************************************************************)
EXTENDS Naturals, Sequences, FiniteSets

CONSTANTS
    Floor,        \* AbsoluteMinDiff: the least difficulty that is assigned
    MinDiff,      \* the most a share is judged by
    MaxDiff,      \* the most that is assigned
    Nets,         \* network difficulties of the blocks
    JobIds,       \* bound: job ids, used in turn
    MaxJobDiffs   \* jobs whose difficulty is recorded (maxJobDiffs, 128)

Diffs == 1..MaxDiff
Jobs  == 0..(JobIds - 1)
Unknown == 0

ASSUME RanksAssumption ==
    /\ Floor \in Nat \ {0} /\ MinDiff \in Nat /\ MaxDiff \in Nat
    /\ Floor <= MinDiff /\ MinDiff <= MaxDiff
    /\ Nets # {} /\ Nets \subseteq Diffs
ASSUME JobsAssumption == MaxJobDiffs \in Nat \ {0} /\ JobIds \in Nat /\ JobIds > MaxJobDiffs

Threads == {"reader", "broadcast", "idle"}

VARIABLES
    cur, net, clean,   \* currentJob: its id, network difficulty and clean_jobs
    assigned,          \* client.Difficulty
    lastSent,          \* client.LastDifficultySent
    authorized,        \* client.Authorized
    reduced,           \* DifficultyReducedFrom is set, within the cooldown
    jobDiff,           \* client.jobDiff, Unknown where there is no entry
    order,             \* client.jobDiffOrder
    pc,                \* where each goroutine is
    arg,               \* the value each is about to send, or the network difficulty it read
    held,              \* the job the reader is about to send
    sendMu,            \* the goroutine inside sendDifficultyAs or sendJob, or "free"
    wire,              \* the last set_difficulty queued for the miner
    told,              \* wire when each recorded job was queued, the least if it was sent again
    late               \* history: a network difficulty since replaced was used after BroadcastJob passed

jobv == <<cur, net, clean>>
rec  == <<jobDiff, order>>
vars == <<cur, net, clean, assigned, lastSent, authorized, reduced, jobDiff, order,
          pc, arg, held, sendMu, wire, told, late>>

Lower(a, b) == IF a < b THEN a ELSE b
Higher(a, b) == IF a < b THEN b ELSE a

belowNetwork(d, n) == IF n < Floor \/ d <= n THEN d ELSE n

Goto(t, where) == pc' = [pc EXCEPT ![t] = where]

Init ==
    /\ cur = 0 /\ net \in Nets /\ clean = TRUE
    /\ assigned = Floor /\ lastSent = Floor /\ wire = Floor
    /\ authorized = FALSE /\ reduced = FALSE
    /\ jobDiff = [j \in Jobs |-> Unknown] /\ order = <<>>
    /\ told = [j \in Jobs |-> Unknown]
    /\ pc = [t \in Threads |-> "idle"]
    /\ arg = [t \in Threads |-> Unknown]
    /\ held = 0 /\ sendMu = "free" /\ late = FALSE

----------------------------------------------------------------------------
(* Sending.                                                                 *)

\* After its set_difficulty, a goroutine goes on to its job or is done.
AfterDiff(t) ==
    IF pc[t] \notin {"diff", "diffOut"} \/ t = "idle" THEN "idle"
    ELSE IF t = "broadcast" THEN "job" ELSE "load"

\* sendDifficultyAs up to the queue: the value in force (pc "diff"), or the one given (pc "stale").
\* One sent within the last 500 ms is not sent again.
SendDifficulty(t) ==
    /\ pc[t] \in {"diff", "stale"} /\ sendMu = "free"
    /\ LET d == IF pc[t] = "diff" THEN assigned ELSE arg[t]
       IN  \/ d = lastSent /\ Goto(t, AfterDiff(t)) /\ arg' = [arg EXCEPT ![t] = Unknown]
              /\ UNCHANGED <<lastSent, sendMu>>
           \/ /\ lastSent' = d /\ sendMu' = t
              /\ arg' = [arg EXCEPT ![t] = d]
              /\ Goto(t, IF pc[t] = "diff" THEN "diffOut" ELSE "staleOut")
    /\ UNCHANGED <<jobv, assigned, authorized, reduced, rec, held, wire, told, late>>

QueueDifficulty(t) ==
    /\ pc[t] \in {"diffOut", "staleOut"}
    /\ wire' = arg[t] /\ sendMu' = "free"
    /\ arg' = [arg EXCEPT ![t] = Unknown]
    /\ Goto(t, AfterDiff(t))
    /\ UNCHANGED <<jobv, assigned, lastSent, authorized, reduced, rec, held, told, late>>

\* noteJobDifficulty: the lower of the two for a job sent twice; the oldest entry goes.
Note(j, d) ==
    IF jobDiff[j] # Unknown
    THEN jobDiff' = [jobDiff EXCEPT ![j] = Lower(@, d)] /\ UNCHANGED order
    ELSE IF Len(order) < MaxJobDiffs
    THEN jobDiff' = [jobDiff EXCEPT ![j] = d] /\ order' = Append(order, j)
    ELSE /\ jobDiff' = [jobDiff EXCEPT ![j] = d, ![Head(order)] = Unknown]
         /\ order' = Append(Tail(order), j)

JobOf(t) == IF t = "reader" THEN held ELSE cur

\* (mutant of SendJob) the record and the notify without sendMu.
SendJobUnlocked(t) ==
    /\ pc[t] = "job"
    /\ Note(JobOf(t), lastSent)
    /\ Goto(t, "jobOut")
    /\ UNCHANGED <<jobv, assigned, lastSent, authorized, reduced, arg, held, sendMu, wire, told, late>>

\* sendJob up to the queue.
SendJob(t) ==
    /\ pc[t] = "job" /\ sendMu = "free"
    /\ Note(JobOf(t), lastSent)
    /\ sendMu' = t /\ Goto(t, "jobOut")
    /\ UNCHANGED <<jobv, assigned, lastSent, authorized, reduced, arg, held, wire, told, late>>

\* The notify is queued: the miner stamps the job with the difficulty it has by then.
QueueJob(t) ==
    /\ pc[t] = "jobOut"
    /\ told' = [j \in Jobs |->
                  IF j = JobOf(t) THEN IF told[j] = Unknown THEN wire ELSE Lower(told[j], wire)
                  ELSE IF jobDiff[j] = Unknown THEN Unknown ELSE told[j]]
    /\ sendMu' = "free" /\ Goto(t, "idle")
    /\ UNCHANGED <<jobv, assigned, lastSent, authorized, reduced, rec, arg, held, wire, late>>

----------------------------------------------------------------------------
(* BroadcastJob.                                                            *)

\* A job on a new block is a clean one; a job on the same block has its network difficulty.
\* An id comes round again once its first job is off the record and on nobody's hands (bound).
StoreCurrent ==
    /\ pc["broadcast"] = "idle"
    /\ cur' = (cur + 1) % JobIds
    /\ jobDiff[cur'] = Unknown /\ (pc["reader"] \in {"job", "jobOut"} => held # cur')
    /\ \/ clean' = TRUE /\ net' \in Nets
       \/ clean' = FALSE /\ net' = net
    /\ Goto("broadcast", "lower")
    /\ UNCHANGED <<assigned, lastSent, authorized, reduced, rec, arg, held, sendMu, wire, told, late>>

\* (mutant of LowerToNetwork) the difficulty is sent again only when it was lowered, not on every clean job.
LowerToNetworkLazily ==
    /\ pc["broadcast"] = "lower"
    /\ assigned' = IF authorized THEN belowNetwork(assigned, net) ELSE assigned
    /\ Goto("broadcast", IF ~authorized THEN "idle" ELSE IF assigned' # assigned THEN "diff" ELSE "job")
    /\ late' = FALSE
    /\ UNCHANGED <<jobv, lastSent, authorized, reduced, rec, arg, held, sendMu, wire, told>>

\* Only a clean job, or a difficulty that was lowered, has the difficulty sent again.
LowerToNetwork ==
    /\ pc["broadcast"] = "lower"
    /\ assigned' = IF authorized THEN belowNetwork(assigned, net) ELSE assigned
    /\ Goto("broadcast",
            IF ~authorized THEN "idle" ELSE IF clean \/ assigned' # assigned THEN "diff" ELSE "job")
    /\ late' = FALSE
    /\ UNCHANGED <<jobv, lastSent, authorized, reduced, rec, arg, held, sendMu, wire, told>>

----------------------------------------------------------------------------
(* The connection's reader.                                                 *)

Reader(where) == pc["reader"] = where

\* authorize and mining.suggest_difficulty read the network difficulty before they lock client.mu.
ReadNet ==
    /\ Reader("idle")
    /\ \/ Goto("reader", "login")
       \/ authorized /\ Goto("reader", "suggest")
    /\ arg' = [arg EXCEPT !["reader"] = net]
    /\ UNCHANGED <<jobv, assigned, lastSent, authorized, reduced, rec, held, sendMu, wire, told, late>>

\* A password's difficulty, a remembered one, the floor, or (repeated) the one in force.
Login ==
    /\ Reader("login")
    /\ \E d \in Floor..MaxDiff \cup {assigned} : assigned' = belowNetwork(d, arg["reader"])
    /\ authorized' = TRUE
    /\ late' = (late \/ (assigned' # assigned /\ arg["reader"] # net))
    /\ Goto("reader", IF ~authorized \/ assigned' # assigned THEN "diff" ELSE "idle")
    /\ arg' = [arg EXCEPT !["reader"] = Unknown]
    /\ UNCHANGED <<jobv, lastSent, reduced, rec, held, sendMu, wire, told>>

\* The job sent after a login is the current one.
LoadJob ==
    /\ Reader("load")
    /\ held' = cur /\ Goto("reader", "job")
    /\ UNCHANGED <<jobv, assigned, lastSent, authorized, reduced, rec, arg, sendMu, wire, told, late>>

Suggest ==
    /\ Reader("suggest")
    /\ \E d \in Floor..MaxDiff :
          /\ assigned' = belowNetwork(d, arg["reader"])
          /\ arg' = [arg EXCEPT !["reader"] = assigned']
    /\ late' = (late \/ arg["reader"] # net)
    /\ Goto("reader", "stale")
    /\ UNCHANGED <<jobv, lastSent, authorized, reduced, rec, held, sendMu, wire, told>>

\* The level a retarget may come to: within the floor and the network's, and below the ceiling that
\* rejections left behind, which may be under the floor.
vardiffLevel(d, ceiling) == Lower(belowNetwork(d, net), ceiling)

\* Set under client.mu; sent after it is let go.
SetLevel(newDiff) ==
    /\ newDiff # assigned
    /\ assigned' = newDiff
    /\ arg' = [arg EXCEPT !["reader"] = newDiff]
    /\ Goto("reader", "stale")

\* adjustVardiff: whatever the share times make of the level.
Vardiff ==
    /\ Reader("idle") /\ authorized
    /\ \E d \in Floor..MaxDiff, ceiling \in IF reduced THEN 1..(MaxDiff - 1) ELSE {MaxDiff} :
          SetLevel(vardiffLevel(d, ceiling))
    /\ UNCHANGED <<jobv, lastSent, authorized, reduced, rec, held, sendMu, wire, told, late>>

\* handleSubmit: too many shares were rejected.
ReduceAfterRejections ==
    /\ Reader("idle") /\ authorized /\ assigned > Floor
    /\ \E half \in 1..(assigned - 1) :
          /\ assigned' = Higher(half, Floor)
          /\ arg' = [arg EXCEPT !["reader"] = assigned']
    /\ reduced' = TRUE
    /\ Goto("reader", "stale")
    /\ UNCHANGED <<jobv, lastSent, authorized, rec, held, sendMu, wire, told, late>>

CooldownEnds == reduced /\ reduced' = FALSE
    /\ UNCHANGED <<jobv, assigned, lastSent, authorized, rec, pc, arg, held, sendMu, wire, told, late>>

----------------------------------------------------------------------------
\* resetIdleDifficulties: no share was accepted from this connection.
IdleReset ==
    /\ pc["idle"] = "idle" /\ authorized /\ assigned > Floor
    /\ assigned' = Floor /\ Goto("idle", "diff")
    /\ UNCHANGED <<jobv, lastSent, authorized, reduced, rec, arg, held, sendMu, wire, told, late>>

Send(t) == SendDifficulty(t) \/ QueueDifficulty(t) \/ SendJob(t) \/ QueueJob(t)

Next ==
    \/ \E t \in Threads : Send(t)
    \/ StoreCurrent \/ LowerToNetwork
    \/ ReadNet \/ Login \/ LoadJob \/ Suggest \/ Vardiff \/ ReduceAfterRejections \/ CooldownEnds
    \/ IdleReset

\* Goroutines run on and get sendMu in turn; blocks go on being found.
Fairness ==
    /\ \A t \in Threads : SF_vars(Send(t))
    /\ WF_vars(LowerToNetwork) /\ WF_vars(LoadJob) /\ WF_vars(Login) /\ WF_vars(Suggest)
    /\ SF_vars(StoreCurrent /\ clean')

Spec == Init /\ [][Next]_vars
LiveSpec == Spec /\ Fairness

----------------------------------------------------------------------------
(* Properties.                                                              *)

\* shareFloorFor(judgeShare(...)) for a share on job j.
Judged(j) == Lower(MinDiff, IF jobDiff[j] = Unknown THEN assigned ELSE Lower(assigned, jobDiff[j]))

ValueTypes ==
    /\ cur \in Jobs /\ net \in Nets /\ clean \in BOOLEAN
    /\ assigned \in Diffs /\ lastSent \in Diffs /\ wire \in Diffs
    /\ authorized \in BOOLEAN /\ reduced \in BOOLEAN /\ late \in BOOLEAN

PlaceTypes ==
    /\ pc \in [Threads -> {"idle", "login", "suggest", "load", "lower", "diff", "diffOut",
                           "stale", "staleOut", "job", "jobOut"}]
    /\ arg \in [Threads -> Diffs \cup {Unknown}]
    /\ held \in Jobs /\ sendMu \in Threads \cup {"free"}

Recorded(j) == jobDiff[j] # Unknown

\* The record and its order name the same jobs, each once.
RecordTypes ==
    /\ jobDiff \in [Jobs -> Diffs \cup {Unknown}] /\ told \in [Jobs -> Diffs \cup {Unknown}]
    /\ order \in Seq(Jobs) /\ Len(order) <= MaxJobDiffs
    /\ \A i \in 1..Len(order) : Recorded(order[i])
    /\ \A j \in Jobs : Recorded(j) => \E i \in 1..Len(order) : order[i] = j
    /\ \A i, k \in 1..Len(order) : order[i] = order[k] => i = k

\* Every variable keeps its type; the record holds at most MaxJobDiffs jobs and its order those jobs.
TypeOK == ValueTypes /\ PlaceTypes /\ RecordTypes

\* A share on a recorded job is never judged by more than the miner was told for that job, whichever
\* goroutines raised or lowered the difficulty while the job was on its way (shareFloorFor's
\* invariant, server.go:508; sendJob, server.go:3258-3263).
NeverJudgedHarder ==
    \A j \in Jobs : Recorded(j) /\ told[j] # Unknown => Judged(j) <= told[j]

HeldBack == authorized /\ net >= Floor /\ wire > net

\* A miner left on more than the network difficulty, by whatever race, gets out of it: the next block's
\* clean job sends it the difficulty in force (BroadcastJob, server.go:3336-3340).
HeldBackHeals == HeldBack ~> ~HeldBack

=============================================================================
