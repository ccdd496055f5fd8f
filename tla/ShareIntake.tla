----------------------------- MODULE ShareIntake -----------------------------
(***************************************************************************)
(* How the stratum server takes a share (internal/stratum/server.go:       *)
(* handleSubmit, BroadcastJob, and the record of shares already accepted)  *)
(* and what becomes of one that solves a block (cmd/stratum/main.go:       *)
(* ProcessShare and submitBlock up to the node).                           *)
(*                                                                         *)
(* One goroutine per connection handles its lines in order; the job loop   *)
(* broadcasts jobs; a cleanup loop prunes the record every 30 s; each      *)
(* accepted share is processed by a goroutine of its own.  They share      *)
(* currentJob, jobHistory and submittedShares of the server and jobHistory *)
(* of the program, without a common lock, so a submit is two steps (look   *)
(* the job up and judge the header; look it up in the record), a broadcast *)
(* several, and a solved share two more.  Pruning ranges over the record,  *)
(* comparing each entry's block with that of the job current at its start. *)
(*                                                                         *)
(* What a job, a header and a block are made of is in BlockBuild.  A hash  *)
(* cannot be chosen: only the header a miner found has the work.           *)
(***************************************************************************)
EXTENDS BlockBuild

CONSTANTS
    Conns,       \* connections; each is its own extranonce1
    AskedMask,   \* what each asked for in mining.configure
    Shares,      \* solutions the miners find
    Owner,       \* the connection that finds each
    Rolls,       \* how each one's miner rolls the version
    Time,        \* its ntime
    Quality,     \* its difficulty: of a share from 1, of a block from its job's bits
    AuxSolving,  \* those that meet the 1175 target
    Templates,   \* the templates jobs are made from, in order
    Tides,       \* which of those jobs are TIDES jobs
    Log,         \* what the pool has once a set of solutions is credited: its share-log window, the
                 \* hardest working miner's difficulty (0 for no miner), whether it takes transactions
    PayTo, RawTag, Subsidy,
    MaxHistory,  \* jobs kept in either history (500)
    MaxTries     \* bound: times each solution is submitted

Jobs == DOMAIN Templates
NoJob == 0

ASSUME TemplatesAssumption ==
    /\ Len(Templates) \in Nat \ {0} /\ Jobs = 1..Len(Templates) /\ Tides \subseteq Jobs
    /\ \A j \in Jobs : Templates[j].bits \in Nat
\* A hash is of whole words. The bits a miner may roll are left at zero by the node, which matters where
\* one submits them alone.
ASSUME HeadersAssumption ==
    \A j \in Jobs :
        /\ Templates[j].prev \in Seq(0..255) /\ Len(Templates[j].prev) % Word = 0
        /\ \A s \in Shares : Rolls[s].sends = "bits" => Templates[j].version \cap RollMask = {}
ASSUME SharesAssumption == Owner \in [Shares -> Conns] /\ AuxSolving \subseteq Shares /\ Quality \in [Shares -> Nat \ {0}]
ASSUME LimitsAssumption == MaxHistory \in Nat \ {0} /\ MaxTries \in [Shares -> Nat]

Pruners == {"broadcast", "cleanup"}

VARIABLES
    jobs,        \* the jobs made so far; the last MaxHistory are the program's jobHistory
    regs,        \* of each TIDES job: its registration and the window it pays
    currentJob,  \* s.currentJob, NoJob before the first
    history,     \* s.jobHistory
    record,      \* s.submittedShares, by the solution; the value of each is its job's block
    bpc,         \* where the broadcast of a job is
    prune,       \* of each caller of pruneSubmittedShares: what it holds, or idle
    sent,        \* jobs sent to each connection
    at,          \* the solution and job each connection's reader took past the checks
    queue,       \* accepted shares being processed
    subs,        \* block candidates being submitted
    foundOn,     \* the job each solution was found on
    tries,       \* history: how often each was submitted
    accepted,    \* history: how often each was accepted and credited
    judged,      \* history: the solutions looked at, each with the job it was sent under
    dueBlocks,   \* history: blocks a miner submitted in time, with their jobs
    proofs,      \* the 1175 blocks sent, with the work they are for; auxSent has their headers
    blocks       \* history: blocks sent to the node, with their jobs

vars == <<jobs, regs, currentJob, history, record, bpc, prune, sent, at, queue, subs, foundOn, tries, accepted,
          judged, dueBlocks, proofs, blocks>>
made == <<jobs, regs>>
maps == <<currentJob, history, record>>
work == <<queue, subs>>
hist == <<foundOn, tries, accepted, judged, dueBlocks, proofs>>

Tip(j) == jobs[j].prev
Idle == [on |-> FALSE, tip |-> <<>>, start |-> {}, seen |-> {}]

Init ==
    /\ jobs = <<>> /\ regs = <<>>
    /\ currentJob = NoJob /\ history = {} /\ record = {}
    /\ bpc = "idle"
    /\ prune = [p \in Pruners |-> Idle]
    /\ sent = [c \in Conns |-> {}]
    /\ at = [c \in Conns |-> {}]
    /\ queue = {} /\ subs = {}
    /\ foundOn = [s \in Shares |-> NoJob]
    /\ tries = [s \in Shares |-> 0] /\ accepted = [s \in Shares |-> 0]
    /\ judged = {} /\ dueBlocks = {} /\ proofs = {} /\ blocks = {}

----------------------------------------------------------------------------
(* The record of accepted shares.                                           *)

\* shareCleanupMu is free, and there is a current job to compare with.
PruneBegin(p) ==
    /\ \A q \in Pruners : ~prune[q].on
    /\ currentJob # NoJob
    /\ prune' = [prune EXCEPT ![p] = [on |-> TRUE, tip |-> Tip(currentJob), start |-> record, seen |-> {}]]

\* (mutant of PruneVisit) what was accepted longest ago goes, whatever its block.
PruneVisitByAge(p) ==
    /\ prune[p].on
    /\ \E s \in record \ prune[p].seen :
          /\ prune' = [prune EXCEPT ![p].seen = @ \cup {s}]
          /\ record' = record \ {s}
    /\ UNCHANGED <<made, currentJob, history, bpc, sent, at, work, hist, blocks>>

\* sync.Map.Range: each entry there from the start is seen once, one stored meanwhile may be.
PruneVisit(p) ==
    /\ prune[p].on
    /\ \E s \in record \ prune[p].seen :
          /\ prune' = [prune EXCEPT ![p].seen = @ \cup {s}]
          /\ record' = IF Tip(foundOn[s]) # prune[p].tip THEN record \ {s} ELSE record
    /\ UNCHANGED <<made, currentJob, history, bpc, sent, at, work, hist, blocks>>

PruneDone(p) == prune[p].on /\ prune[p].start \cap record \subseteq prune[p].seen
PruneEnd(p)  == PruneDone(p) /\ prune' = [prune EXCEPT ![p] = Idle]

\* shareCleanupLoop, every 30 s.
Cleanup ==
    /\ PruneBegin("cleanup") \/ PruneEnd("cleanup")
    /\ UNCHANGED <<made, maps, bpc, sent, at, work, hist, blocks>>

----------------------------------------------------------------------------
(* The job loop's send, and BroadcastJob.                                   *)

\* The next job is made and kept for the submission of its blocks.
MakeJob ==
    /\ bpc = "idle" /\ Len(jobs) < Len(Templates)
    /\ LET t == Templates[Len(jobs) + 1]
       IN IF Len(jobs) + 1 \in Tides
          THEN \E pool \in {Log[{s \in Shares : accepted[s] > 0}]} :
               \E reg \in Register(t, pool.window, PayTo, RawTag, pool.maxDiff, pool.all) :
                  /\ jobs' = Append(jobs, CreateJobWithCoinbase(t, reg))
                  /\ regs' = Append(regs, [reg |-> reg, window |-> pool.window, height |-> t.height])
          ELSE jobs' = Append(jobs, CreateJob(t, PayTo, RawTag, t.aux)) /\ UNCHANGED regs
    /\ bpc' = "current"
    /\ UNCHANGED <<maps, prune, sent, at, work, hist, blocks>>

StoreCurrent ==
    /\ bpc = "current"
    /\ currentJob' = Len(jobs) /\ bpc' = "history"
    /\ UNCHANGED <<made, history, record, prune, sent, at, work, hist, blocks>>

\* cleanupJobHistory: the oldest go, never the current one.
Evict(h) == {j \in h : j = currentJob \/ Cardinality({k \in h : k > j}) < MaxHistory}

\* A job on another block than the one before is a clean job; one on the same block may be.
StoreHistory ==
    /\ bpc = "history"
    /\ history' = Evict(history \cup {currentJob})
    /\ bpc' \in IF currentJob > 1 /\ Tip(currentJob) = Tip(currentJob - 1) THEN {"clear", "send"} ELSE {"clear"}
    /\ UNCHANGED <<made, currentJob, record, prune, sent, at, work, hist, blocks>>

ClearShares ==
    /\ bpc = "clear"
    /\ \/ PruneBegin("broadcast") /\ UNCHANGED bpc
       \/ PruneEnd("broadcast")   /\ bpc' = "send"
    /\ UNCHANGED <<made, maps, sent, at, work, hist, blocks>>

SendAll ==
    /\ bpc = "send"
    /\ sent' = [c \in Conns |-> IF sent[c] # {} THEN sent[c] \cup {currentJob} ELSE {}]
    /\ bpc' = "idle"
    /\ UNCHANGED <<made, maps, prune, at, work, hist, blocks>>

\* A miner logs in and gets the current job.
Login(c) ==
    /\ sent[c] = {} /\ currentJob # NoJob
    /\ sent' = [sent EXCEPT ![c] = {currentJob}]
    /\ UNCHANGED <<made, maps, bpc, prune, at, work, hist, blocks>>

----------------------------------------------------------------------------
(* handleSubmit.                                                            *)

\* A solution's fields as the submit is read: s stands for the nonce and extranonce2 found, the version
\* word is that of the job it was found on.
Mask(s) == AgreedMask(AskedMask[Owner[s]])
Solution(s, j) == [nonce |-> s, time |-> Time[s], vb |-> Submitted(jobs[j], Mask(s), Rolls[s])]
Found(s, j)    == MinerHeader(jobs[j], Owner[s], Solution(s, j), MinerVersion(jobs[j], Mask(s), Rolls[s]))

\* The work in the header the server builds for s, found on f, under the job j.
Meets(s, f, j) == IF Header(jobs[j], Owner[s], Solution(s, f)) = Found(s, f) THEN Quality[s] ELSE 0

\* submitAux.
Proof(s, f, j) == [aux |-> jobs[j].aux, proof |-> AuxPow(jobs[j], Owner[s], Solution(s, f))]

\* auxSolution: a 1175 solution is sent once.
AuxFrom(s, f, j) ==
    LET h == Header(jobs[j], Owner[s], Solution(s, f))
    IN  IF /\ jobs[j].aux # NoHash /\ s \in AuxSolving /\ h = Found(s, f)
           /\ \A p \in proofs : p.proof.header # h
        THEN proofs' = proofs \cup {Proof(s, f, j)}
        ELSE UNCHANGED proofs

Look(s, j) == judged' = judged \cup {<<s, j>>}

\* (mutant of Refuse) a share refused for its rate or its block is not looked at for a 1175 block.
RefuseUnlooked(s, f, j) == Look(s, j) /\ UNCHANGED proofs

\* Refused as stale or over the rate: its 1175 block is sent all the same.
Refuse(s, f, j) == Look(s, j) /\ AuxFrom(s, f, j)

\* A miner submits a solution it found on f, or submitted before, under the job j.  Up to the
\* record: its job is known, on the current block, its time in range, and the work is in it.
\* A share over the rate limit goes on only if it solves a block.
Judge(c, s, f, j) ==
    \/ j \notin history /\ UNCHANGED <<at, judged, proofs>>
    \/ j \in history /\ Tip(j) # Tip(currentJob) /\ Refuse(s, f, j) /\ UNCHANGED at
    \/ j \in history /\ Tip(j) = Tip(currentJob) /\ ~NtimeInRange(Time[s], jobs[j].time) /\ UNCHANGED <<at, judged, proofs>>
    \/ /\ j \in history /\ Tip(j) = Tip(currentJob) /\ NtimeInRange(Time[s], jobs[j].time)
       /\ \E q \in {Meets(s, f, j)} :
             \/ q < jobs[j].bits /\ Refuse(s, f, j) /\ UNCHANGED at
             \/ q < 1 /\ UNCHANGED <<at, judged, proofs>>
             \/ q >= 1 /\ at' = [at EXCEPT ![c] = {<<s, f, j>>}] /\ UNCHANGED <<judged, proofs>>

\* A block found in time: on the current block, with its time in range, and not MaxHistory jobs ago.
\* (A job goes to who logs in between StoreCurrent and StoreHistory; nobody solves it that soon.)
InTime(s, j) ==
    /\ bpc = "history" => j # currentJob
    /\ Tip(j) = Tip(currentJob) /\ NtimeInRange(Time[s], jobs[j].time) /\ Quality[s] >= jobs[j].bits
    /\ j + MaxHistory > Len(jobs)

Submit(c, s, j) ==
    /\ at[c] = {} /\ Owner[s] = c /\ tries[s] < MaxTries[s]
    /\ j \in sent[c]
    /\ LET f == IF foundOn[s] = NoJob THEN j ELSE foundOn[s]
       IN  /\ foundOn' = [foundOn EXCEPT ![s] = f]
           /\ Judge(c, s, f, j)
           /\ dueBlocks' = IF f = j /\ InTime(s, j) THEN dueBlocks \cup {<<s, j>>} ELSE dueBlocks
    /\ tries' = [tries EXCEPT ![s] = @ + 1]
    /\ UNCHANGED <<made, maps, bpc, prune, sent, work, accepted, blocks>>

\* isDuplicateShare, and what follows for a new header.
Accept(c) ==
    /\ \E e \in at[c] :
          LET s == e[1]
          IN  /\ record' = record \cup {s}
              /\ Look(s, e[3])
              /\ IF s \in record
                 THEN UNCHANGED <<accepted, proofs, queue>>
                 ELSE /\ accepted' = [accepted EXCEPT ![s] = @ + 1]
                      /\ queue' = queue \cup {e}
                      /\ AuxFrom(s, e[2], e[3])
    /\ at' = [at EXCEPT ![c] = {}]
    /\ UNCHANGED <<made, currentJob, history, bpc, prune, sent, subs, foundOn, tries, dueBlocks, blocks>>

----------------------------------------------------------------------------
(* ProcessShare and submitBlock.                                            *)

Kept(j) == j + MaxHistory > Len(jobs)
NetDiff == jobs[Len(jobs)].bits

\* (mutant of Threshold) the newest template's difficulty, whatever the job's was.
ThresholdNewest(j) == NetDiff

\* The easier of the newest template's difficulty and the job's, while it is kept.
Threshold(j) == IF Kept(j) /\ jobs[j].bits < NetDiff THEN jobs[j].bits ELSE NetDiff

ProcessShare ==
    /\ \E e \in queue :
          /\ queue' = queue \ {e}
          /\ subs' = IF Quality[e[1]] >= Threshold(e[3]) THEN subs \cup {e} ELSE subs
    /\ UNCHANGED <<made, maps, bpc, prune, sent, at, hist, blocks>>

\* The block is built from its own job or not at all.
SubmitBlock ==
    /\ \E e \in subs :
          /\ subs' = subs \ {e}
          /\ blocks' = IF Kept(e[3])
                       THEN blocks \cup {[share |-> e[1], job |-> e[3],
                                          block |-> Block(jobs[e[3]], Owner[e[1]], Solution(e[1], e[2]))]}
                       ELSE blocks
    /\ UNCHANGED <<made, maps, bpc, prune, sent, at, queue, hist>>

Broadcast == MakeJob \/ StoreCurrent \/ StoreHistory \/ ClearShares \/ SendAll

Next ==
    \/ Broadcast \/ Cleanup \/ ProcessShare \/ SubmitBlock
    \/ \E p \in Pruners : PruneVisit(p)
    \/ \E c \in Conns : Login(c) \/ Accept(c) \/ \E s \in Shares, j \in 1..Len(jobs) : Submit(c, s, j)

Spec == Init /\ [][Next]_vars

----------------------------------------------------------------------------
(* Properties.                                                              *)

\* A block a miner found on a job of the current block and submitted in time reaches the node,
\* whatever its share's rate, version word or the difficulty since, unless MaxHistory jobs were made
\* meanwhile, or since one it was sent under (handleSubmit, server.go:2211-2218; submitBlock,
\* main.go:2078-2093).
SolvedGoesToNode ==
    \A d \in dueBlocks : Kept(d[2]) /\ (\A l \in judged : l[1] = d[1] => Kept(l[2])) =>
        \/ \E c \in Conns : \E e \in at[c] : e[1] = d[1]
        \/ \E e \in queue \cup subs : e[1] = d[1]
        \/ \E b \in blocks : b.share = d[1]

\* Whatever becomes of a share - accepted, a duplicate, stale, over the rate - a 1175 block it solves
\* is sent to the 1175 node once the server has looked at it (submitRefusedShareAux, server.go:2353).
AuxSolutionsSent ==
    \A s \in AuxSolving :
        <<s, foundOn[s]>> \in judged /\ jobs[foundOn[s]].aux # NoHash =>
            \E p \in proofs : p.proof.header = Found(s, foundOn[s])

\* Until the first block change a header is accepted once, under whatever jobs and however often it
\* is sent: pruning never forgets a share whose jobs are still accepted (server.go:654-655).
AcceptedOnceOnFirstBlock ==
    currentJob # NoJob /\ (\A j \in 1..currentJob : Tip(j) = Tip(1)) => \A s \in Shares : accepted[s] <= 1

\* The submitted header is the header that was validated, which its miner found (RollVersion).
SubmittedAsSolved == \A b \in blocks : b.block.header = Found(b.share, foundOn[b.share])

\* A job under which a header is the one its miner found is for the 1175 work that was found.
HeadersCommit ==
    \A s \in Shares, j \in 1..Len(jobs) :
        foundOn[s] # NoJob /\ Header(jobs[j], Owner[s], Solution(s, foundOn[s])) = Found(s, foundOn[s]) =>
            jobs[j].aux = jobs[foundOn[s]].aux

\* The 1175 node takes every proof that is sent for the work it is for.
ProofsHold == \A p \in proofs : AuxNodeAccepts(p.proof, p.aux)

\* What is submitted is what was solved: the block's header is the one its miner found, on a whole
\* merkle tree and a good coinbase, and a 1175 proof proves its work.
BlocksHold ==
    /\ SubmittedAsSolved
    /\ \A b \in blocks : NodeAccepts(b.block, Templates[b.job].prev, Templates[b.job].height, Subsidy)
    /\ ProofsHold
    /\ HeadersCommit

\* When a TIDES job is made the pool takes its registration for what it is, and the split in it pays
\* the value out exactly, near everyone's due and nobody dust (ParseCoinbase, PaysExactly, Split).
RegistrationsHold ==
    bpc = "current" /\ Len(jobs) \in Tides =>
        LET r == regs[Len(regs)]
        IN  /\ PoolAccepts(r.reg, r.height, Payouts(r.reg.value, r.window, PayTo))
            /\ InWindow(r.window) # {} => SplitKeeps(r.reg.value, r.window)

=============================================================================
