----------------------------- MODULE JobsProofs -----------------------------
(***************************************************************************)
(* The jobs and the shares found on them keep their promises: how a share  *)
(* is taken and what becomes of a block in it (ShareIntake), and the loop  *)
(* that makes the jobs (JobLoop).                                          *)
(*                                                                         *)
(* ShareIntake, for any connections, solutions, rolled versions, templates *)
(* and limits: a block found in time reaches the node, whatever the        *)
(* difficulty since; a header is accepted once until the block changes; a  *)
(* 1175 block is sent whatever becomes of its share, with a proof its node *)
(* takes; and the block sent is on its job's tip, under the header the     *)
(* miner found.  They rest on what the server knows of the                 *)
(* jobs at each place of a broadcast (Served), on a solution past the      *)
(* checks having its miner's header under its job (Checked), on a          *)
(* candidate being handed on until it is sent (DueWaits, AcceptedGoesOn),  *)
(* and on whoever prunes holding the only block there is (OneTip).         *)
(*                                                                         *)
(* JobLoop, for any blocks, addresses and 1175 tips: the gateway's tip is  *)
(* the block TIDES miners are on, and the jobs miners may still work on    *)
(* all pay alike and build on one block.  Both rest on what a turn carries *)
(* from its first step to its last while the node, the dashboard and the   *)
(* pool go on: the block of its template, which an answer it waits for was *)
(* asked for, and whether that block was new when it was compared with the *)
(* current job's.                                                          *)
(***************************************************************************)
EXTENDS ShareIntake, JobLoop, FiniteSetTheorems, TLAPS

LOCAL INSTANCE SequencesExt

----------------------------------------------------------------------------
(* What a job and a header are made of.                                     *)

\* A place among the words of a hash is the first of a pair or the second.
LEMMA Halves ==
  ASSUME NEW m \in Nat
  PROVE  /\ m % 2 = 0 => \E k \in Nat : m = 2 * k
         /\ m % 2 = 1 => \E k \in Nat : m = 2 * k + 1
OBVIOUS

\* mining.notify's hash is swapped back into the one the block is built on (SwapWords).
LEMMA SwappedBack ==
  ASSUME NEW h \in Seq(0..255), Len(h) % Word = 0
  PROVE  SwapWords(StratumPrev(h)) = Reverse(h)
<1> DEFINE n == Len(h)
           r == Reverse(h)
           at1(i) == Word * ((i - 1) \div Word) + Word - ((i - 1) % Word)
<1>1. n \in Nat /\ n % 2 = 0 BY DEF Word
<1>2. r = [i \in 1..n |-> h[(n - i) + 1]] BY DEF Reverse
<1>3. ASSUME NEW i \in 1..n PROVE at1(i) \in 1..n /\ at1(at1(i)) = i
  <2>0. i - 1 \in Nat BY <1>1
  <2>1. CASE (i - 1) % 2 = 0
    <3>1. PICK k \in Nat : i - 1 = 2 * k BY <2>0, <2>1, Halves
    <3>2. at1(i) = i + 1 BY <3>1 DEF Word
    <3>3. i + 1 <= n BY <1>1, <3>1
    <3>4. at1(i + 1) = i BY <3>1 DEF Word
    <3> QED BY <3>2, <3>3, <3>4
  <2>2. CASE (i - 1) % 2 = 1
    <3>1. PICK k \in Nat : i - 1 = 2 * k + 1 BY <2>0, <2>2, Halves
    <3>2. at1(i) = i - 1 BY <3>1 DEF Word
    <3>3. at1(i - 1) = i BY <3>1 DEF Word
    <3> QED BY <3>1, <3>2, <3>3
  <2> QED BY <2>1, <2>2
<1> DEFINE s == SwapWords(r)
<1>4. Len(r) = n /\ DOMAIN r = 1..n BY <1>1, <1>2
<1>5. s = [i \in 1..n |-> r[at1(i)]] BY <1>4 DEF SwapWords
<1>6. Len(s) = n BY <1>1, <1>5
<1>7. SwapWords(s) = [i \in 1..n |-> s[at1(i)]] BY <1>6 DEF SwapWords
<1> HIDE DEF at1, s, r
<1>8. \A i \in 1..n : s[at1(i)] = r[i] BY <1>3, <1>5
<1>9. SwapWords(s) = [i \in 1..n |-> r[i]] BY <1>7, <1>8
<1>10. r = [i \in 1..n |-> r[i]] BY <1>2
<1> QED BY <1>9, <1>10 DEF StratumPrev, s, r

\* A version word that was submitted is the only one (VersionBits).
LEMMA OneWord ==
  ASSUME NEW x
  PROVE  {x} # {} /\ UNION {x} = x
OBVIOUS

\* A version word the server rolls is the one the miner rolled (RollVersion).
LEMMA RolledAlike ==
  ASSUME NEW s \in Shares, NEW jb,
         Rolls[s].sends = "bits" => jb.version \cap RollMask = {}
  PROVE  RollVersion(jb.version, VersionBits(Submitted(jb, Mask(s), Rolls[s])))
           = MinerVersion(jb, Mask(s), Rolls[s])
<1> DEFINE mask == Mask(s)
           bits == Rolls[s].bits
<1>1. mask \subseteq RollMask BY DEF Mask, AgreedMask
<1> DEFINE rolled == (jb.version \ mask) \cup (bits \cap mask)
<1>2. CASE Rolls[s].sends = "whole"
  <2>1. MinerVersion(jb, mask, Rolls[s]) = rolled BY <1>2 DEF MinerVersion
  <2>2. VersionBits(Submitted(jb, mask, Rolls[s])) = {rolled} BY <1>2, <2>1 DEF VersionBits, Submitted
  <2>3. RollVersion(jb.version, {rolled}) = (jb.version \ RollMask) \cup (rolled \cap RollMask)
    BY OneWord DEF RollVersion
  <2>4. (jb.version \ RollMask) \cup (rolled \cap RollMask) = rolled BY <1>1
  <2> QED BY <2>1, <2>2, <2>3, <2>4
<1>3. CASE Rolls[s].sends = "bits"
  <2>1. MinerVersion(jb, mask, Rolls[s]) = rolled BY <1>3 DEF MinerVersion
  <2>2. VersionBits(Submitted(jb, mask, Rolls[s])) = {bits \cap mask} BY <1>3 DEF VersionBits, Submitted
  <2>3. RollVersion(jb.version, {bits \cap mask}) = (jb.version \ RollMask) \cup ((bits \cap mask) \cap RollMask)
    BY OneWord DEF RollVersion
  <2>4. (jb.version \ RollMask) \cup ((bits \cap mask) \cap RollMask) = rolled BY <1>1, <1>3
  <2> QED BY <2>1, <2>2, <2>3, <2>4
<1>4. CASE Rolls[s].sends \notin {"whole", "bits"}
  BY <1>4 DEF RollVersion, VersionBits, Submitted, MinerVersion
<1> QED BY <1>2, <1>3, <1>4

\* What a job keeps of its template, whatever it pays.
JobFor(jb, t) ==
    jb.bits = t.bits /\ jb.version = t.version /\ jb.orig = t.prev /\ jb.prev = StratumPrev(t.prev)

\* Whatever the coinbase, a job is made on its template.
LEMMA JobsKeep ==
  ASSUME NEW t, NEW txs, NEW cb1, NEW cb2, NEW value, NEW aux, NEW paysPool
  PROVE  JobFor(With(JobOn(t, txs), cb1, cb2, value, aux, paysPool), t)
BY DEF JobFor, With, JobOn

\* So a solo job and a TIDES job alike (CreateJob, CreateJobWithCoinbase).
LEMMA JobsMade ==
  ASSUME NEW t, NEW reg
  PROVE  JobFor(CreateJob(t, PayTo, RawTag, t.aux), t) /\ JobFor(CreateJobWithCoinbase(t, reg), t)
BY JobsKeep DEF CreateJob, CreateJobWithCoinbase

\* The header the server builds for a solution of a job is the one its miner found.
LEMMA OwnHeader ==
  ASSUME NEW s \in Shares, NEW j \in Jobs, JobFor(jobs[j], Templates[j])
  PROVE  Header(jobs[j], Owner[s], Solution(s, j)) = Found(s, j)
<1>1. Rolls[s].sends = "bits" => jobs[j].version \cap RollMask = {}
  BY HeadersAssumption DEF JobFor
<1>2. RollVersion(jobs[j].version, VersionBits(Solution(s, j).vb)) = MinerVersion(jobs[j], Mask(s), Rolls[s])
  BY <1>1, RolledAlike DEF Solution
<1> QED BY <1>2 DEF Header, Found, MinerHeader

\* The block's header is the one the share was judged by (blockbuild.Block).
LEMMA BlockHeader ==
  ASSUME NEW j \in Jobs, JobFor(jobs[j], Templates[j]), NEW en1, NEW sol
  PROVE  Block(jobs[j], en1, sol).header = Header(jobs[j], en1, sol)
<1>1. SwapWords(jobs[j].prev) = Reverse(jobs[j].orig) BY HeadersAssumption, SwappedBack DEF JobFor
<1> QED BY <1>1 DEF Block, Header

----------------------------------------------------------------------------
(* The invariant.                                                           *)

\* The jobs made are the templates', in order.
JobsMatch ==
    /\ jobs \in Seq({jobs[i] : i \in 1..Len(jobs)}) /\ Len(jobs) <= Len(Templates)
    /\ \A j \in 1..Len(jobs) : JobFor(jobs[j], Templates[j])

\* What the server knows: the newest job but one being broadcast, and the last MaxHistory jobs.
Served ==
    /\ bpc \in {"idle", "current", "history", "clear", "send"}
    /\ Len(jobs) = IF bpc = "current" THEN currentJob + 1 ELSE currentJob
    /\ currentJob \in Nat /\ history \subseteq 1..currentJob
    /\ bpc \in {"history", "clear", "send"} => currentJob # NoJob
    /\ \A j \in 1..currentJob : j + MaxHistory > currentJob => j \in history \/ (bpc = "history" /\ j = currentJob)
    /\ sent \in [Conns -> SUBSET (1..currentJob)]

\* A solution past the checks of its header: under its job the header is the one its miner found.
Same(s, f, j) == Header(jobs[j], Owner[s], Solution(s, f)) = Found(s, f)
Entries == Shares \X (1..currentJob) \X (1..currentJob)
Checked(e) == foundOn[e[1]] = e[2] /\ Same(e[1], e[2], e[3])

Handed ==
    /\ foundOn \in [Shares -> 0..currentJob] /\ accepted \in [Shares -> Nat]
    /\ at \in [Conns -> SUBSET Entries] /\ queue \subseteq Entries /\ subs \subseteq Entries
    /\ judged \subseteq Shares \X (1..currentJob)
    /\ \A l \in judged : foundOn[l[1]] # NoJob
    /\ \A c \in Conns : \A e \in at[c] : Checked(e) /\ \A d \in at[c] : d = e
    /\ \A e \in queue \cup subs : Checked(e) /\ <<e[1], e[3]>> \in judged
    /\ record \subseteq Shares
    /\ \A s \in record : accepted[s] > 0
    /\ \A s \in Shares : accepted[s] > 0 => foundOn[s] # NoJob

Known == JobsMatch /\ Served /\ Handed

\* A block found in time waits for the record, or its solution has been accepted.
DueWaits ==
    \A d \in dueBlocks :
        /\ d \in Shares \X (1..currentJob) /\ foundOn[d[1]] = d[2] /\ Quality[d[1]] >= jobs[d[2]].bits
        /\ accepted[d[1]] > 0 \/ \E c \in Conns : \E e \in at[c] : e[1] = d[1]

\* A block that was accepted is on its way to the node, or the job it was sent under is gone.
AcceptedGoesOn ==
    \A s \in Shares : accepted[s] > 0 /\ Quality[s] >= jobs[foundOn[s]].bits =>
        \/ \E e \in queue \cup subs : e[1] = s
        \/ \E b \in blocks : b.share = s
        \/ \E l \in judged : l[1] = s /\ ~Kept(l[2])

\* What is accepted, like what is looked at, has had its 1175 block sent.
AuxSent ==
    \A s \in AuxSolving :
        /\ foundOn[s] # NoJob /\ jobs[foundOn[s]].aux # NoHash
        /\ accepted[s] > 0 \/ <<s, foundOn[s]>> \in judged
        => \E p \in proofs : p.proof.header = Found(s, foundOn[s])

\* Who prunes holds the block of a job that was current.
PruneKnows ==
    /\ DOMAIN prune = Pruners
    /\ \A p \in Pruners : prune[p].on => currentJob # NoJob

\* While the server has known one block alone (the guard of AcceptedOnceOnFirstBlock) whoever prunes
\* compares with that block, so what was accepted stays recorded, and is not accepted again.
OneBlock  == currentJob # NoJob /\ \A j \in 1..currentJob : Tip(j) = Tip(1)
OneTip    == OneBlock => \A p \in Pruners : prune[p].on => prune[p].tip = Tip(1)
OneRecord == OneBlock => \A s \in Shares : accepted[s] = 0 \/ (accepted[s] = 1 /\ s \in record)

\* A block sent is of a solution that was found, with the header its miner found.
SentAsFound ==
    \A b \in blocks :
        b.share \in Shares /\ foundOn[b.share] # NoJob /\ b.block.header = Found(b.share, foundOn[b.share])

Inductive == Known /\ DueWaits /\ AcceptedGoesOn /\ PruneKnows /\ OneTip /\ OneRecord /\ SentAsFound

\* Jobs are only added.
Longer == Len(jobs) <= Len(jobs') /\ \A j \in 1..Len(jobs) : jobs'[j] = jobs[j]

\* A sequence is its entries in order.
LEMMA AsListed ==
  ASSUME NEW T, NEW w \in Seq(T)
  PROVE  Len(w) \in Nat /\ w = [i \in 1..Len(w) |-> w[i]]
OBVIOUS

\* A job appended leaves the others where they are.
LEMMA Appended ==
  ASSUME NEW q, q \in Seq({q[i] : i \in 1..Len(q)}), NEW e, NEW r, r = Append(q, e)
  PROVE  /\ Len(q) \in Nat /\ Len(r) = Len(q) + 1 /\ r[Len(q) + 1] = e
         /\ \A i \in 1..Len(q) : r[i] = q[i]
         /\ r \in Seq({r[i] : i \in 1..Len(r)})
<1> DEFINE S == {q[i] : i \in 1..Len(q)} \cup {e}
<1>1. q \in Seq(S) /\ e \in S
  <2>1. Len(q) \in Nat /\ q = [i \in 1..Len(q) |-> q[i]] OBVIOUS
  <2>2. q \in [1..Len(q) -> S] BY <2>1
  <2> QED BY <2>1, <2>2
<1> HIDE DEF S
<1>2. r \in Seq(S) /\ Len(q) \in Nat /\ Len(r) = Len(q) + 1 /\ r[Len(q) + 1] = e
      /\ \A i \in 1..Len(q) : r[i] = q[i]
  BY <1>1
<1>3. r = [i \in 1..Len(r) |-> r[i]] /\ Len(r) \in Nat BY <1>2, AsListed
<1>4. r \in [1..Len(r) -> {r[i] : i \in 1..Len(r)}] BY <1>3
<1>5. r \in Seq({r[i] : i \in 1..Len(r)}) BY <1>3, <1>4
<1> QED BY <1>2, <1>5

\* Every step keeps the jobs as they were made.
LEMMA JobsStep ==
  ASSUME Known, [Next]_vars
  PROVE  JobsMatch' /\ Longer /\ (UNCHANGED jobs \/ MakeJob)
<1>1. CASE MakeJob
  <2> DEFINE t == Templates[Len(jobs) + 1]
  <2>1. PICK jb : jobs' = Append(jobs, jb) /\ JobFor(jb, t)
    BY <1>1, JobsMade DEF MakeJob
  <2>2. Len(jobs) < Len(Templates) BY <1>1 DEF MakeJob
  <2>3. /\ Len(jobs) \in Nat /\ Len(jobs') = Len(jobs) + 1 /\ jobs'[Len(jobs) + 1] = jb
        /\ \A i \in 1..Len(jobs) : jobs'[i] = jobs[i]
        /\ jobs' \in Seq({jobs'[i] : i \in 1..Len(jobs')})
    BY <2>1, Appended DEF Known, JobsMatch
  <2>4. \A j \in 1..Len(jobs') : JobFor(jobs'[j], Templates[j])
    <3> SUFFICES ASSUME NEW j \in 1..Len(jobs') PROVE JobFor(jobs'[j], Templates[j])
      OBVIOUS
    <3>1. CASE j = Len(jobs) + 1 BY <2>1, <2>3, <3>1
    <3>2. CASE j \in 1..Len(jobs) BY <2>3, <3>2 DEF Known, JobsMatch
    <3> QED BY <2>3, <3>1, <3>2
  <2>5. Len(jobs') <= Len(Templates) BY <2>2, <2>3, TemplatesAssumption
  <2> QED BY <1>1, <2>3, <2>4, <2>5 DEF JobsMatch, Longer
<1>2. CASE UNCHANGED jobs
  <2>1. Len(jobs) \in Nat BY DEF Known, JobsMatch
  <2> QED BY <1>2, <2>1 DEF Known, JobsMatch, Longer
<1>3. CASE ~MakeJob
  <2>1. UNCHANGED jobs
    BY <1>3 DEF Next, Broadcast, StoreCurrent, StoreHistory, ClearShares, SendAll, Cleanup, ProcessShare, SubmitBlock,
                PruneVisit, Login, Accept, Submit, vars, made
  <2> QED BY <1>2, <2>1
<1> QED BY <1>1, <1>3

\* What jobs and what their headers are does not change as jobs are added.
LEMMA HeadersStay ==
  ASSUME Longer, NEW s \in Shares, NEW f \in 1..Len(jobs), NEW j \in 1..Len(jobs)
  PROVE  Same(s, f, j)' = Same(s, f, j) /\ Found(s, f)' = Found(s, f) /\ Tip(j)' = Tip(j)
<1>1. jobs'[j] = jobs[j] /\ jobs'[f] = jobs[f] BY DEF Longer
<1> QED BY <1>1 DEF Same, Solution, Found, Tip, Mask

\* No more jobs are newer than one than were made since.
LEMMA NewerFew ==
  ASSUME NEW n \in Nat, NEW h, h \subseteq 1..n, NEW j \in 1..n
  PROVE  Cardinality({k \in h : k > j}) \in Nat /\ Cardinality({k \in h : k > j}) <= n - j
<1> DEFINE later == {k \in h : k > j}
           span == (j + 1)..n
<1>1. ASSUME NEW k \in later PROVE k \in span
  <2>1. k \in 1..n /\ k > j OBVIOUS
  <2> QED BY <2>1
<1>2. j + 1 \in Int /\ n \in Int OBVIOUS
<1>3. IsFiniteSet(span) /\ Cardinality(span) = IF j + 1 > n THEN 0 ELSE n - (j + 1) + 1 BY <1>2, FS_Interval
<1>4. Cardinality(span) = n - j BY <1>3
<1> HIDE DEF later, span
<1>5. IsFiniteSet(later) /\ Cardinality(later) <= Cardinality(span) BY <1>1, <1>3, FS_Subset, later \in SUBSET span
<1>6. Cardinality(later) \in Nat BY <1>5, FS_CardinalityType
<1> QED BY <1>4, <1>5, <1>6 DEF later

\* Every step keeps what the server knows.
LEMMA ServedStep ==
  ASSUME Known, [Next]_vars
  PROVE  Served' /\ currentJob <= currentJob' /\ currentJob' \in Nat
<1> USE DEF Known, Served
<1>0. MaxHistory \in Nat \ {0} BY LimitsAssumption
<1>1. CASE MakeJob
  <2>1. PICK jb : jobs' = Append(jobs, jb) BY <1>1 DEF MakeJob
  <2>2. Len(jobs') = Len(jobs) + 1 BY <2>1, Appended DEF JobsMatch
  <2> QED BY <1>1, <2>2 DEF MakeJob, maps
<1>2. CASE StoreCurrent BY <1>0, <1>2 DEF StoreCurrent, made, NoJob
<1>3. CASE StoreHistory
  <2>1. UNCHANGED <<jobs, currentJob, sent>> /\ bpc = "history" /\ bpc' \in {"clear", "send"}
    BY <1>3 DEF StoreHistory, made
  <2>2. history' = Evict(history \cup {currentJob}) BY <1>3 DEF StoreHistory
  <2>0. currentJob \in 1..currentJob BY <2>1 DEF NoJob
  <2>3. history' \subseteq 1..currentJob BY <2>0, <2>2 DEF Evict
  <2>4. ASSUME NEW j \in 1..currentJob, j + MaxHistory > currentJob PROVE j \in history'
    <3>1. j \in history \cup {currentJob} BY <2>4
    <3>2. history \cup {currentJob} \subseteq 1..currentJob BY <2>0
    <3>3. j = currentJob \/ Cardinality({k \in history \cup {currentJob} : k > j}) < MaxHistory
      <4> DEFINE h == history \cup {currentJob}
                 m == Cardinality({k \in h : k > j})
      <4>1. m \in Nat /\ m <= currentJob - j BY <2>0, <3>2, NewerFew, currentJob \in Nat
      <4> HIDE DEF m
      <4>2. m < MaxHistory BY <1>0, <2>0, <2>4, <4>1
      <4> QED BY <4>2 DEF m
    <3> QED BY <2>2, <3>1, <3>3 DEF Evict
  <2> QED BY <2>1, <2>3, <2>4
<1>4. CASE ClearShares BY <1>4 DEF ClearShares, made, maps
<1>5. CASE SendAll BY <1>5 DEF SendAll, made, maps
<1>6. ASSUME NEW c \in Conns, Login(c) PROVE Served' /\ currentJob <= currentJob' /\ currentJob' \in Nat
  BY <1>6 DEF Login, made, maps, NoJob
<1>7. CASE UNCHANGED <<jobs, currentJob, history, bpc, sent>> BY <1>7
<1>8. CASE \/ Cleanup \/ ProcessShare \/ SubmitBlock \/ UNCHANGED vars \/ (\E p \in Pruners : PruneVisit(p))
           \/ \E c \in Conns : Accept(c) \/ \E s \in Shares, j \in 1..Len(jobs) : Submit(c, s, j)
  <2>1. UNCHANGED <<jobs, currentJob, history, bpc, sent>>
    BY <1>8 DEF Cleanup, ProcessShare, SubmitBlock, PruneVisit, Accept, Submit, made, maps, vars
  <2> QED BY <1>7, <2>1
<1> QED BY <1>1, <1>2, <1>3, <1>4, <1>5, <1>6, <1>8 DEF Next, Broadcast

----------------------------------------------------------------------------
(* What a submit, and an acceptance, move.                                  *)

From(s, j) == IF foundOn[s] = NoJob THEN j ELSE foundOn[s]

\* A submit leaves the solution where it was found, and holds it under its job only with its work.
LEMMA SubmitMoves ==
  ASSUME Known, NEW c \in Conns, NEW s \in Shares, NEW j \in 1..Len(jobs), Submit(c, s, j)
  PROVE  /\ j \in 1..currentJob /\ From(s, j) \in 1..currentJob /\ at[c] = {}
         /\ foundOn' \in [Shares -> 0..currentJob] /\ foundOn'[s] = From(s, j)
         /\ \A x \in Shares : foundOn[x] # NoJob \/ x # s => foundOn'[x] = foundOn[x]
         /\ UNCHANGED <<jobs, currentJob, history, bpc, record, prune, sent, queue, subs, accepted, blocks>>
         /\ judged \subseteq judged' /\ judged' \subseteq judged \cup {<<s, j>>}
         /\ at' = at \/ (at' = [at EXCEPT ![c] = {<<s, From(s, j), j>>}] /\ Same(s, From(s, j), j))
<1> DEFINE f == From(s, j)
<1>1. /\ j \in 1..currentJob /\ at[c] = {} /\ foundOn' = [foundOn EXCEPT ![s] = f] /\ Judge(c, s, f, j)
      /\ UNCHANGED <<jobs, currentJob, history, bpc, record, prune, sent, queue, subs, accepted, blocks>>
  BY DEF Submit, From, Known, Served, made, maps, work
<1>2. foundOn \in [Shares -> 0..currentJob] /\ f \in 1..currentJob BY <1>1 DEF Known, Handed, From, NoJob
<1>3. /\ foundOn' \in [Shares -> 0..currentJob] /\ foundOn'[s] = f
      /\ \A x \in Shares : foundOn[x] # NoJob \/ x # s => foundOn'[x] = foundOn[x]
  <2>1. ASSUME NEW x \in Shares, foundOn[x] # NoJob \/ x # s PROVE foundOn'[x] = foundOn[x]
    BY <1>1, <1>2, <2>1 DEF From
  <2> QED BY <1>1, <1>2, <2>1
<1> HIDE DEF f
<1>4. judged \subseteq judged' /\ judged' \subseteq judged \cup {<<s, j>>}
  BY <1>1 DEF Judge, Refuse, Look
<1>5. at' = at \/ (at' = [at EXCEPT ![c] = {<<s, f, j>>}] /\ Same(s, f, j))
  <2>1. CASE at' = at BY <2>1
  <2>2. CASE at' # at
    <3>1. at' = [at EXCEPT ![c] = {<<s, f, j>>}] /\ Meets(s, f, j) >= 1
      BY <1>1, <2>2 DEF Judge
    <3>2. Same(s, f, j) BY <3>1 DEF Meets, Same
    <3> QED BY <3>1, <3>2
  <2> QED BY <2>1, <2>2
<1> QED BY <1>1, <1>2, <1>3, <1>4, <1>5 DEF f

\* An acceptance records the solution its connection holds, and hands it on if it was not recorded.
Accepting(e, c) ==
    /\ e \in at[c] /\ at' = [at EXCEPT ![c] = {}]
    /\ record' = record \cup {e[1]} /\ judged' = judged \cup {<<e[1], e[3]>>}
    /\ IF e[1] \in record THEN UNCHANGED <<accepted, proofs, queue>>
       ELSE /\ accepted' = [accepted EXCEPT ![e[1]] = @ + 1] /\ queue' = queue \cup {e}
            /\ AuxFrom(e[1], e[2], e[3])

\* Each acceptance of a share is such a step (isDuplicateShare and what follows).
LEMMA AcceptMoves ==
  ASSUME NEW c \in Conns, Accept(c)
  PROVE  /\ \E e \in at[c] : Accepting(e, c)
         /\ UNCHANGED <<jobs, currentJob, history, bpc, prune, sent, subs, foundOn, dueBlocks, blocks>>
BY DEF Accept, Accepting, Look, made

\* Every step keeps what the solutions are.
LEMMA HandedStep ==
  ASSUME Known, [Next]_vars, Served', currentJob <= currentJob', currentJob' \in Nat, Longer
  PROVE  Handed'
<1>1. currentJob \in Nat /\ Entries \subseteq Entries' /\ 1..currentJob \subseteq 1..currentJob' /\ 0..currentJob \subseteq 0..currentJob'
      /\ 1..currentJob \subseteq 1..Len(jobs)
  <2>1. currentJob \in Nat /\ 1..currentJob \subseteq 1..currentJob' /\ 0..currentJob \subseteq 0..currentJob' BY DEF Known, Served
  <2>2. 1..currentJob \subseteq 1..Len(jobs) BY <2>1 DEF Known, Served
  <2> QED BY <2>1, <2>2 DEF Entries
<1>2. ASSUME NEW e \in Entries, Checked(e), foundOn'[e[1]] = foundOn[e[1]] PROVE Checked(e)'
  BY <1>1, <1>2, HeadersStay DEF Checked, Entries
<1>3. \A e \in Entries : Checked(e) => foundOn[e[1]] # NoJob /\ e[1] \in Shares BY <1>1 DEF Checked, Entries, NoJob
<1>4. CASE UNCHANGED <<foundOn, accepted, at, queue, subs, judged>> /\ record' \subseteq record
  BY <1>1, <1>2, <1>4 DEF Known, Handed
<1>5. ASSUME NEW c \in Conns, NEW s \in Shares, NEW j \in 1..Len(jobs), Submit(c, s, j) PROVE Handed'
  <2>0. PICK f : f = From(s, j) OBVIOUS
  <2>1. /\ j \in 1..currentJob /\ f \in 1..currentJob /\ at[c] = {}
        /\ foundOn' \in [Shares -> 0..currentJob] /\ foundOn'[s] = f
        /\ \A x \in Shares : foundOn[x] # NoJob \/ x # s => foundOn'[x] = foundOn[x]
        /\ UNCHANGED <<jobs, currentJob, record, queue, subs, accepted>>
        /\ judged \subseteq judged' /\ judged' \subseteq judged \cup {<<s, j>>}
        /\ at' = at \/ (at' = [at EXCEPT ![c] = {<<s, f, j>>}] /\ Same(s, f, j))
    BY <1>5, <2>0, SubmitMoves
  <2> DEFINE new == <<s, f, j>>
  <2>2. new \in Entries /\ new[1] = s /\ new[2] = f /\ new[3] = j BY <2>1 DEF Entries
  <2>3. Same(s, f, j)' = Same(s, f, j) BY <1>1, <2>1, HeadersStay
  <2>4. ASSUME NEW e \in Entries, Checked(e) PROVE Checked(e)'
    BY <1>2, <1>3, <2>1, <2>4
  <2>5. \A e \in (queue \cup subs)' : Checked(e)' /\ <<e[1], e[3]>> \in judged'
    BY <2>1, <2>4 DEF Known, Handed
  <2>6. at' \in [Conns -> SUBSET Entries] /\ \A d \in Conns : d # c => at'[d] = at[d]
    <3>1. at \in [Conns -> SUBSET Entries] BY DEF Known, Handed
    <3> QED BY <2>1, <2>2, <3>1
  <2>7. ASSUME NEW d \in Conns, NEW e \in at'[d] PROVE Checked(e)' /\ \A x \in at'[d] : x = e
    <3>1. CASE at' = at BY <2>4, <2>7, <3>1 DEF Known, Handed
    <3>2. CASE at' # at /\ d # c BY <2>4, <2>6, <2>7, <3>2 DEF Known, Handed
    <3>3. CASE at' # at /\ d = c
      <4>0. at \in [Conns -> SUBSET Entries] BY DEF Known, Handed
      <4>1. at'[d] = {new} /\ Same(s, f, j) BY <2>1, <3>3, <4>0
      <4>2. e = new BY <2>7, <4>1
      <4>3. Checked(new)' BY <2>1, <2>2, <2>3, <4>1 DEF Checked
      <4> QED BY <4>1, <4>2, <4>3
    <3> QED BY <3>1, <3>2, <3>3
  <2>8. judged' \subseteq Shares \X (1..currentJob) /\ \A l \in judged' : foundOn'[l[1]] # NoJob
    <3>1. ASSUME NEW l \in judged' PROVE l \in Shares \X (1..currentJob) /\ foundOn'[l[1]] # NoJob
      <4>1. CASE l \in judged BY <2>1, <4>1 DEF Known, Handed
      <4>2. CASE l = <<s, j>> BY <2>1, <4>2 DEF NoJob
      <4> QED BY <2>1, <3>1, <4>1, <4>2
    <3> QED BY <3>1
  <2>9. \A x \in Shares : accepted'[x] > 0 => foundOn'[x] # NoJob BY <2>1 DEF Known, Handed
  <2> HIDE DEF new
  <2>10. (Entries = Entries') BY <2>1 DEF Entries
  <2> QED BY <2>1, <2>5, <2>6, <2>7, <2>8, <2>9, <2>10 DEF Known, Handed
<1>6. ASSUME NEW c \in Conns, Accept(c) PROVE Handed'
  <2>1. PICK e \in at[c] : Accepting(e, c) BY <1>6, AcceptMoves
  <2>2. UNCHANGED <<jobs, currentJob, subs, foundOn>> BY <1>6, AcceptMoves
  <2>3. e \in Entries /\ Checked(e) /\ e[1] \in Shares /\ e[3] \in 1..currentJob BY <1>3 DEF Known, Handed, Entries
  <2>4. (Entries = Entries') BY <2>2 DEF Entries
  <2>5. \A x \in Entries : Checked(x) => Checked(x)' BY <1>2, <2>2
  <2>6. at' \in [Conns -> SUBSET Entries] /\ \A d \in Conns : at'[d] \subseteq at[d]
    BY <2>1 DEF Known, Handed, Accepting
  <2>7. queue' \subseteq queue \cup {e} BY <2>1 DEF Accepting
  <2>8. judged' = judged \cup {<<e[1], e[3]>>} /\ record' = record \cup {e[1]} BY <2>1 DEF Accepting
  <2>9. /\ accepted' \in [Shares -> Nat] /\ \A x \in Shares : accepted'[x] >= accepted[x] /\ (x # e[1] => accepted'[x] = accepted[x])
        /\ accepted'[e[1]] > 0
    BY <2>1, <2>3 DEF Accepting, Known, Handed
  <2>10. \A x \in (queue \cup subs)' : Checked(x)' /\ <<x[1], x[3]>> \in judged'
    BY <2>2, <2>3, <2>5, <2>7, <2>8 DEF Known, Handed
  <2>11. \A x \in record' : accepted'[x] > 0 BY <2>3, <2>8, <2>9 DEF Known, Handed
  <2>12. \A x \in Shares : accepted'[x] > 0 => foundOn'[x] # NoJob BY <1>3, <2>2, <2>3, <2>9 DEF Known, Handed
  <2>13. \A d \in Conns : \A x \in at'[d] : Checked(x)' /\ \A y \in at'[d] : y = x
    BY <2>5, <2>6 DEF Known, Handed
  <2>14. judged' \subseteq Shares \X (1..currentJob) /\ record' \subseteq Shares BY <2>3, <2>8 DEF Known, Handed
  <2>16. \A l \in judged' : foundOn'[l[1]] # NoJob BY <1>3, <2>2, <2>3, <2>8 DEF Known, Handed
  <2>15. queue' \subseteq Entries BY <2>3, <2>7 DEF Known, Handed
  <2> QED BY <2>2, <2>4, <2>6, <2>9, <2>10, <2>11, <2>12, <2>13, <2>14, <2>15, <2>16 DEF Known, Handed
<1>7. CASE UNCHANGED <<jobs, currentJob, foundOn, accepted, at, judged, record>> /\ queue' \subseteq queue
           /\ subs' \subseteq queue \cup subs
  <2>1. \A x \in Entries : Checked(x) => Checked(x)' BY <1>2, <1>7
  <2>2. (Entries = Entries') BY <1>7 DEF Entries
  <2> QED BY <1>7, <2>1, <2>2 DEF Known, Handed
<1>8. CASE ProcessShare \/ SubmitBlock
  <2>1. UNCHANGED <<jobs, currentJob, foundOn, accepted, at, judged, record>> /\ queue' \subseteq queue
        /\ subs' \subseteq queue \cup subs
    BY <1>8 DEF ProcessShare, SubmitBlock, made, maps, hist
  <2> QED BY <1>7, <2>1
<1>9. CASE \/ Broadcast \/ Cleanup \/ UNCHANGED vars \/ (\E p \in Pruners : PruneVisit(p)) \/ (\E c \in Conns : Login(c))
  <2>1. UNCHANGED <<foundOn, accepted, at, queue, subs, judged>> /\ record' \subseteq record
    BY <1>9 DEF Broadcast, MakeJob, StoreCurrent, StoreHistory, ClearShares, SendAll, Cleanup, PruneVisit, Login,
                vars, maps, work, hist
  <2> QED BY <1>4, <2>1
<1> QED BY <1>5, <1>6, <1>8, <1>9 DEF Next

\* The three together.
LEMMA KnownStep ==
  ASSUME Known, [Next]_vars
  PROVE  Known' /\ Longer /\ currentJob <= currentJob' /\ currentJob' \in Nat
BY JobsStep, ServedStep, HandedStep DEF Known

\* A job the server knows is made from its template.
LEMMA MadeFor ==
  ASSUME Known, NEW j \in 1..currentJob
  PROVE  j \in Jobs /\ j \in 1..Len(jobs) /\ JobFor(jobs[j], Templates[j])
<1>1. j \in 1..Len(jobs) BY DEF Known, Served
<1> QED BY <1>1, TemplatesAssumption DEF Known, JobsMatch

\* Nothing found, accepted, looked at or sent is taken back.
LEMMA StepMoves ==
  ASSUME Known, [Next]_vars
  PROVE  /\ \A x \in Shares : foundOn[x] # NoJob => foundOn'[x] = foundOn[x]
         /\ \A x \in Shares : accepted[x] > 0 => accepted'[x] > 0
         /\ judged \subseteq judged' /\ proofs \subseteq proofs' /\ blocks \subseteq blocks'
<1>1. CASE UNCHANGED hist /\ blocks \subseteq blocks' BY <1>1 DEF hist
<1>2. ASSUME NEW c \in Conns, NEW s \in Shares, NEW j \in 1..Len(jobs), Submit(c, s, j)
      PROVE  /\ \A x \in Shares : foundOn[x] # NoJob => foundOn'[x] = foundOn[x]
             /\ UNCHANGED <<accepted, blocks>> /\ judged \subseteq judged' /\ proofs \subseteq proofs'
  <2>1. \A f : Judge(c, s, f, j) => proofs \subseteq proofs' BY DEF Judge, Refuse, AuxFrom
  <2>2. \E f : Judge(c, s, f, j) BY <1>2 DEF Submit
  <2> QED BY <1>2, <2>1, <2>2, SubmitMoves
<1>3. ASSUME NEW c \in Conns, Accept(c)
      PROVE  /\ UNCHANGED <<foundOn, blocks>> /\ judged \subseteq judged' /\ proofs \subseteq proofs'
             /\ \A x \in Shares : accepted[x] > 0 => accepted'[x] > 0
  <2>1. PICK e \in at[c] : Accepting(e, c) BY <1>3, AcceptMoves
  <2>2. e[1] \in Shares /\ accepted \in [Shares -> Nat] BY DEF Known, Handed, Entries
  <2>3. \A x \in Shares : accepted[x] > 0 => accepted'[x] > 0 BY <2>1, <2>2 DEF Accepting
  <2>4. proofs \subseteq proofs' BY <2>1 DEF Accepting, AuxFrom
  <2> QED BY <1>3, <2>1, <2>3, <2>4, AcceptMoves DEF Accepting
<1>4. CASE \/ Broadcast \/ Cleanup \/ ProcessShare \/ SubmitBlock \/ UNCHANGED vars
           \/ (\E p \in Pruners : PruneVisit(p)) \/ (\E c \in Conns : Login(c))
  <2>1. UNCHANGED hist /\ blocks \subseteq blocks'
    BY <1>4 DEF Broadcast, MakeJob, StoreCurrent, StoreHistory, ClearShares, SendAll, Cleanup, ProcessShare,
                SubmitBlock, PruneVisit, Login, vars, hist
  <2> QED BY <1>1, <2>1
<1> QED BY <1>2, <1>3, <1>4 DEF Next

----------------------------------------------------------------------------
(* A block found in time is judged worth recording, and one accepted goes   *)
(* to the node.                                                             *)

\* A block found in time is under a job the server still knows, and passes every check of its header.
LEMMA FoundInTime ==
  ASSUME Known, NEW c \in Conns, NEW s \in Shares, NEW j \in 1..currentJob, InTime(s, j), Judge(c, s, j, j)
  PROVE  at' = [at EXCEPT ![c] = {<<s, j, j>>}]
<1>1. j \in Jobs /\ JobFor(jobs[j], Templates[j]) /\ j \in 1..Len(jobs) BY MadeFor
<1>2. Header(jobs[j], Owner[s], Solution(s, j)) = Found(s, j) BY <1>1, OwnHeader
<1>3. Meets(s, j, j) = Quality[s] BY <1>2 DEF Meets
<1>4. Quality[s] \in Nat \ {0} /\ jobs[j].bits \in Nat /\ Quality[s] >= jobs[j].bits
  BY <1>1, SharesAssumption, TemplatesAssumption DEF JobFor, InTime
<1>5. j + MaxHistory > currentJob BY LimitsAssumption DEF InTime, Known, Served
<1>6. j \in history BY <1>5 DEF InTime, Known, Served
<1>7. Tip(j) = Tip(currentJob) /\ NtimeInRange(Time[s], jobs[j].time) BY DEF InTime
<1> QED BY <1>3, <1>4, <1>6, <1>7 DEF Judge

\* A block found in time stays with its connection's reader until it is accepted.
LEMMA DueStep ==
  ASSUME Known, DueWaits, [Next]_vars
  PROVE  DueWaits'
<1>1. Known' /\ Longer /\ currentJob <= currentJob' /\ currentJob' \in Nat BY KnownStep
<1>2. /\ \A x \in Shares : foundOn[x] # NoJob => foundOn'[x] = foundOn[x]
      /\ \A x \in Shares : accepted[x] > 0 => accepted'[x] > 0
  BY StepMoves
<1>3. currentJob \in Nat /\ 1..currentJob \subseteq 1..currentJob' /\ 1..currentJob \subseteq 1..Len(jobs)
  <2>1. currentJob \in Nat /\ 1..currentJob \subseteq 1..currentJob' BY <1>1 DEF Known, Served
  <2> QED BY <2>1 DEF Known, Served
<1> DEFINE Waits(s) == accepted[s] > 0 \/ \E c \in Conns : \E e \in at[c] : e[1] = s
<1>4. ASSUME NEW s \in Shares, Waits(s) PROVE Waits(s)'
  <2>1. CASE accepted[s] > 0 BY <1>2, <2>1
  <2>2. CASE \E c \in Conns : \E e \in at[c] : e[1] = s
    <3>1. PICK c \in Conns : \E e \in at[c] : e[1] = s BY <2>2
    <3>2. CASE at'[c] = at[c] BY <3>1, <3>2
    <3>3. CASE at'[c] # at[c]
      <4>1. at \in [Conns -> SUBSET Entries] BY DEF Known, Handed
      <4>2. ASSUME NEW d \in Conns, NEW x \in Shares, NEW j \in 1..Len(jobs), Submit(d, x, j) PROVE FALSE
        <5>1. at[d] = {} /\ (at' = at \/ at' = [at EXCEPT ![d] = {<<x, From(x, j), j>>}])
          BY <4>2, SubmitMoves
        <5> QED BY <3>1, <3>3, <4>1, <5>1
      <4>3. ASSUME NEW d \in Conns, Accept(d) PROVE accepted'[s] > 0
        <5>1. PICK e \in at[d] : Accepting(e, d) BY <4>3, AcceptMoves
        <5>2. d = c BY <3>3, <4>1, <5>1 DEF Accepting
        <5>3. e[1] = s BY <3>1, <5>2 DEF Known, Handed
        <5>4. accepted \in [Shares -> Nat] /\ (s \in record => accepted[s] > 0) BY DEF Known, Handed
        <5> QED BY <5>1, <5>3, <5>4 DEF Accepting
      <4>4. ~UNCHANGED at BY <3>3
      <4>5. (\E d \in Conns, x \in Shares, j \in 1..Len(jobs) : Submit(d, x, j)) \/ (\E d \in Conns : Accept(d))
        BY <4>4 DEF Next, Broadcast, MakeJob, StoreCurrent, StoreHistory, ClearShares, SendAll, Cleanup, ProcessShare,
                    SubmitBlock, PruneVisit, Login, vars
      <4> QED BY <4>2, <4>3, <4>5
    <3> QED BY <3>2, <3>3
  <2> QED BY <1>4, <2>1, <2>2
<1> HIDE DEF Waits
<1>5. ASSUME NEW d \in dueBlocks
      PROVE  /\ d \in Shares \X (1..currentJob') /\ foundOn'[d[1]] = d[2] /\ Quality[d[1]] >= jobs'[d[2]].bits /\ Waits(d[1])'
  <2>1. /\ d \in Shares \X (1..currentJob) /\ foundOn[d[1]] = d[2] /\ Quality[d[1]] >= jobs[d[2]].bits /\ Waits(d[1])
    BY DEF DueWaits, Waits
  <2>2. d[1] \in Shares /\ d[2] \in 1..currentJob /\ d[2] # NoJob BY <2>1 DEF NoJob
  <2>3. jobs'[d[2]] = jobs[d[2]] BY <1>1, <1>3, <2>2 DEF Longer
  <2> QED BY <1>2, <1>3, <1>4, <2>1, <2>2, <2>3
<1>6. ASSUME NEW d \in dueBlocks', d \notin dueBlocks
      PROVE  /\ d \in Shares \X (1..currentJob') /\ foundOn'[d[1]] = d[2] /\ Quality[d[1]] >= jobs'[d[2]].bits /\ Waits(d[1])'
  <2>1. PICK c \in Conns, s \in Shares, j \in 1..Len(jobs) : Submit(c, s, j)
    BY <1>6 DEF Next, Broadcast, MakeJob, StoreCurrent, StoreHistory, ClearShares, SendAll, Cleanup, ProcessShare,
                SubmitBlock, PruneVisit, Login, Accept, vars, hist
  <2>2. From(s, j) = j /\ InTime(s, j) /\ d = <<s, j>> /\ Judge(c, s, j, j) BY <1>6, <2>1 DEF Submit, From
  <2>3. j \in 1..currentJob /\ foundOn'[s] = j /\ UNCHANGED jobs BY <2>1, <2>2, SubmitMoves
  <2>4. at' = [at EXCEPT ![c] = {<<s, j, j>>}] BY <2>2, <2>3, FoundInTime
  <2>5. at \in [Conns -> SUBSET Entries] BY DEF Known, Handed
  <2>6. Waits(s)'
    <3>1. <<s, j, j>> \in at'[c] BY <2>4, <2>5
    <3>2. <<s, j, j>>[1] = s OBVIOUS
    <3> QED BY <3>1, <3>2 DEF Waits
  <2>7. Quality[s] >= jobs[j].bits BY <2>2 DEF InTime
  <2> QED BY <1>3, <2>2, <2>3, <2>6, <2>7
<1> QED BY <1>5, <1>6 DEF DueWaits, Waits

\* Under any job in whose header the miner's work is, the difficulty is that of the job it is for.
LEMMA SameBits ==
  ASSUME NEW s, NEW f, NEW j, Same(s, f, j)
  PROVE  jobs[j].bits = jobs[f].bits
<1>1. Header(jobs[j], Owner[s], Solution(s, f)).bits = jobs[j].bits BY DEF Header
<1>2. Found(s, f).bits = jobs[f].bits BY DEF Found, MinerHeader
<1> QED BY <1>1, <1>2 DEF Same

\* A block that was accepted is not judged short of its block while its job is kept.
LEMMA NotShort ==
  ASSUME Known, NEW e \in queue \cup subs, Kept(e[3]), Quality[e[1]] >= jobs[foundOn[e[1]]].bits
  PROVE  Quality[e[1]] >= Threshold(e[3])
<1>1. e \in Entries /\ Checked(e) BY DEF Known, Handed
<1>2. e[1] \in Shares /\ e[2] \in 1..currentJob /\ e[3] \in 1..currentJob BY <1>1 DEF Entries
<1>3. jobs[e[3]].bits = jobs[foundOn[e[1]]].bits BY <1>1, SameBits DEF Checked
<1>4. Len(jobs) \in Jobs /\ e[3] \in Jobs /\ Len(jobs) \in 1..Len(jobs) /\ e[3] \in 1..Len(jobs)
  <2>1. Len(jobs) \in Nat /\ currentJob \in Nat /\ currentJob <= Len(jobs) /\ Len(jobs) <= Len(Templates)
    BY DEF Known, Served, JobsMatch
  <2>2. e[3] \in 1..Len(jobs) BY <1>2, <2>1
  <2>3. Len(jobs) \in 1..Len(jobs) BY <2>1, <2>2
  <2>4. 1..Len(jobs) \subseteq Jobs BY <2>1, TemplatesAssumption
  <2> QED BY <2>2, <2>3, <2>4
<1>5. jobs[e[3]].bits \in Nat /\ NetDiff \in Nat /\ Quality[e[1]] \in Nat
  BY <1>2, <1>4, TemplatesAssumption, SharesAssumption DEF Known, JobsMatch, JobFor, NetDiff
<1> QED BY <1>3, <1>5 DEF Threshold

\* What a solution that goes on is.
GoesOn(s) ==
    \/ \E e \in queue \cup subs : e[1] = s
    \/ \E b \in blocks : b.share = s
    \/ \E l \in judged : l[1] = s /\ ~Kept(l[2])

\* A block goes on: it is being processed, or submitted, or at the node, or its job is gone.
LEMMA GoesOnStep ==
  ASSUME Known, [Next]_vars, NEW s \in Shares, GoesOn(s), Quality[s] >= jobs[foundOn[s]].bits
  PROVE  GoesOn(s)'
<1>1. Known' /\ Longer BY KnownStep
<1>2. judged \subseteq judged' /\ blocks \subseteq blocks' BY StepMoves
<1>3. CASE \E b \in blocks : b.share = s BY <1>2, <1>3 DEF GoesOn
<1>4. CASE \E l \in judged : l[1] = s /\ ~Kept(l[2])
  <2>1. PICK l \in judged : l[1] = s /\ ~Kept(l[2]) BY <1>4
  <2>2. l[2] \in Nat /\ Len(jobs) \in Nat /\ Len(jobs') \in Nat
    <3>1. l \in Shares \X (1..currentJob) BY <2>1 DEF Known, Handed
    <3>2. currentJob \in Nat BY DEF Known, Served
    <3>3. Len(jobs) \in Nat BY DEF Known, JobsMatch
    <3>4. Len(jobs') \in Nat BY <1>1 DEF Known, JobsMatch
    <3> QED BY <3>1, <3>2, <3>3, <3>4
  <2>3. ~Kept(l[2])' BY <1>1, <2>1, <2>2, LimitsAssumption DEF Kept, Longer
  <2> QED BY <1>2, <2>1, <2>3 DEF GoesOn
<1>5. CASE \E e \in queue \cup subs : e[1] = s
  <2>1. PICK e \in queue \cup subs : e[1] = s BY <1>5
  <2>2. <<s, e[3]>> \in judged' BY <1>2, <2>1 DEF Known, Handed
  <2>3. CASE e \in (queue \cup subs)' BY <2>1, <2>3 DEF GoesOn
  <2>4. CASE UNCHANGED jobs /\ ~Kept(e[3])
    <3>1. <<s, e[3]>>[1] = s /\ ~Kept(<<s, e[3]>>[2])' BY <2>4 DEF Kept
    <3> QED BY <2>2, <3>1 DEF GoesOn
  <2>5. CASE ProcessShare /\ e \notin (queue \cup subs)'
    <3>1. PICK x \in queue : /\ queue' = queue \ {x}
                            /\ subs' = IF Quality[x[1]] >= Threshold(x[3]) THEN subs \cup {x} ELSE subs
      BY <2>5 DEF ProcessShare
    <3>2. x = e BY <2>1, <2>5, <3>1
    <3>3. UNCHANGED jobs BY <2>5 DEF ProcessShare, made
    <3>4. ~Kept(e[3]) BY <2>1, <2>5, <3>1, <3>2, NotShort
    <3> QED BY <2>4, <3>3, <3>4
  <2>6. CASE SubmitBlock /\ e \notin (queue \cup subs)'
    <3>1. PICK x \in subs :
            /\ subs' = subs \ {x}
            /\ blocks' = IF Kept(x[3])
                         THEN blocks \cup {[share |-> x[1], job |-> x[3],
                                            block |-> Block(jobs[x[3]], Owner[x[1]], Solution(x[1], x[2]))]}
                         ELSE blocks
      BY <2>6 DEF SubmitBlock
    <3>2. UNCHANGED <<queue, jobs>> BY <2>6 DEF SubmitBlock, made
    <3>3. x = e BY <2>1, <2>6, <3>1, <3>2
    <3> DEFINE sent1 == [share |-> x[1], job |-> x[3],
                         block |-> Block(jobs[x[3]], Owner[x[1]], Solution(x[1], x[2]))]
    <3>4. sent1.share = s BY <2>1, <3>3
    <3> HIDE DEF sent1
    <3>5. CASE Kept(e[3]) BY <3>1, <3>3, <3>4, <3>5 DEF GoesOn, sent1
    <3>6. CASE ~Kept(e[3]) BY <2>4, <3>2, <3>6
    <3> QED BY <3>5, <3>6
  <2>7. CASE ~ProcessShare /\ ~SubmitBlock
    <3>1. queue \subseteq queue' /\ subs \subseteq subs'
      BY <2>7 DEF Next, Broadcast, MakeJob, StoreCurrent, StoreHistory, ClearShares, SendAll, Cleanup, PruneVisit,
                  Login, Accept, Submit, vars, work
    <3> QED BY <2>1, <2>3, <3>1
  <2> QED BY <2>3, <2>5, <2>6, <2>7
<1> QED BY <1>3, <1>4, <1>5 DEF GoesOn

\* What is accepted goes on.
LEMMA AcceptedStep ==
  ASSUME Known, AcceptedGoesOn, [Next]_vars
  PROVE  AcceptedGoesOn'
<1>1. Known' /\ Longer BY KnownStep
<1>2. ASSUME NEW s \in Shares, accepted'[s] > 0, Quality[s] >= jobs'[foundOn'[s]].bits PROVE GoesOn(s)'
  <2>1. accepted \in [Shares -> Nat] BY DEF Known, Handed
  <2>2. CASE accepted[s] > 0
    <3>1. foundOn[s] # NoJob /\ foundOn[s] \in 1..Len(jobs) BY <2>2 DEF Known, Handed, Served, NoJob
    <3>2. foundOn'[s] = foundOn[s] BY <3>1, StepMoves
    <3>3. jobs'[foundOn[s]] = jobs[foundOn[s]] BY <1>1, <3>1 DEF Longer
    <3>4. GoesOn(s) BY <1>2, <2>2, <3>2, <3>3 DEF AcceptedGoesOn, GoesOn
    <3> QED BY <1>2, <3>2, <3>3, <3>4, GoesOnStep
  <2>3. CASE ~(accepted[s] > 0)
    <3>1. PICK c \in Conns : Accept(c)
      BY <1>2, <2>3 DEF Next, Broadcast, MakeJob, StoreCurrent, StoreHistory, ClearShares, SendAll, Cleanup,
                  ProcessShare, SubmitBlock, PruneVisit, Login, Submit, vars, hist
    <3>2. PICK e \in at[c] : Accepting(e, c) BY <3>1, AcceptMoves
    <3>3. e[1] = s /\ e \in queue' BY <1>2, <2>1, <2>3, <3>2 DEF Accepting
    <3> QED BY <3>3 DEF GoesOn
  <2> QED BY <2>2, <2>3
<1> QED BY <1>2 DEF AcceptedGoesOn, GoesOn

----------------------------------------------------------------------------
(* The 1175 blocks.                                                         *)

\* A header with the 1175 work of a 1175 solution is sent, or was.
LEMMA AuxFromSends ==
  ASSUME NEW s \in AuxSolving, NEW f, NEW j, AuxFrom(s, f, j), Same(s, f, j), jobs[j].aux # NoHash
  PROVE  \E p \in proofs' : p.proof.header = Found(s, f)
<1>1. Proof(s, f, j).proof.header = Found(s, f) BY DEF Proof, AuxPow, Same
<1>2. CASE \A p \in proofs : p.proof.header # Found(s, f)
  <2>1. proofs' = proofs \cup {Proof(s, f, j)} BY <1>2 DEF AuxFrom, Same
  <2>2. Proof(s, f, j) \in proofs' BY <2>1
  <2> QED BY <1>1, <2>2
<1>3. CASE \E p \in proofs : p.proof.header = Found(s, f)
  BY <1>3 DEF AuxFrom
<1> QED BY <1>2, <1>3

AuxDue(s) ==
    /\ foundOn[s] # NoJob /\ jobs[foundOn[s]].aux # NoHash
    /\ accepted[s] > 0 \/ <<s, foundOn[s]>> \in judged

\* What is accepted or looked at under its own job has its 1175 block sent.
LEMMA AuxStep ==
  ASSUME Known, AuxSent, HeadersCommit, [Next]_vars
  PROVE  AuxSent'
<1>1. Known' /\ Longer BY KnownStep
<1>2. ASSUME NEW s \in AuxSolving, AuxDue(s)' PROVE \E p \in proofs' : p.proof.header = Found(s, foundOn[s])'
  <2>0. s \in Shares /\ accepted \in [Shares -> Nat] BY SharesAssumption DEF Known, Handed
  <2>1. CASE AuxDue(s)
    <3>1. foundOn[s] # NoJob /\ foundOn[s] \in 1..Len(jobs) BY <2>0, <2>1 DEF AuxDue, Known, Handed, Served, NoJob
    <3>2. foundOn'[s] = foundOn[s] BY <2>0, <3>1, StepMoves
    <3>3. jobs'[foundOn[s]] = jobs[foundOn[s]] BY <1>1, <3>1 DEF Longer
    <3>4. PICK p \in proofs : p.proof.header = Found(s, foundOn[s]) BY <2>1 DEF AuxSent, AuxDue
    <3>5. Found(s, foundOn[s])' = Found(s, foundOn[s]) BY <3>2, <3>3 DEF Found, Solution, Mask
    <3> QED BY <3>4, <3>5, StepMoves
  <2>2. ASSUME ~AuxDue(s), NEW c \in Conns, NEW x \in Shares, NEW j \in 1..Len(jobs), Submit(c, x, j)
        PROVE  \E p \in proofs' : p.proof.header = Found(s, foundOn[s])'
    <3>0. PICK f : f = From(x, j) OBVIOUS
    <3>1. /\ j \in 1..currentJob /\ foundOn'[x] = f /\ UNCHANGED <<jobs, accepted>>
          /\ \A y \in Shares : foundOn[y] # NoJob \/ y # x => foundOn'[y] = foundOn[y]
          /\ judged \subseteq judged' /\ judged' \subseteq judged \cup {<<x, j>>}
      BY <2>2, <3>0, SubmitMoves
    <3>2. <<s, foundOn'[s]>> \in judged' /\ <<s, foundOn'[s]>> \notin judged
      <4>1. CASE foundOn[s] # NoJob BY <1>2, <2>0, <2>2, <3>1, <4>1 DEF AuxDue
      <4>2. CASE foundOn[s] = NoJob
        <5>1. accepted[s] = 0 BY <2>0, <4>2 DEF Known, Handed
        <5>2. \A l \in judged : l[1] # s BY <4>2 DEF Known, Handed
        <5>3. <<s, foundOn'[s]>>[1] = s OBVIOUS
        <5> QED BY <1>2, <3>1, <5>1, <5>2, <5>3 DEF AuxDue
      <4> QED BY <4>1, <4>2
    <3>3. s = x /\ foundOn'[s] = j /\ f = j BY <3>1, <3>2
    <3>4. Judge(c, s, j, j) BY <2>2, <3>0, <3>3 DEF Submit, From
    <3>5. AuxFrom(s, j, j) BY <3>2, <3>3, <3>4 DEF Judge, Refuse
    <3>6. Same(s, j, j)
      <4>1. j \in Jobs /\ JobFor(jobs[j], Templates[j]) BY <3>1, MadeFor
      <4> QED BY <2>0, <4>1, OwnHeader DEF Same
    <3>7. jobs[j].aux # NoHash BY <1>2, <3>1, <3>3 DEF AuxDue
    <3>8. Found(s, foundOn[s])' = Found(s, j) BY <3>1, <3>3 DEF Found, Solution, Mask
    <3> QED BY <3>5, <3>6, <3>7, <3>8, AuxFromSends
  <2>3. ASSUME ~AuxDue(s), NEW c \in Conns, Accept(c)
        PROVE  \E p \in proofs' : p.proof.header = Found(s, foundOn[s])'
    <3>1. PICK e \in at[c] : Accepting(e, c) BY <2>3, AcceptMoves
    <3>2. UNCHANGED <<jobs, foundOn>> BY <2>3, AcceptMoves
    <3>3. /\ e[1] \in Shares /\ e[2] \in 1..currentJob /\ e[3] \in 1..currentJob /\ foundOn[e[1]] = e[2] /\ e[2] # NoJob
          /\ Same(e[1], e[2], e[3])
      BY DEF Known, Handed, Entries, Checked, NoJob
    <3>4. e[1] = s /\ s \notin record
      <4>1. CASE e[1] \in record
        <5>1. UNCHANGED accepted /\ judged' = judged \cup {<<e[1], e[3]>>} BY <3>1, <4>1 DEF Accepting
        <5>2. s = e[1] BY <1>2, <2>3, <3>2, <5>1 DEF AuxDue
        <5>3. accepted[s] > 0 BY <4>1, <5>2 DEF Known, Handed
        <5> QED BY <1>2, <2>3, <3>2, <5>3 DEF AuxDue
      <4>2. CASE e[1] \notin record
        <5>1. accepted' = [accepted EXCEPT ![e[1]] = @ + 1] /\ judged' = judged \cup {<<e[1], e[3]>>}
          BY <3>1, <4>2 DEF Accepting
        <5>2. s = e[1] BY <1>2, <2>0, <2>3, <3>2, <5>1 DEF AuxDue
        <5> QED BY <4>2, <5>2
      <4> QED BY <4>1, <4>2
    <3>5. AuxFrom(s, e[2], e[3]) BY <3>1, <3>4 DEF Accepting
    <3>6. jobs[e[3]].aux = jobs[e[2]].aux
      <4>1. e[3] \in 1..Len(jobs) BY <3>3 DEF Known, Served
      <4> QED BY <3>3, <4>1 DEF HeadersCommit, Same
    <3>7. jobs[e[3]].aux # NoHash BY <1>2, <3>2, <3>3, <3>4, <3>6 DEF AuxDue
    <3>8. Found(s, foundOn[s])' = Found(s, e[2]) BY <3>2, <3>3, <3>4 DEF Found, Solution, Mask
    <3> QED BY <3>3, <3>4, <3>5, <3>7, <3>8, AuxFromSends
  <2>4. CASE ~AuxDue(s) /\ UNCHANGED <<accepted, judged, foundOn>>
    <3>1. foundOn[s] # NoJob /\ foundOn[s] \in 1..Len(jobs)
      BY <1>2, <2>0, <2>4 DEF AuxDue, Known, Handed, Served, NoJob
    <3>2. jobs'[foundOn[s]] = jobs[foundOn[s]] BY <1>1, <3>1 DEF Longer
    <3> QED BY <1>2, <2>4, <3>2 DEF AuxDue
  <2>5. \/ \E c \in Conns, x \in Shares, j \in 1..Len(jobs) : Submit(c, x, j)
        \/ \E c \in Conns : Accept(c)
        \/ UNCHANGED <<accepted, judged, foundOn>>
    BY DEF Next, Broadcast, MakeJob, StoreCurrent, StoreHistory, ClearShares, SendAll, Cleanup, ProcessShare,
           SubmitBlock, PruneVisit, Login, vars, hist
  <2> QED BY <2>1, <2>2, <2>3, <2>4, <2>5
<1> QED BY <1>2 DEF AuxSent, AuxDue

----------------------------------------------------------------------------
(* The record until the first block change.                                 *)

\* The first block is one block from the first job on.
LEMMA StillOneBlock ==
  ASSUME Known, [Next]_vars, OneBlock'
  PROVE  /\ currentJob' # NoJob /\ (currentJob # NoJob => OneBlock /\ Tip(1)' = Tip(1))
         /\ currentJob = NoJob => \A s \in Shares : accepted[s] = 0
<1>1. Longer /\ currentJob <= currentJob' /\ currentJob' \in Nat BY KnownStep
<1>2. currentJob \in Nat /\ 1..currentJob \subseteq 1..Len(jobs) /\ 1..currentJob \subseteq 1..currentJob'
  <2>1. currentJob \in Nat BY DEF Known, Served
  <2>2. 1..currentJob \subseteq 1..currentJob' BY <1>1, <2>1
  <2>3. Len(jobs) \in {currentJob, currentJob + 1} BY DEF Known, Served
  <2> QED BY <2>1, <2>2, <2>3
<1>3. \A j \in 1..currentJob : Tip(j)' = Tip(j) BY <1>1, <1>2 DEF Longer, Tip
<1>4. currentJob # NoJob => OneBlock /\ Tip(1)' = Tip(1)
  <2>1. currentJob # NoJob => 1 \in 1..currentJob BY <1>2 DEF NoJob
  <2> QED BY <1>2, <1>3, <2>1 DEF OneBlock
<1>5. currentJob = NoJob => \A s \in Shares : accepted[s] = 0
  <2>1. ASSUME currentJob = NoJob, NEW s \in Shares PROVE foundOn[s] = NoJob
    BY <2>1 DEF Known, Handed, NoJob
  <2> QED BY <2>1 DEF Known, Handed
<1> QED BY <1>4, <1>5 DEF OneBlock

\* Every step keeps what who prunes holds.
LEMMA TipStep ==
  ASSUME Known, PruneKnows, OneTip, [Next]_vars
  PROVE  PruneKnows' /\ OneTip'
<1>1. Longer /\ currentJob <= currentJob' /\ currentJob' \in Nat /\ currentJob \in Nat BY KnownStep DEF Known, Served
<1>2. currentJob # NoJob => currentJob' # NoJob BY <1>1 DEF NoJob
<1>3. ASSUME NEW q \in Pruners, PruneBegin(q), UNCHANGED <<currentJob, jobs>> PROVE PruneKnows' /\ OneTip'
  <2>1. currentJob # NoJob /\ prune' = [prune EXCEPT ![q] = [on |-> TRUE, tip |-> Tip(currentJob), start |-> record, seen |-> {}]]
    BY <1>3 DEF PruneBegin
  <2>2. /\ DOMAIN prune' = Pruners /\ prune'[q].tip = Tip(currentJob)
        /\ \A p \in Pruners : p # q => prune'[p] = prune[p]
    BY <2>1 DEF PruneKnows
  <2>3. OneBlock => Tip(currentJob) = Tip(1) BY <1>1, <2>1 DEF OneBlock, NoJob
  <2>4. (OneBlock' = OneBlock) /\ Tip(1)' = Tip(1) BY <1>3 DEF OneBlock, Tip
  <2>5. ASSUME OneBlock, NEW p \in Pruners, prune'[p].on PROVE prune'[p].tip = Tip(1)
    <3>1. CASE p = q BY <2>2, <2>3, <2>5, <3>1
    <3>2. CASE p # q BY <2>2, <2>5, <3>2 DEF OneTip
    <3> QED BY <3>1, <3>2
  <2> QED BY <1>3, <2>1, <2>2, <2>4, <2>5 DEF PruneKnows, OneTip
<1>4. CASE /\ DOMAIN prune' = Pruners
           /\ \A p \in Pruners : prune'[p].on => prune[p].on /\ prune'[p].tip = prune[p].tip
  <2>1. PruneKnows' BY <1>2, <1>4 DEF PruneKnows
  <2>2. ASSUME OneBlock', NEW p \in Pruners, prune'[p].on PROVE prune'[p].tip = Tip(1)'
    <3>1. prune[p].on /\ prune'[p].tip = prune[p].tip BY <1>4, <2>2
    <3>2. currentJob # NoJob BY <3>1 DEF PruneKnows
    <3>3. OneBlock /\ Tip(1)' = Tip(1) BY <2>2, <3>2, StillOneBlock
    <3> QED BY <3>1, <3>3 DEF OneTip
  <2> QED BY <2>1, <2>2 DEF OneTip
<1>5. ASSUME NEW q \in Pruners, PruneEnd(q) PROVE PruneKnows' /\ OneTip'
  <2>1. prune' = [prune EXCEPT ![q] = Idle] /\ ~Idle.on BY <1>5 DEF PruneEnd, Idle
  <2> HIDE DEF Idle
  <2>2. DOMAIN prune' = Pruners /\ \A p \in Pruners : prune'[p].on => prune'[p] = prune[p] BY <2>1 DEF PruneKnows
  <2> QED BY <1>4, <2>2
<1>6. ASSUME NEW q \in Pruners, PruneVisit(q) PROVE PruneKnows' /\ OneTip'
  <2>1. PICK s : prune' = [prune EXCEPT ![q].seen = @ \cup {s}] BY <1>6 DEF PruneVisit
  <2>2. \A p \in Pruners : p # q => prune'[p] = prune[p] BY <2>1 DEF PruneKnows
  <2>3. prune'[q].on = prune[q].on /\ prune'[q].tip = prune[q].tip BY <2>1 DEF PruneKnows
  <2>4. DOMAIN prune' = Pruners BY <2>1 DEF PruneKnows
  <2> QED BY <1>4, <2>2, <2>3, <2>4
<1>7. CASE UNCHANGED prune BY <1>4, <1>7 DEF PruneKnows
<1>8. CASE ClearShares \/ Cleanup
  <2>1. \/ \E q \in Pruners : PruneBegin(q) /\ UNCHANGED <<currentJob, jobs>>
        \/ \E q \in Pruners : PruneEnd(q)
    BY <1>8 DEF ClearShares, Cleanup, Pruners, made, maps
  <2> QED BY <1>3, <1>5, <2>1
<1>9. CASE ~(\E p \in Pruners : PruneVisit(p)) /\ ~ClearShares /\ ~Cleanup
  <2>1. UNCHANGED prune
    BY <1>9 DEF Next, Broadcast, MakeJob, StoreCurrent, StoreHistory, SendAll, ProcessShare, SubmitBlock, Login,
                Accept, Submit, vars
  <2> QED BY <1>7, <2>1
<1> QED BY <1>6, <1>8, <1>9

\* No pruning empties the record of what was accepted on the first block.
LEMMA RecordStep ==
  ASSUME Known, PruneKnows, OneTip, OneRecord, [Next]_vars
  PROVE  OneRecord'
<1> SUFFICES ASSUME OneBlock', NEW s \in Shares
             PROVE  accepted'[s] = 0 \/ (accepted'[s] = 1 /\ s \in record')
  BY DEF OneRecord
<1>0. accepted \in [Shares -> Nat] /\ (s \in record => accepted[s] > 0) BY DEF Known, Handed
<1>1. accepted[s] = 0 \/ (accepted[s] = 1 /\ s \in record) BY StillOneBlock DEF OneRecord
<1>2. ASSUME NEW q \in Pruners, PruneVisit(q) PROVE accepted'[s] = 0 \/ (accepted'[s] = 1 /\ s \in record')
  <2>1. UNCHANGED <<accepted, foundOn, currentJob, jobs>> /\ prune[q].on BY <1>2 DEF PruneVisit, hist, made
  <2>2. currentJob # NoJob BY <2>1 DEF PruneKnows
  <2>3. OneBlock /\ prune[q].tip = Tip(1) BY <2>1, <2>2, StillOneBlock DEF OneTip
  <2>4. ASSUME accepted[s] = 1, s \in record PROVE s \in record'
    <3>1. foundOn[s] \in 1..currentJob
      <4>1. foundOn[s] # NoJob /\ foundOn[s] \in 0..currentJob /\ currentJob \in Nat BY <2>4 DEF Known, Handed, Served
      <4> QED BY <4>1 DEF NoJob
    <3>2. Tip(foundOn[s]) = prune[q].tip BY <2>3, <3>1 DEF OneBlock
    <3>3. PICK x \in record : record' = IF Tip(foundOn[x]) # prune[q].tip THEN record \ {x} ELSE record
      BY <1>2 DEF PruneVisit
    <3> QED BY <2>4, <3>2, <3>3
  <2> QED BY <1>1, <2>1, <2>4
<1>3. ASSUME NEW c \in Conns, Accept(c) PROVE accepted'[s] = 0 \/ (accepted'[s] = 1 /\ s \in record')
  <2>1. PICK e \in at[c] : Accepting(e, c) BY <1>3, AcceptMoves
  <2>2. s \in record => s \in record' BY <2>1 DEF Accepting
  <2>3. CASE e[1] \in record
    <3>1. UNCHANGED accepted BY <2>1, <2>3 DEF Accepting
    <3> QED BY <1>1, <2>2, <3>1
  <2>4. CASE e[1] \notin record
    <3>1. accepted' = [accepted EXCEPT ![e[1]] = @ + 1] BY <2>1, <2>4 DEF Accepting
    <3>2. CASE s = e[1]
      <4>1. accepted[s] = 0 BY <1>1, <2>4, <3>2
      <4>2. accepted'[s] = 1 BY <1>0, <3>1, <3>2, <4>1
      <4>3. s \in record' BY <2>1, <3>2 DEF Accepting
      <4> QED BY <4>2, <4>3
    <3>3. CASE s # e[1] BY <1>0, <1>1, <2>2, <3>1, <3>3
    <3> QED BY <3>2, <3>3
  <2> QED BY <2>3, <2>4
<1>4. CASE ~(\E p \in Pruners : PruneVisit(p)) /\ ~(\E c \in Conns : Accept(c))
  <2>1. UNCHANGED <<accepted, record>>
    BY <1>4 DEF Next, Broadcast, MakeJob, StoreCurrent, StoreHistory, ClearShares, SendAll, Cleanup, ProcessShare,
                SubmitBlock, Login, Submit, vars, maps, hist
  <2> QED BY <1>1, <2>1
<1> QED BY <1>2, <1>3, <1>4

----------------------------------------------------------------------------
(* What is submitted.                                                       *)

\* Every step sends blocks as they were found.
LEMMA SentStep ==
  ASSUME Known, SentAsFound, [Next]_vars
  PROVE  SentAsFound'
<1>1. Longer /\ Known' BY KnownStep
<1>2. ASSUME NEW b \in blocks
      PROVE  b.share \in Shares /\ foundOn'[b.share] # NoJob /\ b.block.header = Found(b.share, foundOn[b.share])'
  <2>1. b.share \in Shares /\ foundOn[b.share] # NoJob /\ b.block.header = Found(b.share, foundOn[b.share])
    BY DEF SentAsFound
  <2>2. foundOn[b.share] \in 1..Len(jobs) BY <2>1 DEF Known, Handed, Served, NoJob
  <2>3. foundOn'[b.share] = foundOn[b.share] BY <2>1, StepMoves
  <2>4. jobs'[foundOn[b.share]] = jobs[foundOn[b.share]] BY <1>1, <2>2 DEF Longer
  <2> QED BY <2>1, <2>3, <2>4 DEF Found, Solution, Mask
<1>3. CASE SubmitBlock
  <2>1. PICK e \in subs :
          blocks' = IF Kept(e[3])
                    THEN blocks \cup {[share |-> e[1], job |-> e[3],
                                       block |-> Block(jobs[e[3]], Owner[e[1]], Solution(e[1], e[2]))]}
                    ELSE blocks
    BY <1>3 DEF SubmitBlock
  <2>2. UNCHANGED <<jobs, foundOn>> BY <1>3 DEF SubmitBlock, made, hist
  <2>3. e \in Entries /\ Checked(e) BY DEF Known, Handed
  <2>4. e[1] \in Shares /\ foundOn[e[1]] = e[2] /\ e[2] # NoJob /\ e[3] \in 1..currentJob /\ Same(e[1], e[2], e[3])
    BY <2>3 DEF Entries, Checked, NoJob
  <2>5. e[3] \in Jobs /\ JobFor(jobs[e[3]], Templates[e[3]]) BY <2>4, MadeFor
  <2>6. Block(jobs[e[3]], Owner[e[1]], Solution(e[1], e[2])).header = Found(e[1], e[2])
    BY <2>4, <2>5, BlockHeader DEF Same
  <2> DEFINE mined == Block(jobs[e[3]], Owner[e[1]], Solution(e[1], e[2]))
             new == [share |-> e[1], job |-> e[3], block |-> mined]
  <2>7. \A b \in blocks' : b \in blocks \/ b = new BY <2>1
  <2>8. new.share = e[1] /\ new.block = mined OBVIOUS
  <2>9. Found(e[1], foundOn[e[1]])' = Found(e[1], e[2]) BY <2>2, <2>4 DEF Found, Solution, Mask
  <2>10. mined.header = Found(e[1], e[2]) BY <2>6
  <2> HIDE DEF mined, new
  <2> SUFFICES ASSUME NEW b \in blocks', b = new
               PROVE  b.share \in Shares /\ foundOn'[b.share] # NoJob /\ b.block.header = Found(b.share, foundOn[b.share])'
    BY <1>2, <2>7 DEF SentAsFound
  <2>11. foundOn'[e[1]] # NoJob BY <2>2, <2>4
  <2> QED BY <2>4, <2>8, <2>9, <2>10, <2>11
<1>4. CASE ~SubmitBlock
  <2>1. UNCHANGED blocks
    BY <1>4 DEF Next, Broadcast, MakeJob, StoreCurrent, StoreHistory, ClearShares, SendAll, Cleanup, ProcessShare,
                PruneVisit, Login, Accept, Submit, vars
  <2> QED BY <1>2, <2>1 DEF SentAsFound
<1> QED BY <1>3, <1>4

\* A block sent builds on the tip, and at the bits, of the template of the job it was sent under.
OnItsTip ==
    \A b \in blocks :
        b.block.header.prev = Reverse(Templates[b.job].prev) /\ b.block.header.bits = Templates[b.job].bits

\* The hash is swapped back, whichever job of the tip the solution was found on.
LEMMA TipKept ==
  ASSUME Known, OnItsTip, [Next]_vars
  PROVE  OnItsTip'
<1>1. CASE SubmitBlock
  <2>1. PICK e \in subs :
          blocks' = IF Kept(e[3])
                    THEN blocks \cup {[share |-> e[1], job |-> e[3],
                                       block |-> Block(jobs[e[3]], Owner[e[1]], Solution(e[1], e[2]))]}
                    ELSE blocks
    BY <1>1 DEF SubmitBlock
  <2>2. e[3] \in 1..currentJob BY DEF Known, Handed, Entries
  <2>3. e[3] \in Jobs /\ JobFor(jobs[e[3]], Templates[e[3]]) BY <2>2, MadeFor
  <2> DEFINE mined == Block(jobs[e[3]], Owner[e[1]], Solution(e[1], e[2]))
             new == [share |-> e[1], job |-> e[3], block |-> mined]
  <2>4. mined.header.prev = Reverse(Templates[e[3]].prev) /\ mined.header.bits = Templates[e[3]].bits
    BY <2>3 DEF Block, JobFor
  <2>5. \A b \in blocks' : b \in blocks \/ b = new BY <2>1
  <2>6. new.job = e[3] /\ new.block = mined OBVIOUS
  <2> HIDE DEF mined, new
  <2> QED BY <2>4, <2>5, <2>6 DEF OnItsTip
<1>2. CASE ~SubmitBlock
  <2>1. UNCHANGED blocks
    BY <1>2 DEF Next, Broadcast, MakeJob, StoreCurrent, StoreHistory, ClearShares, SendAll, Cleanup, ProcessShare,
                PruneVisit, Login, Accept, Submit, vars
  <2> QED BY <2>1 DEF OnItsTip
<1> QED BY <1>1, <1>2

----------------------------------------------------------------------------
(* The proofs sent to the 1175 node.                                        *)

\* The second of the fields a coinbase goes on with.
LEMMA SecondField ==
  ASSUME NEW a, NEW b, NEW c, NEW d, NEW e
  PROVE  LET w == <<a>> \o <<b>> \o <<c, d, e>> IN w \in Seq({a, b, c, d, e}) /\ Len(w) = 5 /\ w[2] = b
<1> DEFINE T == {a, b, c, d, e}
<1>1. <<a>> \in Seq(T) /\ <<b>> \in Seq(T) /\ <<c, d, e>> \in Seq(T) OBVIOUS
<1>2. Len(<<a>>) = 1 /\ Len(<<b>>) = 1 /\ Len(<<c, d, e>>) = 3 OBVIOUS
<1> QED BY <1>1, <1>2

\* A coinbase has the field x.
Holds(w, x) == \E i \in DOMAIN w : w[i] = x

\* What is in the last of three parts is in the whole.
LEMMA Within ==
  ASSUME NEW T, NEW u \in Seq(T), NEW v \in Seq(T), NEW w \in Seq(T), NEW i \in 1..Len(w)
  PROVE  Holds(u \o v \o w, w[i])
<1>1. u \o v \in Seq(T) /\ Len(u \o v) = Len(u) + Len(v) OBVIOUS
<1>2. (u \o v) \o w \in Seq(T) /\ Len((u \o v) \o w) = Len(u \o v) + Len(w) BY <1>1
<1>3. Len(u) + Len(v) + i \in 1..Len((u \o v) \o w) BY <1>1, <1>2
<1>4. ((u \o v) \o w)[Len(u) + Len(v) + i] = w[i] BY <1>1, <1>2, <1>3
<1>5. DOMAIN ((u \o v) \o w) = 1..Len((u \o v) \o w) BY <1>2
<1> QED BY <1>3, <1>4, <1>5 DEF Holds

\* A job with 1175 work has the commitment to it in its coinbase, whatever the extranonces.
Commits(jb, en1, en2) == jb.aux # NoHash => Holds(Coinbase(jb, en1, en2), <<"commitment", 44, jb.aux>>)

\* Halves made with the commitment put it there.
LEMMA HalvesCommit ==
  ASSUME NEW jb, NEW tag, NEW h, NEW outs, NEW en1, NEW en2, jb.aux # NoHash,
         jb.cb1 = Coinbase1(h, tag, Commitment(jb.aux)), jb.cb2 = Coinbase2(tag, Commitment(jb.aux), outs)
  PROVE  Commits(jb, en1, en2)
<1> DEFINE p == <<"prefix", 41, 0>>
           l == <<"length", 1, (Len(HeightPush(h)) + Reserve + Len(tag) + Bytes(Commitment(jb.aux))) % 256>>
           q == <<"push", Len(HeightPush(h)), HeightPush(h)>>
           a == <<"tag", Len(tag), tag>>
           b == <<"commitment", 44, jb.aux>>
           c == <<"sequence", 4, 0>>
           d == <<"outputs", 1, outs>>
           e == <<"lock", 4, 0>>
           x == <<"en1", En1Size, en1>>
           y == <<"en2", En2Size, en2>>
           T == {p, l, q, a, b, c, d, e, x, y}
<1>1. jb.cb1 = <<p, l, q>> /\ jb.cb2 = <<a>> \o <<b>> \o <<c, d, e>> BY DEF Coinbase1, Coinbase2, Commitment
<1>2. Coinbase(jb, en1, en2) = jb.cb1 \o <<x, y>> \o jb.cb2 BY DEF Coinbase
<1> HIDE DEF p, l, q, a, b, c, d, e, x, y
<1>3. jb.cb1 \in Seq(T) /\ <<x, y>> \in Seq(T) BY <1>1
<1>4. jb.cb2 \in Seq({a, b, c, d, e}) /\ Len(jb.cb2) = 5 /\ jb.cb2[2] = b BY <1>1, SecondField
<1>5. jb.cb2 \in Seq(T) /\ 2 \in 1..Len(jb.cb2)
  <2>1. {a, b, c, d, e} \subseteq T OBVIOUS
  <2> QED BY <1>4, <2>1
<1> HIDE DEF T
<1>6. Holds(jb.cb1 \o <<x, y>> \o jb.cb2, jb.cb2[2]) BY <1>3, <1>5, Within
<1>7. Holds(Coinbase(jb, en1, en2), b) BY <1>2, <1>4, <1>6
<1> QED BY <1>7 DEF Commits, b

\* The halves of a job and its 1175 work.
Parts(jb, cb1, cb2, aux) == jb.cb1 = cb1 /\ jb.cb2 = cb2 /\ jb.aux = aux

\* A job has the halves and the work it was made with.
LEMMA PartsKept ==
  ASSUME NEW t, NEW txs, NEW cb1, NEW cb2, NEW value, NEW aux, NEW paysPool
  PROVE  Parts(With(JobOn(t, txs), cb1, cb2, value, aux, paysPool), cb1, cb2, aux)
BY DEF With, JobOn, Parts

\* So a solo job commits to its work, and a TIDES job has none (CreateJob, CreateJobWithCoinbase).
LEMMA JobsCommit ==
  ASSUME NEW t, NEW reg, NEW en1, NEW en2
  PROVE  /\ Commits(CreateJob(t, PayTo, RawTag, t.aux), en1, en2)
         /\ Commits(CreateJobWithCoinbase(t, reg), en1, en2)
<1>1. CreateJobWithCoinbase(t, reg).aux = NoHash
  <2>1. Parts(CreateJobWithCoinbase(t, reg), reg.cb1, reg.cb2, NoHash) BY PartsKept DEF CreateJobWithCoinbase
  <2> QED BY <2>1 DEF Parts
<1> DEFINE jb == CreateJob(t, PayTo, RawTag, t.aux)
           tag == CoinbaseTag(RawTag)
           cm == Commitment(t.aux)
           outs == <<Output(PayTo, t.value)>>
<1>3. jb.cb1 = Coinbase1(t.height, tag, cm) /\ jb.cb2 = Coinbase2(tag, cm, outs) /\ jb.aux = t.aux
  <2>1. Parts(jb, Coinbase1(t.height, tag, cm), Coinbase2(tag, cm, outs), t.aux) BY PartsKept DEF CreateJob
  <2> HIDE DEF jb, tag, cm, outs
  <2> QED BY <2>1 DEF Parts
<1>4. CASE jb.aux # NoHash
  <2> HIDE DEF jb, tag, outs
  <2>1. jb.cb1 = Coinbase1(t.height, tag, Commitment(jb.aux)) /\ jb.cb2 = Coinbase2(tag, Commitment(jb.aux), outs)
    BY <1>3 DEF cm
  <2> QED BY <1>1, <1>4, <2>1, HalvesCommit DEF Commits, jb
<1> QED BY <1>1, <1>4 DEF Commits

\* Every job commits to the 1175 work it is for.
JobsCommitted ==
    \A j \in 1..Len(jobs) : \A c \in Conns, s \in Shares : Commits(jobs[j], c, s)

\* A proof of a job that commits to its work is one the node takes (AssembleAuxPowHex).
LEMMA ProofAccepted ==
  ASSUME JobsCommitted, NEW s \in Shares, NEW f, NEW j \in 1..Len(jobs), jobs[j].aux # NoHash
  PROVE  AuxNodeAccepts(Proof(s, f, j).proof, Proof(s, f, j).aux)
<1>1. Owner[s] \in Conns BY SharesAssumption
<1>2. Holds(Coinbase(jobs[j], Owner[s], s), <<"commitment", 44, jobs[j].aux>>)
  BY <1>1 DEF JobsCommitted, Commits
<1>3. Solution(s, f).nonce = s BY DEF Solution
<1> DEFINE cb == Coinbase(jobs[j], Owner[s], s)
<1>4. /\ Proof(s, f, j).aux = jobs[j].aux
      /\ Proof(s, f, j).proof.coinbase = cb /\ Proof(s, f, j).proof.branches = jobs[j].branches
      /\ Proof(s, f, j).proof.header.root = Climb(cb, jobs[j].branches)
  <2> HIDE DEF cb
  <2>1. Coinbase(jobs[j], Owner[s], Solution(s, f).nonce) = cb BY <1>3 DEF cb
  <2> QED BY <2>1 DEF Proof, AuxPow, Header
<1> HIDE DEF cb
<1>5. Holds(cb, <<"commitment", 44, jobs[j].aux>>) BY <1>2 DEF cb
<1> DEFINE p == Proof(s, f, j).proof
<1>6. /\ p.coinbase = cb /\ p.branches = jobs[j].branches /\ p.header.root = Climb(cb, jobs[j].branches)
      /\ Proof(s, f, j).aux = jobs[j].aux
  BY <1>4
<1> HIDE DEF p
<1>7. p.header.root = Climb(p.coinbase, p.branches) BY <1>6
<1>8. Holds(p.coinbase, <<"commitment", 44, Proof(s, f, j).aux>>) BY <1>5, <1>6
<1>9. AuxNodeAccepts(p, Proof(s, f, j).aux) BY <1>7, <1>8 DEF AuxNodeAccepts, Holds
<1> QED BY <1>9 DEF p

\* Each 1175 solution sent is proved by the job it was sent under.
LEMMA ProofsStep ==
  ASSUME Known, JobsCommitted, ProofsHold, [Next]_vars
  PROVE  (JobsCommitted /\ ProofsHold)'
<1>1. Longer /\ (UNCHANGED jobs \/ MakeJob) BY JobsStep
<1>2. JobsCommitted'
  <2>1. CASE UNCHANGED jobs BY <2>1 DEF JobsCommitted, Commits, Coinbase
  <2>2. CASE MakeJob
    <3>1. PICK jb : jobs' = Append(jobs, jb) /\ \A c \in Conns, s \in Shares : Commits(jb, c, s)
      BY <2>2, JobsCommit DEF MakeJob
    <3>2. /\ Len(jobs) \in Nat /\ Len(jobs') = Len(jobs) + 1 /\ jobs'[Len(jobs) + 1] = jb
          /\ \A i \in 1..Len(jobs) : jobs'[i] = jobs[i]
      BY <3>1, Appended DEF Known, JobsMatch
    <3> SUFFICES ASSUME NEW j \in 1..Len(jobs'), NEW c \in Conns, NEW s \in Shares
                 PROVE  Commits(jobs'[j], c, s)
      BY DEF JobsCommitted, Commits, Coinbase
    <3>3. CASE j = Len(jobs) + 1 BY <3>1, <3>2, <3>3
    <3>4. CASE j \in 1..Len(jobs) BY <3>2, <3>4 DEF JobsCommitted
    <3> QED BY <3>2, <3>3, <3>4
  <2> QED BY <1>1, <2>1, <2>2
<1>3. ASSUME NEW s \in Shares, NEW f, NEW j \in 1..Len(jobs), AuxFrom(s, f, j) PROVE ProofsHold'
  <2>1. CASE UNCHANGED proofs BY <2>1 DEF ProofsHold, AuxNodeAccepts
  <2>2. CASE ~UNCHANGED proofs
    <3>1. jobs[j].aux # NoHash /\ proofs' = proofs \cup {Proof(s, f, j)} BY <1>3, <2>2 DEF AuxFrom
    <3>2. AuxNodeAccepts(Proof(s, f, j).proof, Proof(s, f, j).aux) BY <3>1, ProofAccepted
    <3> QED BY <3>1, <3>2 DEF ProofsHold
  <2> QED BY <2>1, <2>2
<1>4. ASSUME UNCHANGED proofs PROVE ProofsHold' BY <1>4 DEF ProofsHold, AuxNodeAccepts
<1>5. ASSUME NEW c \in Conns, NEW s \in Shares, NEW j \in 1..Len(jobs), Submit(c, s, j) PROVE ProofsHold'
  <2>1. PICK f : Judge(c, s, f, j) BY <1>5 DEF Submit
  <2>2. UNCHANGED proofs \/ AuxFrom(s, f, j) BY <2>1 DEF Judge, Refuse
  <2> QED BY <1>3, <1>4, <2>2
<1>6. ASSUME NEW c \in Conns, Accept(c) PROVE ProofsHold'
  <2>1. PICK e \in at[c] : Accepting(e, c) BY <1>6, AcceptMoves
  <2>2. e[1] \in Shares /\ e[3] \in 1..Len(jobs) BY DEF Known, Handed, Entries, Served
  <2>3. UNCHANGED proofs \/ AuxFrom(e[1], e[2], e[3]) BY <2>1 DEF Accepting
  <2> QED BY <1>3, <1>4, <2>2, <2>3
<1>7. ASSUME \/ Broadcast \/ Cleanup \/ ProcessShare \/ SubmitBlock \/ UNCHANGED vars
             \/ \E p \in Pruners : PruneVisit(p)
             \/ \E c \in Conns : Login(c)
      PROVE  ProofsHold'
  BY <1>4, <1>7 DEF Broadcast, MakeJob, StoreCurrent, StoreHistory, ClearShares, SendAll, Cleanup, ProcessShare,
                    SubmitBlock, PruneVisit, Login, vars, hist
<1> QED BY <1>2, <1>5, <1>6, <1>7 DEF Next

----------------------------------------------------------------------------
(* The theorems.                                                            *)

\* The start has no job, no share and nothing sent.
LEMMA InitInductive ==
  ASSUME Init
  PROVE  Inductive /\ AuxSent
<1>1. JobsMatch BY TemplatesAssumption DEF Init, JobsMatch
<1>2. Served BY DEF Init, Served, NoJob
<1>3. Handed BY DEF Init, Handed, NoJob
<1>4. DueWaits /\ AcceptedGoesOn /\ SentAsFound BY DEF Init, DueWaits, AcceptedGoesOn, SentAsFound
<1>5. PruneKnows /\ OneTip BY DEF Init, PruneKnows, OneTip, OneBlock, Idle
<1>6. OneRecord BY DEF Init, OneRecord, OneBlock
<1>7. AuxSent BY SharesAssumption DEF Init, AuxSent
<1> QED BY <1>1, <1>2, <1>3, <1>4, <1>5, <1>6, <1>7 DEF Inductive, Known

\* Every step of the server and the program keeps it.
LEMMA NextInductive ==
  ASSUME Inductive, [Next]_vars
  PROVE  Inductive'
BY KnownStep, DueStep, AcceptedStep, TipStep, RecordStep, SentStep DEF Inductive

\* What is due to the node has it, is with a reader, or is being processed or submitted.
LEMMA InductiveSolved ==
  ASSUME Inductive
  PROVE  SolvedGoesToNode
<1> SUFFICES ASSUME NEW d \in dueBlocks, \A l \in judged : l[1] = d[1] => Kept(l[2])
             PROVE  \/ \E c \in Conns : \E e \in at[c] : e[1] = d[1]
                    \/ \E e \in queue \cup subs : e[1] = d[1]
                    \/ \E b \in blocks : b.share = d[1]
  BY DEF SolvedGoesToNode
<1>1. /\ d[1] \in Shares /\ Quality[d[1]] >= jobs[foundOn[d[1]]].bits
      /\ accepted[d[1]] > 0 \/ \E c \in Conns : \E e \in at[c] : e[1] = d[1]
  BY DEF Inductive, DueWaits
<1> QED BY <1>1 DEF Inductive, AcceptedGoesOn

\* A block a miner found and submitted in time reaches the node, or is on its way, unless its job is
\* gone (SolvedGoesToNode: handleSubmit, ProcessShare and submitBlock).
THEOREM SolvedReachesNode == Spec => []SolvedGoesToNode
<1>1. Init => Inductive BY InitInductive
<1>2. Inductive /\ [Next]_vars => Inductive' BY NextInductive
<1>3. Inductive => SolvedGoesToNode BY InductiveSolved
<1> QED BY <1>1, <1>2, <1>3, PTL DEF Spec

\* Until the first block change a header is accepted once: no pruning forgets a share whose jobs are
\* still accepted (isDuplicateShare and pruneSubmittedShares).
THEOREM AcceptedOnce == Spec => []AcceptedOnceOnFirstBlock
<1>1. Init => Inductive BY InitInductive
<1>2. Inductive /\ [Next]_vars => Inductive' BY NextInductive
<1>3. Inductive => AcceptedOnceOnFirstBlock
  <2> SUFFICES ASSUME Inductive, OneBlock, NEW s \in Shares PROVE accepted[s] <= 1
    BY DEF AcceptedOnceOnFirstBlock, OneBlock
  <2>1. accepted[s] = 0 \/ accepted[s] = 1 BY DEF Inductive, OneRecord
  <2> QED BY <2>1
<1> QED BY <1>1, <1>2, <1>3, PTL DEF Spec

\* A block is submitted on the tip and at the bits of the job it is submitted under, also when its solution was
\* found on another job, and what was found is that header (blockbuild.Block, handleSubmit).
THEOREM SubmitsOnItsTip == Spec => [](OnItsTip /\ SubmittedAsSolved)
<1>1. Init => Inductive /\ OnItsTip BY InitInductive DEF Init, OnItsTip
<1>2. Inductive /\ OnItsTip /\ [Next]_vars => (Inductive /\ OnItsTip)'
  BY NextInductive, TipKept DEF Inductive
<1>3. Inductive => SubmittedAsSolved BY DEF Inductive, SentAsFound, SubmittedAsSolved
<1> QED BY <1>1, <1>2, <1>3, PTL DEF Spec

\* Every 1175 proof sent is one its node takes: the coinbase it carries is the one in its header and commits to
\* the work it is sent for (BuildCommitment, AssembleAuxPowHex).
THEOREM AuxProofsProve == Spec => []ProofsHold
<1>1. Init => Inductive /\ JobsCommitted /\ ProofsHold BY InitInductive DEF Init, JobsCommitted, ProofsHold
<1>2. Inductive /\ JobsCommitted /\ ProofsHold /\ [Next]_vars => (Inductive /\ JobsCommitted /\ ProofsHold)'
  BY NextInductive, ProofsStep DEF Inductive
<1> QED BY <1>1, <1>2, PTL DEF Spec

\* While a header is for one 1175 work alone, a 1175 block in a share that was looked at is sent,
\* whatever becomes of the share (submitRefusedShareAux and auxSolution).
THEOREM AuxBlocksSent == Spec /\ []HeadersCommit => []AuxSolutionsSent
<1>1. Init => Inductive /\ AuxSent BY InitInductive
<1>2. Inductive /\ AuxSent /\ HeadersCommit /\ [Next]_vars => (Inductive /\ AuxSent)'
  BY NextInductive, AuxStep DEF Inductive
<1>3. Inductive /\ AuxSent => AuxSolutionsSent
  <2> SUFFICES ASSUME Inductive, AuxSent, NEW s \in AuxSolving,
                      <<s, foundOn[s]>> \in judged, jobs[foundOn[s]].aux # NoHash
               PROVE  \E p \in proofs : p.proof.header = Found(s, foundOn[s])
    BY DEF AuxSolutionsSent
  <2>1. <<s, foundOn[s]>>[1] = s OBVIOUS
  <2>2. foundOn[s] # NoJob BY <2>1 DEF Inductive, Known, Handed
  <2> QED BY <2>2 DEF AuxSent
<1> QED BY <1>1, <1>2, <1>3, PTL DEF Spec

----------------------------------------------------------------------------
(* The job loop.                                                            *)

\* A turn builds on one block, the job it built and the answer it waits for on the same.
TurnCarries ==
    /\ pc # "idle" => turn.prev \in Blocks
    /\ pc = "wait" => pending \in Registrations /\ pending.prev = turn.prev /\ turn.new
    /\ pc = "send" => job \in AllJobs /\ job.prev = turn.prev

\* No turn runs and no registration is under way without an address.
Configured == pc # "idle" \/ pending # None => payAddr \in Addrs

\* lastPrevHash is the current job's block.
LastServed == cur # None => last = cur.prev

\* A turn that did not see a new block ends on the block miners are on.
SameBlock == pc \in {"build", "send"} /\ ~turn.new /\ cur # None => turn.prev = cur.prev

\* The gateway has moved to the block of a TIDES job when it is about to be sent.
TipTracked == pc = "send" /\ job.tides => gwTip = job.prev

\* The watcher only goes over to a mode the dashboard offers.
ModeOffered == wpc = "tides" => "tides" \in Modes

LoopInvariant == /\ TypeOK /\ ModeOffered /\ TurnCarries /\ Configured /\ LastServed /\ SameBlock
        /\ TipTracked /\ TidesTipAgrees /\ LiveJobsPayAlike

----------------------------------------------------------------------------
(* What the values are.                                                     *)

\* A registration under way names a block and, once answered, what to wait for.
LEMMA RegistrationFields ==
    ASSUME NEW r \in Registrations
    PROVE  /\ r.prev \in Blocks /\ r.new \in BOOLEAN
           /\ r.answer # None => r.answer.ok \in BOOLEAN /\ r.answer.wait \in Nat
BY DEF Registrations, Answers

\* An answer is written into the registration it is for.
LEMMA Answered ==
    ASSUME NEW r \in Registrations, NEW a \in Answers
    PROVE  /\ [r EXCEPT !.answer = a] \in Registrations
           /\ [r EXCEPT !.answer = a].prev = r.prev
BY DEF Registrations

\* The two kinds of job the loop builds are jobs, on the block they are built for.
LEMMA BuiltJobs ==
    ASSUME NEW b \in Blocks
    PROVE  /\ TidesJob(b) \in AllJobs /\ TidesJob(b).prev = b /\ TidesJob(b).tides
           /\ TypeOK /\ payAddr \in Addrs =>
                 SoloJob(b) \in AllJobs /\ SoloJob(b).prev = b /\ ~SoloJob(b).tides
<1>1. TidesJob(b) \in TidesJobs /\ TidesJob(b).prev = b /\ TidesJob(b).tides
  BY DEF TidesJob, TidesJobs
<1>2. ASSUME TypeOK, payAddr \in Addrs
      PROVE  SoloJob(b) \in SoloJobs /\ SoloJob(b).prev = b /\ ~SoloJob(b).tides
  BY <1>2 DEF SoloJob, SoloJobs, TypeOK, DashTypes
<1> QED
  BY <1>1, <1>2 DEF AllJobs

----------------------------------------------------------------------------
(* The steps of the others.                                                 *)

\* Nothing outside the loop disturbs what a turn carries, if it leaves the gateway's tip alone and
\* answers no other registration than the one under way.
LEMMA Outside ==
    ASSUME LoopInvariant, UNCHANGED <<gwTip, pc, turn, job, cur, last, live>>,
           \/ pending' = pending
           \/ /\ pending # None /\ pending' \in Registrations
              /\ pending'.prev = pending.prev,
           payAddr \in Addrs => payAddr' \in Addrs
    PROVE  /\ TurnCarries' /\ Configured' /\ LastServed' /\ SameBlock'
           /\ TipTracked' /\ TidesTipAgrees' /\ LiveJobsPayAlike'
<1>1. TurnCarries'
  BY DEF LoopInvariant, TurnCarries
<1>2. Configured'
  BY DEF LoopInvariant, Configured
<1>3. LastServed' /\ SameBlock' /\ TipTracked' /\ TidesTipAgrees' /\ LiveJobsPayAlike'
  BY DEF LoopInvariant, LastServed, SameBlock, TipTracked, TidesTipAgrees, LiveJobsPayAlike
<1> QED
  BY <1>1, <1>2, <1>3

\* The pool's answers.
LEMMA PoolStep ==
    ASSUME LoopInvariant, PoolTakes \/ PoolRefuses
    PROVE  LoopInvariant'
<1>1. pending # None /\ pending \in Registrations
  BY DEF PoolTakes, PoolRefuses, LoopInvariant, TypeOK, TurnTypes
<1>2. PICK a \in Answers : pending' = [pending EXCEPT !.answer = a]
  <2>1. CASE PoolTakes
    BY <2>1 DEF PoolTakes, GoodAnswer, Answers
  <2>2. CASE PoolRefuses
    <3>1. PICK w \in {0} \cup (IF pending.prev = poolTip THEN {} ELSE StaleWaits(pending.prev)) :
              pending' = [pending EXCEPT !.answer = [ok |-> FALSE, wait |-> w]]
      BY <2>2 DEF PoolRefuses
    <3>2. Height[pending.prev] \in Nat /\ Height[poolTip] \in Nat
      BY <1>1, RegistrationFields, HeightAssumption DEF LoopInvariant, TypeOK, NodeTypes
    <3>3. w \in Nat
      BY <3>1, <3>2 DEF StaleWaits
    <3> QED
      BY <3>1, <3>3 DEF Answers
  <2> QED
    BY <2>1, <2>2
<1>3. pending' \in Registrations /\ pending'.prev = pending.prev
  BY <1>1, <1>2, Answered
<1>4. UNCHANGED <<node, dash, gw, pc, turn, job, cur, last, old, asked, spaced, live>>
  BY DEF PoolTakes, PoolRefuses
<1>5. TypeOK'
  BY <1>3, <1>4 DEF LoopInvariant, TypeOK, DashTypes, NodeTypes, GwTypes, FlagTypes, JobTypes, TurnTypes,
                    node, dash, gw
<1>6. ModeOffered'
  BY <1>4 DEF LoopInvariant, ModeOffered, dash
<1> QED
  BY <1>6, <1>1, <1>3, <1>4, <1>5, Outside DEF LoopInvariant, dash, gw

\* The nodes, the watcher, a login, the aux cache and the clock.
LEMMA OthersStep ==
    ASSUME LoopInvariant,
           \/ \E b \in Blocks : NodeMoves(b) \/ PoolMoves(b)
           \/ Watcher \/ (\E t \in AuxTips \cup {None} : AuxWorkChanges(t)) \/ LoginAsks \/ Clock
           \/ UNCHANGED loopVars
    PROVE  LoopInvariant'
<1>1. UNCHANGED <<gwTip, pc, turn, job, cur, last, pending, live>>
  BY DEF NodeMoves, PoolMoves, Watcher, SetAddress, ToTides, StoreTides, ToSolo, SwitchAux, Reset,
         AuxWorkChanges, LoginAsks, Clock, PeriodComesDue, SpacingPasses, KeepForPasses, RetryComesDue,
         loopVars, node, dash, gw, loop
<1>2. NodeTypes'
  BY DEF LoopInvariant, TypeOK, NodeTypes,
         NodeMoves, PoolMoves, Watcher, SetAddress, ToTides, StoreTides, ToSolo, SwitchAux,
         AuxWorkChanges, LoginAsks, Clock, PeriodComesDue, SpacingPasses, KeepForPasses, RetryComesDue,
         loopVars, node
<1>3. DashTypes' /\ ModeOffered' /\ (payAddr \in Addrs => payAddr' \in Addrs)
  <2>1. CASE Watcher
    <3>1. CASE \E a \in Addrs : SetAddress(a)
      BY <3>1 DEF LoopInvariant, TypeOK, DashTypes, ModeOffered, SetAddress
    <3>2. CASE ToTides
      BY <3>2 DEF LoopInvariant, TypeOK, DashTypes, ModeOffered, ToTides
    <3>3. CASE StoreTides
      BY <3>3 DEF LoopInvariant, TypeOK, DashTypes, ModeOffered, StoreTides
    <3>4. CASE ToSolo
      BY <3>4, ModesAssumption DEF LoopInvariant, TypeOK, DashTypes, ModeOffered, ToSolo
    <3>5. CASE \E a \in AuxAddrs \cup {NoAddr} : SwitchAux(a)
      BY <3>5 DEF LoopInvariant, TypeOK, DashTypes, ModeOffered, SwitchAux
    <3> QED
      BY <2>1, <3>1, <3>2, <3>3, <3>4, <3>5 DEF Watcher
  <2>2. CASE \E t \in AuxTips \cup {None} : AuxWorkChanges(t)
    BY <2>2 DEF LoopInvariant, TypeOK, DashTypes, ModeOffered, AuxWorkChanges
  <2>3. CASE (\E b \in Blocks : NodeMoves(b) \/ PoolMoves(b)) \/ LoginAsks \/ Clock \/ UNCHANGED loopVars
    BY <2>3 DEF LoopInvariant, TypeOK, DashTypes, ModeOffered, NodeMoves, PoolMoves, LoginAsks, Clock, PeriodComesDue,
                SpacingPasses, KeepForPasses, RetryComesDue, loopVars, dash
  <2> QED
    BY <2>1, <2>2, <2>3
<1>4. GwTypes' /\ FlagTypes'
  BY DEF LoopInvariant, TypeOK, GwTypes, FlagTypes,
         NodeMoves, PoolMoves, Watcher, SetAddress, ToTides, StoreTides, ToSolo, SwitchAux, Reset,
         AuxWorkChanges, LoginAsks, Clock, PeriodComesDue, SpacingPasses, KeepForPasses, RetryComesDue,
         loopVars, gw, loop
<1>5. JobTypes' /\ TurnTypes'
  BY <1>1 DEF LoopInvariant, TypeOK, JobTypes, TurnTypes
<1> QED
  BY <1>1, <1>2, <1>3, <1>4, <1>5, Outside DEF LoopInvariant, TypeOK

----------------------------------------------------------------------------
(* The steps of the loop.                                                   *)

\* What a step of the loop that leaves the dashboard and the nodes alone keeps of them.
LEMMA LoopLeavesDash ==
    ASSUME LoopInvariant, UNCHANGED <<node, dash>>
    PROVE  DashTypes' /\ NodeTypes' /\ ModeOffered' /\ (payAddr \in Addrs => payAddr' \in Addrs)
BY DEF LoopInvariant, TypeOK, DashTypes, NodeTypes, ModeOffered, node, dash

\* A turn that ends, or is left to the registration under way, sends nothing.
LEMMA EndTurnStep ==
    ASSUME LoopInvariant, CatchUp \/ LeaveToPending \/ NothingDue
    PROVE  LoopInvariant'
<1>1. PICK p \in {pending, None} : EndTurn(p)
  BY DEF CatchUp, LeaveToPending, NothingDue, dropped
<1>2. /\ pc' = "idle" /\ turn' = NoTurn /\ pending' \in {pending, None}
      /\ UNCHANGED <<node, dash, gw, job, cur, last, old, spaced, live>>
      /\ asked' \in {asked, FALSE} /\ pc = "decide"
  BY <1>1 DEF EndTurn, CatchUp, LeaveToPending, NothingDue
<1>3. GwTypes' /\ FlagTypes' /\ JobTypes' /\ TurnTypes'
  <2>1. GwTypes' /\ JobTypes'
    BY <1>2 DEF LoopInvariant, TypeOK, GwTypes, JobTypes, gw
  <2>2. FlagTypes'
    BY <1>2 DEF LoopInvariant, TypeOK, FlagTypes, gw
  <2>3. TurnTypes'
    BY <1>2 DEF LoopInvariant, TypeOK, TurnTypes, NoTurn
  <2> QED
    BY <2>1, <2>2, <2>3
<1>4. TurnCarries' /\ Configured' /\ LastServed' /\ SameBlock' /\ TipTracked'
  BY <1>2, LoopLeavesDash DEF LoopInvariant, TurnCarries, Configured, LastServed, SameBlock, TipTracked
<1>5. TidesTipAgrees' /\ LiveJobsPayAlike'
  BY <1>2 DEF LoopInvariant, TidesTipAgrees, LiveJobsPayAlike, gw
<1> QED
  BY <1>2, <1>3, <1>4, <1>5, LoopLeavesDash DEF LoopInvariant, TypeOK

\* A turn begins with the node's tip and an address.
LEMMA FetchStep ==
    ASSUME LoopInvariant, Fetch
    PROVE  LoopInvariant'
<1>1. /\ pc' = "decide" /\ turn' = [prev |-> tip, new |-> FALSE] /\ tip \in Blocks
      /\ UNCHANGED <<node, dash, gw, job, cur, last, pending, old, asked, spaced, live>>
      /\ payAddr \in Addrs /\ pc = "idle"
  BY DEF Fetch, GetBlockTemplate, NoTurn, LoopInvariant, TypeOK, NodeTypes, DashTypes
<1>2. GwTypes' /\ FlagTypes' /\ JobTypes' /\ TurnTypes'
  BY <1>1 DEF LoopInvariant, TypeOK, GwTypes, FlagTypes, JobTypes, TurnTypes, gw
<1>3. TurnCarries' /\ Configured' /\ LastServed' /\ SameBlock' /\ TipTracked'
  BY <1>1, LoopLeavesDash DEF LoopInvariant, TurnCarries, Configured, LastServed, SameBlock, TipTracked
<1>4. TidesTipAgrees' /\ LiveJobsPayAlike'
  BY <1>1 DEF LoopInvariant, TidesTipAgrees, LiveJobsPayAlike, gw
<1> QED
  BY <1>1, <1>2, <1>3, <1>4, LoopLeavesDash DEF LoopInvariant, TypeOK

\* A solo turn goes on knowing whether its block is the one miners are on.
LEMMA DecideSoloStep ==
    ASSUME LoopInvariant, DecideSolo
    PROVE  LoopInvariant'
<1>1. /\ pc' = "build" /\ turn' = [turn EXCEPT !.new = isNewBlock]
      /\ pending' = None /\ asked' = FALSE /\ pc = "decide"
      /\ UNCHANGED <<node, dash, gw, job, cur, last, old, spaced, live>>
  BY DEF DecideSolo
<1>2. turn'.prev = turn.prev /\ turn'.new = isNewBlock /\ turn' \in [prev : Blocks \cup {None}, new : BOOLEAN]
  BY <1>1 DEF LoopInvariant, TypeOK, TurnTypes, isNewBlock
<1>3. GwTypes' /\ FlagTypes' /\ JobTypes' /\ TurnTypes'
  BY <1>1, <1>2 DEF LoopInvariant, TypeOK, GwTypes, FlagTypes, JobTypes, TurnTypes, gw
<1>4. TurnCarries' /\ Configured' /\ LastServed' /\ TipTracked'
  BY <1>1, <1>2, LoopLeavesDash DEF LoopInvariant, TurnCarries, Configured, LastServed, TipTracked
<1>5. SameBlock'
  BY <1>1, <1>2 DEF LoopInvariant, LastServed, SameBlock, isNewBlock
<1>6. TidesTipAgrees' /\ LiveJobsPayAlike'
  BY <1>1 DEF LoopInvariant, TidesTipAgrees, LiveJobsPayAlike, gw
<1> QED
  BY <1>1, <1>3, <1>4, <1>5, <1>6, LoopLeavesDash DEF LoopInvariant, TypeOK

\* A registration is asked for the turn's block.
LEMMA DecideTidesStep ==
    ASSUME LoopInvariant, DecideTides
    PROVE  LoopInvariant'
<1>1. /\ pending' = [prev |-> turn.prev, new |-> isNewBlock, answer |-> None]
      /\ retryDue' = FALSE /\ asked' = FALSE /\ pc = "decide"
      /\ UNCHANGED <<node, dash, gwState, waitHeight, gwTip, young, job, cur, last, old, spaced, live>>
  BY DEF DecideTides
<1>2. \/ pc' = "wait" /\ turn' = [turn EXCEPT !.new = TRUE]
      \/ pc' = "idle" /\ turn' = NoTurn
  BY DEF DecideTides
<1>3. isNewBlock \in BOOLEAN /\ turn.prev \in Blocks /\ payAddr \in Addrs
  BY <1>1 DEF isNewBlock, LoopInvariant, TurnCarries, Configured
<1>4. pending' \in Registrations /\ pending'.prev = turn.prev
  BY <1>1, <1>3 DEF Registrations
<1>5. /\ turn' \in [prev : Blocks \cup {None}, new : BOOLEAN]
      /\ pc' = "wait" => turn'.prev = turn.prev /\ turn'.new
  <2>1. CASE pc' = "wait" /\ turn' = [turn EXCEPT !.new = TRUE]
    BY <2>1 DEF LoopInvariant, TypeOK, TurnTypes
  <2>2. CASE pc' = "idle" /\ turn' = NoTurn
    BY <2>2 DEF NoTurn
  <2> QED
    BY <1>2, <2>1, <2>2
<1>6. GwTypes' /\ FlagTypes' /\ JobTypes'
  BY <1>1 DEF LoopInvariant, TypeOK, GwTypes, FlagTypes, JobTypes
<1>7. TurnTypes'
  BY <1>2, <1>4, <1>5 DEF TurnTypes
<1>8. TurnCarries' /\ Configured' /\ LastServed' /\ SameBlock' /\ TipTracked'
  BY <1>1, <1>2, <1>3, <1>4, <1>5, LoopLeavesDash
     DEF LoopInvariant, TurnCarries, Configured, LastServed, SameBlock, TipTracked
<1>9. TidesTipAgrees' /\ LiveJobsPayAlike'
  BY <1>1 DEF LoopInvariant, TidesTipAgrees, LiveJobsPayAlike
<1> QED
  BY <1>1, <1>6, <1>7, <1>8, <1>9, LoopLeavesDash DEF LoopInvariant, TypeOK

\* Waiting, or building, ends with the turn's block still the one to build on.
LEMMA WaitTimeoutStep ==
    ASSUME LoopInvariant, WaitTimeout
    PROVE  LoopInvariant'
<1>1. /\ pc' = "build" /\ pc = "wait"
      /\ UNCHANGED <<node, dash, gw, turn, job, cur, last, pending, old, asked, spaced, live>>
  BY DEF WaitTimeout
<1>2. GwTypes' /\ FlagTypes' /\ JobTypes' /\ TurnTypes'
  BY <1>1 DEF LoopInvariant, TypeOK, GwTypes, FlagTypes, JobTypes, TurnTypes, gw
<1>3. TurnCarries' /\ Configured' /\ LastServed' /\ SameBlock' /\ TipTracked'
  BY <1>1, LoopLeavesDash DEF LoopInvariant, TurnCarries, Configured, LastServed, SameBlock, TipTracked
<1>4. TidesTipAgrees' /\ LiveJobsPayAlike'
  BY <1>1 DEF LoopInvariant, TidesTipAgrees, LiveJobsPayAlike, gw
<1> QED
  BY <1>1, <1>2, <1>3, <1>4, LoopLeavesDash DEF LoopInvariant, TypeOK

\* A solo job is built on the turn's block and pays an address.
LEMMA BuildStep ==
    ASSUME LoopInvariant, Build
    PROVE  LoopInvariant'
<1>1. /\ pc' = "send" /\ pc = "build" /\ job' = SoloJob(turn.prev)
      /\ UNCHANGED <<node, dash, gw, turn, cur, last, pending, old, asked, spaced, live>>
  BY DEF Build
<1>2. job' \in AllJobs /\ job'.prev = turn.prev /\ ~job'.tides /\ payAddr \in Addrs
  BY <1>1, BuiltJobs DEF LoopInvariant, TurnCarries, Configured
<1>3. GwTypes' /\ FlagTypes' /\ JobTypes' /\ TurnTypes'
  BY <1>1, <1>2 DEF LoopInvariant, TypeOK, GwTypes, FlagTypes, JobTypes, TurnTypes, gw
<1>4. TurnCarries' /\ Configured' /\ LastServed' /\ SameBlock' /\ TipTracked'
  BY <1>1, <1>2, LoopLeavesDash DEF LoopInvariant, TurnCarries, Configured, LastServed, SameBlock, TipTracked
<1>5. TidesTipAgrees' /\ LiveJobsPayAlike'
  BY <1>1 DEF LoopInvariant, TidesTipAgrees, LiveJobsPayAlike, gw
<1> QED
  BY <1>1, <1>3, <1>4, <1>5, LoopLeavesDash DEF LoopInvariant, TypeOK

\* The pool's answer makes a job on its own block and the gateway moves with it, or moves nothing.
LEMMA TidesAnswerMoves ==
    ASSUME LoopInvariant, NEW r \in Registrations, r.answer # None, tidesAnswer(r), UNCHANGED <<asked, spaced>>
    PROVE  /\ GwTypes' /\ FlagTypes' /\ job' \in AllJobs \cup {None}
           /\ \/ pc' = "send" /\ job' = TidesJob(r.prev) /\ gwTip' = r.prev
              \/ pc' \in {"idle", "build"} /\ job' = job /\ gwTip' = gwTip
<1>1. r.prev \in Blocks /\ r.answer.wait \in Nat
  BY RegistrationFields
<1>2. CASE r.answer.ok /\ Track(r.prev) /\ job' = TidesJob(r.prev) /\ pc' = "send" /\ UNCHANGED old
  <2>1. job' \in AllJobs
    BY <1>1, <1>2, BuiltJobs
  <2> QED
    BY <1>1, <1>2, <2>1 DEF Track, LoopInvariant, TypeOK, GwTypes, FlagTypes
<1>3. CASE pc' = "idle" /\ old' = FALSE /\ UNCHANGED <<gw, job>>
  BY <1>3 DEF gw, LoopInvariant, TypeOK, GwTypes, FlagTypes, JobTypes
<1>4. CASE Fallback(r.answer) /\ pc' = "build" /\ UNCHANGED <<job, old>>
  BY <1>1, <1>4 DEF Fallback, LoopInvariant, TypeOK, GwTypes, FlagTypes, JobTypes
<1> QED
  BY <1>2, <1>3, <1>4 DEF tidesAnswer

\* An answer within newBlockWait is for the turn's block.
LEMMA WaitAnswerStep ==
    ASSUME LoopInvariant, WaitAnswer
    PROVE  LoopInvariant'
<1>1. /\ pc = "wait" /\ pending.answer # None /\ tidesAnswer(pending) /\ pending' = None
      /\ UNCHANGED <<node, dash, turn, cur, last, asked, spaced, live>>
  BY DEF WaitAnswer
<1>2. pending \in Registrations /\ pending.prev = turn.prev /\ turn.new /\ turn.prev \in Blocks
      /\ payAddr \in Addrs
  BY <1>1 DEF LoopInvariant, TurnCarries, Configured
<1>3. /\ GwTypes' /\ FlagTypes' /\ job' \in AllJobs \cup {None}
      /\ \/ pc' = "send" /\ job' = TidesJob(turn.prev) /\ gwTip' = turn.prev
         \/ pc' \in {"idle", "build"} /\ job' = job /\ gwTip' = gwTip
  BY <1>1, <1>2, TidesAnswerMoves
<1>4. JobTypes' /\ TurnTypes'
  BY <1>1, <1>3 DEF LoopInvariant, TypeOK, JobTypes, TurnTypes
<1>5. TidesJob(turn.prev) \in AllJobs /\ TidesJob(turn.prev).prev = turn.prev
  BY <1>2, BuiltJobs
<1>6. TurnCarries' /\ Configured' /\ LastServed' /\ SameBlock' /\ TipTracked'
  BY <1>1, <1>2, <1>3, <1>5, LoopLeavesDash
     DEF LoopInvariant, TurnCarries, Configured, LastServed, SameBlock, TipTracked
<1>7. TidesTipAgrees' /\ LiveJobsPayAlike'
  BY <1>1, <1>3 DEF LoopInvariant, TidesTipAgrees, LiveJobsPayAlike
<1> QED
  BY <1>1, <1>3, <1>4, <1>6, <1>7, LoopLeavesDash DEF LoopInvariant, TypeOK

\* A late answer makes a job only for the block miners are on.
LEMMA FinishStep ==
    ASSUME LoopInvariant, Finish
    PROVE  LoopInvariant'
<1>1. /\ pc = "idle" /\ pending # None /\ pending.answer # None /\ pending' = None
      /\ UNCHANGED <<node, dash, cur, last, asked, spaced, live>>
  BY DEF Finish
<1>2. pending \in Registrations /\ pending.prev \in Blocks /\ payAddr \in Addrs
      /\ pending.answer.wait \in Nat
  BY <1>1, RegistrationFields DEF LoopInvariant, TypeOK, TurnTypes, Configured
<1>3. CASE UNCHANGED <<gw, pc, turn, job, old>> \/ (Fallback(pending.answer) /\ UNCHANGED <<pc, turn, job, old>>)
  <2>1. UNCHANGED <<gwTip, pc, turn, job, old>>
    BY <1>3 DEF gw, Fallback
  <2>2. GwTypes' /\ FlagTypes' /\ JobTypes' /\ TurnTypes'
    BY <1>1, <1>2, <1>3 DEF LoopInvariant, TypeOK, GwTypes, FlagTypes, JobTypes, TurnTypes, gw, Fallback
  <2>3. TurnCarries' /\ Configured' /\ LastServed' /\ SameBlock' /\ TipTracked'
    BY <1>1, <2>1, LoopLeavesDash DEF LoopInvariant, TurnCarries, Configured, LastServed, SameBlock, TipTracked
  <2>4. TidesTipAgrees' /\ LiveJobsPayAlike'
    BY <1>1, <2>1 DEF LoopInvariant, TidesTipAgrees, LiveJobsPayAlike
  <2> QED
    BY <1>1, <2>2, <2>3, <2>4, LoopLeavesDash DEF LoopInvariant, TypeOK
<1>4. CASE /\ pending.prev = last /\ tidesAnswer(pending)
           /\ turn' = IF pc' = "idle" THEN NoTurn ELSE [prev |-> pending.prev, new |-> FALSE]
  <2>1. /\ GwTypes' /\ FlagTypes' /\ job' \in AllJobs \cup {None}
        /\ \/ pc' = "send" /\ job' = TidesJob(pending.prev) /\ gwTip' = pending.prev
           \/ pc' \in {"idle", "build"} /\ job' = job /\ gwTip' = gwTip
    BY <1>1, <1>2, <1>4, TidesAnswerMoves
  <2>2. /\ turn' \in [prev : Blocks \cup {None}, new : BOOLEAN]
        /\ pc' # "idle" => turn'.prev = pending.prev /\ turn'.prev = last
    BY <1>2, <1>4 DEF NoTurn
  <2>3. JobTypes' /\ TurnTypes'
    BY <1>1, <2>1, <2>2 DEF LoopInvariant, TypeOK, JobTypes, TurnTypes
  <2>4. TidesJob(pending.prev) \in AllJobs /\ TidesJob(pending.prev).prev = pending.prev
    BY <1>2, BuiltJobs
  <2>5. TurnCarries' /\ Configured' /\ LastServed' /\ SameBlock' /\ TipTracked'
    BY <1>1, <1>2, <2>1, <2>2, <2>4, LoopLeavesDash
       DEF LoopInvariant, TurnCarries, Configured, LastServed, SameBlock, TipTracked
  <2>6. TidesTipAgrees' /\ LiveJobsPayAlike'
    BY <1>1, <2>1 DEF LoopInvariant, TidesTipAgrees, LiveJobsPayAlike
  <2> QED
    BY <1>1, <2>1, <2>3, <2>5, <2>6, LoopLeavesDash DEF LoopInvariant, TypeOK
<1> QED
  BY <1>3, <1>4 DEF Finish

\* A job that lets miners keep their work builds on their block and pays as their jobs do.
LEMMA SendStep ==
    ASSUME LoopInvariant, Send
    PROVE  LoopInvariant'
<1>1. /\ pc = "send" /\ pc' = "idle" /\ turn' = NoTurn /\ job' = None
      /\ cur' = job /\ last' = turn.prev /\ old' = FALSE /\ spaced' = (spaced /\ ~turn.new)
      /\ live' = IF mustDropWork(turn.new) THEN {job} ELSE live \cup {job}
      /\ UNCHANGED <<node, dash, gw, pending, asked>>
  BY DEF Send
<1>2. job \in AllJobs /\ job.prev = turn.prev /\ turn.prev \in Blocks
  BY <1>1 DEF LoopInvariant, TurnCarries
<1>3. GwTypes' /\ JobTypes' /\ TurnTypes'
  BY <1>1, <1>2 DEF LoopInvariant, TypeOK, GwTypes, JobTypes, TurnTypes, gw, NoTurn
<1>4. FlagTypes'
  BY <1>1 DEF LoopInvariant, TypeOK, FlagTypes, TurnTypes, gw
<1>5. TurnCarries' /\ Configured' /\ LastServed' /\ SameBlock' /\ TipTracked'
  BY <1>1, <1>2, LoopLeavesDash DEF LoopInvariant, TurnCarries, Configured, LastServed, SameBlock, TipTracked
<1>6. TidesTipAgrees'
  BY <1>1 DEF LoopInvariant, TipTracked, TidesTipAgrees, gw
<1>7. LiveJobsPayAlike'
  <2>1. CASE mustDropWork(turn.new)
    BY <1>1, <2>1 DEF LiveJobsPayAlike
  <2>2. CASE ~mustDropWork(turn.new)
    <3>1. ~turn.new /\ cur # None /\ job.tides = cur.tides /\ job.payTo = cur.payTo
      BY <2>2 DEF mustDropWork
    <3>2. job.prev = cur.prev
      BY <1>1, <1>2, <3>1 DEF LoopInvariant, SameBlock
    <3> QED
      BY <1>1, <2>2, <3>1, <3>2 DEF LoopInvariant, LiveJobsPayAlike
  <2> QED
    BY <2>1, <2>2
<1> QED
  BY <1>1, <1>3, <1>4, <1>5, <1>6, <1>7, LoopLeavesDash DEF LoopInvariant, TypeOK

----------------------------------------------------------------------------
(* The theorems.                                                            *)

\* The invariant holds when the stratum starts: no job, no turn, no registration.
LEMMA InitLoop == LoopInit => LoopInvariant
<1> SUFFICES ASSUME LoopInit PROVE LoopInvariant
  OBVIOUS
<1>1. DashTypes /\ NodeTypes /\ GwTypes
  BY DEF LoopInit, DashTypes, NodeTypes, GwTypes
<1>2. FlagTypes /\ JobTypes
  BY DEF LoopInit, FlagTypes, JobTypes
<1>3. TurnTypes
  BY DEF LoopInit, TurnTypes, NoTurn
<1>4. ModeOffered /\ TurnCarries /\ Configured /\ LastServed /\ SameBlock
      /\ TipTracked /\ TidesTipAgrees /\ LiveJobsPayAlike
  BY DEF LoopInit, ModeOffered, TurnCarries, Configured, LastServed, SameBlock, TipTracked,
         TidesTipAgrees, LiveJobsPayAlike
<1> QED
  BY <1>1, <1>2, <1>3, <1>4 DEF LoopInvariant, TypeOK

\* Every step keeps the invariant, one lemma for each operation of the loop.
LEMMA NextLoop == LoopInvariant /\ [LoopNext]_loopVars => LoopInvariant'
<1> SUFFICES ASSUME LoopInvariant, [LoopNext]_loopVars PROVE LoopInvariant'
  OBVIOUS
<1>1. CASE Loop
  BY <1>1, FetchStep, EndTurnStep, DecideSoloStep, DecideTidesStep, WaitAnswerStep, WaitTimeoutStep,
     BuildStep, SendStep, FinishStep DEF Loop
<1>2. CASE PoolTakes \/ PoolRefuses
  BY <1>2, PoolStep
<1>3. CASE \/ \E b \in Blocks : NodeMoves(b) \/ PoolMoves(b)
           \/ Watcher \/ (\E t \in AuxTips \cup {None} : AuxWorkChanges(t)) \/ LoginAsks \/ Clock
           \/ UNCHANGED loopVars
  BY <1>3, OthersStep
<1> QED
  BY <1>1, <1>2, <1>3 DEF LoopNext

\* The invariant holds in every reachable state.
LEMMA LoopInductive == LoopSpec => []LoopInvariant
  BY InitLoop, NextLoop, PTL DEF LoopSpec

\* Every variable keeps its type: no job is built that pays no address, while the dashboard switches
\* addresses and modes under the turns of the loop (job_loop.go:182-188).
THEOREM LoopTypeCorrect == LoopSpec => []TypeOK
<1>1. LoopInvariant => TypeOK
  BY DEF LoopInvariant
<1> QED
  BY <1>1, LoopInductive, PTL

\* While miners are on a TIDES job the gateway's tip is their block, whatever the pool answers and
\* whenever its answer comes (job_loop.go:497-500).
THEOREM GatewayFollowsMiners == LoopSpec => []TidesTipAgrees
<1>1. LoopInvariant => TidesTipAgrees
  BY DEF LoopInvariant
<1> QED
  BY <1>1, LoopInductive, PTL

\* Every job a miner may still be on builds on the current job's block, for its payout mode, and pays
\* its BCH2 address (mustDropWork, job_refresh.go:43-46).
THEOREM LiveWorkPaysAlike == LoopSpec => []LiveJobsPayAlike
<1>1. LoopInvariant => LiveJobsPayAlike
  BY DEF LoopInvariant
<1> QED
  BY <1>1, LoopInductive, PTL

=============================================================================
