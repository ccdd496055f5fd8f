-------------------------- MODULE DifficultyProofs --------------------------
(***************************************************************************)
(* For any difficulties, any length of the record and any number of jobs:  *)
(* no share is judged by more than the miner was told for its job.         *)
(*                                                                         *)
(* What makes it true is sendMu: whoever holds it is the only one between  *)
(* writing down what is sent and queueing it.  Sending says so, and that   *)
(* LastDifficultySent is what the miner was told whenever nobody is in     *)
(* between; ToldAsRecorded is then kept by every job that is queued.       *)
(***************************************************************************)
EXTENDS Difficulty, TLAPS

Queueing == {"diffOut", "staleOut", "jobOut"}

\* Only the holder of sendMu is between the bookkeeping and the queue.
Sending ==
    /\ \A t \in Threads : pc[t] \in Queueing => sendMu = t
    /\ sendMu # "free" => pc[sendMu] \in Queueing
    /\ \A t \in Threads : pc[t] \in {"diffOut", "staleOut"} => arg[t] = lastSent
    /\ (sendMu = "free" \/ pc[sendMu] = "jobOut") => wire = lastSent

\* Where each goroutine can be, and the value it carries there.
Places ==
    /\ pc["broadcast"] \in {"idle", "lower", "diff", "diffOut", "job", "jobOut"}
    /\ pc["idle"] \in {"idle", "diff", "diffOut"}
    /\ pc["reader"] # "lower"
    /\ \A t \in Threads : pc[t] = "stale" => arg[t] \in Diffs

\* A job being queued is on the record, at most at the difficulty the miner was told.
Recording ==
    \A t \in Threads : pc[t] = "jobOut" => Recorded(JobOf(t)) /\ jobDiff[JobOf(t)] <= lastSent

\* Only a recorded job was told of, but for one that has just made room for a job being queued.
ToldIsRecorded ==
    (\A t \in Threads : pc[t] # "jobOut") => \A j \in Jobs : ~Recorded(j) => told[j] = Unknown

\* No recorded job is recorded at more than the miner was told for it.
ToldAsRecorded ==
    \A j \in Jobs : Recorded(j) /\ told[j] # Unknown => jobDiff[j] <= told[j]

IInv == TypeOK /\ Sending /\ Places /\ Recording /\ ToldIsRecorded /\ ToldAsRecorded

----------------------------------------------------------------------------
(* What the helpers keep.                                                   *)

\* A difficulty brought down to a network difficulty is still one that can be assigned.
LEMMA BelowNetworkIsDiff ==
    ASSUME NEW d \in Diffs, NEW n \in Nat, n <= MaxDiff
    PROVE  belowNetwork(d, n) \in Diffs
BY RanksAssumption DEF belowNetwork, Diffs

\* The difficulties a login, a suggestion or a retarget starts from can be assigned.
LEMMA FloorUp == Floor..MaxDiff \subseteq Diffs /\ Floor \in Diffs /\ Nets \subseteq Diffs
BY RanksAssumption DEF Diffs

\* Every goroutine that does not hold sendMu is away from the queue.
LEMMA NobodyQueueing ==
    ASSUME IInv, sendMu = "free"
    PROVE  /\ \A u \in Threads : pc[u] \notin Queueing
           /\ wire = lastSent
           /\ \A j \in Jobs : ~Recorded(j) => told[j] = Unknown
BY DEF IInv, Sending, ToldIsRecorded, Queueing, TypeOK, PlaceTypes, Threads

\* A goroutine that stays away from the queue, and leaves what is sent and recorded alone, disturbs
\* nothing that depends on them.
LEMMA Aside ==
    ASSUME IInv, NEW t \in Threads, NEW where,
           pc[t] \notin Queueing, where \notin Queueing, Goto(t, where),
           \A u \in Threads \ {t} : arg'[u] = arg[u],
           \A u \in Threads : pc[u] = "jobOut" => JobOf(u)' = JobOf(u),
           UNCHANGED <<lastSent, jobDiff, order, sendMu, wire, told>>
    PROVE  Sending' /\ Recording' /\ ToldIsRecorded' /\ ToldAsRecorded'
<1>1. \A u \in Threads : u # t => pc'[u] = pc[u]
  BY DEF Goto, IInv, TypeOK, PlaceTypes
<1>2. pc'[t] = where
  BY DEF Goto, IInv, TypeOK, PlaceTypes
<1>3. Sending'
  BY <1>1, <1>2 DEF IInv, Sending, Queueing, TypeOK, PlaceTypes
<1>4. \A u \in Threads : pc'[u] = "jobOut" <=> pc[u] = "jobOut"
  BY <1>1, <1>2 DEF Queueing
<1>5. Recording'
  <2>1. SUFFICES ASSUME NEW u \in Threads, pc'[u] = "jobOut"
                 PROVE  Recorded(JobOf(u))' /\ jobDiff'[JobOf(u)'] <= lastSent'
    BY DEF Recording
  <2>2. JobOf(u)' = JobOf(u)
    BY <2>1, <1>4
  <2> QED
    BY <2>1, <2>2, <1>4 DEF IInv, Recording, Recorded
<1>6. ToldIsRecorded' /\ ToldAsRecorded'
  BY <1>4 DEF IInv, ToldIsRecorded, ToldAsRecorded, Recorded
<1> QED
  BY <1>3, <1>5, <1>6

----------------------------------------------------------------------------
(* Every operation keeps the invariant.                                     *)

\* Whatever the miner is to be told is written down by the goroutine that then holds sendMu.
LEMMA SendDifficultyStep ==
    ASSUME IInv, NEW t \in Threads, SendDifficulty(t)
    PROVE  IInv'
<1> DEFINE d == IF pc[t] = "diff" THEN assigned ELSE arg[t]
<1>1. d \in Diffs
  BY DEF IInv, TypeOK, ValueTypes, Places, SendDifficulty
<1>2. CASE d = lastSent /\ Goto(t, AfterDiff(t)) /\ arg' = [arg EXCEPT ![t] = Unknown]
           /\ UNCHANGED <<lastSent, sendMu>>
  <2>1. /\ AfterDiff(t) \in {"job", "load", "idle"}
        /\ pc[t] \in {"diff", "stale"}
    BY DEF SendDifficulty, AfterDiff
  <2>2. Sending' /\ Recording' /\ ToldIsRecorded' /\ ToldAsRecorded'
    <3>1. \A u \in Threads \ {t} : arg'[u] = arg[u]
      BY <1>2 DEF IInv, TypeOK, PlaceTypes
    <3>2. \A u \in Threads : pc[u] = "jobOut" => JobOf(u)' = JobOf(u)
      BY DEF SendDifficulty, jobv, JobOf
    <3> QED
      BY <1>2, <2>1, <3>1, <3>2, Aside DEF SendDifficulty, rec, Queueing
  <2>3. TypeOK'
    <3>1. ValueTypes'
      BY <1>2 DEF IInv, TypeOK, ValueTypes, SendDifficulty, jobv
    <3>2. PlaceTypes'
      BY <1>2, <2>1 DEF IInv, TypeOK, PlaceTypes, SendDifficulty, Goto
    <3>3. RecordTypes'
      BY DEF IInv, TypeOK, RecordTypes, Recorded, SendDifficulty, rec
    <3> QED
      BY <3>1, <3>2, <3>3 DEF TypeOK
  <2>4. Places'
    <3>1. t = "idle" => AfterDiff(t) = "idle"
      BY DEF AfterDiff
    <3>2. t = "broadcast" => AfterDiff(t) \in {"job", "idle"}
      BY DEF AfterDiff
    <3> QED
      BY <1>2, <2>1, <3>1, <3>2 DEF IInv, TypeOK, PlaceTypes, Places, Goto, Threads
  <2> QED
    BY <2>2, <2>3, <2>4 DEF IInv
<1>3. CASE /\ lastSent' = d /\ sendMu' = t /\ arg' = [arg EXCEPT ![t] = d]
           /\ Goto(t, IF pc[t] = "diff" THEN "diffOut" ELSE "staleOut")
  <2>1. \A u \in Threads : pc[u] \notin Queueing
    BY NobodyQueueing DEF SendDifficulty
  <2>2. pc[t] \in {"diff", "stale"}
    BY DEF SendDifficulty
  <2>3. \A u \in Threads : u # t => pc'[u] = pc[u]
    BY <1>3 DEF Goto, IInv, TypeOK, PlaceTypes
  <2>4. pc'[t] = (IF pc[t] = "diff" THEN "diffOut" ELSE "staleOut")
    BY <1>3 DEF Goto, IInv, TypeOK, PlaceTypes
  <2>5. arg'[t] = d
    BY <1>3 DEF IInv, TypeOK, PlaceTypes
  <2>6. Sending'
    BY <1>3, <2>1, <2>3, <2>4, <2>5 DEF Sending, Queueing, Threads
  <2>7. Recording' /\ ToldIsRecorded' /\ ToldAsRecorded'
    <3>1. \A u \in Threads : pc'[u] # "jobOut" /\ pc[u] # "jobOut"
      BY <2>1, <2>3, <2>4 DEF Queueing
    <3> QED
      BY <3>1 DEF IInv, Recording, ToldIsRecorded, ToldAsRecorded, Recorded, SendDifficulty, rec
  <2>8. TypeOK'
    <3>1. ValueTypes'
      BY <1>1, <1>3 DEF IInv, TypeOK, ValueTypes, SendDifficulty, jobv
    <3>2. PlaceTypes'
      BY <1>1, <1>3 DEF IInv, TypeOK, PlaceTypes, SendDifficulty, Goto
    <3>3. RecordTypes'
      BY DEF IInv, TypeOK, RecordTypes, Recorded, SendDifficulty, rec
    <3> QED
      BY <3>1, <3>2, <3>3 DEF TypeOK
  <2>9. Places'
    <3>1. t = "idle" => pc[t] = "diff"
      BY <2>2 DEF IInv, Places
    <3>2. t = "broadcast" => pc[t] = "diff"
      BY <2>2 DEF IInv, Places
    <3>3. \A u \in Threads : pc'[u] = "stale" => pc[u] = "stale" /\ arg'[u] = arg[u]
      BY <1>3, <2>3, <2>4 DEF IInv, TypeOK, PlaceTypes
    <3> QED
      BY <2>3, <2>4, <3>1, <3>2, <3>3 DEF IInv, Places, Threads
  <2> QED
    BY <2>6, <2>7, <2>8, <2>9 DEF IInv
<1> QED
  BY <1>2, <1>3 DEF SendDifficulty

\* The message leaves sendMu with what is written down and what was sent the same again.
LEMMA QueueDifficultyStep ==
    ASSUME IInv, NEW t \in Threads, QueueDifficulty(t)
    PROVE  IInv'
<1>1. pc[t] \in {"diffOut", "staleOut"} /\ sendMu = t /\ arg[t] = lastSent
  BY DEF QueueDifficulty, IInv, Sending, Queueing
<1>2. AfterDiff(t) \in {"job", "load", "idle"}
  BY DEF AfterDiff
<1>3. \A u \in Threads : u # t => pc'[u] = pc[u] /\ pc[u] \notin Queueing
  BY <1>1 DEF QueueDifficulty, Goto, IInv, Sending, TypeOK, PlaceTypes
<1>4. pc'[t] = AfterDiff(t)
  BY DEF QueueDifficulty, Goto, IInv, TypeOK, PlaceTypes
<1>5. \A u \in Threads : pc'[u] \notin Queueing
  BY <1>2, <1>3, <1>4 DEF Queueing
<1>6. Sending'
  <2>1. wire' = lastSent' /\ sendMu' = "free"
    BY <1>1 DEF QueueDifficulty
  <2> QED
    BY <2>1, <1>5 DEF Sending, Queueing
<1>7. Recording'
  BY <1>5 DEF Recording, Queueing
<1>8. ToldIsRecorded' /\ ToldAsRecorded'
  <2>1. \A u \in Threads : pc[u] # "jobOut"
    BY <1>1, <1>3 DEF Queueing
  <2> QED
    BY <2>1 DEF IInv, ToldIsRecorded, ToldAsRecorded, Recorded, QueueDifficulty, rec
<1>9. TypeOK'
  <2>1. ValueTypes'
    BY <1>1 DEF IInv, TypeOK, ValueTypes, QueueDifficulty, jobv
  <2>2. PlaceTypes'
    BY <1>2 DEF IInv, TypeOK, PlaceTypes, QueueDifficulty, Goto
  <2>3. RecordTypes'
    BY DEF IInv, TypeOK, RecordTypes, Recorded, QueueDifficulty, rec
  <2> QED
    BY <2>1, <2>2, <2>3 DEF TypeOK
<1>10. Places'
  <2>1. t = "idle" => AfterDiff(t) = "idle"
    BY DEF AfterDiff
  <2>2. t = "broadcast" => AfterDiff(t) \in {"job", "idle"}
    BY DEF AfterDiff
  <2>3. \A u \in Threads : pc'[u] = "stale" => pc[u] = "stale" /\ arg'[u] = arg[u]
    BY <1>2, <1>3, <1>4 DEF IInv, TypeOK, PlaceTypes, QueueDifficulty
  <2> QED
    BY <1>2, <1>3, <1>4, <2>1, <2>2, <2>3 DEF IInv, Places, Threads
<1> QED
  BY <1>6, <1>7, <1>8, <1>9, <1>10 DEF IInv

\* The job is on the record, at no more than the miner was told, before it is queued; one that had to
\* make room for it was another.
LEMMA SendJobStep ==
    ASSUME IInv, NEW t \in Threads, SendJob(t)
    PROVE  IInv'
<1> DEFINE j == JobOf(t)
<1>1. j \in Jobs /\ lastSent \in Diffs /\ lastSent # Unknown
  BY DEF JobOf, IInv, TypeOK, ValueTypes, PlaceTypes, Diffs, Unknown
<1>2. /\ \A u \in Threads : pc[u] \notin Queueing
      /\ wire = lastSent
      /\ \A k \in Jobs : ~Recorded(k) => told[k] = Unknown
  BY NobodyQueueing DEF SendJob
<1>3. /\ \A u \in Threads : u # t => pc'[u] = pc[u]
      /\ pc'[t] = "jobOut"
  BY DEF SendJob, Goto, IInv, TypeOK, PlaceTypes
<1>4. \A u \in Threads : JobOf(u)' = JobOf(u)
  BY DEF SendJob, JobOf, jobv
<1>5. /\ RecordTypes'
      /\ jobDiff'[j] # Unknown /\ jobDiff'[j] <= lastSent
      /\ ToldAsRecorded'
  <2>1. CASE jobDiff[j] # Unknown
    <3>1. jobDiff' = [jobDiff EXCEPT ![j] = Lower(@, lastSent)] /\ order' = order
      BY <2>1 DEF SendJob, Note
    <3>2. jobDiff[j] \in Diffs /\ Lower(jobDiff[j], lastSent) \in Diffs
      BY <1>1, <2>1 DEF IInv, TypeOK, RecordTypes, Lower, Diffs, Unknown
    <3>3. /\ \A k \in Jobs : k # j => jobDiff'[k] = jobDiff[k]
          /\ jobDiff'[j] = Lower(jobDiff[j], lastSent)
      BY <1>1, <3>1 DEF IInv, TypeOK, RecordTypes
    <3>4. \A k \in Jobs : Recorded(k)' <=> Recorded(k)
      BY <2>1, <3>2, <3>3 DEF Recorded, Diffs, Unknown
    <3>5. RecordTypes'
      <4>1. jobDiff' \in [Jobs -> Diffs \cup {Unknown}]
        BY <3>1, <3>2 DEF IInv, TypeOK, RecordTypes
      <4> QED
        BY <4>1, <3>1, <3>4 DEF IInv, TypeOK, RecordTypes, SendJob
    <3>6. jobDiff'[j] <= lastSent /\ jobDiff'[j] <= jobDiff[j]
      BY <1>1, <3>2, <3>3 DEF Lower, Diffs
    <3>7. ToldAsRecorded'
      <4>1. SUFFICES ASSUME NEW k \in Jobs, Recorded(k)', told[k] # Unknown
                     PROVE  jobDiff'[k] <= told[k]
        BY DEF ToldAsRecorded, SendJob
      <4>2. jobDiff[k] <= told[k]
        BY <3>4, <4>1 DEF IInv, ToldAsRecorded
      <4>3. told[k] \in Diffs /\ jobDiff[k] \in Nat /\ jobDiff'[k] \in Nat
        BY <4>1, <3>5 DEF IInv, TypeOK, RecordTypes, Diffs, Unknown
      <4>4. jobDiff'[k] <= jobDiff[k]
        BY <3>3, <3>6, <4>3
      <4> QED
        BY <4>2, <4>3, <4>4 DEF Diffs
    <3> QED
      BY <1>1, <2>1, <3>4, <3>5, <3>6, <3>7 DEF Recorded
  <2>2. CASE jobDiff[j] = Unknown /\ Len(order) < MaxJobDiffs
    <3>1. jobDiff' = [jobDiff EXCEPT ![j] = lastSent] /\ order' = Append(order, j)
      BY <2>2 DEF SendJob, Note
    <3>2. /\ \A k \in Jobs : k # j => jobDiff'[k] = jobDiff[k]
          /\ jobDiff'[j] = lastSent
      BY <1>1, <3>1 DEF IInv, TypeOK, RecordTypes
    <3>3. /\ order' \in Seq(Jobs) /\ Len(order') = Len(order) + 1
          /\ \A i \in 1..Len(order) : order'[i] = order[i]
          /\ order'[Len(order) + 1] = j
      BY <1>1, <3>1 DEF IInv, TypeOK, RecordTypes
    <3>4. \A i \in 1..Len(order) : order[i] # j
      BY <2>2 DEF IInv, TypeOK, RecordTypes, Recorded
    <3>5. RecordTypes'
      <4>1. jobDiff' \in [Jobs -> Diffs \cup {Unknown}]
        BY <1>1, <3>1 DEF IInv, TypeOK, RecordTypes
      <4>2. Len(order') <= MaxJobDiffs
        BY <2>2, <3>3, JobsAssumption DEF IInv, TypeOK, RecordTypes
      <4>3. \A i \in 1..Len(order') : Recorded(order[i])'
        BY <1>1, <3>2, <3>3, <3>4 DEF IInv, TypeOK, RecordTypes, Recorded
      <4>4. \A k \in Jobs : Recorded(k)' => \E i \in 1..Len(order') : order'[i] = k
        <5>1. SUFFICES ASSUME NEW k \in Jobs, Recorded(k)', k # j
                       PROVE  \E i \in 1..Len(order') : order'[i] = k
          BY <3>3, Len(order) + 1 \in 1..(Len(order) + 1)
        <5>2. Recorded(k)
          BY <3>2, <5>1 DEF Recorded
        <5>3. PICK i \in 1..Len(order) : order[i] = k
          BY <5>2 DEF IInv, TypeOK, RecordTypes
        <5>4. i \in 1..Len(order') /\ order'[i] = k
          BY <3>3, <5>3
        <5> QED
          BY <5>4
      <4>5. \A i, k \in 1..Len(order') : order'[i] = order'[k] => i = k
        BY <3>3, <3>4 DEF IInv, TypeOK, RecordTypes
      <4> QED
        BY <3>3, <4>1, <4>2, <4>3, <4>4, <4>5 DEF RecordTypes, Recorded, SendJob, IInv, TypeOK
    <3>6. ToldAsRecorded'
      BY <1>2, <2>2, <3>2 DEF IInv, ToldAsRecorded, Recorded, SendJob
    <3> QED
      BY <1>1, <3>2, <3>5, <3>6 DEF Recorded, Diffs
  <2>3. CASE jobDiff[j] = Unknown /\ ~(Len(order) < MaxJobDiffs)
    <3> DEFINE old == order[1]
    <3>1. /\ order \in Seq(Jobs) /\ Len(order) = MaxJobDiffs /\ Len(order) \in Nat \ {0}
      BY <2>3, JobsAssumption DEF IInv, TypeOK, RecordTypes
    <3>2. old \in Jobs /\ Head(order) = old /\ Recorded(old) /\ old # j
      BY <2>3, <3>1 DEF IInv, TypeOK, RecordTypes, Recorded
    <3>3. /\ jobDiff' = [jobDiff EXCEPT ![j] = lastSent, ![old] = Unknown]
          /\ order' = Append(Tail(order), j)
      BY <2>3, <3>2 DEF SendJob, Note
    <3>4. /\ \A k \in Jobs : k # j /\ k # old => jobDiff'[k] = jobDiff[k]
          /\ jobDiff'[j] = lastSent /\ jobDiff'[old] = Unknown
      BY <1>1, <3>2, <3>3 DEF IInv, TypeOK, RecordTypes
    <3>5. /\ order' \in Seq(Jobs) /\ Len(order') = Len(order)
          /\ \A i \in 1..(Len(order) - 1) : order'[i] = order[i + 1]
          /\ order'[Len(order)] = j
      BY <1>1, <3>1, <3>3
    <3>6. \A i \in 1..Len(order) : order[i] # j
      BY <2>3 DEF IInv, TypeOK, RecordTypes, Recorded
    <3>7. RecordTypes'
      <4>1. jobDiff' \in [Jobs -> Diffs \cup {Unknown}]
        BY <1>1, <3>2, <3>3 DEF IInv, TypeOK, RecordTypes
      <4>2. \A i \in 1..Len(order') : Recorded(order[i])'
        <5>1. SUFFICES ASSUME NEW i \in 1..Len(order) PROVE Recorded(order[i])'
          BY <3>5
        <5>2. CASE i = Len(order)
          BY <1>1, <3>4, <3>5, <5>2 DEF Recorded
        <5>3. CASE i # Len(order)
          <6>1. i \in 1..(Len(order) - 1) /\ i + 1 \in 1..Len(order) /\ i + 1 # 1 /\ 1 \in 1..Len(order)
            BY <3>1, <5>3
          <6>2. order'[i] = order[i + 1] /\ order[i + 1] # j
            BY <3>5, <3>6, <6>1
          <6>3. order[i + 1] # old
            BY <6>1 DEF IInv, TypeOK, RecordTypes
          <6>4. order[i + 1] \in Jobs
            BY <3>1, <6>1
          <6>5. jobDiff[order[i + 1]] # Unknown
            BY <6>1 DEF IInv, TypeOK, RecordTypes, Recorded
          <6>6. jobDiff'[order[i + 1]] = jobDiff[order[i + 1]]
            BY <3>4, <6>2, <6>3, <6>4
          <6> QED
            BY <6>2, <6>5, <6>6 DEF Recorded
        <5> QED
          BY <5>2, <5>3
      <4>3. \A k \in Jobs : Recorded(k)' => \E i \in 1..Len(order') : order'[i] = k
        <5>1. SUFFICES ASSUME NEW k \in Jobs, Recorded(k)', k # j
                       PROVE  \E i \in 1..Len(order) : order'[i] = k
          BY <3>1, <3>5
        <5>2. k # old /\ Recorded(k)
          BY <3>4, <5>1 DEF Recorded
        <5>3. PICK i \in 1..Len(order) : order[i] = k
          BY <5>2 DEF IInv, TypeOK, RecordTypes
        <5>4. i - 1 \in 1..(Len(order) - 1) /\ (i - 1) + 1 = i
          BY <3>1, <5>2, <5>3
        <5>5. order'[i - 1] = k
          BY <3>5, <5>3, <5>4
        <5> QED
          BY <3>1, <5>4, <5>5
      <4>4. \A i, k \in 1..Len(order') : order'[i] = order'[k] => i = k
        <5>1. SUFFICES ASSUME NEW i \in 1..Len(order), NEW k \in 1..Len(order), order'[i] = order'[k]
                       PROVE  i = k
          BY <3>5
        <5>2. CASE i = Len(order) \/ k = Len(order)
          BY <3>1, <3>5, <3>6, <5>1, <5>2
        <5>3. CASE i # Len(order) /\ k # Len(order)
          <6>1. order[i + 1] = order[k + 1] /\ i + 1 \in 1..Len(order) /\ k + 1 \in 1..Len(order)
            BY <3>1, <3>5, <5>1, <5>3
          <6>2. i + 1 = k + 1
            BY <6>1 DEF IInv, TypeOK, RecordTypes
          <6> QED
            BY <3>1, <6>2
        <5> QED
          BY <5>2, <5>3
      <4> QED
        BY <3>1, <3>5, <4>1, <4>2, <4>3, <4>4 DEF RecordTypes, Recorded, SendJob, IInv, TypeOK
    <3>8. ToldAsRecorded'
      BY <1>2, <2>3, <3>4 DEF IInv, ToldAsRecorded, Recorded, SendJob
    <3> QED
      BY <1>1, <3>4, <3>7, <3>8 DEF Recorded, Diffs
  <2> QED
    BY <2>1, <2>2, <2>3
<1>6. Sending'
  BY <1>2, <1>3 DEF SendJob, Sending, Queueing, Threads
<1>7. Recording'
  <2>1. SUFFICES ASSUME NEW u \in Threads, pc'[u] = "jobOut"
                 PROVE  Recorded(JobOf(u))' /\ jobDiff'[JobOf(u)'] <= lastSent'
    BY DEF Recording
  <2>2. u = t
    BY <1>2, <1>3, <2>1 DEF Queueing
  <2>3. lastSent' = lastSent /\ JobOf(t)' = j
    BY <1>4 DEF SendJob
  <2> QED
    BY <1>5, <2>2, <2>3 DEF Recorded
<1>8. ToldIsRecorded'
  BY <1>3 DEF ToldIsRecorded
<1>9. TypeOK'
  <2>1. ValueTypes'
    BY DEF IInv, TypeOK, ValueTypes, SendJob, jobv
  <2>2. PlaceTypes'
    BY DEF IInv, TypeOK, PlaceTypes, SendJob, Goto
  <2> QED
    BY <1>5, <2>1, <2>2 DEF TypeOK
<1>10. Places'
  BY <1>3 DEF IInv, Places, SendJob, Threads
<1> QED
  BY <1>5, <1>6, <1>7, <1>8, <1>9, <1>10 DEF IInv

\* The miner is told of the job with the difficulty written down for it, or one that is no lower.
LEMMA QueueJobStep ==
    ASSUME IInv, NEW t \in Threads, QueueJob(t)
    PROVE  IInv'
<1> DEFINE j == JobOf(t)
<1>1. j \in Jobs /\ lastSent \in Diffs /\ wire = lastSent /\ sendMu = t
  BY DEF QueueJob, JobOf, IInv, Sending, Queueing, TypeOK, ValueTypes, PlaceTypes
<1>2. Recorded(j) /\ jobDiff[j] <= wire /\ jobDiff[j] \in Diffs
  BY <1>1 DEF QueueJob, IInv, Recording, Recorded, TypeOK, RecordTypes
<1>3. /\ \A u \in Threads : u # t => pc'[u] = pc[u] /\ pc[u] \notin Queueing
      /\ pc'[t] = "idle"
  BY <1>1 DEF QueueJob, Goto, IInv, Sending, TypeOK, PlaceTypes
<1>4. \A u \in Threads : pc'[u] \notin Queueing
  BY <1>3 DEF Queueing
<1>5. /\ told'[j] = IF told[j] = Unknown THEN wire ELSE Lower(told[j], wire)
      /\ \A k \in Jobs : k # j => told'[k] = IF Recorded(k) THEN told[k] ELSE Unknown
  BY <1>1 DEF QueueJob, Recorded
<1>6. told'[j] \in Diffs /\ jobDiff[j] <= told'[j]
  <2>1. told[j] \in Diffs \cup {Unknown}
    BY <1>1 DEF IInv, TypeOK, RecordTypes
  <2>2. told[j] # Unknown => jobDiff[j] <= told[j]
    BY <1>1, <1>2 DEF IInv, ToldAsRecorded
  <2> QED
    BY <1>1, <1>2, <1>5, <2>1, <2>2 DEF Lower, Diffs, Unknown
<1>7. Sending'
  <2>1. wire' = lastSent' /\ sendMu' = "free"
    BY <1>1 DEF QueueJob
  <2> QED
    BY <2>1, <1>4 DEF Sending, Queueing
<1>8. Recording'
  BY <1>4 DEF Recording, Queueing
<1>9. \A k \in Jobs : Recorded(k)' <=> Recorded(k)
  BY DEF Recorded, QueueJob, rec
<1>10. ToldIsRecorded' /\ ToldAsRecorded'
  BY <1>2, <1>5, <1>6, <1>9 DEF IInv, ToldIsRecorded, ToldAsRecorded, QueueJob, rec
<1>11. TypeOK'
  <2>1. ValueTypes'
    BY DEF IInv, TypeOK, ValueTypes, QueueJob, jobv
  <2>2. PlaceTypes'
    BY DEF IInv, TypeOK, PlaceTypes, QueueJob, Goto
  <2>3. told' \in [Jobs -> Diffs \cup {Unknown}]
    <3>1. \A k \in Jobs : told'[k] \in Diffs \cup {Unknown}
      BY <1>5, <1>6 DEF IInv, TypeOK, RecordTypes
    <3> QED
      BY <3>1 DEF QueueJob
  <2>4. RecordTypes'
    BY <2>3 DEF IInv, TypeOK, RecordTypes, Recorded, QueueJob, rec
  <2> QED
    BY <2>1, <2>2, <2>4 DEF TypeOK
<1>12. Places'
  BY <1>3 DEF IInv, Places, QueueJob, Threads
<1> QED
  BY <1>7, <1>8, <1>10, <1>11, <1>12 DEF IInv

\* A goroutine that stays away from the queue and keeps what it changes well typed keeps the invariant.
LEMMA AsideStep ==
    ASSUME IInv, NEW t \in Threads, NEW where,
           pc[t] \notin Queueing, where \notin Queueing, Goto(t, where),
           where \in {"idle", "login", "suggest", "load", "lower", "diff", "stale", "job"},
           t = "broadcast" => where \in {"idle", "lower", "diff", "job"},
           t = "idle" => where \in {"idle", "diff"},
           t = "reader" => where # "lower",
           NEW value \in Diffs \cup {Unknown},
           arg' = arg \/ arg' = [arg EXCEPT ![t] = value],
           where = "stale" => arg' = [arg EXCEPT ![t] = value] /\ value \in Diffs,
           \A u \in Threads : pc[u] = "jobOut" => JobOf(u)' = JobOf(u),
           ValueTypes', held' \in Jobs,
           UNCHANGED <<lastSent, jobDiff, order, sendMu, wire, told>>
    PROVE  IInv'
<1>1. \A u \in Threads \ {t} : arg'[u] = arg[u] /\ pc'[u] = pc[u]
  BY DEF Goto, IInv, TypeOK, PlaceTypes
<1>2. pc'[t] = where /\ (where = "stale" => arg'[t] \in Diffs)
  BY DEF Goto, IInv, TypeOK, PlaceTypes
<1>3. Sending' /\ Recording' /\ ToldIsRecorded' /\ ToldAsRecorded'
  BY <1>1, Aside
<1>4. PlaceTypes'
  BY DEF IInv, TypeOK, PlaceTypes, Goto
<1>5. RecordTypes'
  BY DEF IInv, TypeOK, RecordTypes, Recorded
<1>6. Places'
  BY <1>1, <1>2 DEF IInv, Places, Threads
<1> QED
  BY <1>3, <1>4, <1>5, <1>6 DEF IInv, TypeOK

\* BroadcastJob takes the new job before it has any of the connection's locks.
LEMMA StoreCurrentStep ==
    ASSUME IInv, StoreCurrent
    PROVE  IInv'
<1>1. cur' \in Jobs
  BY JobsAssumption DEF StoreCurrent, IInv, TypeOK, ValueTypes, Jobs
<1>2. clean' \in BOOLEAN /\ net' \in Nets
  BY DEF StoreCurrent, IInv, TypeOK, ValueTypes
<1>3. ValueTypes'
  BY <1>1, <1>2 DEF StoreCurrent, IInv, TypeOK, ValueTypes
<1>4. \A u \in Threads : pc[u] = "jobOut" => JobOf(u)' = JobOf(u)
  BY DEF StoreCurrent, JobOf, IInv, Places, Threads
<1>5. held' \in Jobs
  BY DEF StoreCurrent, IInv, TypeOK, PlaceTypes
<1> QED
  BY <1>3, <1>4, <1>5, AsideStep DEF StoreCurrent, Queueing, Threads, rec, Unknown

\* A difficulty brought down for the new block is still one that can be assigned.
LEMMA LowerToNetworkStep ==
    ASSUME IInv, LowerToNetwork
    PROVE  IInv'
<1>1. belowNetwork(assigned, net) \in Diffs
  BY FloorUp, BelowNetworkIsDiff DEF IInv, TypeOK, ValueTypes, Diffs
<1>2. assigned' \in Diffs /\ late' \in BOOLEAN
  BY <1>1 DEF LowerToNetwork, IInv, TypeOK, ValueTypes
<1>3. ValueTypes'
  BY <1>2 DEF LowerToNetwork, jobv, IInv, TypeOK, ValueTypes
<1>4. held' \in Jobs
  BY DEF LowerToNetwork, IInv, TypeOK, PlaceTypes
<1>5. \A u \in Threads : pc[u] = "jobOut" => JobOf(u)' = JobOf(u)
  BY DEF LowerToNetwork, jobv, JobOf
<1> DEFINE where == IF ~authorized THEN "idle" ELSE IF clean \/ assigned' # assigned THEN "diff" ELSE "job"
<1>6. where \in {"idle", "diff", "job"} /\ Goto("broadcast", where) /\ pc["broadcast"] = "lower"
  BY DEF LowerToNetwork
<1> QED
  BY <1>3, <1>4, <1>5, <1>6, AsideStep DEF LowerToNetwork, Queueing, Threads, rec, Unknown

\* The network difficulty a reader carries is one.
LEMMA ReadNetStep ==
    ASSUME IInv, ReadNet
    PROVE  IInv'
<1>1. net \in Diffs
  BY FloorUp DEF IInv, TypeOK, ValueTypes
<1>2. ValueTypes' /\ held' \in Jobs
  BY DEF ReadNet, jobv, IInv, TypeOK, ValueTypes, PlaceTypes
<1>3. \A u \in Threads : pc[u] = "jobOut" => JobOf(u)' = JobOf(u)
  BY DEF ReadNet, jobv, JobOf
<1>4. PICK where \in {"login", "suggest"} : Goto("reader", where)
  BY DEF ReadNet
<1> QED
  BY <1>1, <1>2, <1>3, <1>4, AsideStep DEF ReadNet, Reader, Queueing, Threads, rec

\* A login's difficulty can be assigned whichever network difficulty it was brought below.
LEMMA LoginStep ==
    ASSUME IInv, Login
    PROVE  IInv'
<1>1. PICK d \in Floor..MaxDiff \cup {assigned} : assigned' = belowNetwork(d, arg["reader"])
  BY DEF Login
<1>2. arg["reader"] \in Nat /\ arg["reader"] <= MaxDiff
  BY RanksAssumption DEF IInv, TypeOK, PlaceTypes, Threads, Diffs, Unknown
<1>3. assigned' \in Diffs
  BY <1>1, <1>2, FloorUp, BelowNetworkIsDiff DEF IInv, TypeOK, ValueTypes
<1>4. late' \in BOOLEAN /\ authorized' \in BOOLEAN
  BY DEF Login, IInv, TypeOK, ValueTypes
<1>5. ValueTypes' /\ held' \in Jobs
  BY <1>3, <1>4 DEF Login, jobv, IInv, TypeOK, ValueTypes, PlaceTypes
<1>6. \A u \in Threads : pc[u] = "jobOut" => JobOf(u)' = JobOf(u)
  BY DEF Login, jobv, JobOf
<1>7. PICK where \in {"diff", "idle"} : Goto("reader", where)
  BY DEF Login
<1> QED
  BY <1>5, <1>6, <1>7, AsideStep DEF Login, Reader, Queueing, Threads, rec

\* The reader takes the current job while it holds none.
LEMMA LoadJobStep ==
    ASSUME IInv, LoadJob
    PROVE  IInv'
<1>1. ValueTypes' /\ held' \in Jobs
  BY DEF LoadJob, jobv, IInv, TypeOK, ValueTypes, PlaceTypes
<1>2. \A u \in Threads : pc[u] = "jobOut" => JobOf(u)' = JobOf(u)
  BY DEF LoadJob, Reader, jobv, JobOf
<1> QED
  BY <1>1, <1>2, AsideStep DEF LoadJob, Reader, Queueing, Threads, rec, Unknown

\* What the reader sets without a job to send, it carries to be sent.
LEMMA SetAndSend ==
    ASSUME IInv, pc["reader"] \notin Queueing, Goto("reader", "stale"),
           assigned' \in Diffs, arg' = [arg EXCEPT !["reader"] = assigned'],
           late' \in BOOLEAN, reduced' \in BOOLEAN,
           UNCHANGED <<jobv, lastSent, authorized, rec, held, sendMu, wire, told>>
    PROVE  IInv'
<1>1. ValueTypes' /\ held' \in Jobs
  BY DEF jobv, IInv, TypeOK, ValueTypes, PlaceTypes
<1>2. \A u \in Threads : pc[u] = "jobOut" => JobOf(u)' = JobOf(u)
  BY DEF jobv, JobOf
<1> QED
  BY <1>1, <1>2, AsideStep DEF Queueing, Threads, rec

\* A suggested difficulty is within what can be assigned.
LEMMA SuggestStep ==
    ASSUME IInv, Suggest
    PROVE  IInv'
<1>1. PICK d \in Floor..MaxDiff : /\ assigned' = belowNetwork(d, arg["reader"])
                                  /\ arg' = [arg EXCEPT !["reader"] = assigned']
  BY DEF Suggest
<1>2. arg["reader"] \in Nat /\ arg["reader"] <= MaxDiff
  BY RanksAssumption DEF IInv, TypeOK, PlaceTypes, Threads, Diffs, Unknown
<1>3. assigned' \in Diffs
  BY <1>1, <1>2, FloorUp, BelowNetworkIsDiff
<1>4. late' \in BOOLEAN /\ reduced' \in BOOLEAN
  BY DEF Suggest, IInv, TypeOK, ValueTypes
<1> QED
  BY <1>1, <1>3, <1>4, SetAndSend DEF Suggest, Reader, Queueing

\* A retarget is within what can be assigned, whatever ceiling a rejection put on it.
LEMMA VardiffStep ==
    ASSUME IInv, Vardiff
    PROVE  IInv'
<1>1. PICK d \in Floor..MaxDiff, ceiling \in (IF reduced THEN 1..(MaxDiff - 1) ELSE {MaxDiff}) :
          /\ assigned' = Lower(belowNetwork(d, net), ceiling)
          /\ arg' = [arg EXCEPT !["reader"] = assigned']
  BY DEF Vardiff, SetLevel, vardiffLevel
<1>2. belowNetwork(d, net) \in Diffs
  <2>1. d \in Diffs /\ net \in Nat /\ net <= MaxDiff
    BY FloorUp DEF IInv, TypeOK, ValueTypes, Diffs
  <2> QED
    BY <2>1, BelowNetworkIsDiff
<1>3. ceiling \in Diffs
  BY <1>1, FloorUp, RanksAssumption DEF Diffs
<1>4. assigned' \in Diffs
  BY <1>1, <1>2, <1>3 DEF Lower
<1>5. late' \in BOOLEAN /\ reduced' \in BOOLEAN
  BY DEF Vardiff, IInv, TypeOK, ValueTypes
<1> QED
  BY <1>1, <1>4, <1>5, SetAndSend DEF Vardiff, SetLevel, Reader, Queueing

\* Halving stops at the floor.
LEMMA ReduceStep ==
    ASSUME IInv, ReduceAfterRejections
    PROVE  IInv'
<1>1. PICK half \in 1..(assigned - 1) : /\ assigned' = Higher(half, Floor)
                                        /\ arg' = [arg EXCEPT !["reader"] = assigned']
  BY DEF ReduceAfterRejections
<1>2. assigned' \in Diffs
  BY <1>1, RanksAssumption DEF Higher, Diffs, IInv, TypeOK, ValueTypes
<1>3. late' \in BOOLEAN /\ reduced' \in BOOLEAN
  BY DEF ReduceAfterRejections, IInv, TypeOK, ValueTypes
<1> QED
  BY <1>1, <1>2, <1>3, SetAndSend DEF ReduceAfterRejections, Reader, Queueing

\* The idle rescue sets the floor and goes to send it.
LEMMA IdleResetStep ==
    ASSUME IInv, IdleReset
    PROVE  IInv'
<1>1. ValueTypes' /\ held' \in Jobs
  BY FloorUp DEF IdleReset, jobv, IInv, TypeOK, ValueTypes, PlaceTypes
<1>2. \A u \in Threads : pc[u] = "jobOut" => JobOf(u)' = JobOf(u)
  BY DEF IdleReset, jobv, JobOf
<1> QED
  BY <1>1, <1>2, AsideStep DEF IdleReset, Queueing, Threads, rec, Unknown

\* The end of the cooldown, or a step that is not one of this module's, changes nothing that is sent,
\* recorded or told.
LEMMA QuietStep ==
    ASSUME IInv, CooldownEnds \/ UNCHANGED vars
    PROVE  IInv'
<1>1. UNCHANGED <<cur, net, clean, assigned, lastSent, authorized, jobDiff, order,
                  pc, arg, held, sendMu, wire, told, late>>
  BY DEF CooldownEnds, vars, jobv, rec
<1>2. reduced' \in BOOLEAN
  BY DEF CooldownEnds, vars, IInv, TypeOK, ValueTypes
<1>3. TypeOK'
  BY <1>1, <1>2 DEF IInv, TypeOK, ValueTypes, PlaceTypes, RecordTypes, Recorded
<1>4. Sending' /\ Places'
  BY <1>1 DEF IInv, Sending, Places
<1>5. Recording' /\ ToldIsRecorded' /\ ToldAsRecorded'
  BY <1>1 DEF IInv, Recording, ToldIsRecorded, ToldAsRecorded, Recorded, JobOf
<1> QED
  BY <1>3, <1>4, <1>5 DEF IInv

----------------------------------------------------------------------------
(* The theorems.                                                            *)

\* The invariant holds when the miner has had its first difficulty and no job.
LEMMA InitIInv == Init => IInv
<1> SUFFICES ASSUME Init PROVE IInv
  OBVIOUS
<1>1. ValueTypes
  <2>1. cur \in Jobs
    BY JobsAssumption DEF Init, Jobs
  <2>2. assigned \in Diffs /\ lastSent \in Diffs /\ wire \in Diffs
    BY FloorUp DEF Init
  <2> QED
    BY <2>1, <2>2 DEF Init, ValueTypes
<1>2. PlaceTypes
  BY JobsAssumption DEF Init, PlaceTypes, Jobs
<1>3. RecordTypes
  BY JobsAssumption DEF Init, RecordTypes, Recorded
<1>4. Sending /\ Places /\ Recording
  BY DEF Init, Sending, Places, Recording, Queueing, Threads
<1>5. ToldIsRecorded /\ ToldAsRecorded
  BY DEF Init, ToldIsRecorded, ToldAsRecorded
<1> QED
  BY <1>1, <1>2, <1>3, <1>4, <1>5 DEF IInv, TypeOK

\* Every step keeps the invariant, one lemma for each operation.
LEMMA NextIInv == IInv /\ [Next]_vars => IInv'
<1> SUFFICES ASSUME IInv, [Next]_vars PROVE IInv'
  OBVIOUS
<1>1. ASSUME NEW t \in Threads, Send(t) PROVE IInv'
  BY <1>1, SendDifficultyStep, QueueDifficultyStep, SendJobStep, QueueJobStep DEF Send
<1>2. CASE StoreCurrent \/ LowerToNetwork
  BY <1>2, StoreCurrentStep, LowerToNetworkStep
<1>3. CASE ReadNet \/ Login \/ LoadJob \/ Suggest \/ Vardiff \/ ReduceAfterRejections
  BY <1>3, ReadNetStep, LoginStep, LoadJobStep, SuggestStep, VardiffStep, ReduceStep
<1>4. CASE IdleReset
  BY <1>4, IdleResetStep
<1>5. CASE CooldownEnds \/ UNCHANGED vars
  BY <1>5, QuietStep
<1> QED
  BY <1>1, <1>2, <1>3, <1>4, <1>5 DEF Next

\* The invariant holds in every reachable state.
LEMMA Invariance == Spec => []IInv
  BY InitIInv, NextIInv, PTL DEF Spec

\* What a share is judged by is at most what its job was recorded at, and so at most what was told.
LEMMA IInvJudges == IInv => NeverJudgedHarder
<1> SUFFICES ASSUME IInv, NEW j \in Jobs, Recorded(j), told[j] # Unknown
             PROVE  Judged(j) <= told[j]
  BY DEF NeverJudgedHarder
<1>1. jobDiff[j] <= told[j] /\ jobDiff[j] \in Diffs /\ told[j] \in Diffs /\ assigned \in Diffs
  BY DEF IInv, ToldAsRecorded, Recorded, TypeOK, RecordTypes, ValueTypes
<1> QED
  BY <1>1, RanksAssumption DEF Judged, Lower, Recorded, Diffs

\* Every variable keeps its type, and the record of difficulties holds at most MaxJobDiffs jobs, each
\* once (noteJobDifficulty, server.go:426-447).
THEOREM TypeCorrect == Spec => []TypeOK
<1>1. IInv => TypeOK
  BY DEF IInv
<1> QED
  BY <1>1, Invariance, PTL

\* A share on a recorded job is never judged by more than the miner was told for that job, whichever
\* goroutines set the difficulty and sent it, and in whichever order (shareFloorFor, server.go:508).
THEOREM NeverHarder == Spec => []NeverJudgedHarder
  BY Invariance, IInvJudges, PTL
=============================================================================
