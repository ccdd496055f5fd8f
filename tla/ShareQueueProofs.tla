-------------------------- MODULE ShareQueueProofs --------------------------
(***************************************************************************)
(* For any shares, limits and answers of the pool: the totals add up, and  *)
(* the gateway implements ShareLedger.                                     *)
(*                                                                         *)
(* CountsAddUp is not inductive.  That a batch taken out of the queue is   *)
(* as long as the queue got shorter needs that no share is queued twice    *)
(* (Apart); that a step settles a share once needs that what is held is    *)
(* not counted yet (Books).  Steps of the gateway are all of one kind,     *)
(* SettlesOnly, and StepKeeps shows that kind to be a step of ShareLedger. *)
(***************************************************************************)
EXTENDS ShareQueue, FiniteSetTheorems, TLAPS

\* No member twice.
Distinct(seq) == \A i, j \in DOMAIN seq : seq[i] = seq[j] => i = j

\* What every proof below uses of a sequence: its length, its places, and its members.
LEMMA SeqFacts ==
  ASSUME NEW S, NEW seq \in Seq(S)
  PROVE  /\ Len(seq) \in Nat
         /\ DOMAIN seq = 1..Len(seq)
         /\ \A i \in DOMAIN seq : seq[i] \in S
         /\ ToSet(seq) = {seq[i] : i \in 1..Len(seq)}
         /\ ToSet(seq) \subseteq S
         /\ \A s : s \in ToSet(seq) <=> \E i \in DOMAIN seq : seq[i] = s
         /\ seq = <<>> <=> Len(seq) = 0
         /\ IsFiniteSet(DOMAIN seq) /\ Cardinality(DOMAIN seq) = Len(seq)
<1>1. Len(seq) \in Nat /\ DOMAIN seq = 1..Len(seq) /\ \A i \in DOMAIN seq : seq[i] \in S
  OBVIOUS
<1>2. /\ ToSet(seq) = {seq[i] : i \in 1..Len(seq)} /\ ToSet(seq) \subseteq S
      /\ \A s : s \in ToSet(seq) <=> \E i \in DOMAIN seq : seq[i] = s
  BY <1>1 DEF ToSet
<1>3. seq = <<>> <=> Len(seq) = 0
  OBVIOUS
<1>4. IsFiniteSet(DOMAIN seq) /\ Cardinality(DOMAIN seq) = Len(seq)
  <2>1. IsFiniteSet(1..Len(seq)) /\ Cardinality(1..Len(seq)) = IF 1 > Len(seq) THEN 0 ELSE Len(seq) - 1 + 1
    BY <1>1, FS_Interval
  <2> QED BY <2>1, <1>1
<1> QED BY <1>1, <1>2, <1>3, <1>4

\* A sequence without repetitions has as many members as places.
LEMMA DistinctLen ==
  ASSUME NEW S, NEW seq \in Seq(S), Distinct(seq)
  PROVE  IsFiniteSet(ToSet(seq)) /\ Cardinality(ToSet(seq)) = Len(seq)
<1> DEFINE f == [i \in DOMAIN seq |-> seq[i]]
<1>1. f \in Bijection(DOMAIN seq, ToSet(seq))
  <2>1. f \in [DOMAIN seq -> ToSet(seq)]
    BY SeqFacts
  <2>2. \A i, j \in DOMAIN seq : f[i] = f[j] => i = j
    BY DEF Distinct
  <2>3. \A s \in ToSet(seq) : \E i \in DOMAIN seq : f[i] = s
    BY SeqFacts
  <2> QED BY <2>1, <2>2, <2>3 DEF Bijection, Injection, IsInjective, Surjection
<1>2. ExistsBijection(DOMAIN seq, ToSet(seq))
  BY <1>1 DEF ExistsBijection
<1> QED
  BY <1>2, FS_Bijection, SeqFacts

\* The smaller of two numbers.
LEMMA MinOfTwo ==
  ASSUME NEW a \in Nat, NEW b \in Nat
  PROVE  Min({a, b}) = IF a <= b THEN a ELSE b
  BY DEF Min

\* FirstN and AfterN cut a sequence in two, as Flush and SendBlock cut their batches
\* (gateway.go:767-778, 850-864): no share is lost, and none is on both sides.
LEMMA FirstAfter ==
  ASSUME NEW S, NEW seq \in Seq(S), NEW n \in Nat
  PROVE  /\ FirstN(seq, n) \in Seq(S) /\ AfterN(seq, n) \in Seq(S)
         /\ Len(FirstN(seq, n)) = IF n <= Len(seq) THEN n ELSE Len(seq)
         /\ Len(FirstN(seq, n)) + Len(AfterN(seq, n)) = Len(seq)
         /\ ToSet(FirstN(seq, n)) \cup ToSet(AfterN(seq, n)) = ToSet(seq)
         /\ Distinct(seq) => /\ Distinct(FirstN(seq, n)) /\ Distinct(AfterN(seq, n))
                             /\ ToSet(FirstN(seq, n)) \cap ToSet(AfterN(seq, n)) = {}
<1> DEFINE m == IF n <= Len(seq) THEN n ELSE Len(seq)
<1>0. Len(seq) \in Nat /\ m \in Nat /\ m <= Len(seq) /\ m <= n /\ (m = n \/ m = Len(seq))
  BY SeqFacts
<1>1. FirstN(seq, n) = SubSeq(seq, 1, m)
  BY MinOfTwo, <1>0 DEF FirstN
<1>2. /\ SubSeq(seq, 1, m) \in Seq(S) /\ Len(SubSeq(seq, 1, m)) = m
      /\ \A i \in 1..m : SubSeq(seq, 1, m)[i] = seq[i]
  BY <1>0
<1>3. /\ AfterN(seq, n) \in Seq(S) /\ Len(AfterN(seq, n)) = Len(seq) - m
      /\ \A i \in 1..(Len(seq) - m) : AfterN(seq, n)[i] = seq[m + i]
  <2>1. CASE n <= Len(seq)
    BY <2>1, <1>0 DEF AfterN
  <2>2. CASE n > Len(seq)
    <3>1. AfterN(seq, n) = <<>>
      BY <2>2, <1>0 DEF AfterN
    <3> QED BY <3>1, <2>2, <1>0
  <2> QED BY <2>1, <2>2, <1>0
<1>8. m = IF n <= Len(seq) THEN n ELSE Len(seq)
  BY DEF m
<1> HIDE DEF m
<1>9. /\ DOMAIN seq = 1..Len(seq) /\ DOMAIN FirstN(seq, n) = 1..m
      /\ DOMAIN AfterN(seq, n) = 1..(Len(seq) - m)
  BY <1>0, <1>1, <1>2, <1>3, SeqFacts
<1>10. \A i \in 1..m : i \in 1..Len(seq) /\ FirstN(seq, n)[i] = seq[i]
  BY <1>0, <1>1, <1>2
<1>4. \A s : s \in ToSet(FirstN(seq, n)) <=> \E i \in 1..m : seq[i] = s
  BY <1>9, <1>10 DEF ToSet
<1>5. \A s : s \in ToSet(AfterN(seq, n)) <=> \E i \in (m + 1)..Len(seq) : seq[i] = s
  <2>1. \A i \in (m + 1)..Len(seq) : i - m \in 1..(Len(seq) - m) /\ seq[i] = AfterN(seq, n)[i - m]
    BY <1>0, <1>3
  <2>2. \A i \in 1..(Len(seq) - m) : m + i \in (m + 1)..Len(seq) /\ seq[m + i] = AfterN(seq, n)[i]
    BY <1>0, <1>3
  <2>3. \A s : s \in ToSet(AfterN(seq, n)) <=> \E i \in 1..(Len(seq) - m) : AfterN(seq, n)[i] = s
    BY <1>3, <1>9, SeqFacts
  <2> QED BY <2>1, <2>2, <2>3
<1>6. ToSet(FirstN(seq, n)) \cup ToSet(AfterN(seq, n)) = ToSet(seq)
  <2>1. \A i \in 1..Len(seq) : i \in 1..m \/ i \in (m + 1)..Len(seq)
    BY <1>0
  <2>2. \A i : i \in 1..m \/ i \in (m + 1)..Len(seq) => i \in 1..Len(seq)
    BY <1>0
  <2>3. \A s : s \in ToSet(seq) <=> \E i \in 1..Len(seq) : seq[i] = s
    BY <1>9, SeqFacts
  <2> QED BY <1>4, <1>5, <2>1, <2>2, <2>3
<1>7. ASSUME Distinct(seq)
      PROVE  /\ Distinct(FirstN(seq, n)) /\ Distinct(AfterN(seq, n))
             /\ ToSet(FirstN(seq, n)) \cap ToSet(AfterN(seq, n)) = {}
  <2>1. Distinct(FirstN(seq, n))
    BY <1>7, <1>9, <1>10 DEF Distinct
  <2>2. Distinct(AfterN(seq, n))
    <3>1. \A i \in 1..(Len(seq) - m) : m + i \in 1..Len(seq)
      BY <1>0
    <3>2. \A i, j \in 1..(Len(seq) - m) : AfterN(seq, n)[i] = AfterN(seq, n)[j] => m + i = m + j
      BY <3>1, <1>3, <1>7, <1>9 DEF Distinct
    <3>3. \A i, j \in 1..(Len(seq) - m) : m + i = m + j => i = j
      BY <1>0
    <3> QED BY <3>2, <3>3, <1>9 DEF Distinct
  <2>3. ToSet(FirstN(seq, n)) \cap ToSet(AfterN(seq, n)) = {}
    <3>1. \A i \in 1..m, j \in (m + 1)..Len(seq) : i \in 1..Len(seq) /\ j \in 1..Len(seq) /\ i # j
      BY <1>0
    <3>2. \A i \in 1..m, j \in (m + 1)..Len(seq) : seq[i] # seq[j]
      BY <3>1, <1>7, <1>9 DEF Distinct
    <3> QED BY <3>2, <1>4, <1>5
  <2> QED BY <2>1, <2>2, <2>3
<1> QED BY <1>0, <1>1, <1>2, <1>3, <1>6, <1>7, <1>8

\* Putting sequences together loses no member and repeats none of disjoint ones.
LEMMA Joined ==
  ASSUME NEW S, NEW s \in Seq(S), NEW t \in Seq(S)
  PROVE  /\ s \o t \in Seq(S) /\ Len(s \o t) = Len(s) + Len(t)
         /\ ToSet(s \o t) = ToSet(s) \cup ToSet(t)
         /\ Distinct(s) /\ Distinct(t) /\ ToSet(s) \cap ToSet(t) = {} => Distinct(s \o t)
<1>1. /\ Len(s) \in Nat /\ Len(t) \in Nat
      /\ s \o t \in Seq(S) /\ Len(s \o t) = Len(s) + Len(t)
      /\ \A i \in 1..Len(s) : (s \o t)[i] = s[i]
      /\ \A i \in (Len(s) + 1)..(Len(s) + Len(t)) : i - Len(s) \in 1..Len(t) /\ (s \o t)[i] = t[i - Len(s)]
  OBVIOUS
<1>2. /\ DOMAIN s = 1..Len(s) /\ DOMAIN t = 1..Len(t) /\ DOMAIN (s \o t) = 1..(Len(s) + Len(t))
      /\ \A x : x \in ToSet(s) <=> \E i \in 1..Len(s) : s[i] = x
      /\ \A x : x \in ToSet(t) <=> \E i \in 1..Len(t) : t[i] = x
      /\ \A x : x \in ToSet(s \o t) <=> \E i \in 1..(Len(s) + Len(t)) : (s \o t)[i] = x
  <2>1. DOMAIN s = 1..Len(s) /\ DOMAIN t = 1..Len(t) /\ DOMAIN (s \o t) = 1..(Len(s) + Len(t))
    BY <1>1
  <2> QED BY <2>1 DEF ToSet
<1>3. \A i \in 1..(Len(s) + Len(t)) : i \in 1..Len(s) \/ i \in (Len(s) + 1)..(Len(s) + Len(t))
  BY <1>1
<1>4. ToSet(s \o t) = ToSet(s) \cup ToSet(t)
  <2>1. ASSUME NEW i \in 1..Len(t) PROVE Len(s) + i \in 1..(Len(s) + Len(t)) /\ t[i] = (s \o t)[Len(s) + i]
    <3>1. Len(s) + i \in (Len(s) + 1)..(Len(s) + Len(t)) /\ Len(s) + i - Len(s) = i
      BY <1>1
    <3> QED BY <3>1, <1>1
  <2>2. \A i \in 1..Len(s) : i \in 1..(Len(s) + Len(t))
    BY <1>1
  <2>3. \A x \in ToSet(s) \cup ToSet(t) : x \in ToSet(s \o t)
    BY <2>1, <2>2, <1>1, <1>2
  <2>4. \A x \in ToSet(s \o t) : x \in ToSet(s) \cup ToSet(t)
    BY <1>1, <1>2, <1>3
  <2> QED BY <2>3, <2>4
<1>5. ASSUME Distinct(s), Distinct(t), ToSet(s) \cap ToSet(t) = {}
      PROVE  Distinct(s \o t)
  <2> SUFFICES ASSUME NEW i \in 1..(Len(s) + Len(t)), NEW j \in 1..(Len(s) + Len(t)),
                      (s \o t)[i] = (s \o t)[j]
               PROVE  i = j
    BY <1>2 DEF Distinct
  <2>1. CASE i \in 1..Len(s) /\ j \in 1..Len(s)
    BY <2>1, <1>1, <1>2, <1>5 DEF Distinct
  <2>2. CASE i \in (Len(s) + 1)..(Len(s) + Len(t)) /\ j \in (Len(s) + 1)..(Len(s) + Len(t))
    <3>1. i - Len(s) = j - Len(s)
      BY <2>2, <1>1, <1>2, <1>5 DEF Distinct
    <3> QED BY <3>1, <2>2, <1>1
  <2>3. CASE i \in 1..Len(s) /\ j \in (Len(s) + 1)..(Len(s) + Len(t))
    BY <2>3, <1>1, <1>2, <1>5
  <2>4. CASE j \in 1..Len(s) /\ i \in (Len(s) + 1)..(Len(s) + Len(t))
    BY <2>4, <1>1, <1>2, <1>5
  <2> QED BY <2>1, <2>2, <2>3, <2>4, <1>3
<1> QED BY <1>1, <1>4, <1>5

\* Counting the places of a set up to each of its places numbers them 1, 2, ... without a gap.
LEMMA Ranks ==
  ASSUME NEW n \in Nat, NEW at \in SUBSET (1..n)
  PROVE  LET rank(i) == Cardinality({j \in at : j <= i})
         IN  /\ IsFiniteSet(at) /\ Cardinality(at) \in Nat
             /\ \A i \in at : rank(i) \in 1..Cardinality(at)
             /\ \A i, j \in at : rank(i) = rank(j) => i = j
             /\ \A k \in 1..Cardinality(at) : \E i \in at : rank(i) = k
<1> DEFINE upto(i) == {j \in at : j <= i}
           rank == [i \in at |-> Cardinality(upto(i))]
<1>1. IsFiniteSet(at) /\ Cardinality(at) \in Nat
  <2>1. IsFiniteSet(1..n)
    BY FS_Interval
  <2> QED BY <2>1, FS_Subset, FS_CardinalityType
<1>2. ASSUME NEW i \in at PROVE IsFiniteSet(upto(i)) /\ rank[i] \in 1..Cardinality(at)
  <2>1. upto(i) \in SUBSET at /\ upto(i) # {}
    OBVIOUS
  <2>2. IsFiniteSet(upto(i)) /\ Cardinality(upto(i)) <= Cardinality(at)
    BY <2>1, <1>1, FS_Subset
  <2>3. Cardinality(upto(i)) \in Nat /\ Cardinality(upto(i)) # 0
    BY <2>1, <2>2, FS_CardinalityType, FS_EmptySet
  <2> QED BY <2>2, <2>3, <1>1
<1>3. ASSUME NEW i \in at, NEW j \in at, i < j PROVE rank[i] # rank[j]
  <2>1. upto(i) \in SUBSET upto(j)
    <3>1. \A x \in at : x \in Int
      OBVIOUS
    <3>2. \A x \in at : x <= i => x <= j
      BY <3>1, <1>3
    <3> QED BY <3>2
  <2>4. j \notin upto(i) /\ j \in upto(j)
    BY <1>3
  <2> HIDE DEF upto
  <2>2. Cardinality(upto(j)) # Cardinality(upto(i))
    <3>1. IsFiniteSet(upto(j)) /\ upto(i) # upto(j)
      BY <2>4, <1>2
    <3> QED BY <2>1, <3>1, FS_Subset
  <2>3. rank[i] = Cardinality(upto(i)) /\ rank[j] = Cardinality(upto(j))
    OBVIOUS
  <2> QED BY <2>2, <2>3
<1>4. \A i, j \in at : rank[i] = rank[j] => i = j
  <2> SUFFICES ASSUME NEW i \in at, NEW j \in at, i # j PROVE rank[i] # rank[j]
    OBVIOUS
  <2>1. i < j \/ j < i
    OBVIOUS
  <2> QED BY <2>1, <1>3
<1>5. IsFiniteSet(1..Cardinality(at)) /\ Cardinality(1..Cardinality(at)) = Cardinality(at)
  BY <1>1, FS_Interval
<1>6. rank \in [at -> 1..Cardinality(at)]
  BY <1>2
<1> HIDE DEF rank
<1>7. rank \in Injection(at, 1..Cardinality(at))
  BY <1>4, <1>6 DEF Injection, IsInjective
<1>8. rank \in Surjection(at, 1..Cardinality(at))
  BY <1>7, <1>5, FS_Injection
<1>9. \A k \in 1..Cardinality(at) : \E i \in at : rank[i] = k
  BY <1>8 DEF Surjection
<1>10. \A i \in at : rank[i] = Cardinality({j \in at : j <= i})
  BY DEF rank
<1> QED BY <1>1, <1>4, <1>6, <1>9, <1>10

\* Only returns just the members that are in the set, each as often as it was there: a filter loop of
\* Flush and of SendBlock keeps what it means to keep.
LEMMA OnlyFacts ==
  ASSUME NEW S, NEW seq \in Seq(S), NEW set
  PROVE  /\ Only(seq, set) \in Seq(S)
         /\ ToSet(Only(seq, set)) = ToSet(seq) \cap set
         /\ Distinct(seq) => Distinct(Only(seq, set))
         /\ Len(Only(seq, set)) = Cardinality({i \in DOMAIN seq : seq[i] \in set})
<1> DEFINE at == {i \in DOMAIN seq : seq[i] \in set}
           rank(i) == Cardinality({j \in at : j <= i})
           pick(k) == CHOOSE i \in at : rank(i) = k
<1>1. at \in SUBSET (1..Len(seq)) /\ Len(seq) \in Nat
  BY SeqFacts
<1> HIDE DEF at
<1>2. /\ Cardinality(at) \in Nat
      /\ \A i \in at : rank(i) \in 1..Cardinality(at)
      /\ \A i, j \in at : rank(i) = rank(j) => i = j
      /\ \A k \in 1..Cardinality(at) : \E i \in at : rank(i) = k
  BY <1>1, Ranks
<1> HIDE DEF rank
<1>3. \A k \in 1..Cardinality(at) : pick(k) \in at /\ rank(pick(k)) = k
  BY <1>2
<1>4. \A i \in at : rank(i) \in 1..Cardinality(at) /\ pick(rank(i)) = i
  BY <1>2
<1> HIDE DEF pick
<1>5. Only(seq, set) = [k \in 1..Cardinality(at) |-> seq[pick(k)]]
  BY DEF Only, at, rank, pick
<1>6. \A i \in at : i \in DOMAIN seq /\ seq[i] \in set /\ seq[i] \in S
  BY SeqFacts DEF at
<1>7. \A i \in DOMAIN seq : seq[i] \in set => i \in at
  BY DEF at
<1>8. /\ Only(seq, set) \in Seq(S) /\ DOMAIN Only(seq, set) = 1..Cardinality(at)
      /\ Len(Only(seq, set)) = Cardinality(at)
  BY <1>2, <1>3, <1>5, <1>6
<1>9. ToSet(Only(seq, set)) = {seq[pick(k)] : k \in 1..Cardinality(at)}
  BY <1>5, <1>8 DEF ToSet
<1>10. ToSet(Only(seq, set)) = ToSet(seq) \cap set
  <2>1. \A k \in 1..Cardinality(at) : seq[pick(k)] \in ToSet(seq) \cap set
    BY <1>3, <1>6, SeqFacts
  <2>2. ASSUME NEW s \in ToSet(seq) \cap set PROVE \E k \in 1..Cardinality(at) : seq[pick(k)] = s
    <3>1. PICK i \in DOMAIN seq : seq[i] = s
      BY SeqFacts
    <3> QED BY <3>1, <1>4, <1>7
  <2> QED BY <1>9, <2>1, <2>2
<1>11. ASSUME Distinct(seq) PROVE Distinct(Only(seq, set))
  <2> SUFFICES ASSUME NEW k \in 1..Cardinality(at), NEW l \in 1..Cardinality(at), seq[pick(k)] = seq[pick(l)]
               PROVE  k = l
    BY <1>5, <1>8 DEF Distinct
  <2>1. pick(k) = pick(l)
    BY <1>3, <1>6, <1>11 DEF Distinct
  <2> QED BY <2>1, <1>3
<1>12. Len(Only(seq, set)) = Cardinality({i \in DOMAIN seq : seq[i] \in set})
  BY <1>8 DEF at
<1> QED BY <1>8, <1>10, <1>11, <1>12

\* Flush's loop puts each queued share with the fresh or with the stale ones (gateway.go:851-863).
LEMMA OnlySplits ==
  ASSUME NEW S, NEW seq \in Seq(S), NEW A, NEW B, S \subseteq A \cup B, A \cap B = {}
  PROVE  Len(Only(seq, A)) + Len(Only(seq, B)) = Len(seq)
<1> DEFINE inA == {i \in DOMAIN seq : seq[i] \in A}
           inB == {i \in DOMAIN seq : seq[i] \in B}
<1>1. Len(Only(seq, A)) = Cardinality(inA) /\ Len(Only(seq, B)) = Cardinality(inB)
  BY OnlyFacts
<1>2. inA \cup inB = DOMAIN seq /\ inA \cap inB = {}
  BY SeqFacts
<1>3. IsFiniteSet(DOMAIN seq) /\ Cardinality(DOMAIN seq) = Len(seq)
  BY SeqFacts
<1>4. inA \subseteq DOMAIN seq /\ inB \subseteq DOMAIN seq
  OBVIOUS
<1> HIDE DEF inA, inB
<1>5. IsFiniteSet(inA) /\ IsFiniteSet(inB)
  BY <1>3, <1>4, FS_Subset
<1>6. Cardinality(inA) \in Nat /\ Cardinality(inB) \in Nat
  BY <1>5, FS_CardinalityType
<1>7. Cardinality(inA \cup inB) = Cardinality(inA) + Cardinality(inB) - Cardinality(inA \cap inB)
  BY <1>5, FS_Union
<1>8. Cardinality(inA \cap inB) = 0
  BY <1>2, FS_EmptySet
<1> QED BY <1>1, <1>2, <1>3, <1>6, <1>7, <1>8

\* Types.
Counts == [forwarded : Nat, accepted : Nat, rejected : Nat, dropped : Nat]
Verdicts == {"none", "accepted", "rejected", "dropped"}

TypeOK ==
    /\ tip \in Nat
    /\ queue \in Seq(Shares)
    /\ tipOf \in [Shares -> Int]
    /\ aged \subseteq Shares
    /\ call \in [Callers -> Seq(Shares)]
    /\ counts \in Counts
    /\ verdict \in [Shares -> Verdicts]

\* A share is in one place at a time: nowhere, once in the queue, or once in one call.
Apart ==
    /\ Distinct(queue)
    /\ \A c \in Callers : Distinct(call[c]) /\ ToSet(queue) \cap InCall(c) = {}
    /\ \A c, d \in Callers : c # d => InCall(c) \cap InCall(d) = {}

\* Only shares handed over and not counted yet are held, only shares handed over are counted, and
\* only a block handed over has a call.
Books ==
    /\ \A s \in Held : tipOf[s] # -1 /\ verdict[s] = "none"
    /\ \A s \in Shares : verdict[s] # "none" => tipOf[s] # -1
    /\ \A s \in Solving : Busy(s) => tipOf[s] # -1

\* The inductive invariant.
IInv == TypeOK /\ Apart /\ Books /\ IsFiniteSet(Places) /\ CountsAddUp

\* Adding to the totals leaves them natural numbers.
LEMMA Counted ==
  ASSUME NEW old \in Counts, NEW n \in Nat, NEW m \in Nat
  PROVE  /\ [old EXCEPT !.forwarded = @ + 1] \in Counts
         /\ [old EXCEPT !.dropped = @ + n] \in Counts
         /\ [old EXCEPT !.forwarded = @ + 1, !.dropped = @ + n] \in Counts
         /\ [old EXCEPT !.accepted = @ + n, !.rejected = @ + m] \in Counts
<1> USE DEF Counts
<1>1. [old EXCEPT !.forwarded = @ + 1] \in Counts
  OBVIOUS
<1>2. \A r \in Counts : [r EXCEPT !.dropped = @ + n] \in Counts
  OBVIOUS
<1>3. [old EXCEPT !.accepted = @ + n] \in Counts
  OBVIOUS
<1>4. \A r \in Counts : [r EXCEPT !.rejected = @ + m] \in Counts
  OBVIOUS
<1>5. [old EXCEPT !.forwarded = @ + 1, !.dropped = @ + n] = [[old EXCEPT !.forwarded = @ + 1] EXCEPT !.dropped = @ + n]
  OBVIOUS
<1>6. [old EXCEPT !.accepted = @ + n, !.rejected = @ + m] = [[old EXCEPT !.accepted = @ + n] EXCEPT !.rejected = @ + m]
  OBVIOUS
<1>7. [old EXCEPT !.forwarded = @ + 1, !.dropped = @ + n] \in Counts
  BY <1>1, <1>2, <1>5
<1>8. [old EXCEPT !.accepted = @ + n, !.rejected = @ + m] \in Counts
  BY <1>3, <1>4, <1>6
<1> QED BY <1>1, <1>2, <1>7, <1>8

\* When the call of one caller changes, the number of shares on their way changes by its length.
LEMMA CallChanges ==
  ASSUME call \in [Callers -> Seq(Shares)], NEW c \in Callers, NEW seq \in Seq(Shares),
         call' = [call EXCEPT ![c] = seq], IsFiniteSet(Places)
  PROVE  /\ IsFiniteSet(Places')
         /\ Cardinality(Places') = Cardinality(Places) - Len(call[c]) + Len(seq)
         /\ Cardinality(Places') \in Nat /\ Cardinality(Places) \in Nat
<1> DEFINE rest == UNION {{d} \X DOMAIN call[d] : d \in Callers \ {c}}
           old == {c} \X DOMAIN call[c]
           new == {c} \X DOMAIN seq
<1>1. call'[c] = seq /\ \A d \in Callers \ {c} : call'[d] = call[d]
  OBVIOUS
<1>2. Places = rest \cup old
  BY DEF Places
<1>3. Places' = rest \cup new
  <2>1. \A p : p \in Places' <=> \E d \in Callers : p \in {d} \X DOMAIN call'[d]
    BY DEF Places
  <2>2. \A p : p \in rest <=> \E d \in Callers \ {c} : p \in {d} \X DOMAIN call[d]
    OBVIOUS
  <2>3. \A p : p \in Places' <=> p \in rest \/ p \in new
    BY <1>1, <2>1, <2>2
  <2> QED BY <2>3
<1>4. rest \cap old = {} /\ rest \cap new = {}
  <2>1. \A d \in Callers \ {c} : \A i, j : <<d, i>> # <<c, j>>
    OBVIOUS
  <2> QED BY <2>1
<1>5. /\ IsFiniteSet(old) /\ Cardinality(old) = Len(call[c])
      /\ IsFiniteSet(new) /\ Cardinality(new) = Len(seq)
      /\ Len(call[c]) \in Nat /\ Len(seq) \in Nat
  <2>1. call[c] \in Seq(Shares)
    OBVIOUS
  <2>2. ASSUME NEW s \in Seq(Shares)
        PROVE  IsFiniteSet({c} \X DOMAIN s) /\ Cardinality({c} \X DOMAIN s) = Len(s) /\ Len(s) \in Nat
    <3>1. IsFiniteSet(DOMAIN s) /\ Cardinality(DOMAIN s) = Len(s) /\ Len(s) \in Nat
      BY SeqFacts
    <3>2. IsFiniteSet({c}) /\ Cardinality({c}) = 1
      BY FS_Singleton
    <3> DEFINE one == {c}
               dom == DOMAIN s
    <3> HIDE DEF one, dom
    <3>3. IsFiniteSet(one) /\ Cardinality(one) = 1 /\ IsFiniteSet(dom) /\ Cardinality(dom) = Len(s)
      BY <3>1, <3>2 DEF one, dom
    <3>4. IsFiniteSet(one \X dom) /\ Cardinality(one \X dom) = Cardinality(one) * Cardinality(dom)
      BY <3>3, FS_Product
    <3>5. IsFiniteSet(one \X dom) /\ Cardinality(one \X dom) = Len(s) /\ Len(s) \in Nat
      BY <3>1, <3>3, <3>4
    <3> QED BY <3>5 DEF one, dom
  <2> QED BY <2>1, <2>2
<1> HIDE DEF rest, old, new
<1>6. IsFiniteSet(rest)
  <2>1. IsFiniteSet(rest \cup old)
    BY <1>2
  <2>2. rest \subseteq rest \cup old
    OBVIOUS
  <2> QED BY <2>1, <2>2, FS_Subset
<1>7. /\ Cardinality(rest \cup old) = Cardinality(rest) + Len(call[c])
      /\ IsFiniteSet(rest \cup new) /\ Cardinality(rest \cup new) = Cardinality(rest) + Len(seq)
      /\ Cardinality(rest) \in Nat
  <2>1. /\ Cardinality(rest \cup old) = Cardinality(rest) + Cardinality(old) - Cardinality(rest \cap old)
        /\ IsFiniteSet(rest \cup new)
        /\ Cardinality(rest \cup new) = Cardinality(rest) + Cardinality(new) - Cardinality(rest \cap new)
    BY <1>5, <1>6, FS_Union
  <2>2. Cardinality(rest \cap old) = 0 /\ Cardinality(rest \cap new) = 0
    BY <1>4, FS_EmptySet
  <2>3. Cardinality(rest) \in Nat
    BY <1>6, FS_CardinalityType
  <2> QED BY <1>5, <2>1, <2>2, <2>3
<1>8. /\ IsFiniteSet(Places')
      /\ Cardinality(Places') = Cardinality(Places) - Len(call[c]) + Len(seq)
      /\ Cardinality(Places') \in Nat /\ Cardinality(Places) \in Nat
  <2>1. /\ IsFiniteSet(Places')
        /\ Cardinality(Places') = Cardinality(rest) + Len(seq)
        /\ Cardinality(Places) = Cardinality(rest) + Len(call[c])
    BY <1>2, <1>3, <1>7
  <2> QED BY <2>1, <1>5, <1>7
<1> QED BY <1>8

\* What each step of the gateway does to the shares: new is handed over, some held ones are settled.
SettlesOnly(new) ==
    /\ \A s \in new : tipOf[s] = -1 /\ tipOf'[s] # -1
    /\ \A s \in Shares \ new : tipOf'[s] = tipOf[s]
    /\ \A s, r \in new : s = r
    /\ Held' \subseteq Held \cup new
    /\ \A s \in Held \ Held' : verdict'[s] \in {"accepted", "rejected", "dropped"}
    /\ \A s \in Shares : s \notin Held \/ s \in Held' => verdict'[s] = verdict[s]

\* Only shares are held.
LEMMA HeldIsShares ==
  ASSUME TypeOK
  PROVE  Held \subseteq Shares
<1>1. ToSet(queue) \subseteq Shares
  BY SeqFacts DEF TypeOK
<1>2. ASSUME NEW c \in Callers PROVE ToSet(call[c]) \subseteq Shares
  <2>1. call[c] \in Seq(Shares)
    BY DEF TypeOK
  <2> QED BY <2>1, SeqFacts
<1> QED BY <1>1, <1>2 DEF Held, InCall

\* A step that hands over at most one share, lets go of shares only by counting them, and counts no
\* other, is a step of ShareLedger and keeps the books.
LEMMA StepKeeps ==
  ASSUME IInv, TypeOK', NEW new \in SUBSET Shares, SettlesOnly(new)
  PROVE  /\ Ledger!Next
         /\ \A s \in Held' : tipOf'[s] # -1 /\ verdict'[s] = "none"
         /\ \A s \in Shares : verdict'[s] # "none" => tipOf'[s] # -1
<1> USE DEF IInv, Books, SettlesOnly
<1>1. Held \subseteq Shares /\ Held' \subseteq Shares
  <2>1. Held \subseteq Shares
    BY HeldIsShares
  <2> QED BY <2>1
<1>2. /\ verdict \in [Shares -> Verdicts] /\ verdict' \in [Shares -> Verdicts]
  BY DEF TypeOK
<1>3. \A s \in new : s \notin Held /\ verdict[s] = "none" /\ verdict'[s] = "none"
  OBVIOUS
<1>4. \A s \in Held' : tipOf'[s] # -1 /\ verdict'[s] = "none"
  BY <1>1, <1>3
<1>5. \A s \in Shares : verdict'[s] # "none" => tipOf'[s] # -1
  BY <1>3
<1>6. \A s \in Shares : StateOf(s) \in Ledger!States /\ StateOf(s)' \in Ledger!States
  BY <1>2 DEF StateOf, Verdicts, Ledger!States, Ledger!Settled
<1>7. ASSUME NEW s \in Shares, StateOf(s)' # StateOf(s)
      PROVE  Ledger!Moves(StateOf(s), StateOf(s)') /\ (StateOf(s) = "new" => s \in new)
  BY <1>1, <1>2, <1>3, <1>7 DEF StateOf, Verdicts, Ledger!Moves, Ledger!Settled
<1>8. Ledger!Next
  <2>1. [s \in Shares |-> StateOf(s)]' = [s \in Shares |-> StateOf(s)']
    OBVIOUS
  <2>2. [s \in Shares |-> StateOf(s)'] \in [Shares -> Ledger!States]
    BY <1>6
  <2>3. \A s, r \in Shares : StateOf(s)' # StateOf(s) /\ StateOf(r)' # StateOf(r) /\ s # r
                                 => StateOf(s) # "new" \/ StateOf(r) # "new"
    BY <1>7
  <2> QED BY <1>7, <2>1, <2>2, <2>3 DEF Ledger!Next
<1> QED BY <1>4, <1>5, <1>8

\* A sequence of one share.
LEMMA One ==
  ASSUME NEW S, NEW s \in S
  PROVE  /\ <<s>> \in Seq(S) /\ Len(<<s>>) = 1 /\ ToSet(<<s>>) = {s} /\ Distinct(<<s>>)
  BY DEF ToSet, Distinct

\* Appending and taking the tail, in terms of the operators above.
LEMMA AppendTail ==
  ASSUME NEW S, NEW seq \in Seq(S), NEW s \in S
  PROVE  /\ Append(seq, s) = seq \o <<s>>
         /\ seq # <<>> => Tail(seq) = AfterN(seq, 1)
<1>1. Append(seq, s) = seq \o <<s>>
  OBVIOUS
<1>2. seq # <<>> => Tail(seq) = AfterN(seq, 1)
  BY DEF AfterN
<1> QED BY <1>1, <1>2

\* Forward adds its share and drops at most the oldest (gateway.go:710-714).
LEMMA ForwardKeeps ==
  ASSUME IInv, NEW s \in Shares, Forward(s)
  PROVE  IInv' /\ Ledger!Next
<1> DEFINE over == IF Len(queue) >= MaxQueue THEN 1 ELSE 0
           kept == AfterN(queue, over)
           cut  == FirstN(queue, over)
<1>1. queue \in Seq(Shares) /\ Len(queue) \in Nat /\ over \in Nat /\ MaxQueue \in Nat \ {0}
  BY LimitsAssumption, SeqFacts DEF IInv, TypeOK
<1>2. /\ queue' = kept \o <<s>>
      /\ verdict' = [r \in Shares |-> IF r \in ToSet(cut) THEN "dropped" ELSE verdict[r]]
      /\ counts' \in Counts
      /\ counts'.forwarded = counts.forwarded + 1 /\ counts'.accepted = counts.accepted
      /\ counts'.rejected = counts.rejected /\ counts'.dropped = counts.dropped + over
  <2>0. counts \in Counts
    BY DEF IInv, TypeOK
  <2>1. CASE Len(queue) >= MaxQueue
    <3>1. queue # <<>>
      BY <2>1, <1>1, SeqFacts
    <3>2. Tail(queue) = AfterN(queue, 1) /\ AfterN(queue, 1) \in Seq(Shares)
      BY <3>1, <1>1, AppendTail, FirstAfter
    <3>3. /\ queue' = Append(Tail(queue), s)
          /\ verdict' = [r \in Shares |-> IF r \in ToSet(FirstN(queue, 1)) THEN "dropped" ELSE verdict[r]]
          /\ counts' = [counts EXCEPT !.forwarded = @ + 1, !.dropped = @ + 1]
      BY <2>1 DEF Forward, Count
    <3>4. over = 1 /\ queue' = AfterN(queue, 1) \o <<s>>
      BY <2>1, <3>2, <3>3, AppendTail
    <3>5. counts' \in Counts
          /\ counts'.forwarded = counts.forwarded + 1 /\ counts'.accepted = counts.accepted
          /\ counts'.rejected = counts.rejected /\ counts'.dropped = counts.dropped + 1
      <4>1. counts' = [counts EXCEPT !.forwarded = @ + 1, !.dropped = @ + 1]
        BY <3>3
      <4>2. counts' \in Counts
        BY <2>0, <4>1, Counted
      <4> QED BY <2>0, <4>1, <4>2 DEF Counts
    <3> QED BY <3>3, <3>4, <3>5
  <2>2. CASE ~(Len(queue) >= MaxQueue)
    <3>1. AfterN(queue, 0) = queue /\ FirstN(queue, 0) = <<>>
      <4>1. FirstN(queue, 0) \in Seq(Shares) /\ Len(FirstN(queue, 0)) = 0
        BY <1>1, FirstAfter
      <4> QED BY <1>1, <4>1 DEF AfterN
    <3>2. ToSet(<<>>) = {}
      BY DEF ToSet
    <3>3. verdict' = verdict /\ queue' = Append(queue, s)
          /\ counts' = [counts EXCEPT !.forwarded = @ + 1]
      BY <2>2 DEF Forward
    <3>5. counts' \in Counts
      BY <2>0, <3>3, Counted
    <3>4. verdict' = [r \in Shares |-> IF r \in ToSet(<<>>) THEN "dropped" ELSE verdict[r]]
      BY <3>2, <3>3 DEF IInv, TypeOK
    <3> QED BY <2>2, <3>1, <3>2, <3>3, <3>4, <3>5, <2>0, <1>1, AppendTail DEF Counts
  <2> QED BY <2>1, <2>2
<1>3. over <= Len(queue)
  BY <1>1
<1> HIDE DEF over
<1>4. /\ kept \in Seq(Shares) /\ cut \in Seq(Shares)
      /\ Len(kept) = Len(queue) - over
      /\ ToSet(cut) \cup ToSet(kept) = ToSet(queue)
      /\ Distinct(kept) /\ ToSet(cut) \cap ToSet(kept) = {}
  BY <1>1, <1>3, FirstAfter DEF IInv, Apart
<1> HIDE DEF kept, cut
<1>5. /\ s \notin Held /\ tipOf[s] = -1 /\ s \notin Solving
      /\ call' = call /\ tip' = tip /\ aged' = aged
      /\ \E t \in 0..tip : tipOf' = [tipOf EXCEPT ![s] = t]
  BY DEF Forward, JobTips, IInv, Books
<1>6. s \notin ToSet(kept)
  BY <1>4, <1>5 DEF Held
<1>7. /\ queue' \in Seq(Shares) /\ Len(queue') = Len(kept) + 1
      /\ ToSet(queue') = ToSet(kept) \cup {s} /\ Distinct(queue')
  <2>1. <<s>> \in Seq(Shares) /\ Len(<<s>>) = 1 /\ ToSet(<<s>>) = {s} /\ Distinct(<<s>>)
    BY One
  <2>2. ToSet(kept) \cap ToSet(<<s>>) = {}
    BY <1>6, <2>1
  <2>3. /\ kept \o <<s>> \in Seq(Shares) /\ Len(kept \o <<s>>) = Len(kept) + Len(<<s>>)
        /\ ToSet(kept \o <<s>>) = ToSet(kept) \cup ToSet(<<s>>) /\ Distinct(kept \o <<s>>)
    <3> DEFINE one == <<s>>
    <3>1. kept \in Seq(Shares) /\ Distinct(kept)
      BY <1>4
    <3>2. one \in Seq(Shares) /\ Distinct(one) /\ ToSet(kept) \cap ToSet(one) = {}
      BY <2>1, <2>2
    <3> HIDE DEF one
    <3>3. /\ kept \o one \in Seq(Shares) /\ Len(kept \o one) = Len(kept) + Len(one)
          /\ ToSet(kept \o one) = ToSet(kept) \cup ToSet(one) /\ Distinct(kept \o one)
      BY <3>1, <3>2, Joined
    <3> QED BY <3>3 DEF one
  <2> QED BY <1>2, <2>1, <2>3
<1>8. TypeOK'
  <2>1. tipOf' \in [Shares -> Int]
    BY <1>5 DEF IInv, TypeOK
  <2>2. counts' \in Counts
    BY <1>2
  <2>3. verdict' \in [Shares -> Verdicts]
    BY <1>2 DEF IInv, TypeOK, Verdicts
  <2> QED BY <1>5, <1>7, <2>1, <2>2, <2>3 DEF IInv, TypeOK
<1>9. Apart'
  <2>1. \A c \in Callers : call'[c] = call[c] /\ InCall(c)' = InCall(c)
    BY <1>5 DEF InCall
  <2>2. \A c \in Callers : Distinct(call[c]) /\ ToSet(queue) \cap InCall(c) = {} /\ s \notin InCall(c)
    BY <1>5 DEF IInv, Apart, Held
  <2>3. \A c \in Callers : Distinct(call[c])' /\ ToSet(queue') \cap InCall(c)' = {}
    BY <2>1, <2>2, <1>4, <1>7 DEF Distinct
  <2>4. \A c, d \in Callers : c # d => InCall(c)' \cap InCall(d)' = {}
    BY <2>1 DEF IInv, Apart
  <2> QED BY <1>7, <2>3, <2>4 DEF Apart, Distinct
<1>10. SettlesOnly({s})
  <2>1. \A r \in Held \ Held' : r \in ToSet(cut)
    BY <1>4, <1>5, <1>7 DEF Held, InCall
  <2>2. \A r \in ToSet(cut) : r \in Held /\ r \notin Held'
    BY <1>4, <1>5, <1>7 DEF Held, InCall, IInv, Apart
  <2>3. Held' \subseteq Held \cup {s}
    BY <1>4, <1>5, <1>7 DEF Held, InCall
  <2>4. \A r \in Shares \ {s} : tipOf'[r] = tipOf[r]
    BY <1>5 DEF IInv, TypeOK
  <2>5. tipOf[s] = -1 /\ tipOf'[s] # -1
    BY <1>5 DEF IInv, TypeOK
  <2>6. Held \subseteq Shares
    BY HeldIsShares DEF IInv
  <2>7. \A r \in Shares : verdict'[r] = IF r \in ToSet(cut) THEN "dropped" ELSE verdict[r]
    BY <1>2
  <2> QED BY <2>1, <2>2, <2>3, <2>4, <2>5, <2>6, <2>7 DEF SettlesOnly
<1>11. /\ Ledger!Next
       /\ \A r \in Held' : tipOf'[r] # -1 /\ verdict'[r] = "none"
       /\ \A r \in Shares : verdict'[r] # "none" => tipOf'[r] # -1
  BY <1>8, <1>10, StepKeeps
<1>12. \A r \in Solving : Busy(r)' => tipOf'[r] # -1
  BY <1>5, SharesAssumption DEF Busy, IInv, Books, TypeOK
<1>13. Places' = Places /\ IsFiniteSet(Places)
  BY <1>5 DEF Places, IInv
<1>14. CountsAddUp'
  <2>1. Cardinality(Places) \in Nat /\ Cardinality(Places)' = Cardinality(Places)
    BY <1>13, FS_CardinalityType
  <2>2. InHand \in Nat /\ InHand' = InHand + 1 - over
    BY <2>1, <1>1, <1>4, <1>7 DEF InHand
  <2>3. counts \in Counts /\ counts.forwarded = counts.accepted + counts.rejected + counts.dropped + InHand
    BY DEF IInv, TypeOK, CountsAddUp
  <2> QED BY <2>2, <2>3, <1>1, <1>2 DEF CountsAddUp, Counts
<1> QED BY <1>8, <1>9, <1>11, <1>12, <1>13, <1>14 DEF IInv, Books

\* A step that moves shares between the queue and one caller's call keeps each share in one place; what
\* it lets go of was in the queue or in that call.
LEMMA Moved ==
  ASSUME IInv, NEW c \in Callers, NEW seq \in Seq(Shares), Distinct(seq),
         call' = [call EXCEPT ![c] = seq],
         queue' \in Seq(Shares), Distinct(queue'), ToSet(queue') \cap ToSet(seq) = {},
         NEW new \in SUBSET Shares, new \cap Held = {},
         ToSet(queue') \cup ToSet(seq) \subseteq ToSet(queue) \cup InCall(c) \cup new
  PROVE  /\ Apart' /\ IsFiniteSet(Places')
         /\ call' \in [Callers -> Seq(Shares)]
         /\ InHand \in Nat
         /\ InHand' = InHand - (Len(queue) + Len(call[c])) + Len(queue') + Len(seq)
         /\ Held' \subseteq Held \cup new
         /\ \A s \in Held : s \in Held' \/ s \in ToSet(queue) \cup InCall(c)
         /\ \A s \in ToSet(queue) \cup InCall(c) : s \in Held' <=> s \in ToSet(queue') \cup ToSet(seq)
<1>0. call \in [Callers -> Seq(Shares)] /\ queue \in Seq(Shares)
  BY DEF IInv, TypeOK
<1>1. /\ call' \in [Callers -> Seq(Shares)]
      /\ call'[c] = seq /\ InCall(c)' = ToSet(seq)
      /\ \A d \in Callers : d # c => call'[d] = call[d] /\ InCall(d)' = InCall(d)
  BY <1>0 DEF InCall
<1>2. /\ \A d \in Callers : Distinct(call[d]) /\ ToSet(queue) \cap InCall(d) = {} /\ InCall(d) \cap new = {}
      /\ ToSet(queue) \cap new = {}
      /\ \A d, e \in Callers : d # e => InCall(d) \cap InCall(e) = {}
  BY DEF IInv, Apart, Held
<1>3. \A d \in Callers : d # c => /\ InCall(d)' \cap ToSet(queue') = {}
                                  /\ InCall(d)' \cap ToSet(seq) = {}
  BY <1>1, <1>2
<1>4. Apart'
  <2>1. Distinct(queue)'
    BY DEF Distinct
  <2>2. ASSUME NEW d \in Callers PROVE Distinct(call[d])'
    <3>1. d = c => call'[d] = seq
      BY <1>1
    <3>2. d # c => call'[d] = call[d] /\ Distinct(call[d])
      BY <1>1, <1>2
    <3> QED BY <3>1, <3>2 DEF Distinct
  <2>3. \A d \in Callers : (ToSet(queue) \cap InCall(d) = {})'
    BY <1>1, <1>3
  <2>4. \A d, e \in Callers : d # e => (InCall(d) \cap InCall(e) = {})'
    BY <1>1, <1>2, <1>3
  <2> QED BY <2>1, <2>2, <2>3, <2>4 DEF Apart
<1>5. \A s : s \in Held <=> s \in ToSet(queue) \/ \E d \in Callers : s \in InCall(d)
  BY DEF Held
<1>6. \A s : s \in Held' <=> s \in ToSet(queue') \/ \E d \in Callers : s \in InCall(d)'
  BY DEF Held
<1>7. Held' \subseteq Held \cup new
  BY <1>1, <1>5, <1>6
<1>8. \A s \in Held : s \in Held' \/ s \in ToSet(queue) \cup InCall(c)
  BY <1>1, <1>5, <1>6
<1>9. ASSUME NEW s \in ToSet(queue) \cup InCall(c)
      PROVE  s \in Held' <=> s \in ToSet(queue') \cup ToSet(seq)
  <2>1. \A d \in Callers : d # c => s \notin InCall(d)'
    BY <1>1, <1>2
  <2> QED BY <1>1, <1>6, <2>1
<1>10. /\ IsFiniteSet(Places') /\ Cardinality(Places)' = Cardinality(Places) - Len(call[c]) + Len(seq)
       /\ Cardinality(Places) \in Nat
  <2>1. IsFiniteSet(Places)
    BY DEF IInv
  <2> QED BY <1>0, <2>1, CallChanges
<1>11. Len(queue) \in Nat /\ Len(queue') \in Nat /\ Len(seq) \in Nat /\ Len(call[c]) \in Nat
  BY <1>0
<1>12. InHand \in Nat /\ InHand' = InHand - (Len(queue) + Len(call[c])) + Len(queue') + Len(seq)
  BY <1>10, <1>11 DEF InHand
<1> QED BY <1>1, <1>4, <1>7, <1>8, <1>9, <1>10, <1>12

\* SendBlock takes the shares it sends along out of the queue, every one of them.
LEMMA SendBlockKeeps ==
  ASSUME IInv, NEW s \in Shares, SendBlock(s)
  PROVE  IInv' /\ Ledger!Next
<1>0. PICK t \in JobTips :
      LET with == FirstN(Only(queue, {q \in Shares : tipOf[q] = t}), MaxBatch - 1)
      IN  /\ tipOf' = [tipOf EXCEPT ![s] = t]
          /\ call' = [call EXCEPT ![s] = <<s>> \o with]
          /\ queue' = Only(queue, Shares \ ToSet(with))
  BY DEF SendBlock
<1> DEFINE on   == Only(queue, {q \in Shares : tipOf[q] = t})
           with == FirstN(on, MaxBatch - 1)
           sent == <<s>> \o with
<1>1. /\ queue \in Seq(Shares) /\ Distinct(queue) /\ Len(queue) \in Nat
      /\ MaxBatch - 1 \in Nat /\ s \in Solving /\ s \in Callers /\ tip \in Nat
  BY LimitsAssumption, SeqFacts DEF IInv, TypeOK, Apart, SendBlock, Callers
<1>2. on \in Seq(Shares) /\ Distinct(on) /\ ToSet(on) \subseteq ToSet(queue)
  <2>1. /\ on \in Seq(Shares) /\ Distinct(on)
        /\ ToSet(on) = ToSet(queue) \cap {q \in Shares : tipOf[q] = t}
    BY <1>1, OnlyFacts
  <2> QED BY <2>1
<1> HIDE DEF on
<1>3. /\ with \in Seq(Shares) /\ Distinct(with) /\ ToSet(with) \subseteq ToSet(queue)
  BY <1>1, <1>2, FirstAfter
<1>4. /\ queue' = Only(queue, Shares \ ToSet(with))
      /\ call' = [call EXCEPT ![s] = sent]
      /\ tipOf' = [tipOf EXCEPT ![s] = t]
      /\ tipOf[s] = -1 /\ tip' = tip /\ aged' = aged /\ verdict' = verdict
      /\ counts' = [counts EXCEPT !.forwarded = @ + 1]
  BY <1>0 DEF SendBlock, on
<1> HIDE DEF with
<1>5. /\ queue' \in Seq(Shares) /\ Distinct(queue')
      /\ ToSet(queue') = ToSet(queue) \ ToSet(with)
  <2> DEFINE rest == Only(queue, Shares \ ToSet(with))
  <2>1. /\ rest \in Seq(Shares) /\ Distinct(rest)
        /\ ToSet(rest) = ToSet(queue) \cap (Shares \ ToSet(with))
    BY <1>1, OnlyFacts
  <2>3. queue' = rest
    BY <1>4
  <2> HIDE DEF rest
  <2>2. ToSet(queue) \subseteq Shares
    BY <1>1, SeqFacts
  <2>4. Distinct(queue') <=> Distinct(rest)
    BY <2>3 DEF Distinct
  <2> QED BY <2>1, <2>2, <2>3, <2>4
<1>6. s \notin Held /\ s \notin ToSet(queue) /\ call[s] = <<>>
  BY <1>1, <1>4 DEF Held, IInv, Books, Busy
<1>7. /\ sent \in Seq(Shares) /\ Distinct(sent) /\ ToSet(sent) = {s} \cup ToSet(with)
      /\ Len(sent) = 1 + Len(with)
  <2> DEFINE one == <<s>>
  <2>1. one \in Seq(Shares) /\ Distinct(one) /\ ToSet(one) = {s} /\ Len(one) = 1
    BY One
  <2>2. ToSet(one) \cap ToSet(with) = {}
    BY <1>3, <1>6, <2>1
  <2> HIDE DEF one
  <2>3. /\ one \o with \in Seq(Shares) /\ Distinct(one \o with)
        /\ ToSet(one \o with) = ToSet(one) \cup ToSet(with) /\ Len(one \o with) = Len(one) + Len(with)
    <3>1. with \in Seq(Shares) /\ Distinct(with) /\ one \in Seq(Shares) /\ Distinct(one)
      BY <1>3, <2>1
    <3> QED BY <3>1, <2>2, Joined
  <2> QED BY <2>1, <2>3 DEF one
<1>8. Len(queue') + Len(with) = Len(queue) /\ Len(queue') \in Nat /\ Len(with) \in Nat
  <2>1. /\ IsFiniteSet(ToSet(queue)) /\ Cardinality(ToSet(queue)) = Len(queue)
        /\ Cardinality(ToSet(with)) = Len(with) /\ Cardinality(ToSet(queue')) = Len(queue')
    BY <1>1, <1>3, <1>5, DistinctLen
  <2>2. Cardinality(ToSet(queue) \ ToSet(with)) = Cardinality(ToSet(queue)) - Cardinality(ToSet(queue) \cap ToSet(with))
    BY <2>1, FS_Difference
  <2>3. ToSet(queue) \cap ToSet(with) = ToSet(with)
    BY <1>3
  <2>4. Len(queue') \in Nat /\ Len(with) \in Nat
    BY <1>3, <1>5
  <2>5. Cardinality(ToSet(queue')) = Cardinality(ToSet(queue)) - Cardinality(ToSet(with))
    BY <1>5, <2>2, <2>3
  <2> QED BY <1>1, <2>1, <2>4, <2>5
<1> HIDE DEF sent
<1>9. /\ Apart' /\ IsFiniteSet(Places') /\ InHand \in Nat
      /\ call' \in [Callers -> Seq(Shares)]
      /\ InHand' = InHand - (Len(queue) + Len(call[s])) + Len(queue') + Len(sent)
      /\ Held' \subseteq Held \cup {s}
      /\ \A r \in Held : r \in Held' \/ r \in ToSet(queue) \cup InCall(s)
      /\ \A r \in ToSet(queue) \cup InCall(s) : r \in Held' <=> r \in ToSet(queue') \cup ToSet(sent)
  <2>1. ToSet(queue') \cap ToSet(sent) = {} /\ {s} \cap Held = {} /\ {s} \in SUBSET Shares
    BY <1>5, <1>6, <1>7
  <2>2. ToSet(queue') \cup ToSet(sent) \subseteq ToSet(queue) \cup InCall(s) \cup {s}
    BY <1>3, <1>5, <1>7
  <2> QED BY <1>1, <1>4, <1>5, <1>7, <2>1, <2>2, Moved
<1>10. InCall(s) = {}
  BY <1>6 DEF InCall, ToSet
<1>11. t \in Int /\ t # -1
  BY <1>1 DEF JobTips
<1>12. TypeOK'
  <2>1. tipOf' \in [Shares -> Int]
    BY <1>4, <1>11 DEF IInv, TypeOK
  <2>2. counts' \in Counts
    BY <1>4, Counted DEF IInv, TypeOK
  <2> QED BY <1>4, <1>5, <1>9, <2>1, <2>2 DEF IInv, TypeOK
<1>13. SettlesOnly({s})
  <2>1. \A r \in Held : r \in Held'
    BY <1>5, <1>7, <1>9, <1>10
  <2>2. tipOf[s] = -1 /\ tipOf'[s] # -1 /\ \A r \in Shares \ {s} : tipOf'[r] = tipOf[r]
    BY <1>4, <1>11 DEF IInv, TypeOK
  <2> QED BY <1>4, <1>9, <2>1, <2>2 DEF SettlesOnly
<1>14. /\ Ledger!Next
       /\ \A r \in Held' : tipOf'[r] # -1 /\ verdict'[r] = "none"
       /\ \A r \in Shares : verdict'[r] # "none" => tipOf'[r] # -1
  BY <1>12, <1>13, StepKeeps
<1>15. \A r \in Solving : Busy(r)' => tipOf'[r] # -1
  BY <1>1, <1>4, <1>11, SharesAssumption DEF Busy, IInv, Books, TypeOK, Callers
<1>16. CountsAddUp'
  <2>1. InHand' = InHand + 1
    <3>1. Len(call[s]) = 0
      BY <1>6
    <3>2. InHand' = InHand - (Len(queue) + 0) + Len(queue') + (1 + Len(with)) /\ InHand \in Nat
      BY <3>1, <1>7, <1>9
    <3> QED BY <3>2, <1>1, <1>8
  <2>2. counts \in Counts /\ counts.forwarded = counts.accepted + counts.rejected + counts.dropped + InHand
    BY DEF IInv, TypeOK, CountsAddUp
  <2> QED BY <1>4, <1>9, <2>1, <2>2 DEF CountsAddUp, Counts
<1> QED BY <1>9, <1>12, <1>14, <1>15, <1>16 DEF IInv, Books

\* Flush sends the first fresh shares, keeps the other fresh ones and counts the stale ones as dropped.
LEMMA FlushKeeps ==
  ASSUME IInv, Flush
  PROVE  IInv' /\ Ledger!Next
<1> DEFINE isFresh == {s \in Shares : ~Stale(s)}
           isStale == {s \in Shares : Stale(s)}
           fresh == Only(queue, isFresh)
           stale == Only(queue, isStale)
           sent  == FirstN(fresh, MaxBatch)
           left  == AfterN(fresh, MaxBatch)
<1>1. /\ queue \in Seq(Shares) /\ Distinct(queue) /\ Len(queue) \in Nat
      /\ MaxBatch \in Nat /\ "Flush" \in Callers /\ call["Flush"] = <<>>
  BY LimitsAssumption, SeqFacts DEF IInv, TypeOK, Apart, Flush, Callers, Busy
<1>2. /\ call' = [call EXCEPT !["Flush"] = sent] /\ queue' = left
      /\ counts' = [counts EXCEPT !.dropped = @ + Len(stale)]
      /\ verdict' = [s \in Shares |-> IF s \in ToSet(stale) THEN "dropped" ELSE verdict[s]]
      /\ tip' = tip /\ tipOf' = tipOf /\ aged' = aged
  BY DEF Flush, Count
<1>3. Shares \subseteq isFresh \cup isStale /\ isFresh \cap isStale = {}
  OBVIOUS
<1> HIDE DEF isFresh, isStale
<1>4. /\ fresh \in Seq(Shares) /\ ToSet(fresh) = ToSet(queue) \cap isFresh /\ Distinct(fresh)
      /\ stale \in Seq(Shares) /\ ToSet(stale) = ToSet(queue) \cap isStale
  BY <1>1, OnlyFacts
<1>5. Len(fresh) + Len(stale) = Len(queue)
  BY <1>1, <1>3, OnlySplits
<1>6. ToSet(queue) \subseteq Shares
  BY <1>1, SeqFacts
<1> HIDE DEF fresh, stale
<1>7. /\ sent \in Seq(Shares) /\ left \in Seq(Shares)
      /\ Len(sent) + Len(left) = Len(fresh)
      /\ ToSet(sent) \cup ToSet(left) = ToSet(fresh)
      /\ Distinct(sent) /\ Distinct(left) /\ ToSet(sent) \cap ToSet(left) = {}
  BY <1>1, <1>4, FirstAfter
<1>8. Len(sent) \in Nat /\ Len(left) \in Nat /\ Len(fresh) \in Nat /\ Len(stale) \in Nat
  BY <1>4, <1>7
<1> HIDE DEF sent, left
<1>9. /\ Apart' /\ IsFiniteSet(Places') /\ InHand \in Nat
      /\ call' \in [Callers -> Seq(Shares)]
      /\ InHand' = InHand - (Len(queue) + Len(call["Flush"])) + Len(queue') + Len(sent)
      /\ Held' \subseteq Held \cup {}
      /\ \A r \in Held : r \in Held' \/ r \in ToSet(queue) \cup InCall("Flush")
      /\ \A r \in ToSet(queue) \cup InCall("Flush") : r \in Held' <=> r \in ToSet(queue') \cup ToSet(sent)
  <2>1. /\ ToSet(queue') \cap ToSet(sent) = {} /\ {} \in SUBSET Shares /\ {} \cap Held = {}
        /\ queue' \in Seq(Shares) /\ Distinct(queue')
    BY <1>2, <1>7 DEF Distinct
  <2>2. ToSet(queue') \cup ToSet(sent) \subseteq ToSet(queue) \cup InCall("Flush") \cup {}
    BY <1>2, <1>4, <1>7
  <2> QED BY <1>1, <1>2, <1>7, <2>1, <2>2, Moved
<1>10. InCall("Flush") = {}
  BY <1>1 DEF InCall, ToSet
<1>11. TypeOK'
  <2>1. counts' \in Counts
    BY <1>2, <1>8, Counted DEF IInv, TypeOK
  <2>2. verdict' \in [Shares -> Verdicts]
    BY <1>2 DEF IInv, TypeOK, Verdicts
  <2> QED BY <1>2, <1>7, <1>9, <2>1, <2>2 DEF IInv, TypeOK
<1>12. SettlesOnly({})
  <2>1. \A r \in Held : r \in Held' \/ r \in ToSet(stale)
    BY <1>2, <1>3, <1>4, <1>6, <1>7, <1>9, <1>10
  <2>2. \A r \in ToSet(stale) : r \in Held /\ r \notin Held'
    <3>1. \A r \in ToSet(stale) : r \in ToSet(queue) /\ r \notin ToSet(fresh)
      BY <1>3, <1>4
    <3> QED BY <3>1, <1>2, <1>7, <1>9 DEF Held
  <2>3. Held \subseteq Shares
    BY HeldIsShares DEF IInv
  <2>4. \A r \in Shares : verdict'[r] = IF r \in ToSet(stale) THEN "dropped" ELSE verdict[r]
    BY <1>2
  <2> QED BY <1>2, <1>9, <2>1, <2>2, <2>3, <2>4 DEF SettlesOnly
<1>13. /\ Ledger!Next
       /\ \A r \in Held' : tipOf'[r] # -1 /\ verdict'[r] = "none"
       /\ \A r \in Shares : verdict'[r] # "none" => tipOf'[r] # -1
  BY <1>11, <1>12, StepKeeps
<1>14. \A r \in Solving : Busy(r)' => tipOf'[r] # -1
  <2>1. \A r \in Solving : r # "Flush" /\ r \in Callers
    BY SharesAssumption DEF Callers
  <2>2. \A r \in Solving : call'[r] = call[r]
    BY <1>2, <2>1 DEF IInv, TypeOK
  <2> QED BY <1>2, <2>2 DEF Busy, IInv, Books
<1>15. CountsAddUp'
  <2>1. InHand' = InHand - Len(stale)
    <3>1. Len(call["Flush"]) = 0
      BY <1>1
    <3> QED BY <3>1, <1>1, <1>2, <1>5, <1>7, <1>8, <1>9
  <2>2. counts \in Counts /\ counts.forwarded = counts.accepted + counts.rejected + counts.dropped + InHand
    BY DEF IInv, TypeOK, CountsAddUp
  <2> QED BY <1>2, <1>8, <1>9, <2>1, <2>2 DEF CountsAddUp, Counts
<1> QED BY <1>9, <1>11, <1>13, <1>14, <1>15 DEF IInv, Books

\* A failed call puts all its shares back in front; the overflow of Flush is counted as dropped.
LEMMA FailsKeeps ==
  ASSUME IInv, NEW c \in Callers, Fails(c)
  PROVE  IInv' /\ Ledger!Next
<1> DEFINE mine == call[c]
           all  == mine \o queue
           over == IF c = "Flush" /\ Len(all) > MaxQueue THEN Len(all) - MaxQueue ELSE 0
           cut  == FirstN(all, over)
           kept == AfterN(all, over)
           none == <<>>
<1>1. /\ queue \in Seq(Shares) /\ Distinct(queue) /\ mine \in Seq(Shares) /\ Distinct(mine)
      /\ ToSet(mine) \cap ToSet(queue) = {} /\ MaxQueue \in Nat
  BY LimitsAssumption DEF IInv, TypeOK, Apart, InCall
<1>2. /\ call' = [call EXCEPT ![c] = none] /\ queue' = kept
      /\ counts' = [counts EXCEPT !.dropped = @ + over]
      /\ verdict' = [s \in Shares |-> IF s \in ToSet(cut) THEN "dropped" ELSE verdict[s]]
      /\ tip' = tip /\ tipOf' = tipOf /\ aged' = aged
  BY DEF Fails, Count
<1>3. none \in Seq(Shares) /\ Len(none) = 0 /\ ToSet(none) = {} /\ Distinct(none)
  BY DEF ToSet, Distinct
<1>4. InCall(c) = ToSet(mine) /\ Len(call[c]) = Len(mine)
  BY DEF InCall
<1> HIDE DEF none, mine
<1>5. /\ all \in Seq(Shares) /\ Distinct(all) /\ Len(all) = Len(mine) + Len(queue)
      /\ ToSet(all) = ToSet(mine) \cup ToSet(queue)
  BY <1>1, Joined
<1>6. Len(all) \in Nat /\ Len(mine) \in Nat /\ Len(queue) \in Nat
  BY <1>1, <1>5
<1> HIDE DEF all
<1>7. over \in Nat /\ over <= Len(all)
  BY <1>1, <1>6
<1> HIDE DEF over
<1>8. /\ kept \in Seq(Shares) /\ Len(kept) = Len(all) - over
      /\ ToSet(cut) \cup ToSet(kept) = ToSet(all)
      /\ Distinct(kept) /\ ToSet(cut) \cap ToSet(kept) = {}
  <2>1. /\ kept \in Seq(Shares) /\ Len(cut) + Len(kept) = Len(all)
        /\ Len(cut) = IF over <= Len(all) THEN over ELSE Len(all)
        /\ ToSet(cut) \cup ToSet(kept) = ToSet(all)
        /\ Distinct(kept) /\ ToSet(cut) \cap ToSet(kept) = {}
    BY <1>5, <1>7, FirstAfter
  <2>2. Len(kept) \in Nat
    BY <2>1
  <2> QED BY <1>6, <1>7, <2>1, <2>2
<1> HIDE DEF cut, kept
<1>9. /\ Apart' /\ IsFiniteSet(Places') /\ InHand \in Nat
      /\ call' \in [Callers -> Seq(Shares)]
      /\ InHand' = InHand - (Len(queue) + Len(call[c])) + Len(queue') + Len(none)
      /\ Held' \subseteq Held \cup {}
      /\ \A r \in Held : r \in Held' \/ r \in ToSet(queue) \cup InCall(c)
      /\ \A r \in ToSet(queue) \cup InCall(c) : r \in Held' <=> r \in ToSet(queue') \cup ToSet(none)
  <2>1. /\ ToSet(queue') \cap ToSet(none) = {} /\ {} \in SUBSET Shares /\ {} \cap Held = {}
        /\ queue' \in Seq(Shares) /\ Distinct(queue')
    BY <1>2, <1>3, <1>8 DEF Distinct
  <2>2. ToSet(queue') \cup ToSet(none) \subseteq ToSet(queue) \cup InCall(c) \cup {}
    BY <1>2, <1>3, <1>4, <1>5, <1>8
  <2> QED BY <1>2, <1>3, <2>1, <2>2, Moved
<1>10. TypeOK'
  <2>1. counts' \in Counts
    BY <1>2, <1>7, Counted DEF IInv, TypeOK
  <2>2. verdict' \in [Shares -> Verdicts]
    BY <1>2 DEF IInv, TypeOK, Verdicts
  <2> QED BY <1>2, <1>8, <1>9, <2>1, <2>2 DEF IInv, TypeOK
<1>11. SettlesOnly({})
  <2>1. \A r \in Held : r \in Held' \/ r \in ToSet(cut)
    BY <1>2, <1>4, <1>5, <1>8, <1>9
  <2>2. \A r \in ToSet(cut) : r \in Held /\ r \notin Held'
    <3>1. \A r \in ToSet(cut) : r \in ToSet(queue) \cup InCall(c) /\ r \notin ToSet(queue')
      BY <1>2, <1>4, <1>5, <1>8
    <3> QED BY <3>1, <1>3, <1>9 DEF Held
  <2>3. Held \subseteq Shares
    BY HeldIsShares DEF IInv
  <2>4. \A r \in Shares : verdict'[r] = IF r \in ToSet(cut) THEN "dropped" ELSE verdict[r]
    BY <1>2
  <2> QED BY <1>2, <1>9, <2>1, <2>2, <2>3, <2>4 DEF SettlesOnly
<1>12. /\ Ledger!Next
       /\ \A r \in Held' : tipOf'[r] # -1 /\ verdict'[r] = "none"
       /\ \A r \in Shares : verdict'[r] # "none" => tipOf'[r] # -1
  BY <1>10, <1>11, StepKeeps
<1>13. \A r \in Solving : Busy(r)' => tipOf'[r] # -1
  <2>1. \A r \in Solving : Busy(r)' => Busy(r)
    BY <1>2 DEF Busy, IInv, TypeOK, Callers, none
  <2> QED BY <1>2, <2>1 DEF IInv, Books
<1>14. CountsAddUp'
  <2>1. InHand' = InHand - over
    BY <1>2, <1>3, <1>4, <1>5, <1>6, <1>7, <1>8, <1>9
  <2>2. counts \in Counts /\ counts.forwarded = counts.accepted + counts.rejected + counts.dropped + InHand
    BY DEF IInv, TypeOK, CountsAddUp
  <2> QED BY <1>2, <1>7, <1>9, <2>1, <2>2 DEF CountsAddUp, Counts
<1> QED BY <1>9, <1>10, <1>12, <1>13, <1>14 DEF IInv, Books

\* An answer divides the shares of a call into those judged and those to send again, and counts each
\* judged one once.
LEMMA Judged ==
  ASSUME IInv, NEW c \in Callers, NEW answer \in Answers(c)
  PROVE  LET back == Resend(c, answer)
             done == {call[c][i] : i \in {j \in DOMAIN call[c] : answer[j] # "resend"}}
         IN  /\ back \in Seq(Shares) /\ Distinct(back)
             /\ ToSet(back) \cup done = InCall(c) /\ ToSet(back) \cap done = {}
             /\ Got(answer, "accepted") \in Nat /\ Got(answer, "rejected") \in Nat
             /\ Got(answer, "accepted") + Got(answer, "rejected") + Len(back) = Len(call[c])
<1> DEFINE mine == call[c]
           At(v) == {i \in DOMAIN mine : answer[i] = v}
           again == {mine[i] : i \in At("resend")}
           back  == Only(mine, again)
           done  == {mine[i] : i \in {j \in DOMAIN mine : answer[j] # "resend"}}
<1>1. mine \in Seq(Shares) /\ Distinct(mine)
  BY DEF IInv, TypeOK, Apart
<1>2. answer \in [DOMAIN mine -> {"accepted", "rejected", "resend"}] /\ DOMAIN answer = DOMAIN mine
  BY DEF Answers
<1>3. /\ back = Resend(c, answer) /\ InCall(c) = ToSet(mine)
      /\ Got(answer, "accepted") = Cardinality(At("accepted"))
      /\ Got(answer, "rejected") = Cardinality(At("rejected"))
  BY <1>2 DEF Resend, InCall, Got
<1> HIDE DEF mine
<1>4. /\ IsFiniteSet(DOMAIN mine) /\ Cardinality(DOMAIN mine) = Len(mine)
      /\ \A s : s \in ToSet(mine) <=> \E i \in DOMAIN mine : mine[i] = s
  BY <1>1, SeqFacts
<1>5. {i \in DOMAIN mine : mine[i] \in again} = At("resend")
  BY <1>1 DEF Distinct
<1>6. \A s : s \in again <=> \E i \in DOMAIN mine : mine[i] = s /\ answer[i] = "resend"
  OBVIOUS
<1>7. \A s : s \in done <=> \E i \in DOMAIN mine : mine[i] = s /\ answer[i] # "resend"
  OBVIOUS
<1>8. /\ back \in Seq(Shares) /\ Distinct(back) /\ ToSet(back) = ToSet(mine) \cap again
      /\ Len(back) = Cardinality({i \in DOMAIN mine : mine[i] \in again})
  <2> HIDE DEF again
  <2> QED BY <1>1, OnlyFacts
<1>9. Len(back) = Cardinality(At("resend"))
  BY <1>5, <1>8
<1> HIDE DEF back, again, done
<1>10. ToSet(back) \cup done = ToSet(mine)
  BY <1>4, <1>6, <1>7, <1>8
<1>11. ToSet(back) \cap done = {}
  BY <1>1, <1>6, <1>7, <1>8 DEF Distinct
<1>12. /\ At("accepted") \cup At("rejected") \cup At("resend") = DOMAIN mine
       /\ At("accepted") \cap At("rejected") = {}
       /\ (At("accepted") \cup At("rejected")) \cap At("resend") = {}
       /\ \A v : At(v) \subseteq DOMAIN mine
  BY <1>2
<1> HIDE DEF At
<1>13. \A v : IsFiniteSet(At(v)) /\ Cardinality(At(v)) \in Nat
  BY <1>4, <1>12, FS_Subset, FS_CardinalityType
<1>14. Cardinality(At("accepted")) + Cardinality(At("rejected")) + Cardinality(At("resend")) = Len(mine)
  <2> DEFINE a == At("accepted")
             r == At("rejected")
             b == At("resend")
  <2>0. IsFiniteSet(a) /\ IsFiniteSet(r) /\ IsFiniteSet(b) /\ a \cap r = {} /\ (a \cup r) \cap b = {}
        /\ Cardinality(a) \in Nat /\ Cardinality(r) \in Nat /\ Cardinality(b) \in Nat
        /\ (a \cup r) \cup b = DOMAIN mine
    BY <1>12, <1>13
  <2> HIDE DEF a, r, b
  <2>1. IsFiniteSet(a \cup r) /\ Cardinality(a \cup r) = Cardinality(a) + Cardinality(r) - Cardinality(a \cap r)
    BY <2>0, FS_Union
  <2>2. Cardinality((a \cup r) \cup b) = Cardinality(a \cup r) + Cardinality(b) - Cardinality((a \cup r) \cap b)
    BY <2>0, <2>1, FS_Union
  <2>3. Cardinality(a \cap r) = 0 /\ Cardinality((a \cup r) \cap b) = 0
    BY <2>0, FS_EmptySet
  <2>4. Cardinality(a) + Cardinality(r) + Cardinality(b) = Len(mine)
    BY <2>0, <2>1, <2>2, <2>3, <1>4
  <2> QED BY <2>4 DEF a, r, b
<1>15. Got(answer, "accepted") \in Nat /\ Got(answer, "rejected") \in Nat
  BY <1>3, <1>13
<1>16. Got(answer, "accepted") + Got(answer, "rejected") + Len(back) = Len(mine)
  BY <1>3, <1>9, <1>14
<1> QED BY <1>3, <1>8, <1>10, <1>11, <1>15, <1>16 DEF mine, done

\* An answer settles the shares it judges and puts the others back in front.
LEMMA ReturnsKeeps ==
  ASSUME IInv, NEW c \in Callers, Returns(c)
  PROVE  IInv' /\ Ledger!Next
<1>0. PICK answer \in Answers(c) : Tally(c, answer) /\ queue' = Resend(c, answer) \o queue
  BY DEF Returns
<1> DEFINE back == Resend(c, answer)
           done == {call[c][i] : i \in {j \in DOMAIN call[c] : answer[j] # "resend"}}
           none == <<>>
           yes  == Got(answer, "accepted")
           no   == Got(answer, "rejected")
<1>1. /\ back \in Seq(Shares) /\ Distinct(back)
      /\ ToSet(back) \cup done = InCall(c) /\ ToSet(back) \cap done = {}
      /\ yes \in Nat /\ no \in Nat /\ yes + no + Len(back) = Len(call[c])
  BY Judged
<1>2. /\ call' = [call EXCEPT ![c] = none] /\ queue' = back \o queue
      /\ counts' = [counts EXCEPT !.accepted = @ + yes, !.rejected = @ + no]
      /\ verdict' = [s \in Shares |->
             IF \E i \in DOMAIN answer : call[c][i] = s /\ answer[i] # "resend"
             THEN answer[CHOOSE i \in DOMAIN answer : call[c][i] = s] ELSE verdict[s]]
      /\ tip' = tip /\ tipOf' = tipOf /\ aged' = aged
  BY <1>0 DEF Returns, Tally
<1>3. none \in Seq(Shares) /\ Len(none) = 0 /\ ToSet(none) = {} /\ Distinct(none)
  BY DEF ToSet, Distinct
<1>4. /\ queue \in Seq(Shares) /\ Distinct(queue) /\ ToSet(queue) \cap InCall(c) = {}
      /\ call[c] \in Seq(Shares) /\ Distinct(call[c])
  BY DEF IInv, TypeOK, Apart
<1>5. \A s \in Shares : IF s \in done THEN verdict'[s] \in {"accepted", "rejected"} ELSE verdict'[s] = verdict[s]
  <2>1. answer \in [DOMAIN call[c] -> {"accepted", "rejected", "resend"}] /\ DOMAIN answer = DOMAIN call[c]
    BY DEF Answers
  <2>2. ASSUME NEW s \in Shares, s \in done PROVE verdict'[s] \in {"accepted", "rejected"}
    <3>1. PICK i \in DOMAIN answer : call[c][i] = s /\ answer[i] # "resend"
      BY <2>1, <2>2
    <3>2. (CHOOSE j \in DOMAIN answer : call[c][j] = s) = i
      BY <1>4, <2>1, <3>1 DEF Distinct
    <3>3. verdict'[s] = answer[i]
      BY <1>2, <3>1, <3>2
    <3> QED BY <2>1, <3>1, <3>3
  <2>3. ASSUME NEW s \in Shares, s \notin done PROVE verdict'[s] = verdict[s]
    BY <1>2, <2>1, <2>3
  <2> QED BY <2>2, <2>3
<1> HIDE DEF none, back, done, yes, no
<1>6. /\ queue' \in Seq(Shares) /\ Len(queue') = Len(back) + Len(queue)
      /\ ToSet(queue') = ToSet(back) \cup ToSet(queue) /\ Distinct(queue')
  <2>1. ToSet(back) \cap ToSet(queue) = {}
    BY <1>1, <1>4
  <2> DEFINE all == back \o queue
  <2>2. /\ all \in Seq(Shares) /\ Len(all) = Len(back) + Len(queue)
        /\ ToSet(all) = ToSet(back) \cup ToSet(queue) /\ Distinct(all)
    BY <1>1, <1>4, <2>1, Joined
  <2> HIDE DEF all
  <2> QED BY <1>2, <2>2 DEF Distinct, all
<1>7. Len(back) \in Nat /\ Len(queue) \in Nat /\ Len(call[c]) \in Nat
  BY <1>1, <1>4
<1>9. /\ Apart' /\ IsFiniteSet(Places') /\ InHand \in Nat
      /\ call' \in [Callers -> Seq(Shares)]
      /\ InHand' = InHand - (Len(queue) + Len(call[c])) + Len(queue') + Len(none)
      /\ Held' \subseteq Held \cup {}
      /\ \A r \in Held : r \in Held' \/ r \in ToSet(queue) \cup InCall(c)
      /\ \A r \in ToSet(queue) \cup InCall(c) : r \in Held' <=> r \in ToSet(queue') \cup ToSet(none)
  <2>1. ToSet(queue') \cap ToSet(none) = {} /\ {} \in SUBSET Shares /\ {} \cap Held = {}
    BY <1>3
  <2>2. ToSet(queue') \cup ToSet(none) \subseteq ToSet(queue) \cup InCall(c) \cup {}
    BY <1>1, <1>3, <1>6
  <2> QED BY <1>2, <1>3, <1>6, <2>1, <2>2, Moved
<1>10. TypeOK'
  <2>1. counts' \in Counts
    BY <1>1, <1>2, Counted DEF IInv, TypeOK
  <2>2. verdict' \in [Shares -> Verdicts]
    <3>1. \A s \in Shares : verdict'[s] \in Verdicts
      BY <1>5 DEF IInv, TypeOK, Verdicts
    <3> QED BY <1>2, <3>1
  <2> QED BY <1>2, <1>6, <1>9, <2>1, <2>2 DEF IInv, TypeOK
<1>11. SettlesOnly({})
  <2>1. \A r \in Held : r \in Held' \/ r \in done
    BY <1>1, <1>6, <1>9
  <2>2. \A r \in done : r \in Held /\ r \notin Held'
    <3>1. \A r \in done : r \in InCall(c) /\ r \notin ToSet(queue')
      BY <1>1, <1>4, <1>6
    <3> QED BY <3>1, <1>3, <1>9 DEF Held
  <2>3. Held \subseteq Shares
    BY HeldIsShares DEF IInv
  <2> QED BY <1>2, <1>5, <1>9, <2>1, <2>2, <2>3 DEF SettlesOnly
<1>12. /\ Ledger!Next
       /\ \A r \in Held' : tipOf'[r] # -1 /\ verdict'[r] = "none"
       /\ \A r \in Shares : verdict'[r] # "none" => tipOf'[r] # -1
  BY <1>10, <1>11, StepKeeps
<1>13. \A r \in Solving : Busy(r)' => tipOf'[r] # -1
  <2>1. \A r \in Solving : Busy(r)' => Busy(r)
    BY <1>2 DEF Busy, IInv, TypeOK, Callers, none
  <2> QED BY <1>2, <2>1 DEF IInv, Books
<1>14. CountsAddUp'
  <2>1. InHand' = InHand - yes - no
    <3>1. /\ InHand' = InHand - (Len(queue) + Len(call[c])) + (Len(back) + Len(queue)) + 0
          /\ InHand \in Nat
      BY <1>3, <1>6, <1>9
    <3>2. yes \in Nat /\ no \in Nat /\ yes + no + Len(back) = Len(call[c])
      BY <1>1
    <3> QED BY <3>1, <3>2, <1>7
  <2>2. counts \in Counts /\ counts.forwarded = counts.accepted + counts.rejected + counts.dropped + InHand
    BY DEF IInv, TypeOK, CountsAddUp
  <2>3. /\ counts'.forwarded = counts.forwarded /\ counts'.accepted = counts.accepted + yes
        /\ counts'.rejected = counts.rejected + no /\ counts'.dropped = counts.dropped
    BY <1>2, <2>2 DEF Counts
  <2>4. InHand \in Nat /\ yes \in Nat /\ no \in Nat
    BY <1>1, <1>9
  <2> QED BY <2>1, <2>2, <2>3, <2>4 DEF CountsAddUp, Counts
<1> QED BY <1>9, <1>10, <1>12, <1>13, <1>14 DEF IInv, Books

\* Steps of the clock and of new jobs touch no share that is held.
LEMMA OthersKeep ==
  ASSUME IInv, UNCHANGED <<queue, tipOf, call, counts, verdict>>, tip' \in Nat, aged' \subseteq Shares
  PROVE  IInv' /\ UNCHANGED [s \in Shares |-> StateOf(s)]
<1>1. TypeOK'
  BY DEF IInv, TypeOK
<1>2. Places' = Places /\ InHand' = InHand /\ Held' = Held
  BY DEF Places, InHand, Held, InCall
<1>3. Apart'
  BY DEF IInv, Apart, Distinct, InCall
<1>4. Books' /\ IsFiniteSet(Places)' /\ CountsAddUp'
  BY <1>2 DEF IInv, Books, Busy, CountsAddUp
<1>5. \A s \in Shares : StateOf(s)' = StateOf(s)
  BY <1>2 DEF StateOf
<1> QED BY <1>1, <1>3, <1>4, <1>5 DEF IInv

\* An empty gateway satisfies the invariant and starts as ShareLedger does.
LEMMA InitKeeps ==
  Init => IInv /\ Ledger!Init
<1> SUFFICES ASSUME Init PROVE IInv /\ Ledger!Init
  OBVIOUS
<1>1. TypeOK
  BY DEF Init, TypeOK, Counts, Verdicts
<1>2. ToSet(queue) = {} /\ \A c \in Callers : call[c] = <<>> /\ InCall(c) = {} /\ Distinct(call[c])
  BY DEF Init, ToSet, InCall, Distinct
<1>3. Held = {} /\ Apart
  BY <1>2 DEF Held, Apart, Init, Distinct
<1>4. Places = {} /\ IsFiniteSet(Places) /\ InHand = 0
  <2>1. Places = {}
    BY <1>2 DEF Places
  <2> QED BY <2>1, FS_EmptySet DEF InHand, Init
<1>5. CountsAddUp
  BY <1>4 DEF CountsAddUp, Init
<1>6. Books
  BY <1>2, <1>3 DEF Books, Busy, Init, Callers
<1>7. Ledger!Init
  BY <1>3 DEF Ledger!Init, StateOf, Init
<1> QED BY <1>1, <1>3, <1>4, <1>5, <1>6, <1>7 DEF IInv

\* Every step keeps the invariant and is a step of ShareLedger or leaves its state alone.
LEMMA NextKeeps ==
  IInv /\ [Next]_vars => IInv' /\ [Ledger!Next]_([s \in Shares |-> StateOf(s)])
<1> SUFFICES ASSUME IInv, [Next]_vars PROVE IInv' /\ [Ledger!Next]_([s \in Shares |-> StateOf(s)])
  OBVIOUS
<1>1. ASSUME NEW s \in Shares, Forward(s) PROVE IInv' /\ Ledger!Next
  BY <1>1, ForwardKeeps
<1>2. ASSUME NEW s \in Shares, SendBlock(s) PROVE IInv' /\ Ledger!Next
  BY <1>2, SendBlockKeeps
<1>3. ASSUME NEW s \in Shares, Age(s) PROVE IInv' /\ UNCHANGED [r \in Shares |-> StateOf(r)]
  <2>1. aged' \subseteq Shares /\ tip' \in Nat
    BY <1>3 DEF Age, IInv, TypeOK
  <2> QED BY <1>3, <2>1, OthersKeep DEF Age
<1>4. CASE Flush
  BY <1>4, FlushKeeps
<1>5. ASSUME NEW c \in Callers, Returns(c) PROVE IInv' /\ Ledger!Next
  BY <1>5, ReturnsKeeps
<1>6. ASSUME NEW c \in Callers, Fails(c) PROVE IInv' /\ Ledger!Next
  BY <1>6, FailsKeeps
<1>7. ASSUME Track PROVE IInv' /\ UNCHANGED [r \in Shares |-> StateOf(r)]
  <2>1. aged' \subseteq Shares /\ tip' \in Nat
    BY <1>7 DEF Track, IInv, TypeOK
  <2> QED BY <1>7, <2>1, OthersKeep DEF Track
<1>8. ASSUME UNCHANGED vars PROVE IInv' /\ UNCHANGED [r \in Shares |-> StateOf(r)]
  <2>1. aged' \subseteq Shares /\ tip' \in Nat
    BY <1>8 DEF vars, IInv, TypeOK
  <2> QED BY <1>8, <2>1, OthersKeep DEF vars
<1> QED BY <1>1, <1>2, <1>3, <1>4, <1>5, <1>6, <1>7, <1>8 DEF Next

\* The dashboard's totals add up whatever the shares, the limits and the answers of the pool are: each
\* share forwarded is accepted, rejected, dropped, queued or on its way, once.
THEOREM TotalsAddUp == Spec => []CountsAddUp
<1>1. Init => IInv
  BY InitKeeps
<1>2. IInv /\ [Next]_vars => IInv'
  BY NextKeeps
<1>3. IInv => CountsAddUp
  BY DEF IInv
<1> QED BY <1>1, <1>2, <1>3, PTL DEF Spec

\* The gateway implements ShareLedger: a share handed over is held until it is settled, settled once, and
\* never forgotten, through every failed call, put-back and overflow.
THEOREM ImplementsLedger == Spec => KeepsLedger
<1>1. Init => IInv /\ Ledger!Init
  BY InitKeeps
<1>2. IInv /\ [Next]_vars => IInv' /\ [Ledger!Next]_([s \in Shares |-> StateOf(s)])
  BY NextKeeps
<1> QED BY <1>1, <1>2, PTL DEF Spec, KeepsLedger, Ledger!Spec
=============================================================================
