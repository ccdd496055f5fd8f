------------------------- MODULE BlockLedgerProofs -------------------------
(***************************************************************************)
(* Proofs about BlockLedger: whatever the node answers, forks and forgets, *)
(* however often the program restarts and calls fail, a credited block was *)
(* on the chain, a payout follows its row, and a row's verdict is the      *)
(* chain's; for any blocks, heights and depths.                            *)
(*                                                                         *)
(* A verdict is reached in three steps: the row, the chain, the mark.      *)
(* Three facts carry it from one to the next: the judge looks only at      *)
(* depths no fork reaches (Judging, DeepStays), the row it read is still   *)
(* there unless a second block of ours was on the chain at the height      *)
(* (Carried, from CreditedWasOnChain), and a row is recorded once by its   *)
(* block (RowsRecorded).                                                   *)
(***************************************************************************)
EXTENDS BlockLedger, FiniteSetTheorems, TLAPS

Places  == {"none", "pool", "submit", "lookup", "again", "accepted", "retry",
           "recorded", "tides", "lost", "unrecorded", "stopped"}
Marks   == {"none", "pending", "confirmed", "orphaned"}
Entries    == Blocks \cup {Other}

NodeTypes   == chain \in Seq(Entries) /\ known \subseteq Blocks /\ onceActive \subseteq Blocks
SubTypes    == sub \in [Blocks -> Places]
LedgerTypes == /\ blocks \in [Heights -> [hash : Entries, status : Marks]]
               /\ payouts \in [Owners \X Heights -> {"none", "paid", "orphaned"}]
JudgeTypes  == judge \in [pc : {"idle", "row", "chain", "orphan", "confirm"}, cur : Nat,
                          todo : SUBSET Heights, hash : Entries]
Types == NodeTypes /\ SubTypes /\ LedgerTypes /\ JudgeTypes

WasActive == \A i \in 1..Len(chain) : chain[i] \in Blocks => chain[i] \in onceActive

\* A row is of a block built for its height, which has been recorded for good.
RowsRecorded ==
    \A h \in Heights : blocks[h] # NoRow =>
        /\ blocks[h].hash \in Blocks /\ HeightOf[blocks[h].hash] = h
        /\ sub[blocks[h].hash] = "recorded"
        /\ blocks[h].status # "none"

\* What is left of a cycle is pending, and deeper than any fork reaches.
Judging ==
    judge.pc # "idle" =>
        /\ judge.todo # {} /\ judge.cur <= Len(chain)
        /\ \A h \in judge.todo : h <= judge.cur - JudgeDepth /\ blocks[h].status = "pending"

\* What the judge has read of the row and of the chain is still so.
Carried ==
    /\ judge.pc \in {"chain", "orphan", "confirm"} /\ Alone(Height) => judge.hash = blocks[Height].hash
    /\ judge.pc = "orphan" => chain[Height] # judge.hash
    /\ judge.pc = "confirm" => chain[Height] = judge.hash

Decided ==
    \A h \in Heights : blocks[h].status \in {"confirmed", "orphaned"} =>
        /\ h <= Len(chain) - JudgeDepth
        /\ Alone(h) => (blocks[h].status = "confirmed" <=> chain[h] = blocks[h].hash)

IInv == /\ Types /\ WasActive /\ CreditedWasOnChain /\ RowsRecorded /\ PayoutFollowsRow
        /\ Judging /\ Carried /\ Decided

----------------------------------------------------------------------------
(* Minima.                                                                  *)

\* The least of a set of heights is one of them.
LEMMA MinIsIn ==
    ASSUME NEW n \in Nat, NEW S \in SUBSET (1..n), S # {}
    PROVE  Min(S) \in S
<1> DEFINE R == StrictSubsetOrdering(1..n)
           upTo(x) == {k \in S : k <= x}
           T == {upTo(x) : x \in S}
<1>1. IsWellFoundedOn(R, SUBSET (1..n))
  <2>1. IsFiniteSet(1..n)
    BY FS_Interval
  <2>2. FiniteSubsetsOf(1..n) = SUBSET (1..n)
    BY <2>1, FS_FiniteSubsetsOfFinite
  <2> QED BY <2>2, FS_StrictSubsetOrderingWellFounded
<1>2. \E X \in T : \A Y \in T : ~ (<<Y, X>> \in R)
  <2>1. T \subseteq SUBSET (1..n) /\ T # {}
    OBVIOUS
  <2> HIDE DEF R, T
  <2> QED BY <1>1, <2>1, WFMin
<1>3. PICK m \in S : \A k \in S : ~ (<<upTo(k), upTo(m)>> \in R)
  BY <1>2
<1>4. ASSUME NEW k \in S PROVE m <= k
  <2> SUFFICES ASSUME k < m PROVE FALSE
    OBVIOUS
  <2>1. /\ m \in upTo(m) /\ m \notin upTo(k)
        /\ \A j \in upTo(k) : j \in upTo(m)
    OBVIOUS
  <2>2. upTo(k) \in SUBSET (1..n) /\ upTo(m) \in SUBSET (1..n)
    OBVIOUS
  <2>3. <<upTo(k), upTo(m)>> \in R
    <3> HIDE DEF upTo
    <3> QED BY <2>1, <2>2 DEF StrictSubsetOrdering
  <2> QED BY <2>3, <1>3
<1> QED BY <1>4 DEF Min

\* The height a cycle is at is one of those left.
LEMMA HeightIsLeft ==
    ASSUME JudgeTypes, judge.todo # {}
    PROVE  Height \in judge.todo /\ Height \in Heights
<1>1. judge.todo \in SUBSET (1..MaxHeight)
  BY DEF JudgeTypes, Heights
<1> QED BY <1>1, MinIsIn, BoundAssumption DEF Height, Heights

----------------------------------------------------------------------------
(* The node.                                                                *)

\* What any step leaves of the chain: it grows, and what is deep stays.
Grows ==
    /\ NodeTypes' /\ WasActive'
    /\ onceActive \subseteq onceActive'
    /\ Len(chain) <= Len(chain')
    /\ \A h \in 1..(Len(chain) - JudgeDepth) : chain'[h] = chain[h]

\* A chain set by SetChain that is as long and keeps what is deep grows.
LEMMA SetChainGrows ==
    ASSUME NodeTypes, NEW c \in Seq(Entries), SetChain(c), known' \subseteq Blocks,
           Len(chain) <= Len(c), \A h \in 1..(Len(chain) - JudgeDepth) : c[h] = chain[h]
    PROVE  Grows
<1>1. chain' = c /\ onceActive' = onceActive \cup (ToSet(c) \cap Blocks)
  BY DEF SetChain
<1>2. \A i \in 1..Len(c) : c[i] \in ToSet(c)
  BY DEF ToSet
<1>3. WasActive'
  BY <1>1, <1>2 DEF WasActive
<1> QED BY <1>1, <1>3 DEF Grows, NodeTypes

\* A block on top of the chain.
LEMMA AppendGrows ==
    ASSUME NodeTypes, NEW b \in Entries, SetChain(Append(chain, b)), known' \subseteq Blocks
    PROVE  Grows /\ (b \in Blocks => b \in onceActive')
<1> DEFINE c == Append(chain, b)
<1>1. /\ c \in Seq(Entries) /\ Len(c) = Len(chain) + 1 /\ c[Len(c)] = b
      /\ \A h \in 1..Len(chain) : c[h] = chain[h]
  BY DEF NodeTypes
<1>2. Len(chain) \in Nat
  BY DEF NodeTypes
<1>3. \A h \in 1..(Len(chain) - JudgeDepth) : c[h] = chain[h]
  BY <1>1, <1>2, DepthAssumption
<1>4. SetChain(c)
  OBVIOUS
<1> HIDE DEF c
<1>5. Grows
  BY <1>1, <1>2, <1>3, <1>4, SetChainGrows
<1>6. chain' = c
  BY <1>4 DEF SetChain
<1> QED BY <1>1, <1>2, <1>5, <1>6 DEF Grows, WasActive

\* A step that leaves the node alone.
LEMMA NodeStays ==
    ASSUME NodeTypes, WasActive, UNCHANGED <<chain, onceActive>>, known' \subseteq Blocks
    PROVE  Grows
<1>1. Len(chain) \in Nat
  BY DEF NodeTypes
<1> QED BY <1>1 DEF Grows, NodeTypes, WasActive

\* A fork reaches JudgeDepth blocks down at most.
LEMMA DeepStays ==
    ASSUME NodeTypes, Reorg
    PROVE  Grows
<1> DEFINE d == Min({JudgeDepth, Len(chain)})
<1>0. Len(chain) \in Nat /\ JudgeDepth \in Nat
  BY DepthAssumption DEF NodeTypes
<1>1. d \in Nat /\ d <= JudgeDepth /\ d <= Len(chain)
  <2>1. \E x \in {JudgeDepth, Len(chain)} : \A y \in {JudgeDepth, Len(chain)} : x <= y
    BY <1>0
  <2> QED BY <1>0, <2>1 DEF Min
<1> HIDE DEF d
<1>2. PICK n \in 1..d, mine \in SUBSET known :
        SetChain([h \in 1..(Len(chain) - n + n + 1) |->
                    IF h <= Len(chain) - n THEN chain[h]
                    ELSE IF {b \in mine : HeightOf[b] = h} = {} THEN Other
                    ELSE CHOOSE b \in {e \in mine : HeightOf[e] = h} : TRUE])
  BY DEF Reorg, d
<1> DEFINE c == [h \in 1..(Len(chain) - n + n + 1) |->
                    IF h <= Len(chain) - n THEN chain[h]
                    ELSE IF {b \in mine : HeightOf[b] = h} = {} THEN Other
                    ELSE CHOOSE b \in {e \in mine : HeightOf[e] = h} : TRUE]
<1>3. n \in Nat /\ n <= JudgeDepth /\ n <= Len(chain)
  BY <1>0, <1>1
<1>4. \A h \in 1..(Len(chain) + 1) : c[h] \in Entries
  <2> SUFFICES ASSUME NEW h \in 1..(Len(chain) + 1) PROVE c[h] \in Entries
    OBVIOUS
  <2>1. CASE h <= Len(chain) - n
    BY <2>1, <1>0, <1>3 DEF NodeTypes
  <2>2. CASE ~(h <= Len(chain) - n)
    <3>1. mine \subseteq Blocks
      BY DEF NodeTypes
    <3> QED BY <2>2, <3>1, <1>0, <1>3 DEF Entries
  <2> QED BY <2>1, <2>2
<1>5. c \in Seq(Entries) /\ Len(c) = Len(chain) + 1
  <2>1. c = [h \in 1..(Len(chain) + 1) |-> c[h]]
    BY <1>0, <1>3
  <2> HIDE DEF c
  <2> QED BY <2>1, <1>0, <1>4
<1>6. \A h \in 1..(Len(chain) - JudgeDepth) : c[h] = chain[h]
  BY <1>0, <1>3
<1>7. known' \subseteq Blocks
  BY DEF Reorg, NodeTypes
<1>8. SetChain(c)
  BY <1>2
<1> HIDE DEF c
<1>9. Len(chain) <= Len(c)
  BY <1>0, <1>5
<1> QED BY <1>5, <1>6, <1>7, <1>8, <1>9, SetChainGrows

----------------------------------------------------------------------------
(* Submissions.                                                             *)

\* Where a cycle is lies deeper than any fork reaches.
LEMMA HeightIsDeep ==
    ASSUME IInv, judge.pc # "idle"
    PROVE  /\ Height \in judge.todo /\ Height \in Heights
           /\ Height \in 1..(Len(chain) - JudgeDepth)
           /\ blocks[Height].status = "pending" /\ blocks[Height] # NoRow
<1>1. Height \in judge.todo /\ Height \in Heights
  BY HeightIsLeft DEF IInv, Types, Judging
<1>2. Height <= judge.cur - JudgeDepth /\ judge.cur <= Len(chain) /\ blocks[Height].status = "pending"
  BY <1>1 DEF IInv, Judging
<1>3. Len(chain) \in Nat /\ judge.cur \in Nat /\ Height \in Nat /\ Height >= 1
  BY <1>1 DEF IInv, Types, NodeTypes, JudgeTypes, Heights
<1> QED BY <1>1, <1>2, <1>3, DepthAssumption DEF NoRow

\* While neither the ledger nor the judge moves, it is enough that the chain grows and that what is
\* credited was on it.
LEMMA LedgerStays ==
    ASSUME IInv, Grows, UNCHANGED <<blocks, payouts, judge>>, SubTypes', CreditedWasOnChain',
           \A b \in Blocks : sub[b] = "recorded" => sub'[b] = "recorded"
    PROVE  IInv'
<1> USE DEF IInv
<1>1. \A h : Alone(h)' => Alone(h)
  BY DEF Alone, Grows
<1>2. Height' = Height
  BY DEF Height
<1>3. Len(chain) \in Nat /\ Len(chain') \in Nat /\ Len(chain) <= Len(chain') /\ JudgeDepth \in Nat
  BY DepthAssumption DEF Types, Grows, NodeTypes
<1>4. Types' /\ WasActive'
  BY DEF Types, Grows, LedgerTypes, JudgeTypes
<1>5. RowsRecorded' /\ PayoutFollowsRow'
  BY DEF RowsRecorded, PayoutFollowsRow
<1>6. Judging'
  BY <1>3 DEF Judging, Types, JudgeTypes
<1>7. Carried'
  <2>1. CASE judge.pc = "idle"
    BY <2>1 DEF Carried
  <2>2. CASE judge.pc # "idle"
    <3>1. chain'[Height] = chain[Height]
      BY <2>2, HeightIsDeep DEF Grows
    <3> QED BY <3>1, <1>1, <1>2 DEF Carried
  <2> QED BY <2>1, <2>2
<1>8. Decided'
  <2> SUFFICES ASSUME NEW h \in Heights, blocks[h].status \in {"confirmed", "orphaned"}
               PROVE  /\ h <= Len(chain') - JudgeDepth
                      /\ Alone(h)' => (blocks[h].status = "confirmed" <=> chain'[h] = blocks[h].hash)
    BY DEF Decided
  <2>1. h \in 1..(Len(chain) - JudgeDepth)
    BY <1>3 DEF Decided, Heights
  <2>2. chain'[h] = chain[h]
    BY <2>1 DEF Grows
  <2> QED BY <2>1, <2>2, <1>1, <1>3 DEF Decided
<1> QED BY <1>4, <1>5, <1>6, <1>7, <1>8

\* A submission that moves on to a place where nothing is credited, or whose block was on the chain.
LEMMA SubMoves ==
    ASSUME IInv, Grows, UNCHANGED <<blocks, payouts, judge>>, NEW b \in Blocks, NEW place \in Places,
           sub' = [sub EXCEPT ![b] = place], sub[b] # "recorded",
           place \in {"accepted", "retry", "recorded", "tides"} => b \in onceActive'
    PROVE  IInv'
<1>1. SubTypes'
  BY DEF IInv, Types, SubTypes
<1>2. CreditedWasOnChain'
  BY DEF IInv, Types, SubTypes, CreditedWasOnChain, Grows
<1>3. \A c \in Blocks : sub[c] = "recorded" => sub'[c] = "recorded"
  BY DEF IInv, Types, SubTypes
<1> QED BY <1>1, <1>2, <1>3, LedgerStays

\* What the node makes of a block; an accept means that it is on the chain.
LEMMA NodeTakesGrows ==
    ASSUME NodeTypes, WasActive, NEW b \in Blocks, NEW answer, NodeTakes(b, answer)
    PROVE  Grows /\ (answer = "accepted" => b \in onceActive')
<1>1. CASE Connects(b)
  <2>1. known' \subseteq Blocks /\ b \in Entries
    BY <1>1 DEF Connects, NodeTypes, Entries
  <2> QED BY <1>1, <2>1, AppendGrows DEF Connects
<1>2. CASE KeepsAside(b) /\ answer \in {"aside", "error"}
  <2>1. known' \subseteq Blocks
    BY <1>2 DEF KeepsAside, NodeTypes
  <2> QED BY <1>2, <2>1, NodeStays DEF KeepsAside
<1>3. CASE UNCHANGED nodeVars /\ answer # "accepted"
  <2>1. known' \subseteq Blocks
    BY <1>3 DEF nodeVars, NodeTypes
  <2> QED BY <1>3, <2>1, NodeStays DEF nodeVars
<1> QED BY <1>1, <1>2, <1>3 DEF NodeTakes

LEMMA SubmitStep == ASSUME IInv, NEW b \in Blocks, Submit(b) PROVE IInv'
<1>1. PICK answer \in Answers :
        /\ NodeTakes(b, answer)
        /\ Goto(b, IF answer = "accepted" THEN "accepted" ELSE "lookup")
  BY DEF Submit
<1>2. Grows /\ (answer = "accepted" => b \in onceActive')
  BY <1>1, NodeTakesGrows DEF IInv, Types
<1>3. UNCHANGED <<blocks, payouts, judge>> /\ sub[b] = "submit"
  BY DEF Submit, ledgerVars
<1> DEFINE place == IF answer = "accepted" THEN "accepted" ELSE "lookup"
<1>4. place \in Places /\ sub' = [sub EXCEPT ![b] = place]
  BY <1>1 DEF Goto, Places
<1>5. place \in {"accepted", "retry", "recorded", "tides"} => b \in onceActive'
  BY <1>2
<1> HIDE DEF place
<1> QED BY <1>2, <1>3, <1>4, <1>5, SubMoves

LEMMA LookupStep == ASSUME IInv, NEW b \in Blocks, Lookup(b) PROVE IInv'
<1>1. UNCHANGED <<chain, known, onceActive, blocks, payouts, judge>> /\ sub[b] = "lookup"
  BY DEF Lookup, nodeVars, ledgerVars
<1>2. Grows
  BY <1>1, NodeStays DEF IInv, Types, NodeTypes
<1>3. CASE Goto(b, "again")
  BY <1>1, <1>2, <1>3, SubMoves DEF Goto, Places
<1>4. CASE HeightOf[b] <= Len(chain) /\ Goto(b, IF OnChain(b) THEN "accepted" ELSE "lost")
  <2>1. CASE OnChain(b)
    <3>1. HeightOf[b] \in 1..Len(chain)
      BY <1>4, BlocksAssumption DEF IInv, Types, NodeTypes
    <3>2. b \in onceActive'
      BY <1>1, <2>1, <3>1 DEF OnChain, IInv, WasActive
    <3>3. sub' = [sub EXCEPT ![b] = "accepted"]
      BY <1>4, <2>1 DEF Goto
    <3> QED BY <1>1, <1>2, <3>2, <3>3, SubMoves DEF Places
  <2>2. CASE ~OnChain(b)
    BY <1>1, <1>2, <1>4, <2>2, SubMoves DEF Goto, Places
  <2> QED BY <2>1, <2>2
<1> QED BY <1>3, <1>4 DEF Lookup

LEMMA AgainStep == ASSUME IInv, NEW b \in Blocks, Again(b) PROVE IInv'
<1> DEFINE place(answer) == IF answer = "accepted" THEN "accepted"
                            ELSE IF answer = "refused" \/ tries[b] + 1 >= MaxTries THEN "lost" ELSE "lookup"
<1>1. PICK answer \in Answers : NodeTakes(b, answer) /\ Goto(b, place(answer))
  BY DEF Again
<1>2. Grows /\ (answer = "accepted" => b \in onceActive')
  BY <1>1, NodeTakesGrows DEF IInv, Types
<1>3. UNCHANGED <<blocks, payouts, judge>> /\ sub[b] = "again"
  BY DEF Again, ledgerVars
<1>4. place(answer) \in {"accepted", "lost", "lookup"} /\ (place(answer) = "accepted" => answer = "accepted")
  OBVIOUS
<1>5. sub' = [sub EXCEPT ![b] = place(answer)]
  BY <1>1 DEF Goto
<1> HIDE DEF place
<1>6. place(answer) \in Places
  BY <1>4 DEF Places
<1>7. place(answer) \in {"accepted", "retry", "recorded", "tides"} => b \in onceActive'
  BY <1>2, <1>4
<1> QED BY <1>2, <1>3, <1>5, <1>6, <1>7, SubMoves

\* A block of ours that was accepted becomes its height's row.
LEMMA RecordStep ==
    ASSUME IInv, NEW b \in Blocks, sub[b] \in {"accepted", "retry"}, sub' = [sub EXCEPT ![b] = "recorded"],
           RecordRow(b), RecordPayout(b), UNCHANGED <<chain, known, onceActive, judge>>
    PROVE  IInv'
<1> USE DEF IInv
<1> DEFINE h0 == HeightOf[b]
           p0 == <<OwnerOf[b], h0>>
<1>1. h0 \in Heights /\ p0 \in Owners \X Heights
  BY BlocksAssumption DEF Heights, Owners
<1>2. b \in onceActive
  BY DEF CreditedWasOnChain
<1>3. blocks[h0].hash # b
  <2>1. CASE blocks[h0] = NoRow
    BY <2>1, BlocksAssumption DEF NoRow
  <2>2. CASE blocks[h0] # NoRow
    BY <1>1, <2>2 DEF RowsRecorded
  <2> QED BY <2>1, <2>2
<1>4. blocks' = [blocks EXCEPT ![h0] = [hash |-> b, status |-> "pending"]]
  BY <1>3 DEF RecordRow
<1>5. payouts' = [payouts EXCEPT ![p0] = "paid"]
  BY DEF RecordPayout
<1>6. /\ blocks'[h0] = [hash |-> b, status |-> "pending"]
      /\ \A h \in Heights \ {h0} : blocks'[h] = blocks[h]
  BY <1>1, <1>4 DEF Types, LedgerTypes
<1>7. /\ payouts'[p0] = "paid"
      /\ \A p \in (Owners \X Heights) \ {p0} : payouts'[p] = payouts[p]
  BY <1>1, <1>5 DEF Types, LedgerTypes
<1>8. /\ sub'[b] = "recorded"
      /\ \A c \in Blocks \ {b} : sub'[c] = sub[c]
  BY DEF Types, SubTypes
<1>9. Types' /\ WasActive'
  <2>1. LedgerTypes'
    BY <1>1, <1>4, <1>5 DEF Types, LedgerTypes, Marks, Entries
  <2>2. SubTypes' /\ NodeTypes' /\ JudgeTypes'
    BY DEF Types, SubTypes, NodeTypes, JudgeTypes, Places
  <2> QED BY <2>1, <2>2 DEF Types, WasActive
<1>10. CreditedWasOnChain'
  BY <1>2, <1>8 DEF CreditedWasOnChain
<1>11. RowsRecorded'
  <2> SUFFICES ASSUME NEW h \in Heights, blocks'[h] # NoRow
               PROVE  /\ blocks'[h].hash \in Blocks /\ HeightOf[blocks'[h].hash] = h
                      /\ sub'[blocks'[h].hash] = "recorded"
                      /\ blocks'[h].status # "none"
    BY DEF RowsRecorded
  <2>1. CASE h = h0
    BY <1>6, <1>8, <2>1
  <2>2. CASE h # h0
    BY <1>6, <1>8, <2>2 DEF RowsRecorded
  <2> QED BY <2>1, <2>2
<1>12. PayoutFollowsRow'
  <2> SUFFICES ASSUME NEW h \in Heights, blocks'[h] # NoRow
               PROVE  payouts'[<<OwnerOf[blocks'[h].hash], h>>]
                          = (IF blocks'[h].status = "orphaned" THEN "orphaned" ELSE "paid")
    BY DEF PayoutFollowsRow
  <2>1. CASE h = h0
    BY <1>6, <1>7, <2>1
  <2>2. CASE h # h0
    <3>1. blocks'[h] = blocks[h] /\ blocks[h].hash \in Blocks
      BY <1>6, <2>2 DEF RowsRecorded
    <3>2. <<OwnerOf[blocks[h].hash], h>> \in (Owners \X Heights) \ {p0}
      BY <2>2, <3>1 DEF Owners
    <3> QED BY <1>7, <3>1, <3>2 DEF PayoutFollowsRow
  <2> QED BY <2>1, <2>2
<1>13. Judging'
  <2> SUFFICES ASSUME judge.pc # "idle", NEW h \in judge.todo PROVE blocks'[h].status = "pending"
    BY DEF Judging
  <2>1. h \in Heights
    BY DEF Types, JudgeTypes
  <2> QED BY <1>6, <2>1 DEF Judging
<1>14. Carried'
  <2>1. Height' = Height /\ \A h : Alone(h)' = Alone(h)
    BY DEF Height, Alone
  <2>2. ASSUME judge.pc \in {"chain", "orphan", "confirm"}, Alone(Height)
        PROVE  judge.hash = blocks'[Height].hash
    <3>1. Height \in Heights /\ blocks[Height] # NoRow
      BY <2>2, HeightIsDeep
    <3>2. blocks[Height].hash \in onceActive /\ HeightOf[blocks[Height].hash] = Height
      BY <3>1 DEF RowsRecorded, CreditedWasOnChain
    <3>3. Height # h0
      BY <1>2, <1>3, <2>2, <3>2 DEF Alone
    <3> QED BY <1>6, <2>2, <3>1, <3>3 DEF Carried
  <2> QED BY <2>1, <2>2 DEF Carried
<1>15. Decided'
  <2> SUFFICES ASSUME NEW h \in Heights, blocks'[h].status \in {"confirmed", "orphaned"}
               PROVE  /\ h <= Len(chain) - JudgeDepth
                      /\ Alone(h)' => (blocks'[h].status = "confirmed" <=> chain[h] = blocks'[h].hash)
    BY DEF Decided
  <2>1. h # h0 /\ blocks'[h] = blocks[h] /\ Alone(h)' = Alone(h)
    BY <1>6 DEF Alone
  <2> QED BY <2>1 DEF Decided
<1> QED BY <1>9, <1>10, <1>11, <1>12, <1>13, <1>14, <1>15

LEMMA CreditStep == ASSUME IInv, NEW b \in Blocks, Credit(b) PROVE IInv'
<1>1. UNCHANGED <<chain, known, onceActive, judge>> /\ sub[b] = "accepted"
  BY DEF Credit, nodeVars
<1>2. Grows
  BY <1>1, NodeStays DEF IInv, Types, NodeTypes
<1>3. b \in onceActive'
  BY <1>1 DEF IInv, CreditedWasOnChain
<1>4. CASE Goto(b, "tides") /\ UNCHANGED ledgerVars
  BY <1>1, <1>2, <1>3, <1>4, SubMoves DEF Goto, Places, ledgerVars
<1>5. CASE Goto(b, "recorded") /\ RecordRow(b) /\ RecordPayout(b)
  BY <1>1, <1>5, RecordStep DEF Goto
<1>6. CASE Goto(b, "retry") /\ UNCHANGED ledgerVars
  BY <1>1, <1>2, <1>3, <1>6, SubMoves DEF Goto, Places, ledgerVars
<1> QED BY <1>4, <1>5, <1>6 DEF Credit

LEMMA RetryRecordStep == ASSUME IInv, NEW b \in Blocks, RetryRecord(b) PROVE IInv'
<1>1. UNCHANGED <<chain, known, onceActive, judge>> /\ sub[b] = "retry"
  BY DEF RetryRecord, nodeVars
<1>2. CASE Goto(b, "recorded") /\ RecordRow(b) /\ RecordPayout(b)
  BY <1>1, <1>2, RecordStep DEF Goto
<1>3. CASE Goto(b, "unrecorded") /\ UNCHANGED ledgerVars
  <2>1. Grows
    BY <1>1, NodeStays DEF IInv, Types, NodeTypes
  <2> QED BY <1>1, <1>3, <2>1, SubMoves DEF Goto, Places, ledgerVars
<1> QED BY <1>2, <1>3 DEF RetryRecord

\* A block found, and the pool's two seconds over.
LEMMA HandedOnStep ==
    ASSUME IInv, NEW b \in Blocks, Found(b) \/ PoolAnswersOrIsSlow(b)
    PROVE  IInv'
<1>1. UNCHANGED <<chain, known, onceActive, blocks, payouts, judge>> /\ sub[b] \in {"none", "pool"}
  BY DEF Found, PoolAnswersOrIsSlow, nodeVars, ledgerVars
<1>2. Grows
  BY <1>1, NodeStays DEF IInv, Types, NodeTypes
<1>3. PICK place \in {"pool", "submit"} : sub' = [sub EXCEPT ![b] = place]
  BY DEF Found, PoolAnswersOrIsSlow, Goto
<1> QED BY <1>1, <1>2, <1>3, SubMoves DEF Places

\* What the network does with the chain.
LEMMA NetworkStep ==
    ASSUME IInv, Extend \/ Reorg \/ \E b \in Blocks : PoolsCopyArrives(b)
    PROVE  IInv'
<1>1. UNCHANGED <<blocks, payouts, judge, sub>>
  BY DEF Extend, Reorg, PoolsCopyArrives, ledgerVars, subVars
<1>2. Grows
  <2>1. CASE Extend
    <3>1. SetChain(Append(chain, Other)) /\ known' \subseteq Blocks /\ Other \in Entries
      BY <2>1 DEF Extend, IInv, Types, NodeTypes, Entries
    <3> QED BY <3>1, AppendGrows DEF IInv, Types
  <2>2. CASE Reorg
    BY <2>2, DeepStays DEF IInv, Types
  <2>3. ASSUME NEW b \in Blocks, PoolsCopyArrives(b) PROVE Grows
    <3>1. NodeTakes(b, "error")
      BY <2>3 DEF PoolsCopyArrives, NodeTakes
    <3> QED BY <3>1, NodeTakesGrows DEF IInv, Types
  <2> QED BY <2>1, <2>2, <2>3
<1>3. CreditedWasOnChain' /\ SubTypes'
  BY <1>1, <1>2 DEF CreditedWasOnChain, Grows, IInv, Types, SubTypes
<1> QED BY <1>1, <1>2, <1>3, LedgerStays

LEMMA RestartStep == ASSUME IInv, Restart PROVE IInv'
<1> USE DEF IInv
<1>1. /\ UNCHANGED <<chain, known, onceActive, blocks, payouts>>
      /\ judge' = Idle
      /\ sub' = [b \in Blocks |-> IF sub[b] \in Ended \cup {"none"} THEN sub[b] ELSE "stopped"]
  BY DEF Restart, nodeVars, ledgerVars
<1>2. Types' /\ WasActive'
  BY <1>1 DEF Types, NodeTypes, SubTypes, LedgerTypes, JudgeTypes, Idle, Places, Entries, WasActive
<1>3. CreditedWasOnChain'
  BY <1>1 DEF CreditedWasOnChain
<1>4. RowsRecorded'
  BY <1>1 DEF RowsRecorded, Ended
<1>5. PayoutFollowsRow' /\ Decided'
  BY <1>1 DEF PayoutFollowsRow, Decided, Alone
<1>6. Judging' /\ Carried'
  BY <1>1 DEF Judging, Carried, Idle
<1> QED BY <1>2, <1>3, <1>4, <1>5, <1>6

----------------------------------------------------------------------------
(* The payout processor.                                                    *)

\* On to the next height: what is left stays pending.
LEMMA AdvanceKeeps ==
    ASSUME IInv, judge.pc # "idle", Advance, UNCHANGED chain,
           \A h \in judge.todo \ {Height} : blocks'[h].status = blocks[h].status
    PROVE  JudgeTypes' /\ Judging' /\ Carried'
<1> USE DEF IInv
<1>1. CASE judge.todo = {Height}
  BY <1>1 DEF Advance, Idle, JudgeTypes, Judging, Carried, Entries
<1>2. CASE judge.todo # {Height}
  <2>1. judge' = [judge EXCEPT !.pc = "row", !.todo = judge.todo \ {Height}, !.hash = Other]
    BY <1>2 DEF Advance
  <2>2. /\ judge'.pc = "row" /\ judge'.cur = judge.cur /\ judge'.todo = judge.todo \ {Height}
        /\ JudgeTypes'
    BY <2>1 DEF Types, JudgeTypes, Entries
  <2>3. judge'.todo # {} /\ judge.todo # {}
    BY <1>2, <2>2 DEF Judging
  <2>4. Judging'
    BY <2>2, <2>3 DEF Judging
  <2>5. Carried'
    BY <2>2 DEF Carried
  <2> QED BY <2>2, <2>4, <2>5
<1> QED BY <1>1, <1>2

\* A step of the judge that marks nothing.
LEMMA JudgeReads ==
    ASSUME IInv, UNCHANGED <<chain, known, onceActive, sub, blocks, payouts>>,
           JudgeTypes', Judging', Carried'
    PROVE  IInv'
BY DEF IInv, Types, NodeTypes, SubTypes, LedgerTypes, WasActive, CreditedWasOnChain, RowsRecorded,
       PayoutFollowsRow, Decided, Alone

LEMMA JudgeStartStep == ASSUME IInv, JudgeStart PROVE IInv'
<1>1. UNCHANGED <<chain, known, onceActive, sub, blocks, payouts>>
  BY DEF JudgeStart, nodeVars, subVars, ledgerVars
<1> DEFINE todo == PendingSolo(Len(chain))
<1>2. Len(chain) \in Nat /\ todo # {} /\ todo \subseteq Heights
  BY DEF IInv, Types, NodeTypes, JudgeStart, PendingSolo
<1>3. \A h \in todo : h <= Len(chain) - JudgeDepth /\ blocks[h].status = "pending"
  BY DEF PendingSolo
<1>4. judge' = [pc |-> "row", cur |-> Len(chain), todo |-> todo, hash |-> Other]
  BY DEF JudgeStart, Idle
<1> HIDE DEF todo
<1>5. JudgeTypes'
  BY <1>2, <1>4 DEF JudgeTypes, Entries, Heights
<1>6. Judging' /\ Carried'
  BY <1>1, <1>2, <1>3, <1>4 DEF Judging, Carried
<1> QED BY <1>1, <1>5, <1>6, JudgeReads

LEMMA JudgeFailsStep == ASSUME IInv, JudgeFails PROVE IInv'
<1>1. UNCHANGED <<chain, known, onceActive, sub, blocks, payouts>>
  BY DEF JudgeFails, nodeVars, subVars, ledgerVars
<1>2. JudgeTypes' /\ Judging' /\ Carried'
  BY <1>1, AdvanceKeeps DEF JudgeFails
<1> QED BY <1>1, <1>2, JudgeReads

LEMMA JudgeRowStep == ASSUME IInv, JudgeRow PROVE IInv'
<1> USE DEF IInv
<1>1. UNCHANGED <<chain, known, onceActive, sub, blocks, payouts>>
  BY DEF JudgeRow, nodeVars, subVars, ledgerVars
<1>2. judge.pc = "row" /\ judge' = [judge EXCEPT !.pc = "chain", !.hash = blocks[Height].hash]
  BY DEF JudgeRow
<1>3. Height \in Heights
  BY <1>2, HeightIsDeep
<1>4. blocks[Height].hash \in Entries
  BY <1>3 DEF Types, LedgerTypes
<1>5. /\ judge'.pc = "chain" /\ judge'.hash = blocks[Height].hash
      /\ judge'.todo = judge.todo /\ judge'.cur = judge.cur /\ JudgeTypes'
  BY <1>2, <1>4 DEF Types, JudgeTypes
<1>6. Height' = Height
  BY <1>5 DEF Height
<1>7. Judging' /\ Carried'
  BY <1>1, <1>2, <1>5, <1>6 DEF Judging, Carried
<1> QED BY <1>1, <1>5, <1>7, JudgeReads

LEMMA JudgeChainStep == ASSUME IInv, JudgeChain PROVE IInv'
<1> USE DEF IInv
<1>1. UNCHANGED <<chain, known, onceActive, sub, blocks, payouts>> /\ judge.pc = "chain"
  BY DEF JudgeChain, nodeVars, subVars, ledgerVars
<1>2. CASE Advance
  <2>1. JudgeTypes' /\ Judging' /\ Carried'
    BY <1>1, <1>2, AdvanceKeeps
  <2> QED BY <1>1, <2>1, JudgeReads
<1>3. CASE \E place \in {"orphan", "confirm"} :
              /\ judge' = [judge EXCEPT !.pc = place]
              /\ place = "orphan" => chain[Height] # judge.hash
              /\ place = "confirm" => chain[Height] = judge.hash
  <2>1. PICK place \in {"orphan", "confirm"} :
              /\ judge' = [judge EXCEPT !.pc = place]
              /\ place = "orphan" => chain[Height] # judge.hash
              /\ place = "confirm" => chain[Height] = judge.hash
    BY <1>3
  <2>2. /\ judge'.pc = place /\ judge'.hash = judge.hash
        /\ judge'.todo = judge.todo /\ judge'.cur = judge.cur /\ JudgeTypes'
    BY <2>1 DEF Types, JudgeTypes
  <2>3. Height' = Height /\ Alone(Height)' = Alone(Height)
    BY <1>1, <2>2 DEF Height, Alone
  <2>4. Judging' /\ Carried'
    BY <1>1, <2>1, <2>2, <2>3 DEF Judging, Carried
  <2> QED BY <1>1, <2>2, <2>4, JudgeReads
<1> QED BY <1>2, <1>3 DEF JudgeChain

\* The mark of the height the judge is at: its row is still pending, so it takes the verdict.
LEMMA MarkKeeps ==
    ASSUME IInv, NEW mark \in {"confirmed", "orphaned"}, Mark(Height, mark), Advance,
           UNCHANGED <<chain, known, onceActive, sub>>, LedgerTypes',
           judge.pc = (IF mark = "orphaned" THEN "orphan" ELSE "confirm"),
           \A a \in Owners : payouts[<<a, Height>>] = "paid" =>
               payouts'[<<a, Height>>] = (IF mark = "orphaned" THEN "orphaned" ELSE "paid"),
           \A a \in Owners, h \in Heights \ {Height} : payouts'[<<a, h>>] = payouts[<<a, h>>]
    PROVE  IInv'
<1> USE DEF IInv
<1>1. /\ Height \in judge.todo /\ Height \in Heights /\ Height \in 1..(Len(chain) - JudgeDepth)
      /\ blocks[Height].status = "pending" /\ blocks[Height] # NoRow
  BY HeightIsDeep
<1>2. /\ blocks'[Height].hash = blocks[Height].hash /\ blocks'[Height].status = mark
      /\ \A h \in Heights \ {Height} : blocks'[h] = blocks[h]
  BY <1>1 DEF Mark, Types, LedgerTypes
<1>3. JudgeTypes' /\ Judging' /\ Carried'
  <2>1. judge.todo \subseteq Heights
    BY DEF Types, JudgeTypes
  <2> QED BY <1>2, <2>1, AdvanceKeeps
<1>4. Types' /\ WasActive' /\ CreditedWasOnChain'
  BY <1>3 DEF Types, NodeTypes, SubTypes, WasActive, CreditedWasOnChain
<1>5. RowsRecorded'
  <2> SUFFICES ASSUME NEW h \in Heights, blocks'[h] # NoRow
               PROVE  /\ blocks'[h].hash \in Blocks /\ HeightOf[blocks'[h].hash] = h
                      /\ sub[blocks'[h].hash] = "recorded" /\ blocks'[h].status # "none"
    BY DEF RowsRecorded
  <2> QED BY <1>1, <1>2 DEF RowsRecorded
<1>6. PayoutFollowsRow'
  <2> SUFFICES ASSUME NEW h \in Heights, blocks'[h] # NoRow
               PROVE  payouts'[<<OwnerOf[blocks'[h].hash], h>>]
                          = (IF blocks'[h].status = "orphaned" THEN "orphaned" ELSE "paid")
    BY DEF PayoutFollowsRow
  <2>1. blocks[h] # NoRow /\ blocks'[h].hash = blocks[h].hash /\ OwnerOf[blocks[h].hash] \in Owners
    BY <1>1, <1>2 DEF RowsRecorded, Owners
  <2>2. CASE h = Height
    <3>1. payouts[<<OwnerOf[blocks[h].hash], h>>] = "paid"
      BY <1>1, <2>1, <2>2 DEF PayoutFollowsRow
    <3> QED BY <1>2, <2>1, <2>2, <3>1
  <2>3. CASE h # Height
    BY <1>2, <2>1, <2>3 DEF PayoutFollowsRow
  <2> QED BY <2>2, <2>3
<1>7. Decided'
  <2> SUFFICES ASSUME NEW h \in Heights, blocks'[h].status \in {"confirmed", "orphaned"}
               PROVE  /\ h <= Len(chain) - JudgeDepth
                      /\ Alone(h)' => (blocks'[h].status = "confirmed" <=> chain[h] = blocks'[h].hash)
    BY DEF Decided
  <2>1. Alone(h)' = Alone(h)
    BY DEF Alone
  <2>2. CASE h = Height
    BY <1>1, <1>2, <2>1, <2>2 DEF Carried
  <2>3. CASE h # Height
    BY <1>2, <2>1, <2>3 DEF Decided
  <2> QED BY <2>2, <2>3
<1> QED BY <1>3, <1>4, <1>5, <1>6, <1>7

LEMMA JudgeOrphanStep == ASSUME IInv, JudgeOrphan PROVE IInv'
<1>1. UNCHANGED <<chain, known, onceActive, sub>> /\ judge.pc = "orphan" /\ Mark(Height, "orphaned") /\ Advance
  BY DEF JudgeOrphan, nodeVars, subVars
<1>2. Height \in Heights
  BY <1>1, HeightIsDeep
<1>3. DOMAIN payouts = Owners \X Heights
  BY DEF IInv, Types, LedgerTypes
<1>4. payouts' = [p \in Owners \X Heights |->
                      IF p[2] = Height /\ payouts[p] = "paid" THEN "orphaned" ELSE payouts[p]]
  BY <1>3 DEF JudgeOrphan
<1>5. LedgerTypes'
  <2>1. blocks' \in [Heights -> [hash : Entries, status : Marks]]
    BY <1>1, <1>2 DEF Mark, IInv, Types, LedgerTypes, Marks
  <2>2. payouts' \in [Owners \X Heights -> {"none", "paid", "orphaned"}]
    BY <1>4 DEF IInv, Types, LedgerTypes
  <2> QED BY <2>1, <2>2 DEF LedgerTypes
<1>6. \A a \in Owners, h \in Heights :
         payouts'[<<a, h>>] = IF h = Height /\ payouts[<<a, h>>] = "paid" THEN "orphaned" ELSE payouts[<<a, h>>]
  BY <1>4
<1> QED BY <1>1, <1>2, <1>5, <1>6, MarkKeeps

LEMMA JudgeConfirmStep == ASSUME IInv, JudgeConfirm PROVE IInv'
<1>1. /\ UNCHANGED <<chain, known, onceActive, sub, payouts>>
      /\ judge.pc = "confirm" /\ Mark(Height, "confirmed") /\ Advance
  BY DEF JudgeConfirm, nodeVars, subVars
<1>2. Height \in Heights
  BY <1>1, HeightIsDeep
<1>3. LedgerTypes'
  BY <1>1, <1>2 DEF Mark, IInv, Types, LedgerTypes, Marks
<1> QED BY <1>1, <1>3, MarkKeeps

----------------------------------------------------------------------------
(* The invariant and its theorems.                                          *)

LEMMA InitInv == Init => IInv
<1> SUFFICES ASSUME Init PROVE IInv
  OBVIOUS
<1> USE DEF Init
<1>1. NodeTypes /\ WasActive
  BY DEF NodeTypes, WasActive
<1>2. SubTypes /\ LedgerTypes /\ JudgeTypes
  BY DEF SubTypes, Places, LedgerTypes, Marks, Entries, NoRow, JudgeTypes, Idle
<1>3. CreditedWasOnChain /\ RowsRecorded /\ PayoutFollowsRow /\ Judging /\ Carried /\ Decided
  BY DEF CreditedWasOnChain, RowsRecorded, PayoutFollowsRow, Judging, Carried, Decided, Idle, NoRow
<1> QED BY <1>1, <1>2, <1>3 DEF IInv, Types

LEMMA StepInv == IInv /\ [Next]_vars => IInv'
<1> SUFFICES ASSUME IInv, [Next]_vars PROVE IInv'
  OBVIOUS
<1>1. CASE Extend \/ Reorg \/ \E b \in Blocks : PoolsCopyArrives(b)
  BY <1>1, NetworkStep
<1>2. CASE Restart
  BY <1>2, RestartStep
<1>3. ASSUME NEW b \in Blocks, Found(b) \/ SubStep(b) PROVE IInv'
  BY <1>3, HandedOnStep, SubmitStep, LookupStep, AgainStep, CreditStep, RetryRecordStep DEF SubStep
<1>4. CASE Judge
  BY <1>4, JudgeStartStep, JudgeFailsStep, JudgeRowStep, JudgeChainStep, JudgeOrphanStep, JudgeConfirmStep
     DEF Judge
<1>5. CASE UNCHANGED vars
  <2>1. UNCHANGED <<chain, known, onceActive, sub, blocks, payouts, judge>>
    BY <1>5 DEF vars, nodeVars, subVars, ledgerVars
  <2>2. JudgeTypes' /\ Judging' /\ Carried'
    BY <2>1 DEF IInv, Types, JudgeTypes, Judging, Carried, Height, Alone
  <2> QED BY <2>1, <2>2, JudgeReads
<1> QED BY <1>1, <1>2, <1>3, <1>4, <1>5 DEF Next

LEMMA Invariance == Spec => []IInv
<1>1. Init => IInv
  BY InitInv
<1>2. IInv /\ [Next]_vars => IInv'
  BY StepInv
<1> QED BY <1>1, <1>2, PTL DEF Spec

\* Whatever answers are lost and however often the node forks, a block that is credited was on the
\* active chain (reconcileBlock, submitBlock).
THEOREM CreditsOnlyTheChains == Spec => []CreditedWasOnChain
<1>1. IInv => CreditedWasOnChain
  BY DEF IInv
<1> QED BY <1>1, Invariance, PTL

\* The payout of a recorded block is paid or orphaned as its row is, for any order of records and
\* verdicts (SaveSoloBlockCoinbaseDirectAt, OrphanSoloBlock).
THEOREM PayoutsFollowRows == Spec => []PayoutFollowsRow
<1>1. IInv => PayoutFollowsRow
  BY DEF IInv
<1> QED BY <1>1, Invariance, PTL

\* A verdict reached over three reads and writes is the chain's for good, at any height where one
\* block of ours was ever on it (reconcilePendingSoloBlocks, heightIsOrphaned).
THEOREM VerdictsAreFinal == Spec => []VerdictIsTheChains
<1>1. IInv => VerdictIsTheChains
  <2> SUFFICES ASSUME IInv, NEW h \in Heights,
                      blocks[h].status \in {"confirmed", "orphaned"}, Alone(h)
               PROVE  blocks[h].status = "confirmed" <=> OnChain(blocks[h].hash)
    BY DEF VerdictIsTheChains
  <2>1. h <= Len(chain) - JudgeDepth /\ (blocks[h].status = "confirmed" <=> chain[h] = blocks[h].hash)
    BY DEF IInv, Decided
  <2>2. HeightOf[blocks[h].hash] = h
    BY DEF IInv, RowsRecorded, NoRow
  <2>3. h <= Len(chain)
    BY <2>1, DepthAssumption DEF IInv, Types, NodeTypes, Heights
  <2> QED BY <2>1, <2>2, <2>3 DEF OnChain
<1> QED BY <1>1, Invariance, PTL

=============================================================================
