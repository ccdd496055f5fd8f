----------------------------- MODULE AuxProofs -----------------------------
(***************************************************************************)
(* Merge mining keeps its promises: what a solved 1175 block becomes       *)
(* (AuxLedger), and the cache of the work it is mined on (AuxPoller).      *)
(*                                                                         *)
(* AuxLedger, for any 1175 blocks, heights and finders, and any depth of   *)
(* reorganization below the maturity: a height has one finder credited,    *)
(* what is paid is on the chain, and a block on the chain is not given up. *)
(* The credits and the rows are written in separate steps, by the handler  *)
(* and by the cycle, which acts on what it listed before.  So the          *)
(* invariant says what a listed row and a row judged confirmed still mean  *)
(* when the cycle comes to them (Listed, ConfirmedIsBuried), and which     *)
(* finder the credits of a height are for (CreditsFollowRows).             *)
(*                                                                         *)
(* AuxPoller, for any set of addresses: the cached work pays the address   *)
(* in effect, and no second poller is ever started.                        *)
(* WorkPaysAddressInEffect is not inductive: the step that stores an       *)
(* answer keeps it only if the thread holding the answer asked for the     *)
(* address of the generation it carries.  PollerCarries and WatcherCarries *)
(* say that, and OnlyOne ties auxRefreshActive to the thread it stands for.*)
(***************************************************************************)
EXTENDS AuxLedger, AuxPoller, FiniteSetTheorems, WellFoundedInduction, TLAPS

Statuses == {"pending", "confirmed", "orphaned"}
Recorded == [hash : Blocks, status : Statuses, distributed : BOOLEAN]
RowTypes == {NoRow} \cup Recorded
SubPlaces == {"none", "send", "askOnce", "askAgain", "check", "write", "void", "distribute", "done", "kept",
              "dropped", "stopped"}
Changes == {"replaced", "restored"}
CreditMarks == {"none", "pending", "paid", "orphaned"}
CyclePlaces == {"idle", "redistribute", "judge", "orphan", "confirm", "recheck", "restore", "settle"}
CycleTypes == [pc : CyclePlaces, todo : SUBSET (Heights \X Blocks), tip : Nat]

LedgerTypes ==
    /\ chain \in Seq(Blocks \cup {Other}) /\ connected \in 0..Len(chain) /\ known \subseteq Blocks
    /\ sub \in [Blocks -> SubPlaces] /\ tries \in [Blocks -> Nat]
    /\ rows \in [Heights -> RowTypes]
    /\ credits \in [Finders \X Heights -> CreditMarks]
    /\ cycle \in CycleTypes
    /\ faults \in Nat
    /\ past \in [Heights -> SUBSET Changes]

\* A block of ours on the chain is one the node was given.
GivenByUs == \A b \in Blocks : OnChain(b) => b \in known

\* A row is at its block's height, and there before its credits are written.
RowsPlaced ==
    /\ \A h \in Heights : rows[h] # NoRow => HeightOf[rows[h].hash] = h
    /\ \A b \in Blocks : sub[b] \in {"void", "distribute"} => rows[HeightOf[b]] # NoRow

Kept(h) == "replaced" \notin past[h]

\* What the cycle has listed was recorded, and is recorded still if its height's row was kept.
Listed ==
    /\ \A i \in cycle.todo : /\ rows[i[1]] # NoRow
                             /\ Kept(i[1]) => rows[i[1]].hash = i[2]
    /\ cycle.pc \in {"orphan", "confirm", "restore"} => cycle.todo # {}

\* A block as deep as no reorganization goes.
Buried(b) == OnChain(b) /\ HeightOf[b] + Maturity <= Len(chain) + 1

\* What is confirmed, or about to be, is buried.
ConfirmedIsBuried ==
    /\ \A h \in Heights : rows[h].status = "confirmed" /\ Kept(h) => Buried(rows[h].hash)
    /\ cycle.pc = "confirm" => Buried(Item[2])

\* A credit that is paid, or will be.
Live(m, h) == credits[<<m, h>>] \in {"pending", "paid"}

\* Credits of a height: only the finder of its row has one, while the row is kept; and only one is
\* pending or paid, while none was restored.
CreditsFollowRows ==
    /\ \A h \in Heights : Kept(h) =>
          \A m \in Finders : credits[<<m, h>>] # "none" => rows[h] # NoRow /\ m = FinderOf[rows[h].hash]
    /\ \A h \in Heights : "restored" \notin past[h] =>
          \A m, n \in Finders : Live(m, h) /\ Live(n, h) => m = n

IInv == LedgerTypes /\ GivenByUs /\ RowsPlaced /\ Listed /\ ConfirmedIsBuried /\ CreditsFollowRows

\* The row the cycle takes next is one it listed.
LEMMA FirstListed ==
  ASSUME LedgerTypes, cycle.todo # {}
  PROVE  Item \in cycle.todo
<1> DEFINE hs == {i[1] : i \in cycle.todo}
<1>1. hs \subseteq Nat /\ hs # {} BY DEF LedgerTypes, CycleTypes, Heights
<1>2. \E x \in hs : \A y \in hs : ~(<<y, x>> \in OpToRel(<, Nat))
  <2> HIDE DEF hs
  <2> QED BY <1>1, NatLessThanWellFounded, WFMin
<1>3. PICK i \in cycle.todo : \A j \in cycle.todo : ~(<<j[1], i[1]>> \in OpToRel(<, Nat)) BY <1>2
<1>4. ASSUME NEW j \in cycle.todo PROVE i[1] <= j[1]
  <2>1. i[1] \in Nat /\ j[1] \in Nat BY <1>1
  <2>2. ~(j[1] < i[1]) BY <1>3, <2>1 DEF OpToRel
  <2> QED BY <2>1, <2>2
<1> QED BY <1>4 DEF Item

\* Its height and its block.
LEMMA ItemTyped ==
  ASSUME LedgerTypes, cycle.todo # {}
  PROVE  Item[1] \in Heights /\ Item[2] \in Blocks
BY FirstListed DEF LedgerTypes, CycleTypes

\* The lesser of two numbers.
LEMMA MinOfTwo ==
  ASSUME NEW i \in Nat, NEW j \in Nat
  PROVE  Min({i, j}) <= i /\ Min({i, j}) <= j /\ Min({i, j}) \in Nat
<1>1. \E x \in {i, j} : \A y \in {i, j} : x =< y
  <2>1. CASE i <= j BY <2>1
  <2>2. CASE j <= i BY <2>2
  <2> QED BY <2>1, <2>2
<1>2. Min({i, j}) \in {i, j} /\ \A y \in {i, j} : Min({i, j}) =< y BY <1>1 DEF Min
<1> QED BY <1>2

\* What a step may do to the chain: blocks that are buried stay, and a block of ours is put on it only
\* at its height, and only when the node has it.
Grows ==
    /\ chain' \in Seq(Blocks \cup {Other}) /\ connected' \in 0..Len(chain')
    /\ known \subseteq known' /\ known' \subseteq Blocks
    /\ Len(chain') >= Len(chain)
    /\ \A h \in 1..Len(chain) : h <= Len(chain) - MaxReorg => chain'[h] = chain[h]
    /\ \A h \in 1..Len(chain') : chain'[h] \in Blocks =>
          chain'[h] \in known' \/ (h <= Len(chain) /\ chain'[h] = chain[h])

\* Every step does no more to it.
LEMMA ChainGrows ==
  ASSUME IInv, [Next]_vars
  PROVE  Grows
<1> USE OtherAssumption, BlocksAssumption, DepthAssumption
<1>0. /\ chain \in Seq(Blocks \cup {Other}) /\ connected \in 0..Len(chain) /\ known \subseteq Blocks
      /\ Len(chain) \in Nat
  BY DEF IInv, LedgerTypes
<1>1. ASSUME NEW x \in Blocks \cup {Other}, chain' = Append(chain, x), connected' = Len(chain'),
             x \in Blocks => x \in known', known \subseteq known', known' \subseteq Blocks
      PROVE  Grows
  <2>1. /\ Len(chain') = Len(chain) + 1 /\ chain' \in Seq(Blocks \cup {Other})
        /\ \A h \in 1..Len(chain) : chain'[h] = chain[h]
        /\ chain'[Len(chain) + 1] = x
    BY <1>0, <1>1
  <2> QED BY <1>0, <1>1, <2>1 DEF Grows
<1>2. ASSUME chain' = chain, connected' \in 0..Len(chain), known \subseteq known', known' \subseteq Blocks
      PROVE  Grows
  BY <1>0, <1>2 DEF Grows
<1>3. CASE Extend BY <1>0, <1>1, <1>3 DEF Extend, SetChain
<1>4. CASE Reorg
  <2>1. PICK n \in 1..Min({MaxReorg, Len(chain)}), mine \in known \cup {Other} :
           LET base == Len(chain) - n
           IN  SetChain([h \in 1..(base + n + 1) |->
                            IF h <= base THEN chain[h]
                            ELSE IF mine # Other /\ HeightOf[mine] = h THEN mine ELSE Other])
    BY <1>4 DEF Reorg
  <2>2. n \in Nat /\ n <= MaxReorg /\ n <= Len(chain)
    BY <1>0, MinOfTwo
  <2>3. /\ chain' = [h \in 1..(Len(chain) + 1) |->
                        IF h <= Len(chain) - n THEN chain[h]
                        ELSE IF mine # Other /\ HeightOf[mine] = h THEN mine ELSE Other]
        /\ connected' = Len(chain') /\ known' = known
    <3>1. Len(chain) - n + n + 1 = Len(chain) + 1 BY <1>0, <2>2
    <3> QED BY <1>4, <2>1, <3>1 DEF Reorg, SetChain
  <2>4. /\ chain' \in Seq(Blocks \cup {Other}) /\ Len(chain') = Len(chain) + 1
    BY <1>0, <2>2, <2>3
  <2>5. \A h \in 1..Len(chain') : chain'[h] = IF h <= Len(chain) - n THEN chain[h]
                        ELSE IF mine # Other /\ HeightOf[mine] = h THEN mine ELSE Other
    BY <2>3, <2>4
  <2>6. \A h \in 1..Len(chain) : h <= Len(chain) - MaxReorg => chain'[h] = chain[h]
    BY <1>0, <2>2, <2>4, <2>5
  <2>7. \A h \in 1..Len(chain') : chain'[h] \in Blocks =>
          chain'[h] \in known' \/ (h <= Len(chain) /\ chain'[h] = chain[h])
    BY <1>0, <2>2, <2>3, <2>4, <2>5
  <2>8. connected' \in 0..Len(chain') /\ Len(chain') >= Len(chain) BY <1>0, <2>3, <2>4
  <2>9. known \subseteq known' /\ known' \subseteq Blocks BY <1>0, <2>3
  <2> QED BY <2>4, <2>6, <2>7, <2>8, <2>9 DEF Grows
<1>5. CASE Resync \/ Connect
  BY <1>0, <1>2, <1>5 DEF Resync, Connect, CaughtUp
<1>6. ASSUME NEW b \in Blocks, Send(b) PROVE Grows
  <2>1. CASE Takes(b)
    BY <1>0, <1>1, <1>2, <2>1 DEF Takes, SetChain
  <2>2. CASE UNCHANGED nodeVars BY <1>0, <1>2, <2>2 DEF nodeVars
  <2> QED BY <1>6, <2>1, <2>2 DEF Send
<1>7. ASSUME UNCHANGED nodeVars PROVE Grows
  BY <1>0, <1>2, <1>7 DEF nodeVars
<1>8. ASSUME NEW b \in Blocks, Solved(b) \/ Ask(b) \/ Check(b) \/ Write(b) \/ Void(b) \/ HandlerDistributes(b)
      PROVE Grows
  BY <1>7, <1>8 DEF Solved, Ask, Check, Write, Void, HandlerDistributes
<1>9. CASE Restart \/ Cycle \/ UNCHANGED vars
  BY <1>7, <1>9 DEF Restart, Cycle, CycleStarts, Redistribute, ReadChainState, JudgeNext, MarkOrphan,
                    MarkConfirmed, ReadOrphans, RecheckNext, Restore, Settle, vars
<1> QED BY <1>3, <1>4, <1>5, <1>6, <1>8, <1>9 DEF Next, Handle

\* A buried block stays buried.
LEMMA StaysBuried ==
  ASSUME IInv, [Next]_vars, NEW b \in Blocks, Buried(b)
  PROVE  Buried(b)'
<1>1. chain \in Seq(Blocks \cup {Other}) /\ Len(chain) \in Nat BY DEF IInv, LedgerTypes
<1>2. Grows BY ChainGrows
<1>3. HeightOf[b] \in 1..Len(chain) /\ HeightOf[b] <= Len(chain) - MaxReorg
  BY <1>1, BlocksAssumption, DepthAssumption DEF Buried, OnChain
<1>4. chain'[HeightOf[b]] = b /\ Len(chain') >= Len(chain) /\ Len(chain') \in Nat
  BY <1>2, <1>3 DEF Grows, Buried, OnChain
<1> QED BY <1>1, <1>3, <1>4, DepthAssumption DEF Buried, OnChain

\* A block of ours on the chain is one the node has.
LEMMA GivenKept ==
  ASSUME IInv, [Next]_vars
  PROVE  GivenByUs'
<1>1. chain \in Seq(Blocks \cup {Other}) /\ Len(chain) \in Nat BY DEF IInv, LedgerTypes
<1>2. Grows BY ChainGrows
<1>3. \A b \in Blocks : OnChain(b) => b \in known BY DEF IInv, GivenByUs
<1>4. ASSUME NEW b \in Blocks, OnChain(b)' PROVE b \in known'
  <2>1. HeightOf[b] \in 1..Len(chain') /\ chain'[HeightOf[b]] = b
    BY <1>2, <1>4, BlocksAssumption DEF OnChain, Grows
  <2>2. (HeightOf[b] <= Len(chain) /\ chain[HeightOf[b]] = b) \/ b \in known'
    BY <1>2, <2>1 DEF Grows
  <2> QED BY <1>2, <1>3, <2>2 DEF Grows, OnChain
<1> QED BY <1>4 DEF GivenByUs

\* A row of the ledger is one of the blocks', or none.
LEMMA RowFacts ==
  ASSUME LedgerTypes, NEW h \in Heights
  PROVE  /\ rows[h] \in RowTypes
         /\ rows[h] # NoRow <=> rows[h].hash \in Blocks
         /\ rows[h] # NoRow <=> rows[h].status \in Statuses
         /\ rows[h] # NoRow <=> rows[h] \in Recorded
BY OtherAssumption DEF LedgerTypes, RowTypes, NoRow, Statuses, Recorded

\* A row marked, and a row whose credits were written, is a row of the same block.
LEMMA RowMarked ==
  ASSUME NEW r \in Recorded, NEW s \in Statuses
  PROVE  /\ [r EXCEPT !.status = s] \in Recorded /\ [r EXCEPT !.distributed = TRUE] \in Recorded
         /\ [r EXCEPT !.status = s].hash = r.hash /\ [r EXCEPT !.distributed = TRUE].hash = r.hash
         /\ [r EXCEPT !.status = s].status = s /\ [r EXCEPT !.distributed = TRUE].status = r.status
BY DEF Recorded

\* What a step may do to the row of a height: it is not taken away, and another block's only while the
\* height is marked replaced; and a row is confirmed as the cycle had decided of the one it has in hand.
RowMoves(h) ==
    /\ past[h] \subseteq past'[h]
    /\ rows[h] # NoRow => rows'[h] # NoRow /\ ("replaced" \notin past'[h] => rows'[h].hash = rows[h].hash)
    /\ rows'[h] # NoRow => HeightOf[rows'[h].hash] = h
    /\ rows'[h].status = "confirmed" =>
          /\ rows[h] # NoRow /\ rows'[h].hash = rows[h].hash
          /\ rows[h].status = "confirmed" \/ (cycle.pc = "confirm" /\ h = Item[1])

\* A height's row is set to a row of the same block.
LEMMA RowSet ==
  ASSUME IInv, UNCHANGED past, NEW h \in Heights, rows[h] # NoRow, NEW r \in Recorded,
         rows' = [rows EXCEPT ![h] = r], r.hash = rows[h].hash,
         r.status = "confirmed" => rows[h].status = "confirmed" \/ (cycle.pc = "confirm" /\ h = Item[1])
  PROVE  rows' \in [Heights -> RowTypes] /\ \A g \in Heights : RowMoves(g)
<1>1. LedgerTypes /\ RowsPlaced BY DEF IInv
<1>2. rows' \in [Heights -> RowTypes] /\ rows'[h] = r /\ \A g \in Heights \ {h} : rows'[g] = rows[g]
  BY <1>1 DEF LedgerTypes, RowTypes, Recorded
<1>3. r # NoRow BY OtherAssumption DEF Recorded, NoRow
<1>4. \A g \in Heights : rows[g].status = "confirmed" => rows[g] # NoRow BY DEF NoRow
<1>5. ASSUME NEW g \in Heights PROVE RowMoves(g)
  <2>1. CASE g = h BY <1>1, <1>2, <1>3, <2>1 DEF RowMoves, RowsPlaced
  <2>2. CASE g # h BY <1>1, <1>2, <1>4, <2>2 DEF RowMoves, RowsPlaced
  <2> QED BY <2>1, <2>2
<1> QED BY <1>2, <1>5

\* The rows are as they were.
LEMMA RowsSame ==
  ASSUME IInv, UNCHANGED <<rows, past>>
  PROVE  rows' \in [Heights -> RowTypes] /\ \A h \in Heights : RowMoves(h)
<1>1. \A h \in Heights : rows[h].status = "confirmed" => rows[h] # NoRow BY DEF NoRow
<1> QED BY <1>1 DEF IInv, LedgerTypes, RowsPlaced, RowMoves

\* Distribute1175Block keeps the rows to their blocks.
LEMMA RowDistributed ==
  ASSUME IInv, UNCHANGED past, NEW h \in Heights, rows[h] # NoRow, Distribute(h)
  PROVE  rows' \in [Heights -> RowTypes] /\ \A g \in Heights : RowMoves(g)
<1>1. CASE UNCHANGED rows BY <1>1, RowsSame
<1>2. CASE rows' = [rows EXCEPT ![h].distributed = TRUE]
  <2> DEFINE r == [rows[h] EXCEPT !.distributed = TRUE]
  <2>1. rows' = [rows EXCEPT ![h] = r] BY <1>2
  <2>2. r \in Recorded /\ r.hash = rows[h].hash /\ r.status = rows[h].status
    BY RowFacts, RowMarked DEF IInv, Statuses
  <2> HIDE DEF r
  <2> QED BY <2>1, <2>2, RowSet
<1> QED BY <1>1, <1>2 DEF Distribute

\* The rows and their history after a step.
RowsMove ==
    /\ rows' \in [Heights -> RowTypes] /\ past' \in [Heights -> SUBSET Changes]
    /\ \A h \in Heights : RowMoves(h)

\* Every step does no more to the rows.
LEMMA RowsMoved ==
  ASSUME IInv, [Next]_vars
  PROVE  RowsMove
<1>1. ASSUME NEW b \in Blocks, Write(b) PROVE RowsMove
  <2> DEFINE h == HeightOf[b]
  <2>0. h \in Heights BY BlocksAssumption DEF Heights
  <2>1. CASE UNCHANGED <<rows, past>> BY <2>1, RowsSame DEF RowsMove, IInv, LedgerTypes
  <2>2. CASE /\ rows' = [rows EXCEPT ![h] = [hash |-> b, status |-> "pending", distributed |-> FALSE]]
             /\ (rows[h] = NoRow /\ UNCHANGED past) \/ Happened(h, "replaced")
    <3>1. (rows[h] = NoRow /\ UNCHANGED past) \/ Happened(h, "replaced") BY <2>2
    <3>2. past' \in [Heights -> SUBSET Changes] /\ \A g \in Heights : past[g] \subseteq past'[g]
      <4>1. past \in [Heights -> SUBSET Changes] BY DEF IInv, LedgerTypes
      <4>2. CASE UNCHANGED past BY <4>1, <4>2
      <4>3. CASE Happened(h, "replaced")
        BY <2>0, <4>1, <4>3 DEF Happened, Changes
      <4> QED BY <3>1, <4>2, <4>3
    <3>3. rows[h] # NoRow => "replaced" \in past'[h]
      BY <2>0, <3>1 DEF Happened, Changes, IInv, LedgerTypes
    <3>4. /\ rows' \in [Heights -> RowTypes]
          /\ rows'[h] = [hash |-> b, status |-> "pending", distributed |-> FALSE]
          /\ \A g \in Heights \ {h} : rows'[g] = rows[g]
      BY <2>0, <2>2 DEF IInv, LedgerTypes, RowTypes, Recorded, Statuses
    <3>5. rows'[h] # NoRow /\ rows'[h].hash = b /\ rows'[h].status # "confirmed"
      BY <3>4 DEF NoRow
    <3>6. ASSUME NEW g \in Heights PROVE RowMoves(g)
      <4>1. CASE g = h BY <3>2, <3>3, <3>5, <4>1 DEF RowMoves
      <4>2. CASE g # h
        <5>1. rows'[g] = rows[g] BY <3>4, <4>2
        <5>2. rows[g].status = "confirmed" => rows[g] # NoRow BY DEF NoRow
        <5> QED BY <3>2, <5>1, <5>2 DEF RowMoves, IInv, RowsPlaced
      <4> QED BY <4>1, <4>2
    <3> QED BY <3>2, <3>4, <3>6 DEF RowsMove
  <2> QED BY <1>1, <2>1, <2>2 DEF Write
<1>2. ASSUME NEW b \in Blocks, HandlerDistributes(b) PROVE RowsMove
  <2>1. HeightOf[b] \in Heights BY BlocksAssumption DEF Heights
  <2>2. rows[HeightOf[b]] # NoRow BY <1>2 DEF HandlerDistributes, IInv, RowsPlaced
  <2>3. UNCHANGED past BY <1>2 DEF HandlerDistributes
  <2>4. CASE Distribute(HeightOf[b]) BY <2>1, <2>2, <2>3, <2>4, RowDistributed DEF RowsMove, IInv, LedgerTypes
  <2>5. CASE UNCHANGED rows BY <2>3, <2>5, RowsSame DEF RowsMove, IInv, LedgerTypes
  <2> QED BY <1>2, <2>4, <2>5 DEF HandlerDistributes
<1>3. ASSUME Redistribute PROVE RowsMove
  <2>1. cycle.todo # {} /\ UNCHANGED past BY <1>3 DEF Redistribute
  <2>2. Item[1] \in Heights /\ rows[Item[1]] # NoRow
    BY <2>1, FirstListed, ItemTyped DEF IInv, Listed
  <2>3. CASE Distribute(Item[1]) BY <2>1, <2>2, <2>3, RowDistributed DEF RowsMove, IInv, LedgerTypes
  <2>4. CASE UNCHANGED rows BY <2>1, <2>4, RowsSame DEF RowsMove, IInv, LedgerTypes
  <2> QED BY <1>3, <2>3, <2>4 DEF Redistribute
<1>4. ASSUME MarkOrphan PROVE RowsMove
  <2> DEFINE h == Item[1]
             s == "orphaned"
             r == [rows[h] EXCEPT !.status = s]
  <2>1. cycle.pc = "orphan" /\ cycle.todo # {} BY <1>4 DEF MarkOrphan, IInv, Listed
  <2>2. h \in Heights /\ rows[h] # NoRow BY <2>1, FirstListed, ItemTyped DEF IInv, Listed
  <2>3. rows' = [rows EXCEPT ![h] = r] /\ UNCHANGED past BY <1>4 DEF MarkOrphan
  <2>4. r \in Recorded /\ r.hash = rows[h].hash /\ r.status # "confirmed"
    <3>1. rows[h] \in Recorded BY <2>2, RowFacts DEF IInv
    <3>2. s \in Statuses BY <3>1 DEF Recorded, Statuses
    <3> HIDE DEF s
    <3>3. r \in Recorded /\ r.hash = rows[h].hash /\ r.status = s BY <3>1, <3>2, RowMarked
    <3> QED BY <3>3 DEF s
  <2> HIDE DEF h, r
  <2>5. rows' \in [Heights -> RowTypes] /\ \A g \in Heights : RowMoves(g)
    BY <2>1, <2>2, <2>3, <2>4, RowSet DEF h
  <2> QED BY <2>3, <2>5 DEF RowsMove, IInv, LedgerTypes
<1>5. ASSUME MarkConfirmed PROVE RowsMove
  <2> DEFINE h == Item[1]
             s == IF rows[h].status = "pending" THEN "confirmed" ELSE rows[h].status
             r == [rows[h] EXCEPT !.status = s]
  <2>1. cycle.pc = "confirm" /\ cycle.todo # {} BY <1>5 DEF MarkConfirmed, IInv, Listed
  <2>2. h \in Heights /\ rows[h] # NoRow BY <2>1, FirstListed, ItemTyped DEF IInv, Listed
  <2>3. rows' = [rows EXCEPT ![h] = r] /\ UNCHANGED past BY <1>5 DEF MarkConfirmed
  <2>4. r \in Recorded /\ r.hash = rows[h].hash /\ TRUE
    <3>1. rows[h] \in Recorded BY <2>2, RowFacts DEF IInv
    <3>2. s \in Statuses BY <3>1 DEF Recorded, Statuses
    <3> HIDE DEF s
    <3>3. r \in Recorded /\ r.hash = rows[h].hash /\ r.status = s BY <3>1, <3>2, RowMarked
    <3> QED BY <3>3 DEF s
  <2> HIDE DEF h, r
  <2>5. rows' \in [Heights -> RowTypes] /\ \A g \in Heights : RowMoves(g)
    BY <2>1, <2>2, <2>3, <2>4, RowSet DEF h
  <2> QED BY <2>3, <2>5 DEF RowsMove, IInv, LedgerTypes
<1>6. ASSUME Restore PROVE RowsMove
  <2>1. CASE UNCHANGED ledgerVars
    <3>1. UNCHANGED <<rows, past>> BY <2>1 DEF ledgerVars
    <3> QED BY <3>1, RowsSame DEF RowsMove, IInv, LedgerTypes
  <2>2. CASE ~UNCHANGED ledgerVars
    <3> DEFINE h == Item[1]
               r == [rows[h] EXCEPT !.status = "pending"]
    <3>1. cycle.todo # {} BY <1>6 DEF Restore, IInv, Listed
    <3>2. h \in Heights /\ rows[h] # NoRow BY <3>1, FirstListed, ItemTyped DEF IInv, Listed
    <3>3. rows' = [rows EXCEPT ![h] = r] /\ Happened(h, "restored") BY <1>6, <2>2 DEF Restore
    <3>4. r \in Recorded /\ r.hash = rows[h].hash /\ r.status # "confirmed"
      BY <3>2, RowFacts, RowMarked DEF IInv, Statuses
    <3> HIDE DEF h, r
    <3>5. past' \in [Heights -> SUBSET Changes] /\ \A g \in Heights : past[g] \subseteq past'[g]
      BY <3>2, <3>3 DEF Happened, Changes, IInv, LedgerTypes
    <3>6. rows' \in [Heights -> RowTypes] /\ rows'[h] = r /\ \A g \in Heights \ {h} : rows'[g] = rows[g]
      BY <3>2, <3>3, <3>4 DEF IInv, LedgerTypes, RowTypes, Recorded
    <3>7. r # NoRow BY <3>4, OtherAssumption DEF Recorded, NoRow
    <3>8. ASSUME NEW g \in Heights PROVE RowMoves(g)
      <4>1. CASE g = h BY <3>2, <3>4, <3>5, <3>6, <3>7, <4>1 DEF RowMoves, IInv, RowsPlaced
      <4>2. CASE g # h
        <5>1. rows'[g] = rows[g] BY <3>6, <4>2
        <5>2. rows[g].status = "confirmed" => rows[g] # NoRow BY DEF NoRow
        <5> QED BY <3>5, <5>1, <5>2 DEF RowMoves, IInv, RowsPlaced
      <4> QED BY <4>1, <4>2
    <3> QED BY <3>5, <3>6, <3>8 DEF RowsMove
  <2> QED BY <2>1, <2>2
<1>7. ASSUME NEW b \in Blocks, Solved(b) \/ Send(b) \/ Ask(b) \/ Check(b) \/ Void(b)
      PROVE  RowsMove
  <2>1. UNCHANGED <<rows, past>>
    BY <1>7 DEF Solved, Send, Ask, Check, Void, Goto, nodeVars, subVars, ledgerVars
  <2> QED BY <2>1, RowsSame DEF RowsMove, IInv, LedgerTypes
<1>8. ASSUME Extend \/ Reorg \/ Resync \/ Connect \/ Restart \/ CycleStarts
                   \/ ReadChainState \/ JudgeNext \/ ReadOrphans \/ RecheckNext \/ Settle
                   \/ UNCHANGED vars
      PROVE  RowsMove
  <2>1. UNCHANGED <<rows, past>>
    BY <1>8 DEF Extend, Reorg, Resync, Connect, Restart, CycleStarts, ReadChainState, JudgeNext,
             ReadOrphans, RecheckNext, Settle, Go, Goto, SetChain, vars, nodeVars, subVars,
             ledgerVars
  <2> QED BY <2>1, RowsSame DEF RowsMove, IInv, LedgerTypes
<1> QED BY <1>1, <1>2, <1>3, <1>4, <1>5, <1>6, <1>7, <1>8 DEF Next, Handle, Cycle

\* What a step may do to the credits of a height: a miner that had none is credited only as the finder of
\* its row; and either the height is restored, or none is live that was not, or one finder's alone is.
CreditsMove(h) ==
    /\ \A m \in Finders : credits'[<<m, h>>] # "none" =>
          credits[<<m, h>>] # "none" \/ (rows[h] # NoRow /\ m = FinderOf[rows[h].hash])
    /\ \/ "restored" \in past'[h]
       \/ \A m \in Finders : Live(m, h)' => Live(m, h)
       \/ \E f \in Finders : \A m \in Finders : Live(m, h)' => m = f

\* The credits after a step.
CreditsMoves == credits' \in [Finders \X Heights -> CreditMarks] /\ \A h \in Heights : CreditsMove(h)

\* The credits are as they were.
LEMMA CreditsSame ==
  ASSUME IInv, UNCHANGED credits
  PROVE  CreditsMoves
BY DEF IInv, LedgerTypes, CreditsMoves, CreditsMove, Live

\* Distribute1175Block leaves the finder of the row the height's only live credit.
LEMMA CreditsDistributed ==
  ASSUME IInv, NEW h \in Heights, rows[h] # NoRow, Distribute(h)
  PROVE  CreditsMoves
<1> DEFINE f == FinderOf[rows[h].hash]
<1>1. CASE UNCHANGED credits BY <1>1, CreditsSame
<1>2. CASE credits' = Credited(h, f) /\ \A m \in Finders : credits[<<m, h>>] # "paid"
  <2>1. rows[h].hash \in Blocks BY RowFacts DEF IInv
  <2>2. f \in Finders BY <2>1 DEF Finders
  <2>3. credits \in [Finders \X Heights -> CreditMarks] BY DEF IInv, LedgerTypes
  <2> HIDE DEF f
  <2>4. credits' \in [Finders \X Heights -> CreditMarks]
    BY <1>2, <2>3 DEF Credited, CreditMarks
  <2>5. ASSUME NEW m \in Finders, NEW g \in Heights
        PROVE  credits'[<<m, g>>] =
                  IF g # h \/ credits[<<m, g>>] \notin {"none", "pending"} THEN credits[<<m, g>>]
                  ELSE IF m = f THEN "pending" ELSE "none"
    BY <1>2, <2>3 DEF Credited
  <2>6. ASSUME NEW g \in Heights PROVE CreditsMove(g)
    <3>1. CASE g = h BY <1>2, <2>2, <2>5, <3>1 DEF CreditsMove, Live, f
    <3>2. CASE g # h BY <2>5, <3>2 DEF CreditsMove, Live
    <3> QED BY <3>1, <3>2
  <2> QED BY <2>4, <2>6 DEF CreditsMoves
<1> QED BY <1>1, <1>2 DEF Distribute

\* Pending credits that are orphaned are live no more.
LEMMA CreditsOrphaned ==
  ASSUME IInv, NEW h, SetPending(h, "orphaned")
  PROVE  CreditsMoves
<1>1. credits \in [Finders \X Heights -> CreditMarks] BY DEF IInv, LedgerTypes
<1>2. credits' \in [Finders \X Heights -> CreditMarks] BY <1>1 DEF SetPending, CreditMarks
<1>3. ASSUME NEW m \in Finders, NEW g \in Heights
      PROVE  \/ credits'[<<m, g>>] = credits[<<m, g>>]
             \/ credits[<<m, g>>] = "pending" /\ credits'[<<m, g>>] = "orphaned"
  BY <1>1 DEF SetPending
<1> QED BY <1>2, <1>3 DEF CreditsMoves, CreditsMove, Live

\* Every step does no more to the credits.
LEMMA CreditsMoved ==
  ASSUME IInv, [Next]_vars
  PROVE  CreditsMoves
<1>1. ASSUME NEW b \in Blocks, Void(b) PROVE CreditsMoves
  BY <1>1, CreditsSame, CreditsOrphaned DEF Void
<1>2. ASSUME NEW b \in Blocks, HandlerDistributes(b) PROVE CreditsMoves
  <2>1. HeightOf[b] \in Heights BY BlocksAssumption DEF Heights
  <2>2. rows[HeightOf[b]] # NoRow BY <1>2 DEF HandlerDistributes, IInv, RowsPlaced
  <2>3. CASE Distribute(HeightOf[b]) BY <2>1, <2>2, <2>3, CreditsDistributed
  <2>4. CASE UNCHANGED credits BY <2>4, CreditsSame
  <2> QED BY <1>2, <2>3, <2>4 DEF HandlerDistributes
<1>3. ASSUME Redistribute PROVE CreditsMoves
  <2>1. cycle.todo # {} BY <1>3 DEF Redistribute
  <2>2. Item[1] \in Heights /\ rows[Item[1]] # NoRow
    BY <2>1, FirstListed, ItemTyped DEF IInv, Listed
  <2>3. CASE Distribute(Item[1]) BY <2>2, <2>3, CreditsDistributed
  <2>4. CASE UNCHANGED credits BY <2>4, CreditsSame
  <2> QED BY <1>3, <2>3, <2>4 DEF Redistribute
<1>4. ASSUME MarkOrphan PROVE CreditsMoves
  BY <1>4, CreditsOrphaned DEF MarkOrphan
<1>5. ASSUME Restore PROVE CreditsMoves
  <2>1. CASE UNCHANGED ledgerVars BY <2>1, CreditsSame DEF ledgerVars
  <2>2. CASE ~UNCHANGED ledgerVars
    <3>1. credits \in [Finders \X Heights -> CreditMarks] BY DEF IInv, LedgerTypes
    <3>2. /\ credits' = [c \in Finders \X Heights |->
                            IF c[2] = Item[1] /\ credits[c] = "orphaned" THEN "pending" ELSE credits[c]]
          /\ Happened(Item[1], "restored")
      BY <1>5, <2>2, <3>1 DEF Restore
    <3>3. credits' \in [Finders \X Heights -> CreditMarks] BY <3>1, <3>2 DEF CreditMarks
    <3>4. ASSUME NEW m \in Finders, NEW h \in Heights
          PROVE  \/ credits'[<<m, h>>] = credits[<<m, h>>]
                 \/ credits[<<m, h>>] # "none" /\ h = Item[1]
      BY <3>2
    <3>5. ASSUME NEW h \in Heights, h = Item[1] PROVE "restored" \in past'[h]
      BY <3>2, <3>5 DEF Happened, Changes, IInv, LedgerTypes
    <3> QED BY <3>3, <3>4, <3>5 DEF CreditsMoves, CreditsMove, Live
  <2> QED BY <2>1, <2>2
<1>6. ASSUME Settle PROVE CreditsMoves
  <2>1. credits \in [Finders \X Heights -> CreditMarks] BY DEF IInv, LedgerTypes
  <2>2. credits' = [c \in Finders \X Heights |-> IF Settleable(c) THEN "paid" ELSE credits[c]]
    BY <1>6, <2>1 DEF Settle
  <2>3. credits' \in [Finders \X Heights -> CreditMarks] BY <2>1, <2>2 DEF CreditMarks
  <2>4. ASSUME NEW m \in Finders, NEW h \in Heights
        PROVE  \/ credits'[<<m, h>>] = credits[<<m, h>>]
               \/ credits[<<m, h>>] = "pending" /\ credits'[<<m, h>>] = "paid"
    BY <2>2 DEF Settleable
  <2> QED BY <2>3, <2>4 DEF CreditsMoves, CreditsMove, Live
<1>7. ASSUME NEW b \in Blocks, Solved(b) \/ Send(b) \/ Ask(b) \/ Check(b) \/ Write(b)
      PROVE  CreditsMoves
  <2>1. UNCHANGED <<credits>>
    BY <1>7 DEF Solved, Send, Ask, Check, Write, Goto, nodeVars, subVars, ledgerVars
  <2> QED BY <2>1, CreditsSame
<1>8. ASSUME Extend \/ Reorg \/ Resync \/ Connect \/ Restart \/ CycleStarts
                   \/ ReadChainState \/ JudgeNext \/ MarkConfirmed \/ ReadOrphans \/ RecheckNext
                   \/ UNCHANGED vars
      PROVE  CreditsMoves
  <2>1. UNCHANGED <<credits>>
    BY <1>8 DEF Extend, Reorg, Resync, Connect, Restart, CycleStarts, ReadChainState, JudgeNext,
             MarkConfirmed, ReadOrphans, RecheckNext, Go, Goto, SetChain, vars, nodeVars,
             subVars, ledgerVars
  <2> QED BY <2>1, CreditsSame
<1> QED BY <1>1, <1>2, <1>3, <1>4, <1>5, <1>6, <1>7, <1>8 DEF Next, Handle, Cycle

\* The cycle after a step: what it lists it listed before, or reads of the ledger now; and it has a block in
\* hand when it acts on one, which it confirms only when the node answered that it is mature.
CycleMoves ==
    /\ cycle' \in CycleTypes
    /\ \A i \in cycle'.todo : i \in cycle.todo \/ (rows'[i[1]] # NoRow /\ rows'[i[1]].hash = i[2])
    /\ cycle'.pc \in {"orphan", "confirm", "restore"} => cycle'.todo # {}
    /\ cycle'.pc = "confirm" =>
          /\ cycle'.todo = cycle.todo
          /\ cycle.pc = "confirm" \/ Confirmations(Item[2]) >= Maturity

\* The cycle goes to a place with some of the rows it has listed.
LEMMA CycleGoes ==
  ASSUME IInv, NEW p \in CyclePlaces, NEW t \in SUBSET (Heights \X Blocks), Go(p, t),
         \A i \in t : i \in cycle.todo \/ (rows'[i[1]] # NoRow /\ rows'[i[1]].hash = i[2]),
         p \in {"orphan", "confirm", "restore"} => t # {},
         p = "confirm" => t = cycle.todo /\ Confirmations(Item[2]) >= Maturity
  PROVE  CycleMoves
<1>1. cycle \in CycleTypes BY DEF IInv, LedgerTypes
<1>2. cycle' = [pc |-> p, todo |-> t, tip |-> cycle.tip] BY <1>1 DEF Go, CycleTypes
<1>3. cycle' \in CycleTypes BY <1>1, <1>2 DEF CycleTypes
<1>4. cycle'.pc = p /\ cycle'.todo = t BY <1>2
<1> QED BY <1>3, <1>4 DEF CycleMoves

\* The cycle is where it was.
LEMMA CycleSame ==
  ASSUME IInv, UNCHANGED cycle
  PROVE  CycleMoves
BY DEF IInv, LedgerTypes, Listed, CycleMoves

\* What the cycle reads of the ledger is recorded.
LEMMA ItemsRecorded ==
  ASSUME IInv, UNCHANGED rows, NEW hs \in SUBSET Heights, \A h \in hs : rows[h] # NoRow
  PROVE  /\ Items(hs) \in SUBSET (Heights \X Blocks)
         /\ \A i \in Items(hs) : rows'[i[1]] # NoRow /\ rows'[i[1]].hash = i[2]
<1>1. \A h \in hs : rows[h].hash \in Blocks BY RowFacts DEF IInv
<1> QED BY <1>1 DEF Items

\* And what it has not taken of it yet is listed still.
LEMMA RestListed ==
  ASSUME IInv
  PROVE  /\ Rest \in SUBSET (Heights \X Blocks) /\ \A i \in Rest : i \in cycle.todo
         /\ cycle.todo \in SUBSET (Heights \X Blocks) /\ Maturity > 0
BY DepthAssumption DEF IInv, LedgerTypes, CycleTypes, Rest

\* Every step does no more to the cycle.
LEMMA CycleMoved ==
  ASSUME IInv, [Next]_vars
  PROVE  CycleMoves
<1>1. ASSUME Restart PROVE CycleMoves
  BY <1>1 DEF Restart, Idle, CycleMoves, CycleTypes, CyclePlaces
<1>2. ASSUME CycleStarts PROVE CycleMoves
  <2>1. \A h \in Undistributed : rows[h] # NoRow BY DEF Undistributed, NoRow
  <2> QED BY <1>2, <2>1, ItemsRecorded, CycleGoes DEF CycleStarts, ledgerVars, Undistributed, CyclePlaces
<1>3. ASSUME Redistribute PROVE CycleMoves
  <2>1. Go("redistribute", Rest) BY <1>3 DEF Redistribute
  <2> QED BY <2>1, RestListed, CycleGoes DEF CyclePlaces
<1>4. ASSUME ReadChainState PROVE CycleMoves
  <2>1. cycle \in CycleTypes /\ Len(chain) \in Nat BY DEF IInv, LedgerTypes
  <2>2. CASE CaughtUp
    <3>1. \A h \in RowsWith("pending") : rows[h] # NoRow BY DEF RowsWith, NoRow
    <3>2. /\ Items(RowsWith("pending")) \in SUBSET (Heights \X Blocks)
          /\ \A i \in Items(RowsWith("pending")) : rows'[i[1]] # NoRow /\ rows'[i[1]].hash = i[2]
      BY <1>4, <3>1, ItemsRecorded DEF ReadChainState, ledgerVars, RowsWith
    <3>3. cycle' = [pc |-> "judge", todo |-> Items(RowsWith("pending")), tip |-> Len(chain)]
      BY <1>4, <2>2 DEF ReadChainState
    <3> QED BY <2>1, <3>2, <3>3 DEF CycleMoves, CycleTypes, CyclePlaces
  <2>3. CASE ~CaughtUp
    <3>1. cycle' = [cycle EXCEPT !.pc = "settle"] /\ cycle.todo = {} BY <1>4, <2>3 DEF ReadChainState
    <3>2. cycle' = [pc |-> "settle", todo |-> {}, tip |-> cycle.tip] BY <2>1, <3>1 DEF CycleTypes
    <3> QED BY <2>1, <3>2 DEF CycleMoves, CycleTypes, CyclePlaces
  <2> QED BY <2>2, <2>3
<1>5. ASSUME JudgeNext PROVE CycleMoves
  <2>1. cycle.todo # {} BY <1>5 DEF JudgeNext
  <2>2. \/ Go("orphan", cycle.todo)
        \/ Confirmations(Item[2]) >= Maturity /\ Go("confirm", cycle.todo)
        \/ Go("judge", Rest)
    BY <1>5 DEF JudgeNext
  <2>3. CASE Go("orphan", cycle.todo) BY <2>1, <2>3, RestListed, CycleGoes DEF CyclePlaces
  <2>4. CASE Confirmations(Item[2]) >= Maturity /\ Go("confirm", cycle.todo)
    BY <2>1, <2>4, RestListed, CycleGoes DEF CyclePlaces
  <2>5. CASE Go("judge", Rest) BY <2>5, RestListed, CycleGoes DEF CyclePlaces
  <2> QED BY <2>2, <2>3, <2>4, <2>5
<1>6. ASSUME MarkOrphan PROVE CycleMoves
  <2>1. Go("judge", Rest) BY <1>6 DEF MarkOrphan
  <2> QED BY <2>1, RestListed, CycleGoes DEF CyclePlaces
<1>7. ASSUME MarkConfirmed PROVE CycleMoves
  <2>1. Go("judge", Rest) BY <1>7 DEF MarkConfirmed
  <2> QED BY <2>1, RestListed, CycleGoes DEF CyclePlaces
<1>8. ASSUME ReadOrphans PROVE CycleMoves
  <2> DEFINE hs == {h \in RowsWith("orphaned") : h >= cycle.tip - RecheckDepth}
  <2>1. hs \in SUBSET Heights /\ \A h \in hs : rows[h] # NoRow BY DEF RowsWith, NoRow
  <2>2. Go("recheck", Items(hs)) /\ UNCHANGED rows BY <1>8 DEF ReadOrphans, ledgerVars
  <2> HIDE DEF hs
  <2> QED BY <2>1, <2>2, ItemsRecorded, CycleGoes DEF CyclePlaces
<1>9. ASSUME RecheckNext PROVE CycleMoves
  <2>1. \/ Go("settle", {})
        \/ cycle.todo # {} /\ Go("restore", cycle.todo)
        \/ Go("recheck", Rest)
    BY <1>9 DEF RecheckNext
  <2>2. CASE Go("settle", {}) BY <2>2, CycleGoes DEF CyclePlaces
  <2>3. CASE cycle.todo # {} /\ Go("restore", cycle.todo) BY <2>3, RestListed, CycleGoes DEF CyclePlaces
  <2>4. CASE Go("recheck", Rest) BY <2>4, RestListed, CycleGoes DEF CyclePlaces
  <2> QED BY <2>1, <2>2, <2>3, <2>4
<1>10. ASSUME Restore PROVE CycleMoves
  <2>1. Go("recheck", Rest) BY <1>10 DEF Restore
  <2> QED BY <2>1, RestListed, CycleGoes DEF CyclePlaces
<1>11. ASSUME Settle PROVE CycleMoves
  BY <1>11 DEF Settle, Idle, CycleMoves, CycleTypes, CyclePlaces
<1>12. ASSUME NEW b \in Blocks, Solved(b) \/ Send(b) \/ Ask(b) \/ Check(b) \/ Write(b) \/ Void(b)
                   \/ HandlerDistributes(b)
      PROVE  CycleMoves
  <2>1. UNCHANGED <<cycle>>
    BY <1>12 DEF Solved, Send, Ask, Check, Write, Void, HandlerDistributes, Goto, nodeVars, subVars,
             ledgerVars
  <2> QED BY <2>1, CycleSame
<1>13. ASSUME Extend \/ Reorg \/ Resync \/ Connect \/ UNCHANGED vars
      PROVE  CycleMoves
  <2>1. UNCHANGED <<cycle>>
    BY <1>13 DEF Extend, Reorg, Resync, Connect, Go, Goto, SetChain, vars, nodeVars, subVars,
             ledgerVars
  <2> QED BY <2>1, CycleSame
<1> QED BY <1>1, <1>2, <1>3, <1>4, <1>5, <1>6, <1>7, <1>8, <1>9, <1>10, <1>11, <1>12, <1>13 DEF Next, Handle, Cycle

\* Where the blocks are after a step: a block whose credits are to be written was recorded.
SubMoves ==
    /\ sub' \in [Blocks -> SubPlaces] /\ tries' \in [Blocks -> Nat] /\ faults' \in Nat
    /\ \A b \in Blocks : sub'[b] \in {"void", "distribute"} =>
          sub[b] \in {"void", "distribute"} \/ rows'[HeightOf[b]].hash = b

\* The blocks are where they were.
LEMMA SubSame ==
  ASSUME IInv, UNCHANGED subVars, faults' \in {faults, faults + 1}
  PROVE  SubMoves
BY DEF IInv, LedgerTypes, SubMoves, subVars

\* A block goes to a place.
LEMMA SubGoes ==
  ASSUME IInv, NEW b \in Blocks, NEW p \in SubPlaces, Goto(b, p),
         tries' \in [Blocks -> Nat], faults' \in {faults, faults + 1},
         p \in {"void", "distribute"} => sub[b] \in {"void", "distribute"} \/ rows'[HeightOf[b]].hash = b
  PROVE  SubMoves
<1>1. sub \in [Blocks -> SubPlaces] /\ faults \in Nat BY DEF IInv, LedgerTypes
<1>2. sub' = [sub EXCEPT ![b] = p] BY DEF Goto
<1> QED BY <1>1, <1>2 DEF SubMoves

\* Every step does no more to them.
LEMMA SubMoved ==
  ASSUME IInv, [Next]_vars
  PROVE  SubMoves
<1>0. sub \in [Blocks -> SubPlaces] /\ tries \in [Blocks -> Nat] /\ faults \in Nat BY DEF IInv, LedgerTypes
<1>1. ASSUME NEW b \in Blocks, Solved(b) PROVE SubMoves
  BY <1>0, <1>1, SubGoes DEF Solved, SubPlaces
<1>2. ASSUME NEW b \in Blocks, Send(b) PROVE SubMoves
  <2>1. tries' \in [Blocks -> Nat] BY <1>0, <1>2 DEF Send
  <2>2. PICK p \in {"check", "askAgain", "dropped", "askOnce"} : Goto(b, p) BY <1>2 DEF Send
  <2> QED BY <1>2, <2>1, <2>2, SubGoes DEF Send, SubPlaces
<1>3. ASSUME NEW b \in Blocks, Ask(b) PROVE SubMoves
  <2>1. tries' \in [Blocks -> Nat] BY <1>0, <1>3 DEF Ask
  <2>2. PICK p \in {"check", "send", "dropped"} : Goto(b, p) BY <1>3 DEF Ask, Unproven
  <2>3. faults' \in {faults, faults + 1} BY <1>3 DEF Ask, Fault
  <2> QED BY <2>1, <2>2, <2>3, SubGoes DEF SubPlaces
<1>4. ASSUME NEW b \in Blocks, Check(b) PROVE SubMoves
  <2>1. PICK p \in {"kept", "write"} : Goto(b, p) BY <1>4 DEF Check
  <2>2. tries' = tries /\ faults' \in {faults, faults + 1} BY <1>4 DEF Check, Fault
  <2> QED BY <1>0, <2>1, <2>2, SubGoes DEF SubPlaces
<1>5. ASSUME NEW b \in Blocks, Write(b) PROVE SubMoves
  <2>1. HeightOf[b] \in Heights /\ rows \in [Heights -> RowTypes]
    BY BlocksAssumption DEF Heights, IInv, LedgerTypes
  <2>2. PICK p \in {"distribute", "void", "check"} : Goto(b, p) /\ (p # "check" => rows'[HeightOf[b]].hash = b)
    BY <1>5, <2>1 DEF Write
  <2>3. tries' = tries /\ faults' \in {faults, faults + 1} BY <1>5 DEF Write, Fault
  <2> QED BY <1>0, <2>2, <2>3, SubGoes DEF SubPlaces
<1>6. ASSUME NEW b \in Blocks, Void(b) PROVE SubMoves
  <2>1. PICK p \in {"distribute", "check"} : Goto(b, p) BY <1>6 DEF Void
  <2>2. tries' = tries /\ faults' \in {faults, faults + 1} /\ sub[b] = "void" BY <1>6 DEF Void, Fault
  <2> QED BY <1>0, <2>1, <2>2, SubGoes DEF SubPlaces
<1>7. ASSUME NEW b \in Blocks, HandlerDistributes(b) PROVE SubMoves
  BY <1>0, <1>7, SubGoes DEF HandlerDistributes, Fault, SubPlaces
<1>8. CASE Restart
  BY <1>0, <1>8 DEF Restart, Fault, SubMoves, SubPlaces
<1>9. CASE Extend \/ Reorg \/ Resync \/ Connect \/ Cycle \/ UNCHANGED vars
  <2>1. UNCHANGED subVars /\ faults' \in {faults, faults + 1}
    BY <1>9 DEF Extend, Reorg, Resync, Connect, Cycle, CycleStarts, Redistribute, ReadChainState, JudgeNext,
                MarkOrphan, MarkConfirmed, ReadOrphans, RecheckNext, Restore, Settle, Fault, vars
  <2> QED BY <2>1, SubSame
<1> QED BY <1>1, <1>2, <1>3, <1>4, <1>5, <1>6, <1>7, <1>8, <1>9 DEF Next, Handle

\* Every step leaves the variables in their types.
LEMMA TypeKept ==
  ASSUME IInv, [Next]_vars
  PROVE  LedgerTypes'
BY ChainGrows, RowsMoved, CreditsMoved, CycleMoved, SubMoved
   DEF LedgerTypes, Grows, RowsMove, CreditsMoves, CycleMoves, SubMoves

\* A row stays at its block's height, and there while its credits are written.
LEMMA RowsStay ==
  ASSUME IInv, [Next]_vars
  PROVE  RowsPlaced'
<1>1. ASSUME NEW h \in Heights, rows'[h] # NoRow PROVE HeightOf[rows'[h].hash] = h
  BY <1>1, RowsMoved DEF RowsMove, RowMoves
<1>2. ASSUME NEW b \in Blocks, sub'[b] \in {"void", "distribute"} PROVE rows'[HeightOf[b]] # NoRow
  <2>1. HeightOf[b] \in Heights BY BlocksAssumption DEF Heights
  <2>2. CASE sub[b] \in {"void", "distribute"}
    BY <2>1, <2>2, RowsMoved DEF RowsMove, RowMoves, IInv, RowsPlaced
  <2>3. CASE rows'[HeightOf[b]].hash = b BY <2>3, OtherAssumption DEF NoRow
  <2> QED BY <1>2, <2>2, <2>3, SubMoved DEF SubMoves
<1> QED BY <1>1, <1>2 DEF RowsPlaced

\* What the cycle has listed stays recorded, and the same block's while the height is not replaced.
LEMMA ListedKept ==
  ASSUME IInv, [Next]_vars
  PROVE  Listed'
<1>1. ASSUME NEW i \in cycle'.todo PROVE rows'[i[1]] # NoRow /\ (Kept(i[1])' => rows'[i[1]].hash = i[2])
  <2>1. CASE i \in cycle.todo
    <3>1. i[1] \in Heights /\ rows[i[1]] # NoRow /\ (Kept(i[1]) => rows[i[1]].hash = i[2])
      BY <2>1 DEF IInv, LedgerTypes, CycleTypes, Listed
    <3> QED BY <3>1, RowsMoved DEF RowsMove, RowMoves, Kept
  <2>2. CASE rows'[i[1]] # NoRow /\ rows'[i[1]].hash = i[2] BY <2>2
  <2> QED BY <2>1, <2>2, CycleMoved DEF CycleMoves
<1> QED BY <1>1, CycleMoved DEF CycleMoves, Listed

\* A block the node says is mature is buried.
LEMMA MatureIsBuried ==
  ASSUME LedgerTypes, NEW b \in Blocks, Confirmations(b) >= Maturity
  PROVE  Buried(b)
<1>1. HeightOf[b] \in Nat /\ connected \in 0..Len(chain) /\ Len(chain) \in Nat
  BY BlocksAssumption DEF LedgerTypes
<1>2. OnChain(b) /\ connected - HeightOf[b] + 1 >= Maturity BY DepthAssumption DEF Confirmations
<1> QED BY <1>1, <1>2, DepthAssumption DEF Buried

\* What is confirmed stays buried, and what the cycle marks confirmed is: it may have been judged before
\* a reorganization, but not before one as deep as it was.
LEMMA ConfirmedStaysBuried ==
  ASSUME IInv, [Next]_vars
  PROVE  ConfirmedIsBuried'
<1>1. \A b \in Blocks : Buried(b) => Buried(b)' BY StaysBuried
<1>2. ASSUME NEW h \in Heights, rows'[h].status = "confirmed", Kept(h)' PROVE Buried(rows[h].hash)'
  <2>1. /\ rows[h] # NoRow /\ rows'[h].hash = rows[h].hash
        /\ rows[h].status = "confirmed" \/ (cycle.pc = "confirm" /\ h = Item[1])
        /\ Kept(h)
    BY <1>2, RowsMoved DEF RowsMove, RowMoves, Kept
  <2>2. rows[h].hash \in Blocks BY <2>1, RowFacts DEF IInv
  <2>3. CASE rows[h].status = "confirmed"
    <3>1. Buried(rows[h].hash) BY <2>1, <2>3 DEF IInv, ConfirmedIsBuried
    <3> QED BY <1>1, <2>1, <2>2, <3>1 DEF Buried, OnChain
  <2>4. CASE cycle.pc = "confirm" /\ h = Item[1]
    <3>1. rows[h].hash = Item[2] BY <2>1, <2>4, FirstListed DEF IInv, Listed
    <3>2. Buried(rows[h].hash) BY <2>4, <3>1 DEF IInv, ConfirmedIsBuried
    <3> QED BY <1>1, <2>1, <2>2, <3>2 DEF Buried, OnChain
  <2> QED BY <2>1, <2>3, <2>4
<1>3. ASSUME cycle'.pc = "confirm" PROVE Buried(Item[2])'
  <2>1. /\ cycle'.todo = cycle.todo /\ cycle'.todo # {}
        /\ cycle.pc = "confirm" \/ Confirmations(Item[2]) >= Maturity
    BY <1>3, CycleMoved DEF CycleMoves
  <2>2. Item' = Item BY <2>1 DEF Item
  <2>3. Item[2] \in Blocks BY <2>1, ItemTyped DEF IInv
  <2>4. Buried(Item[2]) BY <2>1, <2>3, MatureIsBuried DEF IInv, ConfirmedIsBuried
  <2> HIDE DEF Item
  <2> QED BY <1>1, <2>2, <2>3, <2>4 DEF Buried, OnChain
<1> QED BY <1>2, <1>3 DEF ConfirmedIsBuried

\* The credits of a height go on being its row's, and one finder's.
LEMMA CreditsStayRows ==
  ASSUME IInv, [Next]_vars
  PROVE  CreditsFollowRows'
<1>1. ASSUME NEW h \in Heights, Kept(h)', NEW m \in Finders, credits'[<<m, h>>] # "none"
      PROVE  rows'[h] # NoRow /\ m = FinderOf[rows'[h].hash]
  <2>1. Kept(h) /\ (rows[h] # NoRow => rows'[h] # NoRow /\ rows'[h].hash = rows[h].hash)
    BY <1>1, RowsMoved DEF RowsMove, RowMoves, Kept
  <2>2. credits[<<m, h>>] # "none" \/ (rows[h] # NoRow /\ m = FinderOf[rows[h].hash])
    BY <1>1, CreditsMoved DEF CreditsMoves, CreditsMove
  <2>3. rows[h] # NoRow /\ m = FinderOf[rows[h].hash] BY <2>1, <2>2 DEF IInv, CreditsFollowRows
  <2> QED BY <2>1, <2>3
<1>2. ASSUME NEW h \in Heights, "restored" \notin past'[h],
             NEW m \in Finders, NEW n \in Finders, Live(m, h)', Live(n, h)'
      PROVE  m = n
  <2>1. "restored" \notin past[h] BY <1>2, RowsMoved DEF RowsMove, RowMoves
  <2>2. \/ \A x \in Finders : Live(x, h)' => Live(x, h)
        \/ \E f \in Finders : \A x \in Finders : Live(x, h)' => x = f
    BY <1>2, CreditsMoved DEF CreditsMoves, CreditsMove
  <2>3. Live(m, h) /\ Live(n, h) => m = n BY <2>1 DEF IInv, CreditsFollowRows
  <2> QED BY <1>2, <2>2, <2>3
<1> QED BY <1>1, <1>2 DEF CreditsFollowRows

\* The first states satisfy the invariant.
LEMMA InitIInv ==
  ASSUME Init
  PROVE  IInv
<1>1. LedgerTypes
  BY DEF Init, LedgerTypes, SubPlaces, RowTypes, CreditMarks, CycleTypes, CyclePlaces, Idle
<1>2. GivenByUs /\ RowsPlaced /\ Listed
  BY BlocksAssumption DEF Init, GivenByUs, OnChain, RowsPlaced, Listed, Idle
<1>3. ConfirmedIsBuried /\ CreditsFollowRows
  BY DEF Init, ConfirmedIsBuried, CreditsFollowRows, Live, Idle, NoRow
<1> QED BY <1>1, <1>2, <1>3 DEF IInv

\* Every step keeps it.
LEMMA NextIInv ==
  ASSUME IInv, [Next]_vars
  PROVE  IInv'
BY TypeKept, GivenKept, RowsStay, ListedKept, ConfirmedStaysBuried, CreditsStayRows DEF IInv

\* Whatever the node, the handler and the cycle do, the invariant holds.
THEOREM Invariant == Spec => []IInv
<1>1. Init => IInv BY InitIInv
<1>2. IInv /\ [Next]_vars => IInv' BY NextIInv
<1> QED BY <1>1, <1>2, PTL DEF Spec

\* A height has at most one finder credited, unless it was both replaced and restored
\* (Distribute1175Block: "can never exceed one reward").  Not restored, only one credit is live; not
\* replaced, all its credits are its row's finder's.
LEMMA OneCredit ==
  ASSUME IInv
  PROVE  OneCreditPerHeight
<1>1. ASSUME NEW h \in Heights, ~({"replaced", "restored"} \subseteq past[h])
      PROVE  Cardinality({m \in Finders : credits[<<m, h>>] \in {"pending", "paid"}}) <= 1
  <2> DEFINE S == {m \in Finders : credits[<<m, h>>] \in {"pending", "paid"}}
  <2>1. \A m, n \in S : m = n
    <3>1. CASE "restored" \notin past[h] BY <3>1 DEF IInv, CreditsFollowRows, Live
    <3>2. CASE Kept(h) BY <3>2 DEF IInv, CreditsFollowRows
    <3> QED BY <1>1, <3>1, <3>2 DEF Kept
  <2> HIDE DEF S
  <2>2. CASE S = {}
    <3>1. Cardinality(S) = 0 BY <2>2, FS_EmptySet
    <3> QED BY <3>1 DEF S
  <2>3. CASE S # {}
    <3>1. PICK m \in S : S = {m} BY <2>1, <2>3
    <3>2. Cardinality(S) = 1 BY <3>1, FS_Singleton
    <3> QED BY <3>2 DEF S
  <2> QED BY <2>2, <2>3
<1> QED BY <1>1 DEF OneCreditPerHeight

\* Over siblings recorded in either order, retried distributions, orphanings and restarts, no height
\* credits two finders.
THEOREM OneRewardPerHeight == Spec => []OneCreditPerHeight
BY Invariant, OneCredit, PTL

\* Only Settle1175ByCoinbase pays a credit, and one pending on a confirmed row.
LEMMA OnlySettlePays ==
  ASSUME IInv, [Next]_vars, NEW c \in DOMAIN credits, credits[c] # "paid", credits'[c] = "paid"
  PROVE  Settleable(c)
<1>0. credits \in [Finders \X Heights -> CreditMarks] BY DEF IInv, LedgerTypes
<1>1. ASSUME NEW h, NEW s, s # "paid", SetPending(h, s) PROVE FALSE
  BY <1>1 DEF SetPending
<1>2. ASSUME NEW h, Distribute(h) PROVE FALSE
  BY <1>0, <1>2 DEF Distribute, Credited
<1>3. CASE UNCHANGED credits BY <1>3
<1>4. ASSUME NEW b \in Blocks, Void(b) \/ HandlerDistributes(b) PROVE FALSE
  BY <1>1, <1>2, <1>4 DEF Void, HandlerDistributes
<1>5. CASE Redistribute \/ MarkOrphan
  BY <1>1, <1>2, <1>5 DEF Redistribute, MarkOrphan
<1>6. CASE Restore BY <1>0, <1>6 DEF Restore, ledgerVars
<1>7. CASE Settle BY <1>0, <1>7 DEF Settle
<1>8. ASSUME NEW b \in Blocks, Solved(b) \/ Send(b) \/ Ask(b) \/ Check(b) \/ Write(b) PROVE FALSE
  BY <1>8 DEF Solved, Send, Ask, Check, Write, ledgerVars
<1>9. CASE Extend \/ Reorg \/ Resync \/ Connect \/ Restart \/ CycleStarts \/ ReadChainState \/ JudgeNext
           \/ MarkConfirmed \/ ReadOrphans \/ RecheckNext \/ UNCHANGED vars
  BY <1>9 DEF Extend, Reorg, Resync, Connect, Restart, CycleStarts, ReadChainState, JudgeNext, MarkConfirmed,
              ReadOrphans, RecheckNext, ledgerVars, vars
<1> QED BY <1>3, <1>4, <1>5, <1>6, <1>7, <1>8, <1>9 DEF Next, Handle, Cycle

\* A credit is settled only while a block of its finder is on the chain: what Settle1175ByCoinbase pays is
\* pending on a confirmed row, the finder's, and buried deeper than a reorganization goes.
THEOREM SettledIsOnChain == Spec => PaidIsOnChain
<1> DEFINE A == \A c \in DOMAIN credits :
                   credits[c] # "paid" /\ credits'[c] = "paid" /\ "replaced" \notin past[c[2]]
                   => \E b \in Blocks : FinderOf[b] = c[1] /\ HeightOf[b] = c[2] /\ OnChain(b)
<1>1. ASSUME IInv, [Next]_vars PROVE A
  <2>0. credits \in [Finders \X Heights -> CreditMarks] BY <1>1 DEF IInv, LedgerTypes
  <2>1. ASSUME NEW c \in DOMAIN credits, credits[c] # "paid", credits'[c] = "paid", Kept(c[2])
        PROVE  \E b \in Blocks : FinderOf[b] = c[1] /\ HeightOf[b] = c[2] /\ OnChain(b)
    <3>1. c = <<c[1], c[2]>> /\ c[1] \in Finders /\ c[2] \in Heights BY <2>0
    <3>2. Settleable(c) BY <1>1, <2>0, <2>1, OnlySettlePays
    <3>3. rows[c[2]] # NoRow BY <3>2 DEF Settleable, NoRow
    <3>4. rows[c[2]].hash \in Blocks BY <1>1, <3>1, <3>3, RowFacts DEF IInv
    <3>5. Buried(rows[c[2]].hash) BY <1>1, <2>1, <3>1, <3>2 DEF Settleable, IInv, ConfirmedIsBuried
    <3>6. c[1] = FinderOf[rows[c[2]].hash]
      BY <1>1, <2>1, <3>1, <3>2 DEF Settleable, IInv, CreditsFollowRows
    <3>7. HeightOf[rows[c[2]].hash] = c[2] BY <1>1, <3>1, <3>3 DEF IInv, RowsPlaced
    <3> QED BY <3>4, <3>5, <3>6, <3>7 DEF Buried
  <2> QED BY <2>1 DEF Kept
<1>2. IInv /\ [Next]_vars => [A]_vars BY <1>1
<1> QED BY <1>2, Invariant, PTL DEF Spec, PaidIsOnChain

\* A block the node has on its chain, all of which it has connected, has confirmations.
LEMMA OnChainIsConfirmed ==
  ASSUME IInv, NEW b \in Blocks, OnChain(b), CaughtUp
  PROVE  b \in known /\ Confirmations(b) > 0
<1>1. HeightOf[b] \in Nat /\ Len(chain) \in Nat /\ HeightOf[b] <= Len(chain)
  BY BlocksAssumption DEF IInv, LedgerTypes, OnChain
<1>2. Confirmations(b) = Len(chain) - HeightOf[b] + 1 BY <1>1 DEF Confirmations, CaughtUp
<1> QED BY <1>1, <1>2 DEF IInv, GivenByUs

\* A block is given up only where sendAuxBlock does: of a block the node refused, and of one it did not
\* confirm.
LEMMA OnlySendDrops ==
  ASSUME IInv, [Next]_vars, NEW b \in Blocks, sub[b] # "dropped", sub'[b] = "dropped"
  PROVE  b \notin known \/ ~(Confirmations(b) > 0) \/ faults' # faults
<1>0. sub \in [Blocks -> SubPlaces] /\ faults \in Nat BY DEF IInv, LedgerTypes
<1>1. ASSUME NEW c \in Blocks, NEW p, p # "dropped", Goto(c, p) PROVE FALSE
  BY <1>0, <1>1 DEF Goto
<1>2. ASSUME NEW c \in Blocks, Send(c) PROVE b \notin known
  <2>1. PICK p \in {"check", "askAgain", "dropped", "askOnce"} :
           Goto(c, p) /\ (p = "dropped" => c \notin known)
    BY <1>2 DEF Send
  <2>2. c = b BY <1>0, <1>1, <2>1 DEF Goto
  <2> QED BY <1>1, <2>1, <2>2
<1>3. ASSUME NEW c \in Blocks, Ask(c) PROVE b \notin known \/ ~(Confirmations(b) > 0) \/ faults' # faults
  <2>1. CASE Fault BY <1>0, <2>1 DEF Fault
  <2>2. CASE IF c \in known /\ Confirmations(c) > 0 THEN Goto(c, "check") ELSE Unproven(c)
    <3>1. ~(c \in known /\ Confirmations(c) > 0) /\ Unproven(c) BY <1>1, <2>2
    <3>2. c = b BY <1>0, <3>1 DEF Unproven, Goto
    <3> QED BY <3>1, <3>2
  <2> QED BY <1>3, <2>1, <2>2 DEF Ask
<1>4. ASSUME NEW c \in Blocks, Solved(c) \/ Check(c) \/ Write(c) \/ Void(c) \/ HandlerDistributes(c) PROVE FALSE
  BY <1>1, <1>4 DEF Solved, Check, Write, Void, HandlerDistributes
<1>5. CASE Restart BY <1>5 DEF Restart
<1>6. CASE Extend \/ Reorg \/ Resync \/ Connect \/ Cycle \/ UNCHANGED vars
  <2>1. UNCHANGED subVars
    BY <1>6 DEF Extend, Reorg, Resync, Connect, Cycle, CycleStarts, Redistribute, ReadChainState, JudgeNext,
                MarkOrphan, MarkConfirmed, ReadOrphans, RecheckNext, Restore, Settle, vars
  <2> QED BY <2>1 DEF subVars
<1> QED BY <1>2, <1>3, <1>4, <1>5, <1>6 DEF Next, Handle

\* While the node answers it, sendAuxBlock gives up no block on the chain: the node has it, and says so.
THEOREM WinnersAreKept == Spec => WinnerNotDropped
<1> DEFINE A == \A b \in Blocks :
                   /\ sub[b] \notin {"dropped", "none"} /\ sub'[b] = "dropped"
                   => ~OnChain(b) \/ ~CaughtUp \/ faults' # faults
<1>1. IInv /\ [Next]_vars => [A]_vars BY OnlySendDrops, OnChainIsConfirmed
<1> QED BY <1>1, Invariant, PTL DEF Spec, WinnerNotDropped

----------------------------------------------------------------------------
(* The work cache.                                                          *)

\* A thread about to ask or to store with the current generation holds the address in effect, and
\* the answer it holds pays the address it asked for.
PollerCarries ==
    /\ poller.saw.gen <= gen
    /\ poller.pc \in {"choose", "ask", "store"} =>
          /\ poller.saw.payTo \in Addrs
          /\ poller.saw.gen = gen => enabled /\ payout = poller.saw.payTo
    /\ poller.pc = "store" /\ poller.answer # NoWork => poller.answer.payTo = poller.saw.payTo

WatcherCarries ==
    /\ watcher.gen <= gen
    /\ watcher.pc \in {"ask", "store"} =>
          /\ watcher.payTo \in Addrs
          /\ watcher.gen = gen => enabled /\ payout = watcher.payTo
    /\ watcher.pc = "store" /\ watcher.answer # NoWork => watcher.answer.payTo = watcher.payTo

\* auxRefreshActive stands for a poller that runs, or one the watcher is about to start.
OnlyOne ==
    /\ poller.pc # "none" => active
    /\ watcher.pc # "idle" /\ watcher.start => active /\ poller.pc = "none"
    /\ watcher.pc = "start" => watcher.start

\* Merge mining is only on with an address to pay.
EnabledPays == enabled => payout \in Addrs

CacheInvariant ==
    /\ TypeOK
    /\ EnabledPays
    /\ PollerCarries
    /\ WatcherCarries
    /\ OnlyOne
    /\ WorkPaysAddressInEffect

\* Every state the specification starts in satisfies the invariant.
LEMMA InitCache == CacheInit => CacheInvariant
<1> SUFFICES ASSUME CacheInit PROVE CacheInvariant
  OBVIOUS
<1>1. TypeOK
  <2>1. poller \in PollerState
    BY DEF CacheInit, PollerState, NoPoller, NoView, Snapshot
  <2>2. watcher \in WatcherState
    BY DEF CacheInit, WatcherState
  <2>3. QED
    BY <2>1, <2>2 DEF CacheInit, TypeOK, SwitchTypes, CacheTypes, FlagTypes
<1>2. PollerCarries
  BY DEF CacheInit, PollerCarries, NoPoller, NoView
<1>3. WatcherCarries
  BY DEF CacheInit, WatcherCarries
<1>4. OnlyOne
  BY DEF CacheInit, OnlyOne, NoPoller
<1>5. QED
  BY <1>1, <1>2, <1>3, <1>4 DEF CacheInit, CacheInvariant, EnabledPays, WorkPaysAddressInEffect

\* What storing an answer does to the cache, when the answer pays the address its generation
\* stands for.
LEMMA StoreKeepsWork ==
  ASSUME work \in Work \cup {NoWork}, young \in BOOLEAN, due \in BOOLEAN,
         NEW w \in Work \cup {NoWork}, NEW g \in Nat, Store(w, g)
  PROVE  /\ work' \in Work \cup {NoWork} /\ young' \in BOOLEAN /\ due' \in BOOLEAN
         /\ work' # work => work' = w /\ g = gen
  BY DEF Store

\* Every step keeps the types.
LEMMA CacheTypesStep == CacheInvariant /\ [CacheNext]_cacheVars => TypeOK'
<1> SUFFICES ASSUME TypeOK, PollerCarries, WatcherCarries, [CacheNext]_cacheVars PROVE TypeOK'
  BY DEF CacheInvariant
<1>1. CASE Disable
  <2>1. SwitchTypes'
    <3>1. enabled' \in BOOLEAN
      BY <1>1 DEF Disable
    <3>2. payout' \in Addrs \cup {NoAddr}
      BY <1>1 DEF Disable
    <3>3. gen' \in Nat
      BY <1>1 DEF Disable, TypeOK, SwitchTypes
    <3>4. QED
      BY <3>1, <3>2, <3>3 DEF SwitchTypes
  <2>2. CacheTypes'
    BY <1>1 DEF Disable, TypeOK, CacheTypes, DropWork
  <2>3. QED
    BY <1>1, <2>1, <2>2 DEF Disable, TypeOK, FlagTypes
<1>2. ASSUME NEW a \in Addrs, Enable(a) PROVE TypeOK'
  <2>1. SwitchTypes'
    BY <1>2 DEF Enable, TypeOK, SwitchTypes
  <2>2. CacheTypes'
    BY <1>2 DEF Enable, TypeOK, CacheTypes, DropWork
  <2>3. FlagTypes'
    BY <1>2 DEF Enable, TypeOK, FlagTypes
  <2>4. watcher' \in WatcherState
    BY <1>2 DEF Enable, TypeOK, WatcherState, SwitchTypes
  <2>5. QED
    BY <1>2, <2>1, <2>2, <2>3, <2>4 DEF Enable, TypeOK
<1>3. CASE PrimeAsk
  <2>1. PICK w \in Answers(watcher.payTo) :
               watcher' = [watcher EXCEPT !.pc = "store", !.answer = w]
    BY <1>3 DEF PrimeAsk
  <2>2. w \in Work \cup {NoWork}
    BY <1>3 DEF PrimeAsk, Answers, Work, WatcherCarries, TypeOK, FlagTypes
  <2>3. watcher' \in WatcherState
    BY <2>1, <2>2 DEF TypeOK, WatcherState
  <2>4. QED
    BY <1>3, <2>3 DEF PrimeAsk, TypeOK, SwitchTypes, CacheTypes, FlagTypes, jm
<1>4. CASE PrimeStore
  <2>1. CacheTypes'
    BY <1>4, StoreKeepsWork DEF PrimeStore, TypeOK, CacheTypes, WatcherState
  <2>2. watcher' \in WatcherState
    BY <1>4 DEF PrimeStore, TypeOK, WatcherState
  <2>3. QED
    BY <1>4, <2>1, <2>2 DEF PrimeStore, TypeOK, SwitchTypes, FlagTypes
<1>5. CASE StartPoller
  <2>1. poller' \in PollerState
    BY <1>5 DEF StartPoller, TypeOK, PollerState, Snapshot, NoPoller, NoView
  <2>2. watcher' \in WatcherState
    BY <1>5 DEF StartPoller, TypeOK, WatcherState
  <2>3. QED
    BY <1>5, <2>1, <2>2 DEF StartPoller, TypeOK, SwitchTypes, CacheTypes, FlagTypes, jm
<1>6. CASE PollRead
  <2>1. poller' \in PollerState
    BY <1>6 DEF PollRead, TypeOK, PollerState, Snapshot, View, SwitchTypes, CacheTypes
  <2>2. QED
    BY <1>6, <2>1 DEF PollRead, TypeOK, SwitchTypes, CacheTypes, FlagTypes, jm
<1>7. CASE PollExit
  <2>1. FlagTypes'
    <3>1. active' \in BOOLEAN
      BY <1>7 DEF PollExit
    <3>2. QED
      BY <1>7, <3>1 DEF PollExit, TypeOK, FlagTypes
  <2>2. poller' \in PollerState
    BY <1>7 DEF PollExit, TypeOK, PollerState, Snapshot, NoPoller, NoView
  <2>3. QED
    BY <1>7, <2>1, <2>2 DEF PollExit, TypeOK, SwitchTypes, CacheTypes
<1>8. CASE PollChoose
  <2>1. poller' \in PollerState
    <3>1. CASE poller' = [poller EXCEPT !.pc = "ask"]
      BY <3>1 DEF TypeOK, PollerState
    <3>2. CASE poller' = [poller EXCEPT !.pc = "ask", !.lastTip = tip]
      BY <3>2 DEF TypeOK, FlagTypes, PollerState
    <3>3. CASE poller' = Asleep(poller)
      BY <3>3 DEF TypeOK, Asleep, NoView, PollerState, Snapshot
    <3>4. QED
      BY <1>8, <3>1, <3>2, <3>3 DEF PollChoose
  <2>2. QED
    BY <1>8, <2>1 DEF PollChoose, TypeOK, SwitchTypes, CacheTypes, FlagTypes, jm
<1>9. CASE PollAsk
  <2>1. PICK w \in Answers(poller.saw.payTo) :
               poller' = [poller EXCEPT !.pc = "store", !.answer = w]
    BY <1>9 DEF PollAsk
  <2>2. w \in Work \cup {NoWork}
    BY <1>9 DEF PollAsk, Answers, Work, PollerCarries, TypeOK, FlagTypes
  <2>3. poller' \in PollerState
    BY <2>1, <2>2 DEF TypeOK, PollerState
  <2>4. QED
    BY <1>9, <2>3 DEF PollAsk, TypeOK, SwitchTypes, CacheTypes, FlagTypes, jm
<1>10. CASE PollStore
  <2>1. CacheTypes'
    BY <1>10, StoreKeepsWork DEF PollStore, TypeOK, CacheTypes, PollerState, Snapshot
  <2>2. poller' \in PollerState
    BY <1>10 DEF PollStore, TypeOK, PollerState, Snapshot, Asleep, NoView
  <2>3. QED
    BY <1>10, <2>1, <2>2 DEF PollStore, TypeOK, SwitchTypes, FlagTypes
<1>11. CASE PollWake
  <2>1. FlagTypes'
    BY <1>11 DEF PollWake, TypeOK, FlagTypes
  <2>2. poller' \in PollerState
    BY <1>11 DEF PollWake, TypeOK, PollerState, Snapshot
  <2>3. QED
    BY <1>11, <2>1, <2>2 DEF PollWake, TypeOK, SwitchTypes, CacheTypes
<1>12. CASE RefreshAuxNow
  <2>1. FlagTypes'
    BY <1>12 DEF RefreshAuxNow, TypeOK, FlagTypes
  <2>2. QED
    BY <1>12, <2>1 DEF RefreshAuxNow, TypeOK, SwitchTypes, CacheTypes
<1>13. CASE TipMoves
  <2>1. FlagTypes'
    BY <1>13 DEF TipMoves, TypeOK, FlagTypes, jm
  <2>2. QED
    BY <1>13, <2>1 DEF TipMoves, TypeOK, SwitchTypes, CacheTypes, jm
<1>14. CASE WorkAges
  <2>1. CacheTypes'
    BY <1>14 DEF WorkAges, TypeOK, CacheTypes
  <2>2. QED
    BY <1>14, <2>1 DEF WorkAges, TypeOK, SwitchTypes, FlagTypes
<1>15. CASE FetchComesDue
  <2>1. CacheTypes'
    BY <1>15 DEF FetchComesDue, TypeOK, CacheTypes
  <2>2. QED
    BY <1>15, <2>1 DEF FetchComesDue, TypeOK, SwitchTypes, FlagTypes
<1>16. CASE UNCHANGED cacheVars
  BY <1>16 DEF cacheVars, jm, TypeOK, SwitchTypes, CacheTypes, FlagTypes
<1>17. QED
  BY <1>1, <1>2, <1>3, <1>4, <1>5, <1>6, <1>7, <1>8, <1>9, <1>10, <1>11, <1>12, <1>13, <1>14, <1>15, <1>16 DEF CacheNext, Watch, Poll

\* Every step of the watcher, the poller, the chain and the clock preserves the invariant.
LEMMA NextCache == CacheInvariant /\ [CacheNext]_cacheVars => CacheInvariant'
<1> SUFFICES ASSUME CacheInvariant, [CacheNext]_cacheVars PROVE CacheInvariant'
  OBVIOUS
<1> USE DEF CacheInvariant
<1>t. TypeOK'
  BY CacheTypesStep
<1> DEFINE Others == /\ EnabledPays
                   /\ PollerCarries
                   /\ WatcherCarries
                   /\ OnlyOne
                   /\ WorkPaysAddressInEffect
<1>1. ASSUME Disable PROVE Others'
  <2>1. EnabledPays'
    BY <1>1 DEF Disable, EnabledPays, TypeOK
  <2>2. PollerCarries'
    BY <1>1 DEF Disable, PollerCarries, TypeOK, PollerState, Snapshot, SwitchTypes
  <2>3. WatcherCarries'
    BY <1>1 DEF Disable, WatcherCarries, TypeOK, WatcherState, SwitchTypes
  <2>4. WorkPaysAddressInEffect'
    BY <1>1 DEF Disable, DropWork, WorkPaysAddressInEffect, TypeOK, SwitchTypes
  <2>5. QED
    BY <1>1, <2>1, <2>2, <2>3, <2>4 DEF Disable, OnlyOne
<1>2. ASSUME NEW a \in Addrs, Enable(a) PROVE Others'
  <2>1. EnabledPays'
    BY <1>2 DEF Enable, EnabledPays, TypeOK
  <2>2. PollerCarries'
    BY <1>2 DEF Enable, PollerCarries, TypeOK, PollerState, Snapshot, SwitchTypes
  <2>3. WatcherCarries'
    BY <1>2 DEF Enable, WatcherCarries, TypeOK, WatcherState, SwitchTypes
  <2>4. OnlyOne'
    BY <1>2 DEF Enable, OnlyOne, TypeOK, WatcherState
  <2>5. WorkPaysAddressInEffect'
    BY <1>2 DEF Enable, DropWork, WorkPaysAddressInEffect, TypeOK, SwitchTypes
  <2>6. QED
    BY <1>2, <2>1, <2>2, <2>3, <2>4, <2>5 DEF Enable
<1>3. ASSUME PrimeAsk PROVE Others'
  <2>1. WatcherCarries'
    BY <1>3 DEF PrimeAsk, Answers, jm, WatcherCarries, TypeOK, WatcherState, SwitchTypes
  <2>2. OnlyOne'
    BY <1>3 DEF PrimeAsk, Answers, jm, OnlyOne, TypeOK, WatcherState
  <2>3. QED
    BY <1>3, <2>1, <2>2 DEF PrimeAsk, EnabledPays, PollerCarries, WorkPaysAddressInEffect, jm
<1>4. ASSUME PrimeStore PROVE Others'
  <2>1. WatcherCarries'
    BY <1>4 DEF PrimeStore, WatcherCarries, TypeOK, WatcherState, SwitchTypes
  <2>2. OnlyOne'
    BY <1>4 DEF PrimeStore, OnlyOne, TypeOK, WatcherState
  <2>3. WorkPaysAddressInEffect'
    BY <1>4, StoreKeepsWork DEF PrimeStore, TypeOK, SwitchTypes, CacheTypes, WatcherCarries, WatcherState, WorkPaysAddressInEffect
  <2>4. QED
    BY <1>4, <2>1, <2>2, <2>3 DEF PrimeStore, EnabledPays, PollerCarries
<1>5. ASSUME StartPoller PROVE Others'
  <2>1. PollerCarries'
    BY <1>5 DEF StartPoller, NoPoller, NoView, jm, PollerCarries, TypeOK, PollerState, Snapshot, SwitchTypes
  <2>2. WatcherCarries'
    BY <1>5 DEF StartPoller, NoPoller, NoView, jm, WatcherCarries, TypeOK, WatcherState, SwitchTypes
  <2>3. OnlyOne'
    <3>1. active /\ active' = active
      BY <1>5 DEF StartPoller, OnlyOne, jm
    <3>2. watcher'.pc = "idle"
      BY <1>5 DEF StartPoller, TypeOK, WatcherState
    <3>3. QED
      BY <3>1, <3>2 DEF OnlyOne
  <2>4. QED
    BY <1>5, <2>1, <2>2, <2>3 DEF StartPoller, EnabledPays, WorkPaysAddressInEffect, jm
<1>6. ASSUME PollRead PROVE Others'
  <2>1. PollerCarries'
    BY <1>6 DEF PollRead, View, jm, PollerCarries, EnabledPays, TypeOK, PollerState, Snapshot, SwitchTypes
  <2>2. OnlyOne'
    BY <1>6 DEF PollRead, View, jm, OnlyOne, TypeOK, PollerState
  <2>3. QED
    BY <1>6, <2>1, <2>2 DEF PollRead, EnabledPays, WatcherCarries, WorkPaysAddressInEffect, jm
<1>7. ASSUME PollExit PROVE Others'
  <2>1. PollerCarries'
    BY <1>7 DEF PollExit, NoPoller, NoView, PollerCarries, TypeOK, PollerState, Snapshot, SwitchTypes
  <2>2. OnlyOne'
    BY <1>7 DEF PollExit, NoPoller, NoView, OnlyOne, TypeOK, PollerState
  <2>3. QED
    BY <1>7, <2>1, <2>2 DEF PollExit, EnabledPays, WatcherCarries, WorkPaysAddressInEffect
<1>8. ASSUME PollChoose PROVE Others'
  <2>1. PollerCarries'
    <3>1. CASE poller' = Asleep(poller)
      BY <1>8, <3>1 DEF PollChoose, Asleep, NoView, jm, PollerCarries, TypeOK, SwitchTypes, PollerState
    <3>2. CASE poller'.pc = "ask" /\ poller'.saw = poller.saw /\ poller.pc = "choose"
      BY <1>8, <3>2 DEF PollChoose, jm, PollerCarries
    <3>3. QED
      BY <1>8, <3>1, <3>2 DEF PollChoose, TypeOK, PollerState
  <2>2. OnlyOne'
    BY <1>8 DEF PollChoose, Asleep, NoView, jm, OnlyOne, TypeOK, PollerState
  <2>3. QED
    BY <1>8, <2>1, <2>2 DEF PollChoose, EnabledPays, WatcherCarries, WorkPaysAddressInEffect, jm
<1>9. ASSUME PollAsk PROVE Others'
  <2>1. PollerCarries'
    BY <1>9 DEF PollAsk, Answers, jm, PollerCarries, TypeOK, PollerState, Snapshot, SwitchTypes
  <2>2. OnlyOne'
    BY <1>9 DEF PollAsk, Answers, jm, OnlyOne, TypeOK, PollerState
  <2>3. QED
    BY <1>9, <2>1, <2>2 DEF PollAsk, EnabledPays, WatcherCarries, WorkPaysAddressInEffect, jm
<1>10. ASSUME PollStore PROVE Others'
  <2>1. PollerCarries'
    BY <1>10 DEF PollStore, Asleep, NoView, PollerCarries, TypeOK, PollerState, Snapshot, SwitchTypes
  <2>2. OnlyOne'
    BY <1>10 DEF PollStore, Asleep, NoView, OnlyOne, TypeOK, PollerState
  <2>3. WorkPaysAddressInEffect'
    BY <1>10, StoreKeepsWork DEF PollStore, TypeOK, SwitchTypes, CacheTypes, PollerCarries, PollerState, Snapshot, WorkPaysAddressInEffect
  <2>4. QED
    BY <1>10, <2>1, <2>2, <2>3 DEF PollStore, EnabledPays, WatcherCarries
<1>11. ASSUME PollWake PROVE Others'
  <2>1. PollerCarries'
    BY <1>11 DEF PollWake, PollerCarries, TypeOK, PollerState, Snapshot, SwitchTypes
  <2>2. OnlyOne'
    BY <1>11 DEF PollWake, OnlyOne, TypeOK, PollerState
  <2>3. QED
    BY <1>11, <2>1, <2>2 DEF PollWake, EnabledPays, WatcherCarries, WorkPaysAddressInEffect
<1>12. ASSUME RefreshAuxNow PROVE Others'
  BY <1>12 DEF RefreshAuxNow, EnabledPays, PollerCarries, WatcherCarries, OnlyOne, WorkPaysAddressInEffect
<1>13. ASSUME TipMoves PROVE Others'
  BY <1>13 DEF TipMoves, jm, EnabledPays, PollerCarries, WatcherCarries, OnlyOne, WorkPaysAddressInEffect
<1>14. ASSUME WorkAges PROVE Others'
  BY <1>14 DEF WorkAges, EnabledPays, PollerCarries, WatcherCarries, OnlyOne, WorkPaysAddressInEffect
<1>15. ASSUME FetchComesDue PROVE Others'
  BY <1>15 DEF FetchComesDue, EnabledPays, PollerCarries, WatcherCarries, OnlyOne, WorkPaysAddressInEffect
<1>16. ASSUME UNCHANGED cacheVars PROVE Others'
  BY <1>16 DEF cacheVars, jm, EnabledPays, PollerCarries, WatcherCarries, OnlyOne, WorkPaysAddressInEffect
<1>17. QED
  BY <1>t, <1>1, <1>2, <1>3, <1>4, <1>5, <1>6, <1>7, <1>8, <1>9, <1>10, <1>11, <1>12, <1>13, <1>14, <1>15, <1>16 DEF CacheNext, Watch, Poll

\* The invariant holds in every reachable state.
LEMMA CacheInductive == CacheSpec => []CacheInvariant
  BY InitCache, NextCache, PTL DEF CacheSpec

\* Every variable keeps its type (the state of jobs.go's JobManager and its two threads).
THEOREM CacheTypeCorrect == CacheSpec => []TypeOK
  BY CacheInductive, PTL DEF CacheInvariant

\* The 1175 work a job may commit to pays the address in effect, whatever a re-point crosses
\* (refreshAuxOnce's generation check).
THEOREM CachePaysAddressInEffect == CacheSpec => []WorkPaysAddressInEffect
  BY CacheInductive, PTL DEF CacheInvariant

\* EnableMergeMining never starts a poller while one runs (auxRefreshActive).
THEOREM NeverTwoPollers == CacheSpec => []OnePoller
<1>1. CacheInvariant => OnePoller
  BY DEF CacheInvariant, OnlyOne, OnePoller
<1>2. QED
  BY <1>1, CacheInductive, PTL

=============================================================================
