---------------------------- MODULE BlockLedger ----------------------------
(***************************************************************************)
(* A found block from its share to the dashboard's ledger                  *)
(* (cmd/stratum/main.go, internal/stats/db_sqlite.go): submitBlock gives   *)
(* it to the node, reconcileBlock asks the chain when the answer was no    *)
(* clean accept, record writes it as a solo block its coinbase paid, and   *)
(* the payout processor judges each pending row against the chain: another *)
(* block at its height orphans it, its own block confirms it at maturity.  *)
(* The node forks, any call to it or to the database may fail, and the     *)
(* program restarts between any two steps.                                 *)
(***************************************************************************)
EXTENDS Integers, SequencesExt, FiniteSetsExt

CONSTANTS
    Blocks,        \* the blocks this install finds
    Tides,         \* those on a TIDES job, whose coinbase pays the pool's split
    HeightOf,      \* the height each one's job was built for
    OwnerOf,       \* the address its coinbase pays (soloBlockOwner)
    JudgeDepth,    \* soloJudgeDepth
    Maturity,      \* stats.COINBASE_MATURITY
    MaxTries,      \* blockSubmitRetryFor, counted in tries
    MaxHeight,     \* bound: the length of the chain
    MaxFailures,   \* bound: calls of the payout processor that fail
    MaxRestarts    \* bound: restarts of the program

Other == "other"                                \* a block of somebody else

ASSUME BlocksAssumption ==
    /\ Tides \subseteq Blocks /\ Other \notin Blocks
    /\ \A b \in Blocks : HeightOf[b] \in 1..MaxHeight
ASSUME DepthAssumption == JudgeDepth \in Nat \ {0} /\ Maturity \in Nat /\ JudgeDepth <= Maturity
ASSUME BoundAssumption == MaxHeight \in Nat

Heights == 1..MaxHeight
Owners  == {OwnerOf[b] : b \in Blocks}
NoRow   == [hash |-> Other, status |-> "none"]

VARIABLES
    chain,         \* the node's active chain: the block at each height
    known,         \* the blocks of ours the node has, on its chain or beside it
    onceActive,    \* history: blocks of ours that were on the active chain
    sub,           \* where the submission of each block is
    tries,         \* reconcileBlock's submissions of each block
    blocks,        \* the table blocks, UNIQUE(height)
    payouts,       \* the table payouts: none, paid (coinbase-direct) or orphaned
    judge,         \* reconcilePendingSoloBlocks: its place, heights left and what it read
    failures, restarts

nodeVars   == <<chain, known, onceActive>>
faultVars  == <<failures, restarts>>
subVars    == <<sub, tries>>
ledgerVars == <<blocks, payouts>>
vars == <<nodeVars, faultVars, subVars, ledgerVars, judge>>

Ended == {"recorded", "tides", "lost", "unrecorded", "stopped"}
Idle  == [pc |-> "idle", cur |-> 0, todo |-> {}, hash |-> Other]

Init ==
    /\ chain = <<>> /\ known = {} /\ onceActive = {}
    /\ failures = 0 /\ restarts = 0
    /\ sub = [b \in Blocks |-> "none"]
    /\ tries = [b \in Blocks |-> 0]
    /\ blocks = [h \in Heights |-> NoRow]
    /\ payouts = [p \in Owners \X Heights |-> "none"]
    /\ judge = Idle

OnChain(b) == HeightOf[b] <= Len(chain) /\ chain[HeightOf[b]] = b

----------------------------------------------------------------------------
(* The node and its chain.                                                  *)

SetChain(c) ==
    /\ Len(c) <= MaxHeight
    /\ chain' = c
    /\ onceActive' = onceActive \cup (ToSet(c) \cap Blocks)

Extend ==
    /\ SetChain(Append(chain, Other))
    /\ UNCHANGED <<known, faultVars, subVars, ledgerVars, judge>>

\* A longer branch replaces the last n <= JudgeDepth blocks; what the node has of ours may be on
\* it at its height.
Reorg ==
    \E n \in 1..Min({JudgeDepth, Len(chain)}), mine \in SUBSET known :
        LET base == Len(chain) - n
            At(h) == {b \in mine : HeightOf[b] = h}
        IN  /\ \A b \in mine : HeightOf[b] > base /\ HeightOf[b] <= base + n + 1
            /\ \A h \in Heights : Cardinality(At(h)) <= 1
            /\ SetChain([h \in 1..(base + n + 1) |->
                            IF h <= base THEN chain[h]
                            ELSE IF At(h) = {} THEN Other ELSE CHOOSE b \in At(h) : TRUE])
    /\ UNCHANGED <<known, faultVars, subVars, ledgerVars, judge>>

\* submitblock with a block the node had not seen connects it, or keeps it beside its chain.
Connects(b) ==
    /\ b \notin known /\ HeightOf[b] = Len(chain) + 1
    /\ SetChain(Append(chain, b))
    /\ known' = known \cup {b}

KeepsAside(b) ==
    /\ HeightOf[b] <= Len(chain) + 1
    /\ known' = known \cup {b}
    /\ UNCHANGED <<chain, onceActive>>

\* The pool submits a TIDES block too, and its copy comes over the peer-to-peer network.
PoolsCopyArrives(b) ==
    /\ b \in Tides /\ sub[b] # "none" /\ b \notin known
    /\ Connects(b) \/ KeepsAside(b)
    /\ UNCHANGED <<faultVars, subVars, ledgerVars, judge>>

----------------------------------------------------------------------------
(* submitBlock and reconcileBlock.                                          *)

Goto(b, place) == sub' = [sub EXCEPT ![b] = place]

\* ProcessShare: a share solved a block for the newest height or the one before.
Found(b) ==
    /\ sub[b] = "none" /\ HeightOf[b] \in {Len(chain), Len(chain) + 1}
    /\ Goto(b, IF b \in Tides THEN "pool" ELSE "submit")
    /\ UNCHANGED <<nodeVars, faultVars, tries, ledgerVars, judge>>

\* tidesTakeShare: the pool answered, or two seconds passed.
PoolAnswersOrIsSlow(b) ==
    /\ sub[b] = "pool"
    /\ Goto(b, "submit")
    /\ UNCHANGED <<nodeVars, faultVars, tries, ledgerVars, judge>>

\* submitBlockToNode: what the node makes of the block, and the answer that comes back.
NodeTakes(b, answer) ==
    \/ Connects(b)   /\ answer \in {"accepted", "error"}
    \/ KeepsAside(b) /\ answer \in {"aside", "error"}
    \/ b \notin known /\ answer = "refused" /\ UNCHANGED nodeVars
    \/ answer = "error" /\ UNCHANGED nodeVars

Answers == {"accepted", "aside", "refused", "error"}

\* The first submission: anything but a clean accept is reconciled.
Submit(b) ==
    /\ sub[b] = "submit"
    /\ \E answer \in Answers :
          /\ NodeTakes(b, answer)
          /\ Goto(b, IF answer = "accepted" THEN "accepted" ELSE "lookup")
    /\ UNCHANGED <<faultVars, tries, ledgerVars, judge>>

\* (mutant of Lookup) any block at the height counts as ours.
LookupAnyHash(b) ==
    /\ sub[b] = "lookup"
    /\ Goto(b, IF HeightOf[b] <= Len(chain) THEN "accepted" ELSE "again")
    /\ UNCHANGED <<nodeVars, faultVars, tries, ledgerVars, judge>>

\* getblockhash at the block's height: no block there yet, or no answer; ours; or another's.
Lookup(b) ==
    /\ sub[b] = "lookup"
    /\ \/ Goto(b, "again")
       \/ HeightOf[b] <= Len(chain) /\ Goto(b, IF OnChain(b) THEN "accepted" ELSE "lost")
    /\ tries' = [tries EXCEPT ![b] = IF sub'[b] = "again" THEN @ ELSE 0]
    /\ UNCHANGED <<nodeVars, faultVars, ledgerVars, judge>>

\* The height has no block, or the node did not answer: submit again, until the deadline.
Again(b) ==
    /\ sub[b] = "again"
    /\ \E answer \in Answers :
          /\ NodeTakes(b, answer)
          /\ Goto(b, IF answer = "accepted" THEN "accepted"
                     ELSE IF answer = "refused" \/ tries[b] + 1 >= MaxTries THEN "lost" ELSE "lookup")
    /\ tries' = [tries EXCEPT ![b] = IF sub'[b] = "lookup" THEN @ + 1 ELSE 0]
    /\ UNCHANGED <<faultVars, ledgerVars, judge>>

----------------------------------------------------------------------------
(* Recording an accepted block.                                             *)

\* recordBlockRowAt: the first record at a height is inserted, another block's replaced.
RecordRow(b) ==
    LET h == HeightOf[b]
    IN  IF blocks[h].hash = b THEN UNCHANGED blocks
        ELSE blocks' = [blocks EXCEPT ![h] = [hash |-> b, status |-> "pending"]]

\* (mutant of RecordPayout) a row marked orphaned is not taken back.
RecordPayoutOnce(b) ==
    LET p == <<OwnerOf[b], HeightOf[b]>>
    IN  payouts' = [payouts EXCEPT ![p] = IF @ = "none" THEN "paid" ELSE @]

\* The payout row of SaveSoloBlockCoinbaseDirectAt: inserted paid, or taken back from orphaned.
RecordPayout(b) == payouts' = [payouts EXCEPT ![<<OwnerOf[b], HeightOf[b]>>] = "paid"]

\* A TIDES block is counted, not recorded: its coinbase pays the split.  A solo block is recorded
\* in one transaction, and kept for keepTrying when the database does not take it.
Credit(b) ==
    /\ sub[b] = "accepted"
    /\ \/ b \in Tides /\ Goto(b, "tides") /\ UNCHANGED ledgerVars
       \/ b \notin Tides /\ Goto(b, "recorded") /\ RecordRow(b) /\ RecordPayout(b)
       \/ b \notin Tides /\ Goto(b, "retry") /\ UNCHANGED ledgerVars
    /\ UNCHANGED <<nodeVars, faultVars, tries, judge>>

\* keepTrying: the database takes the record in the end, or blockRecordRetryFor passes.
RetryRecord(b) ==
    /\ sub[b] = "retry"
    /\ \/ Goto(b, "recorded") /\ RecordRow(b) /\ RecordPayout(b)
       \/ Goto(b, "unrecorded") /\ UNCHANGED ledgerVars
    /\ UNCHANGED <<nodeVars, faultVars, tries, judge>>

\* A stop waits for blockSubmits up to blockSubmitGrace, a crash for nothing; a record kept for
\* retrying is not waited for.  What is under way then is gone.
Restart ==
    /\ restarts < MaxRestarts
    /\ judge # Idle \/ \E b \in Blocks : sub[b] \notin Ended \cup {"none"}
    /\ restarts' = restarts + 1
    /\ sub' = [b \in Blocks |-> IF sub[b] \in Ended \cup {"none"} THEN sub[b] ELSE "stopped"]
    /\ tries' = [b \in Blocks |-> 0]
    /\ judge' = Idle
    /\ UNCHANGED <<nodeVars, failures, ledgerVars>>

----------------------------------------------------------------------------
(* The payout processor: reconcilePendingSoloBlocks, every minute.          *)

\* (mutant of PendingSolo) only a band just past maturity.
PendingBand(cur) == {h \in Heights : blocks[h].status = "pending" /\ h = cur - Maturity}

\* (mutant of PendingSolo) no depth is waited for.
PendingAtTip(cur) == {h \in Heights : blocks[h].status = "pending" /\ h <= cur}

PendingSolo(cur) == {h \in Heights : blocks[h].status = "pending" /\ h <= cur - JudgeDepth}

\* getblockcount and PendingSoloHeights.
JudgeStart ==
    /\ judge.pc = "idle"
    /\ PendingSolo(Len(chain)) # {}
    /\ judge' = [Idle EXCEPT !.pc = "row", !.cur = Len(chain), !.todo = PendingSolo(Len(chain))]
    /\ UNCHANGED <<nodeVars, faultVars, subVars, ledgerVars>>

Height == Min(judge.todo)

\* On to the next height, or the end of this cycle.
Advance ==
    judge' = IF judge.todo = {Height} THEN Idle
             ELSE [judge EXCEPT !.pc = "row", !.todo = @ \ {Height}, !.hash = Other]

\* A call fails: the height is left to the next cycle.
JudgeFails ==
    /\ judge.pc # "idle" /\ failures < MaxFailures
    /\ failures' = failures + 1
    /\ Advance
    /\ UNCHANGED <<nodeVars, restarts, subVars, ledgerVars>>

\* heightIsOrphaned: the recorded hash, then the chain's.
JudgeRow ==
    /\ judge.pc = "row"
    /\ judge' = [judge EXCEPT !.pc = "chain", !.hash = blocks[Height].hash]
    /\ UNCHANGED <<nodeVars, faultVars, subVars, ledgerVars>>

JudgeChain ==
    /\ judge.pc = "chain"
    /\ IF Height > Len(chain) THEN Advance
       ELSE IF chain[Height] # judge.hash THEN judge' = [judge EXCEPT !.pc = "orphan"]
       ELSE IF Height <= judge.cur - Maturity THEN judge' = [judge EXCEPT !.pc = "confirm"]
       ELSE Advance
    /\ UNCHANGED <<nodeVars, faultVars, subVars, ledgerVars>>

\* A row still pending takes the verdict.
Mark(h, status) ==
    blocks' = [blocks EXCEPT ![h].status = IF @ = "pending" THEN status ELSE @]

\* OrphanSoloBlock: the row and every coinbase-direct payout at the height, by height alone.
JudgeOrphan ==
    /\ judge.pc = "orphan"
    /\ Mark(Height, "orphaned")
    /\ payouts' = [p \in DOMAIN payouts |->
                      IF p[2] = Height /\ payouts[p] = "paid" THEN "orphaned" ELSE payouts[p]]
    /\ Advance
    /\ UNCHANGED <<nodeVars, faultVars, subVars>>

\* ConfirmSoloBlock.
JudgeConfirm ==
    /\ judge.pc = "confirm"
    /\ Mark(Height, "confirmed")
    /\ Advance
    /\ UNCHANGED <<nodeVars, faultVars, subVars, payouts>>

Judge == JudgeStart \/ JudgeFails \/ JudgeRow \/ JudgeChain \/ JudgeOrphan \/ JudgeConfirm

----------------------------------------------------------------------------
SubStep(b) ==
    \/ PoolAnswersOrIsSlow(b) \/ Submit(b) \/ Lookup(b) \/ Again(b)
    \/ Credit(b) \/ RetryRecord(b)

Next ==
    \/ Extend \/ Reorg \/ Restart
    \/ \E b \in Blocks : Found(b) \/ PoolsCopyArrives(b) \/ SubStep(b)
    \/ Judge

\* The program's goroutines go on and blocks go on being found.  That the node ever answers a
\* submission is not assumed.
Spec ==
    /\ Init /\ [][Next]_vars
    /\ WF_vars(Extend)
    /\ WF_vars(\E b \in Blocks : SubStep(b)) /\ WF_vars(Judge)

----------------------------------------------------------------------------
\* Only a block that was on the active chain is credited, whatever answers were lost on the way: a
\* losing sibling and a block the node merely keeps are not (reconcileBlock).
CreditedWasOnChain ==
    \A b \in Blocks : sub[b] \in {"accepted", "retry", "recorded", "tides"} => b \in onceActive

\* No two blocks of ours were ever on the chain at h.
Alone(h) == \A b, c \in onceActive : HeightOf[b] = h /\ HeightOf[c] = h => b = c

\* With one block of ours ever on the chain at a height, its verdict there is the chain's, for
\* good: confirmed exactly when it is on the chain, although the row, the chain and the mark are
\* read and written at three different times (reconcilePendingSoloBlocks).
VerdictIsTheChains ==
    \A h \in Heights :
        blocks[h].status \in {"confirmed", "orphaned"} /\ Alone(h)
        => (blocks[h].status = "confirmed" <=> OnChain(blocks[h].hash))

\* The payout of the recorded block is paid or orphaned as its row is, also after one sibling was
\* orphaned and another recorded over it (SaveSoloBlockCoinbaseDirectAt, OrphanSoloBlock).
PayoutFollowsRow ==
    \A h \in Heights : blocks[h] # NoRow =>
        payouts[<<OwnerOf[blocks[h].hash], h>>] = (IF blocks[h].status = "orphaned" THEN "orphaned" ELSE "paid")

\* Every recorded block is judged in the end, however late its record came and whichever cycles
\* failed or were missed meanwhile: PendingSoloHeights looks back over all pending rows.
RecordedIsJudged ==
    \A h \in {i \in Heights : i + Maturity <= MaxHeight} :
        blocks[h].status = "pending" ~> blocks[h].status # "pending"

=============================================================================
