----------------------------- MODULE AuxLedger -----------------------------
(***************************************************************************)
(* A solved 1175 block from the 1175 node to the ledger                    *)
(* (internal/stratum/aux_submit.go, cmd/stratum/main.go,                   *)
(* internal/stats/payout1175.go).  sendAuxBlock gives it to the node until *)
(* the node has decided it; aux1175BlockHandler records it, unless a       *)
(* sibling recorded at its height is on the chain, and credits its finder; *)
(* run1175PayoutCycle credits what was not, asks the node about every      *)
(* pending block, orphans, confirms and restores, and settles the credits  *)
(* of confirmed blocks.  Calls fail, the program restarts between any two  *)
(* steps, and the node forks and connects its chain anew, answering -1 for *)
(* blocks not connected yet.                                               *)
(***************************************************************************)
EXTENDS Integers, SequencesExt, FiniteSetsExt

CONSTANTS
    Blocks,        \* the 1175 blocks the miners solve
    HeightOf,      \* the height each one's work was for
    FinderOf,      \* the miner it is credited to
    Maturity,      \* aux1175Maturity
    RecheckDepth,  \* aux1175OrphanRecheckDepth
    MaxReorg,      \* the deepest reorganization
    MaxTries,      \* auxSubmitRetryFor, counted in tries
    MaxHeight,     \* bound: the length of the chain
    MaxFaults      \* bound: calls that fail (beyond those MaxTries counts), restarts and resyncs

ASSUME BlocksAssumption == \A b \in Blocks : HeightOf[b] \in 1..MaxHeight
ASSUME DepthAssumption  == Maturity \in Nat /\ MaxReorg \in Nat /\ MaxReorg < Maturity

Other == "other"
ASSUME OtherAssumption == Other \notin Blocks

Heights == 1..MaxHeight
Finders == {FinderOf[b] : b \in Blocks}
NoRow   == [hash |-> Other, status |-> "none", distributed |-> FALSE]

VARIABLES
    chain,         \* the node's best chain
    connected,     \* the height up to which it has connected it
    known,         \* the blocks of ours the node has
    sub,           \* where each block is
    tries,         \* submitauxblock calls of each block
    rows,          \* blocks_1175, by height
    credits,       \* payouts_1175, by finder and height
    cycle,         \* run1175PayoutCycle: its place, the rows left, the chain's state it read
    faults,
    past           \* history: how each height's row was changed: replaced, past, restored

nodeVars   == <<chain, connected, known>>
subVars    == <<sub, tries>>
ledgerVars == <<rows, credits, past>>
vars == <<nodeVars, subVars, ledgerVars, cycle, faults>>

Idle == [pc |-> "idle", todo |-> {}, tip |-> 0]

Init ==
    /\ chain = <<>> /\ connected = 0 /\ known = {}
    /\ sub = [b \in Blocks |-> "none"]
    /\ tries = [b \in Blocks |-> 0]
    /\ rows = [h \in Heights |-> NoRow]
    /\ credits = [c \in Finders \X Heights |-> "none"]
    /\ cycle = Idle
    /\ faults = 0 /\ past = [h \in Heights |-> {}]

OnChain(b) == HeightOf[b] <= Len(chain) /\ chain[HeightOf[b]] = b
CaughtUp   == connected = Len(chain)

\* getblock's confirmations: -1 off the connected chain.  Of a block the node does not know there
\* is no answer, and nothing here asks.
Confirmations(b) ==
    IF OnChain(b) /\ HeightOf[b] <= connected THEN connected - HeightOf[b] + 1 ELSE -1

Fault == faults < MaxFaults /\ faults' = faults + 1

----------------------------------------------------------------------------
(* The node.                                                                *)

SetChain(c) == Len(c) <= MaxHeight /\ chain' = c /\ connected' = Len(c)

Extend ==
    /\ CaughtUp /\ SetChain(Append(chain, Other))
    /\ UNCHANGED <<known, subVars, ledgerVars, cycle, faults>>

\* The last n blocks give way to a longer branch, which one of ours the node has may be on.
Reorg ==
    /\ CaughtUp
    /\ \E n \in 1..Min({MaxReorg, Len(chain)}), mine \in known \cup {Other} :
          LET base == Len(chain) - n
          IN  SetChain([h \in 1..(base + n + 1) |->
                           IF h <= base THEN chain[h]
                           ELSE IF mine # Other /\ HeightOf[mine] = h THEN mine ELSE Other])
    /\ UNCHANGED <<known, subVars, ledgerVars, cycle, faults>>

\* -reindex, or a new sync: the chain is connected again from the start.
Resync ==
    /\ Fault /\ CaughtUp /\ chain # <<>>
    /\ connected' = 0
    /\ UNCHANGED <<chain, known, subVars, ledgerVars, cycle>>

Connect ==
    /\ ~CaughtUp /\ connected' = connected + 1
    /\ UNCHANGED <<chain, known, subVars, ledgerVars, cycle, faults>>

\* submitauxblock takes the block onto the chain, or beside a sibling that is there.
Takes(b) ==
    /\ CaughtUp /\ b \notin known
    /\ known' = known \cup {b}
    /\ \/ HeightOf[b] = Len(chain) + 1 /\ SetChain(Append(chain, b))
       \/ HeightOf[b] = Len(chain) /\ UNCHANGED <<chain, connected>>

----------------------------------------------------------------------------
(* sendAuxBlock.                                                            *)

Goto(b, place) == sub' = [sub EXCEPT ![b] = place]

\* A share solves the work, which the node gave out for the block after its tip.
Solved(b) ==
    /\ sub[b] = "none" /\ HeightOf[b] \in {Len(chain), Len(chain) + 1}
    /\ Goto(b, "send")
    /\ UNCHANGED <<nodeVars, tries, ledgerVars, cycle, faults>>

\* submitauxblock: accepted, refused, -8 for work the node no longer has, or no answer, which the
\* node may have acted on all the same.
Send(b) ==
    /\ sub[b] = "send"
    /\ \/ Takes(b) /\ Goto(b, "check")
       \/ Takes(b) /\ Goto(b, "askAgain")
       \/ b \notin known /\ Goto(b, "dropped") /\ UNCHANGED nodeVars
       \/ b \in known /\ Goto(b, "askOnce") /\ UNCHANGED nodeVars
       \/ Goto(b, "askAgain") /\ UNCHANGED nodeVars
    /\ tries' = [tries EXCEPT ![b] = IF sub'[b] \in {"askOnce", "askAgain"} THEN @ + 1 ELSE 0]
    /\ UNCHANGED <<ledgerVars, cycle, faults>>

\* After which the answer to Ask, when the block is not on the chain, ends it or tries again.
Unproven(b) == Goto(b, IF sub[b] = "askAgain" /\ tries[b] < MaxTries THEN "send" ELSE "dropped")

\* (mutant of Ask) -8 is the node's decision.
AskUnlessDecided(b) ==
    /\ sub[b] \in {"askOnce", "askAgain"}
    /\ IF sub[b] = "askAgain" /\ b \in known /\ Confirmations(b) > 0 THEN Goto(b, "check") ELSE Unproven(b)
    /\ UNCHANGED <<nodeVars, tries, ledgerVars, cycle, faults>>

\* BlockConfirmations: a block on the chain was accepted.
Ask(b) ==
    /\ sub[b] \in {"askOnce", "askAgain"}
    /\ \/ /\ IF b \in known /\ Confirmations(b) > 0 THEN Goto(b, "check") ELSE Unproven(b)
          /\ UNCHANGED faults
       \/ Fault /\ Unproven(b)
    /\ tries' = [tries EXCEPT ![b] = IF sub'[b] = "send" THEN @ ELSE 0]
    /\ UNCHANGED <<nodeVars, ledgerVars, cycle>>

Happened(h, what) == past' = [past EXCEPT ![h] = @ \cup {what}]

----------------------------------------------------------------------------
(* aux1175BlockHandler: record, tried again for a day, then distribute.     *)

\* A sibling recorded at the height is kept when the node has it on its chain; when the node does
\* not answer it is not.
Check(b) ==
    LET recorded == rows[HeightOf[b]].hash
    IN  /\ sub[b] = "check"
        /\ \/ /\ Goto(b, IF recorded \in Blocks \ {b} /\ Confirmations(recorded) > 0 THEN "kept" ELSE "write")
              /\ UNCHANGED faults
           \/ recorded \in Blocks \ {b} /\ Fault /\ Goto(b, "write")
        /\ UNCHANGED <<nodeVars, tries, ledgerVars, cycle>>

\* Record1175BlockAt: another block's row is replaced, and its unpaid credits voided next; the
\* first row at a height is inserted; the same block's stays.
Write(b) ==
    LET h == HeightOf[b]
    IN  /\ sub[b] = "write"
        /\ \/ /\ rows[h].hash # b
              /\ rows' = [rows EXCEPT ![h] = [hash |-> b, status |-> "pending", distributed |-> FALSE]]
              /\ IF rows[h] = NoRow THEN Goto(b, "distribute") /\ UNCHANGED past
                 ELSE Goto(b, "void") /\ Happened(h, "replaced")
              /\ UNCHANGED faults
           \/ rows[h].hash = b /\ Goto(b, "distribute") /\ UNCHANGED <<rows, past, faults>>
           \/ Fault /\ Goto(b, "check") /\ UNCHANGED <<rows, past>>
        /\ UNCHANGED <<nodeVars, tries, credits, cycle>>

\* The credits pending at a height, all taken to status.
SetPending(h, status) ==
    credits' = [c \in DOMAIN credits |-> IF c[2] = h /\ credits[c] = "pending" THEN status ELSE credits[c]]

Void(b) ==
    /\ sub[b] = "void"
    /\ \/ SetPending(HeightOf[b], "orphaned") /\ Goto(b, "distribute") /\ UNCHANGED faults
       \/ Fault /\ Goto(b, "check") /\ UNCHANGED credits
    /\ UNCHANGED <<nodeVars, tries, rows, past, cycle>>

\* (mutant of Credited) whatever was credited before stays.
CreditedBeside(h, finder) ==
    [credits EXCEPT ![<<finder, h>>] = IF @ \in {"none", "pending"} THEN "pending" ELSE @]

\* The pending rows of the height are deleted and the finder's inserted, unless it has another.
Credited(h, finder) ==
    [c \in DOMAIN credits |->
        IF c[2] # h \/ credits[c] \notin {"none", "pending"} THEN credits[c]
        ELSE IF c[1] = finder THEN "pending" ELSE "none"]

\* Distribute1175Block, one transaction: nothing for a row distributed or orphaned, refused for a
\* height with paid credits.
Distribute(h) ==
    IF rows[h].distributed \/ rows[h].status = "orphaned" \/ \E m \in Finders : credits[<<m, h>>] = "paid"
    THEN UNCHANGED <<rows, credits>>
    ELSE /\ credits' = Credited(h, FinderOf[rows[h].hash])
         /\ rows' = [rows EXCEPT ![h].distributed = TRUE]

HandlerDistributes(b) ==
    /\ sub[b] = "distribute"
    /\ \/ Distribute(HeightOf[b]) /\ UNCHANGED faults
       \/ Fault /\ UNCHANGED <<rows, credits>>
    /\ Goto(b, "done")
    /\ UNCHANGED <<nodeVars, tries, past, cycle>>

----------------------------------------------------------------------------
(* run1175PayoutCycle, every two minutes.                                   *)

RowsWith(status) == {h \in Heights : rows[h].status = status}
Undistributed    == {h \in Heights : rows[h].status \in {"pending", "confirmed"} /\ ~rows[h].distributed}

\* The next of the rows the cycle listed, with the hash it had then.
Item == CHOOSE i \in cycle.todo : \A j \in cycle.todo : i[1] <= j[1]
Rest == cycle.todo \ {Item}
Items(hs) == {<<h, rows[h].hash>> : h \in hs}
Go(pc, todo) == cycle' = [cycle EXCEPT !.pc = pc, !.todo = todo]

CycleStarts ==
    /\ cycle.pc = "idle" /\ \E h \in Heights : rows[h] # NoRow
    /\ Go("redistribute", Items(Undistributed))
    /\ UNCHANGED <<nodeVars, subVars, ledgerVars, faults>>

Redistribute ==
    /\ cycle.pc = "redistribute" /\ cycle.todo # {}
    /\ \/ Distribute(Item[1]) /\ UNCHANGED faults
       \/ Fault /\ UNCHANGED <<rows, credits>>
    /\ Go("redistribute", Rest)
    /\ UNCHANGED <<nodeVars, subVars, past>>

\* aux1175ChainState and UnconfirmedBlocks1175: a node not caught up judges nothing.
ReadChainState ==
    /\ cycle.pc = "redistribute" /\ cycle.todo = {}
    /\ cycle' = IF CaughtUp THEN [pc |-> "judge", todo |-> Items(RowsWith("pending")), tip |-> Len(chain)]
                ELSE [cycle EXCEPT !.pc = "settle"]
    /\ UNCHANGED <<nodeVars, subVars, ledgerVars, faults>>

\* What is decided of the row at hand is done in a step of its own.
JudgeNext ==
    /\ cycle.pc = "judge" /\ cycle.todo # {}
    /\ LET conf == Confirmations(Item[2])
       IN  \/ conf < 0 /\ Go("orphan", cycle.todo) /\ UNCHANGED faults
           \/ conf >= Maturity /\ Go("confirm", cycle.todo) /\ UNCHANGED faults
           \/ conf \in 0..(Maturity - 1) /\ Go("judge", Rest) /\ UNCHANGED faults
           \/ Fault /\ Go("judge", Rest)
    /\ UNCHANGED <<nodeVars, subVars, ledgerVars>>

\* Orphan1175Block, by height alone.
MarkOrphan ==
    /\ cycle.pc = "orphan"
    /\ rows' = [rows EXCEPT ![Item[1]].status = "orphaned"]
    /\ SetPending(Item[1], "orphaned")
    /\ Go("judge", Rest)
    /\ UNCHANGED <<nodeVars, subVars, past, faults>>

\* Confirm1175Block.
MarkConfirmed ==
    /\ cycle.pc = "confirm"
    /\ rows' = [rows EXCEPT ![Item[1]].status = IF @ = "pending" THEN "confirmed" ELSE @]
    /\ Go("judge", Rest)
    /\ UNCHANGED <<nodeVars, subVars, credits, past, faults>>

\* (mutant of ReadOrphans) an orphaned block is left alone.
ReadNoOrphans ==
    /\ cycle.pc = "judge" /\ cycle.todo = {}
    /\ Go("settle", {})
    /\ UNCHANGED <<nodeVars, subVars, ledgerVars, faults>>

\* Orphaned1175Blocks, down to the recheck depth.
ReadOrphans ==
    /\ cycle.pc = "judge" /\ cycle.todo = {}
    /\ Go("recheck", Items({h \in RowsWith("orphaned") : h >= cycle.tip - RecheckDepth}))
    /\ UNCHANGED <<nodeVars, subVars, ledgerVars, faults>>

RecheckNext ==
    /\ cycle.pc = "recheck"
    /\ IF cycle.todo = {} THEN Go("settle", {}) /\ UNCHANGED faults
       ELSE \/ Go(IF Confirmations(Item[2]) > 0 THEN "restore" ELSE "recheck",
                  IF Confirmations(Item[2]) > 0 THEN cycle.todo ELSE Rest) /\ UNCHANGED faults
            \/ Fault /\ Go("recheck", Rest)
    /\ UNCHANGED <<nodeVars, subVars, ledgerVars>>

\* Restore1175Block, by height and hash.
Restore ==
    /\ cycle.pc = "restore"
    /\ IF rows[Item[1]].hash = Item[2] /\ rows[Item[1]].status = "orphaned"
       THEN /\ rows' = [rows EXCEPT ![Item[1]].status = "pending"]
            /\ credits' = [c \in DOMAIN credits |->
                              IF c[2] = Item[1] /\ credits[c] = "orphaned" THEN "pending" ELSE credits[c]]
            /\ Happened(Item[1], "restored")
       ELSE UNCHANGED ledgerVars
    /\ Go("recheck", Rest)
    /\ UNCHANGED <<nodeVars, subVars, faults>>

\* (mutant of Settleable) a block need not be confirmed.
SettleableEarly(c) == credits[c] = "pending"

Settleable(c) == credits[c] = "pending" /\ rows[c[2]].status = "confirmed"

\* Settle1175ByCoinbase, for every miner with credits on confirmed blocks.
Settle ==
    /\ cycle.pc = "settle"
    /\ credits' = [c \in DOMAIN credits |-> IF Settleable(c) THEN "paid" ELSE credits[c]]
    /\ cycle' = Idle
    /\ UNCHANGED <<nodeVars, subVars, rows, past, faults>>

\* What is under way is lost, a record kept for retrying included.
Restart ==
    /\ cycle # Idle \/ \E b \in Blocks : sub[b] \notin {"none", "done", "kept", "dropped", "stopped"}
    /\ Fault
    /\ cycle' = Idle
    /\ sub' = [b \in Blocks |-> IF sub[b] \in {"none", "done", "kept", "dropped"} THEN sub[b] ELSE "stopped"]
    /\ tries' = [b \in Blocks |-> 0]
    /\ UNCHANGED <<nodeVars, ledgerVars>>

----------------------------------------------------------------------------
Handle(b) == Send(b) \/ Ask(b) \/ Check(b) \/ Write(b) \/ Void(b) \/ HandlerDistributes(b)

Cycle ==
    \/ CycleStarts \/ Redistribute \/ ReadChainState \/ JudgeNext \/ MarkOrphan \/ MarkConfirmed
    \/ ReadOrphans \/ RecheckNext \/ Restore \/ Settle

Next ==
    \/ Extend \/ Reorg \/ Resync \/ Connect \/ Restart
    \/ \E b \in Blocks : Solved(b) \/ Handle(b)
    \/ Cycle

\* The goroutines go on, the node connects its chain, and 1175 blocks go on being found.
Spec ==
    /\ Init /\ [][Next]_vars
    /\ WF_vars(Extend \/ Connect)
    /\ WF_vars(\E b \in Blocks : Handle(b)) /\ WF_vars(Cycle)

----------------------------------------------------------------------------
\* A height never has more than one finder credited, over siblings recorded in either order, retried
\* distributions and orphanings (Distribute1175Block: "can never exceed one reward").  Excepted is a
\* height both replaced and restored: Restore1175Block takes back every orphaned credit there.
OneCreditPerHeight ==
    \A h \in Heights : ~({"replaced", "restored"} \subseteq past[h]) =>
        Cardinality({m \in Finders : credits[<<m, h>>] \in {"pending", "paid"}}) <= 1

\* A credit is settled only while a block of its finder is on the node's chain, whatever the node
\* answered while it connected its chain anew.  Excepted is a height whose row was replaced: the
\* replacement may fall between what the cycle reads of a row and the mark it makes by height.
PaidIsOnChain ==
    [][\A c \in DOMAIN credits :
          credits[c] # "paid" /\ credits'[c] = "paid" /\ "replaced" \notin past[c[2]]
          => \E b \in Blocks : FinderOf[b] = c[1] /\ HeightOf[b] = c[2] /\ OnChain(b)]_vars

\* While the node answers it, sendAuxBlock gives up no block that is on the chain, although the
\* answer that it was accepted may have been lost.
WinnerNotDropped ==
    [][\A b \in Blocks :
          /\ sub[b] \notin {"dropped", "none"} /\ sub'[b] = "dropped"
          => ~OnChain(b) \/ ~CaughtUp \/ faults' # faults]_vars

\* A recorded block that stays on the chain is confirmed in the end, also when it was marked orphaned
\* while the node had not connected it, or while its sibling was recorded (Restore1175Block).
RecordedIsConfirmed ==
    \A h \in {i \in Heights : i + Maturity <= MaxHeight + 1} :
        []<>(rows[h].hash \in Blocks /\ OnChain(rows[h].hash) => rows[h].status = "confirmed")

=============================================================================
