# Forge Solo: specifications

TLA+ models of Forge Solo, the home mining server of this repository: what is
checked by TLC on small instances, what TLAPS proves for every instance, and
what is left. Each module is translated from the Go code; `PROJECT.json`
(`map`) names the lines every definition stands for.

    tlc -config MCJobLoopPool.cfg MCJobLoop.tla      # one run
    tlapm JobsProofs.tla                             # the proofs of the jobs and the shares on them

## The system and its parts

Forge Solo turns a BCH2 node's block templates into stratum jobs, takes miners'
shares, submits the blocks among them, merge mines 1175 blocks on the same work
and, when the user chooses TIDES, lets Forge Pool set the coinbase so that a
block pays the pool's split. A dashboard writes its settings to SQLite and the
stratum program picks them up. On Umbrel the programs are containers, on Linux
children of one systemd service, on Windows children of a launcher; an earlier
version kept its data in PostgreSQL, which is moved into SQLite at a start.

    launcher / service / containers: start, supervise and stop the programs below; the migrator runs first

    dashboard (cmd/api) --SQLite--> watcher (main.go) --mode, addresses--+
                                                                         v
    BCH2 node --templates--> job loop (job_loop.go) --BroadcastJob--> stratum server <--> miners
                                |      ^  ^                              |   |
          registration          v      |  +-- 1175 work (jobs.go)        |   +-- 1175 solutions --> 1175 node
    Forge Pool <----- TIDES gateway (gateway.go) <---- shares -----------+
                                                                         v
                                    block submission, ledgers (main.go, stats) --> BCH2 node, SQLite

| Component | State | Operations | Hard part | What makes it correct |
|---|---|---|---|---|
| 1175 work cache, `internal/mining/jobs.go` | `aux*` fields of JobManager under one mutex; the poller goroutine | switch merge mining on / to another address / off, poll, store an answer, read for a job | an RPC answer is stored long after it was asked for; the poller is started and stopped by flags | cached work pays the address in effect; never two pollers; the cache follows the 1175 tip |
| Job loop, `cmd/stratum/job_loop.go`, `job_refresh.go`, `tides.go` | last block, pending registration, current job, timers | one turn: template, decision, registration or build, send | settings change and answers arrive in the middle of a turn | a block's work always goes out; settings take effect; miners never keep work that pays a replaced address |
| TIDES gateway, registration, `internal/tidesgw` | state, tip, wait height, timers under `g.mu` | Due, Track, Fallback, Reset, Keep | a late or stale answer | its tip is the miners' block; TIDES is regained after an outage |
| TIDES gateway, shares | queue, calls under way, counts | Forward, SendBlock, Flush, tally | several calls at once, lost answers | each share is held once and settled once; the totals add up |
| Shares and jobs, `internal/stratum/server.go`, `cmd/stratum/main.go` | currentJob, jobHistory, submittedShares: three maps, no common lock; the program's own jobHistory | submit, broadcast, prune, evict, login, process, submit a block | each handler is several steps over the maps; the header is put together in four places | a solved block reaches the node as it was solved; a header is accepted once; a 1175 solution is sent whatever becomes of its share |
| Split, DATUM wire, block builder | none | pure functions | rounding, dust, byte orders | the coinbase pays the value exactly; what is submitted is what was solved |
| Difficulty, `internal/stratum/server.go` | each client's difficulty, the last one sent, the record of job difficulties; `client.mu`, `client.sendMu` | login, suggestion, vardiff, reduction, idle rescue, broadcast | set under one lock, sent under another | no share is judged harder than the miner was told; a miner comes below the network difficulty |
| Connections, `internal/stratum/server.go`, `gate.go` | slots in all and per address, clients, out queue of 64 and its writer | accept, log in, enqueue, wait for room, broadcast, close, stop | slow readers, connections that say nothing, shutdown | limits hold and slots come back; a live miner is not cut off and has work |
| Block submission and reconciliation, `cmd/stratum/main.go`, `internal/stats` | submissions under way; tables blocks and payouts | submitBlock, reconcileBlock, keepTrying, record, reconcilePendingSoloBlocks | node forks, timeouts, database down, restarts | a block on the chain is recorded and judged, one that never was is not credited |
| 1175 submission and payouts, `aux_submit.go`, `cmd/stratum/main.go`, `internal/stats` | headers sent before; tables blocks_1175 and payouts_1175 | sendAuxBlock, aux1175BlockHandler, run1175PayoutCycle | siblings, lost answers, a node that connects its chain anew | a height is credited once, only a block on the chain is paid |
| Migration and lock, `internal/pgmigrate`, `migstatus`, `dblock`, `cmd/forge-solo-migrate` | old data, database, WAL, copy, marker, status, choice, in-use lock | plan, copy, merge, verify, commit, record; open | crash between two steps; the earlier version run again | nothing recorded is lost; the old data is in where the status says so |
| Linux service, `cmd/forge-solo-linux` | children, unit, release directories | run, supervise, stop, install, uninstall | a stop during a restart, an install that fails or is cut short | files replaced under nothing that runs; a stop ends; programs come back |
| Windows launcher, `windows/launcher` | procs under mu, and a goroutine per pending start | start, supervise, Restart Mining, Try Again, stop | several goroutines start and stop the same program | nothing left running; what should run comes back |
| Settings watcher, `watchPoolConfig` | last values seen | read, compare, apply | a change between two reads | in part in `JobLoop` and `AuxPoller` |
| Dashboard API, `cmd/api` | none of its own | HTTP handlers | maintenance page while the move is not done | in part in `Migration` |
| Forge Gateway, `cmd/forge-gateway` | an engine around the same server and gateway, pool only | apply settings, stop | as the job loop | not modelled |
| Addresses, listeners, packaging, site | none | pure functions, I/O, files | boundary values | left to their tests |

`PROJECT.json` lists the same parts with their status, and under `hazards` what
in this code is hard to test, at its line, with the properties that watch it.

## Modules

| Module | What it is |
|---|---|
| `AuxPoller` | the 1175 work cache: the watcher, the poller and the job loop's read |
| `JobLoop` | the job loop composed with the gateway's registration half, the watcher, the pool and both nodes |
| `ShareQueue` | the gateway's share half |
| `ShareLedger` | what the gateway promises of a share; `ShareQueue` implements it |
| `ShareQueueProofs` | that its totals add up, and that it implements `ShareLedger` |
| `TidesSplit` | operators: the split of a TIDES coinbase, what it must satisfy, the committed share difficulty |
| `BlockBuild` | operators over `TidesSplit`: template, job, coinbase, merkle tree, header, block, 1175 proof, DATUM registration |
| `ShareIntake` | over `BlockBuild`: submit, broadcast, histories, duplicate record, 1175 solutions, and a solved share up to the node |
| `Difficulty` | one connection's difficulty: who sets it, who sends it, what the miner has |
| `DifficultyProofs` | that no share is judged harder than the miner was told |
| `Connection` | slots, logins, out queues, broadcasts, proven levels, Stop |
| `ConnectionProofs` | that limits hold, miners have work, are not dropped for their own requests, and levels are counted |
| `BlockLedger` | a found BCH2 block from its submission to its confirmed or orphaned row |
| `BlockLedgerProofs` | that credits, payouts and verdicts are the chain's |
| `AuxLedger` | a solved 1175 block from the node to the settled credit |
| `Migration` | the move from PostgreSQL, the in-use lock and the programs that open the database |
| `MigrationProofs` | that nothing recorded is lost, the old data arrives, no database starts empty, and a merge keeps what was written |
| `LinuxService` | forge-solo run, install-service and uninstall-service under systemd |
| `Launcher` | the Windows launcher's programs |
| `JobsProofs` | over `JobLoop` and `ShareIntake`: the gateway's tip is the miners' block, the work they may be on pays alike, and what becomes of a share, of the block in it and of a 1175 solution |
| `AuxProofs` | over `AuxPoller` and `AuxLedger`: the cache pays the address in effect, a height is credited once, what is paid is on the chain, no winner is given up |
| `ProgramsProofs` | over `LinuxService` and `Launcher`: nothing is replaced under a running program, an install fails safely, the launcher's stop leaves nothing |
| `MC*` | constants for TLC |

Where a proof module is over two components it extends both: their names differ
(`LoopSpec`, `CacheSpec`, `LauncherSpec` beside the other's `Spec`), and each theorem
speaks of one of them, from that one's assumptions.

How state and actions correspond to the code:

* A step is what the code does under one hold of a mutex, or between two points
  where another goroutine, program or power cut can come in. A remote call is two
  steps, answered and taken. `pc` variables name where a goroutine is; a
  goroutine's locals are kept only while they are used.
* Clocks are flags (`young`, `due`, `old`, `spaced`, `retryDue`, `aged`, `late`,
  `reduced`): the clock may raise or clear them at any time, so no property rests
  on one timer being faster than another. Waits and graces end at some point.
* A block, job, share, address and header is a model value or a number; scripts
  and JSON are left out. In `BlockBuild` a hash is the tuple of what it hashes.
  In `Difficulty` a difficulty is a rank: what is halved or reduced by a fifth
  becomes some lower rank.
* A variable commented `history` is read by no action's guard; it keeps what a
  property needs to know of the past.

`AuxPoller`. `Enable`, `PrimeAsk`, `PrimeStore` and `StartPoller` are the parts of
EnableMergeMining; `Disable` is DisableMergeMining; `Poll*` are auxRefreshLoop with
refreshAuxOnce; `JobWork` is what fetchAuxWork gives a job. `gen` is what makes a
late answer recognisable.

`JobLoop`. `Fetch` begins a turn with the node's template (`GetBlockTemplate`);
`CatchUp`, `LeaveToPending`, `NothingDue`, `DecideSolo` and `DecideTides` are the
decision; `WaitAnswer` and `WaitTimeout` the bounded wait for the pool on a new
block; `Build`, `Send` the job; `Finish` a registration that answered later.
`live` is the set of jobs a miner may still work on: all since the last one sent
with clean_jobs.

`ShareQueue`. A call's shares are out of the queue from its request until it
comes back (`Returns`, `Fails`); the gateway cannot tell whether a call that
failed was judged. `Only` picks, in their order, the shares of a queue or a batch
that a loop of the gateway keeps.

`BlockBuild` and `TidesSplit` follow the bytes as far as an agreement rests on
them: the two byte orders of a hash, merkle branches against the tree the node
builds, the height push's sign byte, the coinbase script's length, the version
bits a miner may roll as a whole word or as bits only. `Found` is the header the
miner hashed, `Block` what submitBlock makes of the same share, `AuxProof` what
the 1175 node gets; `NodeAccepts` and `AuxNodeAccepts` are the nodes' (external)
checks. `Split` is Split with dust, carry, scaling and the leftover satoshis;
`SplitKeeps` states what it must satisfy without following its loop. It was also
evaluated on 24,576 windows in full.

`ShareIntake`. `Broadcast` goes through BroadcastJob in its order; `Submit` is
handleSubmit up to the staleness check, `Accept` the duplicate check and what
follows; `PruneBegin`, `PruneVisit` and `PruneEnd` are one range over the
sync.Map, which may or may not visit an entry stored meanwhile. `ProcessShare`
judges a candidate by the difficulty then current (`Threshold`), `SubmitBlock`
looks its job up in the program's history and builds the block. A share whose
job is broadcast but not yet in the history is refused as unknown, as in the code.

`Difficulty`. `SendDifficulty`/`QueueDifficulty` and `SendJob`/`QueueJob` are the
two halves of a send under sendMu: the bookkeeping under `client.mu`, and the
queue. `wire` is what the miner will last have been told when it reads the next
job; `told` keeps that per job. `vardiffLevel` is what the clock and the share
times make of a difficulty: any rank they may lead to; `SetLevel` keeps it or not.

`Connection`. `Arrive` is acceptLoop (`Count` its slot), `Handler` handleClient
with the line reader, `Write` the writer, `Broadcast`/`BroadcastTo` BroadcastJob,
`Scan*` maxDifficultyAt over the clients and then the departed, `Stopping` Stop
and what it waits for. A far end may send, stay silent, read or not.

`BlockLedger`. `Found` gives a block to submitBlock, `SubStep` is the goroutine
from there: the node's answer (also lost or wrong), `Lookup` of reconcileBlock,
`Record` and `RecordPayout` under keepTrying; `Judge` is one
reconcilePendingSoloBlocks, height by height, with its reads of the chain and its
conditional updates apart. `Extend` and `Reorg` are the node.

`AuxLedger`. `Handle` is sendAuxBlock and aux1175BlockHandler (`Ask` what the node
says to a submission, `Credited` the upsert of Distribute1175Block); `Cycle` is
run1175PayoutCycle: distribute, judge, confirm or orphan, restore
(`ReadOrphans`), settle (`Settleable`). `Resync` and `Connect` are a node that
knows its chain and connects it anew, answering -1 meanwhile.

`Migration`. `Migrator` goes through Run: the plan (`Plan`), the copy, the merge
with a database that is there (`Merged`), the verification of what came out, the
rename, the directory sync, the marker, the status. Copy and merge may each write
a row wrongly, any step may fail, and `PowerCut` may come between any two (what is
not synced may come back). `Service` waits for the status and the in-use lock,
opens, writes, closes; `OldVersionRuns` is the earlier version started again.
Rows are heights with their block and verdict, and the settings with the time
they were saved. A block found is one that neither database has (`New`): a block is
found once.

`LinuxService`. `runCmd` and `RunChecks` are forge-solo run, `supervise`, `spawn`
and `Exits` one child each, `Stopping` the stop in order; the `ipc` steps are
install-service and uninstall-service, cut short anywhere by a crash or failing
with their deferred undo (`Undone`). `unit` and `loaded` are the unit on disk and
as systemd has read it.

`Launcher`. `Boot` is the start, `exitedOnItsOwn`, `StartAgain` and `keepStarting`
the goroutines that start a program again, `Restart` Restart Mining, `Shutdown` the
stop; `Starts` is startTracked, the one place that looks under mu whether the
stop has begun.

## Runs

| Run | What it shows | Bounds |
|---|---|---|
| `AuxPoller` | the cached work pays the address in effect (`WorkPaysAddressInEffect`); the cache follows the tip (`FollowsTip`) | 2 addresses, 3 switches, 2 tips |
| `JobLoopPool` | TIDES and solo: `TidesTipAgrees`, `LiveJobsPayAlike`, `NewBlockGetsWork`, `ModeTakesEffect` | 2 rival blocks and a deciding one, any pool behaviour |
| `JobLoopSolo` | solo: address and 1175 changes reach the miners (`SettingsTakeEffect`) | 2 + 2 addresses, 1 work |
| `ShareQueue` | `CountsAddUp`, `KeepsLedger` (refinement of `ShareLedger`), `OrdinarySharesSettle` | 3 ordinary shares and a solving one, queue and batch of 2, one tip change |
| `ShareIntake` | `SolvedGoesToNode`, `BlocksHold`, `AuxSolutionsSent`, `AcceptedOnceOnFirstBlock`, `RegistrationsHold` | 2 connections, 3 templates, 2 solutions, histories of 2 |
| `Difficulty` | `NeverJudgedHarder`, `HeldBackHeals` | 3 ranks, 2 network difficulties, 2 job ids, record of 1 |
| `Connection` | `LimitsKept`, `LoggedInHasWork`, `OnlyBroadcastsOverflow`, `ProvenLevelCounted`, `HandlersGoOn` | 3 connections from 2 internet addresses and one of this machine, 3 slots of which one is kept for the local network, queue of 6, a place for one departed level, in five mixes |
| `BlockLedger` | `CreditedWasOnChain`, `VerdictIsTheChains`, `PayoutFollowsRow`, `RecordedIsJudged` | two siblings and a TIDES block, chain of 4, 1 failure, 1 restart, forks of up to 2 |
| `AuxLedger` | `OneCreditPerHeight`, `PaidIsOnChain`, `WinnerNotDropped`, `RecordedIsConfirmed` | two siblings of two finders, chain of 3, 1 fault |
| `Migration` | `NothingLost`, `OldDataIsIn`, `NoEmptyStart`, `WorkIsKept` | Umbrel and Windows, 2 programs, 2 heights, 2 blocks, the settings, 1 record, 2 faults |
| `LinuxService` | `NotUnderARunningOne`, `FailsSafely`, `StopFinishes`, `ProgramsComeBack` | 3 children, 2 installs, 1 crash, 2 failing steps, 1 exit, 1 signal |
| `Launcher` | `StopsCleanly`, `ComesBack` | 1 node, API, miner, migrator; 1 exit, 1 failed start, 2 clicks |

Why the bounds are enough. The races of `AuxPoller` and `JobLoop` need two
switches (off and on, or two addresses) and a third to compare with. Two rival
blocks and a third cover a pool ahead, behind and on another chain, and a tip
that returns to a known height. A history and a record smaller than the number
of jobs, and a queue as short as two shares, make every eviction and overflow
happen. `Difficulty` reuses job ids, so the run has no bound on the number of
jobs; with three ids and a record of two its invariants hold as well (1.2 million
states), the smaller record is used because the liveness check needs the whole
graph.

`ShareIntake` has two solo jobs on one block with 1175 work and a TIDES job on the
next, harder block, their heights (127 and 128) either side of the one whose push
needs a sign byte; a solution with a whole version word, sent up to twice, that
solves a block, and an ordinary one with version bits only; both solve the 1175
block. The window the TIDES job pays has no work yet, a miner below dust, carried
satoshis, or one whom only the scaling takes below dust, by what was credited
before.

`Connection` takes its bounds together (`Mixes`): silent connections, one more than
there are slots and three from the internet where two are open to it, while the
server stops; a miner through two broadcasts; a miner with a share
in process as the server stops, and as its level is read, with the record's one place
(`maxDeparted`, 1024 in the code) free or held by another miner's level. A queue of six
of which the reader keeps five free stands for 64 and 8: room for the answers to one
line and one broadcast between two looks. With two miners
that come and go through one slot, and a place for one of their levels,
`ProvenLevelCounted` was also evaluated, over 303,000 states.

`BlockLedger`: with `JudgeDepth` 2, forks reach every block not judged yet; two
siblings at one height and one failing cycle and one restart are what a record
needs to come late, twice or after its height was judged. `AuxLedger`: maturity 2
and recheck depth 3 keep the order of the code's 100 and 2000, with forks of one block
below both. `Migration`: one record written by a program or by the earlier version and
two faults, of which a power cut and a status that cannot be written are one each,
let a row differ on the two sides and any two steps of a move be undone.
`LinuxService` and `Launcher`: a second install or click meets whatever the first
one left. In
`LinuxService` the two failing steps may be a rename and its rollback, and the
second install then be cut short. `FailsSafely` was also evaluated with four installs
and three faults, over 404,000 states: there its exception for two such installs in
a row is needed.

Deadlock is checked except where a bounded model really ends; each cfg says so.

## Fairness

Liveness is checked under what the scheduling gives, stated next to each
specification:

* A goroutine that can go on does (WF), and gets a lock or a channel it waits for
  in the end although others take it in between (SF): Go's mutexes are
  starvation-free and `select` does not pass over a ready channel for ever.
* Tickers tick. Timers that a property waits for pass; the periodic job is left
  unfair on purpose, so that `SettingsTakeEffect` may not lean on it.
* RPC calls and socket writes end because they have timeouts. The pool need not
  answer, except for the way back to TIDES in `ModeTakesEffect`, where a pool that
  is up and on the job's block does not refuse every registration. A miner need
  never send or read anything.
* In `Difficulty`, `BlockLedger` and `AuxLedger` blocks go on being found, so clean
  jobs and confirmations go on coming. In `AuxLedger` the node connects its chain.
* In `LinuxService` and `Launcher` a program told to stop exits or is killed when
  its grace is over, and systemd goes on with what it was asked to do. Nobody has
  to click, install or send a signal, and no port has to become free.

## Proofs

`AuxProofs`, the cache. It needs no assumption of any constant:

* `CacheTypeCorrect`, `CachePaysAddressInEffect` (`WorkPaysAddressInEffect`) and
  `NeverTwoPollers` (`OnePoller`).
* "The cached work pays the address in effect" is not inductive: storing an
  answer keeps it only if the answer pays the address of the generation it was
  asked under. `CacheInvariant` adds `PollerCarries` and `WatcherCarries` (a thread that
  holds the current generation holds the address in effect, and its answer pays the
  address it asked for), `EnabledPays`, and `OnlyOne` (auxRefreshActive stands for
  a poller that runs or one about to be started). The proof has one step per
  action, and in it one per conjunct the action can disturb.

`JobsProofs`, the loop, from the assumptions on heights and modes:

* `LoopTypeCorrect`, `GatewayFollowsMiners` (`TidesTipAgrees`), `LiveWorkPaysAlike`
  (`LiveJobsPayAlike`), for any blocks and addresses.
* A turn of the loop is several steps, and the properties speak of its first and
  its last. `LoopInvariant` says what it carries between them: `TurnCarries` (the
  template's block, the job built on it and the registration it waits for are one
  block), `SameBlock` with `LastServed` (a turn that saw no new block still builds on
  the current job's), `TipTracked` (the gateway has moved when a TIDES job is about to
  be sent), `Configured` (no turn without an address). One lemma per operation of
  the loop; `Outside` covers all that runs beside it.

`JobsProofs`, the shares, from `TemplatesAssumption`, `HeadersAssumption`,
`SharesAssumption` and `LimitsAssumption`:

* `SolvedReachesNode` (`SolvedGoesToNode`), `AcceptedOnce`
  (`AcceptedOnceOnFirstBlock`), `AuxBlocksSent` (`AuxSolutionsSent`), and of
  `BlocksHold` what needs no induction: `SubmitsOnItsTip` (`SubmittedAsSolved`, and the
  block is on the tip and at the bits of its job) and `AuxProofsProve` (`ProofsHold`);
  for any connections, solutions, rolled versions, templates, histories and pool answers.
* A submit is two steps, a broadcast five, pruning one per entry and a solved share
  two more, and they meet only in maps without a common lock. `Inductive` has a part
  for each thing one step leaves to another. `Served`: at each place of a broadcast
  the newest `MaxHistory` jobs are in the server's history, but one that is about to
  be. `Handed`: whoever is past the checks of a header has the miner's header under
  his job (`Checked`), and is one at a time per connection. `DueWaits` and
  `AcceptedGoesOn`: a block found in time is with a reader until it is accepted, and
  one accepted is handed on until it is sent, or its job is gone; the difficulty it
  is judged by is its own job's. `PruneKnows`, `OneTip` and `OneRecord`: until the
  first block change whoever prunes holds the only block there is, so nothing
  accepted is forgotten. `SentAsFound`: the header of a block sent is the miner's.
* What a header is made of is proved, not assumed: that swapping the words of a hash
  twice and reversing give the hash back (`SwappedBack`), and that the server rolls
  the version as the miner did (`RolledAlike`), so a share is judged by the header
  it was found with (`OwnHeader`) and a block carries it (`BlockHeader`).
* A 1175 proof carries the coinbase that is in its header, and that coinbase commits
  to the work the proof is sent for: `JobsCommitted`, from how the halves of a solo job
  are made (`HalvesCommit`); a TIDES job has no 1175 work.
* `AuxBlocksSent` has the hypothesis `[]HeadersCommit`: two jobs that give a solution
  the same header have the same 1175 work, for which the header's merkle root has to
  tell their coinbases apart. It does where hashes do not collide, but the climb to
  the root is a recursion over the branches, so the run checks it (`BlocksHold`). In
  the run few jobs give one solution the same header, so it is a narrow check.

`DifficultyProofs`, from `RanksAssumption` and `JobsAssumption`:

* `TypeCorrect` and `NeverHarder` (`NeverJudgedHarder`), for any difficulties, any
  length of the record and any number of jobs.
* A share is judged by the record, the miner works by the messages, and several
  goroutines write both. `Sending` is what sendMu gives: only its holder is between
  the bookkeeping and the queue, and when nobody is, LastDifficultySent is what
  the miner was told. With it `Recording` (a job being queued is recorded at no
  more) and `ToldIsRecorded` (an id used again starts without an entry)
  `ToldAsRecorded` is kept, and `NeverHarder` follows. One lemma per operation;
  `AsideStep` covers those that stay away from the queue. `SendJobStep` also shows
  that the record and its order stay one to one when the oldest job makes room.

`BlockLedgerProofs`, from `BlocksAssumption`, `DepthAssumption` and `BoundAssumption`:

* `CreditsOnlyTheChains` (`CreditedWasOnChain`), `PayoutsFollowRows`
  (`PayoutFollowsRow`) and `VerdictsAreFinal` (`VerdictIsTheChains`), for any
  blocks, heights, depths, failures and restarts, with forks of up to `JudgeDepth`.
* None is inductive alone. A verdict is three steps (the row, the chain, the mark)
  with records and forks in between. `IInv` carries it: `Judging` (what is left of
  a cycle is pending, and deeper than any fork reaches), `Carried` (what the judge
  has read of row and chain is still so, unless two blocks of ours were on the
  chain there), `Decided`, and `RowsRecorded` (a row is of a block recorded for
  good, so no block is recorded twice). `Carried` needs `CreditedWasOnChain`: a
  record that replaces the row the judge has read is of a second block that was on
  the chain. `Grows` is what any step leaves of the chain; `DeepStays` shows it of a
  fork. One lemma per operation; `MinIsIn` gets the least element of a set of
  heights from the well-founded subset ordering.

`ShareQueueProofs`, from the assumptions on shares and limits:

* `TotalsAddUp` (`CountsAddUp`) and `ImplementsLedger` (`KeepsLedger`: every step of
  the gateway is a step of `ShareLedger` or none), for any shares, queue, batch and
  number of calls.
* What is forwarded is a count, where the shares are is a queue, a set of batches
  under way and the totals. `IInv` joins them: `Apart` (no share is in two places, or
  twice in one), `Books` (a share has the status of its place) and the finiteness of
  the places, without which their cardinalities do not add. `OnlyFacts` says what
  `Only` keeps of a sequence: its elements, and their being distinct; `Moved` what
  the places hold when a batch goes from one to another. `SettlesOnly` and
  `StepKeeps` reduce each step to what it settles and what it moves, and serve the
  invariant and the refinement alike.

`ConnectionProofs`, from the assumptions on limits, queue and addresses. `ReaderRoom`
is assumed to be five at least, since a login queues three answers and a clean job
two; the code's constant is eight of a queue of 64.

* `LimitsHold` (`LimitsKept`), `LoggedInMinersHaveWork` (`LoggedInHasWork`),
  `OwnRequestsDropNobody` (`OnlyBroadcastsOverflow`) and `ProvenLevelsAreCounted`
  (`ProvenLevelCounted`), for any number of connections, addresses and jobs.
* The counters the code compares with its limits mean something only while they
  count the connections at the places that hold a slot: `SlotsCounted`. `WorkOnItsWay`
  says which step, or which broadcast under way, will send a miner the job it has
  not; `LevelsKept` where a level still to be counted is found while maxDifficultyAt
  looks twice, for any `MaxDeparted`: in the record, or among those it was full for
  (`unkept`, the exception of `ProvenLevelCounted`). `RoomLeft` bounds a queue by what its reader has answered since it
  saw room and by the broadcasts since.

`AuxProofs`, the ledger, from `BlocksAssumption`, `DepthAssumption` and `OtherAssumption`:

* `OneRewardPerHeight` (`OneCreditPerHeight`), `SettledIsOnChain` (`PaidIsOnChain`)
  and `WinnersAreKept` (`WinnerNotDropped`), for any blocks, heights and finders, any
  faults, and reorganizations of any depth below the maturity.
* The handler and the cycle write rows and credits in separate steps, and the cycle
  acts on what it listed before. `Listed` and `ConfirmedIsBuried` say what that still
  means when it comes to act: the row is there and, unless its height was replaced,
  the block's; what is confirmed, or about to be, is deeper than a reorganization
  goes. `CreditsFollowRows` has both reasons for one credit per height: not replaced,
  all credits are the row's finder's; not restored, one is live. `GivenByUs` (a block
  of ours on the chain was given to the node) is what makes a refusal final.
* The proof goes through one relation per part of the state (`Grows`, `RowMoves`,
  `CreditsMove`, `CycleMoves`, `SubMoves`): what any step may do to it. A lemma each
  shows it of every action; the conjuncts of `IInv`, which speak of several parts,
  follow from those without looking at the actions again. With three siblings
  the invariant was also evaluated over nine million states.

`MigrationProofs`, from `FoundAtAssumption`, `HeightsAssumption` (finitely many heights,
none of them the settings' key) and `NoneAssumption` (`None` is no row set, block or
word of the code's):

* `NothingIsLost` (`NothingLost`), `OldDataArrives` (`OldDataIsIn`), `EmptyByChoice`
  (`NoEmptyStart`) and `WorkStays` (`WorkIsKept`), for any programs, heights, blocks,
  records and faults, on both platforms.
* None is inductive: they speak of the database, and what is to become of it is in
  the copy, the marker, the status and what a power cut brings back. `IInv` has a
  part for each. `LockKept`: from the lock on nobody else has the database open, so
  what the migrator read of it still holds when it puts the copy in its place.
  `CopyInStep`: what the copy holds at each place of Run; up to the verification
  that may be wrong, after it (`VerifiedIsRight`) it is the old data, merged with
  the database if there is one. `InPlace` and `Before`: only a rename not synced can
  be undone, and nothing has been written over it. `OldDataKnown`: a marker that
  names pg_control as it is now, and a status of none or done that is of this start,
  vouch for a database that has the old data, except while the earlier version may have run since
  (`Quiet`: no service comes before the next migrator). `NoneYet`: while there is no
  database but old data, the status holds the services back or nothing starts them,
  as long as no start has gone on unrecorded (`WentOn`, Windows alone).
  `Untouched`: each row the earlier version left alone stands against the old one
  (`Stands`); `StandsOn` shows that a service's writes keep it so, `MergedStands`
  that a merge makes it so.
* `Untouched` is what failed at first: with more records than the run's one, a service
  could record again the very block it had orphaned, which no service does. The
  model says it now (`New`). The invariant was also evaluated with two records, and
  with four records and three faults on forty million states.

`ProgramsProofs`, the Linux service, from `AddrsAssumption`:

* `ReplacedUnderNothing` (`NotUnderARunningOne`) and `InstallFailsSafely`
  (`FailsSafely`), for any number of installs, failures, signals, exits and cuts.
* `Replacing` says what each of the four knows of the others: `Supervises` (a program
  runs under its supervise alone, and the stage of the run says which may),
  `SystemdKnows` (the launcher is gone exactly when systemd has it inactive or due to
  start again), `InstallKnows` (from the check of the ports to the last rename
  systemd has the service stopped, and what Begin found is still so).
* `ReleaseHeld` has where the release is at each step of replaceDir. Its removals,
  its renames and its rollback may each fail, also unsaid; `adrift` counts the
  installs in a row that left the swap with no whole release in the place. At none
  the release is there, or set aside with the copy about to take its place; at one a
  whole one is beside it or in it; from two on nothing is claimed. `PlaceIsKept` says
  that only a cut, or a rename and its rollback both failing, gets from none to one.

`ProgramsProofs`, the Windows launcher, from `NodesAssumption`:

* `StopLeavesNothing` (`StopsCleanly`), for any number of exits, failed starts and
  clicks.
* `Stopper`: once the stop has begun nothing enters procs, so what it has taken out
  stays out and it takes all out before it ends (`StopTakesAll`); a stop that does
  not hurry takes the miner first and goes on when it is gone (`MinerFirst`). What
  runs beside the stop is covered by one relation, `RunsAside`.

Model-checked only: every liveness property (fairness and ENABLED are outside the
prover); of `BlocksHold` the merkle tree over the whole block, the coinbase's height
and outputs, and `HeadersCommit` (recursion and folds over data, which need
induction); and for the same reason `RegistrationsHold`, the split of a window.

## Known gaps

What the properties do not promise, because the code does not. Where a property
carries an exception, this is why.

1175 work and jobs:

* Merge mining switched off and on between the poller's last look at the flag and
  its clearing of auxRefreshActive leaves no poller until the next switch
  (`jobs.go:253`).
* `mustDropWork` compares with the current job only: an older job with 1175 work
  for a replaced 1175 address stays live (`job_refresh.go:45`), which is why
  `LiveJobsPayAlike` speaks of block, mode and BCH2 address.
* watchPoolConfig seeds its last values by reading the database again
  (`main.go:1280`), so a 1175 address cleared while the stratum starts is noticed
  at the next restart only; an address from the environment that TIDES switched
  off does not come back with solo.

Shares:

* `SendBlock` and resends put shares back without cutting the queue to `maxQueue`
  (`gateway.go:792`); the excess is a batch at most. The queue is memory only.
* Pruning the duplicate record can race a block change, and one header is then
  credited twice (`server.go:663`); a chain that goes to another block and comes back
  finds the record of its first shares pruned. `AcceptedOnceOnFirstBlock` ends there.
* The program's job history (`job_loop.go:298`) drops a job before the server's
  does: a winning share on the 501st newest job passes the server and is lost in
  submitBlock. `SolvedGoesToNode` excepts it (`Kept`), also where the solution was
  sent under several jobs and one of them is gone (`judged`), and a share that comes
  between currentJob and jobHistory of one broadcast (`InTime`).
* A template whose version has bits inside the rolling mask, with a miner that
  asked for fewer and sends bits only, would be judged by another header; the
  node leaves those bits at zero (`HeadersAssumption`). Version bits shorter than eight
  digits align to the front. Float rounding in Split is exact here.
* A vardiff value set before a block and sent after it leaves a miner above the
  network difficulty until the next block (`server.go:3026`): `HeldBackHeals` says
  it ends, not that it does not happen.
* A login reads currentJob before it sends: a broadcast in between leaves the older
  job the last one sent until the next broadcast.

* The record of departed miners is full at 1024 levels younger than `provenFor`
  (`server.go:1685`): the level of a miner that leaves then is not counted, and
  `ProvenLevelCounted` excepts it (`unkept`).
* The idle rescue (`server.go:597`) queues a difficulty from a goroutine of its own; it
  is in `Difficulty`, not in `Connection`. With it a reader's answers and what comes
  in between may be six messages where the run counts five; the code keeps eight free.
* Stop's waits in `Connection` (`StopGrace`, `StopShares`) are modelled with their
  deadlines because they end connections; no property is about what they leave, since
  the code accepts work that goes on past a deadline.
* `ModeTakesEffect` says that TIDES is tried again and regained, not that it is not
  tried before its time. The run of `ShareIntake` pays four windows.

Ledgers:

* A record retried late can overwrite a newer sibling's row, and a replaced
  block's payout to another owner stays paid. `VerdictIsTheChains` speaks of
  heights where one block of ours was ever on the chain.
* Distribute1175Block renews a credit only `WHERE status = 'pending'`: the row
  voided by Record1175BlockAt stays orphaned when a sibling of the same miner
  replaces the block. Restore1175Block takes back every orphaned credit of a
  height, a replaced sibling's too. Record1175BlockAt is two statements, marks are
  by height alone. `OneCreditPerHeight` and `PaidIsOnChain` except such heights.
* submitauxblock answered -8 with a failing confirmations call drops a block that
  was accepted (`WinnerNotDropped` excepts a step with a fault).

Migration:

* On Windows a status that cannot be written is only logged, and the programs
  start by the older one, or by none (`migstatus.go:95`): after a failed move they
  may start without the old data, with no maintenance page. prepareDatabase's
  comment says otherwise (`migrate.go:64`, "the start goes on, as on Umbrel: ... the API
  serves the dashboard's maintenance page"); on Umbrel the migrator holds the services
  back. With two faults TLC finds the empty database made if `NoEmptyStart` has no
  exception for it. The model has the failing write (`LauncherRecords`, and
  `unsaid` for its history). `OldDataIsIn` does not speak of a status that is not
  this start's, and `NoEmptyStart` excepts a launcher that has gone on so (`WentOn`).
* A choice taken back during maintenance, its status skipped, can let a restarted
  container read the stale status: hence "now or before" in `NoEmptyStart`.
* A directory sync that fails after the rename is not modelled: its error leaves the
  new database in place, a failed status and no marker, as a marker that cannot
  be written does, but the rename could still be undone by a later power cut.
* A later block marked orphaned gives way to the old data's pending one when the
  old data is merged again, and is judged again; a restored 1175 block loses the
  tie to an orphaned row.
* verifyMerge compares no settings, so a merge that wrote them wrongly would not be
  caught; the model's merge writes only heights wrongly, its copy also the settings.

Service and launcher:

* install-service cut short between its two renames, or whose second rename and
  rollback both fail (`service.go:579`, the error is not looked at), leaves the old and
  the new release beside an empty place. If the next one ends so too, it has
  removed the old one, and a third starts by clearing the only whole copy.
  `LastReleaseKept` excepts what comes after two such installs in a row.
* The copies of a release are not synced: after a power cut they may be empty. The
  model's cut is the program's, not the machine's, and a boot is not modelled.
* A failing daemon-reload makes startAgain wait at
  the new address for a unit that serves the old one. A service that waited to be
  restarted, and Ctrl-C during an install, leave it stopped.
* Kill closes no stopCh: a Stop after it waits out a restart delay (a minute at
  most).
* Quit during Restart Mining does not find the miner that restartMiner has taken
  out of procs; while Restart Mining stops the miner, a pending start may start a
  second; a session that asks to end after Quit and is kept relaunches a launcher
  that was asked to quit. `StopsCleanly` and `StopLeavesNothing` are about what procs
  knows: a miner Restart Mining has taken out is not claimed to be gone.

## Not modelled, and the plan

* Forge Gateway (`cmd/forge-gateway`): its engine drives the same stratum server,
  job and gateway code; what it adds, applying changed settings by stopping and
  starting the engine, is left for a module of its own.
* The settings watcher as a module: composed with what it changes it has over
  250,000 states before anything interesting; `AuxPoller` and `JobLoop` have its
  effects, any value at any time.
* reconcileOrphanHeights: it judges unpaid payouts of the pool era; the payouts of
  this program are paid by the coinbase.
* Of the migration: verifySequences, the rows of miners, shares, best shares and
  identities, a database deleted by hand, programs without the lock.
* Of the service: systemctl used by the administrator, `--reindex`; the PostgreSQL
  server, the payout-address watch and the tray of the Windows launcher. The graces
  of a stop sum to less than systemd's timeout (160 s of 180 s); the models are
  untimed.
* Share counters, charts and best shares: additive SQL. HTTP handlers of the
  dashboard, address checksums, listeners, log throttling, web pages, packaging:
  they keep no state several actors share, and their tests reach them.
