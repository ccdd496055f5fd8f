----------------------------- MODULE Connection -----------------------------
(***************************************************************************)
(* The miners' connections (internal/stratum/server.go): acceptLoop counts *)
(* each one in a slot, handleClient takes one of its address's, reads      *)
(* lines, answers them and gives both back; a writer of its own sends what *)
(* is queued for it; BroadcastJob queues every logged-in one the new job;  *)
(* MaxDifficulty reads the levels miners have proven; Stop closes them.    *)
(* Any read may end and any write may fail or take its whole timeout, so   *)
(* a connection stands for every way its far end may behave.               *)
(***************************************************************************)
EXTENDS Integers, FiniteSets

CONSTANTS
    Conns,                \* connections
    Mixes,                \* bounds taken together: who connects (conns), who of them sends lines
                          \* (talk), the jobs broadcast, the shares in process at once,
                          \* whether Stop and maxDifficultyAt run, and how many levels of
                          \* other miners, departed before, are kept (others)
    HostOf,               \* the address each comes from
    LocalNetwork,         \* the addresses on this machine or its network: private, link-local,
                          \* a carrier-grade NAT's, and loopback
    Loopback,             \* those of this machine, exempt from the limit to an address
    MaxConnections,
    MaxConnectionsPerIP,  \* 0: no limit
    LocalPart,            \* 4: of the slots, one in so many is kept for this network
    ClientQueue, ReaderRoom,
    MaxDeparted           \* 1024: levels of departed miners kept at once

\* The room a reader waits for holds a login's three answers and a clean job, which is two messages.
ASSUME QueueAssumption == ClientQueue \in Nat /\ ReaderRoom \in 5..ClientQueue
ASSUME SlotsAssumption ==
    /\ MaxConnections \in Nat /\ MaxConnectionsPerIP \in Nat /\ LocalPart \in Nat \ {0}
    /\ Loopback \subseteq LocalNetwork

ASSUME DepartedAssumption == MaxDeparted \in Nat

Nobody == "nobody"
ASSUME NobodyAssumption == Nobody \notin Conns

Hosts  == {HostOf[c] : c \in Conns}

VARIABLES
    mix,         \* the one of Mixes under way
    pc,          \* where each connection's reader is
    arriving,    \* the connection acceptLoop has accepted and not counted yet
    slots,       \* clientCount
    ipConns,
    clients,     \* s.clients
    auth,        \* clients that have logged in
    late,        \* clients connected for authTimeout
    more,        \* clients of which the line reader holds a further line
    sock,        \* clients whose socket is open
    queued,      \* messages in each one's out queue
    outClosed,   \* clients whose out queue is closed
    writing,     \* clients whose writer has a message in hand
    progress,    \* clients whose progress channel holds a token
    casts,       \* history: broadcasts to each since its reader last saw room (at most two counted)
    cur,         \* the job current, counted
    todo,        \* the clients BroadcastJob has still to visit, and how many messages each gets
    got,         \* history: clients a job was queued for
    proven,      \* clients whose last accepted share is recent
    departed,    \* s.departed
    unkept,      \* history: levels proven of late that it had no place for
    scan,        \* maxDifficultyAt: its place, what it counted, what it has to count
    inflight,    \* s.inflight
    running,     \* ProcessShare goroutines
    stop         \* Stop: its place, whether a wait ran out, the connection that came in meanwhile

slotVars  == <<arriving, slots, ipConns>>
readVars  == <<auth, late, more>>
queueVars == <<queued, outClosed, writing, progress, casts>>
jobVars   == <<cur, todo>>
levelVars == <<departed, unkept, scan>>
shareVars == <<inflight, running>>
vars == <<mix, pc, slotVars, clients, readVars, sock, queueVars, jobVars, got, proven, levelVars, shareVars, stop>>

Init ==
    /\ mix \in Mixes
    /\ pc = [c \in Conns |-> "none"]
    /\ arriving = Nobody /\ slots = 0 /\ ipConns = [h \in Hosts |-> 0]
    /\ clients = {} /\ auth = {} /\ late = {} /\ more = {} /\ sock = {}
    /\ queued = [c \in Conns |-> 0] /\ outClosed = {} /\ writing = {} /\ progress = {}
    /\ casts = [c \in Conns |-> 0]
    /\ cur = 0 /\ todo = [of |-> {}, size |-> 0] /\ got = {}
    /\ proven = {} /\ departed = {} /\ unkept = {} /\ scan = [pc |-> "idle", saw |-> {}, must |-> {}]
    /\ inflight = 0 /\ running = 0
    /\ stop = [pc |-> "no", gaveUp |-> FALSE, straggler |-> Nobody]

Goto(c, place) == pc' = [pc EXCEPT ![c] = place]

----------------------------------------------------------------------------
(* Accepting.                                                               *)

\* Of the slots, those kept for this network's own miners.
Kept == MaxConnections \div LocalPart

\* connectionLimitFor: how many may be open, c counted, when c arrives.
LimitFor(c) == IF HostOf[c] \in LocalNetwork THEN MaxConnections ELSE MaxConnections - Kept

\* reserveIPSlot and releaseIPSlot leave some uncounted.
CountedByIP(c) == MaxConnectionsPerIP > 0 /\ HostOf[c] \notin Loopback

\* A closed accept gate refuses a connection at once, as if it had not come.  A new connection has an
\* ID of its own: none that a level is still under.
Arrive(c) ==
    /\ stop.pc = "no" /\ c \in mix.conns /\ arriving = Nobody /\ pc[c] = "none"
    /\ c \notin departed \cup unkept
    /\ arriving' = c
    /\ UNCHANGED <<pc, slots, ipConns, clients, readVars, sock, queueVars, jobVars, got, proven, levelVars, shareVars, stop>>

\* (mutant of Count) the handler takes the slot itself.
CountLater(c) ==
    /\ arriving = c /\ arriving' = Nobody
    /\ IF slots + 1 > LimitFor(c) THEN UNCHANGED pc ELSE Goto(c, "handler")
    /\ UNCHANGED <<slots, ipConns, clients, readVars, sock, queueVars, jobVars, got, proven, levelVars, shareVars, stop>>

Count(c) ==
    /\ arriving = c /\ arriving' = Nobody
    /\ IF slots + 1 > LimitFor(c) THEN UNCHANGED <<pc, slots>>
       ELSE slots' = slots + 1 /\ Goto(c, "handler")
    /\ UNCHANGED <<ipConns, clients, readVars, sock, queueVars, jobVars, got, proven, levelVars, shareVars, stop>>

\* handleClient up to the first read: reserveIPSlot, and the client into s.clients.
Reserve(c) ==
    /\ pc[c] = "handler"
    /\ IF CountedByIP(c) /\ ipConns[HostOf[c]] >= MaxConnectionsPerIP
       THEN /\ Goto(c, "none") /\ slots' = slots - 1
            /\ UNCHANGED <<ipConns, clients, sock>>
       ELSE /\ Goto(c, "first")
            /\ ipConns' = IF CountedByIP(c) THEN [ipConns EXCEPT ![HostOf[c]] = @ + 1] ELSE ipConns
            /\ clients' = clients \cup {c} /\ sock' = sock \cup {c} /\ UNCHANGED slots
    /\ UNCHANGED <<arriving, readVars, queueVars, jobVars, got, proven, levelVars, shareVars, stop>>

----------------------------------------------------------------------------
(* The out queue and its writer.                                            *)

\* enqueue, k times: into a full queue ends the connection, a closed one takes nothing.
Enqueue(c, k) ==
    IF c \in outClosed THEN UNCHANGED <<queued, outClosed, sock>>
    ELSE IF queued[c] + k <= ClientQueue
         THEN queued' = [queued EXCEPT ![c] = @ + k] /\ UNCHANGED <<outClosed, sock>>
         ELSE /\ queued' = [queued EXCEPT ![c] = ClientQueue]
              /\ outClosed' = outClosed \cup {c} /\ sock' = sock \ {c}

TakeMessage(c) ==
    /\ c \notin writing /\ queued[c] > 0
    /\ writing' = writing \cup {c} /\ queued' = [queued EXCEPT ![c] = @ - 1]
    /\ UNCHANGED <<pc, slotVars, clients, readVars, sock, outClosed, progress, casts, jobVars, got, proven, levelVars, shareVars, stop>>

\* The write is done, or failed and closes the connection; the reader is told either way.
Written(c) ==
    /\ c \in writing /\ writing' = writing \ {c}
    /\ sock' = sock \/ sock' = sock \ {c}
    /\ progress' = progress \cup {c}
    /\ UNCHANGED <<pc, slotVars, clients, readVars, queued, outClosed, casts, jobVars, got, proven, levelVars, shareVars, stop>>

----------------------------------------------------------------------------
(* The reader.                                                              *)

\* readFirstByte: an object opens; or anything else, silence or an end.
FirstByte(c) ==
    /\ pc[c] = "first"
    /\ Goto(c, "release") \/ (c \in mix.talk /\ c \in sock /\ Goto(c, "open"))
    /\ UNCHANGED <<slotVars, clients, readVars, sock, queueVars, jobVars, got, proven, levelVars, shareVars, stop>>

\* (mutant of Readable) each line has its own deadline.
ReadableAnew(c) == c \in sock \/ c \in more

\* The read deadline of a connection not logged in is authTimeout after its start; a line the
\* reader holds already needs no read.
Readable(c) == c \in more \/ (c \in sock /\ (c \in auth \/ c \notin late))

AuthTimeout(c) ==
    /\ pc[c] \notin {"none", "handler"} /\ c \in mix.talk /\ c \notin late \cup auth
    /\ late' = late \cup {c}
    /\ UNCHANGED <<pc, slotVars, clients, auth, more, sock, queueVars, jobVars, got, proven, levelVars, shareVars, stop>>

ReadLine(c) ==
    /\ pc[c] = "open" /\ Readable(c)
    /\ Goto(c, "room")
    /\ more' = more \ {c} \/ (c \in sock \ more /\ more' = more \cup {c})
    /\ UNCHANGED <<slotVars, clients, auth, late, sock, queueVars, jobVars, got, proven, levelVars, shareVars, stop>>

\* The far end closed, was silent too long, sent too long a line; or this end closed.
EndOfInput(c) ==
    /\ pc[c] = "open" /\ c \notin more
    /\ Goto(c, "ending")
    /\ UNCHANGED <<slotVars, clients, readVars, sock, queueVars, jobVars, got, proven, levelVars, shareVars, stop>>

Queued(c) == IF c \in outClosed THEN 0 ELSE queued[c]

\* (mutant of HasRoom) one message less.
HasRoomBarely(c) == Queued(c) <= ClientQueue - ReaderRoom + 1

HasRoom(c) == Queued(c) <= ClientQueue - ReaderRoom

\* waitForRoom: a look at the queue, then a wait for the writer's token.
Room(c) ==
    /\ pc[c] = "room"
    /\ IF HasRoom(c) THEN Goto(c, "handle") /\ casts' = [casts EXCEPT ![c] = 0]
       ELSE Goto(c, "blocked") /\ UNCHANGED casts
    /\ UNCHANGED <<slotVars, clients, readVars, sock, queued, outClosed, writing, progress, jobVars, got, proven, levelVars, shareVars, stop>>

Woken(c) ==
    /\ pc[c] = "blocked" /\ c \in progress
    /\ progress' = progress \ {c} /\ Goto(c, "room")
    /\ UNCHANGED <<slotVars, clients, readVars, sock, queued, outClosed, writing, casts, jobVars, got, proven, levelVars, shareVars, stop>>

\* A line that is not JSON: one of the few tolerated, or the connection is closed.
HandleJunk(c) ==
    /\ pc[c] = "handle"
    /\ \/ Goto(c, "open") /\ UNCHANGED sock
       \/ Goto(c, "ending") /\ sock' = sock \ {c}
    /\ UNCHANGED <<slotVars, clients, readVars, queueVars, jobVars, got, proven, levelVars, shareVars, stop>>

\* A request answered alone, or with the difficulty: subscribe, configure, suggest_difficulty, a
\* refused or repeated login, a refused share.
HandleRequest(c) ==
    /\ pc[c] = "handle"
    /\ \E k \in 1..2 : Enqueue(c, k)
    /\ Goto(c, "open")
    /\ UNCHANGED <<slotVars, clients, readVars, writing, progress, casts, jobVars, got, proven, levelVars, shareVars, stop>>

\* handleSubmit takes the share: counted in flight here, processed in a goroutine of its own.
HandleShare(c) ==
    /\ pc[c] = "handle" /\ c \in auth /\ running < mix.shares
    /\ inflight' = inflight + 1 /\ running' = running + 1
    /\ proven' = proven \cup {c}
    /\ Enqueue(c, 1) /\ Goto(c, "open")
    /\ UNCHANGED <<slotVars, clients, readVars, writing, progress, casts, jobVars, got, levelVars, stop>>

\* authorize: the first login, or one that changed the difficulty, is sent work.
HandleLogin(c) ==
    /\ pc[c] = "handle"
    /\ auth' = auth \cup {c} /\ Goto(c, "answer")
    /\ UNCHANGED <<slotVars, clients, late, more, sock, queueVars, jobVars, got, proven, levelVars, shareVars, stop>>

AnswerLogin(c) ==
    /\ pc[c] = "answer"
    /\ Enqueue(c, 2) /\ Goto(c, "load")
    /\ UNCHANGED <<slotVars, clients, readVars, writing, progress, casts, jobVars, got, proven, levelVars, shareVars, stop>>

\* currentJob.Load, and the job found there sent; before the first there is none to send.
SendWork(c) ==
    /\ pc[c] = "load" /\ Goto(c, "open")
    /\ IF cur = 0 THEN UNCHANGED <<queued, outClosed, sock, got>>
       ELSE Enqueue(c, 1) /\ got' = got \cup {c}
    /\ UNCHANGED <<slotVars, clients, readVars, writing, progress, casts, jobVars, proven, levelVars, shareVars, stop>>

\* (mutant of KeepDeparted) a level goes with its connection.
KeepNone(c) ==
    /\ pc[c] = "ending" /\ Goto(c, "release")
    /\ UNCHANGED <<slotVars, clients, readVars, sock, queueVars, jobVars, got, proven, levelVars, shareVars, stop>>

\* keepDeparted: a level proven of late is kept, while there is a place for it.
KeepDeparted(c) ==
    /\ pc[c] = "ending" /\ Goto(c, "release")
    /\ LET level == {c} \cap proven
       IN  IF Cardinality(departed) + mix.others < MaxDeparted
           THEN departed' = departed \cup level /\ UNCHANGED unkept
           ELSE unkept' = unkept \cup level /\ UNCHANGED departed
    /\ UNCHANGED <<slotVars, clients, readVars, sock, queueVars, jobVars, got, proven, scan, shareVars, stop>>

\* What handleClient deferred: out of s.clients, the queue and the connection closed, the address's
\* slot given back, then the connection's.  The writer is left to a socket that takes nothing.
Release(c) ==
    /\ pc[c] = "release" /\ Goto(c, "none")
    /\ ipConns' = IF CountedByIP(c) THEN [ipConns EXCEPT ![HostOf[c]] = @ - 1] ELSE ipConns
    /\ slots' = slots - 1
    /\ clients' = clients \ {c} /\ sock' = sock \ {c}
    /\ auth' = auth \ {c} /\ late' = late \ {c} /\ more' = more \ {c}
    /\ queued' = [queued EXCEPT ![c] = 0] /\ casts' = [casts EXCEPT ![c] = 0]
    /\ outClosed' = outClosed \ {c} /\ writing' = writing \ {c} /\ progress' = progress \ {c}
    /\ got' = got \ {c} /\ proven' = proven \ {c}
    /\ UNCHANGED <<arriving, jobVars, levelVars, shareVars, stop>>

----------------------------------------------------------------------------
(* BroadcastJob.                                                            *)

\* (mutant of Broadcast) the clients are listed before the job is made current.
BroadcastFirst ==
    /\ todo.of = {} /\ cur < mix.jobs
    /\ \/ cur' = cur + 1 /\ todo' = [of |-> {}, size |-> 0]
       \/ \E k \in 1..2 : todo' = [of |-> clients \cap mix.talk, size |-> k] /\ UNCHANGED cur
    /\ UNCHANGED <<pc, slotVars, clients, readVars, sock, queueVars, got, proven, levelVars, shareVars, stop>>

\* The job is current; each client that may log in is visited next.  A clean job goes with the
\* difficulty.
Broadcast ==
    /\ todo.of = {} /\ cur < mix.jobs
    /\ cur' = cur + 1
    /\ \E k \in 1..2 : todo' = [of |-> clients \cap mix.talk, size |-> k]
    /\ UNCHANGED <<pc, slotVars, clients, readVars, sock, queueVars, got, proven, levelVars, shareVars, stop>>

BroadcastTo(c) ==
    /\ c \in todo.of /\ todo' = [todo EXCEPT !.of = @ \ {c}]
    /\ IF c \in auth \cap clients
       THEN /\ Enqueue(c, todo.size) /\ got' = got \cup {c}
            /\ casts' = [casts EXCEPT ![c] = IF @ < 2 THEN @ + 1 ELSE @]
       ELSE UNCHANGED <<queued, outClosed, sock, got, casts>>
    /\ UNCHANGED <<pc, slotVars, clients, readVars, writing, progress, cur, proven, levelVars, shareVars, stop>>

----------------------------------------------------------------------------
(* Proven levels, and the shares in process.                                *)

\* provenFor passes since the last share.
LevelExpires(c) ==
    /\ c \in proven \cup departed \cup unkept
    /\ proven' = proven \ {c} /\ departed' = departed \ {c} /\ unkept' = unkept \ {c}
    /\ scan' = [scan EXCEPT !.must = @ \ {c}]
    /\ UNCHANGED <<pc, slotVars, clients, readVars, sock, queueVars, jobVars, got, shareVars, stop>>

Connected(c) == c \in clients /\ c \in auth

\* maxDifficultyAt: the connected clients first (each visited once; one step stands for the visits,
\* as each level is counted for itself), then the departed.
ScanStart ==
    /\ mix.scans /\ scan.pc = "idle" /\ proven \cup departed # {}
    /\ scan' = [pc |-> "clients", saw |-> {}, must |-> departed \cup {c \in proven : Connected(c)}]
    /\ UNCHANGED <<pc, slotVars, clients, readVars, sock, queueVars, jobVars, got, proven, departed, unkept, shareVars, stop>>

ScanClients ==
    /\ scan.pc = "clients"
    /\ scan' = [scan EXCEPT !.pc = "departed", !.saw = {c \in proven : Connected(c)}]
    /\ UNCHANGED <<pc, slotVars, clients, readVars, sock, queueVars, jobVars, got, proven, departed, unkept, shareVars, stop>>

ScanDeparted ==
    /\ scan.pc = "departed"
    /\ scan' = [scan EXCEPT !.pc = "idle", !.saw = @ \cup departed]
    /\ UNCHANGED <<pc, slotVars, clients, readVars, sock, queueVars, jobVars, got, proven, departed, unkept, shareVars, stop>>

ShareProcessed ==
    /\ running > 0 /\ running' = running - 1 /\ inflight' = inflight - 1
    /\ UNCHANGED <<pc, slotVars, clients, readVars, sock, queueVars, jobVars, got, proven, levelVars, stop>>

----------------------------------------------------------------------------
(* Stop.                                                                    *)

\* The listener is closed; what acceptLoop has in hand then still comes in.
StopBegins ==
    /\ mix.stops /\ stop.pc = "no"
    /\ stop' = [stop EXCEPT !.pc = "grace", !.straggler = arriving]
    /\ UNCHANGED <<pc, slotVars, clients, readVars, sock, queueVars, jobVars, got, proven, levelVars, shareVars>>

\* shutdownGrace: the connections end, or are closed when it has passed.
StopGrace ==
    /\ stop.pc = "grace"
    /\ \/ slots = 0 /\ stop' = [stop EXCEPT !.pc = "shares"] /\ UNCHANGED sock
       \/ slots > 0 /\ stop' = [stop EXCEPT !.pc = "close"] /\ sock' = sock \ clients
    /\ UNCHANGED <<pc, slotVars, clients, readVars, queueVars, jobVars, got, proven, levelVars, shareVars>>

\* A second for their handlers to end.
StopClosed ==
    /\ stop.pc = "close"
    /\ \/ slots = 0 /\ stop' = [stop EXCEPT !.pc = "shares"]
       \/ slots > 0 /\ stop' = [stop EXCEPT !.pc = "shares", !.gaveUp = TRUE]
    /\ UNCHANGED <<pc, slotVars, clients, readVars, sock, queueVars, jobVars, got, proven, levelVars, shareVars>>

\* inflightGrace.
StopShares ==
    /\ stop.pc = "shares"
    /\ \/ inflight = 0 /\ stop' = [stop EXCEPT !.pc = "done"]
       \/ inflight > 0 /\ stop' = [stop EXCEPT !.pc = "done", !.gaveUp = TRUE]
    /\ UNCHANGED <<pc, slotVars, clients, readVars, sock, queueVars, jobVars, got, proven, levelVars, shareVars>>

----------------------------------------------------------------------------
Read(c) ==
    \/ FirstByte(c) \/ ReadLine(c) \/ EndOfInput(c) \/ Room(c) \/ Woken(c)
    \/ HandleJunk(c) \/ HandleRequest(c) \/ HandleShare(c) \/ HandleLogin(c) \/ AnswerLogin(c) \/ SendWork(c)
    \/ KeepDeparted(c) \/ Release(c)

Handler(c) == Count(c) \/ Reserve(c) \/ Read(c)
Write(c)   == TakeMessage(c) \/ Written(c)
Stopping   == StopBegins \/ StopGrace \/ StopClosed \/ StopShares

Next ==
    /\ stop.pc # "done"     \* the program exits
    /\ UNCHANGED mix
    /\ \/ \E c \in Conns : Arrive(c) \/ Handler(c) \/ AuthTimeout(c) \/ BroadcastTo(c)
       \/ \E c \in Conns : Write(c) \/ LevelExpires(c)
       \/ Broadcast \/ ScanStart \/ ScanClients \/ ScanDeparted \/ ShareProcessed \/ Stopping

Goes(step) == stop.pc # "done" /\ UNCHANGED mix /\ step

\* Those that send anything; no other has a login to be late with or an answer to be written.
Talkers == UNION {m.talk : m \in Mixes}

\* Goroutines run, time passes, and a write ends within writeTimeout.  That a far end sends or
\* reads anything is not assumed.
Spec ==
    /\ Init /\ [][Next]_vars
    /\ \A c \in Conns : WF_vars(Goes(Handler(c)))
    /\ \A c \in Talkers : WF_vars(Goes(AuthTimeout(c))) /\ WF_vars(Goes(Write(c)))

----------------------------------------------------------------------------
\* However many connect at once and whichever way each one ends, the slots hold at most their
\* number, the internet's connections leave this network's miners the part kept for them (so one of
\* these is refused only beside as many of them), and one address holds at most its own
\* (connectionLimitFor, reserveIPSlot).
LimitsKept ==
    LET open == {c \in Conns : pc[c] # "none"}
    IN  /\ Cardinality(open) <= MaxConnections
        /\ Cardinality({c \in open : HostOf[c] \notin LocalNetwork}) <= MaxConnections - Kept
        /\ \A h \in Hosts \ Loopback :
               MaxConnectionsPerIP > 0 =>
                   Cardinality({c \in open : HostOf[c] = h /\ pc[c] # "handler"}) <= MaxConnectionsPerIP

\* A miner that keeps reading its answers is not dropped for its own requests: its queue is found
\* full only by the second broadcast since its reader last saw room (readerRoom).
OnlyBroadcastsOverflow ==
    [][\A c \in Conns : c \in outClosed' \ outClosed => casts'[c] >= 2]_vars

\* A connected miner whose login is done has been sent a job, if there is one, wherever between its
\* login's steps the first job was made and broadcast (handleMessage, BroadcastJob).
LoggedInHasWork ==
    \A c \in auth \cap clients : pc[c] \notin {"answer", "load"} /\ cur > 0 /\ todo.of = {} => c \in got

\* A level proven and not expired is counted also while its miner's connection ends: at no moment
\* is it in neither of the two places maxDifficultyAt looks (keepDeparted), save one whose miner
\* left while the record of the departed was full (maxDeparted).
ProvenLevelCounted ==
    [][scan.pc = "departed" /\ scan'.pc = "idle" => scan.must \subseteq scan'.saw \cup unkept]_vars

\* A connection that does not log in gives its slots up, whatever it sends and whether or not it
\* reads (firstMessageTimeout, authTimeout).
SlotsComeBack == \A c \in Conns : pc[c] # "none" ~> c \in auth \/ pc[c] = "none" \/ stop.pc = "done"

\* A reader that waits for room goes on, also once its queue is closed under it (waitForRoom).
ReaderGoesOn == \A c \in Talkers : pc[c] = "blocked" ~> pc[c] # "blocked" \/ stop.pc = "done"

\* No handler is held for ever by the one it serves.
HandlersGoOn == SlotsComeBack /\ ReaderGoesOn

=============================================================================
