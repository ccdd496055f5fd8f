----------------------------- MODULE ShareQueue -----------------------------
(***************************************************************************)
(* The share half of the TIDES gateway (internal/tidesgw/gateway.go):      *)
(* Forward queues a share for the pool, Flush sends a batch every two      *)
(* seconds, SendBlock sends a share that solves a block at once with the   *)
(* queued shares on its tip.  g.mu is let go while the pool is asked, so   *)
(* several calls may be under way while shares go on being queued.         *)
(* Whether a call failed before or after the pool judged it the gateway    *)
(* cannot tell: it sends those shares again.  g.counts is what the         *)
(* dashboard shows.                                                        *)
(***************************************************************************)
EXTENDS Integers, SequencesExt, FiniteSetsExt

CONSTANTS
    Shares,      \* shares miners find, each handed over at most once
    Solving,     \* those that solve a block
    MaxQueue,    \* maxQueue
    MaxBatch,    \* wire.MaxBatch
    MaxTip       \* bound: blocks the gateway's jobs move on by

ASSUME SharesAssumption == Solving \subseteq Shares /\ "Flush" \notin Shares
ASSUME LimitsAssumption == MaxQueue \in Nat \ {0} /\ MaxBatch \in Nat \ {0} /\ MaxTip \in Nat

Callers == {"Flush"} \cup Solving

VARIABLES
    tip,         \* g.tip: the block the newest tracked job builds on, counted
    queue,       \* g.queue
    tipOf,       \* the prevHash of each share handed over, -1 before
    aged,        \* ordinary shares queued more than 10 minutes ago
    call,        \* of each caller: the shares it sent and has no answer to yet
    counts,      \* g.counts
    verdict      \* history: how each share was counted, "none" before

vars == <<tip, queue, tipOf, aged, call, counts, verdict>>

Busy(c) == call[c] # <<>>

Init ==
    /\ tip = 0
    /\ queue = <<>>
    /\ tipOf = [s \in Shares |-> -1]
    /\ aged = {}
    /\ call = [c \in Callers |-> <<>>]
    /\ counts = [forwarded |-> 0, accepted |-> 0, rejected |-> 0, dropped |-> 0]
    /\ verdict = [s \in Shares |-> "none"]

\* The shares of a sequence are counted as v.
Count(seq, v) == verdict' = [s \in Shares |-> IF s \in ToSet(seq) THEN v ELSE verdict[s]]

FirstN(seq, n) == SubSeq(seq, 1, Min({n, Len(seq)}))
AfterN(seq, n) == SubSeq(seq, n + 1, Len(seq))

\* Those of seq that are in set, in their order.
Only(seq, set) ==
    LET at == {i \in DOMAIN seq : seq[i] \in set}
    IN  [k \in 1..Cardinality(at) |-> seq[CHOOSE i \in at : Cardinality({j \in at : j <= i}) = k]]

----------------------------------------------------------------------------
(* A share is handed over.                                                  *)

\* The blocks of the tracked jobs, on any of which a miner may still find a share.
JobTips == 0..tip

Forward(s) ==
    /\ s \notin Solving /\ tipOf[s] = -1
    /\ \E t \in JobTips : tipOf' = [tipOf EXCEPT ![s] = t]
    /\ IF Len(queue) >= MaxQueue
       THEN /\ queue' = Append(Tail(queue), s)
            /\ Count(FirstN(queue, 1), "dropped")
            /\ counts' = [counts EXCEPT !.forwarded = @ + 1, !.dropped = @ + 1]
       ELSE /\ queue' = Append(queue, s)
            /\ counts' = [counts EXCEPT !.forwarded = @ + 1]
            /\ UNCHANGED verdict
    /\ UNCHANGED <<tip, aged, call>>

\* SendBlock until its request: the block, then queued shares on its tip.
SendBlock(s) ==
    /\ s \in Solving /\ tipOf[s] = -1
    /\ \E t \in JobTips :
          LET with == FirstN(Only(queue, {q \in Shares : tipOf[q] = t}), MaxBatch - 1)
          IN  /\ tipOf' = [tipOf EXCEPT ![s] = t]
              /\ call' = [call EXCEPT ![s] = <<s>> \o with]
              /\ queue' = Only(queue, Shares \ ToSet(with))
    /\ counts' = [counts EXCEPT !.forwarded = @ + 1]
    /\ UNCHANGED <<tip, aged, verdict>>

----------------------------------------------------------------------------
(* Flush until its request.                                                 *)

\* (mutant of Stale) a share that waited long is still sent.
StaleByTipOnly(s) == s \notin Solving /\ tipOf[s] # tip

Stale(s) == s \notin Solving /\ (tipOf[s] # tip \/ s \in aged)

Flush ==
    /\ ~Busy("Flush") /\ queue # <<>>
    /\ LET fresh == Only(queue, {s \in Shares : ~Stale(s)})
           stale == Only(queue, {s \in Shares : Stale(s)})
       IN  /\ call'  = [call EXCEPT !["Flush"] = FirstN(fresh, MaxBatch)]
           /\ queue' = AfterN(fresh, MaxBatch)
           /\ counts' = [counts EXCEPT !.dropped = @ + Len(stale)]
           /\ Count(stale, "dropped")
    /\ UNCHANGED <<tip, tipOf, aged>>

----------------------------------------------------------------------------
(* A call comes back: the end of Flush and of SendBlock.                    *)

\* One result of the pool (outside this repository) for each share sent.
Answers(c) == [DOMAIN call[c] -> {"accepted", "rejected", "resend"}]

\* tally: how many got verdict v, and the shares to send again.
Got(answer, v) == Cardinality({i \in DOMAIN answer : answer[i] = v})
Resend(c, answer) == Only(call[c], {call[c][i] : i \in {j \in DOMAIN answer : answer[j] = "resend"}})

Tally(c, answer) ==
    /\ counts' = [counts EXCEPT !.accepted = @ + Got(answer, "accepted"),
                                !.rejected = @ + Got(answer, "rejected")]
    /\ verdict' = [s \in Shares |->
           IF \E i \in DOMAIN answer : call[c][i] = s /\ answer[i] # "resend"
           THEN answer[CHOOSE i \in DOMAIN answer : call[c][i] = s] ELSE verdict[s]]

\* (mutant of Returns) the shares the pool wants again are not put back.
ReturnsForgets(c) ==
    /\ Busy(c)
    /\ \E answer \in Answers(c) : Tally(c, answer)
    /\ call' = [call EXCEPT ![c] = <<>>]
    /\ UNCHANGED <<tip, queue, tipOf, aged>>

Returns(c) ==
    /\ Busy(c)
    /\ \E answer \in Answers(c) :
          /\ Tally(c, answer)
          /\ queue' = Resend(c, answer) \o queue
    /\ call' = [call EXCEPT ![c] = <<>>]
    /\ UNCHANGED <<tip, tipOf, aged>>

\* (mutant of Fails) Flush cuts the queue to its limit without counting what it cut.
FailsUncounted(c) ==
    /\ Busy(c)
    /\ LET all  == call[c] \o queue
           over == IF c = "Flush" /\ Len(all) > MaxQueue THEN Len(all) - MaxQueue ELSE 0
       IN  /\ queue' = AfterN(all, over)
           /\ Count(FirstN(all, over), "dropped")
    /\ call' = [call EXCEPT ![c] = <<>>]
    /\ UNCHANGED <<tip, tipOf, aged, counts>>

\* No answer, an error, or the wrong number of results, and all go back in front, and Flush keeps the newest MaxQueue.
Fails(c) ==
    /\ Busy(c)
    /\ LET all  == call[c] \o queue
           over == IF c = "Flush" /\ Len(all) > MaxQueue THEN Len(all) - MaxQueue ELSE 0
       IN  /\ queue' = AfterN(all, over)
           /\ counts' = [counts EXCEPT !.dropped = @ + over]
           /\ Count(FirstN(all, over), "dropped")
    /\ call' = [call EXCEPT ![c] = <<>>]
    /\ UNCHANGED <<tip, tipOf, aged>>

----------------------------------------------------------------------------
(* New jobs and the clock.                                                  *)

Track == tip < MaxTip /\ tip' = tip + 1
         /\ UNCHANGED <<queue, tipOf, aged, call, counts, verdict>>

Age(s) == s \notin Solving \cup aged /\ tipOf[s] # -1 /\ verdict[s] = "none"
          /\ aged' = aged \cup {s}
          /\ UNCHANGED <<tip, queue, tipOf, call, counts, verdict>>

Next ==
    \/ (\E s \in Shares : Forward(s) \/ SendBlock(s) \/ Age(s))
    \/ Flush
    \/ (\E c \in Callers : Returns(c) \/ Fails(c))
    \/ Track

\* Run flushes on, a call ends (the client has a timeout), and time passes.  The
\* pool need not answer at all.
Fairness ==
    /\ WF_vars(Flush)
    /\ \A c \in Callers : WF_vars(Returns(c) \/ Fails(c))
    /\ \A s \in Shares \ Solving : WF_vars(Age(s))

Spec == Init /\ [][Next]_vars /\ Fairness

----------------------------------------------------------------------------
(* Properties.                                                              *)

InCall(c) == ToSet(call[c])
Held   == ToSet(queue) \cup UNION {InCall(c) : c \in Callers}

\* The places in the calls under way, and how many shares are in them and queued.
Places == UNION {{c} \X DOMAIN call[c] : c \in Callers}
InHand == Len(queue) + Cardinality(Places)

\* The dashboard's totals add up: each share forwarded is accepted, rejected, dropped, queued or on
\* its way, with nothing lost or counted twice (Counts, gateway.go:167-176).
CountsAddUp ==
    counts.forwarded = counts.accepted + counts.rejected + counts.dropped + InHand

\* The gateway implements ShareLedger: a share is held until it is settled, and settled for good.
StateOf(s) == IF s \in Held THEN "held" ELSE IF verdict[s] = "none" THEN "new" ELSE verdict[s]
Ledger == INSTANCE ShareLedger WITH state <- [s \in Shares |-> StateOf(s)]
KeepsLedger == Ledger!Spec

\* An ordinary share is settled in the end, also when the pool never answers: Flush drops it once it
\* is ten minutes old or its block is passed (gateway.go:852-857), however often it was put back.
OrdinarySharesSettle == Ledger!Settling

=============================================================================
