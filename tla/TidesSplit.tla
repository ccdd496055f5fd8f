----------------------------- MODULE TidesSplit -----------------------------
(***************************************************************************)
(* What a TIDES job's coinbase pays (internal/tides/split.go and           *)
(* Payouts, commitExp and CommitShareDiff, internal/datum and tidesgw).    *)
(* Operators only: ShareIntake builds its TIDES jobs with them.            *)
(*                                                                         *)
(* Miners are numbers, in the order of their addresses.  Amounts are       *)
(* satoshis.  The code's float64 products are exact fractions here, over   *)
(* the payable miners' work: base * k is work * (rest - carry) / work of   *)
(* all of them.  The pool takes no fee, so the rest is the value.          *)
(***************************************************************************)
EXTENDS Integers, Sequences, FiniteSets
LOCAL INSTANCE SequencesExt
LOCAL INSTANCE FiniteSetsExt

Sats(f, P) == MapThenSumSet(LAMBDA a : f[a], P)
Output(to, sats) == [to |-> to, sats |-> sats]

----------------------------------------------------------------------------
(* Split.  A window w has the work in the share log, the satoshis carried,  *)
(* and dust.                                                                *)

InWindow(w) == {a \in DOMAIN w.work : w.work[a] > 0}
AllWork(w)  == Sats(w.work, InWindow(w))

Base(value, w, a) == (value * w.work[a]) \div AllWork(w)

\* Who may be paid before any scaling.
Due0(value, w) ==
    {a \in InWindow(w) : w.carry[a] * AllWork(w) + value * w.work[a] >= w.dust * AllWork(w)}

\* What scaling makes of the payable P: how much of the value carried amounts take, and their share.
CarryOf(value, w, P) == IF Sats(w.carry, P) >= value THEN 0 ELSE Sats(w.carry, P)
Scaled(value, w, P, use, a) ==
    (IF use THEN w.carry[a] * Sats(w.work, P) ELSE 0) + w.work[a] * (value - CarryOf(value, w, P))

Small(value, w, P, use) == {a \in P : Scaled(value, w, P, use, a) < w.dust * Sats(w.work, P)}
Uses(value, w, P, use)  == use /\ Sats(w.carry, P) < value

\* The first of those for whom f is largest.
Largest(f, P) == CHOOSE a \in P : \A b \in P : f[b] < f[a] \/ (f[b] = f[a] /\ a <= b)

\* Whoever scaling leaves below dust is dropped, until nobody is; the carry is left out for good
\* once it would take all.  Nobody left: all to the most work.
Payable(value, w, due, first) ==
    LET paid[P \in SUBSET InWindow(w), use \in BOOLEAN] ==
            IF P = {} THEN [paid |-> {Largest(w.work, InWindow(w))}, use |-> FALSE, carry |-> 0]
            ELSE IF Small(value, w, P, use) = {} THEN [paid |-> P, use |-> use, carry |-> CarryOf(value, w, P)]
            ELSE LET Q == P \ Small(value, w, P, use) IN paid[Q, Uses(value, w, Q, use)]
    IN  paid[due, first]

Paid(value, w) == Payable(value, w, Due0(value, w), Uses(value, w, Due0(value, w), TRUE))

\* Rounded down.
Floors(value, w, p) ==
    [a \in p.paid |-> (IF p.use THEN w.carry[a] ELSE 0)
                      + (w.work[a] * (value - p.carry)) \div Sats(w.work, p.paid)]

\* (mutant of Topped) the satoshis left by rounding down are nobody's.
ToppedRounded(value, sats) == sats

\* The satoshis left by rounding down go to the first with the largest amount.
Topped(value, sats) == [sats EXCEPT ![Largest(sats, DOMAIN sats)] = @ + value - Sats(sats, DOMAIN sats)]

Amounts(value, w) == Topped(value, Floors(value, w, Paid(value, w)))

\* What the pool carries to the next block.
CarriedFrom(value, w, p) ==
    [a \in DOMAIN w.work |->
        (IF a \in p.paid /\ p.use THEN 0 ELSE w.carry[a])
        + (IF a \in InWindow(w) \ p.paid THEN Base(value, w, a) ELSE 0)]
Carried(value, w) == CarriedFrom(value, w, Paid(value, w))

Outputs(sats, order) == [i \in DOMAIN order |-> Output(order[i], sats[order[i]])]
InOrder(sats)        == Outputs(sats, SetToSortSeq(DOMAIN sats, <))
Split(value, w)      == InOrder(Amounts(value, w))

\* An empty share log pays everything to the finder.
Payouts(value, w, finder) ==
    IF InWindow(w) = {} THEN <<Output(finder, value)>> ELSE Split(value, w)

\* What the register's value is without the node's transactions: their fees are not earned.
RegisterValue(value, fees, with) == IF with THEN value ELSE value - fees

----------------------------------------------------------------------------
(* The share difficulty a job commits to: powers of two.                    *)

Log2Down(n) == CHOOSE e \in 0..n : 2^e <= n /\ n < 2^(e + 1)
Log2Up(n)   == CHOOSE e \in 0..n : n <= 2^e /\ (e = 0 \/ 2^(e - 1) < n)

\* Twice what the hardest working miner works at, never above the network; none without miners.
CommitExp(netDiff, maxDiff) ==
    IF maxDiff = 0 THEN {} ELSE {Min({Log2Up(2 * maxDiff), Log2Down(netDiff)})}

\* The exponent is the tag's last byte; the tag makes room for it.
MaxTag == 32
CommitShareDiff(tag, e) == SubSeq(tag, 1, Min({Len(tag), MaxTag - 1})) \o <<e>>

----------------------------------------------------------------------------
(* What the split promises.                                                 *)

Owed(value, w, a) == w.carry[a] * AllWork(w) + value * w.work[a]

\* Nobody's payment is further from the carry and the proportional part due than all that is
\* carried, before and after, and the rounding.
Slack(value, w) ==
    Sats(w.carry, InWindow(w)) + Sats(Carried(value, w), InWindow(w)) + Cardinality(InWindow(w))
Off(value, w, s, a) == s[a] * AllWork(w) - Owed(value, w, a)
NearProportional(value, w, s, slack) ==
    \A a \in DOMAIN s : Off(value, w, s, a) \in -slack * AllWork(w)..slack * AllWork(w)

\* The split s pays out the value exactly, to miners in the window, nobody less than dust unless it
\* is the only one, and nobody far from what it is due.
Keeps(value, w, s) ==
    /\ DOMAIN s \subseteq InWindow(w) /\ Sats(s, DOMAIN s) = value
    /\ \A a \in DOMAIN s : s[a] >= w.dust \/ DOMAIN s = {a}
    /\ NearProportional(value, w, s, Slack(value, w))
SplitKeeps(value, w) == Keeps(value, w, Amounts(value, w))

=============================================================================
