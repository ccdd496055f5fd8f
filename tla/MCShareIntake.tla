---------------------------- MODULE MCShareIntake ----------------------------
(* ShareIntake for TLC: two solo jobs on one block and a TIDES job on the    *)
(* next, which is harder; two connections and the solutions they find.       *)
EXTENDS ShareIntake

CONSTANTS c1, c2, h1, h2, pay, x1

Tx(n, fee) == [id |-> n, fee |-> fee]
Tpl(prev, height, bits, time, txs, aux) ==
    [prev |-> prev, height |-> height, version |-> {0, 3}, bits |-> bits, time |-> time, txs |-> txs,
     value |-> Subsidy + Fees(txs), aux |-> aux]
First == <<Tx(1, 2), Tx(2, 0), Tx(3, 1), Tx(4, 1)>>

\* The heights are either side of the one whose top bit is a script number's sign.
Three == <<Tpl(<<1, 2, 3, 4>>, 127, 2, 10, First, x1), Tpl(<<1, 2, 3, 4>>, 127, 2, 11, First, x1),
           Tpl(<<5, 6, 7, 8>>, 128, 3, 12, <<Tx(5, 3)>>, NoHash)>>

Owners == [s \in {h1, h2} |-> IF s = h1 THEN c1 ELSE c2]
Asked  == [c \in {c1, c2} |-> [hex |-> c = c1, bits |-> {0, 1}]]
Roll   == [s \in {h1, h2} |-> [sends |-> IF s = h1 THEN "whole" ELSE "bits", bits |-> {1}]]
Times  == [s \in {h1, h2} |-> IF s = h1 THEN 12 ELSE 11]
Found2 == [s \in {h1, h2} |-> IF s = h1 THEN 2 ELSE 1]
Sent2  == [s \in {h1, h2} |-> IF s = h1 THEN 2 ELSE 1]
Raw    == <<70, 9, 71>>

\* Nobody's work yet; a miner whose due is dust; carried satoshis; one whom only scaling takes below dust.
Window(w1, w2, w3, k1, k2, k3) == [work |-> <<w1, w2, w3>>, carry |-> <<k1, k2, k3>>, dust |-> 4]
Pool(window, maxDiff, all) == [window |-> window, maxDiff |-> maxDiff, all |-> all]
Pools ==
    [S \in SUBSET {h1, h2} |->
        CASE S = {}       -> Pool(Window(0, 0, 0, 1, 0, 0), 0, TRUE)
          [] S = {h1}     -> Pool(Window(1, 5, 4, 0, 0, 0), 1, FALSE)
          [] S = {h2}     -> Pool(Window(2, 3, 0, 3, 0, 1), 2, TRUE)
          [] S = {h1, h2} -> Pool(Window(1, 2, 3, 3, 2, 1), 0, TRUE)]

=============================================================================
