---------------------------- MODULE MCConnection ----------------------------
(* Connection for TLC: connections that say nothing, two of them from one address of the        *)
(* internet, one from a second and one from this machine; and a miner on its own, while jobs    *)
(* are broadcast, while the server stops, and while its level is read, where the record of the  *)
(* departed has its one place free or taken.                                                    *)
EXTENDS Connection, TLC

CONSTANTS m1, s1, s2, l1

HostsHere == m1 :> "h1" @@ s1 :> "h1" @@ s2 :> "h2" @@ l1 :> "lo"

MixesHere == {
    [conns |-> Conns, talk |-> {},   jobs |-> 0, shares |-> 0, stops |-> TRUE,  scans |-> FALSE, others |-> 0],
    [conns |-> {m1},  talk |-> {m1}, jobs |-> 2, shares |-> 0, stops |-> FALSE, scans |-> FALSE, others |-> 0],
    [conns |-> {m1},  talk |-> {m1}, jobs |-> 0, shares |-> 1, stops |-> TRUE,  scans |-> FALSE, others |-> 0],
    [conns |-> {m1},  talk |-> {m1}, jobs |-> 0, shares |-> 1, stops |-> FALSE, scans |-> TRUE,  others |-> 0],
    [conns |-> {m1},  talk |-> {m1}, jobs |-> 0, shares |-> 1, stops |-> FALSE, scans |-> TRUE,  others |-> 1]}
=============================================================================
