---------------------------- MODULE ShareLedger ----------------------------
(***************************************************************************)
(* What the TIDES gateway promises of each share handed to it: it is held  *)
(* until it is settled, it is settled once, as the pool answered or as     *)
(* dropped, and it is never forgotten.  An ordinary share is settled in    *)
(* the end even when the pool never answers.                               *)
(* Module ShareQueue implements this.                                      *)
(***************************************************************************)
CONSTANTS
    Shares,      \* the shares
    Solving      \* those that solve a block

VARIABLE state   \* of each share: not found yet, held, or how it was settled

Settled == {"accepted", "rejected", "dropped"}
States  == {"new", "held"} \cup Settled

Init == state = [s \in Shares |-> "new"]

\* The steps of one share.
Moves(from, to) ==
    \/ from = "new"  /\ to = "held"
    \/ from = "held" /\ to \in Settled

\* One answer of the pool settles many shares; shares are handed over one by one.
Next ==
    /\ state' \in [Shares -> States]
    /\ \A s \in Shares : state'[s] # state[s] => Moves(state[s], state'[s])
    /\ \A s, r \in Shares : state'[s] # state[s] /\ state'[r] # state[r] /\ s # r
                              => state[s] # "new" \/ state[r] # "new"

Settling == \A s \in Shares \ Solving : state[s] = "held" ~> state[s] \in Settled

Spec == Init /\ [][Next]_state
LiveSpec == Spec /\ Settling

=============================================================================
