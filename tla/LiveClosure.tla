---------------------------- MODULE LiveClosure ----------------------------
(***************************************************************************)
(* What dependency pruning promises: starting from every lowered slot it   *)
(* only ever drops slots that cannot be generated with those still live,   *)
(* and it settles on a closed set.  In which order, and how many at a      *)
(* time, is left open.                                                     *)
(***************************************************************************)
EXTENDS CallGraph

VARIABLES
    live,     \* the slots still live
    settled   \* whether the closure has been delivered

vars == <<program, live, settled>>

Unsupported(S, s) == ~ (CallsResolve(program, S, s) /\ Backed(program, S, s))

Init ==
    /\ program \in LoweredProgram
    /\ live = Slot
    /\ settled = FALSE

Drop(D) ==
    /\ ~ settled
    /\ D # {}
    /\ \A s \in D : Unsupported(live, s)
    /\ live' = live \ D
    /\ UNCHANGED <<program, settled>>

Settle ==
    /\ ~ settled
    /\ Closed(program, live)
    /\ settled' = TRUE
    /\ UNCHANGED <<program, live>>

Next == Settle \/ \E D \in SUBSET live : Drop(D)

Spec == Init /\ [][Next]_vars
=============================================================================
