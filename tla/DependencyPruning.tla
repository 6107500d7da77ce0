------------------------- MODULE DependencyPruning -------------------------
(***************************************************************************)
(* _prune_unresolved of tslc/_pipeline_closure.py: the fixpoint that drops *)
(* every lowered slot whose body calls a specialization that is not        *)
(* generated, and with an unconditional fallback every capability-gated    *)
(* body of its group.  The fixpoint works in rounds over a frontier of     *)
(* candidates and keeps a count of live providers per emitted identity, so *)
(* that a round revisits only the callers of identities that ran dry.      *)
(***************************************************************************)
EXTENDS CallGraph

VARIABLES
    phase,       \* where the round stands
    candidates,  \* the slots this round looks at
    invalid,     \* the slots pruned so far
    removed,     \* the slots pruned in this round
    available,   \* how many providers each identity has, as last retired
    blame        \* unresolved_callee: the missing identity a slot is reported with

vars == <<program, phase, candidates, invalid, removed, available, blame>>

Unresolved == -1   \* unresolved_callee is None

Live == Slot \ invalid

Missing(s) == {k \in program.callees[s] : available[k] = 0}

FirstMissing(s) == CHOOSE k \in Missing(s) : \A l \in Missing(s) : k <= l

FallbackOf(s) == CHOOSE f \in Fallbacks(program, s) : TRUE

(* Mutation of Orphans: any lost member, not only the fallback, takes its  *)
(* group along.                                                            *)
OrphansOfAnyLoss ==
    {s \in Live \cap Ranked(program) : Group(program, s) \cap invalid # {}}

(* The gated slots whose group lost its fallback. *)
Orphans ==
    {s \in Live \cap Ranked(program) :
        Fallbacks(program, s) # {} /\ FallbackOf(s) \in invalid}

(* Mutation of Dependents: a slot is looked at in one round only. *)
DependentsOnce(counts) ==
    {s \in Live \ candidates : \E k \in program.callees[s] : counts[k] = 0}

(* The live callers of the identities whose last provider was removed. *)
Dependents(counts) ==
    LET dry == {k \in SlotKey : /\ Providers(program, removed, k) # {}
                                /\ counts[k] = 0}
    IN  {s \in Live : program.callees[s] \cap dry # {}}

Init ==
    /\ program \in Program
    /\ phase = "scan"
    /\ candidates = Slot
    /\ invalid = {}
    /\ removed = {}
    /\ available = [k \in SlotKey |-> Cardinality(Providers(program, Slot, k))]
    /\ blame = [s \in Slot |-> Unresolved]

(* One pass over the candidates.  The counts stay as they were when the    *)
(* round began, so the order of the candidates does not matter.            *)
Scan ==
    /\ phase = "scan"
    /\ candidates # {}
    /\ LET dangling == {s \in candidates \ invalid : Missing(s) # {}}
       IN  /\ removed' = dangling
           /\ invalid' = invalid \cup dangling
           /\ blame' = [s \in Slot |-> IF s \in dangling THEN FirstMissing(s)
                                                         ELSE blame[s]]
    /\ phase' = "cascade"
    /\ UNCHANGED <<program, candidates, available>>

(* Mutations of Cascade: the group keeps no reason; it is not pruned at    *)
(* all.                                                                    *)
CascadeUnexplained ==
    /\ phase = "cascade"
    /\ removed' = removed \cup Orphans
    /\ invalid' = invalid \cup Orphans
    /\ phase' = "retire"
    /\ UNCHANGED <<program, candidates, available, blame>>
CascadeNothing ==
    /\ phase = "cascade"
    /\ phase' = "retire"
    /\ UNCHANGED <<program, candidates, invalid, removed, available, blame>>

(* A fallback that is gone takes the rest of its group with it. *)
Cascade ==
    /\ phase = "cascade"
    /\ removed' = removed \cup Orphans
    /\ invalid' = invalid \cup Orphans
    /\ blame' = [s \in Slot |-> IF s \in Orphans THEN blame[FallbackOf(s)]
                                                 ELSE blame[s]]
    /\ phase' = "retire"
    /\ UNCHANGED <<program, candidates, available>>

(* The round's slots leave the counts, and the callers of what ran dry     *)
(* become the next candidates.                                             *)
Retire ==
    /\ phase = "retire"
    /\ removed # {}
    /\ available' = [k \in SlotKey |->
                        available[k] - Cardinality(Providers(program, removed, k))]
    /\ candidates' = Dependents(available')
    /\ phase' = "scan"
    /\ UNCHANGED <<program, invalid, removed, blame>>

(* Mutation of Finish: the reasons are looked up once the closure is known *)
(* and no longer where a slot falls.                                       *)
FinishLookingForReasons ==
    /\ \/ phase = "scan" /\ candidates = {}
       \/ phase = "retire" /\ removed = {}
    /\ LET gone(s) == {k \in program.callees[s] : Providers(program, Live, k) = {}}
           fallen  == {s \in invalid : gone(s) # {}}
       IN  blame' = [s \in Slot |->
                        IF s \in fallen
                        THEN CHOOSE k \in gone(s) : \A l \in gone(s) : k <= l
                        ELSE blame[s]]
    /\ phase' = "done"
    /\ UNCHANGED <<program, candidates, invalid, removed, available>>

(* Nothing left to look at, or a round that removed nothing. *)
Finish ==
    /\ \/ phase = "scan" /\ candidates = {}
       \/ phase = "retire" /\ removed = {}
    /\ phase' = "done"
    /\ UNCHANGED <<program, candidates, invalid, removed, available, blame>>

Next == Scan \/ Cascade \/ Retire \/ Finish

Spec == Init /\ [][Next]_vars
----------------------------------------------------------------------------
(* Every variable has its shape; in particular no count falls below zero,  *)
(* so no slot is retired twice.                                            *)
TypeOK ==
    /\ program \in LoweredProgram
    /\ phase \in {"scan", "cascade", "retire", "done"}
    /\ candidates \subseteq Slot
    /\ invalid \subseteq Slot
    /\ removed \subseteq Slot
    /\ available \in [SlotKey -> Nat]
    /\ blame \in [Slot -> SlotKey \cup {Unresolved}]

(* The frontier is enough: when a round starts, every live slot outside it *)
(* still has a provider for all it calls, and a fallback that is live.     *)
FrontierIsEnough ==
    phase = "scan" =>
        \A s \in Live \ candidates :
            CallsResolve(program, Live, s) /\ Backed(program, Live, s)

(* What pruning delivers can be generated: no live body calls an identity  *)
(* without a live provider, no gated body outlives the fallback it was     *)
(* lowered with.                                                           *)
LiveSlotsAreClosed == phase = "done" => Closed(program, Live)

(* Pruning is never too eager: a set of slots that can be generated        *)
(* together keeps all its members, whatever the rounds did.                *)
PrunesNoClosedSet ==
    \A S \in SUBSET Slot : Closed(program, S) => S \cap invalid = {}

(* A pruned slot is reported with a call that really has no provider left, *)
(* a call of its own body or of the fallback of its group.                 *)
BlameIsAMissingCallee ==
    phase = "done" =>
        \A s \in invalid :
            /\ \E t \in {s} \cup Fallbacks(program, s) :
                    blame[s] \in program.callees[t]
            /\ Providers(program, Live, blame[s]) = {}

(* The reasons never go in circles: among any pruned slots there is one    *)
(* whose missing call none of them provides, so that following the reasons *)
(* from slot to slot ends at a call nothing was ever lowered for.  Members *)
(* of a dead cycle are told the call that broke it, and not each other     *)
(* (unresolved_callee is set when a slot falls, by the counts of then).    *)
ReasonsLeadToACause ==
    \A S \in (SUBSET invalid) \ {{}} :
        \E s \in S : Providers(program, S, blame[s]) = {}

Closure == INSTANCE LiveClosure WITH live <- Live, settled <- (phase = "done")

(* The rounds implement the abstract closure: they drop only what is       *)
(* unsupported at that moment and settle only on a closed set.             *)
ImplementsClosure == Closure!Spec
=============================================================================
