--------------------------- MODULE BranchEmission ---------------------------
(***************************************************************************)
(* What becomes of the slots pruning leaves live, in _prune_unresolved and *)
(* its callers: unavailable checked companions are marked, capability      *)
(* requirements propagate body by body, the bodies of one compiler         *)
(* alternative group are merged into one emitted slot, and coverage is     *)
(* recorded.  The live slots are the largest closed set, which is what     *)
(* DependencyPruning is proved to deliver; the names are distinct from     *)
(* those of that module, since the proofs are about both.                  *)
(***************************************************************************)
EXTENDS CallGraph

(* K holds the identities of the backends that are generated without       *)
(* explicit compiler capabilities.  There, nothing is selected without a   *)
(* body that needs no capability, and the gated ones are ranked beside it; *)
(* with explicit capabilities one body wins and has no rank.  A call stays *)
(* in its backend.                                                         *)
Complete(p, K) ==
    \A s \in Slot :
        /\ p.key[s] \in K => IF s \in Ranked(p) THEN Fallbacks(p, s) # {}
                                                ELSE p.caps[s] = {}
        /\ p.key[s] \notin K => s \notin Ranked(p)
        /\ \A k \in p.callees[s] : k \in K <=> p.key[s] \in K

(* What selection delivers, if all bodies it takes for a slot are lowered, *)
(* for the same lanes; a partial generation goes on when one is not.       *)
FallbacksAreKept == \A p \in Program : \E K \in SUBSET SlotKey : Complete(p, K)

(* The coverage of compiler alternatives goes by the signature.  The key   *)
(* of a group holds all of it (and the mask policy, where a name has more  *)
(* than one emitted form), so the bodies of a group share it; so may two   *)
(* groups, which differ in immediates, generics or type parameters alone.  *)
LabelsFollowGroups ==
    \A p \in Program : \A s \in Ranked(p) : \A t \in Group(p, s) :
        p.label[t] = p.label[s]

ASSUME BranchEmissionAssumption == FallbacksAreKept /\ LabelsFollowGroups

VARIABLES
    stage,     \* the pass that comes next
    live,      \* the slots pruning left
    needs,     \* the capabilities each body needs, its callees' included
    unguarded, \* the guard calls that make a checked companion unavailable
    emitted,   \* the slots handed to the backend
    branches,  \* the bodies merged into an emitted slot, besides its own
    covered    \* the slots with a coverage entry

emissionVars == <<program, stage, live, needs, unguarded, emitted, branches, covered>>

LargestClosed == {s \in Slot : \E S \in SUBSET Slot : s \in S /\ Closed(program, S)}

EmissionInit ==
    /\ program \in Program
    /\ stage = "mark"
    /\ live = LargestClosed
    /\ needs = program.caps
    /\ unguarded = [s \in Slot |-> {}]
    /\ emitted = {}
    /\ branches = [s \in Slot |-> {}]
    /\ covered = {}

(* Mutation of MarkUnavailableChecked: providers are looked up among all   *)
(* lowered slots, pruned ones too.                                         *)
MarkUnprovided ==
    /\ stage = "mark"
    /\ unguarded' = [s \in Slot |->
            IF s \in live
            THEN {k \in program.guards[s] : Providers(program, Slot, k) = {}}
            ELSE {}]
    /\ stage' = "propagate"
    /\ UNCHANGED <<program, live, needs, emitted, branches, covered>>

(* A guard call that no live slot provides closes the checked companion of *)
(* a slot, never the slot.                                                 *)
MarkUnavailableChecked ==
    /\ stage = "mark"
    /\ unguarded' = [s \in Slot |->
            IF s \in live
            THEN {k \in program.guards[s] : Providers(program, live, k) = {}}
            ELSE {}]
    /\ stage' = "propagate"
    /\ UNCHANGED <<program, live, needs, emitted, branches, covered>>

(* The live bodies of one callable: same slot key, same form. *)
Callables(k) ==
    {{t \in Providers(program, live, k) : program.form[t] = f} : f \in Form} \ {{}}

(* Mutation of Asks: what any of the alternatives needs. *)
AsksOfAny(g) == UNION {needs[t] : t \in g}

(* What a call to a callable asks for: what all its alternatives need, or  *)
(* for ordinary duplicates what the last body needs.                       *)
Asks(g) ==
    IF g \cap Ranked(program) # {}
    THEN {c \in Capability : \A t \in g : c \in needs[t]}
    ELSE needs[CHOOSE t \in g : \A u \in g : u <= t]

Inherited(s) ==
    UNION {UNION {Asks(g) : g \in Callables(k)} : k \in program.callees[s]}

(* Mutation of PropagateCapabilities: one round only. *)
PropagateOnce ==
    /\ stage = "propagate"
    /\ needs' = [s \in Slot |-> IF s \in live THEN program.caps[s] \cup Inherited(s)
                                              ELSE needs[s]]
    /\ stage' = "merge"
    /\ UNCHANGED <<program, live, unguarded, emitted, branches, covered>>

(* One round over all bodies, from the values of the round before. *)
PropagateCapabilities ==
    /\ stage = "propagate"
    /\ needs' = [s \in Slot |-> IF s \in live THEN program.caps[s] \cup Inherited(s)
                                              ELSE needs[s]]
    /\ stage' = IF needs' = needs THEN "merge" ELSE "propagate"
    /\ UNCHANGED <<program, live, unguarded, emitted, branches, covered>>

LiveGroup(s) == Group(program, s) \cap live

(* A group is merged only if some body of it needs nothing. *)
Mergeable(s) == \E t \in LiveGroup(s) : needs[t] = {}

(* The last of the group in rank order stands for it, the list order       *)
(* deciding between equal ranks.                                           *)
Canonical(s) ==
    CHOOSE t \in LiveGroup(s) : \A u \in LiveGroup(s) :
        \/ program.rank[u] < program.rank[t]
        \/ program.rank[u] = program.rank[t] /\ u <= t

Merge ==
    /\ stage = "merge"
    /\ LET unranked == live \ Ranked(program)
           canonical == {Canonical(s) : s \in {t \in live \cap Ranked(program) : Mergeable(t)}}
       IN  /\ emitted' = unranked \cup canonical
           /\ branches' = [s \in Slot |-> IF s \in canonical THEN LiveGroup(s) \ {s}
                                                             ELSE {}]
           /\ unguarded' = [s \in Slot |->
                    IF s \in canonical THEN UNION {unguarded[t] : t \in LiveGroup(s)}
                                       ELSE unguarded[s]]
    /\ stage' = "record"
    /\ UNCHANGED <<program, live, needs, covered>>

(* Mutation of RecordCoverage: every body of a group. *)
RecordEveryBody ==
    /\ stage = "record"
    /\ covered' = live
    /\ stage' = "done"
    /\ UNCHANGED <<program, live, needs, unguarded, emitted, branches>>

(* Coverage is read off the lowered slots that were not pruned, of the     *)
(* compiler alternatives with one label only the first; it does not look   *)
(* at what was merged.                                                     *)
RecordCoverage ==
    /\ stage = "record"
    /\ covered' = {s \in live : s \in Ranked(program) =>
            \A t \in live \cap Ranked(program) :
                program.label[t] = program.label[s] => s <= t}
    /\ stage' = "done"
    /\ UNCHANGED <<program, live, needs, unguarded, emitted, branches>>

EmissionNext == MarkUnavailableChecked \/ PropagateCapabilities \/ Merge \/ RecordCoverage

EmissionSpec == EmissionInit /\ [][EmissionNext]_emissionVars
----------------------------------------------------------------------------
Bodies(e) == {e} \cup branches[e]

(* Every call of every emitted body goes to an identity that is emitted:   *)
(* the generated project links.                                            *)
EmittedCallsResolve ==
    stage = "done" =>
        \A e \in emitted : \A b \in Bodies(e) : \A k \in program.callees[b] :
            \E t \in emitted : program.key[t] = k

(* Whatever the downstream compiler supports, a body it enables calls only *)
(* callables of which it enables a body.                                   *)
EnabledBodiesCanCall ==
    stage = "done" =>
        \A C \in SUBSET Capability : \A s \in live : needs[s] \subseteq C =>
            \A k \in program.callees[s] : \A g \in Callables(k) :
                \E t \in g : needs[t] \subseteq C

(* An emitted slot offers its checked companion only if all guard calls of *)
(* all its bodies are emitted.                                             *)
CheckedCompanionsLink ==
    stage = "done" =>
        \A e \in emitted : unguarded[e] = {} =>
            \A b \in Bodies(e) : \A k \in program.guards[b] :
                \E t \in emitted : program.key[t] = k

(* The coverage entries that tell of an emitted slot: its own, or for      *)
(* compiler alternatives those of its signature.                           *)
EntriesOf(e) ==
    IF e \in Ranked(program)
    THEN {s \in covered \cap Ranked(program) : program.label[s] = program.label[e]}
    ELSE covered \cap {e}

(* Coverage, read off the lowered list with a key of its own, agrees with  *)
(* what was merged and emitted: it tells only of emitted bodies, of no     *)
(* emitted slot twice, and of every emitted slot; groups of one signature  *)
(* share the entry (ProfileGenerator._record_coverage).                    *)
CoverageIsEmission ==
    stage = "done" =>
        /\ \A s \in covered : \E e \in emitted : s \in Bodies(e)
        /\ \A e \in emitted : /\ Cardinality(covered \cap Bodies(e)) <= 1
                             /\ Cardinality(EntriesOf(e)) = 1
=============================================================================
