----------------------------- MODULE CallFacts -----------------------------
(***************************************************************************)
(* _propagate_transitive_call_facts of tslc/_pipeline_closure.py: over the *)
(* slots that pruning left live, safety, proof gaps, target features and   *)
(* the implementation state flow from callees to callers until nothing     *)
(* changes, by a worklist of fact identities that may be cyclic.           *)
(***************************************************************************)
EXTENDS CallGraph

CONSTANTS
    Reason,      \* labels of unsafety written in the sources
    Feature,     \* target features
    Obligation,  \* unresolved call preconditions (proof gaps)
    OwnFacts     \* the facts the slots may be lowered with, a set of [Slot -> Fact]

UnsafeCallee == "unsafe_callee"   \* the label propagation adds

(* ImplementationState by its rank: native, composed, unknown, fallback.   *)
State == 0..3

Fact ==
    [internal : BOOLEAN,            \* the body needs an unsafe block
     caller   : BOOLEAN,            \* its caller has a contract to uphold
     reasons  : SUBSET (Reason \cup {UnsafeCallee}),
     gaps     : SUBSET Obligation,
     features : SUBSET Feature,
     state    : State]

ASSUME CallFactsAssumption == OwnFacts \subseteq [Slot -> Fact]

VARIABLES
    own,        \* the facts each slot was lowered with
    facts,      \* the facts of each fact identity
    queued,     \* the identities waiting in the worklist
    published   \* the facts written back to the slots, or the ones they had

factsVars == <<program, own, facts, queued, published>>

(* Slots that share a slot key and a form share one fact identity, named   *)
(* here by the first of them (_CallFactKey).                               *)
Sharing(s) == {t \in Slot : program.key[t] = program.key[s]
                         /\ program.form[t] = program.form[s]}
FactId(s) == CHOOSE t \in Sharing(s) : \A u \in Sharing(s) : t <= u
Ids == {FactId(s) : s \in Slot}

(* The last body of the identity i that resets its facts: its first one,   *)
(* and every ordinary duplicate; compiler alternatives after it are merged *)
(* in.  Only proof gaps are kept from every body.                          *)
Resetting(i) == {t \in Sharing(i) : t = i \/ t \notin Ranked(program)}
LastReset(i) == CHOOSE t \in Resetting(i) : \A u \in Resetting(i) : u <= t
Speaking(i) == {t \in Sharing(i) : t >= LastReset(i)}

(* Mutation of InitialFact: the proof gaps of a duplicate are reset too.   *)
InitialFactOfLast(i) ==
    [internal |-> \E t \in Speaking(i) : own[t].internal,
     caller   |-> \E t \in Speaking(i) : own[t].caller,
     reasons  |-> UNION {own[t].reasons : t \in Speaking(i)},
     gaps     |-> UNION {own[t].gaps : t \in Speaking(i)},
     features |-> UNION {own[t].features : t \in Speaking(i)},
     state    |-> CHOOSE r \in {own[t].state : t \in Speaking(i)} :
                    \A t \in Speaking(i) : own[t].state <= r]

InitialFact(i) ==
    [internal |-> \E t \in Speaking(i) : own[t].internal,
     caller   |-> \E t \in Speaking(i) : own[t].caller,
     reasons  |-> UNION {own[t].reasons : t \in Speaking(i)},
     gaps     |-> UNION {own[t].gaps : t \in Sharing(i)},
     features |-> UNION {own[t].features : t \in Speaking(i)},
     state    |-> CHOOSE r \in {own[t].state : t \in Speaking(i)} :
                    \A t \in Speaking(i) : own[t].state <= r]

(* Mutation of Callers: only the last identity behind a slot key is kept   *)
(* as the target of the calls to it.                                       *)
CallersOfLast(i) ==
    IF \E j \in Ids : j > i /\ program.key[j] = program.key[i] THEN {}
    ELSE {FactId(s) : s \in {t \in Slot : program.key[i] \in program.callees[t]}}

(* Every body behind one slot key is a target of a call to it. *)
Callers(i) == {FactId(s) : s \in {t \in Slot : program.key[i] \in program.callees[t]}}

Unsafe(f) == f.internal \/ f.caller

(* What a caller with facts f has after taking in a callee with facts g.   *)
(* A caller contract of the callee is met inside the caller: it becomes an *)
(* unsafe block there and goes no further.                                 *)
Absorb(f, g) ==
    [internal |-> f.internal \/ Unsafe(g),
     caller   |-> f.caller,
     reasons  |-> f.reasons \cup (IF Unsafe(g) THEN g.reasons \cup {UnsafeCallee}
                                               ELSE {}),
     gaps     |-> f.gaps \cup g.gaps,
     features |-> f.features \cup g.features,
     state    |-> IF f.state < g.state THEN g.state ELSE f.state]

FactsInit ==
    /\ program \in Program
    /\ own \in OwnFacts
    /\ facts = [i \in Ids |-> InitialFact(i)]
    /\ queued = Ids
    /\ published = own

(* Mutation of Visit: all callers are queued again, changed or not. *)
VisitForever(i) ==
    /\ i \in queued
    /\ facts' = [c \in Ids |-> IF c \in Callers(i) THEN Absorb(facts[c], facts[i])
                                                   ELSE facts[c]]
    /\ queued' = (queued \ {i}) \cup Callers(i)
    /\ UNCHANGED <<program, own, published>>

(* Take one identity off the worklist and push its facts into its callers; *)
(* those that change are queued again.  The code takes the oldest; nothing *)
(* below depends on which one is taken.                                    *)
Visit(i) ==
    /\ i \in queued
    /\ facts' = [c \in Ids |-> IF c \in Callers(i) THEN Absorb(facts[c], facts[i])
                                                   ELSE facts[c]]
    /\ queued' = (queued \ {i}) \cup {c \in Callers(i) : facts'[c] # facts[c]}
    /\ UNCHANGED <<program, own, published>>

(* The worklist is empty: every slot gets the facts of its identity. *)
Publish ==
    /\ queued = {}
    /\ published' = [s \in Slot |-> facts[FactId(s)]]
    /\ UNCHANGED <<program, own, facts, queued>>

FactsNext == Publish \/ \E i \in Ids : Visit(i)

FactsSpec == FactsInit /\ [][FactsNext]_factsVars /\ WF_factsVars(FactsNext)
----------------------------------------------------------------------------
(* Every identity the calls of i lead to, i included: what lies in every   *)
(* set around i that is closed under calls.                                *)
CalleesOf(i) == {e \in Ids : \E s \in Sharing(i) : program.key[e] \in program.callees[s]}
CallClosed(U) == \A c \in U : CalleesOf(c) \subseteq U
Reach(i) == {j \in Ids : \A U \in SUBSET Ids : i \in U /\ CallClosed(U) => j \in U}
Below(i) == UNION {Reach(e) : e \in CalleesOf(i)}

(* The facts of an identity by definition instead of by propagation: its   *)
(* own, with those of everything its calls lead to; reasons come along     *)
(* only from callees whose own calls lead to something unsafe.             *)
LeadsToUnsafe(i) == \E j \in Reach(i) : Unsafe(InitialFact(j))
Solved(i) ==
    LET unsafe == {j \in Below(i) : LeadsToUnsafe(j)}
    IN  [internal |-> InitialFact(i).internal \/ unsafe # {},
         caller   |-> InitialFact(i).caller,
         reasons  |-> InitialFact(i).reasons
                        \cup (IF unsafe # {} THEN {UnsafeCallee} ELSE {})
                        \cup UNION {InitialFact(j).reasons : j \in unsafe},
         gaps     |-> UNION {InitialFact(j).gaps : j \in Reach(i)},
         features |-> UNION {InitialFact(j).features : j \in Reach(i)},
         state    |-> CHOOSE r \in {InitialFact(j).state : j \in Reach(i)} :
                        \A j \in Reach(i) : InitialFact(j).state <= r]

(* When the worklist is empty the facts are the solved ones, also through  *)
(* cycles, and whatever order the identities were visited in.              *)
FactsAreExact == queued = {} => facts = [i \in Ids |-> Solved(i)]

(* A proof gap of any live body, duplicates of one identity included,      *)
(* reaches every slot whose calls lead to it: admission of checked         *)
(* wrappers is never decided on a hidden gap.                              *)
GapsReachEveryCaller ==
    published # own =>
        \A s, t \in Slot :
            FactId(t) \in Reach(FactId(s)) => own[t].gaps \subseteq published[s].gaps

(* The worklist empties and the facts are written back. *)
FactsSettle == <>(queued = {} /\ published = [s \in Slot |-> facts[FactId(s)]])
=============================================================================
