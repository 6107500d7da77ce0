------------------------- MODULE ProfileGeneration -------------------------
(***************************************************************************)
(* ProfileGenerator.generate of tslc/_pipeline_profile_generation.py for   *)
(* one machine profile and one backend: the worklist that selects and      *)
(* lowers the requested primitives, the primitives their bodies call and   *)
(* the primitives the value-test harness needs, then closes the result     *)
(* and accounts for every body; and the TargetSupportRecorder beside it.   *)
(* Backends share nothing here: every key of the code starts with one.     *)
(***************************************************************************)
EXTENDS Integers, FiniteSets

CONSTANTS
    Primitive,  \* the primitives of the catalog
    TypeTag,    \* scalar type tags
    Extension,  \* the extensions the profile activates
    Catalog,    \* the catalogs under consideration, functions from Site to Body
    Request     \* the generation requests under consideration

Foreign == "foreign"      \* a called name the catalog does not declare
AnyType == "any_type"     \* a call whose source has no base tag yet
Symbolic == "symbolic"    \* a call whose source names no extension yet
NoScope == {}             \* extensions is None: every active extension

(* A selection slot with its body.  One body stands for a slot; overloads  *)
(* and compiler alternatives are the business of CallGraph.                *)
Site == Primitive \X TypeTag \X Extension

Call == [primitive : Primitive \cup {Foreign},
         type      : TypeTag \cup {AnyType},
         extension : Extension \cup {Symbolic}]

Body == [outcome : {"absent", "lowered", "unlowered", "deferred"},
         calls   : SUBSET Call,     \* of the implementation
         guards  : SUBSET Call,     \* of its checked companion
         bases   : SUBSET TypeTag]  \* base types it binds or converts to

ASSUME ProfileGenerationAssumption ==
    /\ IsFiniteSet(Primitive) /\ IsFiniteSet(TypeTag) /\ IsFiniteSet(Extension)
    /\ Foreign \notin Primitive /\ AnyType \notin TypeTag /\ Symbolic \notin Extension
    /\ Catalog \subseteq [Site -> Body]
    /\ Request \subseteq [primitives : SUBSET Primitive,
                          types      : SUBSET TypeTag,
                          scope      : SUBSET Extension,
                          harness    : SUBSET Primitive,  \* empty without test_harness
                          seeds      : SUBSET Primitive,  \* closure seeds of the backend
                          support    : BOOLEAN]

VARIABLES
    catalog, request,
    phase,      \* discover, then record, done; raised if an exception leaves generate
    worklist,   \* what is still to be selected
    processed,  \* (primitive, type, scope) already selected
    lowered,    \* how often each site is in lowered_specs
    live,       \* the sites dependency pruning left
    skipped,    \* how many SkippedEntry each site has
    covered,    \* how many CoverageEntry each site has
    support     \* the target-support status of each site

vars == <<catalog, request, phase, worklist, processed, lowered, live, skipped,
          covered, support>>

Many == 2   \* bound: entries of one site are counted no further
Plus(n, m) == IF n + m > Many THEN Many ELSE n + m

InScope(s, scope) == scope = NoScope \/ s[3] \in scope

(* What the selector finds for a primitive at some types, filtered by the  *)
(* requested extensions.                                                   *)
Slots(p, types, scope) ==
    {s \in Site : s[1] = p /\ s[2] \in types /\ InScope(s, scope)}

Init ==
    /\ catalog \in Catalog
    /\ request \in Request
    /\ phase = "discover"
    /\ worklist =
            {[primitive |-> p, types |-> request.types, scope |-> request.scope] :
                p \in request.primitives}
       \cup {[primitive |-> h, types |-> request.types, scope |-> NoScope] :
                h \in request.harness \cup request.seeds}
    /\ processed = {}
    /\ lowered = [s \in Site |-> 0]
    /\ live = {}
    /\ skipped = [s \in Site |-> 0]
    /\ covered = [s \in Site |-> 0]
    /\ support = [s \in Site |-> "unknown"]

(* Mutation of BoundBases: the types that were asked for anyway. *)
RequestedBases(bodies) == request.types

BoundBases(bodies) == UNION {catalog[s].bases : s \in bodies}

(* The harness is needed at every base type a lowered body binds, on all   *)
(* extensions.                                                             *)
HarnessRequests(bodies, done) ==
    UNION {{[primitive |-> h, types |-> {t}, scope |-> NoScope] :
                h \in {h \in request.harness : <<h, t, NoScope>> \notin done}} :
           t \in BoundBases(bodies)}

(* The base types a call is looked for at. *)
TypesOf(c) == IF c.type = AnyType THEN request.types ELSE {c.type}

(* Mutation of ScopeOf: the scope of the caller. *)
ScopeOfCaller(c, scope) == scope

(* The scope a call is looked for in: none if it names no extension or     *)
(* nothing was scoped, otherwise the very extension it names.              *)
ScopeOf(c, scope) ==
    IF c.extension = Symbolic \/ scope = NoScope THEN NoScope ELSE {c.extension}

Known(c) == c.primitive \in Primitive

(* Calls of the checked companion are looked for like those of the body.   *)
DependencyRequests(bodies, scope, done) ==
    LET calls == {c \in UNION {catalog[s].calls \cup catalog[s].guards : s \in bodies} :
                    Known(c)}
    IN  UNION {{[primitive |-> c.primitive, types |-> {t}, scope |-> ScopeOf(c, scope)] :
                    t \in {t \in TypesOf(c) :
                            <<c.primitive, t, ScopeOf(c, scope)>> \notin done}} :
               c \in calls}

(* Selection enters a site as selected, whatever it was before; lowering   *)
(* moves it on.                                                            *)
StatusAfterLowering(s) ==
    CASE catalog[s].outcome = "absent"    -> "absent"
      [] catalog[s].outcome = "lowered"   -> "lowered"
      [] catalog[s].outcome = "unlowered" -> "selected"
      [] catalog[s].outcome = "deferred"  -> "policy_deferred"

(* Mutation of Remaining: everything an item names is selected again. *)
RemainingOrNot(w) == w.types

(* The types of an item that were not selected in its scope before.        *)
Remaining(w) == {t \in w.types : <<w.primitive, t, w.scope>> \notin processed}

Processed(w) == processed \cup {<<w.primitive, t, w.scope>> : t \in Remaining(w)}

(* One item of the worklist.  The code takes the oldest; nothing below     *)
(* depends on which one is taken.                                          *)
Process(w) ==
    /\ phase = "discover"
    /\ w \in worklist
    /\ LET slots  == Slots(w.primitive, Remaining(w), w.scope)
           bodies == {s \in slots : catalog[s].outcome = "lowered"}
           failed == {s \in slots : catalog[s].outcome \in {"unlowered", "deferred"}}
       IN  /\ processed' = Processed(w)
           /\ lowered' = [s \in Site |->
                    IF s \in bodies THEN Plus(lowered[s], 1) ELSE lowered[s]]
           /\ skipped' = [s \in Site |->
                    IF s \in failed THEN Plus(skipped[s], 1) ELSE skipped[s]]
           /\ support' = [s \in Site |->
                    IF s \in slots /\ request.support THEN StatusAfterLowering(s)
                                                      ELSE support[s]]
           /\ worklist' = (worklist \ {w})
                    \cup HarnessRequests(bodies, processed')
                    \cup DependencyRequests(bodies, w.scope, processed')
    /\ UNCHANGED <<catalog, request, phase, live, covered>>

Discovered == {s \in Site : lowered[s] > 0}

Concrete(c) == c.extension # Symbolic

(* The largest part of a set of sites whose concrete calls stay inside it, *)
(* which is what pruning leaves (DependencyPruning).  Calls of checked     *)
(* companions do not count.                                                *)
Generatable(S) ==
    LET keep[n \in 0..Cardinality(S)] ==
            IF n = 0 THEN S
            ELSE LET kept == keep[n - 1]
                 IN  {s \in kept : \A c \in catalog[s].calls : Concrete(c) =>
                        <<c.primitive, c.type, c.extension>> \in kept}
    IN  keep[Cardinality(S)]

(* Mutation of Close: pruned bodies are skipped without telling the        *)
(* recorder.                                                               *)
CloseUntold ==
    /\ phase = "discover" /\ worklist = {}
    /\ live' = Generatable(Discovered)
    /\ skipped' = [s \in Site |-> IF s \in Discovered \ live'
                                  THEN Plus(skipped[s], lowered[s]) ELSE skipped[s]]
    /\ phase' = "record"
    /\ UNCHANGED <<catalog, request, worklist, processed, lowered, covered, support>>

(* Everything is lowered that will be: prune, and account for the pruned   *)
(* bodies.  Moving one site twice is an invalid transition and raises.     *)
Close ==
    /\ phase = "discover" /\ worklist = {}
    /\ live' = Generatable(Discovered)
    /\ LET pruned == Discovered \ live'
       IN  IF request.support /\ \E s \in pruned : lowered[s] > 1
           THEN phase' = "raised" /\ UNCHANGED <<skipped, support>>
           ELSE /\ phase' = "record"
                /\ skipped' = [s \in Site |->
                        IF s \in pruned THEN Plus(skipped[s], lowered[s]) ELSE skipped[s]]
                /\ support' = [s \in Site |->
                        IF s \in pruned /\ request.support THEN "pruned" ELSE support[s]]
    /\ UNCHANGED <<catalog, request, worklist, processed, lowered, covered>>

(* Account for the emitted bodies, likewise. *)
Record ==
    /\ phase = "record"
    /\ IF request.support /\ \E s \in live : lowered[s] > 1
       THEN phase' = "raised" /\ UNCHANGED <<covered, support>>
       ELSE /\ phase' = "done"
            /\ covered' = [s \in Site |-> IF s \in live THEN lowered[s] ELSE 0]
            /\ support' = [s \in Site |->
                    IF s \in live /\ request.support THEN "emitted" ELSE support[s]]
    /\ UNCHANGED <<catalog, request, worklist, processed, lowered, live, skipped>>

Next == Close \/ Record \/ \E w \in worklist : Process(w)

Spec == Init /\ [][Next]_vars /\ WF_vars(Next)
----------------------------------------------------------------------------
(* Without an extension filter, every body that was selected is accounted  *)
(* for once, as covered or as skipped, and nothing else is.                *)
AccountedOnce ==
    phase = "done" /\ request.scope = NoScope =>
        \A s \in Site :
            LET selected == \E sc \in SUBSET Extension :
                                InScope(s, sc) /\ <<s[1], s[2], sc>> \in processed
            IN  covered[s] + skipped[s] =
                    IF selected /\ catalog[s].outcome # "absent" THEN 1 ELSE 0

(* The target-support trace ends with the fate of every body and with      *)
(* nothing half-way.                                                       *)
SupportTellsTheOutcome ==
    phase = "done" /\ request.support =>
        \A s \in Site :
            /\ support[s] = "emitted" <=> covered[s] > 0
            /\ support[s] = "pruned" <=> s \in Discovered \ live
            /\ support[s] # "lowered"

(* Which bodies survive does not depend on the request: a lowered body is  *)
(* kept exactly when it can be generated from the whole catalog, so that   *)
(* none is pruned for a callee nobody looked for.                          *)
PrunedIsUngeneratable ==
    phase \in {"record", "done"} =>
        live = Discovered \cap
                 Generatable({s \in Site : catalog[s].outcome = "lowered"})

(* The test harness is there for every type asked for and every base type  *)
(* a lowered body binds, on every extension.                               *)
HarnessIsComplete ==
    phase \in {"record", "done"} =>
        \A s \in Discovered : \A t \in request.types \cup catalog[s].bases :
            \A h \in request.harness : \A e \in Extension :
                catalog[<<h, t, e>>].outcome = "lowered" => <<h, t, e>> \in Discovered
=============================================================================
