----------------------------- MODULE Selection -----------------------------
(***************************************************************************)
(* Selection of implementation bodies for one primitive on one machine     *)
(* profile and backend (select/selector.py, select/candidates.py,          *)
(* select/slots.py).  A primitive has bodies, each written for an          *)
(* extension and a group of element types, behind requires clauses that    *)
(* ask the target for features and the compiler for capabilities.  For     *)
(* every slot (extension, type) the selector ranks the bodies the          *)
(* extension offers or inherits.  Told what the compiler can do it takes   *)
(* the best; otherwise (compiler = Automatic) it keeps an alternative for  *)
(* every compiler the package may meet, to be chosen downstream.           *)
(*                                                                         *)
(* Primitives with a result target, fixed-shape signatures, sized vectors  *)
(* and the fixed-width fallback of compiler overlays are not modelled.     *)
(***************************************************************************)
EXTENDS Integers, FiniteSets

CONSTANTS
    Extension,    \* numbered in the order of their names
    TypeTag,      \* numbered in the order they are asked for
    Feature,      \* target features
    Capability,   \* compiler capabilities
    Body,         \* bodies, numbered in source order
    Program,      \* a primitive, the extensions of the catalog and a profile
    Automatic,    \* no compiler given: compiler_capabilities is None
    NoExtension,  \* an extension that inherits from none
    NoSlot

Clause == [types : SUBSET TypeTag, flags : SUBSET Feature,
           caps : SUBSET Capability, foreign : BOOLEAN]

ASSUME NumberedAssumption ==
    /\ IsFiniteSet(Extension) /\ Extension \subseteq Nat
    /\ IsFiniteSet(TypeTag) /\ TypeTag \subseteq Nat
    /\ IsFiniteSet(Feature) /\ IsFiniteSet(Capability)
    /\ Body \subseteq Nat

ASSUME ProgramAssumption ==
    \A p \in Program :
        /\ p.active \subseteq Extension
        /\ \A b \in Body : /\ p.body[b].types \subseteq TypeTag
                          /\ p.body[b].clauses \subseteq Clause

ASSUME NoSlotAssumption == NoSlot \notin Extension \X TypeTag

VARIABLES
    program,
    compiler,     \* Automatic, or the capabilities of the compiler
    waiting,      \* slots not yet considered
    slot,         \* the slot being considered
    field,        \* its usable bodies not yet ranked
    winners,      \* the bodies kept for it
    chosen        \* what was selected, for every slot considered

vars == <<program, compiler, waiting, slot, field, winners, chosen>>

----------------------------------------------------------------------------
(* The extensions a package is generated for *)

Hidden == UNION {program.supersedes[v] : v \in program.active}

Emitted == (program.active \ Hidden) \cap program.supported

(* The n-th ancestor of extension e, e itself first. *)
Ancestor(p, e) ==
    LET up[n \in 0..Cardinality(Extension)] ==
        IF n = 0 THEN e
        ELSE IF up[n - 1] = NoExtension THEN NoExtension
        ELSE p.parent[up[n - 1]]
    IN up

(* Validation rejects a catalog with an inheritance cycle                  *)
(* (invariants.py:296), so that every chain ends.  That what an extension  *)
(* hides is among its ancestors, and that it is not hidden itself, is the  *)
(* way of the corpus (extension.tsl); nothing in the code requires it.     *)
ASSUME InheritanceAssumption ==
    \A p \in Program : \A v \in p.active :
        /\ Ancestor(p, v)[Cardinality(Extension)] = NoExtension
        /\ \A h \in p.supersedes[v] : \E n \in 0..Cardinality(Extension) : Ancestor(p, v)[n] = h
        /\ \A w \in p.active : v \in p.supersedes[w] => p.supersedes[v] = {}

InChain(p, e, x) == \E n \in 0..Cardinality(Extension) : Ancestor(p, e)[n] = x

Distance(p, e, x) == CHOOSE n \in 0..Cardinality(Extension) : Ancestor(p, e)[n] = x

----------------------------------------------------------------------------
(* What a body asks for at a type *)

Clauses(p, b, t) == {c \in p.body[b].clauses : t \in c.types}

(* A body with clauses of which none covers the type, or one that covers   *)
(* it asks only compilers of other backends, is not for this slot.         *)
Applies(p, b, t) ==
    \/ p.body[b].clauses = {}
    \/ Clauses(p, b, t) # {} /\ \A c \in Clauses(p, b, t) : ~c.foreign

Flags(p, b, t) == UNION {c.flags : c \in Clauses(p, b, t)}

Caps(p, b, t) == UNION {c.caps : c \in Clauses(p, b, t)}

(* Inheritance forgotten. *)
EligibleOwn(p, s) ==
    {b \in Body : /\ p.body[b].extension = s[1]
                  /\ s[2] \in p.body[b].types
                  /\ Applies(p, b, s[2])
                  /\ Flags(p, b, s[2]) \subseteq p.features}

(* Bodies that can serve slot s whatever the compiler, if it has what they *)
(* ask for.                                                                *)
Eligible(p, s) ==
    {b \in Body : /\ InChain(p, s[1], p.body[b].extension)
                  /\ s[2] \in p.body[b].types
                  /\ Applies(p, b, s[2])
                  /\ Flags(p, b, s[2]) \subseteq p.features}

Candidates(s) ==
    {b \in Eligible(program, s) :
        compiler = Automatic \/ Caps(program, b, s[2]) \subseteq compiler}

SortKey(p, s, b) ==
    <<Distance(p, s[1], p.body[b].extension),
      Cardinality(p.body[b].types),
      -Cardinality(Flags(p, b, s[2])),
      -Cardinality(Caps(p, b, s[2])),
      b>>

Lower(k, l) ==
    \E i \in 1..5 : k[i] < l[i] /\ \A j \in 1..(i - 1) : k[j] = l[j]

Before(p, s, a, b) == Lower(SortKey(p, s, a), SortKey(p, s, b))

----------------------------------------------------------------------------
(* The slots of the primitive *)

(* A free function is declared once, by an extension that has a body of    *)
(* its own and whose family may own it.                                    *)
Owners == {e \in Emitted \cap program.owners :
              \E b \in Body : program.body[b].extension = e}

Grouped == UNION {program.body[b].types : b \in Body}

Slots ==
    {s \in (IF program.free THEN Owners ELSE Emitted) \X Grouped :
        /\ program.free \/ s[2] \in program.types
        /\ s[2] \in program.offers[s[1]]}

SlotBefore(s, r) == s[1] < r[1] \/ (s[1] = r[1] /\ s[2] < r[2])

Init ==
    /\ program \in Program
    /\ compiler \in {Automatic} \cup SUBSET Capability
    /\ waiting = Slots
    /\ slot = NoSlot
    /\ field = {}
    /\ winners = {}
    /\ chosen = [s \in {} |-> {}]

EnterSlot ==
    /\ slot = NoSlot
    /\ \E s \in waiting :
        /\ \A r \in waiting \ {s} : SlotBefore(s, r)
        /\ waiting' = waiting \ {s}
        /\ slot' = s
        /\ field' = Candidates(s)
    /\ winners' = {}
    /\ UNCHANGED <<program, compiler, chosen>>

Best(b) == b \in field /\ \A a \in field \ {b} : Before(program, slot, b, a)

(* The subset test the wrong way round. *)
CoveredByMore(b) ==
    \E w \in winners : Caps(program, b, slot[2]) \subseteq Caps(program, w, slot[2])

(* Only bodies with the same requirements are taken for superfluous. *)
CoveredBySame(b) ==
    \E w \in winners : Caps(program, w, slot[2]) = Caps(program, b, slot[2])

Covered(b) ==
    \E w \in winners : Caps(program, w, slot[2]) \subseteq Caps(program, b, slot[2])

(* Automatic selection keeps a body unless one that ranks above it serves  *)
(* every compiler that it serves.                                          *)
Consider ==
    /\ slot # NoSlot
    /\ compiler = Automatic
    /\ \E b \in field :
        /\ Best(b)
        /\ field' = field \ {b}
        /\ winners' = IF Covered(b) THEN winners ELSE winners \cup {b}
    /\ UNCHANGED <<program, compiler, waiting, slot, chosen>>

(* A slot that would leave some compiler without a body is not generated.  *)
Guaranteed ==
    IF \E w \in winners : Caps(program, w, slot[2]) = {} THEN winners ELSE {}

Select(kept) ==
    /\ chosen' = [s \in (DOMAIN chosen) \cup {slot} |->
                     IF s = slot THEN kept ELSE chosen[s]]
    /\ waiting' = IF program.free /\ kept # {} THEN {} ELSE waiting
    /\ slot' = NoSlot
    /\ field' = {}
    /\ winners' = {}
    /\ UNCHANGED <<program, compiler>>

CloseSlot ==
    /\ slot # NoSlot
    /\ compiler = Automatic
    /\ field = {}
    /\ Select(Guaranteed)

TakeBest ==
    /\ slot # NoSlot
    /\ compiler # Automatic
    /\ \/ field = {} /\ Select({})
       \/ \E b \in field : Best(b) /\ Select({b})

Finished == slot = NoSlot /\ waiting = {}

Next == EnterSlot \/ Consider \/ CloseSlot \/ TakeBest

Spec == Init /\ [][Next]_vars

----------------------------------------------------------------------------
(* Properties *)

(* Of the bodies S, the one that serves compiler C at slot s. *)
Serves(p, s, S, C, b) ==
    /\ b \in S
    /\ Caps(p, b, s[2]) \subseteq C
    /\ \A a \in S \ {b} : Caps(p, a, s[2]) \subseteq C => Before(p, s, b, a)

(* An automatic package has a slot when every compiler has a usable body   *)
(* for it, and its alternatives then decide, on every compiler, like       *)
(* selection told what that compiler can do                                *)
(* (candidates.py:366, best_bodies).                                       *)
AutomaticAgreesWithExplicit ==
    compiler = Automatic =>
        \A s \in DOMAIN chosen :
            LET usable == Eligible(program, s)
            IN /\ chosen[s] = {} <=>
                     \E C \in SUBSET Capability :
                         \A b \in usable : ~(Caps(program, b, s[2]) \subseteq C)
               /\ chosen[s] # {} =>
                     \A C \in SUBSET Capability : \A b \in Body :
                         Serves(program, s, chosen[s], C, b) <=> Serves(program, s, usable, C, b)

(* No alternative is dead: each one is what some compiler gets             *)
(* (candidates.py:366).                                                    *)
EveryAlternativeWins ==
    \A s \in DOMAIN chosen : \A b \in chosen[s] :
        \E C \in SUBSET Capability : Serves(program, s, chosen[s], C, b)

(* What an active variant hides is not lost: each type that the variant    *)
(* offers, and that every compiler could use on the hidden extension, is   *)
(* generated for an emitted extension that inherits its bodies             *)
(* (selector.py:462-468).                                                  *)
HiddenExtensionsKeepTheirSlots ==
    Finished /\ compiler = Automatic /\ ~program.free =>
        \A v \in program.active \cap program.supported :
            \A h \in program.supersedes[v], t \in program.types \cap program.offers[v] :
                (\E b \in Eligible(program, <<h, t>>) : Caps(program, b, t) = {})
                => \E s \in DOMAIN chosen :
                      /\ s[1] \in Emitted /\ InChain(program, s[1], h)
                      /\ s[2] = t /\ chosen[s] # {}

=============================================================================
