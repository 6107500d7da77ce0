-------------------------- MODULE SelectionProofs --------------------------
(***************************************************************************)
(* What selection keeps for an unknown compiler, proved for any number of  *)
(* bodies, extensions and capabilities.  The loop over the ranked bodies   *)
(* keeps a frontier: a body that was dropped is covered by a kept one that *)
(* ranks above it, and no kept body covers another.  A frontier decides on *)
(* every compiler like all the bodies it was taken from.                   *)
(* Inheritance chains are lists: the chain of an ancestor continues the    *)
(* chain it is in, and one that has ended stays ended.                     *)
(***************************************************************************)
EXTENDS Selection, FiniteSetTheorems, WellFoundedInduction, TLAPS

SlotSpace == Extension \X TypeTag

IntKey == [1..5 -> Int]

----------------------------------------------------------------------------
(* Ranking is a strict total order *)

(* No key is lower than itself. *)
LEMMA LowerIrreflexive == \A k \in IntKey : ~Lower(k, k)
BY DEF Lower, IntKey

(* Lower is transitive on keys. *)
LEMMA LowerTransitive ==
    ASSUME NEW k \in IntKey, NEW l \in IntKey, NEW n \in IntKey,
           Lower(k, l), Lower(l, n)
    PROVE  Lower(k, n)
<1>1. PICK i \in 1..5 : k[i] < l[i] /\ \A j \in 1..(i - 1) : k[j] = l[j]
  BY DEF Lower
<1>2. PICK m \in 1..5 : l[m] < n[m] /\ \A j \in 1..(m - 1) : l[j] = n[j]
  BY DEF Lower
<1>3. CASE i <= m
  <2>1. k[i] < n[i]
    BY <1>1, <1>2, <1>3 DEF IntKey
  <2>2. \A j \in 1..(i - 1) : k[j] = n[j]
    BY <1>1, <1>2, <1>3
  <2> QED
    BY <2>1, <2>2 DEF Lower
<1>4. CASE m < i
  <2>1. k[m] < n[m]
    BY <1>1, <1>2, <1>4 DEF IntKey
  <2>2. \A j \in 1..(m - 1) : k[j] = n[j]
    BY <1>1, <1>2, <1>4
  <2> QED
    BY <2>1, <2>2 DEF Lower
<1> QED
  BY <1>3, <1>4

(* Keys that end in different numbers are comparable. *)
LEMMA LowerTotal ==
    ASSUME NEW k \in IntKey, NEW l \in IntKey, k[5] # l[5]
    PROVE  Lower(k, l) \/ Lower(l, k)
<1>1. \E i \in 1..5 : k[i] # l[i] /\ \A j \in 1..(i - 1) : k[j] = l[j]
  <2>1. CASE k[1] # l[1]
    BY <2>1
  <2>2. CASE k[1] = l[1] /\ k[2] # l[2]
    BY <2>2
  <2>3. CASE k[1] = l[1] /\ k[2] = l[2] /\ k[3] # l[3]
    BY <2>3
  <2>4. CASE k[1] = l[1] /\ k[2] = l[2] /\ k[3] = l[3] /\ k[4] # l[4]
    BY <2>4
  <2>5. CASE k[1] = l[1] /\ k[2] = l[2] /\ k[3] = l[3] /\ k[4] = l[4]
    BY <2>5
  <2> QED
    BY <2>1, <2>2, <2>3, <2>4, <2>5
<1>2. PICK i \in 1..5 : k[i] # l[i] /\ \A j \in 1..(i - 1) : k[j] = l[j]
  BY <1>1
<1>3. k[i] < l[i] \/ l[i] < k[i]
  BY <1>2 DEF IntKey
<1> QED
  BY <1>2, <1>3 DEF Lower

----------------------------------------------------------------------------
(* Bodies and their keys *)

ProgramType ==
    /\ program \in Program
    /\ slot \in SlotSpace \cup {NoSlot}
    /\ waiting \subseteq SlotSpace
    /\ DOMAIN chosen \subseteq SlotSpace

(* The capabilities a body asks for are capabilities. *)
LEMMA CapsAreCapabilities ==
    ASSUME NEW p \in Program, NEW b \in Body, NEW t \in TypeTag
    PROVE  Caps(p, b, t) \subseteq Capability /\ Flags(p, b, t) \subseteq Feature
<1>1. \A c \in Clauses(p, b, t) : c \in Clause
  BY ProgramAssumption DEF Clauses
<1> QED
  BY <1>1 DEF Caps, Flags, Clause

(* The key of an eligible body is five integers, the last its number. *)
LEMMA KeysAreInts ==
    ASSUME NEW p \in Program, NEW s \in SlotSpace, NEW b \in Eligible(p, s)
    PROVE  SortKey(p, s, b) \in IntKey /\ SortKey(p, s, b)[5] = b
<1>1. b \in Body /\ b \in Int /\ s[2] \in TypeTag
  <2>1. b \in Body
    BY Zenon DEF Eligible
  <2> QED
    BY <2>1, NumberedAssumption DEF SlotSpace
<1>2. Distance(p, s[1], p.body[b].extension) \in Int
  <2>1. \E n \in 0..Cardinality(Extension) :
           Ancestor(p, s[1])[n] = p.body[b].extension
    BY DEF Eligible, InChain
  <2>2. Distance(p, s[1], p.body[b].extension) \in 0..Cardinality(Extension)
    BY <2>1 DEF Distance
  <2> QED
    BY <2>2
<1>3. Cardinality(p.body[b].types) \in Int
  BY <1>1, ProgramAssumption, NumberedAssumption, FS_Subset, FS_CardinalityType
<1>4. /\ -Cardinality(Flags(p, b, s[2])) \in Int
      /\ -Cardinality(Caps(p, b, s[2])) \in Int
  <2>1. IsFiniteSet(Flags(p, b, s[2])) /\ IsFiniteSet(Caps(p, b, s[2]))
    BY <1>1, CapsAreCapabilities, NumberedAssumption, FS_Subset
  <2>2. /\ Cardinality(Flags(p, b, s[2])) \in Nat
        /\ Cardinality(Caps(p, b, s[2])) \in Nat
    BY <2>1, FS_CardinalityType
  <2> QED
    BY <2>2
<1> DEFINE d == Distance(p, s[1], p.body[b].extension)
           c == Cardinality(p.body[b].types)
           f == -Cardinality(Flags(p, b, s[2]))
           g == -Cardinality(Caps(p, b, s[2]))
<1>5. SortKey(p, s, b) = <<d, c, f, g, b>>
  BY DEF SortKey
<1> HIDE DEF d, c, f, g
<1>6. d \in Int /\ c \in Int /\ f \in Int /\ g \in Int
  BY <1>2, <1>3, <1>4 DEF d, c, f, g
<1> QED
  BY <1>1, <1>5, <1>6 DEF IntKey

(* Bodies that can serve one slot are strictly and totally ordered. *)
LEMMA Ranked ==
    ASSUME NEW p \in Program, NEW s \in SlotSpace
    PROVE  /\ \A a \in Eligible(p, s) : ~Before(p, s, a, a)
           /\ \A a \in Eligible(p, s) : \A b \in Eligible(p, s) : \A c \in Eligible(p, s) :
                 Before(p, s, a, b) /\ Before(p, s, b, c) => Before(p, s, a, c)
           /\ \A a \in Eligible(p, s) : \A b \in Eligible(p, s) :
                 a # b => Before(p, s, a, b) \/ Before(p, s, b, a)
<1>1. \A b \in Eligible(p, s) : SortKey(p, s, b) \in IntKey /\ SortKey(p, s, b)[5] = b
  BY KeysAreInts
<1>2. \A a \in Eligible(p, s) : ~Before(p, s, a, a)
  BY <1>1, LowerIrreflexive DEF Before
<1>3. \A a \in Eligible(p, s) : \A b \in Eligible(p, s) : \A c \in Eligible(p, s) :
         Before(p, s, a, b) /\ Before(p, s, b, c) => Before(p, s, a, c)
  BY <1>1, LowerTransitive DEF Before
<1>4. \A a \in Eligible(p, s) : \A b \in Eligible(p, s) :
         a # b => Before(p, s, a, b) \/ Before(p, s, b, a)
  BY <1>1, LowerTotal DEF Before
<1> QED
  BY <1>2, <1>3, <1>4

----------------------------------------------------------------------------
(* Frontiers *)

(* S, of the bodies X of slot s: what was left out is covered by a kept    *)
(* body ranked above it.                                                   *)
Covers(p, s, S, X) ==
    /\ S \subseteq X
    /\ \A b \in X \ S : \E w \in S :
          Before(p, s, w, b) /\ Caps(p, w, s[2]) \subseteq Caps(p, b, s[2])

(* No body of S makes another one superfluous. *)
Lean(p, s, S) ==
    \A b \in S : \A w \in S :
        Before(p, s, w, b) => ~(Caps(p, w, s[2]) \subseteq Caps(p, b, s[2]))

(* A covering set of lean bodies serves every compiler like all of them. *)
LEMMA FrontierDecides ==
    ASSUME NEW p \in Program, NEW s \in SlotSpace, NEW S,
           Covers(p, s, S, Eligible(p, s)), NEW C, NEW b
    PROVE  Serves(p, s, S, C, b) <=> Serves(p, s, Eligible(p, s), C, b)
<1> DEFINE X == Eligible(p, s)
<1>0. S \subseteq X
  BY DEF Covers
<1>1. ASSUME Serves(p, s, S, C, b) PROVE Serves(p, s, X, C, b)
  <2>1. SUFFICES ASSUME NEW a \in X \ {b}, Caps(p, a, s[2]) \subseteq C
                 PROVE  Before(p, s, b, a)
    BY <1>0, <1>1 DEF Serves
  <2>2. CASE a \in S
    BY <1>1, <2>1, <2>2 DEF Serves
  <2>3. CASE a \notin S
    <3>1. PICK w \in S : Before(p, s, w, a) /\ Caps(p, w, s[2]) \subseteq Caps(p, a, s[2])
      BY <2>1, <2>3 DEF Covers
    <3>2. Caps(p, w, s[2]) \subseteq C
      BY <2>1, <3>1
    <3>3. w = b \/ Before(p, s, b, w)
      BY <1>1, <3>2 DEF Serves
    <3>4. b \in X /\ w \in X /\ a \in X
      BY <1>0, <1>1, <2>1 DEF Serves
    <3> QED
      BY <3>1, <3>3, <3>4, Ranked
  <2> QED
    BY <2>2, <2>3
<1>2. ASSUME Serves(p, s, X, C, b) PROVE Serves(p, s, S, C, b)
  <2>1. b \in S
    <3>1. SUFFICES ASSUME b \notin S PROVE FALSE
      OBVIOUS
    <3>2. PICK w \in S : Before(p, s, w, b) /\ Caps(p, w, s[2]) \subseteq Caps(p, b, s[2])
      BY <1>2, <3>1 DEF Covers, Serves
    <3>3. Caps(p, w, s[2]) \subseteq C /\ w \in X /\ b \in X
      BY <1>0, <1>2, <3>2 DEF Serves
    <3>4. w = b \/ Before(p, s, b, w)
      BY <1>2, <3>3 DEF Serves
    <3> QED
      BY <3>2, <3>3, <3>4, Ranked
  <2> QED
    BY <1>0, <1>2, <2>1 DEF Serves
<1> QED
  BY <1>1, <1>2

(* Every body of a lean set is what some compiler gets. *)
LEMMA LeanBodiesWin ==
    ASSUME NEW p \in Program, NEW s \in SlotSpace, NEW S,
           S \subseteq Eligible(p, s), Lean(p, s, S), NEW b \in S
    PROVE  \E C \in SUBSET Capability : Serves(p, s, S, C, b)
<1> DEFINE C == Caps(p, b, s[2])
<1>1. C \in SUBSET Capability
  BY CapsAreCapabilities DEF Eligible, SlotSpace
<1>2. \A a \in S \ {b} : Caps(p, a, s[2]) \subseteq C => Before(p, s, b, a)
  <2>1. SUFFICES ASSUME NEW a \in S \ {b}, Caps(p, a, s[2]) \subseteq C
                 PROVE  Before(p, s, b, a)
    OBVIOUS
  <2>2. ~Before(p, s, a, b)
    BY <2>1 DEF Lean
  <2> QED
    BY <2>1, <2>2, Ranked
<1> QED
  BY <1>1, <1>2 DEF Serves

----------------------------------------------------------------------------
(* Inheritance chains *)

Bound == Cardinality(Extension)

(* The extension above x in a chain. *)
Above(p, x) == IF x = NoExtension THEN NoExtension ELSE p.parent[x]

(* A set of naturals that is not empty has a least element. *)
LEMMA LeastNatural ==
    ASSUME NEW T \in SUBSET Nat, T # {}
    PROVE  \E m \in T : \A n \in T : m <= n
<1> DEFINE R == OpToRel(<, Nat)
<1>1. \A a, b \in Nat : a < b => <<a, b>> \in R
  BY DEF OpToRel
<1>2. IsWellFoundedOn(R, Nat)
  BY NatLessThanWellFounded
<1> HIDE DEF R
<1>3. PICK m \in T : \A n \in T : ~ (<<n, m>> \in R)
  BY <1>2, WFMin
<1>4. \A n \in T : ~ (n < m)
  BY <1>1, <1>3
<1> QED BY <1>4

(* The number of extensions is a natural number. *)
LEMMA BoundIsNatural == Bound \in Nat
BY NumberedAssumption, FS_CardinalityType DEF Bound

(* f lists the chain of e as far as its n-th ancestor. *)
IsChain(p, e, f, n) ==
    f = [i \in 0..n |-> IF i = 0 THEN e
                        ELSE IF f[i - 1] = NoExtension THEN NoExtension
                        ELSE p.parent[f[i - 1]]]

(* Chains have any length: a shortest that does not exist would continue   *)
(* the one before it.                                                      *)
LEMMA ChainExists == \A p, e : \E f : IsChain(p, e, f, Bound)
<1> SUFFICES ASSUME NEW p, NEW e PROVE \E f : IsChain(p, e, f, Bound)
  OBVIOUS
<1> DEFINE T == {n \in Nat : ~ \E f : IsChain(p, e, f, n)}
<1>1. SUFFICES ASSUME T # {} PROVE FALSE
  BY BoundIsNatural
<1>2. PICK m \in T : \A n \in T : m <= n
  BY <1>1, LeastNatural
<1>3. m # 0
  <2>1. IsChain(p, e, [i \in 0..0 |-> e], 0)
    BY DEF IsChain
  <2> QED
    BY <2>1
<1>4. m \in Nat /\ m - 1 \in Nat /\ m - 1 \notin T
  BY <1>2, <1>3
<1>5. PICK f : IsChain(p, e, f, m - 1)
  BY <1>4
<1> DEFINE g == [i \in 0..m |-> IF i = m THEN Above(p, f[m - 1]) ELSE f[i]]
<1>6. \A i \in 0..(m - 1) : f[i] = IF i = 0 THEN e ELSE Above(p, f[i - 1])
  BY <1>5 DEF IsChain, Above
<1>7. \A i \in 0..m : g[i] = IF i = 0 THEN e ELSE Above(p, g[i - 1])
  <2> TAKE i \in 0..m
  <2>1. CASE i = m
    <3>1. g[m - 1] = f[m - 1]
      BY <1>4
    <3> QED
      BY <1>3, <1>4, <2>1, <3>1
  <2>2. CASE i # m
    <3>1. i \in 0..(m - 1) /\ g[i] = f[i] /\ (i # 0 => g[i - 1] = f[i - 1])
      BY <1>4, <2>2
    <3> QED
      BY <1>6, <3>1
  <2> QED
    BY <2>1, <2>2
<1>8. g = [i \in 0..m |-> g[i]]
  OBVIOUS
<1> HIDE DEF g
<1>9. IsChain(p, e, g, m)
  BY <1>7, <1>8 DEF IsChain, Above
<1> QED
  BY <1>2, <1>9

(* An ancestor is above the one before it. *)
LEMMA AncestorSteps ==
    ASSUME NEW p, NEW e
    PROVE  \A n \in 0..Bound :
              Ancestor(p, e)[n] = IF n = 0 THEN e ELSE Above(p, Ancestor(p, e)[n - 1])
<1>1. IsChain(p, e, Ancestor(p, e), Bound)
  <2>1. Ancestor(p, e) = CHOOSE f : IsChain(p, e, f, Bound)
    BY DEF Ancestor, IsChain, Bound
  <2> QED
    BY <2>1, ChainExists
<1> DEFINE up == Ancestor(p, e)
<1> HIDE DEF up
<1>2. up = [n \in 0..Bound |-> IF n = 0 THEN e ELSE Above(p, up[n - 1])]
  BY <1>1 DEF IsChain, Above, up
<1>3. \A n \in 0..Bound : up[n] = IF n = 0 THEN e ELSE Above(p, up[n - 1])
  BY <1>2
<1> QED
  BY <1>3 DEF up

(* The chain of an ancestor is the rest of the chain. *)
LEMMA ChainsContinue ==
    ASSUME NEW p, NEW e, NEW i \in 0..Bound, NEW h, Ancestor(p, e)[i] = h
    PROVE  \A j \in 0..(Bound - i) : Ancestor(p, e)[i + j] = Ancestor(p, h)[j]
<1> DEFINE T == {j \in 0..(Bound - i) : Ancestor(p, e)[i + j] # Ancestor(p, h)[j]}
<1>0. Bound \in Nat
  BY BoundIsNatural
<1>1. SUFFICES ASSUME T # {} PROVE FALSE
  OBVIOUS
<1>2. PICK m \in T : \A j \in T : m <= j
  <2>1. T \in SUBSET Nat
    BY <1>0
  <2> QED
    BY <1>1, <2>1, LeastNatural
<1>3. m \in 0..(Bound - i) /\ m \in 0..Bound /\ i + m \in 0..Bound
  BY <1>0, <1>2
<1>4. m # 0
  BY <1>0, <1>2, AncestorSteps
<1>5. m - 1 \in 0..(Bound - i) /\ m - 1 \notin T
  BY <1>0, <1>2, <1>3, <1>4
<1>6. Ancestor(p, e)[i + (m - 1)] = Ancestor(p, h)[m - 1]
  BY <1>5
<1>7. Ancestor(p, e)[i + m] = Above(p, Ancestor(p, e)[(i + m) - 1])
  BY <1>0, <1>3, <1>4, AncestorSteps
<1>8. (i + m) - 1 = i + (m - 1)
  BY <1>0, <1>3
<1>9. Ancestor(p, h)[m] = Above(p, Ancestor(p, h)[m - 1])
  BY <1>3, <1>4, AncestorSteps
<1> QED
  BY <1>2, <1>6, <1>7, <1>8, <1>9

(* Nothing is above the end of a chain. *)
LEMMA ChainsStayEnded ==
    ASSUME NEW p, NEW e, NEW k \in 0..Bound, Ancestor(p, e)[k] = NoExtension
    PROVE  \A n \in k..Bound : Ancestor(p, e)[n] = NoExtension
<1> DEFINE T == {n \in k..Bound : Ancestor(p, e)[n] # NoExtension}
<1>0. Bound \in Nat
  BY BoundIsNatural
<1>1. SUFFICES ASSUME T # {} PROVE FALSE
  OBVIOUS
<1>2. PICK m \in T : \A n \in T : m <= n
  <2>1. T \in SUBSET Nat
    BY <1>0
  <2> QED
    BY <1>1, <2>1, LeastNatural
<1>3. m # k /\ m \in 0..Bound /\ m # 0
  BY <1>0, <1>2
<1>4. m - 1 \in k..Bound /\ m - 1 \notin T
  BY <1>0, <1>2, <1>3
<1>5. Ancestor(p, e)[m - 1] = NoExtension
  BY <1>4
<1>6. Ancestor(p, e)[m] = NoExtension
  BY <1>3, <1>5, AncestorSteps DEF Above
<1> QED
  BY <1>2, <1>6

(* An extension inherits whatever its ancestors do. *)
LEMMA ChainsCompose ==
    ASSUME NEW p, NEW v, Ancestor(p, v)[Bound] = NoExtension,
           NEW h, InChain(p, v, h), NEW x, InChain(p, h, x)
    PROVE  InChain(p, v, x)
<1>0. Bound \in Nat
  BY BoundIsNatural
<1>1. PICK i \in 0..Bound : Ancestor(p, v)[i] = h
  BY DEF InChain, Bound
<1>2. PICK j \in 0..Bound : Ancestor(p, h)[j] = x
  BY DEF InChain, Bound
<1>3. CASE j \in 0..(Bound - i)
  <2>1. i + j \in 0..Bound /\ Ancestor(p, v)[i + j] = x
    BY <1>0, <1>1, <1>2, <1>3, ChainsContinue
  <2> QED
    BY <2>1 DEF InChain, Bound
<1>4. CASE j \notin 0..(Bound - i)
  <2>1. /\ Bound - i \in 0..(Bound - i) /\ Bound - i \in 0..Bound
        /\ i + (Bound - i) = Bound /\ j \in (Bound - i)..Bound
    BY <1>0, <1>1, <1>2, <1>4
  <2>2. Ancestor(p, h)[Bound - i] = NoExtension
    BY <1>1, <2>1, ChainsContinue
  <2>3. x = NoExtension
    BY <1>2, <2>1, <2>2, ChainsStayEnded
  <2>4. Bound \in 0..Bound
    BY <1>0
  <2> QED
    BY <2>3, <2>4 DEF InChain, Bound
<1> QED
  BY <1>3, <1>4

----------------------------------------------------------------------------
(* The inductive invariant *)

Considered == Eligible(program, slot) \ field

(* The loop over the ranked bodies of a slot has kept a frontier of those  *)
(* it considered, and considered the better ones first.                    *)
LoopInv ==
    slot # NoSlot =>
        /\ field \subseteq Eligible(program, slot)
        /\ compiler = Automatic =>
              /\ Covers(program, slot, winners, Considered)
              /\ Lean(program, slot, winners)
              /\ \A a \in Considered : \A b \in field : Before(program, slot, a, b)

(* What was selected is lean, and for an unknown compiler a frontier of    *)
(* the usable bodies, or empty when all of these are gated.                *)
ChosenInv ==
    \A s \in DOMAIN chosen :
        /\ chosen[s] \subseteq Eligible(program, s)
        /\ Lean(program, s, chosen[s])
        /\ compiler = Automatic =>
              IF chosen[s] = {}
              THEN \A b \in Eligible(program, s) : Caps(program, b, s[2]) # {}
              ELSE /\ Covers(program, s, chosen[s], Eligible(program, s))
                   /\ \E w \in chosen[s] : Caps(program, w, s[2]) = {}

(* No slot is passed over, except those after the one that a free function *)
(* was declared for.                                                       *)
SlotsInv == ~program.free => Slots \subseteq waiting \cup {slot} \cup DOMAIN chosen

IInv == ProgramType /\ LoopInv /\ ChosenInv /\ SlotsInv

(* A slot is an extension and a type. *)
LEMMA SlotsAreSlots == program \in Program => Slots \subseteq SlotSpace
<1> SUFFICES ASSUME program \in Program PROVE Slots \subseteq SlotSpace
  OBVIOUS
<1>1. Emitted \subseteq Extension /\ Owners \subseteq Extension
  BY ProgramAssumption DEF Emitted, Owners
<1>2. Grouped \subseteq TypeTag
  BY ProgramAssumption DEF Grouped
<1> QED
  BY <1>1, <1>2 DEF Slots, SlotSpace

(* The slots of a primitive stay the same. *)
LEMMA SlotsDependOnProgram == program' = program => Slots' = Slots
BY DEF Slots, Owners, Grouped, Emitted, Hidden

(* Selection starts with no slot considered and none chosen. *)
LEMMA InitInvariant == Init => IInv
<1> SUFFICES ASSUME Init PROVE IInv
  OBVIOUS
<1>1. Slots \subseteq SlotSpace
  BY SlotsAreSlots DEF Init
<1>2. DOMAIN chosen = {}
  BY DEF Init
<1>3. ProgramType
  BY <1>1, <1>2 DEF Init, ProgramType
<1>4. SlotsInv
  BY DEF Init, SlotsInv
<1> QED
  BY <1>2, <1>3, <1>4 DEF Init, IInv, LoopInv, ChosenInv

(* Entering a slot starts its loop with every candidate still to rank. *)
LEMMA EnterSlotInvariant == IInv /\ EnterSlot => IInv'
<1> SUFFICES ASSUME IInv, EnterSlot PROVE IInv'
  OBVIOUS
<1>1. PICK s \in waiting : /\ waiting' = waiting \ {s} /\ slot' = s
                           /\ field' = Candidates(s)
  BY DEF EnterSlot
<1>2. /\ program' = program /\ compiler' = compiler /\ chosen' = chosen
      /\ winners' = {}
  BY DEF EnterSlot
<1>3. ProgramType'
  BY <1>1, <1>2 DEF IInv, ProgramType
<1>4. /\ Candidates(s) \subseteq Eligible(program, s)
      /\ compiler = Automatic => Candidates(s) = Eligible(program, s)
  BY DEF Candidates
<1>5. LoopInv'
  BY <1>1, <1>2, <1>4 DEF LoopInv, Considered, Covers, Lean
<1>6. ChosenInv'
  BY <1>2 DEF IInv, ChosenInv
<1>7. SlotsInv'
  <2>1. Slots' = Slots
    BY <1>2, SlotsDependOnProgram
  <2>2. NoSlot \notin Slots
    BY NoSlotAssumption, SlotsAreSlots DEF IInv, ProgramType, SlotSpace
  <2>3. slot = NoSlot
    BY DEF EnterSlot
  <2> QED
    BY <1>1, <1>2, <2>1, <2>2, <2>3 DEF IInv, SlotsInv
<1> QED
  BY <1>3, <1>5, <1>6, <1>7 DEF IInv

(* Ranking one more body keeps the frontier. *)
LEMMA ConsiderInvariant == IInv /\ Consider => IInv'
<1> SUFFICES ASSUME IInv, Consider PROVE IInv'
  OBVIOUS
<1>1. PICK b \in field : /\ Best(b) /\ field' = field \ {b}
                         /\ winners' = IF Covered(b) THEN winners ELSE winners \cup {b}
  BY DEF Consider
<1>2. /\ program' = program /\ compiler' = compiler /\ chosen' = chosen
      /\ slot' = slot /\ waiting' = waiting
      /\ slot # NoSlot /\ compiler = Automatic
  BY DEF Consider
<1> DEFINE X == Eligible(program, slot)
<1>3. ProgramType' /\ program \in Program /\ slot \in SlotSpace
  BY <1>2 DEF IInv, ProgramType
<1>4. /\ field \subseteq X /\ winners \subseteq Considered
      /\ Covers(program, slot, winners, Considered)
      /\ Lean(program, slot, winners)
      /\ \A a \in Considered : \A c \in field : Before(program, slot, a, c)
  BY <1>2 DEF IInv, LoopInv, Covers
<1>5. Considered \subseteq X /\ Considered' = Considered \cup {b} /\ b \notin Considered
  BY <1>1, <1>2, <1>4 DEF Considered
<1>6. \A a \in Considered' : \A c \in field' : Before(program, slot, a, c)
  BY <1>1, <1>4, <1>5 DEF Best
<1>7. \A w \in winners : Before(program, slot, w, b)
  BY <1>4
<1>8. Covers(program, slot, winners', Considered') /\ Lean(program, slot, winners')
  <2>1. CASE Covered(b)
    <3>1. winners' = winners
      BY <1>1, <2>1
    <3>2. \E w \in winners : /\ Before(program, slot, w, b)
                             /\ Caps(program, w, slot[2]) \subseteq Caps(program, b, slot[2])
      BY <1>7, <2>1 DEF Covered
    <3> QED
      BY <1>4, <1>5, <3>1, <3>2 DEF Covers
  <2>2. CASE ~Covered(b)
    <3>1. winners' = winners \cup {b}
      BY <1>1, <2>2
    <3>2. \A w \in winners : ~(Caps(program, w, slot[2]) \subseteq Caps(program, b, slot[2]))
      BY <2>2 DEF Covered
    <3>3. \A w \in winners : ~Before(program, slot, b, w)
      BY <1>3, <1>4, <1>5, <1>7, Ranked
    <3>4. ~Before(program, slot, b, b)
      BY <1>1, <1>3, <1>4, Ranked
    <3>5. Lean(program, slot, winners')
      BY <1>4, <3>1, <3>2, <3>3, <3>4 DEF Lean
    <3>6. Covers(program, slot, winners', Considered')
      BY <1>4, <1>5, <3>1 DEF Covers
    <3> QED
      BY <3>5, <3>6
  <2> QED
    BY <2>1, <2>2
<1>9. LoopInv'
  BY <1>1, <1>2, <1>4, <1>6, <1>8 DEF LoopInv
<1>10. ChosenInv'
  BY <1>2 DEF IInv, ChosenInv
<1>11. SlotsInv'
  BY <1>2, SlotsDependOnProgram DEF IInv, SlotsInv
<1> QED
  BY <1>3, <1>9, <1>10, <1>11 DEF IInv

(* What is selected for the slot extends what was chosen. *)
LEMMA SelectInvariant ==
    ASSUME IInv, slot # NoSlot, NEW kept, Select(kept),
           kept \subseteq Eligible(program, slot), Lean(program, slot, kept),
           compiler = Automatic =>
              IF kept = {}
              THEN \A b \in Eligible(program, slot) : Caps(program, b, slot[2]) # {}
              ELSE /\ Covers(program, slot, kept, Eligible(program, slot))
                   /\ \E w \in kept : Caps(program, w, slot[2]) = {}
    PROVE  IInv'
<1>1. /\ program' = program /\ compiler' = compiler /\ slot' = NoSlot
      /\ waiting' \subseteq waiting
      /\ DOMAIN chosen' = DOMAIN chosen \cup {slot}
  BY DEF Select
<1>2. \A s \in DOMAIN chosen' : chosen'[s] = IF s = slot THEN kept ELSE chosen[s]
  BY DEF Select
<1>3. ProgramType'
  BY <1>1 DEF IInv, ProgramType
<1>4. LoopInv'
  BY <1>1 DEF LoopInv
<1>5. ChosenInv'
  BY <1>1, <1>2 DEF IInv, ChosenInv
<1>6. SlotsInv'
  <2>1. ~program.free => waiting' = waiting
    BY DEF Select
  <2> QED
    BY <1>1, <2>1, SlotsDependOnProgram DEF IInv, SlotsInv
<1> QED
  BY <1>3, <1>4, <1>5, <1>6 DEF IInv

(* Closing a slot chooses the frontier of all its usable bodies. *)
LEMMA CloseSlotInvariant == IInv /\ CloseSlot => IInv'
<1> SUFFICES ASSUME IInv, CloseSlot PROVE IInv'
  OBVIOUS
<1> DEFINE X == Eligible(program, slot)
<1>1. /\ slot # NoSlot /\ compiler = Automatic /\ field = {} /\ Select(Guaranteed)
  BY DEF CloseSlot
<1>2. Considered = X
  BY <1>1 DEF Considered
<1>3. Covers(program, slot, winners, X) /\ Lean(program, slot, winners)
  BY <1>1, <1>2 DEF IInv, LoopInv
<1>4. CASE \E w \in winners : Caps(program, w, slot[2]) = {}
  <2>1. Guaranteed = winners /\ winners # {} /\ winners \subseteq X
    BY <1>3, <1>4 DEF Guaranteed, Covers
  <2> QED
    BY <1>1, <1>3, <1>4, <2>1, SelectInvariant
<1>5. CASE ~\E w \in winners : Caps(program, w, slot[2]) = {}
  <2>1. Guaranteed = {}
    BY <1>5 DEF Guaranteed
  <2>2. \A b \in X : Caps(program, b, slot[2]) # {}
    <3> SUFFICES ASSUME NEW b \in X, Caps(program, b, slot[2]) = {} PROVE FALSE
      OBVIOUS
    <3>1. \E w \in winners : Caps(program, w, slot[2]) \subseteq {}
      BY <1>3, <1>5 DEF Covers
    <3> QED
      BY <1>5, <3>1
  <2>3. Lean(program, slot, {}) /\ {} \subseteq X
    BY DEF Lean
  <2> QED
    BY <1>1, <2>1, <2>2, <2>3, SelectInvariant
<1> QED
  BY <1>4, <1>5

(* Selection for a known compiler takes one body or none. *)
LEMMA TakeBestInvariant == IInv /\ TakeBest => IInv'
<1> SUFFICES ASSUME IInv, TakeBest PROVE IInv'
  OBVIOUS
<1>1. /\ slot # NoSlot /\ compiler # Automatic
      /\ program \in Program /\ slot \in SlotSpace
      /\ field \subseteq Eligible(program, slot)
  BY DEF TakeBest, IInv, ProgramType, LoopInv
<1>2. CASE Select({})
  <2>1. Lean(program, slot, {})
    BY DEF Lean
  <2> QED
    BY <1>1, <1>2, <2>1, SelectInvariant
<1>3. ASSUME NEW b \in field, Select({b}) PROVE IInv'
  <2>1. Lean(program, slot, {b})
    BY <1>1, Ranked DEF Lean
  <2> QED
    BY <1>1, <1>3, <2>1, SelectInvariant
<1> QED
  BY <1>2, <1>3 DEF TakeBest

(* Every step of selection keeps the invariant. *)
LEMMA NextInvariant == IInv /\ [Next]_vars => IInv'
<1> SUFFICES ASSUME IInv, [Next]_vars PROVE IInv'
  OBVIOUS
<1>1. CASE UNCHANGED vars
  BY <1>1, SlotsDependOnProgram DEF vars, IInv, ProgramType, LoopInv, ChosenInv, Considered,
     SlotsInv
<1> QED
  BY <1>1, EnterSlotInvariant, ConsiderInvariant, CloseSlotInvariant,
     TakeBestInvariant DEF Next

(* The inductive invariant holds throughout. *)
LEMMA Invariant == Spec => []IInv
BY InitInvariant, NextInvariant, PTL DEF Spec

----------------------------------------------------------------------------
(* Results *)

(* An automatic package has a slot when every compiler has a usable body   *)
(* for it and decides like selection told what the compiler can do, for    *)
(* any bodies and capabilities (candidates.py:366).                        *)
THEOREM AutomaticAgrees == Spec => []AutomaticAgreesWithExplicit
<1>1. IInv => AutomaticAgreesWithExplicit
  <2> SUFFICES ASSUME IInv, compiler = Automatic, NEW s \in DOMAIN chosen
               PROVE  /\ chosen[s] = {} <=>
                           \E C \in SUBSET Capability :
                              \A b \in Eligible(program, s) :
                                  ~(Caps(program, b, s[2]) \subseteq C)
                      /\ chosen[s] # {} =>
                           \A C \in SUBSET Capability : \A b \in Body :
                              Serves(program, s, chosen[s], C, b)
                                 <=> Serves(program, s, Eligible(program, s), C, b)
    BY DEF AutomaticAgreesWithExplicit
  <2>1. program \in Program /\ s \in SlotSpace
    BY DEF IInv, ProgramType
  <2>2. CASE chosen[s] = {}
    <3>1. \A b \in Eligible(program, s) : Caps(program, b, s[2]) # {}
      BY <2>2 DEF IInv, ChosenInv
    <3>2. \A b \in Eligible(program, s) : ~(Caps(program, b, s[2]) \subseteq {})
      BY <3>1
    <3> QED
      BY <2>2, <3>2
  <2>3. CASE chosen[s] # {}
    <3>1. Covers(program, s, chosen[s], Eligible(program, s))
      BY <2>3 DEF IInv, ChosenInv
    <3>2. PICK w \in Eligible(program, s) : Caps(program, w, s[2]) = {}
      BY <2>3, <3>1 DEF IInv, ChosenInv, Covers
    <3>3. \A C \in SUBSET Capability : Caps(program, w, s[2]) \subseteq C
      BY <3>2
    <3>4. \A C : \A b : Serves(program, s, chosen[s], C, b)
                          <=> Serves(program, s, Eligible(program, s), C, b)
      BY <2>1, <3>1, FrontierDecides
    <3> QED
      BY <2>3, <3>3, <3>4
  <2> QED
    BY <2>2, <2>3
<1> QED
  BY <1>1, Invariant, PTL

(* No alternative of a package is dead, for any bodies and capabilities    *)
(* (candidates.py:366).                                                    *)
THEOREM AlternativesWin == Spec => []EveryAlternativeWins
<1>1. IInv => EveryAlternativeWins
  <2> SUFFICES ASSUME IInv, NEW s \in DOMAIN chosen, NEW b \in chosen[s]
               PROVE  \E C \in SUBSET Capability : Serves(program, s, chosen[s], C, b)
    BY DEF EveryAlternativeWins
  <2>1. program \in Program /\ s \in SlotSpace
    BY DEF IInv, ProgramType
  <2>2. chosen[s] \subseteq Eligible(program, s) /\ Lean(program, s, chosen[s])
    BY DEF IInv, ChosenInv
  <2> QED
    BY <2>1, <2>2, LeanBodiesWin
<1> QED
  BY <1>1, Invariant, PTL

(* An active variant that hides an extension has, for any catalog whose    *)
(* variants inherit from what they hide, a slot for each type it offers    *)
(* that every compiler could use on the hidden one (selector.py:462-468).  *)
THEOREM HiddenKeepSlots == Spec => []HiddenExtensionsKeepTheirSlots
<1>1. IInv => HiddenExtensionsKeepTheirSlots
  <2> SUFFICES ASSUME IInv, Finished, compiler = Automatic, ~program.free,
                      NEW v \in program.active \cap program.supported,
                      NEW h \in program.supersedes[v],
                      NEW t \in program.types \cap program.offers[v],
                      NEW b \in Eligible(program, <<h, t>>), Caps(program, b, t) = {}
               PROVE  \E s \in DOMAIN chosen :
                         /\ s[1] \in Emitted /\ InChain(program, s[1], h)
                         /\ s[2] = t /\ chosen[s] # {}
    BY DEF HiddenExtensionsKeepTheirSlots
  <2> DEFINE s == <<v, t>>
  <2>1. program \in Program /\ v \in program.active
    BY DEF IInv, ProgramType
  <2>2. Ancestor(program, v)[Bound] = NoExtension /\ InChain(program, v, h)
    BY <2>1, InheritanceAssumption DEF InChain, Bound
  <2>3. v \in Emitted
    <3>1. \A w \in program.active : v \notin program.supersedes[w]
      BY <2>1, InheritanceAssumption
    <3> QED
      BY <3>1 DEF Emitted, Hidden
  <2>4. b \in Eligible(program, s)
    <3>1. /\ b \in Body /\ InChain(program, h, program.body[b].extension)
          /\ t \in program.body[b].types /\ Applies(program, b, t)
          /\ Flags(program, b, t) \subseteq program.features
      BY DEF Eligible
    <3>2. InChain(program, v, program.body[b].extension)
      BY <2>2, <3>1, ChainsCompose
    <3> QED
      BY <3>1, <3>2 DEF Eligible
  <2>5. s \in Slots
    <3>1. t \in Grouped
      BY <2>4 DEF Grouped, Eligible
    <3> QED
      BY <2>3, <3>1 DEF Slots
  <2>6. s \in DOMAIN chosen
    <3>1. s # NoSlot
      BY <2>1, <2>5, SlotsAreSlots, NoSlotAssumption DEF SlotSpace
    <3> QED
      BY <2>5, <3>1 DEF IInv, SlotsInv, Finished
  <2>7. chosen[s] # {}
    BY <2>4, <2>6 DEF IInv, ChosenInv
  <2> QED
    BY <2>2, <2>3, <2>6, <2>7
<1> QED
  BY <1>1, Invariant, PTL
=============================================================================
