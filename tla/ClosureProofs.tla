--------------------------- MODULE ClosureProofs ---------------------------
(***************************************************************************)
(* Proofs about the three passes of the dependency closure, for every      *)
(* finite slot list.  Pruning: the inductive invariant ties the            *)
(* incremental counts to the live slots in each phase of a round, and says *)
(* what the frontier leaves out; with it, the closure delivered is closed, *)
(* the largest one, and the abstract LiveClosure is implemented.  Then the *)
(* worklist of call facts, and emission.                                   *)
(***************************************************************************)
EXTENDS DependencyPruning, CallFacts, BranchEmission,
        FiniteSetTheorems, WellFoundedInduction, TLAPS

USE CallGraphAssumption

(* The slots the counts still include: those live, and in the middle of a  *)
(* round those it has removed but not retired.                             *)
Counted == IF phase \in {"cascade", "retire"} THEN Live \cup removed ELSE Live

CountsInv ==
    \A k \in SlotKey : available[k] = Cardinality(Providers(program, Counted, k))

(* What every live slot is known to have, phase by phase. *)
FrontierInv ==
    /\ phase = "scan" =>
        \A s \in Live : /\ s \notin candidates => CallsResolve(program, Live, s)
                        /\ Backed(program, Live, s)
    /\ phase \in {"cascade", "retire"} =>
        \A s \in Live : CallsResolve(program, Counted, s)
    /\ phase = "cascade" => \A s \in Live : Backed(program, Counted, s)
    /\ phase = "retire" => \A s \in Live : Backed(program, Live, s)
    /\ phase = "done" => Closed(program, Live)

IInv ==
    /\ TypeOK
    /\ removed \subseteq invalid
    /\ CountsInv
    /\ FrontierInv
    /\ PrunesNoClosedSet
----------------------------------------------------------------------------
(* The providers of an identity are finitely many, and none exactly when   *)
(* their count is zero.                                                    *)
LEMMA ProvidersCount ==
    ASSUME NEW p \in LoweredProgram, NEW S \in SUBSET Slot, NEW k \in SlotKey
    PROVE  /\ IsFiniteSet(Providers(p, S, k))
           /\ Cardinality(Providers(p, S, k)) \in Nat
           /\ Cardinality(Providers(p, S, k)) = 0 <=> Providers(p, S, k) = {}
<1>1. Providers(p, S, k) \in SUBSET Slot
  BY DEF Providers
<1>2. IsFiniteSet(Providers(p, S, k))
  BY <1>1, FS_Subset
<1> QED BY <1>2, FS_CardinalityType, FS_EmptySet

(* Taking slots out of a list takes their number out of every count. *)
LEMMA RetiredCount ==
    ASSUME NEW p \in LoweredProgram, NEW S \in SUBSET Slot,
           NEW R \in SUBSET S, NEW k \in SlotKey
    PROVE  Cardinality(Providers(p, S \ R, k)) =
             Cardinality(Providers(p, S, k)) - Cardinality(Providers(p, R, k))
<1>1. Providers(p, S \ R, k) = Providers(p, S, k) \ Providers(p, R, k)
  BY DEF Providers
<1>2. Providers(p, S, k) \cap Providers(p, R, k) = Providers(p, R, k)
  BY DEF Providers
<1>3. IsFiniteSet(Providers(p, S, k))
  BY ProvidersCount
<1>4. Cardinality(Providers(p, S, k) \ Providers(p, R, k)) =
        Cardinality(Providers(p, S, k))
          - Cardinality(Providers(p, S, k) \cap Providers(p, R, k))
  BY <1>3, FS_Difference
<1> QED BY <1>1, <1>2, <1>4

(* A set of naturals that is not empty has a least element. *)
LEMMA LeastNatural ==
    ASSUME NEW T \in SUBSET Nat, T # {}
    PROVE  \E m \in T : \A n \in T : m <= n
<1> DEFINE R == OpToRel(<, Nat)
<1>1. \A a, b \in Nat : a < b => <<a, b>> \in R
  BY DEF OpToRel
<1>2. IsWellFoundedOn(R, Nat)
  BY NatLessThanWellFounded
<1> HIDE DEF R
<1>3. PICK m \in T : \A n \in T : ~ (<<n, m>> \in R)
  BY <1>2, WFMin
<1>4. \A n \in T : ~ (n < m)
  BY <1>1, <1>3
<1> QED BY <1>4

(* A finite set of naturals that is not empty has a greatest element.      *)
LEMMA GreatestNatural ==
    ASSUME NEW T \in SUBSET Nat, T # {}, IsFiniteSet(T)
    PROVE  \E m \in T : \A n \in T : n <= m
<1> DEFINE above(x) == {n \in T : x < n}
           size(x) == Cardinality(above(x))
           Sizes == {size(x) : x \in T}
<1>1. \A x \in T : IsFiniteSet(above(x)) /\ size(x) \in Nat
  BY FS_Subset, FS_CardinalityType
<1>2. ASSUME NEW m \in T, NEW n \in T, m < n PROVE size(n) < size(m)
  <2>1. m \in Nat /\ n \in Nat /\ T \subseteq Nat
    OBVIOUS
  <2>2. above(n) \subseteq above(m)
    <3>1. \A x \in T : n < x => m < x
      BY <1>2, <2>1
    <3> QED BY <3>1
  <2>3. n \in above(m)
    BY <1>2
  <2>4. n \notin above(n)
    BY <2>1
  <2> HIDE DEF above
  <2>5. size(n) <= size(m) /\ size(n) # size(m)
    BY <1>1, <2>2, <2>3, <2>4, FS_Subset
  <2> QED BY <1>1, <2>5
<1> HIDE DEF size
<1>3. Sizes \in SUBSET Nat /\ Sizes # {}
  BY <1>1
<1>4. PICK k \in Sizes : \A l \in Sizes : k <= l
  BY <1>3, LeastNatural
<1>5. PICK m \in T : k = size(m)
  OBVIOUS
<1>6. \A n \in T : ~ (m < n)
  <2> SUFFICES ASSUME NEW n \in T, m < n PROVE FALSE
    OBVIOUS
  <2>1. size(n) < size(m) /\ size(m) <= size(n)
    BY <1>2, <1>4, <1>5
  <2>2. size(n) \in Nat /\ size(m) \in Nat
    BY <1>1
  <2> QED BY <2>1, <2>2
<1>7. \A n \in T : n \in Nat /\ m \in Nat
  OBVIOUS
<1> QED BY <1>6, <1>7

(* What a larger set of slots provides, calls may still count on. *)
LEMMA ClosedIsMonotone ==
    ASSUME NEW p \in LoweredProgram, NEW S \in SUBSET Slot, NEW T \in SUBSET S,
           NEW s \in Slot
    PROVE  /\ CallsResolve(p, T, s) => CallsResolve(p, S, s)
           /\ Backed(p, T, s) => Backed(p, S, s)
BY DEF CallsResolve, Backed, Providers

(* An orphan's group has a fallback, and the pruner finds that one. *)
LEMMA OrphanFallback ==
    ASSUME NEW s \in Orphans
    PROVE  /\ s \in Live
           /\ FallbackOf(s) \in Fallbacks(program, s)
           /\ FallbackOf(s) \in invalid
           /\ FallbackOf(s) \in Slot
           /\ s \in Ranked(program)
<1>1. \E f \in Fallbacks(program, s) : TRUE
  BY DEF Orphans
<1> QED BY <1>1 DEF Orphans, FallbackOf, Fallbacks, Group, Ranked
----------------------------------------------------------------------------
(* The initial states satisfy the invariant: everything is live, counted   *)
(* and in the frontier, and every fallback is still there.                 *)
LEMMA InitInvariant == Init => IInv
<1> SUFFICES ASSUME Init PROVE IInv
  OBVIOUS
<1>1. program \in LoweredProgram /\ Live = Slot /\ Counted = Slot
  BY DEF Init, Live, Counted
<1>2. TypeOK
  <2>1. available \in [SlotKey -> Nat]
    BY <1>1, ProvidersCount DEF Init
  <2> QED BY <1>1, <2>1 DEF Init, TypeOK
<1>3. CountsInv
  BY <1>1 DEF Init, CountsInv
<1>4. FrontierInv
  BY <1>1 DEF Init, FrontierInv, Backed, Fallbacks, Group, Ranked
<1>5. PrunesNoClosedSet
  BY DEF Init, PrunesNoClosedSet
<1> QED BY <1>2, <1>3, <1>4, <1>5 DEF Init, IInv

(* A pass over the candidates removes only slots with a call that nothing  *)
(* live provides, and leaves none of those behind.                         *)
LEMMA ScanInvariant == IInv /\ Scan => IInv'
<1> SUFFICES ASSUME IInv, Scan PROVE IInv'
  OBVIOUS
<1> DEFINE dangling == {s \in candidates \ invalid : Missing(s) # {}}
<1>1. /\ program \in LoweredProgram /\ candidates \subseteq Slot
      /\ invalid \subseteq Slot /\ available \in [SlotKey -> Nat]
      /\ blame \in [Slot -> SlotKey \cup {Unresolved}]
      /\ phase = "scan"
  BY DEF IInv, TypeOK, Scan
<1>2. /\ removed' = dangling /\ invalid' = invalid \cup dangling
      /\ phase' = "cascade" /\ program' = program
      /\ candidates' = candidates /\ available' = available
      /\ blame' = [s \in Slot |-> IF s \in dangling THEN FirstMissing(s)
                                                    ELSE blame[s]]
  BY DEF Scan
<1>3. Live \subseteq Slot /\ dangling \subseteq Live /\ Live' = Live \ dangling
  BY <1>1, <1>2 DEF Live
<1>4. Counted = Live /\ Counted' = Live
  BY <1>1, <1>2, <1>3 DEF Counted
<1>5. \A s \in Slot : Missing(s) \subseteq SlotKey
  BY <1>1 DEF Missing, LoweredProgram
<1>6. \A s \in Slot : \A k \in Missing(s) : Providers(program, Live, k) = {}
  <2> SUFFICES ASSUME NEW s \in Slot, NEW k \in Missing(s)
               PROVE  Providers(program, Live, k) = {}
    OBVIOUS
  <2>1. k \in SlotKey /\ available[k] = 0
    BY <1>5 DEF Missing
  <2>2. Cardinality(Providers(program, Live, k)) = 0
    BY <2>1, <1>4 DEF IInv, CountsInv
  <2> QED BY <2>1, <2>2, <1>1, <1>3, ProvidersCount
<1>7. TypeOK'
  <2>1. \A s \in dangling : FirstMissing(s) \in SlotKey
    <3> SUFFICES ASSUME NEW s \in dangling PROVE FirstMissing(s) \in SlotKey
      OBVIOUS
    <3>1. Missing(s) # {} /\ Missing(s) \in SUBSET Nat
      BY <1>5, <1>1
    <3>2. \E k \in Missing(s) : \A l \in Missing(s) : k <= l
      BY <3>1, LeastNatural
    <3>3. FirstMissing(s) \in Missing(s)
      BY <3>2 DEF FirstMissing
    <3> QED BY <3>3, <1>5, <1>1
  <2>2. blame' \in [Slot -> SlotKey \cup {Unresolved}]
    BY <1>1, <1>2, <2>1
  <2> QED BY <1>1, <1>2, <1>3, <2>2 DEF TypeOK, Live
<1>8. CountsInv'
  BY <1>2, <1>4 DEF IInv, CountsInv
<1>9. FrontierInv'
  <2>1. ASSUME NEW s \in Live' PROVE CallsResolve(program, Live, s)
    <3>1. CASE s \notin candidates
      BY <3>1, <1>1, <1>3 DEF IInv, FrontierInv
    <3>2. CASE s \in candidates
      <4>1. Missing(s) = {}
        BY <3>2, <1>3 DEF Live
      <4>2. \A k \in program.callees[s] : k \in SlotKey /\ available[k] # 0
        BY <4>1, <1>1, <1>3 DEF Missing, LoweredProgram
      <4>3. \A k \in program.callees[s] :
                Cardinality(Providers(program, Live, k)) # 0
        BY <4>2, <1>4 DEF IInv, CountsInv
      <4> QED BY <4>2, <4>3, <1>1, <1>3, FS_EmptySet DEF CallsResolve
    <3> QED BY <3>1, <3>2
  <2>2. \A s \in Live' : Backed(program, Live, s)
    BY <1>1, <1>3 DEF IInv, FrontierInv
  <2> QED BY <2>1, <2>2, <1>2, <1>4 DEF FrontierInv
<1>10. PrunesNoClosedSet'
  <2> SUFFICES ASSUME NEW S \in SUBSET Slot, Closed(program, S)
               PROVE  S \cap invalid' = {}
    BY <1>2 DEF PrunesNoClosedSet
  <2>1. S \cap invalid = {} /\ S \subseteq Live
    BY DEF IInv, PrunesNoClosedSet, Live
  <2>2. ASSUME NEW s \in S \cap dangling PROVE FALSE
    <3>1. PICK k \in Missing(s) : TRUE
      OBVIOUS
    <3>2. k \in program.callees[s] /\ Providers(program, Live, k) = {}
      BY <1>6, <1>1 DEF Missing
    <3>3. Providers(program, S, k) # {}
      BY <3>2 DEF Closed, CallsResolve
    <3> QED BY <3>2, <3>3, <2>1 DEF Providers
  <2> QED BY <2>1, <2>2, <1>2
<1> QED BY <1>2, <1>7, <1>8, <1>9, <1>10 DEF IInv

(* Losing its fallback is the only way a group member is cascaded, and no  *)
(* gated body stays behind one that is gone.                               *)
LEMMA CascadeInvariant == IInv /\ Cascade => IInv'
<1> SUFFICES ASSUME IInv, Cascade PROVE IInv'
  OBVIOUS
<1>1. /\ program \in LoweredProgram /\ candidates \subseteq Slot
      /\ invalid \subseteq Slot /\ removed \subseteq invalid
      /\ available \in [SlotKey -> Nat]
      /\ blame \in [Slot -> SlotKey \cup {Unresolved}]
      /\ phase = "cascade"
  BY DEF IInv, TypeOK, Cascade
<1>2. /\ removed' = removed \cup Orphans /\ invalid' = invalid \cup Orphans
      /\ phase' = "retire" /\ program' = program
      /\ candidates' = candidates /\ available' = available
      /\ blame' = [s \in Slot |-> IF s \in Orphans THEN blame[FallbackOf(s)]
                                                    ELSE blame[s]]
  BY DEF Cascade
<1>3. /\ Live \subseteq Slot /\ Orphans \subseteq Live
      /\ Live' = Live \ Orphans
  BY <1>1, <1>2 DEF Live, Orphans
<1>4. Counted = Live \cup removed /\ Counted' = Counted
  BY <1>1, <1>2, <1>3 DEF Counted
<1>5. TypeOK'
  <2>1. blame' \in [Slot -> SlotKey \cup {Unresolved}]
    BY <1>1, <1>2, OrphanFallback
  <2> QED BY <1>1, <1>2, <1>3, <2>1 DEF TypeOK
<1>6. removed' \subseteq invalid'
  BY <1>1, <1>2
<1>7. CountsInv'
  BY <1>2, <1>4 DEF IInv, CountsInv
<1>8. FrontierInv'
  <2>1. \A s \in Live' : CallsResolve(program, Counted, s)
    BY <1>1, <1>3 DEF IInv, FrontierInv
  <2>2. ASSUME NEW s \in Live' PROVE Backed(program, Live', s)
    <3> SUFFICES ASSUME s \in Ranked(program), NEW f \in Fallbacks(program, s)
                 PROVE  f \in Live'
      BY DEF Backed
    <3>1. s \in Live /\ s \notin Orphans /\ s \in Slot
      BY <1>3
    <3>2. FallbackOf(s) \in Fallbacks(program, s)
      BY DEF FallbackOf
    <3>3. f \in Slot /\ FallbackOf(s) \in Slot
      BY <3>2 DEF Fallbacks, Group, Ranked
    <3>4. f = FallbackOf(s)
      <4> DEFINE g == FallbackOf(s)
      <4>1. g \in Fallbacks(program, s) /\ f \in Nat /\ g \in Nat
        BY <3>2, <3>3
      <4> HIDE DEF g
      <4>2. f <= g /\ g <= f
        BY <4>1 DEF Fallbacks
      <4>3. f = g
        BY <4>1, <4>2
      <4> QED BY <4>3 DEF g
    <3>5. f \notin invalid
      BY <3>1, <3>4 DEF Orphans
    <3>6. Fallbacks(program, f) = Fallbacks(program, s)
      BY DEF Fallbacks, Group
    <3>7. f \notin Orphans
      <4>1. FallbackOf(f) = f
        BY <3>4, <3>6 DEF FallbackOf
      <4> QED BY <4>1, <3>5 DEF Orphans
    <3> QED BY <3>3, <3>5, <3>7, <1>2 DEF Live
  <2> QED BY <2>1, <2>2, <1>2, <1>4 DEF FrontierInv
<1>9. PrunesNoClosedSet'
  <2> SUFFICES ASSUME NEW S \in SUBSET Slot, Closed(program, S)
               PROVE  S \cap invalid' = {}
    BY <1>2 DEF PrunesNoClosedSet
  <2>1. S \cap invalid = {}
    BY DEF IInv, PrunesNoClosedSet
  <2>2. ASSUME NEW s \in S \cap Orphans PROVE FALSE
    BY <2>1, OrphanFallback DEF Closed, Backed
  <2> QED BY <2>1, <2>2, <1>2
<1> QED BY <1>5, <1>6, <1>7, <1>8, <1>9 DEF IInv

(* The counts catch up with the live slots, and a live slot that is not a  *)
(* caller of an identity that ran dry loses nothing.                       *)
LEMMA RetireInvariant == IInv /\ Retire => IInv'
<1> SUFFICES ASSUME IInv, Retire PROVE IInv'
  OBVIOUS
<1>1. /\ program \in LoweredProgram
      /\ invalid \subseteq Slot /\ removed \subseteq invalid
      /\ available \in [SlotKey -> Nat]
      /\ phase = "retire"
  BY DEF IInv, TypeOK, Retire
<1>2. /\ available' = [k \in SlotKey |->
             available[k] - Cardinality(Providers(program, removed, k))]
      /\ candidates' = Dependents(available')
      /\ phase' = "scan" /\ program' = program /\ invalid' = invalid
      /\ removed' = removed /\ blame' = blame
  BY DEF Retire
<1>3. /\ Live \subseteq Slot /\ Live' = Live /\ removed \subseteq Slot
      /\ Counted = Live \cup removed /\ Counted' = Live
      /\ Counted \ removed = Live
  BY <1>1, <1>2 DEF Live, Counted
<1>4. \A k \in SlotKey : /\ available'[k] = Cardinality(Providers(program, Live, k))
                         /\ available'[k] \in Nat
  <2> SUFFICES ASSUME NEW k \in SlotKey
               PROVE  /\ available'[k] = Cardinality(Providers(program, Live, k))
                      /\ available'[k] \in Nat
    OBVIOUS
  <2>1. available[k] = Cardinality(Providers(program, Counted, k))
    BY DEF IInv, CountsInv
  <2>2. Cardinality(Providers(program, Live, k)) =
          Cardinality(Providers(program, Counted, k))
            - Cardinality(Providers(program, removed, k))
    BY <1>1, <1>3, RetiredCount
  <2> QED BY <2>1, <2>2, <1>1, <1>2, <1>3, ProvidersCount
<1>5. TypeOK'
  <2>1. candidates' \subseteq Slot
    BY <1>2, <1>3 DEF Dependents
  <2>2. available' \in [SlotKey -> Nat]
    BY <1>2, <1>4
  <2> QED BY <1>2, <2>1, <2>2 DEF IInv, TypeOK
<1>6. CountsInv'
  BY <1>2, <1>3, <1>4 DEF CountsInv
<1>7. FrontierInv'
  <2>1. ASSUME NEW s \in Live, s \notin candidates'
        PROVE  CallsResolve(program, Live, s)
    <3> SUFFICES ASSUME NEW k \in program.callees[s]
                 PROVE  Providers(program, Live, k) # {}
      BY DEF CallsResolve
    <3>1. k \in SlotKey
      BY <1>1, <1>3 DEF LoweredProgram
    <3>2. Providers(program, Counted, k) # {}
      BY <1>1 DEF IInv, FrontierInv, CallsResolve
    <3>3. CASE Providers(program, removed, k) = {}
      BY <3>2, <3>3, <1>3 DEF Providers
    <3>4. CASE Providers(program, removed, k) # {}
      <4>1. available'[k] # 0
        BY <2>1, <3>1, <3>4, <1>2 DEF Dependents
      <4> QED BY <4>1, <3>1, <1>4, FS_EmptySet
    <3> QED BY <3>3, <3>4
  <2>2. \A s \in Live : Backed(program, Live, s)
    BY <1>1 DEF IInv, FrontierInv
  <2> QED BY <2>1, <2>2, <1>2, <1>3 DEF FrontierInv
<1> QED BY <1>1, <1>2, <1>5, <1>6, <1>7 DEF IInv, PrunesNoClosedSet

(* The loop ends only with every live slot supported. *)
LEMMA FinishInvariant == IInv /\ Finish => IInv'
<1> SUFFICES ASSUME IInv, Finish PROVE IInv'
  OBVIOUS
<1>1. /\ phase' = "done" /\ program' = program /\ candidates' = candidates
      /\ invalid' = invalid /\ removed' = removed
      /\ available' = available /\ blame' = blame
      /\ Live' = Live /\ Counted' = Live
  BY DEF Finish, Live, Counted
<1>2. \/ phase = "scan" /\ candidates = {}
      \/ phase = "retire" /\ removed = {}
  BY DEF Finish
<1>3. Counted = Live
  BY <1>2 DEF Counted
<1>4. Closed(program, Live)
  <2>1. CASE phase = "scan" /\ candidates = {}
    BY <2>1 DEF IInv, FrontierInv, Closed
  <2>2. CASE phase = "retire" /\ removed = {}
    BY <2>2, <1>3 DEF IInv, FrontierInv, Closed
  <2> QED BY <1>2, <2>1, <2>2
<1>5. TypeOK' /\ removed' \subseteq invalid' /\ PrunesNoClosedSet'
  BY <1>1 DEF IInv, TypeOK, PrunesNoClosedSet
<1>6. CountsInv'
  BY <1>1, <1>3 DEF IInv, CountsInv
<1>7. FrontierInv'
  BY <1>1, <1>4 DEF FrontierInv
<1> QED BY <1>5, <1>6, <1>7 DEF IInv

(* IInv is an invariant of the pruning fixpoint of _prune_unresolved. *)
THEOREM Invariance == Spec => []IInv
<1>1. IInv /\ [Next]_vars => IInv'
  <2> SUFFICES ASSUME IInv, [Next]_vars PROVE IInv'
    OBVIOUS
  <2>1. CASE Scan
    BY <2>1, ScanInvariant
  <2>2. CASE Cascade
    BY <2>2, CascadeInvariant
  <2>3. CASE Retire
    BY <2>3, RetireInvariant
  <2>4. CASE Finish
    BY <2>4, FinishInvariant
  <2>5. CASE UNCHANGED vars
    BY <2>5 DEF vars, IInv, TypeOK, CountsInv, FrontierInv, PrunesNoClosedSet,
                Live, Counted
  <2> QED BY <2>1, <2>2, <2>3, <2>4, <2>5 DEF Next
<1> QED BY InitInvariant, <1>1, PTL DEF Spec

(* Spec => []TypeOK: in particular no provider count of _prune_unresolved  *)
(* ever falls below zero.                                                  *)
THEOREM TypeCorrect == Spec => []TypeOK
BY Invariance, PTL DEF IInv

(* At the start of a round, and at the end, the incremental counts are the *)
(* live providers recounted from nothing.                                  *)
AvailableIsLiveCount ==
    phase \in {"scan", "done"} =>
        \A k \in SlotKey :
            available[k] = Cardinality(Providers(program, Live, k))

(* The incremental counts of _prune_unresolved are exact between rounds.   *)
THEOREM CountsExact == Spec => []AvailableIsLiveCount
<1>1. IInv => AvailableIsLiveCount
  BY DEF IInv, CountsInv, Counted, AvailableIsLiveCount
<1> QED BY <1>1, Invariance, PTL

(* Revisiting only the callers of identities that ran dry is enough.       *)
THEOREM FrontierSufficient == Spec => []FrontierIsEnough
<1>1. IInv => FrontierIsEnough
  BY DEF IInv, FrontierInv, FrontierIsEnough
<1> QED BY <1>1, Invariance, PTL

(* What _prune_unresolved leaves live has all its calls and fallbacks.     *)
THEOREM ClosureCorrect == Spec => []LiveSlotsAreClosed
<1>1. IInv => LiveSlotsAreClosed
  BY DEF IInv, FrontierInv, LiveSlotsAreClosed
<1> QED BY <1>1, Invariance, PTL

(* No member of a set that can be generated together is ever pruned, so    *)
(* the closed set delivered is the largest, and the order of the rounds    *)
(* cannot matter.                                                          *)
THEOREM ClosureLargest == Spec => []PrunesNoClosedSet
<1>1. IInv => PrunesNoClosedSet
  BY DEF IInv
<1> QED BY <1>1, Invariance, PTL
----------------------------------------------------------------------------
(* The abstract closure speaks of the same call graph.                     *)
LEMMA SameVocabulary ==
    /\ Closure!LoweredProgram = LoweredProgram
    /\ \A p, S, s : /\ Closure!CallsResolve(p, S, s) <=> CallsResolve(p, S, s)
                    /\ Closure!Backed(p, S, s) <=> Backed(p, S, s)
    /\ \A p, S : Closure!Closed(p, S) <=> Closed(p, S)
<1>1. Closure!LoweredProgram = LoweredProgram
  BY DEF Closure!LoweredProgram, LoweredProgram, Closure!Unranked, Unranked
<1>2. \A p, S, s : Closure!CallsResolve(p, S, s) <=> CallsResolve(p, S, s)
  BY DEF Closure!CallsResolve, CallsResolve, Closure!Providers, Providers
<1>3. \A p : Closure!Ranked(p) = Ranked(p)
  BY DEF Closure!Ranked, Ranked, Closure!Unranked, Unranked
<1>4. \A p, s : Closure!Group(p, s) = Group(p, s)
  BY <1>3 DEF Closure!Group, Group
<1>5. \A p, s : Closure!Fallbacks(p, s) = Fallbacks(p, s)
  BY <1>4 DEF Closure!Fallbacks, Fallbacks
<1>6. \A p, S, s : Closure!Backed(p, S, s) <=> Backed(p, S, s)
  BY <1>3, <1>5 DEF Closure!Backed, Backed
<1> QED BY <1>1, <1>2, <1>6 DEF Closure!Closed, Closed

(* Every step of the rounds is a step of the abstract closure, or leaves   *)
(* its state alone.                                                        *)
LEMMA StepRefinement == IInv /\ [Next]_vars => [Closure!Next]_(Closure!vars)
<1> SUFFICES ASSUME IInv, [Next]_vars PROVE [Closure!Next]_(Closure!vars)
  OBVIOUS
<1> USE SameVocabulary
        DEF Closure!Next, Closure!vars, Closure!Drop, Closure!Settle,
            Closure!Unsupported
<1>1. /\ program \in LoweredProgram /\ candidates \subseteq Slot
      /\ invalid \subseteq Slot /\ removed \subseteq invalid
  BY DEF IInv, TypeOK
<1>2. CASE Scan
  <2> DEFINE dangling == {s \in candidates \ invalid : Missing(s) # {}}
  <2>1. /\ phase = "scan" /\ phase' = "cascade" /\ program' = program
        /\ invalid' = invalid \cup dangling
    BY <1>2 DEF Scan
  <2>2. Live' = Live \ dangling /\ dangling \in SUBSET Live
    BY <1>1, <2>1 DEF Live
  <2>3. ASSUME NEW s \in dangling PROVE ~ CallsResolve(program, Live, s)
    <3>1. PICK k \in Missing(s) : TRUE
      OBVIOUS
    <3>2. s \in Slot /\ k \in program.callees[s] /\ available[k] = 0
      BY <3>1, <1>1 DEF Missing
    <3>3. k \in SlotKey
      BY <3>2, <1>1 DEF LoweredProgram
    <3>4. Cardinality(Providers(program, Live, k)) = 0
      BY <3>2, <3>3, <2>1 DEF IInv, CountsInv, Counted
    <3>5. Providers(program, Live, k) = {}
      BY <3>3, <3>4, <1>1, ProvidersCount DEF Live
    <3> QED BY <3>2, <3>5 DEF CallsResolve
  <2>4. CASE dangling = {}
    BY <2>1, <2>2, <2>4
  <2>5. CASE dangling # {}
    BY <2>1, <2>2, <2>3, <2>5
  <2> QED BY <2>4, <2>5
<1>3. CASE Cascade
  <2>1. /\ phase = "cascade" /\ phase' = "retire" /\ program' = program
        /\ invalid' = invalid \cup Orphans
    BY <1>3 DEF Cascade
  <2>2. Live' = Live \ Orphans /\ Orphans \in SUBSET Live
    BY <1>1, <2>1 DEF Live, Orphans
  <2>3. \A s \in Orphans : ~ Backed(program, Live, s)
    BY OrphanFallback DEF Backed, Live
  <2>4. CASE Orphans = {}
    BY <2>1, <2>2, <2>4
  <2>5. CASE Orphans # {}
    BY <2>1, <2>2, <2>3, <2>5
  <2> QED BY <2>4, <2>5
<1>4. CASE Retire
  BY <1>4 DEF Retire, Live
<1>5. CASE Finish
  <2>1. phase # "done" /\ phase' = "done" /\ program' = program /\ Live' = Live
    BY <1>5 DEF Finish, Live
  <2>2. Closed(program, Live)
    <3>1. IInv'
      BY <1>5, FinishInvariant
    <3> QED BY <3>1, <2>1 DEF IInv, FrontierInv
  <2> QED BY <2>1, <2>2
<1>6. CASE UNCHANGED vars
  BY <1>6 DEF vars, Live
<1> QED BY <1>2, <1>3, <1>4, <1>5, <1>6 DEF Next

(* The rounds of _prune_unresolved implement LiveClosure.                  *)
THEOREM Refinement == Spec => ImplementsClosure
<1>1. Init => Closure!Init
  BY SameVocabulary DEF Init, Live, Closure!Init
<1> QED BY <1>1, Invariance, StepRefinement, PTL DEF Spec, ImplementsClosure, Closure!Spec
----------------------------------------------------------------------------
(* Every pruned slot carries a reason that holds: an identity its own body *)
(* or its group's fallback calls, with nothing live to provide it.         *)
BlameInv ==
    \A s \in invalid :
        /\ \E t \in {s} \cup Fallbacks(program, s) : blame[s] \in program.callees[t]
        /\ Providers(program, Live, blame[s]) = {}

(* The fallbacks of a group are the same for all its members.              *)
LEMMA SameFallbacks ==
    ASSUME NEW p, NEW s, NEW f \in Fallbacks(p, s)
    PROVE  Fallbacks(p, f) = Fallbacks(p, s)
BY DEF Fallbacks, Group

(* The call a pass reports is one of the slot's, and nothing live provides *)
(* it: at that moment the counts are those of the live slots.              *)
LEMMA MissingIsDry ==
    ASSUME IInv, phase = "scan", NEW s \in Slot, Missing(s) # {}
    PROVE  /\ FirstMissing(s) \in program.callees[s]
           /\ Providers(program, Live, FirstMissing(s)) = {}
<1>1. Missing(s) \in SUBSET SlotKey
  BY DEF IInv, TypeOK, Missing, LoweredProgram
<1>2. \E k \in Missing(s) : \A l \in Missing(s) : k <= l
  BY <1>1, LeastNatural
<1>3. FirstMissing(s) \in Missing(s)
  BY <1>2 DEF FirstMissing
<1>4. FirstMissing(s) \in SlotKey /\ available[FirstMissing(s)] = 0
  BY <1>1, <1>3 DEF Missing
<1>5. Cardinality(Providers(program, Live, FirstMissing(s))) = 0
  BY <1>4 DEF IInv, CountsInv, Counted
<1>6. Live \in SUBSET Slot /\ program \in LoweredProgram
  BY DEF Live, IInv, TypeOK
<1>7. Providers(program, Live, FirstMissing(s)) = {}
  BY <1>4, <1>5, <1>6, ProvidersCount
<1> QED BY <1>3, <1>7 DEF Missing

(* Both ways a slot is pruned leave a reason that holds.                   *)
LEMMA BlameStep == IInv /\ BlameInv /\ [Next]_vars => BlameInv'
<1> SUFFICES ASSUME IInv, BlameInv, [Next]_vars PROVE BlameInv'
  OBVIOUS
<1>1. /\ program \in LoweredProgram /\ candidates \subseteq Slot
      /\ invalid \subseteq Slot
  BY DEF IInv, TypeOK
<1>2. CASE Scan
  <2> DEFINE dangling == {s \in candidates \ invalid : Missing(s) # {}}
  <2>1. /\ phase = "scan" /\ program' = program
        /\ invalid' = invalid \cup dangling
        /\ blame' = [s \in Slot |-> IF s \in dangling THEN FirstMissing(s)
                                                      ELSE blame[s]]
    BY <1>2 DEF Scan
  <2>2. Live' \subseteq Live /\ dangling \subseteq Slot
    BY <1>1, <2>1 DEF Live
  <2>3. ASSUME NEW s \in dangling
        PROVE  /\ FirstMissing(s) \in program.callees[s]
               /\ Providers(program, Live, FirstMissing(s)) = {}
    BY <1>1, <2>1, MissingIsDry
  <2>4. ASSUME NEW s \in invalid'
        PROVE  /\ \E t \in {s} \cup Fallbacks(program, s) :
                       blame'[s] \in program.callees[t]
               /\ Providers(program, Live', blame'[s]) = {}
    <3>1. CASE s \in dangling
      BY <3>1, <2>1, <2>2, <2>3 DEF Providers
    <3>2. CASE s \notin dangling
      <4>1. s \in invalid /\ s \in Slot /\ blame'[s] = blame[s]
        BY <3>2, <1>1, <2>1
      <4> QED BY <4>1, <2>2 DEF BlameInv, Providers
    <3> QED BY <3>1, <3>2
  <2> QED BY <2>1, <2>4 DEF BlameInv
<1>3. CASE Cascade
  <2>1. /\ program' = program /\ invalid' = invalid \cup Orphans
        /\ blame' = [s \in Slot |-> IF s \in Orphans THEN blame[FallbackOf(s)]
                                                      ELSE blame[s]]
    BY <1>3 DEF Cascade
  <2>2. Live' \subseteq Live
    BY <2>1 DEF Live
  <2>3. ASSUME NEW s \in invalid'
        PROVE  /\ \E t \in {s} \cup Fallbacks(program, s) :
                       blame'[s] \in program.callees[t]
               /\ Providers(program, Live', blame'[s]) = {}
    <3>1. CASE s \in Orphans
      <4> DEFINE f == FallbackOf(s)
      <4>1. s \in Slot /\ f \in invalid /\ f \in Fallbacks(program, s)
        BY <3>1, OrphanFallback DEF Live
      <4>2. blame'[s] = blame[f]
        BY <4>1, <3>1, <2>1
      <4>3. Fallbacks(program, f) = Fallbacks(program, s)
        BY <4>1, SameFallbacks
      <4>4. /\ \E t \in {f} \cup Fallbacks(program, f) :
                    blame[f] \in program.callees[t]
            /\ Providers(program, Live, blame[f]) = {}
        BY <4>1 DEF BlameInv
      <4> HIDE DEF f
      <4> QED BY <4>1, <4>2, <4>3, <4>4, <2>2 DEF Providers
    <3>2. CASE s \notin Orphans
      <4>1. s \in invalid /\ s \in Slot /\ blame'[s] = blame[s]
        BY <3>2, <1>1, <2>1
      <4> QED BY <4>1, <2>2 DEF BlameInv, Providers
    <3> QED BY <3>1, <3>2
  <2> QED BY <2>1, <2>3 DEF BlameInv
<1>4. CASE Retire
  BY <1>4 DEF Retire, BlameInv, Live
<1>5. CASE Finish
  BY <1>5 DEF Finish, BlameInv, Live
<1>6. CASE UNCHANGED vars
  BY <1>6 DEF vars, BlameInv, Live
<1> QED BY <1>2, <1>3, <1>4, <1>5, <1>6 DEF Next

(* Every slot _prune_unresolved reports is reported with a call that       *)
(* really has no provider left.                                            *)
THEOREM BlameCorrect == Spec => []BlameIsAMissingCallee
<1>1. Init => BlameInv
  BY DEF Init, BlameInv
<1>2. BlameInv => BlameIsAMissingCallee
  BY DEF BlameInv, BlameIsAMissingCallee
<1> QED BY <1>1, <1>2, BlameStep, Invariance, PTL DEF Spec

(* ReasonsLeadToACause of any list, slots and reasons. *)
Grounded(p, I, b) ==
    \A S \in (SUBSET I) \ {{}} : \E s \in S : Providers(p, S, b[s]) = {}

(* Every slot of a set lacks, of what is live, the call it is told. *)
DryFor(p, I, L, b) == \A s \in I : Providers(p, L, b[s]) = {}

(* Slots that fall together, for calls that nothing live provides, add no  *)
(* circle to the reasons: nothing that falls provides what an earlier one  *)
(* missed, and what falls now misses a call that none of them provides.    *)
LEMMA GroundedGrows ==
    ASSUME NEW p, NEW I, NEW L, NEW D \in SUBSET L, NEW b, NEW c,
           Grounded(p, I, b), DryFor(p, I, L, b), DryFor(p, D, L, c),
           D \cap I = {}, \A s \in I : c[s] = b[s]
    PROVE  Grounded(p, I \cup D, c)
<1> USE DEF Grounded, DryFor
<1> SUFFICES ASSUME NEW S \in (SUBSET (I \cup D)) \ {{}}
             PROVE  \E s \in S : Providers(p, S, c[s]) = {}
  OBVIOUS
<1>1. CASE S \cap I = {}
  <2>1. S \subseteq D /\ S # {}
    BY <1>1
  <2>2. PICK s \in S : TRUE
    BY <2>1
  <2>3. Providers(p, L, c[s]) = {} /\ S \subseteq L
    BY <2>1
  <2>4. Providers(p, S, c[s]) = {}
    BY <2>3 DEF Providers
  <2> QED BY <2>4
<1>2. CASE S \cap I # {}
  <2>1. PICK s \in S \cap I : Providers(p, S \cap I, b[s]) = {}
    BY <1>2
  <2>2. c[s] = b[s] /\ Providers(p, L, b[s]) = {}
    BY <2>1
  <2>3. S \subseteq (S \cap I) \cup L
    OBVIOUS
  <2>4. Providers(p, S, b[s]) = {}
    BY <2>1, <2>2, <2>3 DEF Providers
  <2> QED BY <2>1, <2>2, <2>4
<1> QED BY <1>1, <1>2

(* Both ways a slot is pruned keep the reasons grounded.                   *)
LEMMA GroundedStep ==
    IInv /\ BlameInv /\ ReasonsLeadToACause /\ [Next]_vars
    => ReasonsLeadToACause'
<1> SUFFICES ASSUME IInv, BlameInv, ReasonsLeadToACause, [Next]_vars
             PROVE  ReasonsLeadToACause'
  OBVIOUS
<1>1. /\ program \in LoweredProgram /\ candidates \subseteq Slot
      /\ invalid \subseteq Slot
  BY DEF IInv, TypeOK
<1>2. CASE Scan
  <2> DEFINE dangling == {s \in candidates \ invalid : Missing(s) # {}}
  <2>1. /\ phase = "scan" /\ program' = program
        /\ invalid' = invalid \cup dangling
        /\ blame' = [s \in Slot |-> IF s \in dangling THEN FirstMissing(s)
                                                      ELSE blame[s]]
    BY <1>2 DEF Scan
  <2>2. dangling \in SUBSET Live
    BY <1>1 DEF Live
  <2>3. ASSUME NEW s \in dangling
        PROVE  s \notin invalid /\ Providers(program, Live, blame'[s]) = {}
    <3>1. blame'[s] = FirstMissing(s) /\ s \notin invalid
      BY <1>1, <2>1
    <3>2. Providers(program, Live, FirstMissing(s)) = {}
      BY <1>1, <2>1, MissingIsDry
    <3> QED BY <3>1, <3>2
  <2>4. \A s \in invalid : /\ Providers(program, Live, blame[s]) = {}
                           /\ s \notin dangling => blame'[s] = blame[s]
    BY <1>1, <2>1 DEF BlameInv
  <2> HIDE DEF dangling
  <2>5. /\ Grounded(program, invalid, blame)
        /\ DryFor(program, invalid, Live, blame)
        /\ DryFor(program, dangling, Live, blame')
    BY <2>3, <2>4 DEF Grounded, DryFor, ReasonsLeadToACause
  <2>6. dangling \cap invalid = {} /\ \A s \in invalid : blame'[s] = blame[s]
    BY <2>3, <2>4
  <2>7. Grounded(program, invalid \cup dangling, blame')
    BY <2>2, <2>5, <2>6, GroundedGrows
  <2> QED BY <2>1, <2>7 DEF Grounded, ReasonsLeadToACause
<1>3. CASE Cascade
  <2>1. /\ program' = program /\ invalid' = invalid \cup Orphans
        /\ blame' = [s \in Slot |-> IF s \in Orphans THEN blame[FallbackOf(s)]
                                                      ELSE blame[s]]
    BY <1>3 DEF Cascade
  <2>2. Orphans \in SUBSET Live
    BY DEF Orphans
  <2>3. ASSUME NEW s \in Orphans
        PROVE  s \notin invalid /\ Providers(program, Live, blame'[s]) = {}
    <3>1. s \in Slot /\ s \notin invalid /\ FallbackOf(s) \in invalid
      BY OrphanFallback DEF Live
    <3>2. blame'[s] = blame[FallbackOf(s)]
      BY <2>1, <3>1
    <3> QED BY <3>1, <3>2 DEF BlameInv
  <2>4. \A s \in invalid : /\ Providers(program, Live, blame[s]) = {}
                           /\ s \notin Orphans => blame'[s] = blame[s]
    BY <1>1, <2>1 DEF BlameInv
  <2>5. /\ Grounded(program, invalid, blame)
        /\ DryFor(program, invalid, Live, blame)
        /\ DryFor(program, Orphans, Live, blame')
    BY <2>3, <2>4 DEF Grounded, DryFor, ReasonsLeadToACause
  <2>6. Orphans \cap invalid = {} /\ \A s \in invalid : blame'[s] = blame[s]
    BY <2>3, <2>4
  <2>7. Grounded(program, invalid \cup Orphans, blame')
    BY <2>2, <2>5, <2>6, GroundedGrows
  <2> QED BY <2>1, <2>7 DEF Grounded, ReasonsLeadToACause
<1>4. CASE Retire
  BY <1>4 DEF Retire, ReasonsLeadToACause
<1>5. CASE Finish
  BY <1>5 DEF Finish, ReasonsLeadToACause
<1>6. CASE UNCHANGED vars
  BY <1>6 DEF vars, ReasonsLeadToACause
<1> QED BY <1>2, <1>3, <1>4, <1>5, <1>6 DEF Next

(* From every slot _prune_unresolved reports, the reasons lead to a call   *)
(* that no pruned slot provides.                                           *)
THEOREM ReasonsAreGrounded == Spec => []ReasonsLeadToACause
<1>1. Init => BlameInv /\ ReasonsLeadToACause
  BY DEF Init, BlameInv, ReasonsLeadToACause
<1> QED BY <1>1, BlameStep, GroundedStep, Invariance, PTL DEF Spec
----------------------------------------------------------------------------
(* Call facts.  The facts in the worklist stay between those an identity   *)
(* starts with and the solution by reachability; an identity that is not   *)
(* waiting has given its callers all it has.  When nothing waits the facts *)
(* are closed under the calls, so that they are not below the solution     *)
(* either, cycles included.                                                *)
Given == program \in LoweredProgram /\ own \in [Slot -> Fact]

FactsTypeInv == Given /\ facts \in [Ids -> Fact] /\ queued \subseteq Ids

(* No fact an identity starts with is lost. *)
AtLeast(f, i) ==
    /\ InitialFact(i).internal => f.internal
    /\ InitialFact(i).reasons \subseteq f.reasons
    /\ InitialFact(i).gaps \subseteq f.gaps
    /\ InitialFact(i).features \subseteq f.features
    /\ InitialFact(i).state <= f.state

(* Nothing is claimed of an identity that its calls do not lead to. *)
AtMost(f, i) ==
    /\ f.caller = InitialFact(i).caller
    /\ f.internal => Solved(i).internal
    /\ f.reasons \subseteq Solved(i).reasons
    /\ f.gaps \subseteq Solved(i).gaps
    /\ f.features \subseteq Solved(i).features
    /\ \E j \in Reach(i) : f.state = InitialFact(j).state

Bounded == \A i \in Ids : AtLeast(facts[i], i) /\ AtMost(facts[i], i)

(* A caller with facts f has taken in all of a callee with facts g. *)
Told(f, g) ==
    /\ Unsafe(g) => f.internal /\ g.reasons \cup {UnsafeCallee} \subseteq f.reasons
    /\ g.gaps \subseteq f.gaps
    /\ g.features \subseteq f.features
    /\ g.state <= f.state

(* Whoever does not wait has told its callers everything. *)
Pushed == \A i \in Ids \ queued : \A c \in Callers(i) : Told(facts[c], facts[i])

PublishedInv ==
    published = own \/ (queued = {} /\ published = [s \in Slot |-> facts[FactId(s)]])

FactsInv == FactsTypeInv /\ Bounded /\ Pushed /\ PublishedInv
----------------------------------------------------------------------------
(* The identity of a slot is one of the slots that share it, the same for  *)
(* all of them, and its own identity.                                      *)
LEMMA Identities ==
    /\ Ids \subseteq Slot
    /\ \A s \in Slot : FactId(s) \in Ids /\ FactId(s) \in Sharing(s) /\ s \in Sharing(s)
    /\ \A s, t \in Slot : t \in Sharing(s) => FactId(t) = FactId(s)
    /\ \A i \in Ids : FactId(i) = i
<1>1. ASSUME NEW s \in Slot PROVE FactId(s) \in Sharing(s) /\ s \in Sharing(s)
  <2>1. s \in Sharing(s) /\ Sharing(s) \in SUBSET Nat
    BY CallGraphAssumption DEF Sharing
  <2>2. \E t \in Sharing(s) : \A u \in Sharing(s) : t <= u
    BY <2>1, LeastNatural
  <2> QED BY <2>1, <2>2 DEF FactId
<1>2. ASSUME NEW s \in Slot, NEW t \in Slot, t \in Sharing(s)
      PROVE  FactId(t) = FactId(s)
  <2>1. Sharing(t) = Sharing(s)
    BY <1>2 DEF Sharing
  <2> QED BY <2>1 DEF FactId
<1>3. \A s \in Slot : FactId(s) \in Slot
  BY <1>1 DEF Sharing
<1> QED BY <1>1, <1>2, <1>3 DEF Ids

(* Calls from an identity's bodies and to them are the same calls. *)
LEMMA CallersCall ==
    ASSUME NEW i \in Ids
    PROVE  /\ Callers(i) \subseteq Ids
           /\ \A c \in Ids : c \in Callers(i) <=> i \in CalleesOf(c)
<1>1. Callers(i) \subseteq Ids
  BY DEF Callers, Ids
<1>2. ASSUME NEW c \in Callers(i) PROVE i \in CalleesOf(c)
  <2>1. PICK s \in Slot : program.key[i] \in program.callees[s] /\ c = FactId(s)
    BY DEF Callers
  <2>2. c \in Sharing(s)
    BY <2>1, Identities
  <2>3. s \in Sharing(c)
    BY <2>2 DEF Sharing
  <2> QED BY <2>1, <2>3 DEF CalleesOf
<1>3. ASSUME NEW c \in Ids, i \in CalleesOf(c) PROVE c \in Callers(i)
  <2>1. PICK s \in Sharing(c) : program.key[i] \in program.callees[s]
    BY <1>3 DEF CalleesOf
  <2>2. s \in Slot /\ c \in Slot /\ FactId(s) = c
    BY Identities DEF Sharing
  <2> QED BY <2>1, <2>2 DEF Callers
<1> QED BY <1>1, <1>2, <1>3

(* Reachability starts at the identity itself and follows calls. *)
LEMMA ReachFollows ==
    ASSUME NEW i \in Ids
    PROVE  /\ i \in Reach(i)
           /\ Reach(i) \subseteq Ids
           /\ \A j \in Reach(i) : Reach(j) \subseteq Reach(i)
           /\ \A e \in CalleesOf(i) : e \in Ids /\ Reach(e) \subseteq Below(i)
           /\ Below(i) \subseteq Reach(i)
           /\ \A U \in SUBSET Ids : i \in U /\ CallClosed(U) => Reach(i) \subseteq U
<1>1. /\ i \in Reach(i) /\ Reach(i) \subseteq Ids
      /\ \A j \in Reach(i) : Reach(j) \subseteq Reach(i)
      /\ \A U \in SUBSET Ids : i \in U /\ CallClosed(U) => Reach(i) \subseteq U
  BY DEF Reach
<1>2. \A e \in CalleesOf(i) : e \in Ids /\ Reach(e) \subseteq Below(i)
  BY DEF CalleesOf, Below
<1>3. \A e \in CalleesOf(i) : e \in Reach(i)
  BY DEF Reach, CallClosed, CalleesOf
<1>4. Below(i) \subseteq Reach(i)
  BY <1>1, <1>3 DEF Below
<1> QED BY <1>1, <1>2, <1>4

(* The facts an identity starts with are facts. *)
LEMMA InitialIsFact ==
    ASSUME Given, NEW i \in Ids
    PROVE  InitialFact(i) \in Fact
<1>1. i \in Slot /\ i \in Sharing(i) /\ FactId(i) = i
  BY Identities
<1>2. Sharing(i) \in SUBSET Slot /\ \A t \in Sharing(i) : own[t] \in Fact
  BY DEF Given, Sharing
<1>3. Speaking(i) \subseteq Sharing(i) /\ Speaking(i) # {}
  <2>1. /\ Resetting(i) \in SUBSET Nat /\ Resetting(i) # {}
        /\ IsFiniteSet(Resetting(i))
    <3>1. Resetting(i) \in SUBSET Slot
      BY <1>2 DEF Resetting
    <3>2. i \in Resetting(i)
      BY <1>1 DEF Resetting
    <3> QED BY <3>1, <3>2, CallGraphAssumption, FS_Subset
  <2>2. \E t \in Resetting(i) : \A u \in Resetting(i) : u <= t
    BY <2>1, GreatestNatural
  <2>3. LastReset(i) \in Resetting(i)
    BY <2>2 DEF LastReset
  <2>4. LastReset(i) \in Sharing(i) /\ LastReset(i) \in Nat
    BY <2>1, <2>3 DEF Resetting
  <2> QED BY <2>4 DEF Speaking
<1> DEFINE States == {own[t].state : t \in Speaking(i)}
<1>4. \A t \in Speaking(i) : own[t].state \in State
  BY <1>2, <1>3 DEF Fact
<1>5. \E r \in States : \A t \in Speaking(i) : own[t].state <= r
  <2>1. States \in SUBSET (0..3) /\ States # {}
    BY <1>3, <1>4 DEF State
  <2>2. States \in SUBSET Nat /\ IsFiniteSet(States)
    <3> HIDE DEF States
    <3>1. States \in SUBSET Nat /\ 3 \in Nat /\ \A r \in States : r <= 3
      BY <2>1
    <3> QED BY <3>1, FS_BoundedSetOfNaturals
  <2> HIDE DEF States
  <2>3. PICK r \in States : \A n \in States : n <= r
    BY <2>1, <2>2, GreatestNatural
  <2> QED BY <2>3 DEF States
<1>6. InitialFact(i).state \in State
  <2>1. InitialFact(i).state = CHOOSE r \in States :
                                  \A t \in Speaking(i) : own[t].state <= r
    BY DEF InitialFact
  <2>2. InitialFact(i).state \in States
    BY <1>5, <2>1
  <2> QED BY <1>4, <2>2
<1>7. /\ InitialFact(i).internal \in BOOLEAN /\ InitialFact(i).caller \in BOOLEAN
      /\ InitialFact(i).reasons \subseteq Reason \cup {UnsafeCallee}
      /\ InitialFact(i).gaps \subseteq Obligation
      /\ InitialFact(i).features \subseteq Feature
  BY <1>2, <1>3 DEF InitialFact, Fact
<1>8. InitialFact(i) = [internal |-> InitialFact(i).internal,
                        caller   |-> InitialFact(i).caller,
                        reasons  |-> InitialFact(i).reasons,
                        gaps     |-> InitialFact(i).gaps,
                        features |-> InitialFact(i).features,
                        state    |-> InitialFact(i).state]
  BY DEF InitialFact
<1> QED BY <1>6, <1>7, <1>8 DEF Fact

(* Taking in a fact gives a fact that has all of both, and all that had    *)
(* been taken in before.                                                   *)
LEMMA AbsorbTells ==
    ASSUME Given, NEW f \in Fact, NEW g \in Fact
    PROVE  /\ Absorb(f, g) \in Fact
           /\ Told(Absorb(f, g), g)
           /\ \A h \in Fact : Told(f, h) => Told(Absorb(f, g), h)
           /\ \A i \in Ids : AtLeast(f, i) => AtLeast(Absorb(f, g), i)
<1> DEFINE a == Absorb(f, g)
<1>1. /\ f.internal \in BOOLEAN /\ g.internal \in BOOLEAN
      /\ f.caller \in BOOLEAN /\ g.caller \in BOOLEAN
      /\ f.state \in State /\ g.state \in State
  BY DEF Fact
<1>2. a \in Fact
  BY DEF Absorb, Fact, State, Unsafe
<1>3. /\ a.internal = (f.internal \/ Unsafe(g)) /\ a.caller = f.caller
      /\ f.reasons \subseteq a.reasons
      /\ Unsafe(g) => g.reasons \cup {UnsafeCallee} \subseteq a.reasons
      /\ a.gaps = f.gaps \cup g.gaps /\ a.features = f.features \cup g.features
      /\ a.state \in State /\ f.state <= a.state /\ g.state <= a.state
  BY <1>1 DEF Absorb, State
<1> HIDE DEF a
<1>4. Told(a, g)
  BY <1>1, <1>3 DEF Told
<1>5. \A h \in Fact : Told(f, h) => Told(a, h)
  <2> SUFFICES ASSUME NEW h \in Fact, Told(f, h) PROVE Told(a, h)
    OBVIOUS
  <2>1. h.state <= a.state
    <3>1. h.state \in State
      BY DEF Fact
    <3> QED BY <1>1, <1>3, <3>1 DEF State, Told
  <2> QED BY <1>3, <2>1 DEF Told
<1>6. \A i \in Ids : AtLeast(f, i) => AtLeast(a, i)
  <2> SUFFICES ASSUME NEW i \in Ids, AtLeast(f, i) PROVE AtLeast(a, i)
    OBVIOUS
  <2>1. InitialFact(i).state <= a.state
    <3>1. InitialFact(i).state \in State
      BY InitialIsFact DEF Fact
    <3> QED BY <1>1, <1>3, <3>1 DEF State, AtLeast
  <2> QED BY <1>3, <2>1 DEF AtLeast
<1> QED BY <1>2, <1>4, <1>5, <1>6 DEF a

(* What leads to something unsafe from an identity leads there from its    *)
(* callers.                                                                *)
LEMMA UnsafetyIsSolved ==
    ASSUME Given, NEW i \in Ids, NEW f \in Fact, AtMost(f, i), Unsafe(f)
    PROVE  LeadsToUnsafe(i)
<1>1. CASE Unsafe(InitialFact(i))
  BY <1>1, ReachFollows DEF LeadsToUnsafe
<1>2. CASE ~ Unsafe(InitialFact(i))
  <2>1. Solved(i).internal /\ ~ InitialFact(i).internal
    BY <1>2 DEF AtMost, Unsafe
  <2>2. PICK j \in Below(i) : LeadsToUnsafe(j)
    BY <2>1 DEF Solved
  <2>3. PICK k \in Reach(j) : Unsafe(InitialFact(k))
    BY <2>2 DEF LeadsToUnsafe
  <2>4. j \in Reach(i) /\ k \in Reach(i)
    BY <2>2, <2>3, ReachFollows
  <2> QED BY <2>3, <2>4 DEF LeadsToUnsafe
<1> QED BY <1>1, <1>2

(* Taking in a callee stays below the solution. *)
LEMMA AbsorbIsSolved ==
    ASSUME Given, NEW c \in Ids, NEW e \in CalleesOf(c),
           NEW f \in Fact, NEW g \in Fact, AtMost(f, c), AtMost(g, e)
    PROVE  AtMost(Absorb(f, g), c)
<1> DEFINE a == Absorb(f, g)
           unsafe == {j \in Below(c) : LeadsToUnsafe(j)}
           unsafeOfE == {j \in Below(e) : LeadsToUnsafe(j)}
<1>1. /\ e \in Ids /\ e \in Reach(e) /\ Reach(e) \subseteq Below(c)
      /\ Below(c) \subseteq Reach(c) /\ Below(e) \subseteq Reach(e)
  BY ReachFollows
<1>2. Unsafe(g) => e \in unsafe
  BY <1>1, UnsafetyIsSolved
<1>3. unsafeOfE \subseteq unsafe
  BY <1>1
<1>4. a.caller = InitialFact(c).caller
  BY DEF AtMost, Absorb
<1>5. a.internal => Solved(c).internal
  BY <1>2 DEF AtMost, Absorb, Solved
<1>6. a.reasons \subseteq Solved(c).reasons
  <2>1. CASE ~ Unsafe(g)
    BY <2>1 DEF AtMost, Absorb
  <2>2. CASE Unsafe(g)
    <3>1. e \in unsafe /\ unsafeOfE \subseteq unsafe
      BY <1>2, <1>3, <2>2
    <3> DEFINE label(S) == IF S # {} THEN {UnsafeCallee} ELSE {}
               theirs(S) == UNION {InitialFact(j).reasons : j \in S}
    <3>2. /\ Solved(c).reasons = InitialFact(c).reasons \cup label(unsafe) \cup theirs(unsafe)
          /\ Solved(e).reasons =
                InitialFact(e).reasons \cup label(unsafeOfE) \cup theirs(unsafeOfE)
      BY DEF Solved
    <3> HIDE DEF unsafe, unsafeOfE
    <3>3. label(unsafeOfE) \subseteq label(unsafe) /\ UnsafeCallee \in label(unsafe)
      BY <3>1
    <3>4. /\ InitialFact(e).reasons \subseteq theirs(unsafe)
          /\ theirs(unsafeOfE) \subseteq theirs(unsafe)
      BY <3>1
    <3> HIDE DEF label, theirs
    <3>5. Solved(e).reasons \cup {UnsafeCallee} \subseteq Solved(c).reasons
      BY <3>2, <3>3, <3>4
    <3>6. a.reasons = f.reasons \cup g.reasons \cup {UnsafeCallee}
      BY <2>2 DEF Absorb
    <3> QED BY <3>5, <3>6 DEF AtMost
  <2> QED BY <2>1, <2>2
<1>7. a.gaps \subseteq Solved(c).gaps /\ a.features \subseteq Solved(c).features
  <2>1. Solved(e).gaps \subseteq Solved(c).gaps
    BY <1>1 DEF Solved
  <2>2. Solved(e).features \subseteq Solved(c).features
    BY <1>1 DEF Solved
  <2> QED BY <2>1, <2>2 DEF Absorb, AtMost
<1>8. \E j \in Reach(c) : a.state = InitialFact(j).state
  <2>1. a.state = f.state \/ a.state = g.state
    BY DEF Absorb
  <2> QED BY <1>1, <2>1 DEF AtMost
<1> QED BY <1>4, <1>5, <1>6, <1>7, <1>8 DEF AtMost
----------------------------------------------------------------------------
(* Everything starts with its own facts and waits. *)
LEMMA FactsInitInvariant == FactsInit => FactsInv
<1> SUFFICES ASSUME FactsInit PROVE FactsInv
  OBVIOUS
<1>1. Given /\ queued = Ids /\ facts = [i \in Ids |-> InitialFact(i)]
  BY CallGraphAssumption, CallFactsAssumption DEF FactsInit, Given
<1>2. ASSUME NEW i \in Ids
      PROVE  /\ InitialFact(i) \in Fact
             /\ AtLeast(InitialFact(i), i) /\ AtMost(InitialFact(i), i)
  <2>1. InitialFact(i) \in Fact
    BY <1>1, InitialIsFact
  <2>2. AtLeast(InitialFact(i), i)
    BY <2>1 DEF AtLeast, Fact, State
  <2>3. i \in Reach(i)
    BY ReachFollows
  <2>4. /\ InitialFact(i).internal => Solved(i).internal
        /\ InitialFact(i).reasons \subseteq Solved(i).reasons
        /\ InitialFact(i).gaps \subseteq Solved(i).gaps
        /\ InitialFact(i).features \subseteq Solved(i).features
    BY <2>3 DEF Solved
  <2> QED BY <2>1, <2>2, <2>3, <2>4 DEF AtMost
<1> QED BY <1>1, <1>2 DEF FactsInit, FactsInv, FactsTypeInv, Bounded, Pushed, PublishedInv

(* The program never changes, and with it nothing that is read off it. *)
LEMMA Unchanged ==
    ASSUME program' = program, own' = own
    PROVE  /\ Given' = Given /\ Ids' = Ids
           /\ \A s : FactId(s)' = FactId(s)
           /\ \A i : /\ Callers(i)' = Callers(i) /\ InitialFact(i)' = InitialFact(i)
                    /\ Solved(i)' = Solved(i) /\ Reach(i)' = Reach(i)
<1>1. Given' = Given
  BY DEF Given
<1>2. \A s : FactId(s)' = FactId(s)
  BY DEF FactId, Sharing
<1>3. Ids' = Ids /\ \A i : Callers(i)' = Callers(i)
  BY DEF Ids, Callers, FactId, Sharing
<1>4. \A i : InitialFact(i)' = InitialFact(i)
  BY DEF InitialFact, Speaking, LastReset, Resetting, Sharing, Ranked, FactId
<1>5. \A i : Reach(i)' = Reach(i)
  BY DEF Reach, CallClosed, CalleesOf, Sharing, Ids, FactId
<1>6. \A i : Solved(i)' = Solved(i)
  BY DEF Solved, LeadsToUnsafe, Unsafe, Below, Reach, CallClosed, CalleesOf, Sharing,
         Ids, FactId, InitialFact, Speaking, LastReset, Resetting, Ranked
<1> QED BY <1>1, <1>2, <1>3, <1>4, <1>5, <1>6

(* One turn of the worklist: what the callers take in is part of their     *)
(* solution, and whoever changed waits again.                              *)
LEMMA VisitInvariant ==
    ASSUME FactsInv, NEW i \in Ids, Visit(i)
    PROVE  FactsInv'
<1> DEFINE after(c) == IF c \in Callers(i) THEN Absorb(facts[c], facts[i]) ELSE facts[c]
<1>1. /\ i \in queued /\ facts' = [c \in Ids |-> after(c)]
      /\ queued' = (queued \ {i}) \cup {c \in Callers(i) : facts'[c] # facts[c]}
      /\ program' = program /\ own' = own /\ published' = published
  BY DEF Visit
<1>2. /\ Given /\ facts \in [Ids -> Fact] /\ queued \subseteq Ids
      /\ \A c \in Ids : facts[c] \in Fact /\ AtLeast(facts[c], c) /\ AtMost(facts[c], c)
      /\ Callers(i) \subseteq Ids
  BY CallersCall DEF FactsInv, FactsTypeInv, Bounded
<1>3. ASSUME NEW c \in Ids
      PROVE  after(c) \in Fact /\ AtLeast(after(c), c) /\ AtMost(after(c), c)
  <2>1. CASE c \in Callers(i)
    <3>1. i \in CalleesOf(c)
      BY <2>1, CallersCall
    <3>2. AtMost(Absorb(facts[c], facts[i]), c)
      BY <1>2, <3>1, AbsorbIsSolved
    <3> QED BY <1>2, <2>1, <3>2, AbsorbTells
  <2>2. CASE c \notin Callers(i)
    BY <1>2, <2>2
  <2> QED BY <2>1, <2>2
<1>4. ASSUME NEW j \in Ids \ queued', NEW c \in Callers(j)
      PROVE  Told(after(c), after(j))
  <2>1. c \in Ids /\ j \in Ids
    BY CallersCall
  <2>2. after(j) = facts[j]
    BY <1>1, <2>1
  <2>3. CASE j = i
    BY <1>2, <2>1, <2>2, <2>3, AbsorbTells
  <2>4. CASE j # i
    <3>1. Told(facts[c], facts[j])
      BY <1>1, <2>4 DEF FactsInv, Pushed
    <3> QED BY <1>2, <2>1, <2>2, <3>1, AbsorbTells
  <2> QED BY <2>3, <2>4
<1>5. FactsTypeInv'
  BY <1>1, <1>2, <1>3, Unchanged DEF FactsTypeInv
<1>6. Bounded'
  <2> SUFFICES ASSUME NEW c \in Ids
               PROVE  AtLeast(facts[c], c)' /\ AtMost(facts[c], c)'
    BY <1>1, Unchanged DEF Bounded
  <2>1. facts'[c] = after(c)
    BY <1>1
  <2> QED BY <1>1, <1>3, <2>1, Unchanged DEF AtLeast, AtMost
<1>7. Pushed'
  BY <1>1, <1>4, CallersCall, Unchanged DEF Pushed, Told, Unsafe
<1>8. PublishedInv'
  BY <1>1 DEF FactsInv, PublishedInv
<1> QED BY <1>5, <1>6, <1>7, <1>8 DEF FactsInv

LEMMA PublishInvariant == FactsInv /\ Publish => FactsInv'
<1> SUFFICES ASSUME FactsInv, Publish PROVE FactsInv'
  OBVIOUS
<1>1. /\ program' = program /\ own' = own /\ facts' = facts /\ queued' = queued
      /\ queued = {} /\ published' = [s \in Slot |-> facts[FactId(s)]]
  BY DEF Publish
<1>2. FactsTypeInv' /\ Bounded' /\ Pushed'
  BY <1>1, Unchanged DEF FactsInv, FactsTypeInv, Bounded, Pushed, AtLeast, AtMost
<1>3. PublishedInv'
  BY <1>1, Unchanged DEF PublishedInv
<1> QED BY <1>2, <1>3 DEF FactsInv

(* Every reachable state satisfies the invariant. *)
THEOREM FactsInvariance == FactsSpec => []FactsInv
<1>1. FactsInv /\ [FactsNext]_factsVars => FactsInv'
  <2> SUFFICES ASSUME FactsInv, [FactsNext]_factsVars PROVE FactsInv'
    OBVIOUS
  <2>1. CASE Publish
    BY <2>1, PublishInvariant
  <2>2. ASSUME NEW i \in Ids, Visit(i) PROVE FactsInv'
    BY <2>2, VisitInvariant
  <2>3. CASE UNCHANGED factsVars
    <3>1. /\ program' = program /\ own' = own /\ facts' = facts /\ queued' = queued
          /\ published' = published
      BY <2>3 DEF factsVars
    <3> QED BY <3>1, Unchanged
            DEF FactsInv, FactsTypeInv, Bounded, Pushed, PublishedInv, AtLeast, AtMost
  <2> QED BY <2>1, <2>2, <2>3 DEF FactsNext
<1> QED BY <1>1, FactsInitInvariant, PTL DEF FactsSpec
----------------------------------------------------------------------------
(* Facts that are closed under the calls cover all that lies below.        *)
LEMMA ClosedFactsCover ==
    ASSUME FactsInv, queued = {}, NEW i \in Ids, NEW j \in Reach(i)
    PROVE  /\ facts[j].gaps \subseteq facts[i].gaps
           /\ facts[j].features \subseteq facts[i].features
           /\ facts[j].state <= facts[i].state
           /\ Unsafe(facts[j]) =>
                 Unsafe(facts[i]) /\ facts[j].reasons \subseteq facts[i].reasons
<1> DEFINE taken == {c \in Ids :
               /\ facts[c].gaps \subseteq facts[i].gaps
               /\ facts[c].features \subseteq facts[i].features
               /\ facts[c].state <= facts[i].state
               /\ Unsafe(facts[c]) =>
                     Unsafe(facts[i]) /\ facts[c].reasons \subseteq facts[i].reasons}
<1>1. \A c \in Ids : facts[c] \in Fact /\ facts[c].state \in 0..3
  BY DEF FactsInv, FactsTypeInv, Fact, State
<1>2. i \in taken
  BY <1>1
<1>3. ASSUME NEW c \in taken, NEW e \in CalleesOf(c) PROVE e \in taken
  <2>1. e \in Ids /\ c \in Callers(e)
    BY ReachFollows, CallersCall
  <2>2. Told(facts[c], facts[e])
    BY <2>1 DEF FactsInv, Pushed
  <2>3. facts[e].state <= facts[i].state
    BY <1>1, <2>1, <2>2 DEF Told
  <2> QED BY <2>1, <2>2, <2>3 DEF Told, Unsafe
<1>4. taken \in SUBSET Ids /\ CallClosed(taken)
  BY <1>3 DEF CallClosed
<1> HIDE DEF taken
<1>5. j \in taken
  BY <1>2, <1>4, ReachFollows
<1> QED BY <1>5 DEF taken

(* What a caller has below it, it has taken in. *)
LEMMA ClosedFactsTell ==
    ASSUME FactsInv, queued = {}, NEW i \in Ids, NEW j \in Below(i), LeadsToUnsafe(j)
    PROVE  /\ facts[i].internal
           /\ InitialFact(j).reasons \cup {UnsafeCallee} \subseteq facts[i].reasons
<1>1. PICK e \in CalleesOf(i) : j \in Reach(e)
  BY DEF Below
<1>2. e \in Ids /\ j \in Ids /\ i \in Callers(e)
  BY <1>1, ReachFollows, CallersCall
<1>3. Told(facts[i], facts[e])
  BY <1>2 DEF FactsInv, Pushed
<1>4. PICK k \in Reach(j) : Unsafe(InitialFact(k))
  BY DEF LeadsToUnsafe
<1>5. k \in Ids /\ AtLeast(facts[k], k) /\ AtMost(facts[k], k)
  BY <1>2, ReachFollows DEF FactsInv, Bounded
<1>6. Unsafe(facts[k])
  BY <1>4, <1>5 DEF Unsafe, AtLeast, AtMost
<1>7. Unsafe(facts[j])
  BY <1>2, <1>6, ClosedFactsCover
<1>8. Unsafe(facts[e]) /\ facts[j].reasons \subseteq facts[e].reasons
  BY <1>1, <1>2, <1>7, ClosedFactsCover
<1>9. InitialFact(j).reasons \subseteq facts[j].reasons
  BY <1>2 DEF FactsInv, Bounded, AtLeast
<1> QED BY <1>3, <1>8, <1>9 DEF Told

(* When nothing waits any more the facts are the solution: what flowed     *)
(* along the calls, in whatever order and through whatever cycles, is what *)
(* the calls lead to (_propagate_transitive_call_facts).                   *)
THEOREM FactsExact == FactsSpec => []FactsAreExact
<1>1. ASSUME FactsInv PROVE FactsAreExact
  <2> SUFFICES ASSUME queued = {}, NEW i \in Ids PROVE facts[i] = Solved(i)
    BY <1>1 DEF FactsAreExact, FactsInv, FactsTypeInv
  <2>1. /\ Given /\ facts[i] \in Fact /\ AtLeast(facts[i], i) /\ AtMost(facts[i], i)
    BY <1>1 DEF FactsInv, FactsTypeInv, Bounded
  <2>2. \A j \in Reach(i) : j \in Ids /\ AtLeast(facts[j], j) /\ facts[j] \in Fact
    BY <1>1, ReachFollows DEF FactsInv, FactsTypeInv, Bounded
  <2> DEFINE unsafe == {j \in Below(i) : LeadsToUnsafe(j)}
  <2>3. \A j \in unsafe : /\ facts[i].internal
                          /\ InitialFact(j).reasons \cup {UnsafeCallee}
                                \subseteq facts[i].reasons
    BY <1>1, ClosedFactsTell
  <2>4. facts[i].internal = Solved(i).internal
    BY <2>1, <2>3 DEF AtLeast, AtMost, Solved, Fact
  <2>5. facts[i].caller = Solved(i).caller
    BY <2>1 DEF AtMost, Solved
  <2>6. facts[i].reasons = Solved(i).reasons
    <3> DEFINE label == IF unsafe # {} THEN {UnsafeCallee} ELSE {}
               theirs == UNION {InitialFact(j).reasons : j \in unsafe}
    <3>1. Solved(i).reasons = InitialFact(i).reasons \cup label \cup theirs
      BY DEF Solved
    <3>2. theirs \subseteq facts[i].reasons /\ label \subseteq facts[i].reasons
      BY <2>3
    <3> HIDE DEF label, theirs
    <3> QED BY <2>1, <3>1, <3>2 DEF AtLeast, AtMost
  <2>7. facts[i].gaps = Solved(i).gaps
    <3>1. \A j \in Reach(i) : InitialFact(j).gaps \subseteq facts[i].gaps
      BY <1>1, <2>2, ClosedFactsCover DEF AtLeast
    <3>2. Solved(i).gaps \subseteq facts[i].gaps
      BY <3>1 DEF Solved
    <3> QED BY <2>1, <3>2 DEF AtMost
  <2>8. facts[i].features = Solved(i).features
    <3>1. \A j \in Reach(i) : InitialFact(j).features \subseteq facts[i].features
      BY <1>1, <2>2, ClosedFactsCover DEF AtLeast
    <3>2. Solved(i).features \subseteq facts[i].features
      BY <3>1 DEF Solved
    <3> QED BY <2>1, <3>2 DEF AtMost
  <2>9. facts[i].state = Solved(i).state
    <3> DEFINE States == {InitialFact(j).state : j \in Reach(i)}
               Top(r) == \A j \in Reach(i) : InitialFact(j).state <= r
    <3>1. \A j \in Reach(i) : InitialFact(j).state \in 0..3 /\ facts[j].state \in 0..3
      BY <2>1, <2>2, InitialIsFact DEF Fact, State
    <3>2. facts[i].state \in States
      BY <2>1 DEF AtMost
    <3>3. Top(facts[i].state)
      <4> SUFFICES ASSUME NEW j \in Reach(i) PROVE InitialFact(j).state <= facts[i].state
        OBVIOUS
      <4>1. InitialFact(j).state <= facts[j].state /\ facts[j].state <= facts[i].state
        BY <1>1, <2>2, ClosedFactsCover DEF AtLeast
      <4>2. i \in Reach(i)
        BY ReachFollows
      <4> QED BY <3>1, <4>1, <4>2
    <3>4. \A r \in States : Top(r) => r = facts[i].state
      <4> SUFFICES ASSUME NEW j \in Reach(i), Top(InitialFact(j).state)
                   PROVE  InitialFact(j).state = facts[i].state
        OBVIOUS
      <4>1. PICK k \in Reach(i) : facts[i].state = InitialFact(k).state
        BY <2>1 DEF AtMost
      <4>2. /\ InitialFact(k).state <= InitialFact(j).state
            /\ InitialFact(j).state <= InitialFact(k).state
        BY <3>3, <4>1
      <4> QED BY <3>1, <4>1, <4>2
    <3>5. Solved(i).state = CHOOSE r \in States : Top(r)
      BY DEF Solved
    <3> HIDE DEF States, Top
    <3> QED BY <3>2, <3>3, <3>4, <3>5
  <2>10. facts[i] = [internal |-> facts[i].internal, caller |-> facts[i].caller,
                     reasons |-> facts[i].reasons, gaps |-> facts[i].gaps,
                     features |-> facts[i].features, state |-> facts[i].state]
    BY <2>1 DEF Fact
  <2>11. Solved(i) = [internal |-> Solved(i).internal, caller |-> Solved(i).caller,
                      reasons |-> Solved(i).reasons, gaps |-> Solved(i).gaps,
                      features |-> Solved(i).features, state |-> Solved(i).state]
    BY DEF Solved
  <2> QED BY <2>4, <2>5, <2>6, <2>7, <2>8, <2>9, <2>10, <2>11
<1> QED BY <1>1, FactsInvariance, PTL

(* A proof gap of any body of an identity, hidden duplicates included, is  *)
(* in the published facts of every slot whose calls lead there.            *)
THEOREM GapsReach == FactsSpec => []GapsReachEveryCaller
<1>1. ASSUME FactsInv PROVE GapsReachEveryCaller
  <2> SUFFICES ASSUME published # own, NEW s \in Slot, NEW t \in Slot,
                      FactId(t) \in Reach(FactId(s))
               PROVE  own[t].gaps \subseteq published[s].gaps
    BY DEF GapsReachEveryCaller
  <2>1. queued = {} /\ published[s] = facts[FactId(s)]
    BY <1>1 DEF FactsInv, PublishedInv
  <2>2. FactId(s) \in Ids /\ FactId(t) \in Ids /\ t \in Sharing(FactId(t))
    BY Identities DEF Sharing
  <2>3. own[t].gaps \subseteq InitialFact(FactId(t)).gaps
    BY <2>2 DEF InitialFact
  <2>4. InitialFact(FactId(t)).gaps \subseteq facts[FactId(t)].gaps
    BY <1>1, <2>2 DEF FactsInv, Bounded, AtLeast
  <2>5. facts[FactId(t)].gaps \subseteq facts[FactId(s)].gaps
    BY <1>1, <2>1, <2>2, ClosedFactsCover
  <2> QED BY <2>1, <2>3, <2>4, <2>5
<1> QED BY <1>1, FactsInvariance, PTL
----------------------------------------------------------------------------
(* Emission follows pruning in the same call of _prune_unresolved.  Its    *)
(* invariant: in the backends that merge, no body ever needs more than it  *)
(* was gated with, since every callable keeps a body that needs nothing;   *)
(* in the others, each body ends up needing what it calls needs.           *)
LiveInv ==
    /\ program \in Program
    /\ live \in SUBSET Slot /\ Closed(program, live)
    /\ stage \in {"mark", "propagate", "merge", "record", "done"}

NeedsInv ==
    \A K \in SUBSET SlotKey : Complete(program, K) =>
        \A s \in live : program.key[s] \in K => needs[s] = program.caps[s]

SolvedInv ==
    stage \in {"merge", "record", "done"} =>
        \A s \in live : Inherited(s) \subseteq needs[s]

MarkedInv ==
    stage \in {"propagate", "merge"} =>
        \A s \in live :
            unguarded[s] = {k \in program.guards[s] : Providers(program, live, k) = {}}

MergedInv ==
    stage \in {"record", "done"} =>
        /\ live \ Ranked(program) \subseteq emitted
        /\ \A s \in live \cap Ranked(program) :
              Canonical(s) \in emitted \cap LiveGroup(s)
        /\ \A e \in emitted :
              /\ e \in live
              /\ Bodies(e) = IF e \in Ranked(program) THEN LiveGroup(e) ELSE {e}
              /\ unguarded[e] = {} =>
                    \A b \in Bodies(e) : \A k \in program.guards[b] :
                        Providers(program, live, k) # {}

CoveredInv ==
    stage = "done" =>
        covered = {s \in live : s \in Ranked(program) =>
                      \A t \in live \cap Ranked(program) :
                          program.label[t] = program.label[s] => s <= t}

EInv == LiveInv /\ NeedsInv /\ SolvedInv /\ MarkedInv /\ MergedInv /\ CoveredInv
(* The largest closed set is closed: closed sets support one another.      *)
LEMMA LargestIsClosed ==
    ASSUME program \in LoweredProgram
    PROVE  Closed(program, LargestClosed)
<1> SUFFICES ASSUME NEW s \in LargestClosed
             PROVE  CallsResolve(program, LargestClosed, s)
                    /\ Backed(program, LargestClosed, s)
  BY DEF Closed
<1>1. PICK S \in SUBSET Slot : s \in S /\ Closed(program, S)
  BY DEF LargestClosed
<1>2. S \subseteq LargestClosed
  BY <1>1 DEF LargestClosed
<1>3. CallsResolve(program, S, s) /\ Backed(program, S, s)
  BY <1>1 DEF Closed
<1>4. CallsResolve(program, LargestClosed, s)
  BY <1>2, <1>3 DEF CallsResolve, Providers
<1>5. Backed(program, LargestClosed, s)
  BY <1>2, <1>3 DEF Backed
<1> QED BY <1>4, <1>5

(* The groups of ranked slots: same identity, same form, one group for all *)
(* members.                                                                *)
LEMMA Groups ==
    ASSUME NEW s \in Ranked(program)
    PROVE  /\ s \in Group(program, s)
           /\ \A t \in Group(program, s) :
                 /\ t \in Slot /\ t \in Ranked(program)
                 /\ program.key[t] = program.key[s] /\ program.form[t] = program.form[s]
                 /\ Group(program, t) = Group(program, s)
BY DEF Group, Ranked

(* In a complete backend, a live group has a live body that needs nothing. *)
LEMMA FallbackLives ==
    ASSUME LiveInv, NeedsInv, NEW K \in SUBSET SlotKey, Complete(program, K),
           NEW s \in live \cap Ranked(program)
    PROVE  /\ program.key[s] \in K
           /\ \E f \in LiveGroup(s) : needs[f] = {}
<1>1. s \in Slot
  BY DEF LiveInv
<1>2. program.key[s] \in K /\ Fallbacks(program, s) # {}
  BY <1>1 DEF Complete
<1>3. PICK f : f \in Fallbacks(program, s)
  BY <1>2
<1>4. f \in Group(program, s) /\ program.caps[f] = {}
  BY <1>3 DEF Fallbacks
<1>5. f \in live
  BY <1>3 DEF LiveInv, Closed, Backed
<1>6. program.key[f] \in K
  BY <1>2, <1>4, Groups
<1>7. needs[f] = {}
  BY <1>4, <1>5, <1>6 DEF NeedsInv
<1> QED BY <1>2, <1>4, <1>5, <1>7 DEF LiveGroup

(* A callable is a set of live slots of one identity; it is not empty, and *)
(* has a last one.                                                         *)
LEMMA CallableSlots ==
    ASSUME LiveInv, NEW k, NEW g \in Callables(k)
    PROVE  /\ g # {} /\ g \subseteq live
           /\ \A t \in g : program.key[t] = k
           /\ \A t \in g : \A u \in live :
                 program.key[u] = k /\ program.form[u] = program.form[t] => u \in g
           /\ (CHOOSE t \in g : \A u \in g : u <= t) \in g
<1>1. /\ g # {} /\ g \subseteq live
      /\ \A t \in g : program.key[t] = k
      /\ \A t \in g : \A u \in live :
            program.key[u] = k /\ program.form[u] = program.form[t] => u \in g
  BY DEF Callables, Providers
<1>2. g \in SUBSET Nat /\ IsFiniteSet(g)
  <2>1. g \subseteq Slot
    BY <1>1 DEF LiveInv
  <2> QED BY <2>1, FS_Subset
<1>3. \E t \in g : \A u \in g : u <= t
  BY <1>1, <1>2, GreatestNatural
<1> QED BY <1>1, <1>3

(* In a complete backend, every callable has a body that needs nothing.    *)
LEMMA CallableIsFree ==
    ASSUME LiveInv, NeedsInv, NEW K \in SUBSET SlotKey, Complete(program, K),
           NEW k \in K, NEW g \in Callables(k)
    PROVE  /\ Asks(g) = {}
           /\ \E t \in g : needs[t] = {}
<1>1. CASE g \cap Ranked(program) # {}
  <2>1. PICK t \in g : t \in live \cap Ranked(program)
    BY <1>1, CallableSlots
  <2>2. PICK f \in LiveGroup(t) : needs[f] = {}
    BY <2>1, FallbackLives
  <2>3. f \in live /\ program.key[f] = k /\ program.form[f] = program.form[t]
    BY <2>1, <2>2, Groups, CallableSlots DEF LiveGroup
  <2>4. f \in g
    BY <2>1, <2>3, CallableSlots
  <2> QED BY <1>1, <2>2, <2>4 DEF Asks
<1>2. CASE g \cap Ranked(program) = {}
  <2>1. \A t \in g : needs[t] = {}
    <3> SUFFICES ASSUME NEW t \in g PROVE needs[t] = {}
      OBVIOUS
    <3>1. t \in live /\ t \in Slot /\ program.key[t] = k /\ t \notin Ranked(program)
      BY <1>2, CallableSlots DEF LiveInv
    <3>2. program.caps[t] = {}
      BY <3>1 DEF Complete
    <3> QED BY <3>1, <3>2 DEF NeedsInv
  <2>2. Asks(g) = {}
    BY <1>2, <2>1, CallableSlots DEF Asks
  <2> QED BY <2>1, <2>2, CallableSlots
<1> QED BY <1>1, <1>2

LEMMA CompleteInheritsNothing ==
    ASSUME LiveInv, NeedsInv, NEW K \in SUBSET SlotKey, Complete(program, K),
           NEW s \in live, program.key[s] \in K
    PROVE  Inherited(s) = {}
<1>1. \A k \in program.callees[s] : k \in K
  BY DEF Complete, LiveInv
<1>2. ASSUME NEW k \in program.callees[s]
      PROVE  UNION {Asks(g) : g \in Callables(k)} = {}
  <2>1. \A g \in Callables(k) : Asks(g) = {}
    BY <1>1, CallableIsFree
  <2> QED BY <2>1
<1> QED BY <1>2 DEF Inherited

(* Every ranked slot is in a complete backend, its group is merged, and    *)
(* one of the group stands for it.                                         *)
LEMMA GroupsMerge ==
    ASSUME LiveInv, NeedsInv, NEW s \in live \cap Ranked(program)
    PROVE  /\ Mergeable(s)
           /\ Canonical(s) \in LiveGroup(s)
<1>1. PICK K \in SUBSET SlotKey : Complete(program, K)
  BY BranchEmissionAssumption DEF LiveInv, FallbacksAreKept
<1>2. Mergeable(s)
  BY <1>1, FallbackLives DEF Mergeable
<1> DEFINE G == LiveGroup(s)
           Ranks == {program.rank[t] : t \in G}
<1>3. G \in SUBSET Nat /\ IsFiniteSet(G) /\ G # {} /\ G \subseteq Ranked(program)
  <2>1. s \in G
    BY Groups DEF LiveGroup
  <2>2. G \in SUBSET Slot /\ G \subseteq Ranked(program)
    BY DEF LiveGroup, Group, LiveInv, Ranked
  <2> HIDE DEF G
  <2> QED BY <2>1, <2>2, FS_Subset
<1>4. Ranks \in SUBSET Nat /\ IsFiniteSet(Ranks) /\ Ranks # {}
  <2>1. \A t \in G : program.rank[t] \in Nat
    BY <1>3, CallGraphAssumption DEF LiveInv, LoweredProgram, Ranked, Unranked
  <2> HIDE DEF G
  <2> DEFINE f == [t \in G |-> program.rank[t]]
  <2>2. f \in Surjection(G, Ranks)
    BY DEF Surjection
  <2>3. IsFiniteSet(Ranks)
    <3> HIDE DEF f, Ranks
    <3> QED BY <1>3, <2>2, FS_Surjection
  <2> QED BY <1>3, <2>1, <2>3
<1> HIDE DEF G
<1>5. PICK r \in Ranks : \A q \in Ranks : q <= r
  <2> HIDE DEF Ranks
  <2> QED BY <1>4, GreatestNatural
<1> DEFINE Last == {t \in G : program.rank[t] = r}
<1>6. PICK t \in Last : \A u \in Last : u <= t
  <2>1. Last \in SUBSET Nat /\ Last # {} /\ IsFiniteSet(Last)
    BY <1>3, <1>5, FS_Subset
  <2> HIDE DEF Last
  <2> QED BY <2>1, GreatestNatural
<1>7. ASSUME NEW u \in G
      PROVE  \/ program.rank[u] < program.rank[t]
             \/ program.rank[u] = program.rank[t] /\ u <= t
  <2>1. program.rank[u] \in Ranks /\ program.rank[u] <= r /\ program.rank[t] = r
    BY <1>5, <1>6
  <2>2. program.rank[u] \in Nat /\ r \in Nat
    BY <1>4, <2>1
  <2>3. program.rank[u] = r => u <= t
    BY <1>6
  <2> HIDE DEF Ranks, Last
  <2> QED BY <2>1, <2>2, <2>3
<1>8. Canonical(s) \in G
  BY <1>6, <1>7 DEF Canonical, G
<1> QED BY <1>2, <1>8 DEF G
----------------------------------------------------------------------------
(* What emission reads off a list that does not change. *)
LEMMA SameList ==
    ASSUME UNCHANGED <<program, live, needs>>
    PROVE  /\ Ranked(program)' = Ranked(program)
           /\ \A s : /\ LiveGroup(s)' = LiveGroup(s)
                     /\ Canonical(s)' = Canonical(s)
                     /\ Inherited(s)' = Inherited(s)
           /\ \A k : Providers(program, live, k)' = Providers(program, live, k)
<1>1. /\ Ranked(program)' = Ranked(program)
      /\ \A k : Providers(program, live, k)' = Providers(program, live, k)
  BY DEF Ranked, Unranked, Providers
<1>2. \A s : LiveGroup(s)' = LiveGroup(s) /\ Canonical(s)' = Canonical(s)
  BY DEF Ranked, Unranked, LiveGroup, Group, Canonical
<1>3. \A s : Inherited(s)' = Inherited(s)
  BY DEF Inherited, Callables, Asks, Providers, Ranked, Unranked
<1> QED BY <1>1, <1>2, <1>3

(* What was merged stays so while nothing of it changes.                   *)
LEMMA MergedStays ==
    ASSUME MergedInv, UNCHANGED <<program, live, needs, unguarded, emitted, branches>>,
           stage' \in {"record", "done"} => stage \in {"record", "done"}
    PROVE  MergedInv'
<1>1. \A e : Bodies(e)' = Bodies(e)
  BY DEF Bodies
<1> QED BY <1>1, SameList DEF MergedInv

LEMMA EmissionStarts == EmissionInit => EInv
<1> SUFFICES ASSUME EmissionInit PROVE EInv
  OBVIOUS
<1>1. program \in Program /\ stage = "mark" /\ live = LargestClosed /\ needs = program.caps
  BY DEF EmissionInit
<1>2. LargestClosed \in SUBSET Slot
  BY DEF LargestClosed
<1>3. Closed(program, live)
  BY <1>1, LargestIsClosed
<1> QED BY <1>1, <1>2, <1>3
        DEF EInv, LiveInv, NeedsInv, SolvedInv, MarkedInv, MergedInv, CoveredInv

LEMMA MarkKeeps == EInv /\ MarkUnavailableChecked => EInv'
<1> SUFFICES ASSUME EInv, MarkUnavailableChecked PROVE EInv'
  OBVIOUS
<1>1. /\ stage' = "propagate" /\ program' = program /\ live' = live /\ needs' = needs
      /\ unguarded' = [s \in Slot |->
            IF s \in live
            THEN {k \in program.guards[s] : Providers(program, live, k) = {}}
            ELSE {}]
  BY DEF MarkUnavailableChecked
<1>2. \A s \in live : s \in Slot
  BY DEF EInv, LiveInv
<1>3. MarkedInv'
  BY <1>1, <1>2 DEF MarkedInv
<1>4. LiveInv' /\ NeedsInv'
  BY <1>1 DEF EInv, LiveInv, NeedsInv
<1> QED BY <1>1, <1>3, <1>4 DEF EInv, SolvedInv, MergedInv, CoveredInv

LEMMA PropagateKeeps == EInv /\ PropagateCapabilities => EInv'
<1> SUFFICES ASSUME EInv, PropagateCapabilities PROVE EInv'
  OBVIOUS
<1>1. /\ stage = "propagate" /\ program' = program /\ live' = live /\ unguarded' = unguarded
      /\ needs' = [s \in Slot |->
            IF s \in live THEN program.caps[s] \cup Inherited(s) ELSE needs[s]]
      /\ stage' = IF needs' = needs THEN "merge" ELSE "propagate"
  BY DEF PropagateCapabilities
<1>2. \A s \in live : s \in Slot /\ needs'[s] = program.caps[s] \cup Inherited(s)
  BY <1>1 DEF EInv, LiveInv
<1>3. LiveInv' /\ MarkedInv'
  BY <1>1 DEF EInv, LiveInv, MarkedInv
<1>4. NeedsInv'
  <2> SUFFICES ASSUME NEW K \in SUBSET SlotKey, Complete(program, K),
                      NEW s \in live, program.key[s] \in K
               PROVE  needs'[s] = program.caps[s]
    BY <1>1 DEF NeedsInv
  <2>1. Inherited(s) = {}
    BY CompleteInheritsNothing DEF EInv
  <2> QED BY <1>2, <2>1
<1>5. SolvedInv'
  <2> SUFFICES ASSUME needs' = needs, NEW s \in live
               PROVE  Inherited(s)' \subseteq needs'[s]
    BY <1>1 DEF SolvedInv
  <2>1. Inherited(s)' = Inherited(s)
    BY <1>1, SameList
  <2> QED BY <1>2, <2>1
<1> QED BY <1>1, <1>3, <1>4, <1>5 DEF EInv, MergedInv, CoveredInv

(* The group of a canonical slot is the group it stands for.               *)
LEMMA CanonicalGroup ==
    ASSUME NEW s \in live \cap Ranked(program), NEW t \in LiveGroup(s)
    PROVE  /\ t \in live \cap Ranked(program)
           /\ LiveGroup(t) = LiveGroup(s)
BY Groups DEF LiveGroup

LEMMA MergeKeeps == EInv /\ Merge => EInv'
<1> SUFFICES ASSUME EInv, Merge PROVE EInv'
  OBVIOUS
<1> DEFINE unranked == live \ Ranked(program)
           heads == {s \in live \cap Ranked(program) : Mergeable(s)}
           canonical == {Canonical(s) : s \in heads}
<1>1. /\ stage = "merge" /\ stage' = "record"
      /\ program' = program /\ live' = live /\ needs' = needs
      /\ emitted' = unranked \cup canonical
      /\ branches' = [s \in Slot |-> IF s \in canonical THEN LiveGroup(s) \ {s} ELSE {}]
      /\ unguarded' = [s \in Slot |->
            IF s \in canonical THEN UNION {unguarded[t] : t \in LiveGroup(s)}
                               ELSE unguarded[s]]
  BY DEF Merge
<1>2. heads = live \cap Ranked(program)
  BY GroupsMerge DEF EInv
<1>3. \A s \in heads : Canonical(s) \in canonical /\ Canonical(s) \in LiveGroup(s)
  BY GroupsMerge DEF EInv
<1>4. \A e \in canonical : e \in live /\ e \in Ranked(program) /\ e \in LiveGroup(e)
  BY <1>3, CanonicalGroup
<1>5. live \subseteq Slot /\ emitted' \subseteq live
  BY <1>1, <1>4 DEF EInv, LiveInv
<1> HIDE DEF heads, canonical
<1>6. LiveInv' /\ NeedsInv'
  BY <1>1 DEF EInv, LiveInv, NeedsInv
<1>7. SolvedInv'
  <2> SUFFICES ASSUME NEW s \in live PROVE Inherited(s)' \subseteq needs'[s]
    BY <1>1 DEF SolvedInv
  <2>1. Inherited(s)' = Inherited(s)
    BY <1>1, SameList
  <2> QED BY <1>1, <2>1 DEF EInv, SolvedInv
<1>8. /\ Ranked(program)' = Ranked(program)
      /\ \A s : LiveGroup(s)' = LiveGroup(s) /\ Canonical(s)' = Canonical(s)
  BY <1>1, SameList
<1>9. ASSUME NEW e \in emitted'
      PROVE  Bodies(e)' = IF e \in Ranked(program) THEN LiveGroup(e) ELSE {e}
  <2>1. CASE e \in canonical
    BY <1>1, <1>4, <1>5, <2>1 DEF Bodies
  <2>2. CASE e \notin canonical
    BY <1>1, <1>5, <2>2 DEF Bodies
  <2> QED BY <2>1, <2>2
<1>10. \A s \in live :
          unguarded[s] = {k \in program.guards[s] : Providers(program, live, k) = {}}
  BY <1>1 DEF EInv, MarkedInv
<1>11. ASSUME NEW e \in emitted', unguarded'[e] = {}, NEW b \in Bodies(e)',
              NEW k \in program.guards[b]
       PROVE  Providers(program, live, k) # {}
  <2>1. CASE e \in canonical
    <3>1. b \in LiveGroup(e) /\ b \in live
      BY <1>4, <1>9, <1>11, <2>1 DEF LiveGroup
    <3>2. unguarded[b] = {}
      BY <1>1, <1>5, <1>11, <2>1, <3>1
    <3> QED BY <1>10, <1>11, <3>1, <3>2
  <2>2. CASE e \notin canonical
    <3>1. b = e /\ b \in live
      BY <1>1, <1>5, <1>9, <1>11, <2>2
    <3>2. unguarded[b] = {}
      BY <1>1, <1>5, <1>11, <2>2, <3>1
    <3> QED BY <1>10, <1>11, <3>1, <3>2
  <2> QED BY <2>1, <2>2
<1>12. MergedInv'
  <2>1. \A k : Providers(program, live, k)' = Providers(program, live, k)
    BY <1>1 DEF Providers
  <2> QED BY <1>1, <1>2, <1>3, <1>5, <1>8, <1>9, <1>11, <2>1 DEF MergedInv
<1> QED BY <1>1, <1>6, <1>7, <1>12 DEF EInv, MarkedInv, CoveredInv

LEMMA RecordKeeps == EInv /\ RecordCoverage => EInv'
<1> SUFFICES ASSUME EInv, RecordCoverage PROVE EInv'
  OBVIOUS
<1>1. /\ stage = "record" /\ stage' = "done"
      /\ UNCHANGED <<program, live, needs, unguarded, emitted, branches>>
      /\ covered' = {s \in live : s \in Ranked(program) =>
                        \A t \in live \cap Ranked(program) :
                            program.label[t] = program.label[s] => s <= t}
  BY DEF RecordCoverage
<1>2. LiveInv' /\ NeedsInv' /\ MarkedInv'
  BY <1>1 DEF EInv, LiveInv, NeedsInv, MarkedInv
<1>3. SolvedInv'
  BY <1>1, SameList DEF EInv, SolvedInv
<1>4. MergedInv'
  BY <1>1, MergedStays DEF EInv
<1>5. CoveredInv'
  BY <1>1, SameList DEF CoveredInv
<1> QED BY <1>2, <1>3, <1>4, <1>5 DEF EInv

LEMMA EmissionStutters == EInv /\ UNCHANGED emissionVars => EInv'
<1> SUFFICES ASSUME EInv, UNCHANGED emissionVars PROVE EInv'
  OBVIOUS
<1>1. UNCHANGED <<program, stage, live, needs, unguarded, emitted, branches, covered>>
  BY DEF emissionVars
<1>2. LiveInv' /\ NeedsInv' /\ MarkedInv'
  BY <1>1 DEF EInv, LiveInv, NeedsInv, MarkedInv
<1>3. SolvedInv'
  BY <1>1, SameList DEF EInv, SolvedInv
<1>4. MergedInv'
  BY <1>1, MergedStays DEF EInv
<1>5. CoveredInv'
  BY <1>1, SameList DEF EInv, CoveredInv
<1> QED BY <1>2, <1>3, <1>4, <1>5 DEF EInv

(* The invariant of emission, for slot lists that keep their fallbacks.    *)
LEMMA EmissionInvariance == EmissionSpec => []EInv
<1>1. EInv /\ [EmissionNext]_emissionVars => EInv'
  BY MarkKeeps, PropagateKeeps, MergeKeeps, RecordKeeps, EmissionStutters DEF EmissionNext
<1> QED BY EmissionStarts, <1>1, PTL DEF EmissionSpec
----------------------------------------------------------------------------
(* Every live identity is emitted, under one body of it.                   *)
LEMMA LiveIsEmitted ==
    ASSUME EInv, stage \in {"record", "done"}, NEW s \in live
    PROVE  \E t \in emitted : program.key[t] = program.key[s]
<1>1. CASE s \in Ranked(program)
  <2>1. Canonical(s) \in emitted /\ Canonical(s) \in LiveGroup(s)
    BY <1>1 DEF EInv, MergedInv
  <2>2. program.key[Canonical(s)] = program.key[s]
    BY <1>1, <2>1, Groups DEF LiveGroup
  <2> QED BY <2>1, <2>2
<1>2. CASE s \notin Ranked(program)
  BY <1>2 DEF EInv, MergedInv
<1> QED BY <1>1, <1>2

(* The bodies behind an emitted slot are live.                             *)
LEMMA BodiesAreLive ==
    ASSUME EInv, stage \in {"record", "done"}, NEW e \in emitted
    PROVE  e \in Bodies(e) /\ Bodies(e) \subseteq live
<1>1. e \in live /\ Bodies(e) = IF e \in Ranked(program) THEN LiveGroup(e) ELSE {e}
  BY DEF EInv, MergedInv
<1> QED BY <1>1, Groups DEF LiveGroup

LEMMA CallsLink == EInv => EmittedCallsResolve
<1> SUFFICES ASSUME EInv, stage = "done", NEW e \in emitted, NEW b \in Bodies(e),
                    NEW k \in program.callees[b]
             PROVE  \E t \in emitted : program.key[t] = k
  BY DEF EmittedCallsResolve
<1>1. b \in live
  BY BodiesAreLive
<1>2. PICK s \in live : program.key[s] = k
  BY <1>1 DEF EInv, LiveInv, Closed, CallsResolve, Providers
<1> QED BY <1>2, LiveIsEmitted

(* Every call of every emitted body goes to an emitted identity.           *)
THEOREM EmittedCallsLink == EmissionSpec => []EmittedCallsResolve
BY EmissionInvariance, CallsLink, PTL

LEMMA CompanionsLink == EInv => CheckedCompanionsLink
<1> SUFFICES ASSUME EInv, stage = "done", NEW e \in emitted, unguarded[e] = {},
                    NEW b \in Bodies(e), NEW k \in program.guards[b]
             PROVE  \E t \in emitted : program.key[t] = k
  BY DEF CheckedCompanionsLink
<1>1. Providers(program, live, k) # {}
  BY DEF EInv, MergedInv
<1>2. PICK s \in live : program.key[s] = k
  BY <1>1 DEF Providers
<1> QED BY <1>2, LiveIsEmitted

(* A checked companion that is offered calls only emitted identities.      *)
THEOREM CompanionsAreWhole == EmissionSpec => []CheckedCompanionsLink
BY EmissionInvariance, CompanionsLink, PTL

LEMMA EnabledCall == EInv => EnabledBodiesCanCall
<1> SUFFICES ASSUME EInv, stage = "done", NEW C \in SUBSET Capability, NEW s \in live,
                    needs[s] \subseteq C, NEW k \in program.callees[s],
                    NEW g \in Callables(k)
             PROVE  \E t \in g : needs[t] \subseteq C
  BY DEF EnabledBodiesCanCall
<1>1. PICK K \in SUBSET SlotKey : Complete(program, K)
  BY BranchEmissionAssumption DEF EInv, LiveInv, FallbacksAreKept
<1>2. s \in Slot
  BY DEF EInv, LiveInv
<1>3. CASE program.key[s] \in K
  <2>1. k \in K
    BY <1>1, <1>2, <1>3 DEF Complete
  <2> QED BY <1>1, <2>1, CallableIsFree DEF EInv
<1>4. CASE program.key[s] \notin K
  <2>1. k \notin K
    BY <1>1, <1>2, <1>4 DEF Complete
  <2> DEFINE last == CHOOSE t \in g : \A u \in g : u <= t
  <2>2. last \in g
    BY CallableSlots DEF EInv
  <2>3. g \cap Ranked(program) = {}
    <3>1. \A t \in g : t \in Slot /\ program.key[t] = k
      BY CallableSlots DEF EInv, LiveInv
    <3> QED BY <1>1, <2>1, <3>1 DEF Complete
  <2>4. Asks(g) = needs[last]
    BY <2>3 DEF Asks
  <2>5. Asks(g) \subseteq Inherited(s)
    BY DEF Inherited
  <2>6. Inherited(s) \subseteq needs[s]
    BY DEF EInv, SolvedInv
  <2> HIDE DEF last
  <2> QED BY <2>2, <2>4, <2>5, <2>6
<1> QED BY <1>3, <1>4

(* Under any set of capabilities of the downstream compiler, a body it     *)
(* enables calls only callables of which it enables a body.                *)
THEOREM EnabledBodiesLink == EmissionSpec => []EnabledBodiesCanCall
BY EmissionInvariance, EnabledCall, PTL

LEMMA CoverageHolds == EInv => CoverageIsEmission
<1> SUFFICES ASSUME EInv, stage = "done" PROVE CoverageIsEmission
  BY DEF CoverageIsEmission
<1> DEFINE R == Ranked(program)
           First(s) == \A t \in live \cap R : program.label[t] = program.label[s] => s <= t
<1>1. \A s \in R : \A t \in Group(program, s) : program.label[t] = program.label[s]
  BY BranchEmissionAssumption DEF EInv, LiveInv, LabelsFollowGroups
<1>2. covered = {s \in live : s \in R => First(s)}
  BY DEF EInv, CoveredInv
<1>3. \A s \in live : s \in Nat
  BY DEF EInv, LiveInv
<1> HIDE DEF R
<1>4. ASSUME NEW s \in covered PROVE \E e \in emitted : s \in Bodies(e)
  <2>1. s \in live
    BY <1>2
  <2>2. CASE s \in R
    <3> DEFINE e == Canonical(s)
    <3>1. e \in emitted /\ e \in LiveGroup(s)
      BY <2>1, <2>2 DEF EInv, MergedInv, R
    <3>2. e \in Ranked(program) /\ LiveGroup(e) = LiveGroup(s)
      BY <2>1, <2>2, <3>1, CanonicalGroup DEF R
    <3>3. s \in LiveGroup(s)
      BY <2>1, <2>2, Groups DEF LiveGroup, R
    <3>4. Bodies(e) = LiveGroup(e)
      BY <3>1, <3>2 DEF EInv, MergedInv
    <3> QED BY <3>1, <3>2, <3>3, <3>4
  <2>3. CASE s \notin R
    BY <2>1, <2>3, BodiesAreLive DEF EInv, MergedInv, R
  <2> QED BY <2>2, <2>3
<1>5. ASSUME NEW e \in emitted PROVE \E s : EntriesOf(e) = {s}
  <2>1. e \in live
    BY DEF EInv, MergedInv
  <2>2. CASE e \in R
    <3> DEFINE Class == {t \in live \cap R : program.label[t] = program.label[e]}
    <3>1. Class \in SUBSET Nat /\ Class # {} /\ Class \subseteq live
      BY <1>3, <2>1, <2>2
    <3>2. PICK m \in Class : \A n \in Class : m <= n
      <4> HIDE DEF Class
      <4> QED BY <3>1, LeastNatural
    <3>3. m \in covered
      BY <1>2, <3>2
    <3>4. EntriesOf(e) = covered \cap Class
      BY <1>2, <2>2 DEF EntriesOf, R
    <3>5. ASSUME NEW s \in covered \cap Class PROVE s = m
      <4>1. s <= m /\ m <= s
        BY <1>2, <3>2, <3>5
      <4> QED BY <3>1, <3>5, <4>1
    <3> HIDE DEF Class
    <3> QED BY <3>2, <3>3, <3>4, <3>5
  <2>3. CASE e \notin R
    BY <1>2, <2>1, <2>3 DEF EntriesOf, R
  <2> QED BY <2>2, <2>3
<1>6. ASSUME NEW e \in emitted PROVE covered \cap Bodies(e) \subseteq EntriesOf(e)
  <2>1. /\ e \in live /\ covered \subseteq live
        /\ Bodies(e) = IF e \in R THEN LiveGroup(e) ELSE {e}
    BY <1>2 DEF EInv, MergedInv, R
  <2>2. CASE e \in R
    <3>1. \A s \in LiveGroup(e) : s \in R /\ program.label[s] = program.label[e]
      BY <1>1, <2>1, <2>2, CanonicalGroup DEF LiveGroup, R
    <3> QED BY <2>1, <2>2, <3>1 DEF EntriesOf, R
  <2>3. CASE e \notin R
    BY <2>1, <2>3 DEF EntriesOf, R
  <2> QED BY <2>2, <2>3
<1>7. ASSUME NEW e \in emitted
      PROVE  /\ Cardinality(covered \cap Bodies(e)) <= 1
             /\ Cardinality(EntriesOf(e)) = 1
  <2>1. PICK s : EntriesOf(e) = {s}
    BY <1>5
  <2>2. covered \cap Bodies(e) = {} \/ covered \cap Bodies(e) = {s}
    BY <1>6, <2>1
  <2> HIDE DEF R
  <2>3. Cardinality({s}) = 1 /\ Cardinality({}) = 0
    BY FS_Singleton, FS_EmptySet
  <2> QED BY <2>1, <2>2, <2>3
<1> HIDE DEF First
<1> QED BY <1>4, <1>7 DEF CoverageIsEmission

(* The coverage report tells of emitted slots only, of each of them, and   *)
(* of none twice, whatever signatures the groups share.                    *)
THEOREM CoverageTellsEmission == EmissionSpec => []CoverageIsEmission
BY EmissionInvariance, CoverageHolds, PTL

(* Emission starts from what pruning delivers: when the fixpoint is done,  *)
(* the live slots are the largest closed set.                              *)
THEOREM PruningDelivers == Spec => [](phase = "done" => Live = LargestClosed)
<1>1. IInv => (phase = "done" => Live = LargestClosed)
  <2> SUFFICES ASSUME IInv, phase = "done" PROVE Live = LargestClosed
    OBVIOUS
  <2>1. Live \in SUBSET Slot /\ Closed(program, Live)
    BY DEF IInv, FrontierInv, Live
  <2>2. \A S \in SUBSET Slot : Closed(program, S) => S \subseteq Live
    BY DEF IInv, PrunesNoClosedSet, Live
  <2> QED BY <2>1, <2>2 DEF LargestClosed
<1> QED BY <1>1, Invariance, PTL
=============================================================================
