----------------------- MODULE ProfileGenerationProofs -----------------------
(***************************************************************************)
(* Proofs about ProfileGeneration, for any catalog of finitely many        *)
(* primitives, types and extensions, and any requests.  The invariant      *)
(* says of the worklist that whatever a lowered body calls, and whatever   *)
(* the harness needs, was selected or is still to be; the rest follows     *)
(* from what was selected.                                                 *)
(***************************************************************************)
EXTENDS ProfileGeneration, FiniteSetTheorems, WellFoundedInduction, TLAPS

Item == [primitive : Primitive, types : SUBSET TypeTag, scope : SUBSET Extension]

TypeInv ==
    /\ catalog \in [Site -> Body]
    /\ request \in Request
    /\ phase \in {"discover", "record", "done", "raised"}
    /\ worklist \in SUBSET Item
    /\ processed \in SUBSET (Primitive \X TypeTag \X SUBSET Extension)
    /\ lowered \in [Site -> Nat] /\ skipped \in [Site -> Nat] /\ covered \in [Site -> Nat]
    /\ live \in SUBSET Site

(* Whether a site was selected, in any scope. *)
Selected(s) ==
    \E sc \in SUBSET Extension : InScope(s, sc) /\ <<s[1], s[2], sc>> \in processed

LoweredInv ==
    \A s \in Site : lowered[s] > 0 <=> catalog[s].outcome = "lowered" /\ Selected(s)

(* A primitive at a type was selected in a scope, or will be. *)
Pending(p, t, sc) ==
    \/ <<p, t, sc>> \in processed
    \/ \E w \in worklist : w.primitive = p /\ t \in w.types /\ w.scope = sc

CallsArePending ==
    \A s \in Site : \A sc \in SUBSET Extension :
        /\ catalog[s].outcome = "lowered"
        /\ InScope(s, sc) /\ <<s[1], s[2], sc>> \in processed
        => \A c \in catalog[s].calls \cup catalog[s].guards : Known(c) =>
              \A t \in TypesOf(c) : Pending(c.primitive, t, ScopeOf(c, sc))

HarnessIsPending ==
    \A h \in request.harness :
        /\ \A t \in request.types : Pending(h, t, NoScope)
        /\ \A s \in Site : lowered[s] > 0 =>
              \A t \in catalog[s].bases : Pending(h, t, NoScope)

(* Without an extension filter there is no scope, and every site is        *)
(* selected at most once.                                                  *)
UnscopedInv ==
    request.scope = NoScope =>
        /\ \A w \in worklist : w.scope = NoScope
        /\ \A x \in processed : x[3] = NoScope
        /\ \A s \in Site :
             LET selected == <<s[1], s[2], NoScope>> \in processed IN
             /\ lowered[s] = IF selected /\ catalog[s].outcome = "lowered" THEN 1 ELSE 0
             /\ phase = "discover" =>
                  skipped[s] = IF selected /\ catalog[s].outcome \in {"unlowered", "deferred"}
                               THEN 1 ELSE 0
             /\ phase \in {"record", "done"} =>
                  skipped[s] = IF /\ selected
                                  /\ \/ catalog[s].outcome \in {"unlowered", "deferred"}
                                     \/ catalog[s].outcome = "lowered" /\ s \notin live
                               THEN 1 ELSE 0

SupportInv ==
    request.support =>
        \A s \in Site :
            /\ phase = "discover" =>
                 /\ support[s] \in {"unknown", "absent", "lowered", "selected",
                                    "policy_deferred"}
                 /\ support[s] = "lowered" <=> lowered[s] > 0
            /\ phase \in {"record", "done"} =>
                 /\ support[s] = "pruned" <=> s \in Discovered \ live
                 /\ support[s] = "emitted" <=> phase = "done" /\ s \in live
                 /\ support[s] = "lowered" => phase = "record" /\ s \in live

(* Concrete calls of the sites of T stay inside it. *)
Stays(s, T) ==
    \A c \in catalog[s].calls : Concrete(c) =>
        <<c.primitive, c.type, c.extension>> \in T
Contained(T) == \A s \in T : Stays(s, T)

(* What is left when everything is lowered that will be. *)
ClosedInv ==
    /\ phase # "discover" => worklist = {}
    /\ phase \in {"record", "done"} =>
         /\ live \subseteq Discovered /\ Contained(live)
         /\ \A T \in SUBSET Discovered : Contained(T) => T \subseteq live
    /\ phase = "done" => \A s \in Site : covered[s] = IF s \in live THEN lowered[s] ELSE 0

IInv ==
    /\ TypeInv /\ LoweredInv /\ CallsArePending /\ HarnessIsPending
    /\ UnscopedInv /\ SupportInv /\ ClosedInv
-----------------------------------------------------------------------------
(* Generatable: the rounds exist, they stop at a set that is contained,    *)
(* and no contained part is lost on the way.                               *)

LEMMA SitesAreFinite == IsFiniteSet(Site) /\ \A S \in SUBSET Site : IsFiniteSet(S)
<1>1. IsFiniteSet(Primitive \X TypeTag)
  BY ProfileGenerationAssumption, FS_Product
<1>2. IsFiniteSet((Primitive \X TypeTag) \X Extension)
  BY <1>1, ProfileGenerationAssumption, FS_Product
<1> DEFINE f == [x \in (Primitive \X TypeTag) \X Extension |-> <<x[1][1], x[1][2], x[2]>>]
<1>3. f \in Surjection((Primitive \X TypeTag) \X Extension, Site)
  <2>1. ASSUME NEW s \in Site
        PROVE  \E x \in (Primitive \X TypeTag) \X Extension : f[x] = s
    <3> DEFINE x == <<<<s[1], s[2]>>, s[3]>>
    <3>1. x \in (Primitive \X TypeTag) \X Extension /\ f[x] = s
      BY DEF Site
    <3> QED BY <3>1
  <2>2. f \in [(Primitive \X TypeTag) \X Extension -> Site]
    BY DEF Site
  <2> HIDE DEF f
  <2> QED BY <2>1, <2>2 DEF Surjection
<1>4. IsFiniteSet(Site)
  BY <1>2, <1>3, FS_Surjection
<1> QED BY <1>4, FS_Subset

(* A set of naturals that is not empty has a least element. *)
LEMMA LeastNatural ==
    ASSUME NEW T \in SUBSET Nat, T # {}
    PROVE  \E m \in T : \A n \in T : m <= n
<1> DEFINE R == OpToRel(<, Nat)
<1>1. \A a, b \in Nat : a < b => <<a, b>> \in R
  BY DEF OpToRel
<1>2. IsWellFoundedOn(R, Nat)
  BY NatLessThanWellFounded
<1> HIDE DEF R
<1>3. PICK m \in T : \A n \in T : ~ (<<n, m>> \in R)
  BY <1>2, WFMin
<1>4. \A n \in T : ~ (n < m)
  BY <1>1, <1>3
<1> QED BY <1>4

(* What holds of 0 and of the successor of whatever it holds of holds of   *)
(* all naturals up to N.                                                   *)
LEMMA UpTo ==
    ASSUME NEW N \in Nat, NEW H, 0 \in H,
           \A n \in Nat : n \in H /\ n < N => n + 1 \in H
    PROVE  \A n \in 0..N : n \in H
<1> DEFINE T == {n \in 0..N : n \notin H}
<1> SUFFICES ASSUME T # {} PROVE FALSE
  OBVIOUS
<1>1. T \in SUBSET Nat
  OBVIOUS
<1>2. PICK m \in T : \A n \in T : m <= n
  <2> HIDE DEF T
  <2> QED BY <1>1, LeastNatural
<1>3. m # 0 /\ m - 1 \in 0..N /\ m - 1 < N /\ m - 1 \in H
  BY <1>2
<1>4. (m - 1) + 1 \in H
  BY <1>3
<1> QED BY <1>2, <1>4

(* One round of pruning. *)
Round(T) == {s \in T : Stays(s, T)}

(* f is the first N rounds from S. *)
AreRounds(f, S, N) == f = [n \in 0..N |-> IF n = 0 THEN S ELSE Round(f[n - 1])]

LEMMA RoundsExist ==
    ASSUME NEW S, NEW N \in Nat
    PROVE  \E f : AreRounds(f, S, N)
<1> DEFINE H == {n \in Nat : \E f : AreRounds(f, S, n)}
<1>1. 0 \in H
  <2>1. AreRounds([n \in 0..0 |-> S], S, 0)
    BY DEF AreRounds
  <2> QED BY <2>1
<1>2. ASSUME NEW n \in Nat, n \in H PROVE n + 1 \in H
  <2>1. PICK f : AreRounds(f, S, n)
    BY <1>2
  <2> DEFINE g == [k \in 0..(n + 1) |-> IF k <= n THEN f[k] ELSE Round(f[n])]
  <2>2. \A k \in 0..n : f[k] = IF k = 0 THEN S ELSE Round(f[k - 1])
    BY <2>1 DEF AreRounds
  <2>3. ASSUME NEW k \in 0..(n + 1) PROVE g[k] = IF k = 0 THEN S ELSE Round(g[k - 1])
    <3>1. CASE k = 0
      BY <2>2, <3>1
    <3>2. CASE k # 0 /\ k <= n
      <4>1. k - 1 \in 0..(n + 1) /\ k - 1 <= n /\ k \in 0..n
        BY <3>2
      <4>2. g[k - 1] = f[k - 1] /\ g[k] = f[k]
        BY <3>2, <4>1
      <4> HIDE DEF g
      <4> QED BY <2>2, <3>2, <4>1, <4>2
    <3>3. CASE k = n + 1
      <4>1. g[k] = Round(f[n]) /\ g[k - 1] = f[n] /\ k # 0
        BY <3>3
      <4> HIDE DEF g
      <4> QED BY <4>1
    <3> QED BY <3>1, <3>2, <3>3
  <2>4. g = [k \in 0..(n + 1) |-> g[k]]
    OBVIOUS
  <2> HIDE DEF g
  <2>5. AreRounds(g, S, n + 1)
    BY <2>3, <2>4 DEF AreRounds
  <2> QED BY <2>5
<1> HIDE DEF H
<1>3. \A n \in 0..N : n \in H
  BY <1>1, <1>2, UpTo
<1> QED BY <1>3 DEF H

LEMMA GeneratableIsARound ==
    ASSUME NEW S \in SUBSET Site
    PROVE  \E f : /\ AreRounds(f, S, Cardinality(S))
                  /\ Generatable(S) = f[Cardinality(S)]
<1> DEFINE N == Cardinality(S)
           f == CHOOSE keep : AreRounds(keep, S, N)
<1>1. N \in Nat
  BY SitesAreFinite, FS_CardinalityType
<1>2. AreRounds(f, S, N)
  BY <1>1, RoundsExist
<1>3. Generatable(S) = f[N]
  BY DEF Generatable, AreRounds, Round, Stays
<1> HIDE DEF f
<1> QED BY <1>2, <1>3

(* The largest contained part of a set of sites. *)
LEMMA GeneratableIsLargest ==
    ASSUME NEW S \in SUBSET Site
    PROVE  /\ Generatable(S) \subseteq S /\ Contained(Generatable(S))
           /\ \A T \in SUBSET S : Contained(T) => T \subseteq Generatable(S)
<1> DEFINE N == Cardinality(S)
<1>1. N \in Nat /\ IsFiniteSet(S)
  BY SitesAreFinite, FS_CardinalityType
<1>2. PICK f : AreRounds(f, S, N) /\ Generatable(S) = f[N]
  BY GeneratableIsARound
<1>3. f[0] = S /\ \A n \in Nat : n < N => f[n + 1] = Round(f[n])
  <2>1. \A n \in 0..N : f[n] = IF n = 0 THEN S ELSE Round(f[n - 1])
    BY <1>2 DEF AreRounds
  <2>2. 0 \in 0..N
    BY <1>1
  <2>3. ASSUME NEW n \in Nat, n < N PROVE f[n + 1] = Round(f[n])
    <3>1. n + 1 \in 0..N /\ n + 1 # 0 /\ (n + 1) - 1 = n
      BY <1>1, <2>3
    <3> QED BY <2>1, <3>1
  <2> QED BY <2>1, <2>2, <2>3
<1> DEFINE H == {n \in Nat : /\ f[n] \subseteq S
                             /\ \A T \in SUBSET S : Contained(T) => T \subseteq f[n]
                             /\ Contained(f[n]) \/ Cardinality(f[n]) <= N - n}
<1>4. 0 \in H
  BY <1>1, <1>3
<1>5. ASSUME NEW n \in Nat, n \in H, n < N PROVE n + 1 \in H
  <2>1. f[n + 1] = Round(f[n]) /\ f[n + 1] \subseteq f[n]
    BY <1>3, <1>5 DEF Round
  <2>2. \A T \in SUBSET S : Contained(T) => T \subseteq f[n + 1]
    BY <1>5, <2>1 DEF Round, Contained, Stays
  <2>3. CASE Contained(f[n])
    <3>1. f[n + 1] = f[n]
      BY <2>1, <2>3 DEF Round, Contained
    <3> QED BY <1>5, <2>3, <3>1
  <2>4. CASE ~ Contained(f[n])
    <3>1. f[n + 1] # f[n]
      BY <2>1, <2>4 DEF Round, Contained
    <3>2. IsFiniteSet(f[n])
      BY <1>1, <1>5, FS_Subset
    <3>3. /\ Cardinality(f[n + 1]) < Cardinality(f[n])
          /\ Cardinality(f[n + 1]) \in Nat /\ Cardinality(f[n]) \in Nat
      BY <2>1, <3>1, <3>2, FS_Subset, FS_CardinalityType
    <3> QED BY <1>1, <1>5, <2>1, <2>2, <2>4, <3>3
  <2> QED BY <2>3, <2>4
<1> HIDE DEF H
<1>6. N \in H
  <2>1. \A n \in 0..N : n \in H
    BY <1>1, <1>4, <1>5, UpTo
  <2> QED BY <1>1, <2>1
<1>7. Contained(f[N])
  <2>1. CASE Cardinality(f[N]) <= N - N
    <3>1. IsFiniteSet(f[N]) /\ Cardinality(f[N]) \in Nat
      BY <1>1, <1>6, FS_Subset, FS_CardinalityType DEF H
    <3>2. f[N] = {}
      BY <1>1, <2>1, <3>1, FS_EmptySet
    <3> QED BY <3>2 DEF Contained
  <2> QED BY <1>6, <2>1 DEF H
<1> QED BY <1>2, <1>6, <1>7 DEF H
-----------------------------------------------------------------------------
LEMMA InitInvariant == Init => IInv
<1> SUFFICES ASSUME Init PROVE IInv
  OBVIOUS
<1>1. /\ request \in Request /\ request.primitives \subseteq Primitive
      /\ request.types \subseteq TypeTag /\ request.scope \subseteq Extension
      /\ request.harness \subseteq Primitive /\ request.seeds \subseteq Primitive
  BY ProfileGenerationAssumption DEF Init
<1>2. TypeInv
  BY <1>1, ProfileGenerationAssumption DEF Init, TypeInv, Item, NoScope
<1>3. processed = {} /\ phase = "discover" /\ \A s \in Site : lowered[s] = 0 /\ skipped[s] = 0
  BY DEF Init
<1>4. LoweredInv /\ CallsArePending /\ ClosedInv
  BY <1>3 DEF LoweredInv, Selected, CallsArePending, ClosedInv
<1>5. HarnessIsPending
  <2> SUFFICES ASSUME NEW h \in request.harness, NEW t \in request.types
               PROVE  Pending(h, t, NoScope)
    BY <1>3 DEF HarnessIsPending
  <2> DEFINE w == [primitive |-> h, types |-> request.types, scope |-> NoScope]
  <2>1. w \in worklist
    BY DEF Init
  <2>2. w.primitive = h /\ t \in w.types /\ w.scope = NoScope
    OBVIOUS
  <2> QED BY <2>1, <2>2 DEF Pending
<1>6. UnscopedInv
  <2> SUFFICES ASSUME request.scope = NoScope, NEW w \in worklist PROVE w.scope = NoScope
    BY <1>3 DEF UnscopedInv
  <2> QED BY DEF Init
<1>7. SupportInv
  BY <1>3 DEF Init, SupportInv
<1> QED BY <1>2, <1>4, <1>5, <1>6, <1>7 DEF IInv

-----------------------------------------------------------------------------
(* One item of the worklist *)

(* The sites an item newly selects. *)
News(w, s) == s[1] = w.primitive /\ s[2] \in Remaining(w) /\ InScope(s, w.scope)

LEMMA ProcessFacts ==
    ASSUME IInv, NEW w \in worklist, Process(w)
    PROVE  /\ w \in Item /\ phase = "discover"
           /\ catalog' = catalog /\ request' = request /\ phase' = phase
           /\ live' = live /\ covered' = covered
           /\ processed' = processed \cup {<<w.primitive, t, w.scope>> : t \in Remaining(w)}
           /\ \A t \in w.types : <<w.primitive, t, w.scope>> \in processed'
           /\ lowered' = [s \in Site |-> IF News(w, s) /\ catalog[s].outcome = "lowered"
                                         THEN Plus(lowered[s], 1) ELSE lowered[s]]
           /\ skipped' = [s \in Site |->
                IF News(w, s) /\ catalog[s].outcome \in {"unlowered", "deferred"}
                THEN Plus(skipped[s], 1) ELSE skipped[s]]
           /\ support' = [s \in Site |-> IF News(w, s) /\ request.support
                                         THEN StatusAfterLowering(s) ELSE support[s]]
<1> DEFINE slots == Slots(w.primitive, Remaining(w), w.scope)
           bodies == {s \in slots : catalog[s].outcome = "lowered"}
           failed == {s \in slots : catalog[s].outcome \in {"unlowered", "deferred"}}
<1>1. \A s \in Site : /\ s \in slots <=> News(w, s)
                      /\ s \in bodies <=> News(w, s) /\ catalog[s].outcome = "lowered"
                      /\ s \in failed <=> /\ News(w, s)
                                          /\ catalog[s].outcome \in {"unlowered", "deferred"}
  BY DEF Slots, News
<1>2. /\ processed' = Processed(w)
      /\ lowered' = [s \in Site |->
            IF s \in bodies THEN Plus(lowered[s], 1) ELSE lowered[s]]
      /\ skipped' = [s \in Site |->
            IF s \in failed THEN Plus(skipped[s], 1) ELSE skipped[s]]
      /\ support' = [s \in Site |-> IF s \in slots /\ request.support
                                    THEN StatusAfterLowering(s) ELSE support[s]]
  BY DEF Process
<1>3. w \in Item
  BY DEF IInv, TypeInv
<1>4. /\ phase = "discover" /\ catalog' = catalog /\ request' = request /\ phase' = phase
      /\ live' = live /\ covered' = covered
  BY DEF Process
<1>5. \A t \in w.types : <<w.primitive, t, w.scope>> \in Processed(w)
  BY DEF Processed, Remaining
<1> HIDE DEF slots, bodies, failed
<1> QED BY <1>1, <1>2, <1>3, <1>4, <1>5 DEF Processed

(* What the two kinds of requests ask for. *)
LEMMA HarnessMembers ==
    ASSUME NEW B, NEW D
    PROVE  \A v : v \in HarnessRequests(B, D) <=>
              \E t \in BoundBases(B) : \E h \in request.harness :
                 /\ <<h, t, NoScope>> \notin D
                 /\ v = [primitive |-> h, types |-> {t}, scope |-> NoScope]
<1> DEFINE G(t) == {[primitive |-> h, types |-> {t}, scope |-> NoScope] :
                       h \in {h \in request.harness : <<h, t, NoScope>> \notin D}}
<1>1. HarnessRequests(B, D) = UNION {G(t) : t \in BoundBases(B)}
  BY DEF HarnessRequests
<1>2. \A v, t : v \in G(t) <=>
          \E h \in request.harness :
             /\ <<h, t, NoScope>> \notin D
             /\ v = [primitive |-> h, types |-> {t}, scope |-> NoScope]
  OBVIOUS
<1> HIDE DEF G
<1>3. \A v : v \in HarnessRequests(B, D) <=> \E t \in BoundBases(B) : v \in G(t)
  BY <1>1
<1> QED BY <1>2, <1>3

LEMMA BoundMembers ==
    ASSUME NEW B
    PROVE  \A t : t \in BoundBases(B) <=> \E s \in B : t \in catalog[s].bases
BY DEF BoundBases

(* A call of a body of site s asks for v. *)
Asks(s, scope, D, v) ==
    \E c \in catalog[s].calls \cup catalog[s].guards :
        /\ Known(c)
        /\ \E t \in TypesOf(c) :
             /\ <<c.primitive, t, ScopeOf(c, scope)>> \notin D
             /\ v = [primitive |-> c.primitive, types |-> {t}, scope |-> ScopeOf(c, scope)]

LEMMA DependencyMembers ==
    ASSUME NEW B, NEW scope, NEW D
    PROVE  \A v : v \in DependencyRequests(B, scope, D) <=>
                  \E s \in B : Asks(s, scope, D, v)
<1> DEFINE F(s) == catalog[s].calls \cup catalog[s].guards
           calls == {c \in UNION {F(s) : s \in B} : Known(c)}
           G(c) == {[primitive |-> c.primitive, types |-> {t}, scope |-> ScopeOf(c, scope)] :
                       t \in {t \in TypesOf(c) :
                               <<c.primitive, t, ScopeOf(c, scope)>> \notin D}}
<1>1. DependencyRequests(B, scope, D) = UNION {G(c) : c \in calls}
  BY DEF DependencyRequests
<1>2. \A c : c \in calls <=> \E s \in B : c \in F(s) /\ Known(c)
  <2> HIDE DEF F
  <2> QED OBVIOUS
<1>3. \A v, c : v \in G(c) <=>
          \E t \in TypesOf(c) :
             /\ <<c.primitive, t, ScopeOf(c, scope)>> \notin D
             /\ v = [primitive |-> c.primitive, types |-> {t}, scope |-> ScopeOf(c, scope)]
  OBVIOUS
<1> HIDE DEF G, calls
<1>4. \A v : v \in DependencyRequests(B, scope, D) <=> \E c \in calls : v \in G(c)
  BY <1>1
<1>5. \A v : v \in DependencyRequests(B, scope, D) <=>
                \E s \in B : \E c \in F(s) : Known(c) /\ v \in G(c)
  <2> HIDE DEF F
  <2> QED BY <1>2, <1>4
<1> DEFINE P(v, c) == \E t \in TypesOf(c) :
             /\ <<c.primitive, t, ScopeOf(c, scope)>> \notin D
             /\ v = [primitive |-> c.primitive, types |-> {t}, scope |-> ScopeOf(c, scope)]
<1>6. \A v, c : v \in G(c) <=> P(v, c)
  BY <1>3
<1> HIDE DEF P
<1>7. \A v : v \in DependencyRequests(B, scope, D) <=>
                \E s \in B : \E c \in F(s) : Known(c) /\ P(v, c)
  BY <1>5, <1>6
<1> QED BY <1>7 DEF P, Asks

(* The worklist after an item: the other items, and what its bodies need.  *)
LEMMA ProcessWorklist ==
    ASSUME IInv, NEW w \in worklist, Process(w)
    PROVE  /\ worklist \ {w} \subseteq worklist'
           /\ worklist' \in SUBSET Item
           /\ request.scope = NoScope /\ w.scope = NoScope =>
                \A v \in worklist' : v \in worklist \/ v.scope = NoScope
           /\ \A s \in Site : News(w, s) /\ catalog[s].outcome = "lowered" =>
                /\ \A c \in catalog[s].calls \cup catalog[s].guards : Known(c) =>
                      \A t \in TypesOf(c) : Pending(c.primitive, t, ScopeOf(c, w.scope))'
                /\ \A h \in request.harness : \A t \in catalog[s].bases :
                      Pending(h, t, NoScope)'
<1> DEFINE bodies == {s \in Slots(w.primitive, Remaining(w), w.scope) :
                          catalog[s].outcome = "lowered"}
           harness == HarnessRequests(bodies, processed')
           calls == DependencyRequests(bodies, w.scope, processed')
<1>1. worklist' = (worklist \ {w}) \cup harness \cup calls
  BY DEF Process
<1>2. bodies \in SUBSET Site /\ catalog \in [Site -> Body] /\ request \in Request
  BY DEF Slots, IInv, TypeInv
<1>3. w \in Item
  BY DEF IInv, TypeInv
<1>4. request.types \subseteq TypeTag /\ request.harness \subseteq Primitive
  BY <1>2, ProfileGenerationAssumption
<1>5. \A s \in bodies : /\ catalog[s].calls \subseteq Call /\ catalog[s].guards \subseteq Call
                        /\ catalog[s].bases \subseteq TypeTag
  BY <1>2 DEF Body
<1>6. \A v \in harness : v \in Item /\ v.scope = NoScope
  <2> SUFFICES ASSUME NEW v \in harness PROVE v \in Item /\ v.scope = NoScope
    OBVIOUS
  <2> HIDE DEF bodies
  <2>1. PICK t \in BoundBases(bodies) : \E h \in request.harness :
            /\ <<h, t, NoScope>> \notin processed'
            /\ v = [primitive |-> h, types |-> {t}, scope |-> NoScope]
    <3>1. v \in HarnessRequests(bodies, processed')
      OBVIOUS
    <3> HIDE DEF harness, calls
    <3> QED BY ONLY <3>1, HarnessMembers
  <2>2. t \in TypeTag
    BY <1>5, BoundMembers
  <2> QED BY <2>1, <2>2, <1>4 DEF Item, NoScope
<1>7. \A v \in calls : v \in Item /\ (w.scope = NoScope => v.scope = NoScope)
  <2> SUFFICES ASSUME NEW v \in calls
               PROVE  v \in Item /\ (w.scope = NoScope => v.scope = NoScope)
    OBVIOUS
  <2>1. PICK s \in bodies : Asks(s, w.scope, processed', v)
    <3>1. v \in DependencyRequests(bodies, w.scope, processed')
      OBVIOUS
    <3> HIDE DEF harness, calls
    <3> QED BY ONLY <3>1, DependencyMembers
  <2>2. PICK c \in catalog[s].calls \cup catalog[s].guards :
            /\ Known(c)
            /\ \E t \in TypesOf(c) :
                 /\ <<c.primitive, t, ScopeOf(c, w.scope)>> \notin processed'
                 /\ v = [primitive |-> c.primitive, types |-> {t},
                         scope |-> ScopeOf(c, w.scope)]
    BY <2>1 DEF Asks
  <2>3. c \in Call
    BY <1>5, <2>2
  <2>4. ScopeOf(c, w.scope) \in SUBSET Extension
    BY <2>3 DEF ScopeOf, Call, NoScope
  <2>5. w.scope = NoScope => ScopeOf(c, w.scope) = NoScope
    BY DEF ScopeOf
  <2>6. TypesOf(c) \subseteq TypeTag
    BY <1>4, <2>3 DEF TypesOf, Call
  <2>7. PICK t \in TypeTag : v = [primitive |-> c.primitive, types |-> {t},
                                 scope |-> ScopeOf(c, w.scope)]
    BY <2>2, <2>6
  <2> HIDE DEF bodies
  <2> QED BY <2>2, <2>4, <2>5, <2>7 DEF Item, Known
<1>8. ASSUME NEW s \in bodies, NEW c \in catalog[s].calls \cup catalog[s].guards, Known(c),
             NEW t \in TypesOf(c)
      PROVE  Pending(c.primitive, t, ScopeOf(c, w.scope))'
  <2>1. catalog' = catalog /\ request' = request
    BY DEF Process
  <2> DEFINE sc == ScopeOf(c, w.scope)
             v == [primitive |-> c.primitive, types |-> {t}, scope |-> sc]
  <2>2. CASE <<c.primitive, t, sc>> \in processed'
    BY <2>1, <2>2 DEF Pending, ScopeOf, NoScope
  <2>3. CASE <<c.primitive, t, sc>> \notin processed'
    <3>1. v \in calls
      BY <1>8, <2>3, DependencyMembers DEF Asks
    <3>2. v \in worklist' /\ v.primitive = c.primitive /\ t \in v.types /\ v.scope = sc
      BY <1>1, <3>1
    <3> QED BY <3>2 DEF Pending, ScopeOf, NoScope
  <2> QED BY <2>2, <2>3
<1>9. ASSUME NEW s \in bodies, NEW h \in request.harness, NEW t \in catalog[s].bases
      PROVE  Pending(h, t, NoScope)'
  <2> DEFINE v == [primitive |-> h, types |-> {t}, scope |-> NoScope]
  <2>1. CASE <<h, t, NoScope>> \in processed'
    BY <2>1 DEF Pending, NoScope
  <2>2. CASE <<h, t, NoScope>> \notin processed'
    <3>1. v \in harness
      <4> HIDE DEF bodies
      <4>1. t \in BoundBases(bodies)
        BY BoundMembers
      <4> QED BY <2>2, <4>1, HarnessMembers
    <3>2. v \in worklist' /\ v.primitive = h /\ t \in v.types /\ v.scope = NoScope
      BY <1>1, <3>1
    <3> QED BY <3>2 DEF Pending, NoScope
  <2> QED BY <2>1, <2>2
<1>10. \A s \in Site : News(w, s) /\ catalog[s].outcome = "lowered" => s \in bodies
  BY DEF News, Slots
<1>11. worklist \in SUBSET Item
  BY DEF IInv, TypeInv
<1> HIDE DEF bodies, harness, calls
<1> QED BY <1>1, <1>6, <1>7, <1>8, <1>9, <1>10, <1>11

LEMMA PendingStays ==
    ASSUME IInv, NEW w \in worklist, Process(w), NEW p, NEW t, NEW sc, Pending(p, t, sc)
    PROVE  Pending(p, t, sc)'
<1>1. CASE <<p, t, sc>> \in processed
  BY <1>1, ProcessFacts DEF Pending
<1>2. ASSUME NEW v \in worklist, v.primitive = p /\ t \in v.types /\ v.scope = sc
      PROVE  Pending(p, t, sc)'
  <2>1. CASE v = w
    BY <1>2, <2>1, ProcessFacts DEF Pending
  <2>2. CASE v # w
    BY <1>2, <2>2, ProcessWorklist DEF Pending
  <2> QED BY <2>1, <2>2
<1> QED BY <1>1, <1>2 DEF Pending

LEMMA SelectedAfter ==
    ASSUME IInv, NEW w \in worklist, Process(w), NEW s \in Site
    PROVE  Selected(s)' <=> Selected(s) \/ News(w, s)
<1>1. /\ w \in Item
      /\ processed' = processed \cup {<<w.primitive, t, w.scope>> : t \in Remaining(w)}
  BY ProcessFacts
<1>2. \A sc : <<s[1], s[2], sc>> \in processed' <=>
                \/ <<s[1], s[2], sc>> \in processed
                \/ s[1] = w.primitive /\ s[2] \in Remaining(w) /\ sc = w.scope
  BY <1>1
<1>3. w.scope \in SUBSET Extension
  BY <1>1 DEF Item
<1>4. Selected(s)' <=> \E sc \in SUBSET Extension :
                          InScope(s, sc) /\ <<s[1], s[2], sc>> \in processed'
  BY DEF Selected, InScope, NoScope
<1> QED BY <1>2, <1>3, <1>4 DEF Selected, News

LEMMA ProcessInvariant ==
    ASSUME IInv, NEW w \in worklist, Process(w)
    PROVE  IInv'
<1> USE ProcessFacts
<1>1. TypeInv'
  <2>1. /\ catalog \in [Site -> Body] /\ request \in Request /\ live \in SUBSET Site
        /\ processed \in SUBSET (Primitive \X TypeTag \X SUBSET Extension)
        /\ lowered \in [Site -> Nat] /\ skipped \in [Site -> Nat] /\ covered \in [Site -> Nat]
    BY DEF IInv, TypeInv
  <2>2. \A n \in Nat : Plus(n, 1) \in Nat
    BY DEF Plus, Many
  <2>3. lowered' \in [Site -> Nat]
    BY <2>1, <2>2
  <2>4. skipped' \in [Site -> Nat]
    BY <2>1, <2>2
  <2>5. processed' \in SUBSET (Primitive \X TypeTag \X SUBSET Extension)
    <3>1. /\ w.primitive \in Primitive /\ w.scope \in SUBSET Extension
          /\ Remaining(w) \subseteq TypeTag
      BY DEF Item, Remaining
    <3> QED BY <2>1, <3>1
  <2>6. worklist' \in SUBSET Item
    BY ProcessWorklist
  <2> QED BY <2>1, <2>3, <2>4, <2>5, <2>6 DEF TypeInv
<1>2. LoweredInv'
  <2> SUFFICES ASSUME NEW s \in Site
               PROVE  lowered'[s] > 0 <=> catalog[s].outcome = "lowered" /\ Selected(s)'
    BY DEF LoweredInv
  <2>1. lowered[s] \in Nat /\ (lowered[s] > 0 <=> catalog[s].outcome = "lowered" /\ Selected(s))
    BY DEF IInv, TypeInv, LoweredInv
  <2>2. lowered'[s] = IF News(w, s) /\ catalog[s].outcome = "lowered"
                      THEN Plus(lowered[s], 1) ELSE lowered[s]
    OBVIOUS
  <2>3. Plus(lowered[s], 1) > 0
    BY <2>1 DEF Plus, Many
  <2> QED BY <2>1, <2>2, <2>3, SelectedAfter
<1>3. CallsArePending'
  <2> SUFFICES ASSUME NEW s \in Site, NEW sc \in SUBSET Extension,
                      catalog[s].outcome = "lowered", InScope(s, sc),
                      <<s[1], s[2], sc>> \in processed',
                      NEW c \in catalog[s].calls \cup catalog[s].guards, Known(c),
                      NEW t \in TypesOf(c)
               PROVE  Pending(c.primitive, t, ScopeOf(c, sc))'
    BY DEF CallsArePending, TypesOf, InScope, ScopeOf, NoScope, Known
  <2>1. CASE <<s[1], s[2], sc>> \in processed
    <3>1. Pending(c.primitive, t, ScopeOf(c, sc))
      BY <2>1 DEF IInv, CallsArePending
    <3> QED BY <3>1, PendingStays
  <2>2. CASE <<s[1], s[2], sc>> \notin processed
    <3>1. News(w, s) /\ sc = w.scope
      BY <2>2 DEF News
    <3> QED BY <3>1, ProcessWorklist
  <2> QED BY <2>1, <2>2
<1>4. HarnessIsPending'
  <2>1. \A p, t : Pending(p, t, NoScope) => Pending(p, t, NoScope)'
    BY PendingStays
  <2>2. ASSUME NEW h \in request.harness, NEW t \in request.types
        PROVE  Pending(h, t, NoScope)'
    BY <2>1 DEF IInv, HarnessIsPending
  <2>3. ASSUME NEW h \in request.harness, NEW s \in Site, lowered'[s] > 0,
               NEW t \in catalog[s].bases
        PROVE  Pending(h, t, NoScope)'
    <3>1. CASE lowered[s] > 0
      BY <2>1, <3>1 DEF IInv, HarnessIsPending
    <3>2. CASE ~ (lowered[s] > 0)
      <4>1. News(w, s) /\ catalog[s].outcome = "lowered"
        BY <2>3, <3>2
      <4> QED BY <4>1, ProcessWorklist
    <3> QED BY <3>1, <3>2
  <2> QED BY <2>2, <2>3 DEF HarnessIsPending, NoScope
<1>5. UnscopedInv'
  <2> SUFFICES ASSUME request.scope = NoScope PROVE UnscopedInv'
    BY DEF UnscopedInv, NoScope
  <2>1. /\ \A v \in worklist : v.scope = NoScope
        /\ \A x \in processed : x[3] = NoScope
        /\ w.scope = NoScope
    BY DEF IInv, UnscopedInv
  <2>2. \A v \in worklist' : v.scope = NoScope
    BY <2>1, ProcessWorklist
  <2>3. \A x \in processed' : x[3] = NoScope
    BY <2>1
  <2>4. ASSUME NEW s \in Site
        PROVE  LET selected == <<s[1], s[2], NoScope>> \in processed' IN
               /\ lowered'[s] = IF selected /\ catalog[s].outcome = "lowered" THEN 1 ELSE 0
               /\ skipped'[s] = IF /\ selected
                                   /\ catalog[s].outcome \in {"unlowered", "deferred"}
                                THEN 1 ELSE 0
    <3>1. <<s[1], s[2], NoScope>> \in processed' <=>
              <<s[1], s[2], NoScope>> \in processed \/ News(w, s)
      BY <2>1 DEF News, InScope
    <3>2. News(w, s) => <<s[1], s[2], NoScope>> \notin processed
      BY <2>1 DEF News, Remaining
    <3>3. LET selected == <<s[1], s[2], NoScope>> \in processed IN
          /\ lowered[s] = IF selected /\ catalog[s].outcome = "lowered" THEN 1 ELSE 0
          /\ skipped[s] = IF /\ selected
                             /\ catalog[s].outcome \in {"unlowered", "deferred"}
                          THEN 1 ELSE 0
      BY DEF IInv, UnscopedInv
    <3>4. Plus(0, 1) = 1
      BY DEF Plus, Many
    <3>5. /\ lowered'[s] = IF News(w, s) /\ catalog[s].outcome = "lowered"
                           THEN Plus(lowered[s], 1) ELSE lowered[s]
          /\ skipped'[s] = IF /\ News(w, s)
                              /\ catalog[s].outcome \in {"unlowered", "deferred"}
                           THEN Plus(skipped[s], 1) ELSE skipped[s]
      OBVIOUS
    <3> QED BY <3>1, <3>2, <3>3, <3>4, <3>5
  <2> QED BY <2>2, <2>3, <2>4 DEF UnscopedInv, NoScope
<1>6. SupportInv'
  <2> SUFFICES ASSUME request.support, NEW s \in Site
               PROVE  /\ support'[s] \in {"unknown", "absent", "lowered", "selected",
                                           "policy_deferred"}
                      /\ support'[s] = "lowered" <=> lowered'[s] > 0
    BY DEF SupportInv
  <2>1. /\ support[s] \in {"unknown", "absent", "lowered", "selected", "policy_deferred"}
        /\ support[s] = "lowered" <=> lowered[s] > 0
        /\ lowered[s] > 0 => catalog[s].outcome = "lowered"
        /\ lowered[s] \in Nat
        /\ catalog[s].outcome \in {"absent", "lowered", "unlowered", "deferred"}
    BY DEF IInv, SupportInv, LoweredInv, TypeInv, Body
  <2>2. /\ support'[s] = IF News(w, s) THEN StatusAfterLowering(s) ELSE support[s]
        /\ lowered'[s] = IF News(w, s) /\ catalog[s].outcome = "lowered"
                         THEN Plus(lowered[s], 1) ELSE lowered[s]
    OBVIOUS
  <2>3. Plus(lowered[s], 1) > 0
    BY <2>1 DEF Plus, Many
  <2>4. /\ StatusAfterLowering(s) \in {"absent", "lowered", "selected", "policy_deferred"}
        /\ StatusAfterLowering(s) = "lowered" <=> catalog[s].outcome = "lowered"
    BY <2>1 DEF StatusAfterLowering
  <2> QED BY <2>1, <2>2, <2>3, <2>4
<1>7. ClosedInv'
  BY DEF ClosedInv
<1> QED BY <1>1, <1>2, <1>3, <1>4, <1>5, <1>6, <1>7 DEF IInv
-----------------------------------------------------------------------------
(* The end of a generation *)

(* What neither step changes is not disturbed by them. *)
LEMMA Settled ==
    ASSUME IInv, UNCHANGED <<catalog, request, worklist, processed, lowered>>
    PROVE  LoweredInv' /\ CallsArePending' /\ HarnessIsPending' /\ Discovered' = Discovered
<1>1. \A p, t, sc : Pending(p, t, sc)' <=> Pending(p, t, sc)
  BY DEF Pending
<1>2. \A s \in Site : Selected(s)' <=> Selected(s)
  BY DEF Selected, InScope, NoScope
<1>3. LoweredInv'
  BY <1>2 DEF IInv, LoweredInv
<1>4. CallsArePending'
  <2> SUFFICES ASSUME NEW s \in Site, NEW sc \in SUBSET Extension,
                      catalog[s].outcome = "lowered", InScope(s, sc),
                      <<s[1], s[2], sc>> \in processed,
                      NEW c \in catalog[s].calls \cup catalog[s].guards, Known(c),
                      NEW t \in TypesOf(c)
               PROVE  Pending(c.primitive, t, ScopeOf(c, sc))'
    BY DEF CallsArePending, TypesOf, InScope, ScopeOf, NoScope, Known
  <2>1. Pending(c.primitive, t, ScopeOf(c, sc))
    BY DEF IInv, CallsArePending
  <2> QED BY <1>1, <2>1
<1>5. HarnessIsPending'
  BY <1>1 DEF IInv, HarnessIsPending, NoScope
<1> QED BY <1>3, <1>4, <1>5 DEF Discovered

LEMMA DiscoveredAreLowered ==
    ASSUME IInv
    PROVE  Discovered \in SUBSET Site /\ \A s \in Discovered : catalog[s].outcome = "lowered"
BY DEF IInv, LoweredInv, Discovered

LEMMA CloseInvariant ==
    ASSUME IInv, Close
    PROVE  IInv'
<1>1. /\ phase = "discover" /\ worklist = {} /\ live' = Generatable(Discovered)
      /\ UNCHANGED <<catalog, request, worklist, processed, lowered, covered>>
  BY DEF Close
<1>2. /\ live' \subseteq Discovered /\ Contained(live')
      /\ \A T \in SUBSET Discovered : Contained(T) => T \subseteq live'
  BY <1>1, GeneratableIsLargest, DiscoveredAreLowered
<1>3. LoweredInv' /\ CallsArePending' /\ HarnessIsPending' /\ Discovered' = Discovered
  BY <1>1, Settled
<1>4. \/ phase' = "raised" /\ skipped' = skipped /\ support' = support
      \/ /\ phase' = "record"
         /\ skipped' = [s \in Site |-> IF s \in Discovered \ live'
                                       THEN Plus(skipped[s], lowered[s]) ELSE skipped[s]]
         /\ support' = [s \in Site |-> IF s \in (Discovered \ live') /\ request.support
                                       THEN "pruned" ELSE support[s]]
  BY DEF Close
<1>5. TypeInv'
  <2>1. /\ lowered \in [Site -> Nat] /\ skipped \in [Site -> Nat]
        /\ \A n, m \in Nat : Plus(n, m) \in Nat
    BY DEF IInv, TypeInv, Plus, Many
  <2>2. skipped' \in [Site -> Nat]
    BY <1>4, <2>1
  <2>3. live' \in SUBSET Site /\ phase' \in {"record", "raised"}
    BY <1>2, <1>4, DiscoveredAreLowered
  <2> QED BY <1>1, <2>2, <2>3 DEF IInv, TypeInv
<1>6. UnscopedInv'
  <2> SUFFICES ASSUME request.scope = NoScope PROVE UnscopedInv'
    BY <1>1 DEF UnscopedInv, NoScope
  <2>1. /\ \A v \in worklist : v.scope = NoScope
        /\ \A x \in processed : x[3] = NoScope
    BY DEF IInv, UnscopedInv
  <2>2. ASSUME NEW s \in Site
        PROVE  LET selected == <<s[1], s[2], NoScope>> \in processed IN
               /\ lowered[s] = IF selected /\ catalog[s].outcome = "lowered" THEN 1 ELSE 0
               /\ phase' = "record" =>
                    skipped'[s] =
                      IF /\ selected
                         /\ \/ catalog[s].outcome \in {"unlowered", "deferred"}
                            \/ catalog[s].outcome = "lowered" /\ s \notin live'
                      THEN 1 ELSE 0
    <3>1. LET selected == <<s[1], s[2], NoScope>> \in processed IN
          /\ lowered[s] = IF selected /\ catalog[s].outcome = "lowered" THEN 1 ELSE 0
          /\ skipped[s] = IF /\ selected
                             /\ catalog[s].outcome \in {"unlowered", "deferred"}
                          THEN 1 ELSE 0
      BY <1>1 DEF IInv, UnscopedInv
    <3>2. s \in Discovered <=> lowered[s] > 0
      BY DEF Discovered
    <3>3. Plus(0, 1) = 1
      BY DEF Plus, Many
    <3>4. phase' = "record" =>
            skipped'[s] = IF s \in Discovered \ live'
                          THEN Plus(skipped[s], lowered[s]) ELSE skipped[s]
      BY <1>4
    <3> QED BY <3>1, <3>2, <3>3, <3>4
  <2>3. phase' \in {"record", "raised"}
    BY <1>4
  <2> QED BY <1>1, <2>1, <2>2, <2>3 DEF UnscopedInv, NoScope
<1>7. SupportInv'
  <2> SUFFICES ASSUME request.support, phase' = "record", NEW s \in Site
               PROVE  /\ support'[s] = "pruned" <=> s \in Discovered \ live'
                      /\ support'[s] # "emitted"
                      /\ support'[s] = "lowered" => s \in live'
    BY <1>1, <1>3, <1>4 DEF SupportInv
  <2>1. /\ support[s] \in {"unknown", "absent", "lowered", "selected", "policy_deferred"}
        /\ support[s] = "lowered" <=> lowered[s] > 0
    BY <1>1 DEF IInv, SupportInv
  <2>2. support'[s] = IF s \in Discovered \ live' THEN "pruned" ELSE support[s]
    BY <1>4
  <2>3. s \in Discovered <=> lowered[s] > 0
    BY DEF Discovered
  <2> QED BY <2>1, <2>2, <2>3
<1>8. ClosedInv'
  <2>1. Contained(live)'
    BY <1>1, <1>2 DEF Contained, Stays, Concrete, Symbolic
  <2>2. ASSUME NEW T \in SUBSET Discovered, Contained(T)'
        PROVE  T \subseteq live'
    BY <1>1, <1>2, <2>2 DEF Contained, Stays, Concrete, Symbolic
  <2>3. phase' # "done"
    BY <1>4
  <2> QED BY <1>1, <1>2, <1>3, <2>1, <2>2, <2>3 DEF ClosedInv
<1> QED BY <1>3, <1>5, <1>6, <1>7, <1>8 DEF IInv

LEMMA RecordInvariant ==
    ASSUME IInv, Record
    PROVE  IInv'
<1>1. /\ phase = "record"
      /\ UNCHANGED <<catalog, request, worklist, processed, lowered, live, skipped>>
  BY DEF Record
<1>2. \/ phase' = "raised" /\ covered' = covered /\ support' = support
      \/ /\ phase' = "done"
         /\ covered' = [s \in Site |-> IF s \in live THEN lowered[s] ELSE 0]
         /\ support' = [s \in Site |-> IF s \in live /\ request.support
                                       THEN "emitted" ELSE support[s]]
  BY DEF Record
<1>3. LoweredInv' /\ CallsArePending' /\ HarnessIsPending' /\ Discovered' = Discovered
  BY <1>1, Settled
<1>4. TypeInv'
  <2>1. lowered \in [Site -> Nat] /\ covered \in [Site -> Nat]
    BY DEF IInv, TypeInv
  <2>2. covered' \in [Site -> Nat]
    BY <1>2, <2>1
  <2>3. phase' \in {"done", "raised"}
    BY <1>2
  <2> QED BY <1>1, <2>2, <2>3 DEF IInv, TypeInv
<1>5. UnscopedInv'
  <2>1. phase' \in {"done", "raised"}
    BY <1>2
  <2> QED BY <1>1, <2>1 DEF IInv, UnscopedInv, NoScope
<1>6. SupportInv'
  <2> SUFFICES ASSUME request.support, phase' = "done", NEW s \in Site
               PROVE  /\ support'[s] = "pruned" <=> s \in Discovered \ live
                      /\ support'[s] = "emitted" <=> s \in live
                      /\ support'[s] # "lowered"
    BY <1>1, <1>2, <1>3 DEF SupportInv
  <2>1. /\ support[s] = "pruned" <=> s \in Discovered \ live
        /\ support[s] # "emitted"
        /\ support[s] = "lowered" => s \in live
    BY <1>1 DEF IInv, SupportInv
  <2>2. support'[s] = IF s \in live THEN "emitted" ELSE support[s]
    BY <1>2
  <2> QED BY <2>1, <2>2
<1>7. ClosedInv'
  <2>1. \A T : Contained(T)' <=> Contained(T)
    BY <1>1 DEF Contained, Stays, Concrete, Symbolic
  <2>2. phase' = "done" =>
            \A s \in Site : covered'[s] = IF s \in live THEN lowered[s] ELSE 0
    BY <1>2
  <2>3. /\ live \subseteq Discovered /\ Contained(live)
        /\ \A T \in SUBSET Discovered : Contained(T) => T \subseteq live
        /\ worklist = {}
    BY <1>1 DEF IInv, ClosedInv
  <2>4. Contained(live)'
    BY <1>1, <2>3 DEF Contained, Stays, Concrete, Symbolic
  <2> QED BY <1>1, <1>3, <2>1, <2>2, <2>3, <2>4 DEF ClosedInv
<1> QED BY <1>3, <1>4, <1>5, <1>6, <1>7 DEF IInv

LEMMA UnchangedInvariant == IInv /\ UNCHANGED vars => IInv'
<1> SUFFICES ASSUME IInv, UNCHANGED vars PROVE IInv'
  OBVIOUS
<1> USE DEF vars
<1>1. LoweredInv' /\ CallsArePending' /\ HarnessIsPending' /\ Discovered' = Discovered
  BY Settled
<1>2. TypeInv' /\ UnscopedInv'
  BY DEF IInv, TypeInv, UnscopedInv, NoScope
<1>3. SupportInv'
  BY <1>1 DEF IInv, SupportInv
<1>4. ClosedInv'
  <2>1. \A T : Contained(T)' <=> Contained(T)
    BY DEF Contained, Stays, Concrete, Symbolic
  <2>2. Contained(live)' <=> Contained(live)
    BY DEF Contained, Stays, Concrete, Symbolic
  <2> QED BY <1>1, <2>1, <2>2 DEF IInv, ClosedInv
<1> QED BY <1>1, <1>2, <1>3, <1>4 DEF IInv

(* The invariant, for any catalog and any request. *)
THEOREM Invariance == Spec => []IInv
<1>1. IInv /\ [Next]_vars => IInv'
  BY ProcessInvariant, CloseInvariant, RecordInvariant, UnchangedInvariant DEF Next
<1> QED BY InitInvariant, <1>1, PTL DEF Spec
-----------------------------------------------------------------------------
(* What a generation reports *)

LEMMA AccountedOnceHolds == IInv => AccountedOnce
<1> SUFFICES ASSUME IInv, phase = "done", request.scope = NoScope, NEW s \in Site
             PROVE  covered[s] + skipped[s] =
                        IF Selected(s) /\ catalog[s].outcome # "absent" THEN 1 ELSE 0
  BY DEF AccountedOnce, Selected
<1>1. Selected(s) <=> <<s[1], s[2], NoScope>> \in processed
  <2>1. \A x \in processed : x[3] = NoScope
    BY DEF IInv, UnscopedInv
  <2>2. \A sc : <<s[1], s[2], sc>> \in processed => sc = NoScope
    BY <2>1
  <2> QED BY <2>2 DEF Selected, InScope, NoScope
<1>2. LET selected == <<s[1], s[2], NoScope>> \in processed IN
      /\ lowered[s] = IF selected /\ catalog[s].outcome = "lowered" THEN 1 ELSE 0
      /\ skipped[s] = IF /\ selected
                         /\ \/ catalog[s].outcome \in {"unlowered", "deferred"}
                            \/ catalog[s].outcome = "lowered" /\ s \notin live
                      THEN 1 ELSE 0
  BY DEF IInv, UnscopedInv
<1>3. covered[s] = IF s \in live THEN lowered[s] ELSE 0
  BY DEF IInv, ClosedInv
<1>4. catalog[s].outcome \in {"absent", "lowered", "unlowered", "deferred"}
  BY DEF IInv, TypeInv, Body
<1>5. s \in live => catalog[s].outcome = "lowered"
  BY DiscoveredAreLowered DEF IInv, ClosedInv
<1> QED BY <1>1, <1>2, <1>3, <1>4, <1>5

(* Without an extension filter, every selected body is covered or skipped, *)
(* and exactly once.                                                       *)
THEOREM BodiesAreAccountedOnce == Spec => []AccountedOnce
BY Invariance, AccountedOnceHolds, PTL

LEMMA SupportTells == IInv => SupportTellsTheOutcome
<1> SUFFICES ASSUME IInv, phase = "done", request.support, NEW s \in Site
             PROVE  /\ support[s] = "emitted" <=> covered[s] > 0
                    /\ support[s] = "pruned" <=> s \in Discovered \ live
                    /\ support[s] # "lowered"
  BY DEF SupportTellsTheOutcome
<1>1. /\ support[s] = "pruned" <=> s \in Discovered \ live
      /\ support[s] = "emitted" <=> s \in live
      /\ support[s] # "lowered"
  BY DEF IInv, SupportInv
<1>2. covered[s] = IF s \in live THEN lowered[s] ELSE 0
  BY DEF IInv, ClosedInv
<1>3. s \in live => lowered[s] > 0
  BY DEF IInv, ClosedInv, Discovered
<1> QED BY <1>1, <1>2, <1>3

(* The target-support trace ends with the fate of every body.              *)
THEOREM SupportIsTold == Spec => []SupportTellsTheOutcome
BY Invariance, SupportTells, PTL

(* When nothing is left to select, a lowered site of a pending primitive   *)
(* and type was found.                                                     *)
LEMMA PendingIsFound ==
    ASSUME IInv, phase \in {"record", "done"}, NEW u \in Site,
           NEW sc \in SUBSET Extension, Pending(u[1], u[2], sc), InScope(u, sc),
           catalog[u].outcome = "lowered"
    PROVE  u \in Discovered
<1>1. worklist = {}
  BY DEF IInv, ClosedInv
<1>2. Selected(u)
  BY <1>1 DEF Pending, Selected
<1> QED BY <1>2 DEF IInv, LoweredInv, Discovered

LEMMA PrunedIsUngeneratableHolds == IInv => PrunedIsUngeneratable
<1> SUFFICES ASSUME IInv, phase \in {"record", "done"} PROVE PrunedIsUngeneratable
  BY DEF PrunedIsUngeneratable
<1> DEFINE L == {s \in Site : catalog[s].outcome = "lowered"}
           T == Discovered \cap Generatable(L)
<1>1. /\ Generatable(L) \subseteq L /\ Contained(Generatable(L))
      /\ \A U \in SUBSET L : Contained(U) => U \subseteq Generatable(L)
  BY GeneratableIsLargest
<1>2. /\ live \subseteq Discovered /\ Contained(live)
      /\ \A U \in SUBSET Discovered : Contained(U) => U \subseteq live
  BY DEF IInv, ClosedInv
<1>3. Discovered \subseteq L
  BY DiscoveredAreLowered
<1>4. live \subseteq T
  BY <1>1, <1>2, <1>3
<1>5. Contained(T)
  <2> SUFFICES ASSUME NEW s \in T, NEW c \in catalog[s].calls, Concrete(c)
               PROVE  <<c.primitive, c.type, c.extension>> \in T
    BY DEF Contained, Stays
  <2> DEFINE u == <<c.primitive, c.type, c.extension>>
  <2>1. u \in Generatable(L) /\ u \in Site /\ catalog[u].outcome = "lowered"
    BY <1>1 DEF Contained, Stays
  <2>2. /\ s \in Site /\ s \in Discovered
        /\ catalog[s].outcome = "lowered" /\ Selected(s)
    BY DEF IInv, LoweredInv, Discovered
  <2>3. PICK sc \in SUBSET Extension : InScope(s, sc) /\ <<s[1], s[2], sc>> \in processed
    BY <2>2 DEF Selected
  <2>4. c.primitive \in Primitive /\ c.type \in TypeTag /\ c.extension \in Extension
    BY <2>1 DEF Site
  <2>5. Known(c) /\ c.type \in TypesOf(c)
    BY <2>4, ProfileGenerationAssumption DEF Known, TypesOf
  <2>6. Pending(c.primitive, c.type, ScopeOf(c, sc))
    BY <2>2, <2>3, <2>5 DEF IInv, CallsArePending
  <2>7. ScopeOf(c, sc) \in SUBSET Extension /\ InScope(u, ScopeOf(c, sc))
    BY <2>4 DEF ScopeOf, InScope, NoScope
  <2>8. u[1] = c.primitive /\ u[2] = c.type
    OBVIOUS
  <2> HIDE DEF u
  <2>9. u \in Discovered
    BY <2>1, <2>6, <2>7, <2>8, PendingIsFound
  <2> QED BY <2>1, <2>9 DEF u
<1>6. T \subseteq live
  BY <1>2, <1>5
<1> QED BY <1>4, <1>6 DEF PrunedIsUngeneratable

(* Which bodies survive does not depend on the request: none is pruned for *)
(* a callee that nobody looked for.                                        *)
THEOREM PruningIgnoresTheRequest == Spec => []PrunedIsUngeneratable
BY Invariance, PrunedIsUngeneratableHolds, PTL

LEMMA HarnessIsCompleteHolds == IInv => HarnessIsComplete
<1> SUFFICES ASSUME IInv, phase \in {"record", "done"}, NEW s \in Discovered,
                    NEW t \in request.types \cup catalog[s].bases,
                    NEW h \in request.harness, NEW e \in Extension,
                    catalog[<<h, t, e>>].outcome = "lowered"
             PROVE  <<h, t, e>> \in Discovered
  BY DEF HarnessIsComplete
<1>1. s \in Site /\ lowered[s] > 0
  BY DEF Discovered
<1>2. Pending(h, t, NoScope)
  BY <1>1 DEF IInv, HarnessIsPending
<1>3. <<h, t, e>> \in Site
  <2>1. catalog[s] \in Body /\ request \in Request
    BY <1>1 DEF IInv, TypeInv
  <2>2. h \in Primitive /\ request.types \subseteq TypeTag
    BY <2>1, ProfileGenerationAssumption
  <2>3. catalog[s].bases \subseteq TypeTag
    BY <2>1 DEF Body
  <2> QED BY <2>2, <2>3 DEF Site
<1> DEFINE u == <<h, t, e>>
<1>4. u \in Site /\ u[1] = h /\ u[2] = t /\ catalog[u].outcome = "lowered"
  BY <1>3
<1>5. NoScope \in SUBSET Extension /\ InScope(u, NoScope)
  BY DEF NoScope, InScope
<1> HIDE DEF u
<1>6. u \in Discovered
  BY <1>2, <1>4, <1>5, PendingIsFound
<1> QED BY <1>6 DEF u

(* The test harness is there for every type that any lowered body needs.   *)
THEOREM HarnessIsThere == Spec => []HarnessIsComplete
BY Invariance, HarnessIsCompleteHolds, PTL
=============================================================================
