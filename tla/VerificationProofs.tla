------------------------- MODULE VerificationProofs -------------------------
(***************************************************************************)
(* Proofs about Verification, for any projects, runners, tools that are    *)
(* missing and numbers of test binaries.  As long as nothing was reported  *)
(* that the exit status is drawn from, each profile of a backend under way *)
(* still waits, is ready, is excused by a note, or has done what is        *)
(* planned for it, but for the commands that are still to run.             *)
(***************************************************************************)
EXTENDS Verification, FiniteSetTheorems, WellFoundedInduction, TLAPS

Severity == {"error", "warning"}
Step ==
    {"preflight", "host-target", "target-preflight", "clean", "configure", "build",
     "check-warnings", "build-values", "build-tests", "test", "compile-failure",
     "rustdoc", "clippy", "doctest", "package-list"}
Commands ==
    [backend : Backend, name : Name \cup {"_toolchain"}, step : Step,
     severity : Severity, expected : BOOLEAN, index : Nat]
Results == [command : Commands, matched : BOOLEAN, found : Nat]

Working == {"toolchain", "host", "prepare", "run", "follow"}

TypeInv ==
    /\ scenario \in Scenarios
    /\ pc \in {"start", "backend", "finalize", "done"} \cup Working
    /\ left \in {<<"cpp", "rust">>, <<"rust">>, <<>>}
    /\ pc \in Working => left # <<>>
    /\ pc \in {"toolchain", "host"} => Head(left) = "rust"
    /\ waiting \in Seq(Profile) /\ ready \in Seq(Profile)
    /\ native \in [Compiler -> {"unasked", "works", "fails"}]
    /\ host \in BOOLEAN /\ binaries \in Nat
    /\ groups \in Seq(Seq(Commands) \ {<<>>})
    /\ results \in Seq(Results)
    /\ diagnostics \in Seq(Severity)
    /\ pc # "done" => exit = "running"

(* Nothing is reported that rejects the run, whatever else is found. *)
Tolerable == "error" \notin ToSet(diagnostics) /\ (scenario.tests => diagnostics = <<>>)

(* What preparation makes of a profile it takes. *)
Became(b, p) == IF b = "cpp" THEN p ELSE [p EXCEPT !.target = @ \/ HostDependent(p)]

Profiles(b) == ToSet(scenario.profiles[b])
Complete(b, p) == Verified(b, p) \/ Excused(b, p)

(* The commands of some groups. *)
CommandsOf(gs) == UNION {ToSet(g) : g \in ToSet(gs)}

ReadyInv ==
    pc \in Working =>
        \A q \in ToSet(ready) : \E p \in Profiles(Head(left)) : q = Became(Head(left), p)

PreparingInv ==
    pc \in {"toolchain", "host", "prepare"} =>
        /\ ToSet(waiting) \subseteq Profiles(Head(left))
        /\ Tolerable => \A p \in Profiles(Head(left)) :
              \/ p \in ToSet(waiting)
              \/ Excused(Head(left), p)
              \/ Became(Head(left), p) \in ToSet(ready)

(* The host is asked for because of some profile, and a profile that needs *)
(* it and cannot have it is excused before its turn comes.                 *)
HostInv ==
    /\ pc = "host" => \E p \in ToSet(waiting) : HostDependent(p)
    /\ pc = "prepare" /\ Head(left) = "rust" /\ ~host /\ Tolerable =>
          \A p \in ToSet(waiting) : HostDependent(p) => Excused("rust", p)

(* A C++ compiler that failed its preflight was reported. *)
NativeInv ==
    pc = "prepare" /\ Head(left) = "cpp" /\ Tolerable =>
        \A c \in Compiler : native[c] = "fails" =>
            [backend |-> "cpp", name |-> "_toolchain"] \in skipped

(* Only value tests are reported with less than an error, and value tests  *)
(* are built only where a runner starts the binaries.                      *)
Planning(c) ==
    /\ c.severity = "error" \/ scenario.tests
    /\ c.step = "build-tests" /\ scenario.tests => StartsBinaries(c)

RunningInv ==
    pc \in {"run", "follow"} =>
        /\ \A c \in CommandsOf(groups) : Planning(c)
        /\ Tolerable => \A p \in Profiles(Head(left)) :
              \/ Excused(Head(left), p)
              \/ \A c \in Planned(Head(left), p) : Did(c) \/ c \in CommandsOf(groups)

(* Result m is the build whose test binaries are running, and what came    *)
(* after it are its first binaries, all of which passed.                   *)
Follows(m) ==
    /\ results[m].command = Current /\ results[m].matched
    /\ binaries \in 1 .. results[m].found
    /\ Len(results) = m + results[m].found - binaries
    /\ \A j \in (m + 1) .. Len(results) :
          results[j] = [command |-> Test(Current, j - m), matched |-> TRUE, found |-> 0]

FollowInv ==
    pc = "follow" => groups # <<>> /\ \E m \in DOMAIN results : Follows(m)

BinariesInv ==
    Tolerable /\ scenario.tests =>
        \A m \in DOMAIN results : results[m].command.step = "build-tests" =>
            /\ results[m].found > 0
            /\ \/ pc = "follow" /\ Follows(m)
               \/ \A i \in 1 .. results[m].found : Did(Test(results[m].command, i))

UnmatchedInv ==
    \A m \in DOMAIN results : results[m].matched \/ skipped # {} \/ diagnostics # <<>>

FinishedInv ==
    /\ Tolerable => \A b \in Backend \ ToSet(left) : \A p \in Profiles(b) : Complete(b, p)
    /\ pc = "finalize" /\ Tolerable => left = <<>>

AcceptedInv ==
    AcceptedTestsRan /\ AcceptedBuildsAreComplete /\ AcceptedRunsAreAttested

IInv ==
    /\ TypeInv /\ ReadyInv /\ PreparingInv /\ HostInv /\ NativeInv /\ RunningInv
    /\ FollowInv /\ BinariesInv /\ UnmatchedInv /\ FinishedInv /\ AcceptedInv
----------------------------------------------------------------------------
(* Sequences of commands and profiles.                                     *)

(* A set of naturals that is not empty has a least element.                *)
LEMMA LeastNatural ==
    ASSUME NEW T \in SUBSET Nat, T # {}
    PROVE  \E m \in T : \A n \in T : m <= n
<1> DEFINE R == OpToRel(<, Nat)
<1>1. \A a, b \in Nat : a < b => <<a, b>> \in R
  BY DEF OpToRel
<1>2. IsWellFoundedOn(R, Nat)
  BY NatLessThanWellFounded
<1> HIDE DEF R
<1>3. PICK m \in T : \A n \in T : ~ (<<n, m>> \in R)
  BY <1>2, WFMin
<1>4. \A n \in T : ~ (n < m)
  BY <1>1, <1>3
<1> QED BY <1>4

LEMMA Added ==
    ASSUME NEW T, NEW s \in Seq(T), NEW e \in T
    PROVE  /\ Append(s, e) \in Seq(T) /\ Append(s, e) # <<>>
           /\ Len(Append(s, e)) = Len(s) + 1
           /\ \A i \in DOMAIN s : i \in DOMAIN Append(s, e) /\ Append(s, e)[i] = s[i]
           /\ \A i \in DOMAIN Append(s, e) : i \in DOMAIN s \/ Append(s, e)[i] = e
           /\ ToSet(Append(s, e)) = ToSet(s) \cup {e}
<1>1. /\ Append(s, e) \in Seq(T) /\ Append(s, e) # <<>>
      /\ Len(Append(s, e)) = Len(s) + 1 /\ Len(s) \in Nat
      /\ DOMAIN s = 1 .. Len(s) /\ DOMAIN Append(s, e) = 1 .. (Len(s) + 1)
      /\ \A i \in 1 .. Len(s) : Append(s, e)[i] = s[i]
      /\ Append(s, e)[Len(s) + 1] = e
  OBVIOUS
<1>2. /\ \A i \in DOMAIN s : i \in DOMAIN Append(s, e) /\ Append(s, e)[i] = s[i]
      /\ \A i \in DOMAIN Append(s, e) :
            \/ i \in DOMAIN s
            \/ i = Len(s) + 1 /\ Append(s, e)[i] = e
      /\ Len(s) + 1 \in DOMAIN Append(s, e)
  BY <1>1
<1>3. ToSet(Append(s, e)) = ToSet(s) \cup {e}
  BY <1>1, <1>2 DEF ToSet
<1> QED BY <1>1, <1>2, <1>3

LEMMA Taken ==
    ASSUME NEW T, NEW s \in Seq(T), s # <<>>
    PROVE  /\ Head(s) \in T /\ Tail(s) \in Seq(T)
           /\ Len(s) \in Nat /\ Len(s) > 0 /\ Len(Tail(s)) = Len(s) - 1
           /\ ToSet(s) = {Head(s)} \cup ToSet(Tail(s))
<1>1. /\ Head(s) \in T /\ Tail(s) \in Seq(T) /\ Head(s) = s[1]
      /\ Len(s) \in Nat /\ Len(s) > 0 /\ Len(Tail(s)) = Len(s) - 1
      /\ \A i \in 1 .. Len(Tail(s)) : Tail(s)[i] = s[i + 1]
      /\ DOMAIN s = 1 .. Len(s) /\ DOMAIN Tail(s) = 1 .. Len(Tail(s))
  OBVIOUS
<1>2. \A x \in ToSet(s) : x = Head(s) \/ x \in ToSet(Tail(s))
  <2> SUFFICES ASSUME NEW i \in DOMAIN s PROVE s[i] = Head(s) \/ s[i] \in ToSet(Tail(s))
    BY DEF ToSet
  <2>1. CASE i = 1
    BY <1>1, <2>1
  <2>2. CASE i # 1
    <3>1. i - 1 \in DOMAIN Tail(s) /\ Tail(s)[i - 1] = s[i]
      BY <1>1, <2>2
    <3> QED BY <3>1 DEF ToSet
  <2> QED BY <2>1, <2>2
<1>3. Head(s) \in ToSet(s)
  BY <1>1 DEF ToSet
<1>4. ToSet(Tail(s)) \subseteq ToSet(s)
  <2> SUFFICES ASSUME NEW i \in DOMAIN Tail(s) PROVE Tail(s)[i] \in ToSet(s)
    BY DEF ToSet
  <2>1. i + 1 \in DOMAIN s /\ Tail(s)[i] = s[i + 1]
    BY <1>1
  <2> QED BY <2>1 DEF ToSet
<1> QED BY <1>1, <1>2, <1>3, <1>4

LEMMA Short ==
    ASSUME NEW T
    PROVE  /\ \A s \in Seq(T) : Len(s) = 0 <=> s = <<>>
           /\ ToSet(<<>>) = {}
           /\ \A x \in T : <<x>> \in Seq(T) /\ ToSet(<<x>>) = {x}
<1>1. \A s \in Seq(T) : Len(s) = 0 <=> s = <<>>
  OBVIOUS
<1>2. ToSet(<<>>) = {}
  BY DEF ToSet
<1>3. ASSUME NEW x \in T PROVE <<x>> \in Seq(T) /\ ToSet(<<x>>) = {x}
  <2>1. DOMAIN <<x>> = {1} /\ <<x>>[1] = x
    OBVIOUS
  <2> QED BY <2>1 DEF ToSet
<1> QED BY <1>1, <1>2, <1>3

LEMMA Joined ==
    ASSUME NEW T, NEW s \in Seq(T), NEW t \in Seq(T)
    PROVE  /\ s \o t \in Seq(T)
           /\ ToSet(s \o t) = ToSet(s) \cup ToSet(t)
           /\ Len(s \o t) = Len(s) + Len(t)
<1>1. /\ s \o t \in Seq(T) /\ Len(s \o t) = Len(s) + Len(t)
      /\ Len(s) \in Nat /\ Len(t) \in Nat
      /\ DOMAIN s = 1 .. Len(s) /\ DOMAIN t = 1 .. Len(t)
      /\ DOMAIN (s \o t) = 1 .. (Len(s) + Len(t))
      /\ \A i \in 1 .. (Len(s) + Len(t)) :
            (s \o t)[i] = IF i <= Len(s) THEN s[i] ELSE t[i - Len(s)]
  OBVIOUS
<1>2. \A i \in DOMAIN (s \o t) : (s \o t)[i] \in ToSet(s) \cup ToSet(t)
  <2> SUFFICES ASSUME NEW i \in 1 .. (Len(s) + Len(t))
               PROVE  (s \o t)[i] \in ToSet(s) \cup ToSet(t)
    BY <1>1
  <2>1. CASE i <= Len(s)
    BY <1>1, <2>1 DEF ToSet
  <2>2. CASE ~ (i <= Len(s))
    <3>1. i - Len(s) \in DOMAIN t /\ (s \o t)[i] = t[i - Len(s)]
      BY <1>1, <2>2
    <3> QED BY <3>1 DEF ToSet
  <2> QED BY <2>1, <2>2
<1>3. \A i \in DOMAIN s : s[i] \in ToSet(s \o t)
  <2> SUFFICES ASSUME NEW i \in DOMAIN s PROVE s[i] \in ToSet(s \o t)
    OBVIOUS
  <2>1. i \in DOMAIN (s \o t) /\ (s \o t)[i] = s[i]
    BY <1>1
  <2> QED BY <2>1 DEF ToSet
<1>4. \A i \in DOMAIN t : t[i] \in ToSet(s \o t)
  <2> SUFFICES ASSUME NEW i \in DOMAIN t PROVE t[i] \in ToSet(s \o t)
    OBVIOUS
  <2>1. i + Len(s) \in DOMAIN (s \o t) /\ (s \o t)[i + Len(s)] = t[i]
    BY <1>1
  <2> QED BY <2>1 DEF ToSet
<1>5. ToSet(s \o t) = ToSet(s) \cup ToSet(t)
  BY <1>2, <1>3, <1>4 DEF ToSet
<1> QED BY <1>1, <1>5

(* A sequence made of sequences has the elements of all of them.           *)
LEMMA Flat ==
    ASSUME NEW T, NEW ss \in Seq(Seq(T))
    PROVE  /\ FlattenSeq(ss) \in Seq(T)
           /\ ToSet(FlattenSeq(ss)) = UNION {ToSet(ss[i]) : i \in DOMAIN ss}
<1> DEFINE N == Len(ss)
           upto(n) == UNION {ToSet(ss[i]) : i \in 1 .. n}
           step(f, i) == IF i = 1 THEN ss[i] ELSE f[i - 1] \o ss[i]
           solves(f, n) == f = [i \in 1 .. n |-> step(f, i)]
           right(f, n) == \A i \in 1 .. n : f[i] \in Seq(T) /\ ToSet(f[i]) = upto(i)
           good(n) == \E f : solves(f, n) /\ right(f, n)
           Bad == {n \in 1 .. N : ~ good(n)}
<1>1. N \in Nat /\ DOMAIN ss = 1 .. N /\ \A i \in 1 .. N : ss[i] \in Seq(T)
  OBVIOUS
<1>2. CASE N = 0
  <2>1. FlattenSeq(ss) = ss /\ DOMAIN ss = {} /\ ss = <<>>
    BY <1>1, <1>2 DEF FlattenSeq
  <2> QED BY <2>1 DEF ToSet
<1>3. CASE N # 0
  <2>1. Bad = {}
    <3> HIDE DEF good
    <3> SUFFICES ASSUME Bad # {} PROVE FALSE
      OBVIOUS
    <3>1. PICK n \in Bad : \A m \in Bad : n <= m
      <4>1. Bad \subseteq 1 .. N /\ 1 .. N \subseteq Nat
        BY <1>1
      <4> HIDE DEF Bad
      <4> QED BY <4>1, LeastNatural
    <3>2. n \in 1 .. N
      OBVIOUS
    <3>3. CASE n = 1
      <4> DEFINE g == [i \in 1 .. 1 |-> ss[1]]
      <4>1. solves(g, 1)
        OBVIOUS
      <4>2. g[1] = ss[1] /\ ss[1] \in Seq(T)
        BY <1>1, <3>2, <3>3
      <4>3. upto(1) = ToSet(ss[1])
        OBVIOUS
      <4>4. \A i \in 1 .. 1 : i = 1
        OBVIOUS
      <4>5. right(g, 1)
        <5> HIDE DEF g, upto
        <5> QED BY <4>2, <4>3, <4>4
      <4> HIDE DEF g, solves, right
      <4>6. good(1)
        BY <4>1, <4>5 DEF good
      <4> QED BY <3>1, <3>3, <4>6
    <3>4. CASE n # 1
      <4>1. n - 1 \in 1 .. N /\ n - 1 \notin Bad /\ n \in Nat /\ n > 1
        <5>1. n - 1 \in 1 .. N /\ n \in Nat /\ ~ (n <= n - 1) /\ n > 1
          BY <1>1, <3>2, <3>4
        <5>2. n - 1 \notin Bad
          <6> HIDE DEF Bad
          <6> QED BY <3>1, <5>1
        <5> QED BY <5>1, <5>2
      <4>2. PICK f : solves(f, n - 1) /\ right(f, n - 1)
        <5>1. good(n - 1)
          <6> HIDE DEF N
          <6> QED BY <4>1
        <5> HIDE DEF solves, right
        <5> QED BY <5>1 DEF good
      <4>a. /\ f = [i \in 1 .. (n - 1) |-> step(f, i)]
            /\ \A i \in 1 .. (n - 1) : f[i] \in Seq(T) /\ ToSet(f[i]) = upto(i)
        BY <4>2
      <4> DEFINE g == [i \in 1 .. n |-> IF i = n THEN f[n - 1] \o ss[n] ELSE f[i]]
      <4>b. \A i \in 1 .. (n - 1) : i \in 1 .. n /\ i # n
        BY <4>1
      <4>3. \A i \in 1 .. (n - 1) : g[i] = f[i] /\ f[i] = step(f, i)
        BY <4>a, <4>b
      <4>c. n \in 1 .. n /\ n - 1 \in 1 .. (n - 1)
        BY <4>1
      <4>4. g[n] = f[n - 1] \o ss[n]
        BY <4>c
      <4>5. \A i \in 1 .. n : g[i] = step(g, i)
        <5> SUFFICES ASSUME NEW i \in 1 .. n PROVE g[i] = step(g, i)
          OBVIOUS
        <5>1. CASE i = n
          <6>1. g[n - 1] = f[n - 1]
            BY <4>c, <4>3
          <6> HIDE DEF g
          <6>2. g[n] = step(g, n)
            BY <3>4, <4>4, <6>1
          <6> QED BY <5>1, <6>2
        <5>2. CASE i # n /\ i = 1
          <6>1. i \in 1 .. (n - 1)
            BY <4>1, <5>2
          <6> HIDE DEF g
          <6> QED BY <4>3, <5>2, <6>1
        <5>3. CASE i # n /\ i # 1
          <6>1. i \in 1 .. (n - 1) /\ i - 1 \in 1 .. (n - 1)
            BY <4>1, <5>3
          <6>2. g[i] = f[i] /\ g[i - 1] = f[i - 1] /\ f[i] = f[i - 1] \o ss[i]
            BY <4>3, <5>3, <6>1
          <6> HIDE DEF g
          <6> QED BY <5>3, <6>2
        <5> QED BY <5>1, <5>2, <5>3
      <4>6. solves(g, n)
        <5>1. g = [i \in 1 .. n |-> g[i]]
          OBVIOUS
        <5> HIDE DEF g
        <5> QED BY <4>5, <5>1
      <4>7. right(g, n)
        <5> SUFFICES ASSUME NEW i \in 1 .. n
                     PROVE  g[i] \in Seq(T) /\ ToSet(g[i]) = upto(i)
          OBVIOUS
        <5>1. CASE i = n
          <6>1. f[n - 1] \in Seq(T) /\ ToSet(f[n - 1]) = upto(n - 1) /\ ss[n] \in Seq(T)
            BY <1>1, <3>2, <4>a, <4>c
          <6>2. upto(n) = upto(n - 1) \cup ToSet(ss[n])
            <7>1. 1 .. n = (1 .. (n - 1)) \cup {n}
              BY <4>1
            <7> QED BY <7>1
          <6> HIDE DEF g, upto
          <6>3. g[n] \in Seq(T) /\ ToSet(g[n]) = upto(n)
            BY <4>4, <6>1, <6>2, Joined
          <6> QED BY <5>1, <6>3
        <5>2. CASE i # n
          <6>1. i \in 1 .. (n - 1)
            BY <4>1, <5>2
          <6> HIDE DEF g, upto
          <6> QED BY <4>a, <4>3, <6>1
        <5> QED BY <5>1, <5>2
      <4> HIDE DEF g, solves, right
      <4>8. good(n)
        BY <4>6, <4>7 DEF good
      <4> QED BY <3>1, <4>8
    <3> QED BY <3>3, <3>4
  <2>2. N \in 1 .. N
    BY <1>1, <1>3
  <2>3. \E f : solves(f, N) /\ right(f, N)
    <3>1. good(N)
      <4> HIDE DEF good, N
      <4> QED BY <2>1, <2>2
    <3> HIDE DEF solves, right, N
    <3> QED BY <3>1 DEF good
  <2> DEFINE F == CHOOSE f : solves(f, N)
  <2>4. FlattenSeq(ss) = F[N]
    BY <1>3 DEF FlattenSeq
  <2>5. solves(F, N)
    <3> HIDE DEF solves, right, N
    <3> QED BY <2>3
  <2>6. PICK f : solves(f, N) /\ right(f, N)
    <3> HIDE DEF solves, right, N
    <3> QED BY <2>3
  <2>7. \A i \in 1 .. N : F[i] = f[i]
    <3> DEFINE Off == {i \in 1 .. N : F[i] # f[i]}
    <3> SUFFICES ASSUME Off # {} PROVE FALSE
      OBVIOUS
    <3>1. PICK n \in Off : \A m \in Off : n <= m
      <4>1. Off \in SUBSET Nat
        BY <1>1
      <4> HIDE DEF Off
      <4> QED BY <4>1, LeastNatural
    <3>2. F[n] = step(F, n) /\ f[n] = step(f, n)
      <4> HIDE DEF F
      <4> QED BY <2>5, <2>6
    <3>3. n # 1
      <4> HIDE DEF F
      <4> QED BY <3>2
    <3>4. n - 1 \in 1 .. N /\ ~ (n <= n - 1)
      BY <1>1, <3>3
    <3>5. F[n - 1] = f[n - 1]
      <4> HIDE DEF F
      <4> QED BY <3>1, <3>4
    <3> HIDE DEF F
    <3> QED BY <3>2, <3>3, <3>5
  <2>8. F[N] = f[N] /\ f[N] \in Seq(T) /\ ToSet(f[N]) = upto(N)
    <3> HIDE DEF F, upto
    <3> QED BY <2>2, <2>6, <2>7
  <2> HIDE DEF F
  <2> QED BY <1>1, <2>4, <2>8
<1> QED BY <1>2, <1>3
----------------------------------------------------------------------------
(* What the plan is made of.                                               *)

(* The commands that may be planned for the profiles of R: only value      *)
(* tests may be reported with less than an error, and value tests are      *)
(* built for those with a runner alone.                                    *)
Plannable(sc, R) ==
    {c \in Commands :
        /\ c.severity = "error" \/ sc.tests
        /\ c.step = "build-tests" /\ sc.tests =>
              \E p \in R : c.name = p.name /\ Prefixed(sc, p)}

GroupsOf(sc, R) == Seq(Plannable(sc, R)) \ {<<>>}

LEMMA RunnableOnes ==
    ASSUME NEW sc \in Scenario, NEW b \in Backend
    PROVE  /\ RunnableProfiles(sc, b) \in Seq(Profile)
           /\ ToSet(RunnableProfiles(sc, b)) =
                 {p \in ToSet(sc.profiles[b]) : Runnable(sc, p)}
<1> DEFINE s == sc.profiles[b]
           one(i) == LET p == s[i] IN When(Runnable(sc, p), <<p>>)
           ss == [i \in DOMAIN s |-> one(i)]
<1>1. s \in Seq(Profile)
  BY DEF Scenario
<1> HIDE DEF s
<1>2. \A i \in DOMAIN s : s[i] \in Profile
  BY <1>1
<1>3. ASSUME NEW i \in DOMAIN s
      PROVE  /\ one(i) \in Seq(Profile)
             /\ ToSet(one(i)) = IF Runnable(sc, s[i]) THEN {s[i]} ELSE {}
  <2>1. CASE Runnable(sc, s[i])
    <3>1. one(i) = <<s[i]>>
      BY <2>1 DEF When
    <3> HIDE DEF one
    <3> QED BY <1>2, <2>1, <3>1 DEF ToSet
  <2>2. CASE ~ Runnable(sc, s[i])
    <3>1. one(i) = <<>>
      BY <2>2 DEF When
    <3> HIDE DEF one
    <3> QED BY <2>2, <3>1 DEF ToSet
  <2> QED BY <2>1, <2>2
<1>4. ss \in Seq(Seq(Profile)) /\ DOMAIN ss = DOMAIN s /\ \A i \in DOMAIN s : ss[i] = one(i)
  <2> HIDE DEF one
  <2> QED BY <1>1, <1>3
<1>5. RunnableProfiles(sc, b) = FlattenSeq(ss)
  BY DEF RunnableProfiles, s
<1> HIDE DEF ss, one
<1>6. /\ FlattenSeq(ss) \in Seq(Profile)
      /\ ToSet(FlattenSeq(ss)) = UNION {ToSet(ss[i]) : i \in DOMAIN ss}
  BY <1>4, Flat
<1>7. UNION {ToSet(ss[i]) : i \in DOMAIN ss} = {p \in ToSet(s) : Runnable(sc, p)}
  <2>1. \A i \in DOMAIN ss : ToSet(ss[i]) = IF Runnable(sc, s[i]) THEN {s[i]} ELSE {}
    BY <1>3, <1>4
  <2>2. DOMAIN ss = DOMAIN s /\ ToSet(s) = {s[i] : i \in DOMAIN s}
    BY <1>4 DEF ToSet
  <2> QED BY ONLY <2>1, <2>2
<1> QED BY <1>5, <1>6, <1>7 DEF s

LEMMA Listed ==
    ASSUME NEW T, NEW n \in Nat, NEW f, DOMAIN f = 1 .. n, f = [i \in 1 .. n |-> f[i]],
           \A i \in 1 .. n : f[i] \in T
    PROVE  f \in Seq(T)
<1>1. f \in [1 .. n -> T]
  OBVIOUS
<1> QED BY <1>1

LEMMA WhenTyped ==
    ASSUME NEW T, NEW s \in Seq(T), NEW c \in BOOLEAN
    PROVE  When(c, s) \in Seq(T)
BY DEF When

LEMMA ProfileFields ==
    ASSUME NEW sc \in Scenario, NEW p \in Profile
    PROVE  /\ p.name \in Name /\ p.failures \in Nat /\ Executions(p) \in Nat
           /\ Executions(p) > 0
           /\ sc.tests \in BOOLEAN /\ sc.quality \in BOOLEAN
BY DEF Scenario, Profile, Executions

LEMMA PlannedCommand ==
    ASSUME NEW sc \in Scenario, NEW R, NEW b \in Backend, NEW name \in Name,
           NEW step \in Step, step # "build-tests", NEW i \in Nat
    PROVE  /\ Command(b, name, step, "error", TRUE, i) \in Plannable(sc, R)
           /\ Command(b, name, step, "error", FALSE, i) \in Plannable(sc, R)
           /\ sc.tests => Command(b, name, step, "warning", FALSE, i)
                                \in Plannable(sc, R)
BY DEF Plannable, Commands, Severity, Command

LEMMA FailuresArePlannable ==
    ASSUME NEW sc \in Scenario, NEW R, NEW b \in Backend, NEW p \in Profile
    PROVE  CompileFailures(b, p) \in Seq(Plannable(sc, R))
<1> DEFINE c(i) == Command(b, p.name, "compile-failure", "error", TRUE, i)
<1>1. p.failures \in Nat /\ p.name \in Name /\ "compile-failure" \in Step
  BY ProfileFields DEF Step
<1>2. \A i \in 1 .. p.failures : c(i) \in Plannable(sc, R)
  <2>1. \A i \in Nat : c(i) \in Plannable(sc, R)
    BY <1>1, PlannedCommand
  <2> HIDE DEF c
  <2> QED BY <1>1, <2>1
<1>3. CompileFailures(b, p) = [i \in 1 .. p.failures |-> c(i)]
  BY DEF CompileFailures
<1> HIDE DEF c
<1> QED BY <1>1, <1>2, <1>3, Listed

LEMMA CppPlan ==
    ASSUME NEW sc \in Scenario, NEW R, NEW p \in Profile
    PROVE  CppGroup(sc, p) \in GroupsOf(sc, R)
<1> DEFINE T == Plannable(sc, R)
           cleaning == When(sc.tests /\ sc.runners # {}, <<Required("cpp", p, "clean")>>)
           building == <<Required("cpp", p, "configure"), Required("cpp", p, "build")>>
           checking == When(sc.quality, <<Required("cpp", p, "check-warnings")>>)
           testing  == When(sc.tests, <<Reported("cpp", p, "build-values", 1)>>
                                      \o CppValueTests(p))
           failing  == CompileFailures("cpp", p)
<1>1. \A step \in {"clean", "configure", "build", "check-warnings"} :
          Required("cpp", p, step) \in T
  BY PlannedCommand, ProfileFields DEF Required, Backend, Step
<1>2. cleaning \in Seq(T) /\ building \in Seq(T) /\ checking \in Seq(T)
  <2>1. /\ Required("cpp", p, "clean") \in T
        /\ Required("cpp", p, "configure") \in T
        /\ Required("cpp", p, "build") \in T
        /\ Required("cpp", p, "check-warnings") \in T
    BY <1>1
  <2>2. sc.tests \in BOOLEAN /\ sc.quality \in BOOLEAN
    BY ProfileFields
  <2> HIDE DEF T
  <2> QED BY <2>1, <2>2 DEF When
<1>3. testing \in Seq(T)
  <2>1. CASE sc.tests
    <3>1. Reported("cpp", p, "build-values", 1) \in T
      BY <2>1, PlannedCommand, ProfileFields DEF Reported, Backend, Step
    <3>2. CppValueTests(p) \in Seq(T)
      <4> DEFINE c(i) == Reported("cpp", p, "test", i)
      <4>1. \A i \in 1 .. Executions(p) : c(i) \in T
        <5>1. \A i \in Nat : c(i) \in T
          BY <2>1, PlannedCommand, ProfileFields DEF Reported, Backend, Step
        <5> HIDE DEF c, T
        <5> QED BY <5>1, ProfileFields
      <4>2. CppValueTests(p) = [i \in 1 .. Executions(p) |-> c(i)]
        BY DEF CppValueTests
      <4>3. Executions(p) \in Nat
        BY ProfileFields
      <4> HIDE DEF c, T
      <4> QED BY <4>1, <4>2, <4>3, Listed
    <3>3. testing = <<Reported("cpp", p, "build-values", 1)>> \o CppValueTests(p)
      BY <2>1 DEF When
    <3> HIDE DEF T, testing
    <3> QED BY <3>1, <3>2, <3>3
  <2>2. CASE ~ sc.tests
    <3>1. testing = <<>>
      BY <2>2 DEF When
    <3> HIDE DEF testing, T
    <3> QED BY <3>1
  <2> QED BY <2>1, <2>2
<1>4. failing \in Seq(T)
  BY FailuresArePlannable DEF Backend
<1>5. Len(building) = 2
  OBVIOUS
<1>6. CppGroup(sc, p) = cleaning \o building \o checking \o testing \o failing
  BY DEF CppGroup
<1> HIDE DEF T, cleaning, building, checking, testing, failing
<1>7. cleaning \o building \in Seq(T) /\ Len(cleaning \o building) > 0
  BY <1>2, <1>5, Joined
<1>8. /\ cleaning \o building \o checking \in Seq(T)
      /\ Len(cleaning \o building \o checking) > 0
  BY <1>2, <1>7, Joined
<1>9. /\ cleaning \o building \o checking \o testing \in Seq(T)
      /\ Len(cleaning \o building \o checking \o testing) > 0
  BY <1>3, <1>8, Joined
<1>10. CppGroup(sc, p) \in Seq(T) /\ Len(CppGroup(sc, p)) > 0
  BY <1>4, <1>6, <1>9, Joined
<1>11. CppGroup(sc, p) # <<>>
  BY <1>10
<1> QED BY <1>10, <1>11 DEF GroupsOf, T

LEMMA RustPlan ==
    ASSUME NEW sc \in Scenario, NEW R, NEW p \in R, p \in Profile
    PROVE  RustProfileGroups(sc, p) \in Seq(GroupsOf(sc, R))
<1> DEFINE T == Plannable(sc, R)
           G == GroupsOf(sc, R)
           warnings == Required("rust", p, "check-warnings")
           docs == Required("rust", p, "rustdoc")
           clippy == Required("rust", p, "clippy")
           test == RustTest(sc, p)
           failing == CompileFailures("rust", p)
<1>1. warnings \in T /\ docs \in T /\ clippy \in T
  BY PlannedCommand, ProfileFields DEF Required, Backend, Step
<1>2. test \in T
  <2>1. RustTestStep(sc, p) \in {"test", "build-tests"}
    BY DEF RustTestStep
  <2>2. RustTestStep(sc, p) = "build-tests" /\ sc.tests => Prefixed(sc, p)
    BY DEF RustTestStep
  <2> QED BY <2>1, <2>2, ProfileFields
          DEF RustTest, Reported, Required, Command, Plannable, Commands, Severity, Backend,
              Step
<1>3. failing \in Seq(T)
  BY FailuresArePlannable DEF Backend
<1>4. \A c \in T : <<c>> \in G
  <2> HIDE DEF T
  <2>1. \A c \in T : <<c>> \in Seq(T) /\ Len(<<c>>) = 1
    OBVIOUS
  <2>2. \A c \in T : <<c>> # <<>>
    OBVIOUS
  <2> QED BY <2>1, <2>2 DEF GroupsOf, T
<1>5. <<test>> \o failing \in G
  <2> HIDE DEF T, test, failing
  <2>1. <<test>> \in Seq(T) /\ Len(<<test>>) = 1
    BY <1>2
  <2>2. <<test>> \o failing \in Seq(T) /\ Len(<<test>> \o failing) > 0
    BY <1>3, <2>1, Joined
  <2>3. <<test>> \o failing # <<>>
    BY <2>2
  <2> QED BY <2>2, <2>3 DEF GroupsOf, T
<1>6. <<<<warnings>>, <<docs>>>> \in Seq(G) /\ <<<<clippy>>>> \in Seq(G)
  <2>1. <<warnings>> \in G /\ <<docs>> \in G /\ <<clippy>> \in G
    BY <1>1, <1>4
  <2> HIDE DEF G, T, warnings, docs, clippy
  <2> QED BY <2>1
<1>7. RustQuality(sc, p) = <<<<warnings>>, <<docs>>>>
                           \o When("clippy" \notin sc.missing, <<<<clippy>>>>)
  BY DEF RustQuality
<1>8. RustProfileGroups(sc, p) = When(sc.quality, RustQuality(sc, p))
                                 \o <<<<test>> \o failing>>
  BY DEF RustProfileGroups
<1> HIDE DEF T, G, warnings, docs, clippy, test, failing
<1>9. RustQuality(sc, p) \in Seq(G)
  <2>1. When("clippy" \notin sc.missing, <<<<clippy>>>>) \in Seq(G)
    BY <1>6, WhenTyped
  <2> QED BY <1>6, <1>7, <2>1, Joined
<1>10. When(sc.quality, RustQuality(sc, p)) \in Seq(G)
  BY <1>9, WhenTyped, ProfileFields
<1>11. <<<<test>> \o failing>> \in Seq(G)
  BY <1>5
<1> QED BY <1>8, <1>10, <1>11, Joined DEF G

LEMMA DoctestIsReady ==
    ASSUME NEW sc, NEW rd, DoctestCandidates(sc, rd) # {}
    PROVE  DoctestProfile(sc, rd) \in ToSet(rd)
<1> DEFINE plain == {p \in DoctestCandidates(sc, rd) : ~p.features}
<1>1. \E p \in DoctestCandidates(sc, rd) : plain = {} \/ p \in plain
  OBVIOUS
<1>2. DoctestProfile(sc, rd) = CHOOSE p \in DoctestCandidates(sc, rd) : plain = {} \/ p \in plain
  BY DEF DoctestProfile
<1> HIDE DEF plain
<1>3. DoctestProfile(sc, rd) \in DoctestCandidates(sc, rd)
  BY <1>1, <1>2
<1> QED BY <1>3 DEF DoctestCandidates

(* All groups of a plan are plannable, and the plan of each ready profile  *)
(* is among them.                                                          *)
LEMMA CppPlans ==
    ASSUME NEW sc \in Scenario, NEW rd \in Seq(Profile)
    PROVE  /\ CppGroups(sc, rd) \in Seq(GroupsOf(sc, ToSet(rd)))
           /\ \A p \in ToSet(rd) : CppGroup(sc, p) \in ToSet(CppGroups(sc, rd))
<1> DEFINE g(i) == CppGroup(sc, rd[i])
           G == GroupsOf(sc, ToSet(rd))
<1>1. Len(rd) \in Nat /\ DOMAIN rd = 1 .. Len(rd) /\ \A i \in DOMAIN rd : rd[i] \in Profile
  OBVIOUS
<1>2. CppGroups(sc, rd) = [i \in 1 .. Len(rd) |-> g(i)]
  BY <1>1 DEF CppGroups
<1>3. \A i \in 1 .. Len(rd) : g(i) \in G
  BY <1>1, CppPlan
<1>4. CppGroups(sc, rd) \in Seq(G)
  <2> HIDE DEF g, G
  <2> QED BY <1>1, <1>2, <1>3, Listed
<1>5. \A i \in DOMAIN rd : CppGroup(sc, rd[i]) \in ToSet(CppGroups(sc, rd))
  BY <1>1, <1>2 DEF ToSet
<1> QED BY <1>4, <1>5 DEF ToSet

LEMMA RustPlans ==
    ASSUME NEW sc \in Scenario, NEW rd \in Seq(Profile)
    PROVE  /\ RustGroups(sc, rd) \in Seq(GroupsOf(sc, ToSet(rd)))
           /\ \A p \in ToSet(rd) :
                 ToSet(RustProfileGroups(sc, p)) \subseteq ToSet(RustGroups(sc, rd))
<1> DEFINE g(i) == RustProfileGroups(sc, rd[i])
           G == GroupsOf(sc, ToSet(rd))
           ss == [i \in DOMAIN rd |-> g(i)]
           doctests == When(sc.quality /\ DoctestCandidates(sc, rd) # {},
                            <<<<Required("rust", DoctestProfile(sc, rd), "doctest")>>>>)
           packages == When(sc.quality /\ rd # <<>>,
                            <<<<Required("rust", rd[1], "package-list")>>>>)
<1>1. /\ Len(rd) \in Nat /\ DOMAIN rd = 1 .. Len(rd)
      /\ \A i \in DOMAIN rd : rd[i] \in Profile /\ rd[i] \in ToSet(rd)
      /\ \A p \in ToSet(rd) : p \in Profile
  BY DEF ToSet
<1>2. \A i \in DOMAIN rd : g(i) \in Seq(G)
  BY <1>1, RustPlan
<1>3. ss \in Seq(Seq(G)) /\ DOMAIN ss = DOMAIN rd /\ \A i \in DOMAIN rd : ss[i] = g(i)
  <2> HIDE DEF g, G
  <2>1. ss = [i \in 1 .. Len(rd) |-> ss[i]] /\ DOMAIN ss = 1 .. Len(rd)
    BY <1>1
  <2>2. \A i \in DOMAIN rd : ss[i] = g(i)
    OBVIOUS
  <2> HIDE DEF ss
  <2> QED BY <1>1, <1>2, <2>1, <2>2, Listed
<1>4. RustGroups(sc, rd) = FlattenSeq(ss) \o doctests \o packages
  BY DEF RustGroups
<1>5. /\ FlattenSeq(ss) \in Seq(G)
      /\ ToSet(FlattenSeq(ss)) = UNION {ToSet(ss[i]) : i \in DOMAIN ss}
  <2> HIDE DEF ss, G
  <2> QED BY <1>3, Flat
<1>6. \A p \in ToSet(rd), step \in {"doctest", "package-list"} :
          <<<<Required("rust", p, step)>>>> \in Seq(G)
  <2> SUFFICES ASSUME NEW p \in ToSet(rd), NEW step \in {"doctest", "package-list"}
               PROVE  <<<<Required("rust", p, step)>>>> \in Seq(G)
    OBVIOUS
  <2> DEFINE c == Required("rust", p, step)
             T == Plannable(sc, ToSet(rd))
  <2>1. c \in T
    <3>1. step \in Step /\ step # "build-tests" /\ p.name \in Name
      BY <1>1, ProfileFields DEF Step
    <3> QED BY <3>1, PlannedCommand DEF Required, Backend
  <2> HIDE DEF c, T
  <2>2. <<c>> \in Seq(T) /\ <<c>> # <<>>
    BY <2>1
  <2>3. <<c>> \in G
    BY <2>2 DEF GroupsOf, T
  <2> HIDE DEF G
  <2> QED BY <2>3 DEF c
<1>7. doctests \in Seq(G)
  <2>1. CASE sc.quality /\ DoctestCandidates(sc, rd) # {}
    <3>1. doctests = <<<<Required("rust", DoctestProfile(sc, rd), "doctest")>>>>
      BY <2>1 DEF When
    <3> HIDE DEF doctests, G
    <3> QED BY <1>6, <2>1, <3>1, DoctestIsReady
  <2>2. CASE ~ (sc.quality /\ DoctestCandidates(sc, rd) # {})
    <3>1. doctests = <<>>
      BY <2>2 DEF When
    <3> HIDE DEF doctests, G
    <3> QED BY <3>1
  <2> QED BY <2>1, <2>2
<1>8. packages \in Seq(G)
  <2>1. CASE sc.quality /\ rd # <<>>
    <3>1. packages = <<<<Required("rust", rd[1], "package-list")>>>>
      BY <2>1 DEF When
    <3>2. 1 \in DOMAIN rd
      BY <2>1
    <3> HIDE DEF packages, G
    <3> QED BY <1>1, <1>6, <3>1, <3>2
  <2>2. CASE ~ (sc.quality /\ rd # <<>>)
    <3>1. packages = <<>>
      BY <2>2 DEF When
    <3> HIDE DEF packages, G
    <3> QED BY <3>1
  <2> QED BY <2>1, <2>2
<1> HIDE DEF G, ss, doctests, packages
<1>9. /\ FlattenSeq(ss) \o doctests \in Seq(G)
      /\ ToSet(FlattenSeq(ss)) \subseteq ToSet(FlattenSeq(ss) \o doctests)
  BY <1>5, <1>7, Joined
<1>10. /\ RustGroups(sc, rd) \in Seq(G)
       /\ ToSet(FlattenSeq(ss)) \subseteq ToSet(RustGroups(sc, rd))
  <2> DEFINE s == FlattenSeq(ss) \o doctests
  <2>1. s \in Seq(G) /\ RustGroups(sc, rd) = s \o packages
    BY <1>4, <1>9
  <2>2. ToSet(FlattenSeq(ss)) \subseteq ToSet(s)
    BY <1>9
  <2> HIDE DEF s
  <2> QED BY <1>8, <2>1, <2>2, Joined
<1>11. \A i \in DOMAIN rd : ToSet(g(i)) \subseteq ToSet(RustGroups(sc, rd))
  <2> HIDE DEF g
  <2> QED BY <1>3, <1>5, <1>10
<1> QED BY <1>10, <1>11 DEF G, ToSet

(* Running a command: what is left of the groups.                          *)
LEMMA GroupLeft ==
    ASSUME NEW T, groups \in Seq(Seq(T) \ {<<>>}), groups # <<>>
    PROVE  /\ Current \in T /\ Current \in CommandsOf(groups)
           /\ DropGroup \in Seq(Seq(T) \ {<<>>})
           /\ CommandsOf(DropGroup) \subseteq CommandsOf(groups)
           /\ NextCommand \in Seq(Seq(T) \ {<<>>})
           /\ CommandsOf(NextCommand) \subseteq CommandsOf(groups)
           /\ CommandsOf(groups) \subseteq CommandsOf(NextCommand) \cup {Current}
<1> DEFINE G == Seq(T) \ {<<>>}
           first == groups[1]
<1> HIDE DEF G
<1>1. groups \in Seq(G)
  BY DEF G
<1>2. /\ first \in G /\ Tail(groups) \in Seq(G)
      /\ ToSet(groups) = {first} \cup ToSet(Tail(groups))
  <2>1. Head(groups) = first
    BY <1>1
  <2> HIDE DEF first
  <2> QED BY <1>1, <2>1, Taken
<1> HIDE DEF first
<1>3. first \in Seq(T) /\ first # <<>>
  BY <1>2 DEF G
<1>4. /\ Current \in T /\ Tail(first) \in Seq(T)
      /\ ToSet(first) = {Current} \cup ToSet(Tail(first))
      /\ Len(first) \in Nat /\ Len(first) > 0 /\ Len(Tail(first)) = Len(first) - 1
  <2>1. Head(first) = Current
    BY <1>3 DEF Current, first
  <2> QED BY <1>3, <2>1, Taken
<1>5. CommandsOf(groups) = ToSet(first) \cup CommandsOf(Tail(groups))
  BY <1>2 DEF CommandsOf
<1>6. CASE Len(first) = 1
  <2>1. NextCommand = Tail(groups)
    BY <1>6 DEF NextCommand, first
  <2>2. Tail(first) = <<>>
    <3>1. Len(Tail(first)) = 0
      BY <1>4, <1>6
    <3> QED BY <1>4, <3>1, Short
  <2>3. ToSet(first) = {Current}
    BY <1>4, <2>2, Short
  <2> QED BY <1>2, <1>4, <1>5, <2>1, <2>3 DEF DropGroup, G
<1>7. CASE Len(first) # 1
  <2>1. NextCommand = <<Tail(first)>> \o Tail(groups)
    BY <1>7 DEF NextCommand, first
  <2>2. Tail(first) \in G
    <3>1. Len(Tail(first)) # 0
      BY <1>4, <1>7
    <3>2. Tail(first) # <<>>
      BY <1>4, <3>1, Short
    <3> QED BY <1>4, <3>2 DEF G
  <2>3. <<Tail(first)>> \in Seq(G) /\ ToSet(<<Tail(first)>>) = {Tail(first)}
    BY <2>2, Short
  <2>4. /\ NextCommand \in Seq(G)
        /\ ToSet(NextCommand) = {Tail(first)} \cup ToSet(Tail(groups))
    <3> DEFINE s == <<Tail(first)>>
               u == Tail(groups)
    <3>1. s \in Seq(G) /\ u \in Seq(G) /\ NextCommand = s \o u
      BY <1>2, <2>1, <2>3
    <3> HIDE DEF s, u
    <3>2. NextCommand \in Seq(G) /\ ToSet(NextCommand) = ToSet(s) \cup ToSet(u)
      BY <3>1, Joined
    <3> QED BY <2>3, <3>2 DEF s, u
  <2>5. CommandsOf(NextCommand) = ToSet(Tail(first)) \cup CommandsOf(Tail(groups))
    BY <2>4 DEF CommandsOf
  <2> QED BY <1>2, <1>4, <1>5, <2>4, <2>5 DEF DropGroup, G
<1> QED BY <1>6, <1>7
----------------------------------------------------------------------------
(* What every step before the end does to the report: it only grows.       *)
DidIn(rs, c) == \E i \in DOMAIN rs : rs[i].command = c /\ rs[i].matched

Grows ==
    /\ scenario' = scenario
    /\ results' = results \/ \E r \in Results : results' = Append(results, r)
    /\ skipped \subseteq skipped'
    /\ \/ diagnostics' = diagnostics
       \/ \E s \in Severity : diagnostics' = Append(diagnostics, s)

LEMMA ResultsGrow ==
    ASSUME TypeInv, NEW r \in Results, results' = Append(results, r)
    PROVE  /\ results' \in Seq(Results)
           /\ Len(results) \in Nat /\ Len(results') = Len(results) + 1
           /\ DOMAIN results = 1 .. Len(results) /\ DOMAIN results' = 1 .. Len(results')
           /\ \A i \in DOMAIN results : i \in DOMAIN results' /\ results'[i] = results[i]
           /\ results'[Len(results')] = r
           /\ \A i \in DOMAIN results' : i \in DOMAIN results \/ results'[i] = r
           /\ \A c : DidIn(results, c) => DidIn(results', c)
           /\ r.matched => DidIn(results', r.command)
<1>1. results \in Seq(Results)
  BY DEF TypeInv
<1>2. /\ results' \in Seq(Results)
      /\ Len(results) \in Nat /\ Len(results') = Len(results) + 1
      /\ DOMAIN results = 1 .. Len(results) /\ DOMAIN results' = 1 .. Len(results')
      /\ results'[Len(results')] = r
  BY <1>1
<1>3. /\ \A i \in DOMAIN results : i \in DOMAIN results' /\ results'[i] = results[i]
      /\ \A i \in DOMAIN results' : i \in DOMAIN results \/ results'[i] = r
  BY <1>1, Added
<1>4. Len(results') \in DOMAIN results'
  BY <1>2
<1>5. \A c : DidIn(results, c) => DidIn(results', c)
  BY <1>3 DEF DidIn
<1>6. r.matched => DidIn(results', r.command)
  BY <1>2, <1>4 DEF DidIn
<1> QED BY <1>2, <1>3, <1>5, <1>6

LEMMA Diagnosed ==
    ASSUME TypeInv, NEW s \in Severity, diagnostics' = Append(diagnostics, s),
           scenario' = scenario
    PROVE  /\ diagnostics' \in Seq(Severity) /\ diagnostics' # <<>>
           /\ Tolerable' => Tolerable /\ s # "error" /\ ~scenario.tests
<1>1. diagnostics \in Seq(Severity)
  BY DEF TypeInv
<1>2. /\ diagnostics' \in Seq(Severity) /\ diagnostics' # <<>>
      /\ ToSet(diagnostics') = ToSet(diagnostics) \cup {s}
  BY <1>1, Added
<1> QED BY <1>2 DEF Tolerable

LEMMA Growth ==
    ASSUME TypeInv, Grows
    PROVE  /\ results' \in Seq(Results) /\ diagnostics' \in Seq(Severity)
           /\ Tolerable' => Tolerable
           /\ diagnostics # <<>> => diagnostics' # <<>>
           /\ skipped # {} => skipped' # {}
           /\ \A c : DidIn(results, c) => DidIn(results', c)
           /\ \A b : Profiles(b)' = Profiles(b)
           /\ \A b, p : /\ Planned(b, p)' = Planned(b, p)
                        /\ Verified(b, p) => Verified(b, p)'
                        /\ Excused(b, p) => Excused(b, p)'
                        /\ Complete(b, p) => Complete(b, p)'
<1>1. scenario' = scenario /\ skipped \subseteq skipped'
  BY DEF Grows
<1>2. /\ diagnostics' \in Seq(Severity) /\ (Tolerable' => Tolerable)
      /\ diagnostics # <<>> => diagnostics' # <<>>
  <2>1. CASE diagnostics' = diagnostics
    BY <1>1, <2>1 DEF TypeInv, Tolerable
  <2>2. CASE \E s \in Severity : diagnostics' = Append(diagnostics, s)
    BY <1>1, <2>2, Diagnosed
  <2> QED BY <2>1, <2>2 DEF Grows
<1>3. results' \in Seq(Results) /\ \A c : DidIn(results, c) => DidIn(results', c)
  <2>1. CASE results' = results
    BY <2>1 DEF TypeInv
  <2>2. CASE \E r \in Results : results' = Append(results, r)
    BY <2>2, ResultsGrow
  <2> QED BY <2>1, <2>2 DEF Grows
<1>4. \A b : Profiles(b)' = Profiles(b)
  BY <1>1 DEF Profiles
<1>5. \A b, p : Planned(b, p)' = Planned(b, p)
  BY <1>1 DEF Planned
<1>6. \A b, p : Verified(b, p) => Verified(b, p)'
  <2> SUFFICES ASSUME NEW b, NEW p, Verified(b, p), NEW c \in Planned(b, p)
               PROVE  DidIn(results', c)
    BY <1>5 DEF Verified, Did, DidIn
  <2>1. DidIn(results, c)
    BY DEF Verified, Did, DidIn
  <2> QED BY <1>3, <2>1
<1>7. \A b, p : Excused(b, p) => Excused(b, p)'
  BY <1>1 DEF Excused
<1> QED BY <1>1, <1>2, <1>3, <1>4, <1>5, <1>6, <1>7 DEF Complete

LEMMA LeftShape ==
    ASSUME TypeInv, left # <<>>
    PROVE  /\ Head(left) \in Backend
           /\ Tail(left) \in {<<"rust">>, <<>>}
           /\ Head(left) = "rust" => Tail(left) = <<>>
           /\ Backend \ ToSet(Tail(left)) = (Backend \ ToSet(left)) \cup {Head(left)}
<1>1. CASE left = <<"cpp", "rust">>
  <2>1. /\ Head(left) = "cpp" /\ Tail(left) = <<"rust">>
        /\ DOMAIN left = {1, 2} /\ left[1] = "cpp" /\ left[2] = "rust"
        /\ DOMAIN <<"rust">> = {1} /\ <<"rust">>[1] = "rust"
    BY <1>1
  <2>2. ToSet(left) = {"cpp", "rust"} /\ ToSet(Tail(left)) = {"rust"}
    BY <2>1 DEF ToSet
  <2> QED BY <2>1, <2>2 DEF Backend
<1>2. CASE left = <<"rust">>
  <2>1. /\ Head(left) = "rust" /\ Tail(left) = <<>>
        /\ DOMAIN left = {1} /\ left[1] = "rust"
    BY <1>2
  <2>2. ToSet(left) = {"rust"} /\ ToSet(Tail(left)) = {}
    BY <2>1 DEF ToSet
  <2> QED BY <2>1, <2>2 DEF Backend
<1> QED BY <1>1, <1>2 DEF TypeInv

(* The parts of the invariant that are about the report alone.             *)
LEMMA FinishedKept ==
    ASSUME TypeInv, FinishedInv, Grows,
           \/ left' = left
           \/ /\ left # <<>> /\ left' = Tail(left)
              /\ \A b \in Backend : b = Head(left) /\ Tolerable' =>
                    \A p \in Profiles(b) : Complete(b, p)',
           pc' = "finalize" /\ Tolerable' => left' = <<>>
    PROVE  FinishedInv'
<1>1. Tolerable => \A b \in Backend \ ToSet(left) : \A p \in Profiles(b) : Complete(b, p)
  BY DEF FinishedInv
<1>2. CASE left' = left
  BY <1>1, <1>2, Growth DEF FinishedInv
<1>3. CASE /\ left # <<>> /\ left' = Tail(left)
           /\ \A b \in Backend : b = Head(left) /\ Tolerable' =>
                 \A p \in Profiles(b) : Complete(b, p)'
  <2>1. Backend \ ToSet(left)' = (Backend \ ToSet(left)) \cup {Head(left)}
    <3>1. ToSet(left)' = ToSet(Tail(left))
      BY <1>3 DEF ToSet
    <3> QED BY <1>3, <3>1, LeftShape
  <2> SUFFICES ASSUME Tolerable', NEW b \in Backend \ ToSet(left)', NEW p \in Profiles(b)'
               PROVE  Complete(b, p)'
    BY DEF FinishedInv
  <2>2. CASE b = Head(left)
    BY <1>3, <2>2, Growth
  <2>3. CASE b \in Backend \ ToSet(left)
    BY <1>1, <2>3, Growth
  <2> QED BY <2>1, <2>2, <2>3
<1> QED BY <1>2, <1>3

LEMMA BinariesKept ==
    ASSUME TypeInv, BinariesInv, Grows, pc # "follow",
           \/ results' = results
           \/ \E r \in Results : /\ r.command.step = "build-tests" /\ scenario.tests
                                        => ~Tolerable'
                                 /\ results' = Append(results, r)
    PROVE  BinariesInv'
<1> SUFFICES ASSUME Tolerable', scenario.tests, NEW m \in DOMAIN results',
                    results'[m].command.step = "build-tests"
             PROVE  /\ results'[m].found > 0
                    /\ \A i \in 1 .. results'[m].found :
                          DidIn(results', Test(results'[m].command, i))
  BY DEF BinariesInv, Grows, Did, DidIn
<1>1. m \in DOMAIN results /\ results'[m] = results[m]
  <2>1. CASE results' = results
    BY <2>1
  <2>2. CASE \E r \in Results : /\ r.command.step = "build-tests" /\ scenario.tests
                                       => ~Tolerable'
                                /\ results' = Append(results, r)
    BY <2>2, ResultsGrow
  <2> QED BY <2>1, <2>2
<1>2. /\ results[m].found > 0
      /\ \A i \in 1 .. results[m].found : DidIn(results, Test(results[m].command, i))
  BY <1>1, Growth DEF BinariesInv, Did, DidIn
<1> QED BY <1>1, <1>2, Growth

LEMMA UnmatchedKept ==
    ASSUME TypeInv, UnmatchedInv, Grows,
           \/ results' = results
           \/ \E r \in Results : /\ r.matched \/ skipped' # {} \/ diagnostics' # <<>>
                                 /\ results' = Append(results, r)
    PROVE  UnmatchedInv'
<1>1. CASE results' = results
  BY <1>1, Growth DEF UnmatchedInv
<1>2. CASE \E r \in Results : /\ r.matched \/ skipped' # {} \/ diagnostics' # <<>>
                              /\ results' = Append(results, r)
  BY <1>2, Growth, ResultsGrow DEF UnmatchedInv
<1> QED BY <1>1, <1>2

LEMMA NothingAccepted == TypeInv' /\ pc' # "done" => AcceptedInv'
BY DEF TypeInv, AcceptedInv, AcceptedTestsRan, AcceptedBuildsAreComplete,
       AcceptedRunsAreAttested

LEMMA ScenarioFacts ==
    ASSUME TypeInv
    PROVE  /\ scenario \in Scenario
           /\ \A b \in Backend :
                 /\ scenario.profiles[b] \in Seq(Profile)
                 /\ NamesAreUnique(scenario.profiles[b])
                 /\ Profiles(b) \subseteq Profile
           /\ scenario.tests \in BOOLEAN
<1>1. scenario \in Scenario /\ \A b \in Backend : NamesAreUnique(scenario.profiles[b])
  BY ScenariosAssumption DEF TypeInv
<1>2. \A b \in Backend : scenario.profiles[b] \in Seq(Profile)
  BY <1>1 DEF Scenario
<1>3. \A s \in Seq(Profile) : ToSet(s) \subseteq Profile
  BY DEF ToSet
<1>4. scenario.tests \in BOOLEAN
  BY <1>1 DEF Scenario
<1> QED BY <1>1, <1>2, <1>3, <1>4 DEF Profiles

LEMMA Idle ==
    ASSUME pc' \notin Working
    PROVE  ReadyInv' /\ PreparingInv' /\ HostInv' /\ NativeInv' /\ RunningInv' /\ FollowInv'
BY DEF Working, ReadyInv, PreparingInv, HostInv, NativeInv, RunningInv, FollowInv

(* Until the preparation is done there are no commands to run.             *)
LEMMA Preparing ==
    ASSUME pc' \in {"toolchain", "host", "prepare"}
    PROVE  RunningInv' /\ FollowInv'
BY DEF RunningInv, FollowInv
----------------------------------------------------------------------------
LEMMA Beginning == Init => IInv
<1> SUFFICES ASSUME Init PROVE IInv
  OBVIOUS
<1>1. TypeInv
  <2>1. /\ <<>> \in Seq(Profile) /\ <<>> \in Seq(Seq(Commands) \ {<<>>})
        /\ <<>> \in Seq(Results) /\ <<>> \in Seq(Severity)
    OBVIOUS
  <2>2. native \in [Compiler -> {"unasked", "works", "fails"}]
    BY DEF Init
  <2>3. /\ pc = "start" /\ left = <<"cpp", "rust">> /\ scenario \in Scenarios
        /\ waiting = <<>> /\ ready = <<>> /\ host = FALSE /\ groups = <<>>
        /\ binaries = 0 /\ results = <<>> /\ diagnostics = <<>> /\ exit = "running"
    BY DEF Init
  <2>4. "start" \notin Working
    BY DEF Working
  <2> QED BY <2>1, <2>2, <2>3, <2>4 DEF TypeInv
<1>2. ToSet(left) = Backend
  <2>1. left[1] = "cpp" /\ left[2] = "rust" /\ DOMAIN left = {1, 2}
    BY DEF Init
  <2> QED BY <2>1 DEF ToSet, Backend
<1>3. /\ pc = "start" /\ results = <<>> /\ exit = "running" /\ DOMAIN results = {}
  BY DEF Init
<1> QED BY <1>1, <1>2, <1>3
        DEF IInv, ReadyInv, PreparingInv, HostInv, NativeInv, RunningInv, FollowInv,
            BinariesInv, UnmatchedInv, FinishedInv, AcceptedInv, AcceptedTestsRan,
            AcceptedBuildsAreComplete, AcceptedRunsAreAttested, Working

LEMMA StartKeeps == IInv /\ Start => IInv'
<1> SUFFICES ASSUME IInv, Start PROVE IInv'
  OBVIOUS
<1> USE DEF IInv
<1>1. /\ pc = "start"
      /\ \/ pc' = "finalize" /\ diagnostics' = Append(diagnostics, "error")
         \/ pc' = "backend" /\ diagnostics' = diagnostics
      /\ scenario' = scenario /\ left' = left /\ waiting' = waiting /\ ready' = ready
      /\ native' = native /\ host' = host /\ groups' = groups /\ binaries' = binaries
      /\ results' = results /\ skipped' = skipped /\ exit' = exit
  BY DEF Start, prepared, Diagnose
<1>2. Grows
  BY <1>1 DEF Grows, Severity
<1>3. pc' = "finalize" => ~Tolerable'
  BY <1>1, Diagnosed DEF Severity
<1>4. TypeInv'
  BY <1>1, <1>2, Growth DEF TypeInv, Working
<1>5. FinishedInv'
  BY <1>1, <1>2, <1>3, FinishedKept
<1>6. BinariesInv' /\ UnmatchedInv'
  BY <1>1, <1>2, BinariesKept, UnmatchedKept
<1> QED BY <1>1, <1>4, <1>5, <1>6, Idle, NothingAccepted DEF Working

LEMMA EnterBackendKeeps == IInv /\ EnterBackend => IInv'
<1> SUFFICES ASSUME IInv, EnterBackend PROVE IInv'
  OBVIOUS
<1> USE DEF IInv
<1> DEFINE b == Head(left)
           usable == RunnableProfiles(scenario, b)
           others == ToSet(scenario.profiles[b]) \ ToSet(usable)
           unusable == RequiredTools(b) \cap scenario.missing # {}
<1>1. /\ pc = "backend" /\ left # <<>>
      /\ Skip(b, IF unusable THEN {"_toolchain"} ELSE Names(others))
      /\ \/ /\ unusable \/ usable = <<>>
            /\ pc' = "backend" /\ left' = Tail(left)
            /\ waiting' = waiting /\ ready' = ready /\ native' = native /\ host' = host
         \/ /\ ~ (unusable \/ usable = <<>>)
            /\ pc' = (IF b = "rust" THEN "toolchain" ELSE "prepare")
            /\ waiting' = usable /\ ready' = <<>> /\ host' = FALSE
            /\ native' = [c \in Compiler |-> "unasked"]
            /\ left' = left
      /\ scenario' = scenario /\ groups' = groups /\ binaries' = binaries
      /\ results' = results /\ diagnostics' = diagnostics /\ exit' = exit
  BY DEF EnterBackend, NextBackend, prepared
<1>2. Grows
  BY <1>1 DEF Grows, Skip
<1>3. /\ b \in Backend /\ Tail(left) \in {<<"rust">>, <<>>}
  BY <1>1, LeftShape
<1>4. usable \in Seq(Profile) /\ ToSet(usable) \subseteq Profiles(b)
  BY <1>3, RunnableOnes, ScenarioFacts DEF Profiles
<1> HIDE DEF b, usable
<1>5. ASSUME NEW d, d = b, NEW p \in Profiles(d)
      PROVE  (p \in ToSet(usable) /\ ~unusable) \/ Excused(d, p)'
  <2>1. CASE unusable
    <3>1. [backend |-> d, name |-> "_toolchain"] \in skipped'
      BY <1>1, <1>5, <2>1 DEF Skip
    <3> QED BY <3>1 DEF Excused
  <2>2. CASE ~unusable /\ p \notin ToSet(usable)
    <3>1. p.name \in Names(others)
      BY <1>5, <2>2 DEF Profiles, Names
    <3>2. [backend |-> d, name |-> p.name] \in skipped'
      BY <1>1, <1>5, <2>2, <3>1 DEF Skip
    <3> QED BY <3>2 DEF Excused
  <2> QED BY <2>1, <2>2
<1>6. BinariesInv' /\ UnmatchedInv'
  BY <1>1, <1>2, BinariesKept, UnmatchedKept
<1>7. CASE unusable \/ usable = <<>>
  <2>1. TypeInv'
    BY <1>1, <1>2, <1>3, <1>7, Growth DEF TypeInv, Working
  <2>2. \A d, p : d = b /\ p \in Profiles(d) => Complete(d, p)'
    <3> SUFFICES ASSUME NEW d, d = b, NEW p \in Profiles(d) PROVE Excused(d, p)'
      BY DEF Complete
    <3>1. usable = <<>> => ToSet(usable) = {}
      BY Short
    <3> QED BY <1>5, <1>7, <3>1
  <2>3. FinishedInv'
    BY <1>1, <1>2, <1>7, <2>2, FinishedKept DEF b
  <2> QED BY <1>1, <1>6, <1>7, <2>1, <2>3, Idle, NothingAccepted DEF Working
<1>8. CASE ~ (unusable \/ usable = <<>>)
  <2>1. TypeInv'
    <3>1. <<>> \in Seq(Profile) /\ pc' \in {"toolchain", "prepare"}
      BY <1>1, <1>8
    <3>2. native' \in [Compiler -> {"unasked", "works", "fails"}]
      BY <1>1, <1>8
    <3> QED BY <1>1, <1>2, <1>4, <1>8, <3>1, <3>2, Growth DEF TypeInv, Working, b
  <2>2. FinishedInv'
    BY <1>1, <1>2, <1>8, FinishedKept
  <2>3. ReadyInv'
    BY <1>1, <1>8, Short DEF ReadyInv
  <2>4. PreparingInv'
    <3>1. ToSet(waiting)' = ToSet(usable) /\ Head(left)' = b
      BY <1>1, <1>8 DEF ToSet, b
    <3>2. \A d : Profiles(d)' = Profiles(d)
      BY <1>2, Growth
    <3> QED BY <1>4, <1>5, <3>1, <3>2 DEF PreparingInv
  <2>5. HostInv' /\ NativeInv'
    BY <1>1, <1>8 DEF HostInv, NativeInv, b
  <2> QED BY <1>1, <1>6, <1>8, <2>1, <2>2, <2>3, <2>4, <2>5, Preparing, NothingAccepted
<1> QED BY <1>7, <1>8

LEMMA EndBackendsKeeps == IInv /\ EndBackends => IInv'
<1> SUFFICES ASSUME IInv, EndBackends PROVE IInv'
  OBVIOUS
<1> USE DEF IInv
<1>1. /\ pc = "backend" /\ left = <<>> /\ pc' = "finalize"
      /\ scenario' = scenario /\ left' = left /\ waiting' = waiting /\ ready' = ready
      /\ native' = native /\ host' = host /\ groups' = groups /\ binaries' = binaries
      /\ results' = results /\ diagnostics' = diagnostics /\ skipped' = skipped
      /\ exit' = exit
  BY DEF EndBackends, prepared, report
<1>2. Grows
  BY <1>1 DEF Grows
<1>3. TypeInv'
  BY <1>1 DEF TypeInv, Working
<1>4. FinishedInv'
  BY <1>1, <1>2, FinishedKept
<1>5. BinariesInv' /\ UnmatchedInv'
  BY <1>1, <1>2, BinariesKept, UnmatchedKept
<1> QED BY <1>1, <1>3, <1>4, <1>5, Idle, NothingAccepted DEF Working

(* The result of a command that is not a build of tests.                   *)
LEMMA Asked ==
    ASSUME TypeInv, BinariesInv, UnmatchedInv, pc # "follow", Grows,
           NEW c \in Commands, c.step # "build-tests",
           NEW m, m \in BOOLEAN, results' = Ran(c, m, 0),
           m \/ skipped' # {} \/ diagnostics' # <<>>
    PROVE  BinariesInv' /\ UnmatchedInv'
<1> DEFINE r == [command |-> c, matched |-> m, found |-> 0]
<1>1. r \in Results /\ results' = Append(results, r) /\ r.command = c /\ r.matched = m
  BY DEF Ran, Results
<1> HIDE DEF r
<1> QED BY <1>1, BinariesKept, UnmatchedKept

LEMMA ToolchainCommand ==
    ASSUME NEW b \in Backend, NEW step \in {"preflight", "host-target"}
    PROVE  /\ OfToolchain(b, step) \in Commands /\ OfToolchain(b, step).step # "build-tests"
           /\ OfToolchain(b, step).backend = b
           /\ [command |-> OfToolchain(b, step), matched |-> TRUE, found |-> 0] \in Results
           /\ [command |-> OfToolchain(b, step), matched |-> FALSE, found |-> 0] \in Results
BY DEF OfToolchain, Command, Commands, Step, Severity, Results

LEMMA RustToolchainKeeps == IInv /\ RustToolchain => IInv'
<1> SUFFICES ASSUME IInv, RustToolchain PROVE IInv'
  OBVIOUS
<1> USE DEF IInv
<1> DEFINE c == OfToolchain("rust", "preflight")
           excusing == skipped' = skipped \cup {[backend |-> "rust", name |-> "_toolchain"]}
           given(m) == [command |-> c, matched |-> m, found |-> 0]
<1>1. /\ pc = "toolchain" /\ Head(left) = "rust" /\ left # <<>>
      /\ scenario' = scenario /\ waiting' = waiting /\ ready' = ready
      /\ native' = native /\ host' = host /\ groups' = groups /\ binaries' = binaries
      /\ exit' = exit
  BY DEF RustToolchain, prepared, TypeInv, Working
<1>2. \/ /\ NextBackend /\ excusing
         /\ results' = results /\ diagnostics' = diagnostics
      \/ /\ NextBackend /\ diagnostics' = Append(diagnostics, "error")
         /\ results' = results /\ skipped' = skipped
      \/ /\ NextBackend /\ excusing
         /\ results' = Ran(c, FALSE, 0) /\ diagnostics' = diagnostics
      \/ /\ results' = Ran(c, TRUE, 0) /\ diagnostics' = diagnostics
         /\ skipped \subseteq skipped' /\ left' = left
         /\ pc' = (IF \E p \in ToSet(waiting) : HostDependent(p) THEN "host" ELSE "prepare")
  BY DEF RustToolchain, Skip, Diagnose
<1>3. c \in Commands /\ c.step # "build-tests" /\ given(TRUE) \in Results
      /\ given(FALSE) \in Results
  BY ToolchainCommand DEF Backend
<1>4. \A m : results' = Ran(c, m, 0) => results' = Append(results, given(m))
  BY DEF Ran
<1> HIDE DEF c, given
<1>5. Grows
  BY <1>1, <1>2, <1>3, <1>4 DEF Grows, Severity
<1>6. excusing => skipped' # {} /\ \A p : Excused("rust", p)'
  <2> SUFFICES ASSUME excusing PROVE skipped' # {} /\ \A p : Excused("rust", p)'
    OBVIOUS
  <2>1. [backend |-> "rust", name |-> "_toolchain"] \in skipped'
    OBVIOUS
  <2> QED BY <2>1 DEF Excused
<1>7. BinariesInv' /\ UnmatchedInv'
  <2>1. CASE results' = results
    BY <1>1, <1>5, <2>1, BinariesKept, UnmatchedKept
  <2>2. CASE results' = Ran(c, FALSE, 0) /\ excusing
    BY <1>1, <1>3, <1>5, <1>6, <2>2, Asked
  <2>3. CASE results' = Ran(c, TRUE, 0)
    BY <1>1, <1>3, <1>5, <2>3, Asked
  <2> QED BY <1>2, <2>1, <2>2, <2>3
<1>8. CASE NextBackend
  <2>1. pc' = "backend" /\ left' = Tail(left)
    BY <1>8 DEF NextBackend
  <2>2. excusing \/ ~Tolerable'
    BY <1>1, <1>2, Diagnosed, <2>1 DEF Severity
  <2>3. TypeInv'
    BY <1>1, <1>5, <2>1, LeftShape, Growth DEF TypeInv, Working
  <2>4. FinishedInv'
    <3>1. \A b : b = Head(left) /\ Tolerable' => \A p \in Profiles(b) : Complete(b, p)'
      BY <1>1, <1>6, <2>2 DEF Complete
    <3> QED BY <1>1, <1>5, <2>1, <3>1, FinishedKept
  <2> QED BY <1>7, <2>1, <2>3, <2>4, Idle, NothingAccepted DEF Working
<1>9. CASE left' = left /\ diagnostics' = diagnostics
           /\ pc' = (IF \E p \in ToSet(waiting) : HostDependent(p) THEN "host" ELSE "prepare")
  <2>1. pc' \in {"host", "prepare"}
    BY <1>9
  <2>2. TypeInv'
    BY <1>1, <1>5, <1>9, <2>1, Growth DEF TypeInv, Working
  <2>3. FinishedInv'
    BY <1>5, <1>9, <2>1, FinishedKept
  <2>4. ReadyInv'
    BY <1>1, <1>5, <1>9, <2>1, Growth DEF ReadyInv, Working
  <2>5. PreparingInv'
    BY <1>1, <1>5, <1>9, <2>1, Growth DEF PreparingInv
  <2>6. HostInv' /\ NativeInv'
    BY <1>1, <1>9, <2>1 DEF HostInv, NativeInv
  <2> QED BY <1>7, <2>1, <2>2, <2>3, <2>4, <2>5, <2>6, Preparing, NothingAccepted
<1> QED BY <1>2, <1>8, <1>9
LEMMA HostQueryKeeps == IInv /\ HostQuery => IInv'
<1> SUFFICES ASSUME IInv, HostQuery PROVE IInv'
  OBVIOUS
<1> USE DEF IInv
<1> DEFINE c == OfToolchain("rust", "host-target")
           given(m) == [command |-> c, matched |-> m, found |-> 0]
           asking == Names({p \in ToSet(waiting) : HostDependent(p)})
           excusing == skipped' = skipped \cup {[backend |-> "rust", name |-> n] : n \in asking}
<1>1. /\ pc = "host" /\ pc' = "prepare" /\ Head(left) = "rust" /\ left # <<>>
      /\ scenario' = scenario /\ left' = left /\ waiting' = waiting /\ ready' = ready
      /\ native' = native /\ groups' = groups /\ binaries' = binaries /\ exit' = exit
  BY DEF HostQuery, TypeInv, Working
<1>2. \/ /\ results' = Ran(c, FALSE, 0) /\ excusing /\ diagnostics' = diagnostics
         /\ host' = FALSE
      \/ /\ results' = Ran(c, TRUE, 0) /\ excusing /\ host' = FALSE
         /\ diagnostics' = Append(diagnostics, "error")
      \/ /\ results' = Ran(c, TRUE, 0) /\ diagnostics' = diagnostics
         /\ skipped \subseteq skipped' /\ host' = TRUE
  BY DEF HostQuery, Skip, Diagnose
<1>3. c \in Commands /\ c.step # "build-tests" /\ given(TRUE) \in Results
      /\ given(FALSE) \in Results
  BY ToolchainCommand DEF Backend
<1>4. \A m : results' = Ran(c, m, 0) => results' = Append(results, given(m))
  BY DEF Ran
<1> HIDE DEF c, given
<1>5. Grows
  BY <1>1, <1>2, <1>3, <1>4 DEF Grows, Severity
<1>6. /\ asking # {}
      /\ \A p \in ToSet(waiting) : HostDependent(p) => p.name \in asking
  BY <1>1 DEF HostInv, Names
<1>7. excusing => /\ skipped' # {}
                  /\ \A p \in ToSet(waiting) : HostDependent(p) => Excused("rust", p)'
  <2> SUFFICES ASSUME excusing
               PROVE  /\ \A n \in asking : [backend |-> "rust", name |-> n] \in skipped'
                      /\ skipped' # {}
    BY <1>6 DEF Excused
  <2> HIDE DEF asking
  <2> QED BY <1>6
<1> HIDE DEF asking, excusing
<1>8. BinariesInv' /\ UnmatchedInv'
  <2>1. CASE results' = Ran(c, FALSE, 0) /\ excusing
    BY <1>1, <1>3, <1>5, <1>7, <2>1, Asked
  <2>2. CASE results' = Ran(c, TRUE, 0)
    BY <1>1, <1>3, <1>5, <2>2, Asked
  <2> QED BY <1>2, <2>1, <2>2
<1>9. TypeInv'
  BY <1>1, <1>2, <1>5, Growth DEF TypeInv, Working
<1>10. FinishedInv' /\ ReadyInv' /\ PreparingInv'
  BY <1>1, <1>5, FinishedKept, Growth DEF ReadyInv, PreparingInv, Working
<1>11. ~host' /\ Tolerable' => excusing
  BY <1>1, <1>2, Diagnosed DEF Severity
<1>12. HostInv' /\ NativeInv'
  BY <1>1, <1>7, <1>11 DEF HostInv, NativeInv
<1> QED BY <1>1, <1>8, <1>9, <1>10, <1>12, Preparing, NothingAccepted

LEMMA BecameOf ==
    ASSUME NEW p \in Profile
    PROVE  /\ Became("cpp", p) = p
           /\ Became("rust", p) \in Profile /\ Became("rust", p).name = p.name
           /\ p.target \/ HostDependent(p) => Became("rust", p) = [p EXCEPT !.target = TRUE]
           /\ ~p.target /\ ~HostDependent(p) => Became("rust", p) = p
<1>1. Became("cpp", p) = p
  BY DEF Became
<1>2. Became("rust", p) = [p EXCEPT !.target = p.target \/ HostDependent(p)]
  BY DEF Became
<1>3. p.target \in BOOLEAN /\ HostDependent(p) \in BOOLEAN
  BY DEF Profile, HostDependent
<1>4. p.target \/ HostDependent(p) => Became("rust", p) = [p EXCEPT !.target = TRUE]
  BY <1>2, <1>3
<1>5. ~p.target /\ ~HostDependent(p) => Became("rust", p) = p
  <2>1. p = [p EXCEPT !.target = p.target]
    BY DEF Profile
  <2>2. ~p.target /\ ~HostDependent(p) => p.target = (p.target \/ HostDependent(p))
    BY <1>3
  <2> QED BY <1>2, <2>1, <2>2
<1>6. Became("rust", p) \in Profile /\ Became("rust", p).name = p.name
  BY <1>2, <1>3 DEF Profile
<1> QED BY <1>1, <1>4, <1>5, <1>6

(* What a preflight finds of a profile: it is ready, excused, or an error  *)
(* is reported.                                                            *)
LEMMA Tried ==
    ASSUME TypeInv, BinariesInv, UnmatchedInv, pc = "prepare", scenario' = scenario,
           NEW c \in Commands, c.step # "build-tests", NEW q, NEW n, Preflight(c, q, n)
    PROVE  /\ Grows /\ BinariesInv' /\ UnmatchedInv'
           /\ \/ ready' = Append(ready, q)
              \/ ready' = ready /\ [backend |-> c.backend, name |-> n] \in skipped'
              \/ ready' = ready /\ ~Tolerable'
<1> DEFINE given(m) == [command |-> c, matched |-> m, found |-> 0]
<1>1. /\ given(TRUE) \in Results /\ given(FALSE) \in Results
      /\ \A m : results' = Ran(c, m, 0) => results' = Append(results, given(m))
  BY DEF Results, Ran
<1> HIDE DEF given
<1>2. CASE results' = Ran(c, TRUE, 0) /\ ready' = Append(ready, q)
           /\ diagnostics' = diagnostics /\ skipped' = skipped
  <2>1. Grows
    BY <1>1, <1>2 DEF Grows
  <2> QED BY <1>2, <2>1, Asked
<1>3. CASE results' = Ran(c, FALSE, 0) /\ Skip(c.backend, {n})
           /\ ready' = ready /\ diagnostics' = diagnostics
  <2>1. skipped \subseteq skipped' /\ [backend |-> c.backend, name |-> n] \in skipped'
    BY <1>3 DEF Skip
  <2>2. Grows /\ skipped' # {}
    BY <1>1, <1>3, <2>1 DEF Grows
  <2> QED BY <1>3, <2>1, <2>2, Asked
<1>4. CASE diagnostics' = Append(diagnostics, "error") /\ ready' = ready
           /\ results' = results /\ skipped' = skipped
  <2>1. Grows
    BY <1>4 DEF Grows, Severity
  <2>2. ~Tolerable'
    BY <1>4, Diagnosed DEF Severity
  <2>3. BinariesInv' /\ UnmatchedInv'
    BY <1>4, <2>1, BinariesKept, UnmatchedKept
  <2> QED BY <1>4, <2>1, <2>2, <2>3
<1> QED BY <1>2, <1>3, <1>4 DEF Preflight, Diagnose

(* Leaving a profile out, or taking it.                                    *)
LEMMA Decided ==
    ASSUME TypeInv, BinariesInv, UnmatchedInv, pc = "prepare", scenario' = scenario,
           NEW names, NEW q,
           \/ LeaveOut(names)
           \/ Take(q)
    PROVE  /\ Grows /\ BinariesInv' /\ UnmatchedInv'
           /\ LeaveOut(names) =>
                 /\ ready' = ready
                 /\ \A n \in names : [backend |-> Head(left), name |-> n] \in skipped'
           /\ Take(q) => ready' = Append(ready, q)
<1>1. /\ results' = results /\ diagnostics' = diagnostics /\ skipped \subseteq skipped'
  BY DEF LeaveOut, Take, Skip
<1>2. Grows
  BY <1>1 DEF Grows
<1>3. BinariesInv' /\ UnmatchedInv'
  BY <1>1, <1>2, BinariesKept, UnmatchedKept
<1>4. LeaveOut(names) =>
          /\ ready' = ready
          /\ \A n \in names : [backend |-> Head(left), name |-> n] \in skipped'
  BY DEF LeaveOut, Skip
<1> QED BY <1>2, <1>3, <1>4 DEF Take
(* What preparation makes of the next profile.                             *)
Decides(b, p) ==
    /\ Grows /\ BinariesInv' /\ UnmatchedInv'
    /\ ready' = ready \/ ready' = Append(ready, Became(b, p))
    /\ Tolerable' => Excused(b, p)' \/ ready' = Append(ready, Became(b, p))

LEMMA ProfileCommand ==
    ASSUME NEW b \in Backend, NEW p \in Profile
    PROVE  /\ Required(b, p, "target-preflight") \in Commands
           /\ Required(b, p, "target-preflight").step # "build-tests"
           /\ Required(b, p, "target-preflight").backend = b
BY DEF Required, Command, Commands, Step, Severity, Profile

LEMMA CppDecides ==
    ASSUME IInv, pc = "prepare", scenario' = scenario, Head(left) = "cpp",
           NEW p \in Profile, PrepareCpp(p)
    PROVE  /\ Decides("cpp", p)
           /\ native' \in [Compiler -> {"unasked", "works", "fails"}]
           /\ Tolerable' => \A c \in Compiler : native'[c] = "fails" =>
                 [backend |-> "cpp", name |-> "_toolchain"] \in skipped'
<1> USE DEF IInv
<1> DEFINE note == [backend |-> "cpp", name |-> "_toolchain"]
           Told == Tolerable' => \A c \in Compiler : native'[c] = "fails" => note \in skipped'
<1>1. /\ ready \in Seq(Profile) /\ Became("cpp", p) = p /\ p.compiler \in Compiler
      /\ native \in [Compiler -> {"unasked", "works", "fails"}]
  BY BecameOf DEF TypeInv, Profile
<1>2. Append(ready, p) # ready
  BY <1>1
<1>3. Tolerable => \A c \in Compiler : native[c] = "fails" => note \in skipped
  BY DEF NativeInv
<1>4. note \in skipped' => Excused("cpp", p)'
  BY DEF Excused
<1>5. [backend |-> "cpp", name |-> p.name] \in skipped' => Excused("cpp", p)'
  BY DEF Excused
<1>6. Grows => (Tolerable' => Tolerable) /\ skipped \subseteq skipped'
  BY Growth DEF Grows
<1>7. Grows /\ native' = native => Told
  BY <1>3, <1>6
<1> SUFFICES /\ Decides("cpp", p) /\ Told
             /\ native' \in [Compiler -> {"unasked", "works", "fails"}]
  OBVIOUS
<1> HIDE DEF note
<1>8. CASE Missing(p.compiler) /\ LeaveOut({p.name}) /\ native' = native
  <2>1. /\ Grows /\ BinariesInv' /\ UnmatchedInv' /\ ready' = ready
        /\ [backend |-> "cpp", name |-> p.name] \in skipped'
    BY <1>8, Decided
  <2> QED BY <1>1, <1>5, <1>7, <1>8, <2>1 DEF Decides
<1>9. CASE TargetPreflight("cpp", p) /\ native' = native
  <2> DEFINE c == Required("cpp", p, "target-preflight")
  <2>1. c \in Commands /\ c.step # "build-tests" /\ c.backend = "cpp"
    BY ProfileCommand DEF Backend
  <2>2. Preflight(c, p, p.name)
    BY <1>9 DEF TargetPreflight
  <2> HIDE DEF c
  <2>3. /\ Grows /\ BinariesInv' /\ UnmatchedInv'
        /\ \/ ready' = Append(ready, p)
           \/ ready' = ready /\ [backend |-> "cpp", name |-> p.name] \in skipped'
           \/ ready' = ready /\ ~Tolerable'
    BY <2>1, <2>2, Tried
  <2> QED BY <1>1, <1>5, <1>7, <1>9, <2>3 DEF Decides
<1>10. CASE NativePreflight(p)
  <2>1. CASE /\ Preflight(OfToolchain("cpp", "preflight"), p, "_toolchain")
             /\ native' = [native EXCEPT ![p.compiler] =
                              IF ready' = ready THEN "fails" ELSE "works"]
    <3> DEFINE c == OfToolchain("cpp", "preflight")
    <3>1. c \in Commands /\ c.step # "build-tests" /\ c.backend = "cpp"
      BY ToolchainCommand DEF Backend
    <3>2. Preflight(c, p, "_toolchain")
      BY <2>1
    <3> HIDE DEF c
    <3>3. /\ Grows /\ BinariesInv' /\ UnmatchedInv'
          /\ \/ ready' = Append(ready, p)
             \/ ready' = ready /\ note \in skipped'
             \/ ready' = ready /\ ~Tolerable'
      BY <3>1, <3>2, Tried DEF note
    <3>4. Told
      <4> SUFFICES ASSUME Tolerable', NEW d \in Compiler, native'[d] = "fails"
                   PROVE  note \in skipped'
        OBVIOUS
      <4>1. CASE d = p.compiler
        <5>1. native'[d] = IF ready' = ready THEN "fails" ELSE "works"
          BY <1>1, <2>1, <4>1
        <5> QED BY <1>2, <3>3, <5>1
      <4>2. CASE d # p.compiler
        <5>1. native[d] = "fails"
          BY <1>1, <2>1, <4>2
        <5> QED BY <1>3, <1>6, <3>3, <5>1
      <4> QED BY <4>1, <4>2
    <3>5. native' \in [Compiler -> {"unasked", "works", "fails"}]
      <4> DEFINE v == IF ready' = ready THEN "fails" ELSE "works"
      <4>1. v \in {"unasked", "works", "fails"} /\ native' = [native EXCEPT ![p.compiler] = v]
        BY <2>1
      <4> HIDE DEF v
      <4> QED BY <1>1, <4>1
    <3> QED BY <1>1, <1>4, <3>3, <3>4, <3>5 DEF Decides
  <2>2. CASE Take(p) /\ native' = native
    <3>1. /\ Grows /\ BinariesInv' /\ UnmatchedInv' /\ ready' = Append(ready, p)
      BY <2>2, Decided
    <3> QED BY <1>1, <1>7, <2>2, <3>1 DEF Decides
  <2>3. CASE native[p.compiler] = "fails" /\ LeaveOut({}) /\ native' = native
    <3>1. /\ Grows /\ BinariesInv' /\ UnmatchedInv' /\ ready' = ready
      BY <2>3, Decided
    <3>2. Tolerable' => Excused("cpp", p)'
      BY <1>1, <1>3, <1>4, <1>6, <2>3, <3>1
    <3> QED BY <1>1, <1>7, <2>3, <3>1, <3>2 DEF Decides
  <2> QED BY <1>10, <2>1, <2>2, <2>3 DEF NativePreflight
<1> QED BY <1>8, <1>9, <1>10 DEF PrepareCpp

LEMMA RustDecides ==
    ASSUME IInv, pc = "prepare", scenario' = scenario, Head(left) = "rust",
           NEW p \in Profile, p \in ToSet(waiting), PrepareRust(p)
    PROVE  Decides("rust", p) /\ native' = native
<1> USE DEF IInv
<1> DEFINE q == [p EXCEPT !.target = TRUE]
<1>1. /\ Became("rust", p) \in Profile /\ Became("rust", p).name = p.name
      /\ p.target \/ HostDependent(p) => Became("rust", p) = q
      /\ ~p.target /\ ~HostDependent(p) => Became("rust", p) = p
  BY BecameOf
<1>2. [backend |-> "rust", name |-> p.name] \in skipped' => Excused("rust", p)'
  BY DEF Excused
<1>3. native' = native
  BY DEF PrepareRust
<1> HIDE DEF q
<1>4. CASE LeaveOut({p.name})
  BY <1>2, <1>3, <1>4, Decided DEF Decides
<1>5. CASE HostDependent(p) /\ ~host /\ LeaveOut({})
  <2>1. /\ Grows /\ BinariesInv' /\ UnmatchedInv' /\ ready' = ready
    BY <1>5, Decided
  <2>2. Tolerable => Excused("rust", p)
    BY <1>5 DEF HostInv
  <2>3. Tolerable' => Excused("rust", p)'
    BY <2>1, <2>2, Growth
  <2> QED BY <1>3, <2>1, <2>3 DEF Decides
<1>6. CASE ~HostDependent(p) /\ ~p.target /\ Take(p)
  BY <1>1, <1>3, <1>6, Decided DEF Decides
<1>7. CASE (p.target \/ HostDependent(p)) /\ TargetPreflight("rust", q)
  <2> DEFINE c == Required("rust", q, "target-preflight")
  <2>1. q \in Profile /\ q.name = p.name /\ Became("rust", p) = q
    BY <1>1, <1>7
  <2>2. c \in Commands /\ c.step # "build-tests" /\ c.backend = "rust"
    BY <2>1, ProfileCommand DEF Backend
  <2>3. Preflight(c, q, q.name)
    BY <1>7 DEF TargetPreflight
  <2> HIDE DEF c
  <2>4. /\ Grows /\ BinariesInv' /\ UnmatchedInv'
        /\ \/ ready' = Append(ready, q)
           \/ ready' = ready /\ [backend |-> "rust", name |-> p.name] \in skipped'
           \/ ready' = ready /\ ~Tolerable'
    BY <2>1, <2>2, <2>3, Tried
  <2> QED BY <1>2, <1>3, <2>1, <2>4 DEF Decides
<1> QED BY <1>4, <1>5, <1>6, <1>7 DEF PrepareRust, q
LEMMA PrepareKeeps == IInv /\ Prepare => IInv'
<1> SUFFICES ASSUME IInv, Prepare PROVE IInv'
  OBVIOUS
<1> USE DEF IInv
<1>1. /\ pc = "prepare" /\ waiting # <<>> /\ waiting' = Tail(waiting)
      /\ scenario' = scenario /\ pc' = pc /\ left' = left /\ host' = host
      /\ groups' = groups /\ binaries' = binaries /\ exit' = exit
  BY DEF Prepare
<1>2. /\ Tail(waiting) \in Seq(Profile)
      /\ \E p \in Profile : /\ ToSet(waiting) = {p} \cup ToSet(Tail(waiting))
                            /\ p = Head(waiting)
  BY <1>1, Taken DEF TypeInv
<1>p. PICK p \in Profile : ToSet(waiting) = {p} \cup ToSet(Tail(waiting)) /\ p = Head(waiting)
  BY <1>2
<1>q. IF Head(left) = "cpp" THEN PrepareCpp(p) ELSE PrepareRust(p)
  BY <1>p DEF Prepare
<1>3. ToSet(waiting)' = ToSet(Tail(waiting))
  BY <1>1 DEF ToSet
<1>4. Head(left) \in Backend
  BY <1>1, LeftShape DEF TypeInv, Working
<1>5. PICK b \in Backend : b = Head(left)
  BY <1>4
<1>6. /\ Decides(b, p) /\ native' \in [Compiler -> {"unasked", "works", "fails"}]
      /\ b = "cpp" /\ Tolerable' => \A c \in Compiler : native'[c] = "fails" =>
                 [backend |-> "cpp", name |-> "_toolchain"] \in skipped'
  <2>1. CASE b = "cpp"
    BY <1>1, <1>p, <1>q, <1>5, <2>1, CppDecides
  <2>2. CASE b = "rust"
    <3>1. Decides("rust", p) /\ native' = native
      BY <1>1, <1>p, <1>q, <1>5, <2>2, RustDecides
    <3> QED BY <2>2, <3>1 DEF TypeInv
  <2> QED BY <2>1, <2>2 DEF Backend
<1>7. /\ Grows /\ BinariesInv' /\ UnmatchedInv'
      /\ ready' = ready \/ ready' = Append(ready, Became(b, p))
      /\ Tolerable' => Excused(b, p)' \/ ready' = Append(ready, Became(b, p))
  BY <1>6 DEF Decides
<1>8. p \in Profiles(b) /\ p \in ToSet(waiting)
  BY <1>1, <1>p, <1>5 DEF PreparingInv
<1>9. Became(b, p) \in Profile /\ ready \in Seq(Profile)
  BY BecameOf DEF Backend, TypeInv
<1>10. /\ ready' \in Seq(Profile) /\ ToSet(ready) \subseteq ToSet(ready')
       /\ ToSet(ready') \subseteq ToSet(ready) \cup {Became(b, p)}
       /\ ready' = Append(ready, Became(b, p)) => Became(b, p) \in ToSet(ready')
  <2>1. CASE ready' = ready
    <3>1. Append(ready, Became(b, p)) # ready
      BY <1>9
    <3> QED BY <1>9, <2>1, <3>1
  <2>2. CASE ready' = Append(ready, Became(b, p))
    BY <1>9, <2>2, Added
  <2> QED BY <1>7, <2>1, <2>2
<1>11. \A d : Profiles(d)' = Profiles(d)
  BY <1>7, Growth
<1>12. TypeInv'
  BY <1>1, <1>2, <1>6, <1>7, <1>10, Growth DEF TypeInv, Working
<1>13. ReadyInv'
  <2>1. \A q \in ToSet(ready) : \E r \in Profiles(b) : q = Became(b, r)
    BY <1>1, <1>5 DEF ReadyInv, Working
  <2>2. \A q \in ToSet(ready') : \E r \in Profiles(b) : q = Became(b, r)
    BY <1>8, <1>10, <2>1
  <2>3. Head(left') = b /\ Profiles(b)' = Profiles(b)
    BY <1>1, <1>5, <1>11
  <2> QED BY <2>2, <2>3 DEF ReadyInv, Became, HostDependent, ToSet
<1>14. PreparingInv'
  <2>1. /\ ToSet(waiting') \subseteq Profiles(b)
        /\ Tolerable => \A r \in Profiles(b) :
              r \in ToSet(waiting) \/ Excused(b, r) \/ Became(b, r) \in ToSet(ready)
    BY <1>1, <1>p, <1>3, <1>5 DEF PreparingInv
  <2>2. ASSUME Tolerable', NEW r \in Profiles(b)
        PROVE  r \in ToSet(waiting') \/ Excused(b, r)' \/ Became(b, r) \in ToSet(ready')
    <3>1. Tolerable /\ (Excused(b, r) => Excused(b, r)')
      BY <1>7, <2>2, Growth
    <3>2. CASE r = p
      BY <1>7, <1>10, <2>2, <3>2
    <3>3. CASE r # p
      BY <1>1, <1>p, <1>10, <2>1, <3>1, <3>3
    <3> QED BY <3>2, <3>3
  <2>3. Head(left') = b /\ Profiles(b)' = Profiles(b)
    BY <1>1, <1>5, <1>11
  <2> QED BY <2>1, <2>2, <2>3 DEF PreparingInv, Became, HostDependent, ToSet, Excused
<1>15. HostInv' /\ NativeInv'
  <2>1. HostInv'
    <3>1. \A r \in ToSet(waiting') : r \in ToSet(waiting)
      BY <1>1, <1>p
    <3>2. (Tolerable' => Tolerable) /\ \A r : Excused("rust", r) => Excused("rust", r)'
      BY <1>7, Growth
    <3> QED BY <1>1, <3>1, <3>2 DEF HostInv, HostDependent
  <2>2. NativeInv'
    BY <1>1, <1>5, <1>6 DEF NativeInv
  <2> QED BY <2>1, <2>2
<1>16. FinishedInv'
  BY <1>1, <1>7, FinishedKept
<1> QED BY <1>1, <1>7, <1>12, <1>13, <1>14, <1>15, <1>16, Preparing, NothingAccepted

(* The profile a name stands for among the ready ones.                     *)
LEMMA ReadyNames ==
    ASSUME TypeInv, ReadyInv, pc \in Working, NEW q \in ToSet(ready)
    PROVE  ReadyProfile(q.name) = q
<1>1. Head(left) \in Backend
  BY LeftShape DEF TypeInv
<1>2. PICK b \in Backend : b = Head(left)
  BY <1>1
<1>3. /\ NamesAreUnique(scenario.profiles[b]) /\ Profiles(b) \subseteq Profile
  BY ScenarioFacts
<1>4. ASSUME NEW r \in ToSet(ready), r.name = q.name PROVE r = q
  <2>1. PICK s \in Profiles(b) : q = Became(b, s)
    BY <1>2 DEF ReadyInv
  <2>2. PICK t \in Profiles(b) : r = Became(b, t)
    BY <1>2 DEF ReadyInv
  <2>3. s.name = t.name
    BY <1>3, <1>4, <2>1, <2>2, BecameOf DEF Backend
  <2>4. PICK i \in DOMAIN scenario.profiles[b] : s = scenario.profiles[b][i]
    BY DEF Profiles, ToSet
  <2>5. PICK j \in DOMAIN scenario.profiles[b] : t = scenario.profiles[b][j]
    BY DEF Profiles, ToSet
  <2>6. i = j
    BY <1>3, <2>3, <2>4, <2>5 DEF NamesAreUnique
  <2> QED BY <2>1, <2>2, <2>4, <2>5, <2>6
<1> DEFINE t == CHOOSE p \in ToSet(ready) : p.name = q.name
<1>5. t \in ToSet(ready) /\ t.name = q.name
  OBVIOUS
<1>6. t = q
  BY <1>4, <1>5
<1> QED BY <1>6 DEF ReadyProfile

LEMMA PreparedKeeps == IInv /\ Prepared => IInv'
<1> SUFFICES ASSUME IInv, Prepared PROVE IInv'
  OBVIOUS
<1> USE DEF IInv
<1> DEFINE T == Plannable(scenario, ToSet(ready))
           G == GroupsOf(scenario, ToSet(ready))
<1>1. /\ pc = "prepare" /\ waiting = <<>> /\ pc' = "run" /\ left # <<>>
      /\ groups' = Groups(scenario, Head(left), ready)
      /\ scenario' = scenario /\ left' = left /\ waiting' = waiting /\ ready' = ready
      /\ native' = native /\ host' = host /\ binaries' = binaries /\ results' = results
      /\ diagnostics' = diagnostics /\ skipped' = skipped /\ exit' = exit
  BY DEF Prepared, prepared, report, TypeInv, Working
<1>2. Head(left) \in Backend
  BY <1>1, LeftShape
<1>3. PICK b \in Backend : b = Head(left)
  BY <1>2
<1>4. Grows
  BY <1>1 DEF Grows
<1>5. scenario \in Scenario /\ ready \in Seq(Profile) /\ Profiles(b) \subseteq Profile
  BY ScenarioFacts DEF TypeInv
<1>6. /\ groups' \in Seq(G)
      /\ \A p \in Profiles(b) : Became(b, p) \in ToSet(ready) =>
            Planned(b, p) \subseteq CommandsOf(groups')
  <2>1. CASE b = "cpp"
    <3>1. groups' = CppGroups(scenario, ready)
      BY <1>1, <1>3, <2>1 DEF Groups
    <3>2. \A p \in Profiles(b) : Became(b, p) = p /\ Planned(b, p) = ToSet(CppGroup(scenario, p))
      BY <1>5, <2>1, BecameOf DEF Planned
    <3> QED BY <1>5, <3>1, <3>2, CppPlans DEF CommandsOf
  <2>2. CASE b = "rust"
    <3>1. groups' = RustGroups(scenario, ready)
      BY <1>1, <1>3, <2>2 DEF Groups
    <3>2. \A p \in Profiles(b) :
             Planned(b, p) = UNION {ToSet(g) :
                                g \in ToSet(RustProfileGroups(scenario, Became(b, p)))}
      BY <2>2 DEF Planned, Became
    <3>3. \A q \in ToSet(ready) :
             ToSet(RustProfileGroups(scenario, q)) \subseteq ToSet(groups')
      BY <1>5, <3>1, RustPlans
    <3>4. ASSUME NEW p \in Profiles(b), Became(b, p) \in ToSet(ready)
          PROVE  Planned(b, p) \subseteq CommandsOf(groups')
      <4>1. ToSet(RustProfileGroups(scenario, Became(b, p))) \subseteq ToSet(groups')
        BY <3>3, <3>4
      <4> QED BY <3>2, <4>1 DEF CommandsOf
    <3> QED BY <1>5, <3>1, <3>4, RustPlans
  <2> QED BY <2>1, <2>2 DEF Backend
<1>7. CommandsOf(groups') \subseteq T /\ groups' \in Seq(Seq(Commands) \ {<<>>})
  <2>1. T \subseteq Commands
    BY DEF Plannable
  <2>2. \A s \in Seq(T) : ToSet(s) \subseteq T /\ s \in Seq(Commands)
    <3> HIDE DEF T
    <3> QED BY <2>1 DEF ToSet
  <2>3. \A g \in G : ToSet(g) \subseteq T /\ g \in Seq(Commands) \ {<<>>}
    BY <2>2 DEF GroupsOf
  <2> HIDE DEF G, T
  <2>4. ToSet(groups') \subseteq G /\ groups' \in Seq(Seq(Commands) \ {<<>>})
    BY <1>6, <2>3 DEF ToSet
  <2> QED BY <2>3, <2>4 DEF CommandsOf
<1>8. \A c \in T : Planning(c)'
  <2> SUFFICES ASSUME NEW c \in T PROVE Planning(c)'
    OBVIOUS
  <2>1. c.severity = "error" \/ scenario.tests
    BY DEF Plannable
  <2>2. c.step = "build-tests" /\ scenario.tests =>
           \E q \in ToSet(ready) : c.name = q.name /\ Prefixed(scenario, q)
    BY DEF Plannable
  <2>3. c.step = "build-tests" /\ scenario.tests => StartsBinaries(c)
    BY <1>1, <2>2, ReadyNames DEF StartsBinaries, Working
  <2>4. StartsBinaries(c)' = StartsBinaries(c) /\ scenario'.tests = scenario.tests
    BY <1>1 DEF StartsBinaries, ReadyProfile, Prefixed
  <2> QED BY <2>1, <2>3, <2>4 DEF Planning
<1>9. RunningInv'
  <2>1. ToSet(waiting) = {}
    BY <1>1, Short
  <2>2. Tolerable => \A p \in Profiles(b) : Excused(b, p) \/ Became(b, p) \in ToSet(ready)
    BY <1>1, <1>3, <2>1 DEF PreparingInv
  <2>3. /\ \A p : Planned(b, p)' = Planned(b, p) /\ (Excused(b, p) => Excused(b, p)')
        /\ Profiles(b)' = Profiles(b) /\ (Tolerable' => Tolerable) /\ Head(left)' = b
    BY <1>1, <1>3, <1>4, Growth
  <2>4. Tolerable' => \A p \in Profiles(b)' :
           Excused(b, p)' \/ \A c \in Planned(b, p)' : c \in CommandsOf(groups)'
    BY <1>6, <2>2, <2>3
  <2>5. \A c \in CommandsOf(groups)' : Planning(c)'
    BY <1>7, <1>8
  <2> QED BY <2>3, <2>4, <2>5 DEF RunningInv
<1>10. TypeInv'
  BY <1>1, <1>7 DEF TypeInv, Working
<1>11. ReadyInv' /\ PreparingInv' /\ HostInv' /\ NativeInv' /\ FollowInv'
  <2>1. ReadyInv'
    BY <1>1 DEF ReadyInv, Became, Profiles, HostDependent, Working
  <2> QED BY <1>1, <2>1 DEF PreparingInv, HostInv, NativeInv, FollowInv
<1>12. FinishedInv' /\ BinariesInv' /\ UnmatchedInv'
  BY <1>1, <1>4, FinishedKept, BinariesKept, UnmatchedKept
<1> QED BY <1>1, <1>9, <1>10, <1>11, <1>12, NothingAccepted
----------------------------------------------------------------------------
(* Running the commands.                                                   *)

(* What every step that runs commands leaves alone, and what it may not    *)
(* forget.                                                                 *)
LEMMA RunningKept ==
    ASSUME IInv, pc \in {"run", "follow"}, pc' \in {"run", "follow"}, Grows,
           left' = left, ready' = ready, exit' = exit,
           CommandsOf(groups') \subseteq CommandsOf(groups),
           Tolerable' => \A c \in CommandsOf(groups) :
                            c \in CommandsOf(groups') \/ DidIn(results', c)
    PROVE  /\ ReadyInv' /\ PreparingInv' /\ HostInv' /\ NativeInv' /\ RunningInv'
           /\ FinishedInv'
<1> USE DEF IInv
<1>1. Head(left) \in Backend /\ scenario' = scenario
  BY LeftShape DEF TypeInv, Working, Grows
<1>2. PICK b \in Backend : b = Head(left)
  BY <1>1
<1>3. /\ Profiles(b)' = Profiles(b) /\ (Tolerable' => Tolerable)
      /\ \A p : Planned(b, p)' = Planned(b, p) /\ (Excused(b, p) => Excused(b, p)')
      /\ \A c : DidIn(results, c) => DidIn(results', c)
  BY Growth
<1>4. \A c : Planning(c)' = Planning(c)
  BY <1>1 DEF Planning, StartsBinaries, ReadyProfile, Prefixed
<1>5. RunningInv'
  <2>1. /\ \A c \in CommandsOf(groups) : Planning(c)
        /\ Tolerable => \A p \in Profiles(b) :
              Excused(b, p) \/ \A c \in Planned(b, p) : Did(c) \/ c \in CommandsOf(groups)
    BY <1>2 DEF RunningInv
  <2>2. \A c \in CommandsOf(groups)' : Planning(c)'
    BY <1>4, <2>1
  <2>3. ASSUME Tolerable', NEW p \in Profiles(b)
        PROVE  \/ Excused(b, p)'
               \/ \A c \in Planned(b, p) : DidIn(results', c) \/ c \in CommandsOf(groups')
    BY <1>3, <2>1, <2>3 DEF Did, DidIn
  <2> QED BY <1>2, <1>3, <2>2, <2>3 DEF RunningInv, Did, DidIn
<1>6. ReadyInv'
  BY <1>1 DEF ReadyInv, Became, Profiles, HostDependent, Working
<1>7. FinishedInv'
  BY FinishedKept
<1> QED BY <1>5, <1>6, <1>7 DEF PreparingInv, HostInv, NativeInv

(* The command at the head of the groups.                                  *)
LEMMA CurrentCommand ==
    ASSUME TypeInv, RunningInv, pc \in {"run", "follow"}, groups # <<>>
    PROVE  /\ Current \in Commands /\ Planning(Current)
           /\ DropGroup \in Seq(Seq(Commands) \ {<<>>})
           /\ CommandsOf(DropGroup) \subseteq CommandsOf(groups)
           /\ NextCommand \in Seq(Seq(Commands) \ {<<>>})
           /\ CommandsOf(NextCommand) \subseteq CommandsOf(groups)
           /\ CommandsOf(groups) \subseteq CommandsOf(NextCommand) \cup {Current}
<1>1. groups \in Seq(Seq(Commands) \ {<<>>})
  BY DEF TypeInv
<1>2. Current \in CommandsOf(groups)
  BY <1>1, GroupLeft
<1> QED BY <1>1, <1>2, GroupLeft DEF RunningInv

(* A command that fails is reported so that the run is rejected.           *)
LEMMA Failed ==
    ASSUME TypeInv, scenario' = scenario, skipped' = skipped,
           NEW c \in Commands, c.severity = "error" \/ scenario.tests, Fail(c)
    PROVE  /\ Grows /\ ~Tolerable' /\ diagnostics' # <<>>
           /\ \E r \in Results : results' = Append(results, r)
<1>1. [command |-> c, matched |-> FALSE, found |-> 0] \in Results
  BY DEF Results
<1>2. results' = Append(results, [command |-> c, matched |-> FALSE, found |-> 0])
  BY DEF Fail, Ran
<1>3. c.severity \in Severity /\ diagnostics' = Append(diagnostics, c.severity)
  BY DEF Fail, Diagnose, Commands
<1>4. diagnostics' # <<>> /\ (Tolerable' => c.severity # "error" /\ ~scenario.tests)
  BY <1>3, Diagnosed
<1>5. Grows
  BY <1>1, <1>2, <1>3 DEF Grows
<1> QED BY <1>1, <1>2, <1>4, <1>5

LEMMA CommandFailsKeeps == IInv /\ CommandFails => IInv'
<1> SUFFICES ASSUME IInv, CommandFails PROVE IInv'
  OBVIOUS
<1> USE DEF IInv
<1>1. /\ pc = "run" /\ groups # <<>> /\ groups' = DropGroup /\ Fail(Current)
      /\ scenario' = scenario /\ pc' = pc /\ left' = left /\ waiting' = waiting
      /\ ready' = ready /\ native' = native /\ host' = host /\ binaries' = binaries
      /\ skipped' = skipped /\ exit' = exit
  BY DEF CommandFails, prepared
<1>2. /\ Current \in Commands /\ Planning(Current)
      /\ DropGroup \in Seq(Seq(Commands) \ {<<>>})
      /\ CommandsOf(DropGroup) \subseteq CommandsOf(groups)
  BY <1>1, CurrentCommand
<1>3. /\ Grows /\ ~Tolerable' /\ diagnostics' # <<>>
      /\ \E r \in Results : results' = Append(results, r)
  BY <1>1, <1>2, Failed DEF Planning
<1>4. TypeInv'
  BY <1>1, <1>2, <1>3, Growth DEF TypeInv, Working
<1>5. ReadyInv' /\ PreparingInv' /\ HostInv' /\ NativeInv' /\ RunningInv' /\ FinishedInv'
  BY <1>1, <1>2, <1>3, RunningKept
<1>6. BinariesInv' /\ UnmatchedInv'
  BY <1>1, <1>3, BinariesKept, UnmatchedKept
<1>7. FollowInv'
  BY <1>1 DEF FollowInv
<1> QED BY <1>1, <1>4, <1>5, <1>6, <1>7, NothingAccepted

LEMMA CommandMatchesKeeps == IInv /\ CommandMatches => IInv'
<1> SUFFICES ASSUME IInv, CommandMatches PROVE IInv'
  OBVIOUS
<1> USE DEF IInv
<1> DEFINE r == [command |-> Current, matched |-> TRUE, found |-> 0]
<1>1. /\ pc = "run" /\ groups # <<>> /\ ~StartsBinaries(Current)
      /\ groups' = NextCommand /\ results' = Append(results, r)
      /\ scenario' = scenario /\ pc' = pc /\ left' = left /\ waiting' = waiting
      /\ ready' = ready /\ native' = native /\ host' = host /\ binaries' = binaries
      /\ diagnostics' = diagnostics /\ skipped' = skipped /\ exit' = exit
  BY DEF CommandMatches, prepared, Ran
<1>2. /\ Current \in Commands /\ Planning(Current)
      /\ NextCommand \in Seq(Seq(Commands) \ {<<>>})
      /\ CommandsOf(NextCommand) \subseteq CommandsOf(groups)
      /\ CommandsOf(groups) \subseteq CommandsOf(NextCommand) \cup {Current}
  BY <1>1, CurrentCommand
<1>3. r \in Results /\ r.command = Current /\ r.matched
  BY <1>2 DEF Results
<1>4. r.command.step = "build-tests" => ~scenario.tests
  BY <1>1, <1>2, <1>3 DEF Planning
<1> HIDE DEF r
<1>5. Grows
  BY <1>1, <1>3 DEF Grows
<1>6. DidIn(results', Current)
  BY <1>1, <1>3, ResultsGrow
<1>7. TypeInv'
  BY <1>1, <1>2, <1>5, Growth DEF TypeInv, Working
<1>8. ReadyInv' /\ PreparingInv' /\ HostInv' /\ NativeInv' /\ RunningInv' /\ FinishedInv'
  <2>1. \A c \in CommandsOf(groups) : c \in CommandsOf(groups') \/ DidIn(results', c)
    BY <1>1, <1>2, <1>6
  <2> QED BY <1>1, <1>2, <1>5, <2>1, RunningKept
<1>9. BinariesInv' /\ UnmatchedInv'
  BY <1>1, <1>3, <1>4, <1>5, BinariesKept, UnmatchedKept
<1>10. FollowInv'
  BY <1>1 DEF FollowInv
<1> QED BY <1>1, <1>7, <1>8, <1>9, <1>10, NothingAccepted
LEMMA TestsAreBuiltKeeps == IInv /\ TestsAreBuilt => IInv'
<1> SUFFICES ASSUME IInv, TestsAreBuilt PROVE IInv'
  OBVIOUS
<1> USE DEF IInv
<1>1. /\ pc = "run" /\ groups # <<>> /\ StartsBinaries(Current)
      /\ scenario' = scenario /\ left' = left /\ waiting' = waiting
      /\ ready' = ready /\ native' = native /\ host' = host
      /\ skipped' = skipped /\ exit' = exit
  BY DEF TestsAreBuilt, prepared
<1>2. PICK n \in Reportable :
         /\ results' = Ran(Current, TRUE, n)
         /\ IF n = 0
            THEN /\ Diagnose(Current.severity)
                 /\ groups' = NextCommand
                 /\ UNCHANGED <<pc, binaries>>
            ELSE /\ pc' = "follow" /\ binaries' = n
                 /\ UNCHANGED <<diagnostics, groups>>
  BY DEF TestsAreBuilt
<1>3. n \in Nat
  BY DEF Reportable
<1>4. /\ Current \in Commands /\ Planning(Current)
      /\ NextCommand \in Seq(Seq(Commands) \ {<<>>})
      /\ CommandsOf(NextCommand) \subseteq CommandsOf(groups)
      /\ CommandsOf(groups) \subseteq CommandsOf(NextCommand) \cup {Current}
  BY <1>1, CurrentCommand
<1> DEFINE r == [command |-> Current, matched |-> TRUE, found |-> n]
<1>5. /\ r \in Results /\ r.command = Current /\ r.matched /\ r.found = n
      /\ results' = Append(results, r)
  BY <1>2, <1>3, <1>4 DEF Results, Ran
<1> HIDE DEF r
<1>6. /\ Len(results') = Len(results) + 1 /\ Len(results) \in Nat
      /\ DOMAIN results' = 1 .. Len(results') /\ DOMAIN results = 1 .. Len(results)
      /\ results'[Len(results')] = r
      /\ \A i \in DOMAIN results : i \in DOMAIN results' /\ results'[i] = results[i]
      /\ DidIn(results', Current)
  BY <1>5, ResultsGrow
<1>7. CASE n = 0
  <2>1. /\ diagnostics' = Append(diagnostics, Current.severity) /\ groups' = NextCommand
        /\ pc' = pc /\ binaries' = binaries
    BY <1>2, <1>7 DEF Diagnose
  <2>2. Current.severity \in Severity
    BY <1>4 DEF Commands
  <2>3. Grows
    BY <1>1, <1>5, <2>1, <2>2 DEF Grows
  <2>4. ~Tolerable' /\ diagnostics' # <<>>
    BY <1>1, <1>4, <2>1, <2>2, Diagnosed DEF Planning
  <2>5. TypeInv'
    BY <1>1, <1>4, <2>1, <2>3, Growth DEF TypeInv, Working
  <2>6. ReadyInv' /\ PreparingInv' /\ HostInv' /\ NativeInv' /\ RunningInv' /\ FinishedInv'
    BY <1>1, <1>4, <2>1, <2>3, <2>4, RunningKept
  <2>7. BinariesInv' /\ UnmatchedInv'
    BY <1>1, <1>5, <2>3, <2>4, BinariesKept, UnmatchedKept
  <2>8. FollowInv'
    BY <1>1, <2>1 DEF FollowInv
  <2> QED BY <1>1, <2>1, <2>5, <2>6, <2>7, <2>8, NothingAccepted
<1>8. CASE n # 0
  <2>1. /\ pc' = "follow" /\ binaries' = n /\ diagnostics' = diagnostics /\ groups' = groups
        /\ n > 0
    BY <1>2, <1>3, <1>8
  <2>2. Grows
    BY <1>1, <1>5, <2>1 DEF Grows
  <2>3. TypeInv'
    BY <1>1, <1>3, <2>1, <2>2, Growth DEF TypeInv, Working
  <2>4. ReadyInv' /\ PreparingInv' /\ HostInv' /\ NativeInv' /\ RunningInv' /\ FinishedInv'
    BY <1>1, <2>1, <2>2, RunningKept
  <2>5. PICK k \in Nat : k = Len(results')
    BY <1>6
  <2>6. Follows(k)'
    <3>2. /\ results'[k] = r /\ binaries' \in 1 .. r.found /\ k \in Nat
          /\ k = k + r.found - binaries'
      BY <1>3, <1>5, <1>6, <2>1, <2>5
    <3>3. (k + 1) .. k = {}
      BY <3>2
    <3>4. Current' = Current
      BY <2>1 DEF Current
    <3> QED BY <1>5, <2>5, <3>2, <3>3, <3>4 DEF Follows
  <2>7. FollowInv'
    <3>1. k \in DOMAIN results' /\ groups' # <<>>
      BY <1>1, <1>6, <2>1, <2>5
    <3> QED BY <2>6, <3>1 DEF FollowInv
  <2>8. UnmatchedInv'
    BY <1>5, <2>2, UnmatchedKept
  <2>9. BinariesInv'
    <3> SUFFICES ASSUME Tolerable', scenario'.tests, NEW m \in DOMAIN results',
                        results'[m].command.step = "build-tests"
                 PROVE  /\ results'[m].found > 0
                        /\ \/ Follows(m)'
                           \/ \A i \in 1 .. results'[m].found :
                                 DidIn(results', Test(results'[m].command, i))
      BY <2>1 DEF BinariesInv, Did, DidIn
    <3>1. CASE m = k
      BY <1>5, <1>6, <2>1, <2>5, <2>6, <3>1
    <3>2. CASE m # k
      <4>1. m \in DOMAIN results /\ results'[m] = results[m]
        BY <1>6, <2>5, <3>2
      <4>2. /\ results[m].found > 0
            /\ \A i \in 1 .. results[m].found : DidIn(results, Test(results[m].command, i))
        BY <1>1, <2>2, <4>1, Growth DEF BinariesInv, Did, DidIn
      <4> QED BY <2>2, <4>1, <4>2, Growth
    <3> QED BY <3>1, <3>2
  <2> QED BY <2>1, <2>3, <2>4, <2>7, <2>8, <2>9, NothingAccepted
<1> QED BY <1>7, <1>8

(* Where the binaries of a build are, and which test is next.              *)
LEMMA NextTest ==
    ASSUME TypeInv, Current \in Commands, NEW m \in DOMAIN results, Follows(m)
    PROVE  /\ m \in Nat /\ Len(results) \in Nat /\ m <= Len(results)
           /\ results[m].found \in Nat /\ binaries \in Nat
           /\ (IF results[Len(results)].found > 0 THEN 1
               ELSE results[Len(results)].command.index + 1) = Len(results) - m + 1
           /\ Len(results) - m + 1 = results[m].found - binaries + 1
<1>1. /\ results \in Seq(Results) /\ DOMAIN results = 1 .. Len(results)
      /\ Len(results) \in Nat /\ m \in Nat /\ m <= Len(results) /\ m > 0
      /\ binaries \in Nat
  BY DEF TypeInv
<1>2. results[m].found \in Nat
  <2>1. results[m] \in Results
    BY <1>1
  <2> QED BY <2>1 DEF Results
<1>3. /\ binaries \in 1 .. results[m].found
      /\ Len(results) = m + results[m].found - binaries
  BY DEF Follows
<1>4. CASE binaries = results[m].found
  <2>1. Len(results) = m /\ results[m].found > 0
    BY <1>1, <1>2, <1>3, <1>4
  <2> QED BY <1>1, <1>2, <1>3, <1>4, <2>1
<1>5. CASE binaries # results[m].found
  <2>1. Len(results) \in (m + 1) .. Len(results)
    BY <1>1, <1>2, <1>3, <1>5
  <2>2. results[Len(results)] =
           [command |-> Test(Current, Len(results) - m), matched |-> TRUE, found |-> 0]
    BY <2>1 DEF Follows
  <2>3. Test(Current, Len(results) - m).index = Len(results) - m
    BY DEF Test, Commands
  <2>4. /\ results[Len(results)].found = 0
        /\ results[Len(results)].command.index = Len(results) - m
    BY <2>2, <2>3
  <2> QED BY <1>1, <1>2, <1>3, <2>4
<1> QED BY <1>4, <1>5
LEMMA TestCommand ==
    ASSUME NEW c \in Commands, NEW i \in Nat
    PROVE  /\ Test(c, i) \in Commands /\ Test(c, i).step = "test"
           /\ Test(c, i).severity = c.severity
           /\ [command |-> Test(c, i), matched |-> TRUE, found |-> 0] \in Results
<1>1. "test" \in Step
  BY DEF Step
<1>2. Test(c, i) \in Commands /\ Test(c, i).step = "test" /\ Test(c, i).severity = c.severity
  BY <1>1 DEF Test, Commands
<1> QED BY <1>2 DEF Results

LEMMA Distance ==
    ASSUME NEW m \in Nat, NEW n \in Nat, m <= n
    PROVE  /\ n - m + 1 \in Nat
           /\ \A f, d \in Nat : n - m + 1 = f - d + 1 =>
                 n - m = f - d /\ n + 1 = m + f - (d - 1)
OBVIOUS

(* A test binary that passed is one more after its build, or the last.     *)
LEMMA TestsGoOn ==
    ASSUME TypeInv, Current \in Commands, NEW m \in DOMAIN results, Follows(m),
           NEW i, i = Len(results) - m + 1,
           results' = Append(results, [command |-> Test(Current, i),
                                       matched |-> TRUE, found |-> 0]),
           binaries' = binaries - 1
    PROVE  /\ results'[m] = results[m] /\ m \in DOMAIN results'
           /\ binaries = 1 =>
                 \A j \in 1 .. results[m].found : DidIn(results', Test(Current, j))
           /\ binaries # 1 /\ groups' = groups => Follows(m)'
<1> DEFINE passed(k) == [command |-> Test(Current, k), matched |-> TRUE, found |-> 0]
<1>1. /\ m \in Nat /\ Len(results) \in Nat /\ m <= Len(results)
      /\ results[m].found \in Nat /\ binaries \in Nat
      /\ Len(results) - m + 1 = results[m].found - binaries + 1
  BY NextTest
<1>a. binaries \in 1 .. results[m].found
  BY DEF Follows
<1>b. PICK f \in Nat : f = results[m].found
  BY <1>1
<1>c. PICK L \in Nat : L = Len(results)
  BY <1>1
<1>d. PICK d \in Nat : d = binaries
  BY <1>1
<1>e. m \in Nat /\ m <= L /\ L - m + 1 = f - d + 1 /\ d \in 1 .. f /\ i = L - m + 1
  BY <1>1, <1>a, <1>b, <1>c, <1>d
<1>2. i \in Nat /\ L - m = f - d /\ L + 1 = m + f - (d - 1)
  BY <1>e, Distance
<1>3. passed(i) \in Results
  BY <1>2, TestCommand
<1>4. \A j \in (m + 1) .. Len(results) : results[j] = passed(j - m)
  BY DEF Follows
<1>5. \A k : passed(k).command = Test(Current, k) /\ passed(k).matched
  OBVIOUS
<1>6. results[m].command = Current /\ results[m].matched
  BY DEF Follows
<1>7. results' = Append(results, passed(i))
  OBVIOUS
<1> HIDE DEF passed
<1>8. /\ Len(results') = Len(results) + 1
      /\ DOMAIN results = 1 .. Len(results) /\ DOMAIN results' = 1 .. Len(results')
      /\ \A j \in DOMAIN results : j \in DOMAIN results' /\ results'[j] = results[j]
      /\ results'[Len(results')] = passed(i)
  BY <1>3, <1>7, ResultsGrow
<1>9. \A j \in (m + 1) .. Len(results') : j \in DOMAIN results' /\ results'[j] = passed(j - m)
  <2> SUFFICES ASSUME NEW j \in (m + 1) .. Len(results')
               PROVE  j \in DOMAIN results' /\ results'[j] = passed(j - m)
    OBVIOUS
  <2>1. CASE j = Len(results')
    <3>1. j - m = i /\ j \in DOMAIN results'
      BY <1>1, <1>8, <2>1
    <3> QED BY <1>8, <2>1, <3>1
  <2>2. CASE j # Len(results')
    <3>1. j \in (m + 1) .. Len(results) /\ j \in DOMAIN results
      BY <1>1, <1>8, <2>2
    <3> QED BY <1>4, <1>8, <3>1
  <2> QED BY <2>1, <2>2
<1>10. results'[m] = results[m] /\ m \in DOMAIN results'
  BY <1>8
<1>11. ASSUME binaries = 1, NEW j \in 1 .. results[m].found
       PROVE  DidIn(results', Test(Current, j))
  <2>1. m + j \in (m + 1) .. Len(results') /\ (m + j) - m = j
    BY <1>1, <1>8, <1>11
  <2>2. m + j \in DOMAIN results' /\ results'[m + j] = passed(j)
    BY <1>9, <2>1
  <2> QED BY <1>5, <2>2 DEF DidIn
<1>12. ASSUME binaries # 1, groups' = groups PROVE Follows(m)'
  <2>1. Current' = Current
    BY <1>12 DEF Current
  <2>2. binaries' \in 1 .. results'[m].found
    <3>1. d - 1 \in 1 .. f
      BY <1>d, <1>e, <1>12
    <3> QED BY <1>b, <1>d, <1>10, <3>1
  <2>3. Len(results') = m + results'[m].found - binaries'
    BY <1>2, <1>b, <1>c, <1>d, <1>8, <1>10
  <2>4. \A j \in (m + 1) .. Len(results') :
           results'[j] = [command |-> Test(Current', j - m), matched |-> TRUE, found |-> 0]
    BY <1>9, <2>1 DEF passed
  <2>5. Follows(m)' = (/\ results'[m].command = Current' /\ results'[m].matched
                       /\ binaries' \in 1 .. results'[m].found
                       /\ Len(results') = m + results'[m].found - binaries'
                       /\ \A j \in (m + 1) .. Len(results') :
                             results'[j] = [command |-> Test(Current', j - m),
                                            matched |-> TRUE, found |-> 0])
    <3>1. ASSUME NEW j PROVE Test(Current, j)' = Test(Current', j)
      BY DEF Test
    <3> QED BY <3>1 DEF Follows
  <2> QED BY <1>6, <1>10, <2>1, <2>2, <2>3, <2>4, <2>5
<1> QED BY <1>10, <1>11, <1>12

LEMMA RunBinaryKeeps == IInv /\ RunBinary => IInv'
<1> SUFFICES ASSUME IInv, RunBinary PROVE IInv'
  OBVIOUS
<1> USE DEF IInv
<1> DEFINE next == IF results[Len(results)].found > 0 THEN 1
                   ELSE results[Len(results)].command.index + 1
<1>1. /\ pc = "follow"
      /\ scenario' = scenario /\ left' = left /\ waiting' = waiting
      /\ ready' = ready /\ native' = native /\ host' = host
      /\ skipped' = skipped /\ exit' = exit
  BY DEF RunBinary, prepared
<1>2. PICK i : i = next
  OBVIOUS
<1>3. \/ /\ Fail(Test(Current, i))
         /\ pc' = "run" /\ binaries' = 0 /\ groups' = NextCommand
      \/ /\ results' = Append(results, [command |-> Test(Current, i),
                                        matched |-> TRUE, found |-> 0])
         /\ binaries' = binaries - 1
         /\ \/ binaries = 1 /\ pc' = "run" /\ groups' = NextCommand
            \/ binaries # 1 /\ pc' = pc /\ groups' = groups
         /\ diagnostics' = diagnostics
  BY <1>2 DEF RunBinary, Ran
<1>4. groups # <<>> /\ \E m \in DOMAIN results : Follows(m)
  BY <1>1 DEF FollowInv
<1>5. /\ Current \in Commands /\ Planning(Current)
      /\ NextCommand \in Seq(Seq(Commands) \ {<<>>})
      /\ CommandsOf(NextCommand) \subseteq CommandsOf(groups)
      /\ CommandsOf(groups) \subseteq CommandsOf(NextCommand) \cup {Current}
  BY <1>1, <1>4, CurrentCommand
<1>6. \A m \in DOMAIN results : Follows(m) =>
         /\ i = Len(results) - m + 1 /\ i \in Nat
         /\ binaries - 1 \in Nat /\ results[m].command = Current /\ results[m].matched
  <2> SUFFICES ASSUME NEW m \in DOMAIN results, Follows(m)
               PROVE  /\ i = Len(results) - m + 1 /\ i \in Nat /\ binaries - 1 \in Nat
    BY DEF Follows
  <2>1. /\ m \in Nat /\ Len(results) \in Nat /\ m <= Len(results)
        /\ next = Len(results) - m + 1
    BY <1>5, NextTest
  <2>2. binaries \in 1 .. results[m].found
    BY DEF Follows
  <2>3. binaries \in Nat /\ results[m].found \in Nat
    BY <1>5, NextTest
  <2>4. PICK f \in Nat : f = results[m].found
    BY <2>3
  <2>5. binaries - 1 \in Nat
    BY <2>2, <2>3, <2>4
  <2>6. Len(results) - m + 1 \in Nat
    BY <2>1, Distance
  <2> QED BY <1>2, <2>1, <2>5, <2>6
<1> HIDE DEF next
<1>7. /\ Test(Current, i) \in Commands /\ Test(Current, i).step = "test"
      /\ Test(Current, i).severity = Current.severity
      /\ [command |-> Test(Current, i), matched |-> TRUE, found |-> 0] \in Results
  BY <1>4, <1>5, <1>6, TestCommand
<1>8. CASE /\ Fail(Test(Current, i))
           /\ pc' = "run" /\ binaries' = 0 /\ groups' = NextCommand
  <2>1. /\ Grows /\ ~Tolerable' /\ diagnostics' # <<>>
        /\ \E r \in Results : results' = Append(results, r)
    BY <1>1, <1>5, <1>7, <1>8, Failed DEF Planning
  <2>2. TypeInv'
    BY <1>1, <1>5, <1>8, <2>1, Growth DEF TypeInv, Working
  <2>3. ReadyInv' /\ PreparingInv' /\ HostInv' /\ NativeInv' /\ RunningInv' /\ FinishedInv'
    BY <1>1, <1>5, <1>8, <2>1, RunningKept
  <2>4. BinariesInv'
    BY <2>1 DEF BinariesInv
  <2>5. UnmatchedInv' /\ FollowInv'
    BY <1>8, <2>1, UnmatchedKept DEF FollowInv
  <2> QED BY <1>8, <2>2, <2>3, <2>4, <2>5, NothingAccepted
<1>9. CASE /\ results' = Append(results, [command |-> Test(Current, i),
                                          matched |-> TRUE, found |-> 0])
           /\ binaries' = binaries - 1
           /\ \/ binaries = 1 /\ pc' = "run" /\ groups' = NextCommand
              \/ binaries # 1 /\ pc' = pc /\ groups' = groups
           /\ diagnostics' = diagnostics
  <2> DEFINE r == [command |-> Test(Current, i), matched |-> TRUE, found |-> 0]
  <2>1. r \in Results /\ r.command = Test(Current, i) /\ r.matched
    BY <1>7
  <2>2. results' = Append(results, r)
    BY <1>9
  <2> HIDE DEF r
  <2>3. Grows
    BY <1>1, <1>9, <2>1, <2>2 DEF Grows
  <2>4. \A m \in DOMAIN results : Follows(m) =>
           /\ results'[m] = results[m] /\ m \in DOMAIN results'
           /\ binaries = 1 =>
                 \A j \in 1 .. results[m].found :
                    DidIn(results', Test(results[m].command, j))
           /\ binaries # 1 => Follows(m)'
    <3> SUFFICES ASSUME NEW m \in DOMAIN results, Follows(m)
                 PROVE  /\ results'[m] = results[m] /\ m \in DOMAIN results'
                        /\ binaries = 1 =>
                              \A j \in 1 .. results[m].found :
                                 DidIn(results', Test(results[m].command, j))
                        /\ binaries # 1 => Follows(m)'
      OBVIOUS
    <3>1. /\ results'[m] = results[m] /\ m \in DOMAIN results'
          /\ binaries = 1 =>
                \A j \in 1 .. results[m].found : DidIn(results', Test(Current, j))
          /\ binaries # 1 /\ groups' = groups => Follows(m)'
      BY <1>5, <1>6, <1>9, TestsGoOn
    <3> QED BY <1>6, <1>9, <3>1
  <2>5. TypeInv'
    BY <1>1, <1>4, <1>5, <1>6, <1>9, <2>3, Growth DEF TypeInv, Working
  <2>6. DidIn(results, Current) /\ DidIn(results', Current)
    <3>1. DidIn(results, Current)
      BY <1>4, <1>6 DEF DidIn
    <3> QED BY <2>3, <3>1, Growth
  <2>7. ReadyInv' /\ PreparingInv' /\ HostInv' /\ NativeInv' /\ RunningInv' /\ FinishedInv'
    <3>1. /\ CommandsOf(groups') \subseteq CommandsOf(groups)
          /\ \A c \in CommandsOf(groups) : c \in CommandsOf(groups') \/ DidIn(results', c)
      BY <1>5, <1>9, <2>6
    <3> QED BY <1>1, <1>9, <2>3, <3>1, RunningKept
  <2>8. UnmatchedInv'
    BY <2>1, <2>2, <2>3, UnmatchedKept
  <2>9. FollowInv'
    BY <1>1, <1>4, <1>9, <2>4 DEF FollowInv
  <2>10. BinariesInv'
    <3> SUFFICES ASSUME Tolerable', scenario'.tests, NEW m \in DOMAIN results',
                        results'[m].command.step = "build-tests"
                 PROVE  /\ results'[m].found > 0
                        /\ \/ pc' = "follow" /\ Follows(m)'
                           \/ \A j \in 1 .. results'[m].found :
                                 DidIn(results', Test(results'[m].command, j))
      BY DEF BinariesInv, Did, DidIn
    <3>1. m \in DOMAIN results /\ results'[m] = results[m]
      BY <1>7, <2>1, <2>2, ResultsGrow
    <3>2. /\ results[m].found > 0
          /\ \/ Follows(m)
             \/ \A j \in 1 .. results[m].found : DidIn(results, Test(results[m].command, j))
      BY <1>1, <2>3, <3>1, Growth DEF BinariesInv, Did, DidIn
    <3>3. CASE Follows(m)
      BY <1>1, <1>9, <2>4, <3>1, <3>2, <3>3
    <3>4. CASE \A j \in 1 .. results[m].found : DidIn(results, Test(results[m].command, j))
      BY <2>3, <3>1, <3>2, <3>4, Growth
    <3> QED BY <3>2, <3>3, <3>4
  <2> QED BY <1>1, <1>9, <2>5, <2>7, <2>8, <2>9, <2>10, NothingAccepted
<1> QED BY <1>3, <1>8, <1>9
LEMMA GroupsDoneKeeps == IInv /\ GroupsDone => IInv'
<1> SUFFICES ASSUME IInv, GroupsDone PROVE IInv'
  OBVIOUS
<1> USE DEF IInv
<1>1. /\ pc = "run" /\ groups = <<>> /\ pc' = "backend" /\ left' = Tail(left)
      /\ left # <<>>
      /\ scenario' = scenario /\ waiting' = waiting /\ ready' = ready
      /\ native' = native /\ host' = host /\ groups' = groups /\ binaries' = binaries
      /\ results' = results /\ diagnostics' = diagnostics /\ skipped' = skipped
      /\ exit' = exit
  BY DEF GroupsDone, NextBackend, prepared, report, TypeInv, Working
<1>2. Grows
  BY <1>1 DEF Grows
<1>3. Head(left) \in Backend
  BY <1>1, LeftShape
<1>4. PICK b \in Backend : b = Head(left)
  BY <1>3
<1>5. CommandsOf(groups) = {}
  BY <1>1, Short DEF CommandsOf
<1>6. Tolerable => \A p \in Profiles(b) : Complete(b, p)
  BY <1>1, <1>4, <1>5 DEF RunningInv, Complete, Verified
<1>7. FinishedInv'
  <2>1. Tolerable' => \A p \in Profiles(b) : Complete(b, p)'
    BY <1>2, <1>6, Growth
  <2> QED BY <1>1, <1>2, <1>4, <2>1, FinishedKept
<1>8. TypeInv'
  BY <1>1, LeftShape DEF TypeInv, Working
<1>9. BinariesInv' /\ UnmatchedInv'
  BY <1>1, <1>2, BinariesKept, UnmatchedKept
<1> QED BY <1>1, <1>7, <1>8, <1>9, Idle, NothingAccepted DEF Working

LEMMA CannotStartKeeps == IInv /\ CannotStart => IInv'
<1> SUFFICES ASSUME IInv, CannotStart PROVE IInv'
  OBVIOUS
<1> USE DEF IInv
<1>1. /\ pc = "run" /\ pc' = "done" /\ exit' = "rejected"
      /\ scenario' = scenario /\ left' = left /\ waiting' = waiting /\ ready' = ready
      /\ native' = native /\ host' = host /\ groups' = groups /\ binaries' = binaries
      /\ results' = results /\ diagnostics' = diagnostics /\ skipped' = skipped
  BY DEF CannotStart, prepared, report
<1>2. Grows
  BY <1>1 DEF Grows
<1>3. TypeInv'
  BY <1>1 DEF TypeInv, Working
<1>4. FinishedInv' /\ BinariesInv' /\ UnmatchedInv'
  BY <1>1, <1>2, FinishedKept, BinariesKept, UnmatchedKept
<1>5. AcceptedInv'
  BY <1>1 DEF AcceptedInv, AcceptedTestsRan, AcceptedBuildsAreComplete,
              AcceptedRunsAreAttested
<1> QED BY <1>1, <1>3, <1>4, <1>5, Idle DEF Working

(* An accepted run reported nothing that rejects it and is finished, so    *)
(* each profile is complete; an accepted test run noted nothing either.    *)
LEMMA FinalizeKeeps == IInv /\ Finalize => IInv'
<1> SUFFICES ASSUME IInv, Finalize PROVE IInv'
  OBVIOUS
<1> USE DEF IInv
<1>1. /\ pc = "finalize" /\ pc' = "done"
      /\ \/ attested' = Outcome /\ diagnostics' = diagnostics
         \/ diagnostics' = Append(diagnostics, "error")
      /\ exit' = (IF Rejected(diagnostics') THEN "rejected" ELSE "accepted")
      /\ scenario' = scenario /\ left' = left /\ waiting' = waiting /\ ready' = ready
      /\ native' = native /\ host' = host /\ groups' = groups /\ binaries' = binaries
      /\ results' = results /\ skipped' = skipped
  BY DEF Finalize, prepared, Diagnose
<1>2. Grows
  BY <1>1 DEF Grows, Severity
<1>3. TypeInv'
  BY <1>1, <1>2, Growth DEF TypeInv, Working
<1>4. FinishedInv' /\ BinariesInv' /\ UnmatchedInv'
  BY <1>1, <1>2, FinishedKept, BinariesKept, UnmatchedKept
<1>5. AcceptedInv'
  <2> SUFFICES ASSUME exit' = "accepted" PROVE AcceptedInv'
    BY DEF AcceptedInv, AcceptedTestsRan, AcceptedBuildsAreComplete, AcceptedRunsAreAttested
  <2>1. /\ "error" \notin ToSet(diagnostics')
        /\ scenario.tests => diagnostics' = <<>> /\ skipped = {}
    BY <1>1 DEF Rejected
  <2>2. Tolerable'
    BY <1>1, <2>1 DEF Tolerable
  <2>3. attested' = Outcome /\ diagnostics' = diagnostics
    BY <1>1, <2>2, Diagnosed DEF Severity
  <2>4. left' = <<>> /\ ToSet(left') = {}
    <3>1. Tolerable
      BY <1>2, <2>2, Growth
    <3> QED BY <1>1, <3>1, Short DEF FinishedInv
  <2>5. \A b \in Backend : \A p \in Profiles(b)' : Complete(b, p)'
    BY <1>4, <2>2, <2>4 DEF FinishedInv
  <2>6. AcceptedBuildsAreComplete'
    BY <2>5 DEF AcceptedBuildsAreComplete, Complete, Profiles
  <2>7. AcceptedRunsAreAttested'
    <3>1. Outcome # "none"
      BY DEF Outcome
    <3>2. scenario.tests => \A i \in DOMAIN results : results[i].matched
      BY <2>1, <2>3 DEF UnmatchedInv
    <3>3. scenario.tests => Outcome = "passed"
      BY <2>1, <2>3, <3>2 DEF Outcome
    <3> QED BY <1>1, <2>3, <3>1, <3>3 DEF AcceptedRunsAreAttested
  <2>8. AcceptedTestsRan'
    <3> SUFFICES ASSUME scenario.tests, NEW b \in Backend,
                        NEW p \in Profiles(b)'
                 PROVE  Verified(b, p)' /\ BinariesRan(p)'
      BY <1>1 DEF AcceptedTestsRan, Profiles
    <3>1. Verified(b, p)'
      <4>1. skipped' = {}
        BY <1>1, <2>1
      <4> QED BY <2>5, <4>1 DEF Complete, Excused
    <3>2. \A m \in DOMAIN results' : results'[m].command.step = "build-tests" =>
             /\ results'[m].found > 0
             /\ \A i \in 1 .. results'[m].found :
                   DidIn(results', Test(results'[m].command, i))
      BY <1>1, <1>4, <2>2 DEF BinariesInv, Did, DidIn
    <3>3. BinariesRan(p)'
      <4>1. \A r \in ResultsOf("rust", p.name)' : \E m \in DOMAIN results' : r = results'[m]
        BY DEF ResultsOf
      <4> QED BY <3>2, <4>1 DEF BinariesRan, Did, DidIn
    <3> QED BY <3>1, <3>3
  <2> QED BY <2>6, <2>7, <2>8 DEF AcceptedInv
<1> QED BY <1>1, <1>3, <1>4, <1>5, Idle DEF Working

LEMMA StutterKeeps == IInv /\ UNCHANGED vars => IInv'
<1> SUFFICES ASSUME IInv, UNCHANGED vars PROVE IInv'
  OBVIOUS
<1> USE DEF IInv
<1>1. /\ scenario' = scenario /\ pc' = pc /\ left' = left /\ waiting' = waiting
      /\ ready' = ready /\ native' = native /\ host' = host /\ groups' = groups
      /\ binaries' = binaries /\ results' = results /\ diagnostics' = diagnostics
      /\ skipped' = skipped /\ attested' = attested /\ exit' = exit
  BY DEF vars, prepared, report
<1>2. TypeInv'
  BY <1>1 DEF TypeInv
<1>3. /\ \A b, p : /\ Profiles(b)' = Profiles(b) /\ Planned(b, p)' = Planned(b, p)
                   /\ Excused(b, p)' = Excused(b, p) /\ Verified(b, p)' = Verified(b, p)
                   /\ Complete(b, p)' = Complete(b, p)
      /\ Tolerable' = Tolerable /\ \A c : Did(c)' = Did(c) /\ Planning(c)' = Planning(c)
      /\ \A m : Follows(m)' = Follows(m)
  <2>1. ASSUME NEW b, NEW p
        PROVE  /\ Profiles(b)' = Profiles(b) /\ Planned(b, p)' = Planned(b, p)
               /\ Excused(b, p)' = Excused(b, p)
    BY <1>1 DEF Profiles, Planned, Excused
  <2>2. ASSUME NEW c PROVE Did(c)' = Did(c)
    BY <1>1 DEF Did
  <2>3. ASSUME NEW c PROVE Planning(c)' = Planning(c)
    BY <1>1 DEF Planning, StartsBinaries, ReadyProfile, Prefixed
  <2>4. ASSUME NEW b, NEW p PROVE Verified(b, p)' = Verified(b, p)
    BY <2>1, <2>2 DEF Verified
  <2>5. Current' = Current
    BY <1>1 DEF Current
  <2>6. ASSUME NEW m PROVE Follows(m)' = Follows(m)
    <3>1. ASSUME NEW j PROVE Test(Current, j)' = Test(Current, j)
      BY <2>5 DEF Test
    <3> QED BY <1>1, <2>5, <3>1 DEF Follows
  <2>7. Tolerable' = Tolerable
    BY <1>1 DEF Tolerable
  <2> QED BY <2>1, <2>2, <2>3, <2>4, <2>6, <2>7 DEF Complete
<1>4. ReadyInv' /\ PreparingInv' /\ HostInv' /\ NativeInv'
  <2>1. ReadyInv'
    BY <1>1 DEF ReadyInv, Became, HostDependent, Profiles
  <2>2. PreparingInv'
    BY <1>1 DEF PreparingInv, Became, HostDependent, Profiles, Excused, Tolerable
  <2>3. HostInv' /\ NativeInv'
    BY <1>1 DEF HostInv, NativeInv, HostDependent, Excused, Tolerable
  <2> QED BY <2>1, <2>2, <2>3
<1>5. RunningInv'
  <2>1. CommandsOf(groups') = CommandsOf(groups)
    BY <1>1
  <2> QED BY <1>1, <1>3, <2>1
          DEF RunningInv, CommandsOf, Profiles, Planned, Excused, Tolerable
<1>6. FollowInv' /\ BinariesInv'
  BY <1>1, <1>3 DEF FollowInv, BinariesInv
<1>7. UnmatchedInv' /\ FinishedInv'
  BY <1>1, <1>3 DEF UnmatchedInv, FinishedInv
<1>8. AcceptedInv'
  <2>1. ASSUME NEW p PROVE BinariesRan(p)' = BinariesRan(p)
    <3>1. ResultsOf("rust", p.name)' = ResultsOf("rust", p.name)
      BY <1>1 DEF ResultsOf
    <3> QED BY <1>3, <3>1 DEF BinariesRan
  <2>2. AcceptedTestsRan' = AcceptedTestsRan
    BY <1>1, <1>3, <2>1 DEF AcceptedTestsRan
  <2>3. AcceptedBuildsAreComplete' = AcceptedBuildsAreComplete
    BY <1>1, <1>3 DEF AcceptedBuildsAreComplete
  <2>4. AcceptedRunsAreAttested' = AcceptedRunsAreAttested
    BY <1>1 DEF AcceptedRunsAreAttested
  <2> QED BY <2>2, <2>3, <2>4 DEF AcceptedInv
<1> QED BY <1>2, <1>4, <1>5, <1>6, <1>7, <1>8
----------------------------------------------------------------------------
LEMMA StepKeeps == IInv /\ [Next]_vars => IInv'
BY StartKeeps, EnterBackendKeeps, EndBackendsKeeps, RustToolchainKeeps, HostQueryKeeps,
   PrepareKeeps, PreparedKeeps, CommandFailsKeeps, CommandMatchesKeeps,
   TestsAreBuiltKeeps, RunBinaryKeeps, GroupsDoneKeeps, CannotStartKeeps,
   FinalizeKeeps, StutterKeeps
   DEF Next

(* The states of a run of the verifier (_verify_runners.py, verifier.py):  *)
(* until something is reported that rejects the run, no profile is lost    *)
(* between the plan, the preparation and the commands.                     *)
THEOREM Invariance == Spec => []IInv
BY Beginning, StepKeeps, PTL DEF Spec

(* `tslc test` succeeds only when every profile of every backend was built *)
(* and tested as planned, and every test binary that a build reported ran  *)
(* and passed.                                                             *)
THEOREM TestsRan == Spec => []AcceptedTestsRan
<1>1. IInv => AcceptedTestsRan
  BY DEF IInv, AcceptedInv
<1> QED BY <1>1, Invariance, PTL

(* `tslc build` succeeds only when each profile did all that was planned   *)
(* for it or a skip note says why it did not.                              *)
THEOREM BuildsAreComplete == Spec => []AcceptedBuildsAreComplete
<1>1. IInv => AcceptedBuildsAreComplete
  BY DEF IInv, AcceptedInv
<1> QED BY <1>1, Invariance, PTL

(* An accepted run wrote its attestation, and an accepted test run is      *)
(* attested as passed.                                                     *)
THEOREM RunsAreAttested == Spec => []AcceptedRunsAreAttested
<1>1. IInv => AcceptedRunsAreAttested
  BY DEF IInv, AcceptedInv
<1> QED BY <1>1, Invariance, PTL
=============================================================================
