----------------------------- MODULE VerifyPlan -----------------------------
(***************************************************************************)
(* What the build verifier plans: which profiles of a generated project it *)
(* can verify and which commands it runs for each, as pure functions of    *)
(* the project and the configuration.  A scenario is both, together with   *)
(* what is missing on the host.  Command lines, directories and            *)
(* environments are left out; the steps, their order, their grouping and   *)
(* what a failure of each counts as are kept.                              *)
(***************************************************************************)
EXTENDS Naturals, Sequences, SequencesExt

CONSTANTS
    Name,      \* profile names
    Kind,      \* runner kinds a profile may ask for
    NoRunner,  \* the runner of a profile that declares none
    Compiler   \* C++ compilers

Backend == {"cpp", "rust"}
Tool == {"cmake", "cargo", "rustc", "clippy"} \cup Compiler \cup Kind

(* A profile of a generated project. target: a cross target is declared;   *)
(* features: target features are; executions: how many configurations its  *)
(* runner has; native: runs without a runner; failures: how many targets   *)
(* must fail to compile; planned: value-test cases are planned for it;     *)
(* compiler: what compiles its C++.                                        *)
Profile == [name : Name, target : BOOLEAN, features : BOOLEAN,
            compiler : Compiler,
            runner : Kind \cup {NoRunner}, executions : 1 .. 3,
            native : BOOLEAN, failures : 0 .. 2, planned : BOOLEAN]

(* The project (its profiles by backend) and the verifier's configuration. *)
Scenario == [profiles : [Backend -> Seq(Profile)],
             tests : BOOLEAN, quality : BOOLEAN,
             runners : SUBSET Kind, missing : SUBSET Tool]

(* One command: the severity is that of its diagnostic when it fails, and  *)
(* an expected one passes only when it fails with its marker.              *)
Command(backend, name, step, severity, expected, index) ==
    [backend |-> backend, name |-> name, step |-> step,
     severity |-> severity, expected |-> expected, index |-> index]

Required(b, p, step) == Command(b, p.name, step, "error", FALSE, 1)
Reported(b, p, step, i) == Command(b, p.name, step, "warning", FALSE, i)
OfToolchain(b, step) == Command(b, "_toolchain", step, "error", FALSE, 1)
When(condition, s) == IF condition THEN s ELSE <<>>

CompileFailures(b, p) ==
    [i \in 1 .. p.failures |->
        Command(b, p.name, "compile-failure", "error", TRUE, i)]

RequiredTools(b) == IF b = "cpp" THEN {"cmake"} ELSE {"cargo"}

(* Value tests need the runner of a profile, or a host that runs it.       *)
Runnable(sc, p) ==
    \/ ~sc.tests
    \/ p.runner = NoRunner /\ p.native
    \/ p.runner \in sc.runners

(* The profiles of a backend that are left, in order. *)
RunnableProfiles(sc, b) ==
    FlattenSeq([i \in DOMAIN sc.profiles[b] |->
                    LET p == sc.profiles[b][i] IN When(Runnable(sc, p), <<p>>)])

(* Which profiles a preparation has to ask the Rust compiler's host for.   *)
HostDependent(p) == p.features /\ ~p.target

(* The runner that stands before a test binary, if any. *)
Prefixed(sc, p) == p.runner \in sc.runners

(* A runner with several configurations runs one binary under each of      *)
(* them; otherwise ctest runs it once.                                     *)
Executions(p) == IF p.runner = NoRunner THEN 1 ELSE p.executions
CppValueTests(p) ==
    [i \in 1 .. Executions(p) |-> Reported("cpp", p, "test", i)]

CppGroup(sc, p) ==
    When(sc.tests /\ sc.runners # {}, <<Required("cpp", p, "clean")>>)
    \o <<Required("cpp", p, "configure"), Required("cpp", p, "build")>>
    \o When(sc.quality, <<Required("cpp", p, "check-warnings")>>)
    \o When(sc.tests,
            <<Reported("cpp", p, "build-values", 1)>> \o CppValueTests(p))
    \o CompileFailures("cpp", p)

CppGroups(sc, ready) == [i \in DOMAIN ready |-> CppGroup(sc, ready[i])]

(* cargo test runs the tests of a profile, or only builds them when the    *)
(* target is foreign or a runner has to start each binary.                 *)
RustTestStep(sc, p) ==
    IF (~sc.tests /\ p.target) \/ (sc.tests /\ Prefixed(sc, p))
    THEN "build-tests"
    ELSE "test"

RustTest(sc, p) ==
    IF sc.tests
    THEN Reported("rust", p, RustTestStep(sc, p), 1)
    ELSE Required("rust", p, RustTestStep(sc, p))

RustQuality(sc, p) ==
    <<<<Required("rust", p, "check-warnings")>>, <<Required("rust", p, "rustdoc")>>>>
    \o When("clippy" \notin sc.missing, <<<<Required("rust", p, "clippy")>>>>)

RustProfileGroups(sc, p) ==
    When(sc.quality, RustQuality(sc, p))
    \o <<<<RustTest(sc, p)>> \o CompileFailures("rust", p)>>

(* The examples of the documentation run once, on the least demanding      *)
(* profile this host can execute; of the emulators only SDE counts.        *)
DoctestCandidates(sc, ready) ==
    {p \in ToSet(ready) :
        p.native \/ ~p.target \/ (p.runner = "sde" /\ Prefixed(sc, p))}
DoctestProfile(sc, ready) ==
    LET plain == {p \in DoctestCandidates(sc, ready) : ~p.features}
    IN CHOOSE p \in DoctestCandidates(sc, ready) : plain = {} \/ p \in plain

RustGroups(sc, ready) ==
    FlattenSeq([i \in DOMAIN ready |-> RustProfileGroups(sc, ready[i])])
    \o When(sc.quality /\ DoctestCandidates(sc, ready) # {},
            <<<<Required("rust", DoctestProfile(sc, ready), "doctest")>>>>)
    \o When(sc.quality /\ ready # <<>>,
            <<<<Required("rust", ready[1], "package-list")>>>>)

Groups(sc, b, ready) ==
    IF b = "cpp" THEN CppGroups(sc, ready) ELSE RustGroups(sc, ready)
=============================================================================
