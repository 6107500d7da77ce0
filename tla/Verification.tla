---------------------------- MODULE Verification ----------------------------
(***************************************************************************)
(* One run of the build verifier over a generated project, command by      *)
(* command: which backends and profiles it prepares, what it skips, where  *)
(* a failed command stops the commands after it, which test binaries it    *)
(* starts, what it attests and the exit status the generation command      *)
(* draws from its report.  Whether a command does what is expected of it   *)
(* is a choice at every step.                                              *)
(***************************************************************************)
EXTENDS VerifyPlan

CONSTANTS
    Scenarios,   \* the projects and configurations considered
    MaxBinaries  \* bound: test binaries of one Rust build

(* A project has one profile of a name: what is requested expands to a     *)
(* set, and profiles whose file names agree are refused by the writer.     *)
NamesAreUnique(s) == \A i, j \in DOMAIN s : s[i].name = s[j].name => i = j

ASSUME ScenariosAssumption ==
    \A sc \in Scenarios :
        sc \in Scenario /\ \A b \in Backend : NamesAreUnique(sc.profiles[b])

VARIABLES
    scenario,     \* the project, the configuration and what is missing
    pc,           \* where the verifier is
    left,         \* backends not finished, the current one first
    waiting,      \* profiles the current preparation has not looked at
    ready,        \* profiles it found usable
    native,       \* what the native preflight of each C++ compiler said
    host,         \* whether the Rust compiler's host target is known
    groups,       \* commands to run; a failure drops the rest of its group
    binaries,     \* test binaries of the last build still to run
    results,      \* what each command run so far did
    diagnostics,  \* their severities
    skipped,      \* what was left out: [backend, name]
    attested,     \* the outcome written to the attestation
    exit          \* what the generation command returns

prepared == <<waiting, ready, native, host>>
report == <<results, diagnostics, skipped>>
vars == <<scenario, pc, left, prepared, groups, binaries, report, attested, exit>>

Init ==
    /\ scenario \in Scenarios
    /\ pc = "start" /\ left = <<"cpp", "rust">>
    /\ waiting = <<>> /\ ready = <<>> /\ host = FALSE
    /\ native = [c \in Compiler |-> "unasked"]
    /\ groups = <<>> /\ binaries = 0
    /\ results = <<>> /\ diagnostics = <<>> /\ skipped = {}
    /\ attested = "none" /\ exit = "running"

Missing(tool) == tool \in scenario.missing
Skip(b, names) == skipped' = skipped \cup {[backend |-> b, name |-> n] : n \in names}
Names(profiles) == {p.name : p \in profiles}
Ran(command, matched, found) ==
    Append(results, [command |-> command, matched |-> matched, found |-> found])
Diagnose(severity) == diagnostics' = Append(diagnostics, severity)

(***************************************************************************)
(* A backend: its tools, its profiles, its preparation                     *)
(***************************************************************************)
Start ==
    /\ pc = "start"
    /\ IF scenario.tests /\ scenario.runners \cap scenario.missing # {}
       THEN pc' = "finalize" /\ Diagnose("error")
       ELSE pc' = "backend" /\ UNCHANGED diagnostics
    /\ UNCHANGED <<scenario, left, prepared, groups, binaries, results, skipped,
                   attested, exit>>

NextBackend == pc' = "backend" /\ left' = Tail(left)

EnterBackend ==
    /\ pc = "backend" /\ left # <<>>
    /\ LET b == Head(left)
           usable == RunnableProfiles(scenario, b)
           others == ToSet(scenario.profiles[b]) \ ToSet(usable)
           unusable == RequiredTools(b) \cap scenario.missing # {}
       IN /\ Skip(b, IF unusable THEN {"_toolchain"} ELSE Names(others))
          /\ IF unusable \/ usable = <<>>
             THEN NextBackend /\ UNCHANGED prepared
             ELSE /\ pc' = (IF b = "rust" THEN "toolchain" ELSE "prepare")
                  /\ waiting' = usable /\ ready' = <<>> /\ host' = FALSE
                  /\ native' = [c \in Compiler |-> "unasked"]
                  /\ UNCHANGED left
    /\ UNCHANGED <<scenario, groups, binaries, results, diagnostics, attested, exit>>

EndBackends ==
    /\ pc = "backend" /\ left = <<>>
    /\ pc' = "finalize"
    /\ UNCHANGED <<scenario, left, prepared, groups, binaries, report, attested, exit>>

(* The Rust compiler is tried once for the whole backend. *)
RustToolchain ==
    /\ pc = "toolchain"
    /\ \/ /\ Missing("rustc")
          /\ NextBackend /\ Skip("rust", {"_toolchain"})
          /\ UNCHANGED <<results, diagnostics>>
       \/ /\ ~Missing("rustc")           \* its source cannot be written
          /\ NextBackend /\ Diagnose("error")
          /\ UNCHANGED <<results, skipped>>
       \/ /\ ~Missing("rustc")
          /\ results' = Ran(OfToolchain("rust", "preflight"), FALSE, 0)
          /\ NextBackend /\ Skip("rust", {"_toolchain"})
          /\ UNCHANGED diagnostics
       \/ /\ ~Missing("rustc")
          /\ results' = Ran(OfToolchain("rust", "preflight"), TRUE, 0)
          /\ Skip("rust", IF scenario.quality /\ Missing("clippy") THEN {"_clippy"} ELSE {})
          /\ pc' = (IF \E p \in ToSet(waiting) : HostDependent(p) THEN "host" ELSE "prepare")
          /\ UNCHANGED <<left, diagnostics>>
    /\ UNCHANGED <<scenario, prepared, groups, binaries, attested, exit>>

(* Profiles with target features but no target need the compiler's host. *)
HostQuery ==
    /\ pc = "host" /\ pc' = "prepare"
    /\ \E answer \in {"fails", "malformed", "known"} :
          /\ results' = Ran(OfToolchain("rust", "host-target"), answer # "fails", 0)
          /\ host' = (answer = "known")
          /\ Skip("rust", IF answer = "known" THEN {}
                          ELSE Names({p \in ToSet(waiting) : HostDependent(p)}))
          /\ IF answer = "malformed" THEN Diagnose("error") ELSE UNCHANGED diagnostics
    /\ UNCHANGED <<scenario, left, waiting, ready, native, groups, binaries, attested, exit>>

(* Leave a profile out, or take it, as what was asked about it says. *)
LeaveOut(names) == Skip(Head(left), names) /\ UNCHANGED <<ready, results, diagnostics>>
Take(p) == ready' = Append(ready, p) /\ UNCHANGED <<results, diagnostics, skipped>>
Preflight(command, p, excused) ==
    \/ results' = Ran(command, TRUE, 0) /\ ready' = Append(ready, p)
       /\ UNCHANGED <<diagnostics, skipped>>
    \/ results' = Ran(command, FALSE, 0) /\ Skip(command.backend, {excused})
       /\ UNCHANGED <<ready, diagnostics>>
    \/ Diagnose("error") /\ UNCHANGED <<ready, results, skipped>>
TargetPreflight(b, p) == Preflight(Required(b, p, "target-preflight"), p, p.name)

(* Without a target a C++ compiler is tried once and its answer kept.      *)
NativePreflight(p) ==
    \/ /\ native[p.compiler] = "unasked"
       /\ Preflight(OfToolchain("cpp", "preflight"), p, "_toolchain")
       /\ native' = [native EXCEPT ![p.compiler] =
                        IF ready' = ready THEN "fails" ELSE "works"]
    \/ native[p.compiler] = "works" /\ Take(p) /\ UNCHANGED native
    \/ native[p.compiler] = "fails" /\ LeaveOut({}) /\ UNCHANGED native

(* A mutant: a profile whose compiler is missing is left out unsaid. *)
PrepareCppUnsaid(p) ==
    \/ Missing(p.compiler) /\ LeaveOut({}) /\ UNCHANGED native
    \/ ~Missing(p.compiler) /\ ~p.target /\ NativePreflight(p)
    \/ ~Missing(p.compiler) /\ p.target /\ TargetPreflight("cpp", p) /\ UNCHANGED native

PrepareCpp(p) ==
    \/ Missing(p.compiler) /\ LeaveOut({p.name}) /\ UNCHANGED native
    \/ ~Missing(p.compiler) /\ ~p.target /\ NativePreflight(p)
    \/ ~Missing(p.compiler) /\ p.target /\ TargetPreflight("cpp", p) /\ UNCHANGED native

SeveralExecutions(p) == scenario.tests /\ Executions(p) > 1

PrepareRust(p) ==
    /\ \/ SeveralExecutions(p) /\ LeaveOut({p.name})
       \/ ~SeveralExecutions(p) /\ HostDependent(p) /\ ~host /\ LeaveOut({})
       \/ ~SeveralExecutions(p) /\ ~HostDependent(p) /\ ~p.target /\ Take(p)
       \/ /\ ~SeveralExecutions(p) /\ (p.target \/ (HostDependent(p) /\ host))
          /\ TargetPreflight("rust", [p EXCEPT !.target = TRUE])
    /\ UNCHANGED native

Prepare ==
    /\ pc = "prepare" /\ waiting # <<>>
    /\ waiting' = Tail(waiting)
    /\ IF Head(left) = "cpp" THEN PrepareCpp(Head(waiting)) ELSE PrepareRust(Head(waiting))
    /\ UNCHANGED <<scenario, pc, left, host, groups, binaries, attested, exit>>

Prepared ==
    /\ pc = "prepare" /\ waiting = <<>>
    /\ pc' = "run"
    /\ groups' = Groups(scenario, Head(left), ready)
    /\ UNCHANGED <<scenario, left, prepared, binaries, report, attested, exit>>

(***************************************************************************)
(* The commands of the prepared profiles                                   *)
(***************************************************************************)
Current == groups[1][1]
DropGroup == Tail(groups)

NextCommand ==
    IF Len(groups[1]) = 1 THEN Tail(groups) ELSE <<Tail(groups[1])>> \o Tail(groups)

(* A mutant: an expected failure that did not come is only recorded. *)
FailUnexpected(command) ==
    /\ results' = Ran(command, FALSE, 0)
    /\ IF command.expected THEN UNCHANGED diagnostics ELSE Diagnose(command.severity)

Fail(command) ==
    /\ results' = Ran(command, FALSE, 0)
    /\ Diagnose(command.severity)

(* A build of tests whose profile has a configured runner is followed by   *)
(* the test binaries it reports. Cargo reports them only when it was asked *)
(* to, and only builds for value tests ask.                                *)
ReadyProfile(name) == CHOOSE p \in ToSet(ready) : p.name = name
StartsBinaries(c) ==
    c.step = "build-tests" /\ Prefixed(scenario, ReadyProfile(c.name))
Reportable == IF scenario.tests THEN 0 .. MaxBinaries ELSE {0}

CommandFails ==
    /\ pc = "run" /\ groups # <<>>
    /\ Fail(Current) /\ groups' = DropGroup
    /\ UNCHANGED <<scenario, pc, left, prepared, binaries, skipped, attested, exit>>

CommandMatches ==
    /\ pc = "run" /\ groups # <<>> /\ ~StartsBinaries(Current)
    /\ results' = Ran(Current, TRUE, 0) /\ groups' = NextCommand
    /\ UNCHANGED <<scenario, pc, left, prepared, binaries, diagnostics, skipped,
                   attested, exit>>

TestsAreBuilt ==
    /\ pc = "run" /\ groups # <<>> /\ StartsBinaries(Current)
    /\ \E n \in Reportable :
          /\ results' = Ran(Current, TRUE, n)
          /\ IF n = 0
             THEN /\ Diagnose(Current.severity)
                  /\ groups' = NextCommand
                  /\ UNCHANGED <<pc, binaries>>
             ELSE /\ pc' = "follow" /\ binaries' = n
                  /\ UNCHANGED <<diagnostics, groups>>
    /\ UNCHANGED <<scenario, left, prepared, skipped, attested, exit>>

(* The command that runs test binary i of the build c. *)
Test(c, i) == [c EXCEPT !.step = "test", !.index = i]

(* The binaries run one after the other until one fails; the commands      *)
(* after the build go on either way.                                       *)
RunBinary ==
    /\ pc = "follow"
    /\ LET built == results[Len(results)].found
           i == IF built > 0 THEN 1 ELSE results[Len(results)].command.index + 1
           test == Test(Current, i)
       IN \/ /\ Fail(test)
             /\ pc' = "run" /\ binaries' = 0 /\ groups' = NextCommand
          \/ /\ results' = Ran(test, TRUE, 0) /\ binaries' = binaries - 1
             /\ IF binaries = 1
                THEN pc' = "run" /\ groups' = NextCommand
                ELSE UNCHANGED <<pc, groups>>
             /\ UNCHANGED diagnostics
    /\ UNCHANGED <<scenario, left, prepared, skipped, attested, exit>>

GroupsDone ==
    /\ pc = "run" /\ groups = <<>>
    /\ NextBackend
    /\ UNCHANGED <<scenario, prepared, groups, binaries, report, attested, exit>>

(* Nothing looks for ctest: when it cannot be started the exception ends   *)
(* the program.                                                            *)
CannotStart ==
    /\ pc = "run" /\ groups # <<>>
    /\ Current.backend = "cpp" /\ Current.step = "test"
    /\ pc' = "done" /\ exit' = "rejected"
    /\ UNCHANGED <<scenario, left, prepared, groups, binaries, report, attested>>

(***************************************************************************)
(* The report                                                              *)
(***************************************************************************)
Outcome ==
    IF (\E i \in DOMAIN results : ~results[i].matched) \/ diagnostics # <<>>
    THEN "failed"
    ELSE IF skipped # {} THEN "incomplete" ELSE "passed"

(* The results the summary joins to a profile, and whether its planned     *)
(* value tests count as passed.                                            *)
ResultsOf(b, name) ==
    {results[i] : i \in {j \in DOMAIN results :
        results[j].command.backend = b /\ results[j].command.name = name}}
ValueTestsPassed(b, p) ==
    /\ \A r \in ResultsOf(b, p.name) : r.matched
    /\ \E r \in ResultsOf(b, p.name) : r.command.step = "test"
Incomplete ==
    \E b \in Backend : \E p \in ToSet(scenario.profiles[b]) :
        p.planned /\ ~ValueTestsPassed(b, p)

(* A mutant: the value tests a plan counts decide, the notes do not. *)
RejectedByPlan(severities) ==
    "error" \in ToSet(severities) \/ (scenario.tests /\ Incomplete)

Rejected(severities) ==
    \/ "error" \in ToSet(severities)
    \/ scenario.tests /\ (severities # <<>> \/ skipped # {} \/ Incomplete)

(* The attestation may fail to be written: the manifest it names cannot be *)
(* read, or its own file cannot be.                                        *)
Finalize ==
    /\ pc = "finalize" /\ pc' = "done"
    /\ \/ attested' = Outcome /\ UNCHANGED diagnostics
       \/ Diagnose("error") /\ UNCHANGED attested
    /\ exit' = (IF Rejected(diagnostics') THEN "rejected" ELSE "accepted")
    /\ UNCHANGED <<scenario, left, prepared, groups, binaries, results, skipped>>

Next ==
    \/ Start \/ EnterBackend \/ EndBackends \/ RustToolchain \/ HostQuery
    \/ Prepare \/ Prepared
    \/ CommandFails \/ CommandMatches \/ TestsAreBuilt \/ RunBinary \/ GroupsDone
    \/ CannotStart \/ Finalize

Spec == Init /\ [][Next]_vars

(***************************************************************************)
(* What a run promises                                                     *)
(***************************************************************************)
Planned(b, p) ==
    IF b = "cpp" THEN ToSet(CppGroup(scenario, p))
    ELSE UNION {ToSet(g) : g \in ToSet(RustProfileGroups(scenario,
                   [p EXCEPT !.target = @ \/ HostDependent(p)]))}
Did(command) ==
    \E i \in DOMAIN results : results[i].command = command /\ results[i].matched
Verified(b, p) == \A c \in Planned(b, p) : Did(c)
BinariesRan(p) ==
    \A r \in ResultsOf("rust", p.name) :
        r.command.step = "build-tests" =>
            /\ r.found > 0
            /\ \A i \in 1 .. r.found : Did(Test(r.command, i))
Excused(b, p) ==
    \E s \in skipped : s.backend = b /\ s.name \in {p.name, "_toolchain"}

(* `tslc test` succeeds only when every profile of every backend was       *)
(* built, every execution and every test binary of it ran and passed, and  *)
(* every target that must not compile did not.                             *)
AcceptedTestsRan ==
    exit = "accepted" /\ scenario.tests =>
        \A b \in Backend : \A p \in ToSet(scenario.profiles[b]) :
            Verified(b, p) /\ (b = "rust" => BinariesRan(p))

(* A build is accepted only when each profile did everything that is       *)
(* planned for it or a skip note says why it did not.                      *)
AcceptedBuildsAreComplete ==
    exit = "accepted" =>
        \A b \in Backend : \A p \in ToSet(scenario.profiles[b]) :
            Verified(b, p) \/ Excused(b, p)

(* An accepted run is attested, and an accepted test run is attested as    *)
(* passed: no command that failed and nothing left out goes unreported.    *)
AcceptedRunsAreAttested ==
    exit = "accepted" =>
        /\ attested # "none"
        /\ scenario.tests => attested = "passed"

(* A build in which every profile did all that is planned for it and that  *)
(* was attested is accepted.                                               *)
GoodBuildsAreAccepted ==
    /\ pc = "done" /\ ~scenario.tests /\ attested # "none"
    /\ \A i \in DOMAIN results : results[i].matched
    /\ \A b \in Backend : \A p \in ToSet(scenario.profiles[b]) : Verified(b, p)
    => exit = "accepted"
=============================================================================
