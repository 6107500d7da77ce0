--------------------------- MODULE MCVerification ---------------------------
(***************************************************************************)
(* Projects of the profiles the corpus has: a portable one, one with       *)
(* target features an emulator or the host runs, and a foreign one with    *)
(* several emulator configurations.                                        *)
(***************************************************************************)
EXTENDS Verification

Base == [name |-> "scalar", target |-> FALSE, features |-> FALSE, compiler |-> "c++",
         runner |-> "none", executions |-> 1, native |-> TRUE, failures |-> 1,
         planned |-> TRUE]
Avx == [Base EXCEPT !.name = "avx2", !.features = TRUE, !.runner = "sde",
                    !.native = FALSE, !.failures = 0]
Foreign == [Base EXCEPT !.name = "sve", !.target = TRUE, !.runner = "qemu",
                    !.native = FALSE, !.compiler = "cross", !.failures = 0]
Scalable == [Foreign EXCEPT !.executions = 3]
Unplanned == [Foreign EXCEPT !.name = "bare", !.planned = FALSE,
                        !.failures = 1]

Projects ==
    {[cpp |-> <<Base, Scalable>>, rust |-> <<>>],
     [cpp |-> <<>>, rust |-> <<Base, Foreign>>],
     [cpp |-> <<Base, Unplanned>>, rust |-> <<Unplanned>>],
     [cpp |-> <<Foreign>>, rust |-> <<Avx>>],
     [cpp |-> <<Avx>>, rust |-> <<Scalable>>]}

Everything ==
    [profiles : Projects, tests : BOOLEAN, quality : BOOLEAN,
     runners : {{}, {"qemu", "sde"}},
     missing : {{}, {"cmake"}, {"cross", "rustc"}, {"c++", "clippy"}, {"sde"}}]
=============================================================================
