-------------------------- MODULE MCAuthoringCheck --------------------------
(* Two files.  "def" and "far" define what "use" uses, at other positions; *)
(* "bad" does not parse.                                                   *)
EXTENDS AuthoringCheck

CONSTANT First

MCText == {"def", "far", "use", "bad"}
MCParsable == MCText \ {"bad"}
MCValid ==
    {c \in UNION {[D -> MCParsable] : D \in SUBSET Path} :
        (\E p \in DOMAIN c : c[p] = "use") => \E p \in DOMAIN c : c[p] \in {"def", "far"}}
MCStart ==
    {d \in [Path -> MCText \cup {None}] :
        \A p \in Path : d[p] \in IF p = First THEN {"def", "bad", None} ELSE {"use", None}}
=============================================================================
