----------------------------- MODULE CallGraph -----------------------------
(***************************************************************************)
(* The lowered call graph of one machine profile, as the dependency        *)
(* closure of tslc (_pipeline_closure.py) sees it: a list of lowered slots *)
(* (one specialization body each), the emitted identity each provides, the *)
(* identities its body calls, and the compiler-alternative groups in which *)
(* capability-gated bodies compete with an unconditional fallback.         *)
(***************************************************************************)
EXTENDS Integers, FiniteSets

CONSTANTS
    Slot,        \* positions in the list of lowered slots
    SlotKey,     \* emitted identities (_SlotKey), numbered in dependency_sort_key order
    Form,        \* what _CallFactKey adds to the slot key: parameters, immediate, generics
    Variant,     \* what _CompilerAlternativeKey adds to that: axis, type parameters, lanes
    Label,       \* what the coverage of a compiler alternative goes by
    Capability,  \* compiler capabilities that may gate a body
    Program      \* the lowered slot lists under consideration

VARIABLE program  \* the lowered slot list

Unranked == -1   \* compiler_alternative_rank is None

(* One lowered slot list.  callees holds the concrete dependency keys of   *)
(* every slot (a symbolic dependency has none), guards the identities that *)
(* only its checked companion calls.                                       *)
LoweredProgram ==
    [key     : [Slot -> SlotKey],
     form    : [Slot -> Form],
     variant : [Slot -> Variant],
     label   : [Slot -> Label],
     rank    : [Slot -> Nat \cup {Unranked}],
     caps    : [Slot -> SUBSET Capability],
     callees : [Slot -> SUBSET SlotKey],
     guards  : [Slot -> SUBSET SlotKey]]

ASSUME CallGraphAssumption ==
    /\ Slot \subseteq Nat /\ IsFiniteSet(Slot)
    /\ SlotKey \subseteq Nat
    /\ Program \subseteq LoweredProgram

Providers(p, S, k) == {s \in S : p.key[s] = k}

Ranked(p) == {s \in Slot : p.rank[s] # Unranked}

(* The slots one compiler alternative key collects, s among them. *)
Group(p, s) ==
    {t \in Ranked(p) : /\ p.key[t] = p.key[s] /\ p.form[t] = p.form[s]
                       /\ p.variant[t] = p.variant[s]}

(* The slots the pruner takes for the fallback of the group of s: the      *)
(* first one of the list that needs no capability, if there is one.        *)
Fallbacks(p, s) ==
    {f \in Group(p, s) :
        /\ p.caps[f] = {}
        /\ \A t \in Group(p, s) : p.caps[t] = {} => f <= t}

CallsResolve(p, S, s) == \A k \in p.callees[s] : Providers(p, S, k) # {}

Backed(p, S, s) == s \in Ranked(p) => Fallbacks(p, s) \subseteq S

(* A set of slots that can be generated together: every call lands in it,  *)
(* and no gated body stays without the fallback its group was lowered with.*)
Closed(p, S) == \A s \in S : CallsResolve(p, S, s) /\ Backed(p, S, s)
=============================================================================
