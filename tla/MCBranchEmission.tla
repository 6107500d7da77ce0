-------------------------- MODULE MCBranchEmission --------------------------
(* Five lowered slots: two bodies behind identity 1, two behind identity 2 *)
(* (or behind identity 1 again, with another axis or, under one signature, *)
(* with other type parameters) and one caller; identity 4 is called and    *)
(* never provided.                                                         *)
EXTENDS BranchEmission

MCSlot == 1..5
MCSlotKey == 1..4
MCForm == {0}
MCVariant == {0, 1}
MCLabel == 1..3
MCCapability == {"clzg", "popcountg"}

Apart == [key |-> <<1, 1, 2, 2, 3>>, variant |-> <<0, 0, 0, 0, 0>>,
          label |-> <<1, 1, 2, 2, 3>>]
OneName == [key |-> <<1, 1, 1, 1, 3>>, variant |-> <<0, 0, 1, 1, 0>>,
            label |-> <<1, 1, 2, 2, 3>>]
OneSignature == [OneName EXCEPT !.label = <<1, 1, 1, 1, 3>>]

Listed(names, ranks, gates, calls, checks) ==
    {[key |-> n.key, form |-> <<0, 0, 0, 0, 0>>, variant |-> n.variant,
      label |-> n.label, rank |-> r, caps |-> g, callees |-> <<c1, c2, c3, c4, c5>>,
      guards |-> <<{}, k2, {}, {}, k5>>] :
        n \in names, r \in ranks, g \in gates, c1 \in calls, c2 \in calls, c3 \in calls,
        c4 \in calls, c5 \in calls, k2 \in checks, k5 \in checks}

Calls == {{}, {1}, {2}, {4}}

(* Ordinary generation: every group keeps the fallback it was selected     *)
(* with, last in rank.                                                     *)
Automatic ==
    Listed({Apart, OneName, OneSignature}, {<<0, 1, 0, 1, -1>>},
           {<<{"clzg"}, {}, {"popcountg"}, {}, {}>>,
            <<{"clzg"}, {}, {"clzg", "popcountg"}, {}, {}>>},
           Calls, {{1}, {4}})

(* Explicit capability inputs: one winner per slot, whatever it needs, and *)
(* ordinary duplicates of one identity.                                    *)
Explicit ==
    Listed({Apart}, {<<-1, -1, -1, -1, -1>>},
           {<<{"clzg"}, {}, {}, {"popcountg"}, {}>>}, {{}, {1}, {2}}, {{}})

MCProgram == Automatic \cup Explicit
=============================================================================
