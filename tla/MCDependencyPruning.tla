----------------------- MODULE MCDependencyPruning -----------------------
(* Lowered lists of four slots.  Slots 1 and 2 provide identity 1, as two  *)
(* ordinary bodies or as a compiler alternative and its fallback; 3 and 4  *)
(* provide the others, and nothing provides identity 4.                    *)
EXTENDS DependencyPruning

MCSlot == 1..4
MCSlotKey == 1..4
MCForm == {0, 1}
MCVariant == {0, 1}
MCLabel == {0}
MCCapability == {"builtin"}

KeyShapes == {<<1, 1, 2, 3>>, <<1, 1, 2, 2>>, <<1, 1, 2, 1>>}

(* Two ordinary bodies; one group of two; one group that kept one body,    *)
(* beside an ordinary overload, or beside the body of another axis.        *)
RankShapes ==
    {[rank |-> <<-1, -1, -1, -1>>, form |-> <<0, 0, 0, 0>>, variant |-> <<0, 0, 0, 0>>,
      caps |-> {}],
     [rank |-> <<0, 1, -1, -1>>,   form |-> <<0, 0, 0, 0>>, variant |-> <<0, 0, 0, 0>>,
      caps |-> {1}],
     [rank |-> <<0, 1, -1, -1>>,   form |-> <<0, 0, 0, 0>>, variant |-> <<0, 0, 0, 0>>,
      caps |-> {1, 2}],
     [rank |-> <<0, 1, -1, -1>>,   form |-> <<0, 1, 0, 0>>, variant |-> <<0, 0, 0, 0>>,
      caps |-> {1}],
     [rank |-> <<0, 1, 1, -1>>,    form |-> <<0, 0, 0, 0>>, variant |-> <<0, 0, 1, 0>>,
      caps |-> {1}]}

OneCallee == {{}} \cup {{k} : k \in MCSlotKey}

MCProgram ==
    {[key |-> k, form |-> r.form, variant |-> r.variant,
      label |-> <<0, 0, 0, 0>>, rank |-> r.rank,
      caps |-> [s \in MCSlot |-> IF s \in r.caps THEN MCCapability ELSE {}],
      callees |-> <<c1, c2, c3, c4>>, guards |-> <<{}, {}, {}, {}>>] :
        k \in KeyShapes, r \in RankShapes,
        c1 \in OneCallee, c2 \in OneCallee,
        c3 \in OneCallee \cup {{1, 4}, {1, 3}}, c4 \in {{}, {1}, {2}, {3}}}
=============================================================================
