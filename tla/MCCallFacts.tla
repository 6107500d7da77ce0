---------------------------- MODULE MCCallFacts ----------------------------
(* Three live slots: all three identities with most calls among them, or    *)
(* two bodies behind one identity (ordinary duplicates, a compiler         *)
(* alternative and its fallback, two overloads) and a third slot.          *)
EXTENDS CallFacts

MCSlot == 1..3
MCSlotKey == 1..3
MCForm == {0, 1}
MCVariant == {0}
MCLabel == {0}
MCCapability == {"builtin"}
MCReason == {"intrinsic", "pointer"}
MCFeature == {"avx2", "bmi2"}
MCObligation == {"divisor"}

Ungated == [s \in MCSlot |-> {}]

Apart ==
    {[key |-> <<1, 2, 3>>, form |-> <<0, 0, 0>>, variant |-> <<0, 0, 0>>,
      label |-> <<0, 0, 0>>, rank |-> <<-1, -1, -1>>, caps |-> Ungated, callees |-> <<c1, c2, c3>>,
      guards |-> Ungated] :
        c1 \in SUBSET MCSlotKey, c2 \in {{}, {1}, {2}, {3}},
        c3 \in {{}, {1}, {2}, {3}}}

Together ==
    {[key |-> <<1, 1, 2>>, form |-> f.form, variant |-> <<0, 0, 0>>,
      label |-> <<0, 0, 0>>, rank |-> f.rank,
      caps |-> f.caps, callees |-> <<c1, c2, c3>>,
      guards |-> Ungated] :
        f \in {[form |-> <<0, 0, 0>>, rank |-> <<-1, -1, -1>>, caps |-> Ungated],
               [form |-> <<0, 0, 0>>, rank |-> <<0, 1, -1>>,
                caps |-> <<{"builtin"}, {}, {}>>],
               [form |-> <<0, 1, 0>>, rank |-> <<-1, -1, -1>>, caps |-> Ungated]},
        c1 \in SUBSET {1, 2}, c2 \in {{}, {2}}, c3 \in {{}, {1}, {2}}}

MCProgram == Apart \cup Together

Plain == [internal |-> FALSE, caller |-> FALSE, reasons |-> {},
          gaps |-> {}, features |-> {}, state |-> 1]
Intrinsic == [internal |-> TRUE, caller |-> FALSE, reasons |-> {"intrinsic"},
              gaps |-> {}, features |-> {"avx2"}, state |-> 0]
Contract == [internal |-> FALSE, caller |-> TRUE, reasons |-> {"pointer"},
             gaps |-> {"divisor"}, features |-> {"bmi2"}, state |-> 3]

MCOwnFacts == [MCSlot -> {Plain, Intrinsic, Contract}]
=============================================================================
