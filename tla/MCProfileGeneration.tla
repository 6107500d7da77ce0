------------------------ MODULE MCProfileGeneration ------------------------
(* Three primitives at two types on two extensions.  add calls cvt or      *)
(* something undeclared, cvt calls back or on to load, and load is what    *)
(* the test harness needs.  A body may be missing, may not lower, or may   *)
(* be deferred.                                                            *)
EXTENDS ProfileGeneration

MCPrimitive == {"add", "cvt", "load"}
MCTypeTag == {"f32", "ui32"}
MCExtension == {"sse", "avx2"}

OtherType(t) == IF t = "f32" THEN "ui32" ELSE "f32"
OtherExtension(e) == IF e = "sse" THEN "avx2" ELSE "sse"

(* The calls the bodies of a primitive may make, by their own slot s. *)
To(p, t, e) == {[primitive |-> p, type |-> t, extension |-> e]}
AddCalls == {"none", "cvt", "cvt_other", "cvt_across", "cvt_symbolic", "cvt_any", "foreign"}
CvtCalls == {"add", "load_other", "load_across"}
LoadCalls == {"none", "cvt"}

Calls(kind, s) ==
    CASE kind = "none"         -> {}
      [] kind = "add"          -> To("add", s[2], s[3])
      [] kind = "cvt"          -> To("cvt", s[2], s[3])
      [] kind = "cvt_other"    -> To("cvt", OtherType(s[2]), s[3])
      [] kind = "cvt_across"   -> To("cvt", s[2], OtherExtension(s[3]))
      [] kind = "cvt_symbolic" -> To("cvt", OtherType(s[2]), Symbolic)
      [] kind = "cvt_any"      -> To("cvt", AnyType, Symbolic)
      [] kind = "foreign"      -> To(Foreign, s[2], s[3])
      [] kind = "load_other"   -> To("load", OtherType(s[2]), s[3])
      [] kind = "load_across"  -> To("load", s[2], OtherExtension(s[3]))

Failures == {<< <<"add", "f32", "sse">>, "lowered">>,
             << <<"cvt", "ui32", "sse">>, "unlowered">>,
             << <<"load", "ui32", "avx2">>, "absent">>,
             << <<"cvt", "f32", "avx2">>, "deferred">>}

(* With extras, add has a checked companion that calls load at the other   *)
(* type, and cvt binds that type as a base.                                *)
Written(a, c, l, extras, failure) ==
    [s \in Site |->
        [outcome |-> IF s = failure[1] THEN failure[2] ELSE "lowered",
         calls   |-> CASE s[1] = "add" -> Calls(a, s)
                       [] s[1] = "cvt" -> Calls(c, s)
                       [] s[1] = "load" -> Calls(l, s),
         guards  |-> IF extras /\ s[1] = "add" THEN Calls("load_other", s) ELSE {},
         bases   |-> IF extras /\ s[1] = "cvt" THEN {OtherType(s[2])} ELSE {}]]

MCCatalog ==
    {Written(a, c, l, x, f) : a \in AddCalls, c \in CvtCalls, l \in LoadCalls,
        x \in BOOLEAN, f \in Failures}

Asking(ps, ts, scope, harness, seeds, traced) ==
    [primitives |-> ps, types |-> ts, scope |-> scope, harness |-> harness,
     seeds |-> seeds, support |-> traced]

(* Without extensions: the whole catalog at all types, with and without    *)
(* harness, or one primitive at one type.                                  *)
MCUnscoped ==
    {Asking(MCPrimitive, MCTypeTag, NoScope, {"load"}, {}, TRUE),
     Asking({"add"}, {"f32"}, NoScope, {}, {}, TRUE),
     Asking({"add"}, {"f32"}, NoScope, {"load"}, {}, TRUE),
     Asking({"add", "cvt"}, MCTypeTag, NoScope, {}, {"load"}, FALSE)}

(* Focused on one or two extensions, without a target-support trace. *)
MCFocused ==
    {Asking({"add"}, {"f32"}, {"sse"}, {}, {}, FALSE),
     Asking({"add"}, {"f32"}, {"avx2"}, {"load"}, {}, FALSE),
     Asking({"add"}, MCTypeTag, MCExtension, {}, {}, FALSE)}

MCRequest == MCUnscoped \cup MCFocused
=============================================================================
