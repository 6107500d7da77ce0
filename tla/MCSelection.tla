---------------------------- MODULE MCSelection ----------------------------
(* Three bodies on a base extension and a variant that inherits from it.   *)
(* Capabilities a and b are independent; the last clause list gates a body *)
(* at one type only.                                                       *)
EXTENDS Selection

MCExtension == {1, 2}
MCTypeTag == {1, 2}
MCFeature == {"vl"}
MCCapability == {"a", "b"}
MCBody == 1..3

Asks(types, flags, caps, foreign) ==
    [types |-> types, flags |-> flags, caps |-> caps, foreign |-> foreign]

ClauseLists ==
    {{},
     {Asks(MCTypeTag, {}, {"a"}, FALSE)},
     {Asks(MCTypeTag, {}, {"b"}, FALSE)},
     {Asks(MCTypeTag, {}, {"a"}, FALSE), Asks(MCTypeTag, {"vl"}, {"b"}, FALSE)},
     {Asks({1}, {"vl"}, {}, FALSE), Asks({2}, {}, {"a"}, FALSE)},
     {Asks({1}, {}, {}, TRUE)}}

Written(groups) ==
    [extension : MCExtension, types : groups, clauses : ClauseLists]

(* Profiles: without the variant, with it and without or with a feature.   *)
(* The last variant offers only one of the types, like those of a          *)
(* fractional register group.                                              *)
Profiles == {<<{1}, {}, {1, 2}>>, <<{1, 2}, {}, {1, 2}>>,
             <<{1, 2}, {"vl"}, {1, 2}>>, <<{1, 2}, {"vl"}, {1}>>}

(* The variant inherits from the base. *)
MCProgram ==
    {[parent |-> <<NoExtension, 1>>, supersedes |-> <<{}, {1}>>,
      active |-> p[1], supported |-> {1, 2}, owners |-> {1, 2},
      offers |-> <<{1, 2}, p[3]>>, features |-> p[2], types |-> {1, 2},
      body |-> <<x, y, z>>, free |-> f] :
        p \in Profiles, f \in BOOLEAN,
        x \in Written({{1, 2}}), y \in Written({{1, 2}}), z \in Written({{1}, {1, 2}})}
=============================================================================
