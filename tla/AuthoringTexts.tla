--------------------------- MODULE AuthoringTexts ---------------------------
(* The files of a corpus and what they may say, for the modules about the  *)
(* checks of an authoring workspace.                                       *)
CONSTANTS
    Path,      \* the files of the corpus
    Text,      \* what a file may say
    Parsable,  \* the texts the parser accepts
    Valid,     \* the corpora the catalog builder and validation accept
    None

(* A corpus says what some of the files are. *)
Corpora == UNION {[D -> Text] : D \in SUBSET Path}

(* Only what parses is built and validated. *)
ASSUME TextAssumption ==
    /\ Parsable \subseteq Text
    /\ Valid \subseteq UNION {[D -> Parsable] : D \in SUBSET Path}
    /\ None \notin Text
    /\ None \notin Corpora

(* Beside the paths of new, old keeps only those that still exist. *)
Over(new, old, paths) ==
    [p \in DOMAIN new \cup (DOMAIN old \cap paths) |->
        IF p \in DOMAIN new THEN new[p] ELSE old[p]]

Good(corpus) == [p \in {q \in DOMAIN corpus : corpus[q] \in Parsable} |-> corpus[p]]
=============================================================================
