------------------------------ MODULE LastGood ------------------------------
(***************************************************************************)
(* What the checks of an editor session promise to navigation and          *)
(* completion: of every document the last text that parsed, of the corpus  *)
(* the last catalog that was valid, and an index of the two that is redone *)
(* whenever everything parses.  There is no cache here, no document        *)
(* object, and a check is one step.                                        *)
(***************************************************************************)
EXTENDS AuthoringTexts

VARIABLES
    seen,     \* what a check under way has read, None when it could not
    found,    \* the files there were then
    saved,    \* the same without open documents, None when it did not ask
    catalog,  \* the corpus the typed catalog was built from, or None
    index,    \* that catalog and the texts whose positions it knows, or None
    parsed,   \* of every document, the text it was last parsed from
    clean     \* whether the last check could parse everything

vars == <<seen, found, saved, catalog, index, parsed, clean>>

Indexed(c, texts) == [catalog |-> c, spans |-> texts]

(* Without a catalog, or with a text that does not parse, the index stays. *)
Reindex(c, texts, ok) ==
    IF c # None /\ ok THEN Indexed(c, texts) ELSE index

Init ==
    /\ seen = None /\ found = {} /\ saved = None
    /\ catalog = None
    /\ index = None
    /\ parsed = [p \in {} |-> None]
    /\ clean = FALSE

(* Reading, which may happen at any time. *)
Read ==
    /\ seen' \in Corpora \cup {None}
    /\ found' \in SUBSET Path
    /\ saved' \in Corpora \cup {None}
    /\ UNCHANGED <<catalog, index, parsed, clean>>

(* A check that could read all files. *)
Checked ==
    /\ seen # None /\ saved \notin Valid
    /\ parsed' = Over(Good(seen), parsed, DOMAIN seen)
    /\ clean' = (DOMAIN Good(seen) = DOMAIN seen)
    /\ catalog' = IF seen \in Valid THEN seen ELSE catalog
    /\ index' = Reindex(catalog', parsed', clean')

(* A check that could not: nothing is learned. *)
Unread ==
    /\ seen = None /\ saved \notin Valid
    /\ index' = Reindex(catalog, parsed, clean)
    /\ UNCHANGED <<catalog, parsed, clean>>

(* The first thing to look at, when the buffers are of no use but the      *)
(* saved files are: their catalog, and beside it what of the buffers could *)
(* be parsed.  Of a buffer that could not, the saved text stands in, if    *)
(* there was one when the check began.                                     *)
Seeded ==
    LET texts == Over(Good(seen), saved, found) IN
    /\ seen # None /\ seen \notin Valid /\ saved \in Valid /\ index = None
    /\ catalog' = saved
    /\ index' = Indexed(saved, texts)
    /\ parsed' = Over(texts, parsed, DOMAIN seen)
    /\ clean' = (DOMAIN Good(seen) = DOMAIN seen)

(* The same when the files could be read the second time only; which of    *)
(* the documents before stay is left open.                                 *)
SeededBlindly ==
    /\ seen = None /\ saved \in Valid /\ index = None
    /\ catalog' = saved
    /\ index' = Indexed(saved, saved)
    /\ \E paths \in SUBSET Path : parsed' = Over(saved, parsed, paths)
    /\ clean' = TRUE

Deliver ==
    /\ Checked \/ Unread \/ Seeded \/ SeededBlindly
    /\ seen' = None /\ found' = {} /\ saved' = None

Next == Read \/ Deliver

Spec == Init /\ [][Next]_vars
=============================================================================
