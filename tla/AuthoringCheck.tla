--------------------------- MODULE AuthoringCheck ---------------------------
(***************************************************************************)
(* One check of an authoring workspace from the inside (lsp/workspace.py,  *)
(* authoring.py, catalog_index.py): the files are read, open buffers laid  *)
(* over them, documents parsed unless their digest is known, the catalog   *)
(* built and validated, the index put together from fragments of documents *)
(* that are the same objects as before; when nothing can be shown yet, the *)
(* saved files are checked as well; and the result is merged with what the *)
(* snapshot before it had.  A check holds the check lock throughout and    *)
(* the document lock only when it starts and when it is accepted, so that  *)
(* buffers and files change under it.                                      *)
(*                                                                         *)
(* A text stands for its digest and its version, and for the positions in  *)
(* it; a catalog for the corpus it was built from.  A read of the corpus   *)
(* is one step.                                                            *)
(***************************************************************************)
EXTENDS Naturals, AuthoringTexts

CONSTANTS
    Start,       \* what the files may be when the session starts
    Unreadable,  \* a file that exists but cannot be read as UTF-8
    MaxChanges,  \* bounds what happens to buffers and files
    MaxChecks    \* bounds the checks

Document == [text : Parsable, parse : Nat]

ParsedResult ==
    [documents : UNION {[D -> Document] : D \in SUBSET Path}, clean : BOOLEAN]

CatalogIndex == [catalog : Corpora, spans : Corpora]

ASSUME FileAssumption ==
    /\ Start \subseteq [Path -> Text \cup {None}]
    /\ Unreadable \notin Text /\ Unreadable # None
    /\ None \notin Document
    /\ None \notin ParsedResult
    /\ None \notin CatalogIndex

VARIABLES
    disk,      \* the files: a text, Unreadable, or None where there is none
    buffer,    \* the open documents, None where a file is not open
    changes,
    checks,
    stage,     \* "idle", "check", "baseline" or "accept"
    overlays,  \* the open documents the check took over
    current,   \* whether they are still the open documents
    result,    \* what the check has found so far
    states,    \* ParsedDocumentCache
    fragments, \* CatalogIndexCache
    parses,    \* how often the cache was asked
    latest     \* the last accepted snapshot

files == <<disk, buffer, changes>>
caches == <<states, fragments, parses>>
vars == <<files, checks, stage, overlays, current, result, caches, latest>>

Nothing == [p \in {} |-> None]

NoResult == [seen |-> None, saved |-> None, parsed |-> None, catalog |-> None, index |-> None,
             paths |-> {}, errors |-> {}]

Errors(stop, paths) == {[stop |-> stop, path |-> p] : p \in paths}

Present(content) == {p \in Path : content[p] # None}

(***************************************************************************)
(* Reading and parsing                                                     *)
(***************************************************************************)
Loads == \A p \in Path : disk[p] # Unreadable

(* What the files say, where no buffer says otherwise. *)
Corpus(over) ==
    [p \in Present(disk) \cup Present(over) |->
        IF over[p] # None THEN over[p] ELSE disk[p]]

(* A document is an object: another parse makes another one. *)
Parse(text, n) == IF text \in Parsable THEN [text |-> text, parse |-> n] ELSE None

NewState(text, n) == [digest |-> text, document |-> Parse(text, n)]

(* Mutation of Reuse: documents that are gone keep their entries. *)
ReuseAll(known, corpus, n) ==
    [p \in DOMAIN corpus \cup DOMAIN known |->
        IF p \notin DOMAIN corpus \/ (p \in DOMAIN known /\ known[p].digest = corpus[p])
        THEN known[p] ELSE NewState(corpus[p], n)]

(* Mutation of Reuse: a document that is known is not read again. *)
ReusePath(known, corpus, n) ==
    [p \in DOMAIN corpus |->
        IF p \in DOMAIN known THEN known[p] ELSE NewState(corpus[p], n)]

Reuse(known, corpus, n) ==
    [p \in DOMAIN corpus |->
        IF p \in DOMAIN known /\ known[p].digest = corpus[p]
        THEN known[p] ELSE NewState(corpus[p], n)]

Documents(known) ==
    [p \in {q \in DOMAIN known : known[q].document # None} |-> known[p].document]

Broken(known) == {p \in DOMAIN known : known[p].document = None}

Parsed(known) == [documents |-> Documents(known), clean |-> Broken(known) = {}]

(* The texts documents were parsed from. *)
Texts(documents) == [p \in DOMAIN documents |-> documents[p].text]

TextsOf(p) == IF p = None THEN Nothing ELSE Texts(p.documents)

Promotes(p) == p.clean /\ Texts(p.documents) \in Valid

(***************************************************************************)
(* The index                                                               *)
(***************************************************************************)
(* Mutation of Refragment: documents are compared by their paths. *)
RefragmentPath(known, documents) ==
    [p \in DOMAIN documents |->
        IF p \in DOMAIN known
        THEN known[p]
        ELSE [document |-> documents[p], spans |-> documents[p].text]]

Refragment(known, documents) ==
    [p \in DOMAIN documents |->
        IF p \in DOMAIN known /\ known[p].document = documents[p]
        THEN known[p]
        ELSE [document |-> documents[p], spans |-> documents[p].text]]

Index(catalog, known) ==
    [catalog |-> catalog, spans |-> [p \in DOMAIN known |-> known[p].spans]]

(* Only where the edit failed to parse does the document before stay, if   *)
(* there still is such a file.                                             *)
Merge(now, before, paths) ==
    IF now = None THEN before
    ELSE IF before = None THEN now
    ELSE [documents |-> Over(now.documents, before.documents, paths),
          clean |-> now.clean]

(***************************************************************************)
(* Buffers and files                                                       *)
(***************************************************************************)
Init ==
    /\ disk \in Start
    /\ buffer = [p \in Path |-> None]
    /\ changes = 0 /\ checks = 0 /\ parses = 0
    /\ stage = "idle"
    /\ overlays = buffer
    /\ current = FALSE
    /\ result = NoResult
    /\ states = Nothing
    /\ fragments = Nothing
    /\ latest = [parsed |-> None, catalog |-> None, index |-> None,
                 versions |-> Nothing, errors |-> {}]

Change ==
    /\ changes < MaxChanges
    /\ changes' = changes + 1
    /\ UNCHANGED <<checks, stage, overlays, result, caches, latest>>

(* open, change and close_document *)
Edit(p) ==
    /\ Change
    /\ \E t \in Text \cup {None} : buffer' = [buffer EXCEPT ![p] = t]
    /\ current' = FALSE
    /\ UNCHANGED disk

(* A buffer is saved, or somebody else writes, damages or deletes a file. *)
Write(p) ==
    /\ Change
    /\ \E t \in Text \cup {None, Unreadable} :
        /\ t # disk[p]
        /\ disk' = [disk EXCEPT ![p] = t]
    /\ UNCHANGED <<buffer, current>>

(***************************************************************************)
(* A check                                                                 *)
(***************************************************************************)
Begin ==
    /\ stage = "idle" /\ checks < MaxChecks
    /\ checks' = checks + 1
    /\ stage' = "check"
    /\ overlays' = buffer
    /\ current' = TRUE
    /\ UNCHANGED <<files, result, caches, latest>>

(* The saved files are looked at only for a workspace that has no index.   *)
NextStage(index) ==
    IF index = None /\ latest.index = None /\ Present(overlays) # {}
    THEN "baseline" ELSE "accept"

CheckFails ==
    /\ stage = "check" /\ ~Loads
    /\ result' = [NoResult EXCEPT !.paths = Present(disk),
                    !.errors = Errors("source", {p \in Path : disk[p] = Unreadable})]
    /\ stage' = NextStage(None)
    /\ UNCHANGED <<files, checks, overlays, current, caches, latest>>

CheckCorpus ==
    LET known == Reuse(states, Corpus(overlays), parses)
        now   == Parsed(known)
        ok    == Promotes(now)
    IN
    /\ stage = "check" /\ Loads
    /\ states' = known
    /\ parses' = parses + 1
    /\ fragments' = IF ok THEN Refragment(fragments, now.documents) ELSE fragments
    /\ result' = [seen |-> Corpus(overlays), saved |-> None,
                  parsed |-> now,
                  catalog |-> IF ok THEN Texts(now.documents) ELSE None,
                  index |-> IF ok THEN Index(Texts(now.documents), fragments') ELSE None,
                  paths |-> Present(disk),
                  errors |-> Errors("parse", Broken(known))]
    /\ stage' = NextStage(result'.index)
    /\ UNCHANGED <<files, checks, overlays, current, latest>>

BaselineFails ==
    /\ stage = "baseline" /\ ~Loads
    /\ stage' = "accept"
    /\ UNCHANGED <<files, checks, overlays, current, result, caches, latest>>

Baseline ==
    LET corpus == Corpus([p \in Path |-> None])
        known  == Reuse(states, corpus, parses)
        saved  == Parsed(known)
        merged == Merge(result.parsed, saved, result.paths)
        texts  == Texts(saved.documents)
    IN
    /\ stage = "baseline" /\ Loads
    /\ states' = known
    /\ parses' = parses + 1
    /\ IF Promotes(saved)
       THEN /\ fragments' = Refragment(Refragment(fragments, saved.documents),
                                       merged.documents)
            /\ result' = [result EXCEPT !.saved = corpus, !.parsed = merged,
                                        !.catalog = texts, !.index = Index(texts, fragments')]
       ELSE /\ result' = [result EXCEPT !.saved = corpus]
            /\ UNCHANGED fragments
    /\ stage' = "accept"
    /\ UNCHANGED <<files, checks, overlays, current, latest>>

(* Edited in between: the result is dropped, what the caches learned stays. *)
Superseded ==
    /\ stage = "accept" /\ ~current
    /\ stage' = "idle"
    /\ result' = NoResult
    /\ UNCHANGED <<files, checks, overlays, current, caches, latest>>

Accept ==
    LET catalog == IF result.catalog # None THEN result.catalog ELSE latest.catalog
        merged  == Merge(result.parsed, latest.parsed,
                         result.paths \cup Present(buffer))
        rebuild == /\ result.index = None /\ catalog # None
                   /\ merged # None /\ merged.clean
    IN
    /\ stage = "accept" /\ current
    /\ fragments' = IF rebuild THEN Refragment(fragments, merged.documents) ELSE fragments
    /\ latest' = [catalog |-> catalog,
                  parsed |-> merged,
                  index |-> IF rebuild THEN Index(catalog, fragments')
                            ELSE IF result.index # None THEN result.index
                            ELSE latest.index,
                  versions |-> [p \in Present(buffer) |-> buffer[p]],
                  errors |-> result.errors]
    /\ stage' = "idle"
    /\ result' = NoResult
    /\ UNCHANGED <<files, checks, overlays, current, states, parses>>

Check ==
    \/ Begin
    \/ CheckFails \/ CheckCorpus
    \/ BaselineFails \/ Baseline
    \/ Superseded \/ Accept

Next == Check \/ \E p \in Path : Edit(p) \/ Write(p)

Spec == Init /\ [][Next]_vars
----------------------------------------------------------------------------
(* Where everything parses, the index knows every document it covers by    *)
(* the positions it has in the text that was parsed last, also when only   *)
(* an older catalog is valid, and although its fragments come from a       *)
(* cache that superseded checks have written to.                           *)
SpansFollowTheText ==
    latest.index # None /\ latest.parsed.clean =>
        \A p \in DOMAIN latest.index.spans :
            /\ p \in DOMAIN latest.parsed.documents
            /\ latest.index.spans[p] = latest.parsed.documents[p].text

(* The parsed document that lenses are anchored in is of the very text the *)
(* snapshot vouches for, wherever the last check could read the corpus and *)
(* the document itself has no errors.                                      *)
LensesAreOfTheVersion ==
    (\A e \in latest.errors : e.stop # "source") =>
        \A p \in DOMAIN latest.versions :
            (\A e \in latest.errors : e.path # p) =>
                latest.parsed.documents[p].text = latest.versions[p]

Promised ==
    INSTANCE LastGood WITH
        seen <- result.seen, found <- result.paths, saved <- result.saved,
        catalog <- latest.catalog,
        index <- latest.index,
        parsed <- TextsOf(latest.parsed),
        clean <- latest.parsed # None /\ latest.parsed.clean

(* With caches, document objects and buffers that change meanwhile, a      *)
(* check delivers what one would that starts from nothing.                 *)
ImplementsLastGood == Promised!Spec
=============================================================================
