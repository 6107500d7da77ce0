------------------------ MODULE AuthoringCheckProofs ------------------------
(***************************************************************************)
(* Proofs about AuthoringCheck: for every corpus, whatever happens to its  *)
(* files and buffers, caches and document objects do not show.             *)
(***************************************************************************)
EXTENDS AuthoringCheck, TLAPS

DocumentMap == UNION {[D -> Document] : D \in SUBSET Path}

(* A state is of the text its digest is of. *)
StatesOK(known) ==
    /\ DOMAIN known \subseteq Path
    /\ \A p \in DOMAIN known :
        /\ known[p].digest \in Text
        /\ known[p].digest \in Parsable =>
              known[p].document \in Document /\ known[p].document.text = known[p].digest
        /\ known[p].digest \notin Parsable => known[p].document = None

(* A fragment has the positions of its own document. *)
FragmentsOK(known) ==
    \A p \in DOMAIN known : known[p].spans = known[p].document.text

FilesOK ==
    /\ disk \in [Path -> Text \cup {None, Unreadable}]
    /\ buffer \in [Path -> Text \cup {None}]
    /\ overlays \in [Path -> Text \cup {None}]
    /\ stage \in {"idle", "check", "baseline", "accept"}
    /\ current \in BOOLEAN
    /\ current => overlays = buffer
    /\ parses \in Nat

CachesOK == StatesOK(states) /\ FragmentsOK(fragments)

Problems == SUBSET [stop : {"source", "parse"}, path : Path]

ResultSet ==
    [seen : Corpora \cup {None}, saved : Corpora \cup {None},
     parsed : ParsedResult \cup {None}, catalog : Corpora \cup {None},
     index : CatalogIndex \cup {None}, paths : SUBSET Path, errors : Problems]

SnapshotSet ==
    [parsed : ParsedResult \cup {None}, catalog : Corpora \cup {None},
     index : CatalogIndex \cup {None}, versions : Corpora, errors : Problems]

(* The snapshot, and with it SpansFollowTheText. *)
LatestOK ==
    /\ latest \in SnapshotSet
    /\ latest.index # None => latest.catalog # None /\ latest.parsed # None
    /\ SpansFollowTheText
    /\ LensesAreOfTheVersion

(* What a check that could read the files knows before anything is added   *)
(* from the saved ones.                                                    *)
SeenOK ==
    /\ result.seen \in Corpora
    /\ result.paths \cup Present(overlays) = DOMAIN result.seen
    /\ Present(overlays) \subseteq DOMAIN result.seen
    /\ \A p \in Present(overlays) : result.seen[p] = overlays[p]
    /\ result.errors =
          Errors("parse", {p \in DOMAIN result.seen : result.seen[p] \notin Parsable})
    /\ result.parsed \in ParsedResult
    /\ result.parsed.clean = (DOMAIN Good(result.seen) = DOMAIN result.seen)

UnseenOK ==
    /\ result.seen = None
    /\ result.paths \subseteq Path
    /\ \E e \in result.errors : e.stop = "source"

(* Nothing was taken from the saved files. *)
OwnOK ==
    /\ SeenOK => Texts(result.parsed.documents) = Good(result.seen)
    /\ UnseenOK => result.parsed = None
    /\ result.catalog = IF result.seen \in Valid THEN result.seen ELSE None
    /\ result.index = IF result.seen \in Valid
                      THEN [catalog |-> result.seen, spans |-> result.seen] ELSE None

(* They were. *)
SeededOK ==
    /\ latest.index = None
    /\ result.seen \notin Valid
    /\ result.saved \in Valid
    /\ result.catalog = result.saved
    /\ result.parsed \in ParsedResult
    /\ result.index = [catalog |-> result.saved,
                       spans |-> Texts(result.parsed.documents)]
    /\ SeenOK => Texts(result.parsed.documents) =
                    Over(Good(result.seen), result.saved, result.paths)
    /\ UnseenOK => /\ Texts(result.parsed.documents) = result.saved
                   /\ result.parsed.clean = TRUE

ResultOK ==
    /\ result \in ResultSet
    /\ stage \in {"idle", "check"} => result = NoResult
    /\ stage \in {"baseline", "accept"} => SeenOK \/ UnseenOK
    /\ stage = "baseline" => /\ latest.index = None /\ result.saved = None
                             /\ result.seen \notin Valid /\ OwnOK
    /\ stage = "accept" => \/ result.saved \notin Valid /\ OwnOK
                           \/ SeededOK

IInv == FilesOK /\ CachesOK /\ LatestOK /\ ResultOK
----------------------------------------------------------------------------
(* Facts about the operators.                                              *)

LEMMA ValidIsGood ==
    ASSUME NEW c \in Valid
    PROVE  c \in Corpora /\ Good(c) = c /\ c # None
<1>1. PICK D \in SUBSET Path : c \in [D -> Parsable]
    BY TextAssumption
<1>2. c \in [D -> Text]
    BY <1>1, TextAssumption
<1>3. c \in Corpora
    BY <1>2 DEF Corpora
<1>4. {q \in DOMAIN c : c[q] \in Parsable} = D
    BY <1>1
<1>5. Good(c) = c
    BY <1>1, <1>4 DEF Good
<1> QED
    BY <1>3, <1>5, TextAssumption

LEMMA GoodIsCorpus ==
    ASSUME NEW c \in Corpora
    PROVE  /\ Good(c) \in Corpora
           /\ DOMAIN c \in SUBSET Path
           /\ DOMAIN Good(c) = {q \in DOMAIN c : c[q] \in Parsable}
           /\ DOMAIN Good(c) = DOMAIN c => Good(c) = c
<1>1. PICK D \in SUBSET Path : c \in [D -> Text]
    BY DEF Corpora
<1> DEFINE G == {q \in DOMAIN c : c[q] \in Parsable}
<1>2. Good(c) \in [G -> Text] /\ G \in SUBSET Path
    BY <1>1 DEF Good
<1>3. Good(c) \in Corpora
    BY <1>2 DEF Corpora
<1>4. DOMAIN Good(c) = G
    BY DEF Good
<1>5. G = DOMAIN c => Good(c) = c
    BY <1>1 DEF Good
<1> QED
    BY <1>1, <1>3, <1>4, <1>5

LEMMA OverIsCorpus ==
    ASSUME NEW c \in Corpora, NEW d \in Corpora, NEW S \in SUBSET Path
    PROVE  Over(c, d, S) \in Corpora
<1>1. PICK C \in SUBSET Path : c \in [C -> Text]
    BY DEF Corpora
<1>2. PICK D \in SUBSET Path : d \in [D -> Text]
    BY DEF Corpora
<1>3. Over(c, d, S) \in [C \cup (D \cap S) -> Text]
    BY <1>1, <1>2 DEF Over
<1> QED
    BY <1>3 DEF Corpora

LEMMA TextsOfDocuments ==
    ASSUME NEW d \in DocumentMap
    PROVE  /\ Texts(d) \in Corpora
           /\ DOMAIN Texts(d) = DOMAIN d
           /\ \A p \in DOMAIN d : Texts(d)[p] = d[p].text
<1>1. PICK D \in SUBSET Path : d \in [D -> Document]
    BY DEF DocumentMap
<1>2. Texts(d) \in [D -> Text]
    BY <1>1, TextAssumption DEF Texts, Document
<1>3. Texts(d) \in Corpora
    BY <1>2 DEF Corpora
<1> QED
    BY <1>3 DEF Texts

(* Merging documents merges their texts. *)
LEMMA TextsOfOver ==
    ASSUME NEW d \in DocumentMap, NEW e \in DocumentMap, NEW S \in SUBSET Path
    PROVE  /\ Over(d, e, S) \in DocumentMap
           /\ Texts(Over(d, e, S)) = Over(Texts(d), Texts(e), S)
<1>1. PICK D \in SUBSET Path : d \in [D -> Document]
    BY DEF DocumentMap
<1>2. PICK E \in SUBSET Path : e \in [E -> Document]
    BY DEF DocumentMap
<1>3. Over(d, e, S) \in [D \cup (E \cap S) -> Document]
    BY <1>1, <1>2 DEF Over
<1>4. Over(d, e, S) \in DocumentMap
    BY <1>3 DEF DocumentMap
<1>5. Texts(Over(d, e, S)) = [p \in D \cup (E \cap S) |-> Over(d, e, S)[p].text]
    BY <1>3 DEF Texts
<1>6. Over(Texts(d), Texts(e), S) =
        [p \in D \cup (E \cap S) |-> IF p \in D THEN d[p].text ELSE e[p].text]
    BY <1>1, <1>2 DEF Over, Texts
<1>7. \A p \in D \cup (E \cap S) :
        Over(d, e, S)[p].text = IF p \in D THEN d[p].text ELSE e[p].text
    BY <1>1, <1>2 DEF Over
<1> QED
    BY <1>4, <1>5, <1>6, <1>7

(* Whatever the cache knew, it answers for the texts it is asked about.    *)
LEMMA ReuseIsFresh ==
    ASSUME StatesOK(states), parses \in Nat, NEW c \in Corpora
    PROVE  LET known == Reuse(states, c, parses) IN
           /\ StatesOK(known)
           /\ DOMAIN known = DOMAIN c
           /\ \A p \in DOMAIN c : known[p].digest = c[p]
<1> DEFINE known == Reuse(states, c, parses)
<1>1. DOMAIN known = DOMAIN c /\ DOMAIN c \subseteq Path
    BY GoodIsCorpus DEF Reuse
<1>2. \A p \in DOMAIN c : c[p] \in Text
    BY DEF Corpora
<1>3. ASSUME NEW p \in DOMAIN c
      PROVE  /\ known[p].digest = c[p]
             /\ c[p] \in Parsable =>
                   known[p].document \in Document /\ known[p].document.text = c[p]
             /\ c[p] \notin Parsable => known[p].document = None
  <2>1. CASE p \in DOMAIN states /\ states[p].digest = c[p]
    <3>1. known[p] = states[p]
        BY <2>1 DEF Reuse
    <3> QED
        BY <2>1, <3>1 DEF StatesOK
  <2>2. CASE ~ (p \in DOMAIN states /\ states[p].digest = c[p])
    <3>1. known[p] = NewState(c[p], parses)
        BY <2>2 DEF Reuse
    <3> QED
        BY <3>1 DEF NewState, Parse, Document
  <2> QED
    BY <2>1, <2>2
<1>4. StatesOK(known)
    BY <1>1, <1>2, <1>3 DEF StatesOK
<1> QED
    BY <1>1, <1>3, <1>4

(* And what it answers is the good part of the corpus. *)
LEMMA ParsedIsGood ==
    ASSUME StatesOK(states), parses \in Nat, NEW c \in Corpora
    PROVE  LET known == Reuse(states, c, parses)
               now   == Parsed(known) IN
           /\ now \in ParsedResult
           /\ Texts(now.documents) = Good(c)
           /\ now.clean = (DOMAIN Good(c) = DOMAIN c)
           /\ Broken(known) = {p \in DOMAIN c : c[p] \notin Parsable}
           /\ Promotes(now) = (c \in Valid)
<1> DEFINE known == Reuse(states, c, parses)
           now == Parsed(known)
           G == {p \in DOMAIN c : c[p] \in Parsable}
<1>1. /\ StatesOK(known)
      /\ DOMAIN known = DOMAIN c
      /\ \A p \in DOMAIN c : known[p].digest = c[p]
    BY ReuseIsFresh
<1> HIDE DEF known
<1>2. \A p \in DOMAIN c :
        /\ p \in G => known[p].document \in Document /\ known[p].document.text = c[p]
        /\ p \notin G => known[p].document = None
    BY <1>1 DEF StatesOK
<1>3. \A p \in DOMAIN c : known[p].document # None <=> p \in G
    BY <1>2, FileAssumption
<1>4. {q \in DOMAIN known : known[q].document # None} = G
    BY <1>1, <1>3
<1>5. Documents(known) = [p \in G |-> known[p].document]
    BY <1>4 DEF Documents
<1>6. G \in SUBSET Path
    BY GoodIsCorpus
<1>7. Documents(known) \in [G -> Document]
    BY <1>2, <1>5
<1>8. Documents(known) \in DocumentMap
    BY <1>6, <1>7 DEF DocumentMap
<1>9. now \in ParsedResult
    BY <1>8 DEF Parsed, ParsedResult, DocumentMap
<1>10. Texts(now.documents) = Good(c)
    BY <1>2, <1>5, <1>7 DEF Parsed, Texts, Good
<1>11. Broken(known) = {p \in DOMAIN c : c[p] \notin Parsable}
    BY <1>1, <1>3 DEF Broken
<1>12. now.clean = (DOMAIN Good(c) = DOMAIN c)
    BY <1>11, GoodIsCorpus DEF Parsed
<1>13. Promotes(now) = (c \in Valid)
  <2>1. ASSUME c \in Valid PROVE Promotes(now)
    BY <2>1, <1>10, <1>12, ValidIsGood DEF Promotes
  <2>2. ASSUME Promotes(now) PROVE c \in Valid
    BY <2>2, <1>10, <1>12, GoodIsCorpus DEF Promotes
  <2> QED
    BY <2>1, <2>2 DEF Promotes
<1> QED
    BY <1>9, <1>10, <1>11, <1>12, <1>13 DEF known

(* Fragments taken from the cache know the positions of the documents they *)
(* are taken for.                                                          *)
LEMMA IndexIsOfTexts ==
    ASSUME NEW known, FragmentsOK(known), NEW d \in DocumentMap, NEW c
    PROVE  /\ FragmentsOK(Refragment(known, d))
           /\ Index(c, Refragment(known, d)) = [catalog |-> c, spans |-> Texts(d)]
<1> DEFINE f == Refragment(known, d)
<1>1. DOMAIN f = DOMAIN d
    BY DEF Refragment
<1>2. \A p \in DOMAIN d : f[p].document = d[p] /\ f[p].spans = d[p].text
    BY DEF Refragment, FragmentsOK
<1> HIDE DEF f
<1>3. FragmentsOK(f)
    BY <1>1, <1>2 DEF FragmentsOK
<1>4. [p \in DOMAIN f |-> f[p].spans] = Texts(d)
    BY <1>1, <1>2 DEF Texts
<1>5. Index(c, f) = [catalog |-> c, spans |-> Texts(d)]
    BY <1>4 DEF Index
<1> QED
    BY <1>3, <1>5 DEF f

LEMMA OverOfSame ==
    ASSUME NEW c \in Corpora, NEW d
    PROVE  Over(c, d, DOMAIN c) = c
<1>1. PICK C \in SUBSET Path : c \in [C -> Text]
    BY DEF Corpora
<1>2. DOMAIN c \cup (DOMAIN d \cap DOMAIN c) = C
    BY <1>1
<1>3. Over(c, d, DOMAIN c) = [p \in C |-> c[p]]
    BY <1>1, <1>2 DEF Over
<1> QED
    BY <1>1, <1>3

LEMMA OverNothing ==
    ASSUME NEW c \in Corpora, NEW S
    PROVE  Over(c, Nothing, S) = c
<1>1. PICK C \in SUBSET Path : c \in [C -> Text]
    BY DEF Corpora
<1>2. DOMAIN c \cup (DOMAIN Nothing \cap S) = C
    BY <1>1 DEF Nothing
<1>3. Over(c, Nothing, S) = [p \in C |-> c[p]]
    BY <1>1, <1>2 DEF Over
<1> QED
    BY <1>1, <1>3

LEMMA NothingIsCorpus == Nothing \in Corpora
<1>1. Nothing \in [{} -> Text]
    BY DEF Nothing
<1> QED
    BY <1>1 DEF Corpora

LEMMA ParsedHasTexts ==
    ASSUME NEW r \in ParsedResult
    PROVE  /\ r.documents \in DocumentMap /\ r.clean \in BOOLEAN
           /\ r # None /\ TextsOf(r) = Texts(r.documents)
           /\ Texts(r.documents) \in Corpora
<1>1. r.documents \in DocumentMap /\ r.clean \in BOOLEAN
    BY DEF ParsedResult, DocumentMap
<1>2. r # None
    BY FileAssumption
<1> QED
    BY <1>1, <1>2, TextsOfDocuments DEF TextsOf

LEMMA MergeOfTexts ==
    ASSUME NEW r \in ParsedResult, NEW l \in ParsedResult \cup {None},
           NEW S \in SUBSET Path
    PROVE  /\ Merge(r, l, S) \in ParsedResult
           /\ Merge(r, l, S).clean = r.clean
           /\ TextsOf(Merge(r, l, S)) = Over(TextsOf(r), TextsOf(l), S)
<1>1. CASE l = None
  <2>1. Merge(r, l, S) = r
    BY <1>1, ParsedHasTexts DEF Merge
  <2>2. TextsOf(l) = Nothing
    BY <1>1 DEF TextsOf
  <2> QED
    BY <2>1, <2>2, OverNothing, ParsedHasTexts
<1>2. CASE l # None
  <2> DEFINE m == [documents |-> Over(r.documents, l.documents, S), clean |-> r.clean]
  <2>1. Merge(r, l, S) = m
    BY <1>2, ParsedHasTexts DEF Merge
  <2>2. r.documents \in DocumentMap /\ l.documents \in DocumentMap /\ r.clean \in BOOLEAN
    BY <1>2, ParsedHasTexts
  <2>3. /\ m.documents \in DocumentMap
        /\ Texts(m.documents) = Over(Texts(r.documents), Texts(l.documents), S)
    BY <2>2, TextsOfOver
  <2>4. m \in ParsedResult
    BY <2>2, <2>3 DEF ParsedResult, DocumentMap
  <2>5. /\ TextsOf(m) = Texts(m.documents)
        /\ TextsOf(r) = Texts(r.documents)
        /\ TextsOf(l) = Texts(l.documents)
    BY <1>2, <2>4, ParsedHasTexts
  <2> HIDE DEF m
  <2> QED
    BY <2>1, <2>3, <2>4, <2>5 DEF m
<1> QED
    BY <1>1, <1>2

LEMMA IndexedIsIndex ==
    ASSUME NEW c \in Corpora, NEW d \in Corpora
    PROVE  /\ [catalog |-> c, spans |-> d] \in CatalogIndex
           /\ [catalog |-> c, spans |-> d] # None
    BY FileAssumption DEF CatalogIndex

(* What the files say is a corpus, and the open documents have the last    *)
(* word in it.                                                             *)
LEMMA CorpusIsCorpus ==
    ASSUME FilesOK, Loads, NEW over \in [Path -> Text \cup {None}]
    PROVE  /\ Corpus(over) \in Corpora
           /\ DOMAIN Corpus(over) = Present(disk) \cup Present(over)
           /\ Present(over) \subseteq DOMAIN Corpus(over)
           /\ \A p \in Present(over) : Corpus(over)[p] = over[p]
<1> DEFINE D == Present(disk) \cup Present(over)
<1>1. D \in SUBSET Path
    BY DEF Present
<1>2. \A p \in D : (IF over[p] # None THEN over[p] ELSE disk[p]) \in Text
    BY DEF FilesOK, Loads, Present
<1>3. Corpus(over) \in [D -> Text]
    BY <1>2 DEF Corpus
<1>4. \A p \in Present(over) : Corpus(over)[p] = over[p]
    BY DEF Corpus, Present
<1> QED
    BY <1>1, <1>3, <1>4 DEF Corpora
----------------------------------------------------------------------------
(* The invariant.                                                          *)

LEMMA NoResultOK ==
    ASSUME result = NoResult
    PROVE  result \in ResultSet /\ result.seen = None /\ result.saved = None
    BY DEF NoResult, ResultSet, Problems

LEMMA InitOK == Init => IInv
<1> SUFFICES ASSUME Init PROVE IInv
    OBVIOUS
<1>1. disk \in [Path -> Text \cup {None, Unreadable}]
    BY FileAssumption DEF Init
<1>2. FilesOK
    BY <1>1 DEF Init, FilesOK
<1>3. CachesOK
    BY DEF Init, CachesOK, StatesOK, FragmentsOK, Nothing
<1>4. latest \in SnapshotSet
    BY NothingIsCorpus DEF Init, SnapshotSet, Problems
<1>5. LatestOK
    BY <1>4 DEF Init, LatestOK, SpansFollowTheText, LensesAreOfTheVersion, Nothing
<1>6. ResultOK
    BY NoResultOK DEF Init, ResultOK, NoResult
<1> QED
    BY <1>2, <1>3, <1>5, <1>6 DEF IInv

(* What is said of a check speaks of nothing outside it but the snapshot.  *)
LEMMA ResultKept ==
    ASSUME ResultOK, UNCHANGED <<result, stage, overlays, latest>>
    PROVE  ResultOK'
    BY DEF ResultOK, SeenOK, UnseenOK, OwnOK, SeededOK, Present

LEMMA LatestKept ==
    ASSUME LatestOK, UNCHANGED latest
    PROVE  LatestOK'
    BY DEF LatestOK, SpansFollowTheText, LensesAreOfTheVersion

LEMMA CachesKept ==
    ASSUME CachesOK, UNCHANGED caches
    PROVE  CachesOK'
    BY DEF CachesOK, StatesOK, FragmentsOK, caches

LEMMA EditOK ==
    ASSUME IInv, NEW p \in Path, Edit(p)
    PROVE  IInv'
<1>1. FilesOK'
    BY DEF IInv, FilesOK, Edit, Change, caches
<1> QED
    BY <1>1, ResultKept, LatestKept, CachesKept DEF IInv, Edit, Change, caches

LEMMA WriteOK ==
    ASSUME IInv, NEW p \in Path, Write(p)
    PROVE  IInv'
<1>1. FilesOK'
    BY DEF IInv, FilesOK, Write, Change, caches
<1> QED
    BY <1>1, ResultKept, LatestKept, CachesKept DEF IInv, Write, Change, caches

LEMMA BeginOK ==
    ASSUME IInv, Begin
    PROVE  IInv'
<1>1. FilesOK'
    BY DEF IInv, FilesOK, Begin, files, caches
<1>2. result' = NoResult /\ result' \in ResultSet /\ stage' = "check"
      /\ UNCHANGED result
    BY DEF IInv, ResultOK, Begin
<1>3. ResultOK'
    BY <1>2 DEF ResultOK, NoResult
<1> QED
    BY <1>1, <1>3, LatestKept, CachesKept DEF IInv, Begin

LEMMA CheckFailsOK ==
    ASSUME IInv, CheckFails
    PROVE  IInv'
<1>1. FilesOK'
    BY DEF IInv, FilesOK, CheckFails, NextStage, files, caches
<1> DEFINE E == Errors("source", {p \in Path : disk[p] = Unreadable})
<1>2. PICK p \in Path : disk[p] = Unreadable
    BY DEF CheckFails, Loads
<1>3. [stop |-> "source", path |-> p] \in E /\ E \in Problems
    BY <1>2 DEF Errors, Problems
<1>4. \E e \in E : e.stop = "source"
    BY <1>3
<1>5. result' = [seen |-> None, saved |-> None, parsed |-> None, catalog |-> None,
                 index |-> None, paths |-> Present(disk), errors |-> E]
    BY DEF CheckFails, NoResult
<1>6. Present(disk) \in SUBSET Path
    BY DEF Present
<1> HIDE DEF E
<1>7. result' \in ResultSet
    BY <1>3, <1>5, <1>6 DEF ResultSet
<1>8. UnseenOK'
    BY <1>4, <1>5, <1>6 DEF UnseenOK
<1>9. None \notin Valid /\ None \notin Corpora
    BY ValidIsGood, TextAssumption
<1>10. OwnOK' /\ ~SeenOK'
    BY <1>5, <1>9 DEF OwnOK, SeenOK
<1>11. stage' = NextStage(None) /\ UNCHANGED latest
    BY DEF CheckFails
<1>12. stage' \in {"baseline", "accept"} /\ (stage' = "baseline" => latest.index = None)
    BY <1>11 DEF NextStage
<1>13. /\ result'.seen = None /\ result'.saved = None
       /\ stage' = "baseline" => latest'.index = None
    BY <1>5, <1>11, <1>12
<1>14. ResultOK'
    BY <1>7, <1>8, <1>9, <1>10, <1>12, <1>13 DEF ResultOK
<1> QED
    BY <1>1, <1>14, LatestKept, CachesKept DEF IInv, CheckFails

LEMMA CheckCorpusOK ==
    ASSUME IInv, CheckCorpus
    PROVE  IInv' /\ result'.seen \in Corpora /\ result'.saved = None
<1> DEFINE c == Corpus(overlays)
           known == Reuse(states, c, parses)
           now == Parsed(known)
           ok == Promotes(now)
           E == Errors("parse", Broken(known))
<1>1. c \in Corpora /\ DOMAIN c = Present(disk) \cup Present(overlays)
      /\ Present(overlays) \subseteq DOMAIN c
      /\ (\A p \in Present(overlays) : c[p] = overlays[p])
    BY CorpusIsCorpus DEF IInv, FilesOK, CheckCorpus
<1>2. StatesOK(states) /\ FragmentsOK(fragments) /\ parses \in Nat
    BY DEF IInv, CachesOK, FilesOK
<1> HIDE DEF c
<1>3. StatesOK(known) /\ DOMAIN known = DOMAIN c
    BY <1>1, <1>2, ReuseIsFresh
<1>4. /\ now \in ParsedResult
      /\ Texts(now.documents) = Good(c)
      /\ now.clean = (DOMAIN Good(c) = DOMAIN c)
      /\ Broken(known) = {p \in DOMAIN c : c[p] \notin Parsable}
      /\ ok = (c \in Valid)
    BY <1>1, <1>2, ParsedIsGood
<1>5. /\ states' = known /\ parses' = parses + 1
      /\ fragments' = IF ok THEN Refragment(fragments, now.documents) ELSE fragments
      /\ result' = [seen |-> c, saved |-> None, parsed |-> now,
                    catalog |-> IF ok THEN Texts(now.documents) ELSE None,
                    index |-> IF ok THEN Index(Texts(now.documents), fragments') ELSE None,
                    paths |-> Present(disk), errors |-> E]
      /\ stage' = NextStage(result'.index)
      /\ UNCHANGED <<files, checks, overlays, current, latest>>
    BY DEF CheckCorpus, c
<1> HIDE DEF known, now, ok
<1>6. FilesOK'
    BY <1>5 DEF IInv, FilesOK, NextStage, files
<1>7. now.documents \in DocumentMap
    BY <1>4, ParsedHasTexts
<1>8. /\ FragmentsOK(Refragment(fragments, now.documents))
      /\ Index(Texts(now.documents), Refragment(fragments, now.documents))
            = [catalog |-> Texts(now.documents), spans |-> Texts(now.documents)]
    BY <1>2, <1>7, IndexIsOfTexts
<1>9. FragmentsOK(fragments')
    BY <1>2, <1>5, <1>8
<1>10. CachesOK'
    BY <1>3, <1>5, <1>9 DEF CachesOK, StatesOK, FragmentsOK
<1>11. c \in Valid => Good(c) = c
    BY ValidIsGood
<1>12. /\ result'.catalog = IF c \in Valid THEN c ELSE None
       /\ result'.index = IF c \in Valid THEN [catalog |-> c, spans |-> c] ELSE None
    BY <1>4, <1>5, <1>8, <1>11
<1>13. E \in Problems /\ Present(disk) \in SUBSET Path
  <2>1. DOMAIN c \in SUBSET Path /\ Broken(known) \subseteq DOMAIN c
    BY <1>1, <1>4, GoodIsCorpus
  <2>2. \A p \in Broken(known) :
            [stop |-> "parse", path |-> p] \in [stop : {"source", "parse"}, path : Path]
    BY <2>1
  <2> QED
    BY <2>1, <2>2 DEF Errors, Problems, Present
<1>14. result'.catalog \in Corpora \cup {None} /\ result'.index \in CatalogIndex \cup {None}
    BY <1>1, <1>12, IndexedIsIndex
<1>15. result' \in ResultSet
    BY <1>1, <1>4, <1>5, <1>13, <1>14 DEF ResultSet
<1>16. result'.errors = Errors("parse", {p \in DOMAIN c : c[p] \notin Parsable})
    BY <1>4, <1>5
<1>17. SeenOK'
    BY <1>1, <1>3, <1>4, <1>5, <1>16 DEF SeenOK, Present
<1>18. c # None /\ None \notin Valid
    BY <1>1, TextAssumption, ValidIsGood
<1>19. OwnOK'
    BY <1>4, <1>5, <1>12, <1>18 DEF OwnOK, UnseenOK
<1>20. c \in Valid => result'.index # None
    BY <1>1, <1>12, IndexedIsIndex
<1>21. stage' = "baseline" => c \notin Valid /\ latest'.index = None
    BY <1>5, <1>20 DEF NextStage
<1>22. ResultOK'
    BY <1>5, <1>15, <1>17, <1>18, <1>19, <1>21 DEF ResultOK, NextStage
<1> QED
    BY <1>1, <1>5, <1>6, <1>10, <1>22, LatestKept DEF IInv

LEMMA BaselineFailsOK ==
    ASSUME IInv, BaselineFails
    PROVE  IInv'
<1>1. FilesOK'
    BY DEF IInv, FilesOK, BaselineFails, files, caches
<1>2. None \notin Valid
    BY ValidIsGood
<1>3. ResultOK'
    BY <1>2 DEF IInv, ResultOK, BaselineFails, SeenOK, UnseenOK, OwnOK, Present
<1> QED
    BY <1>1, <1>3, LatestKept, CachesKept DEF IInv, BaselineFails

LEMMA SupersededOK ==
    ASSUME IInv, Superseded
    PROVE  IInv'
<1>1. FilesOK'
    BY DEF IInv, FilesOK, Superseded, files, caches
<1>2. result' = NoResult /\ NoResult \in ResultSet /\ stage' = "idle"
    BY DEF Superseded, NoResult, ResultSet, Problems
<1>3. ResultOK'
    BY <1>2 DEF ResultOK, NoResult
<1> QED
    BY <1>1, <1>3, LatestKept, CachesKept DEF IInv, Superseded

LEMMA BaselineOK ==
    ASSUME IInv, Baseline
    PROVE  IInv' /\ result'.saved \in Corpora /\ result'.seen = result.seen
<1> DEFINE c == Corpus([p \in Path |-> None])
           known == Reuse(states, c, parses)
           saved == Parsed(known)
           texts == Texts(saved.documents)
           merged == Merge(result.parsed, saved, result.paths)
           first == Refragment(fragments, saved.documents)
<1>1. c \in Corpora
  <2>1. [p \in Path |-> None] \in [Path -> Text \cup {None}]
    OBVIOUS
  <2> QED
    BY <2>1, CorpusIsCorpus DEF IInv, Baseline
<1>2. StatesOK(states) /\ FragmentsOK(fragments) /\ parses \in Nat
    BY DEF IInv, CachesOK, FilesOK
<1>3. /\ result \in ResultSet /\ OwnOK /\ (SeenOK \/ UnseenOK)
      /\ latest.index = None /\ result.seen \notin Valid
    BY DEF IInv, ResultOK, Baseline
<1> HIDE DEF c
<1>4. StatesOK(known)
    BY <1>1, <1>2, ReuseIsFresh
<1>5. /\ saved \in ParsedResult
      /\ texts = Good(c)
      /\ saved.clean = (DOMAIN Good(c) = DOMAIN c)
      /\ Promotes(saved) = (c \in Valid)
    BY <1>1, <1>2, ParsedIsGood
<1>6. /\ states' = known /\ parses' = parses + 1 /\ stage' = "accept"
      /\ IF Promotes(saved)
         THEN /\ fragments' = Refragment(first, merged.documents)
              /\ result' = [result EXCEPT !.saved = c, !.parsed = merged,
                                          !.catalog = texts, !.index = Index(texts, fragments')]
         ELSE result' = [result EXCEPT !.saved = c] /\ UNCHANGED fragments
      /\ UNCHANGED <<files, checks, overlays, current, latest>>
    BY DEF Baseline, c
<1> HIDE DEF known, saved
<1>7. FilesOK'
    BY <1>6 DEF IInv, FilesOK, files
<1>8. CASE c \notin Valid
  <2>1. result' = [result EXCEPT !.saved = c] /\ fragments' = fragments
    BY <1>5, <1>6, <1>8
  <2>2. CachesOK'
    BY <1>2, <1>4, <1>6, <2>1 DEF CachesOK, StatesOK, FragmentsOK
  <2>3. /\ result' \in ResultSet /\ result'.saved = c
        /\ result'.seen = result.seen /\ result'.parsed = result.parsed
        /\ result'.catalog = result.catalog /\ result'.index = result.index
        /\ result'.paths = result.paths /\ result'.errors = result.errors
    BY <1>1, <1>3, <2>1 DEF ResultSet
  <2>4. OwnOK' /\ (SeenOK' \/ UnseenOK')
    BY <1>3, <1>6, <2>3 DEF OwnOK, SeenOK, UnseenOK, Present
  <2>5. ResultOK'
    BY <1>6, <1>8, <2>3, <2>4 DEF ResultOK
  <2> QED
    BY <1>1, <1>6, <1>7, <2>2, <2>3, <2>5, LatestKept DEF IInv
<1>9. CASE c \in Valid
  <2>1. texts = c /\ saved.clean = TRUE
    BY <1>5, <1>9, ValidIsGood
  <2>2. result.parsed \in ParsedResult \cup {None} /\ result.paths \in SUBSET Path
    BY <1>3 DEF ResultSet
  <2>3. merged \in ParsedResult
    <3>1. CASE result.parsed = None
      BY <1>5, <3>1 DEF Merge
    <3>2. CASE result.parsed # None
      BY <1>5, <2>2, <3>2, MergeOfTexts
    <3> QED
      BY <3>1, <3>2
  <2>4. merged.documents \in DocumentMap /\ saved.documents \in DocumentMap
    BY <1>5, <2>3, ParsedHasTexts
  <2>5. FragmentsOK(first)
    BY <1>2, <2>4, IndexIsOfTexts
  <2> HIDE DEF first, merged, texts
  <2>6. /\ fragments' = Refragment(first, merged.documents)
        /\ result' = [result EXCEPT !.saved = c, !.parsed = merged,
                                    !.catalog = texts, !.index = Index(texts, fragments')]
    BY <1>5, <1>6, <1>9 DEF first, merged, texts
  <2>7. /\ FragmentsOK(fragments')
        /\ Index(texts, fragments') = [catalog |-> c, spans |-> Texts(merged.documents)]
    BY <2>1, <2>4, <2>5, <2>6, IndexIsOfTexts
  <2>8. CachesOK'
    BY <1>4, <1>6, <2>7 DEF CachesOK, StatesOK, FragmentsOK
  <2>9. Index(texts, fragments') \in CatalogIndex
    BY <1>1, <2>3, <2>7, ParsedHasTexts, IndexedIsIndex
  <2>10. /\ result' \in ResultSet /\ result'.saved = c /\ result'.catalog = c
         /\ result'.parsed = merged /\ result'.index = Index(texts, fragments')
         /\ result'.seen = result.seen
         /\ result'.paths = result.paths /\ result'.errors = result.errors
    BY <1>1, <1>3, <2>1, <2>3, <2>6, <2>9 DEF ResultSet
  <2>11. SeenOK =>
            /\ merged.clean = result.parsed.clean
            /\ Texts(merged.documents) = Over(Good(result.seen), c, result.paths)
    <3> SUFFICES ASSUME SeenOK
                 PROVE  /\ merged.clean = result.parsed.clean
                        /\ Texts(merged.documents)
                              = Over(Good(result.seen), c, result.paths)
        OBVIOUS
    <3>1. result.parsed \in ParsedResult
          /\ Texts(result.parsed.documents) = Good(result.seen)
        BY <1>3 DEF SeenOK, OwnOK
    <3>2. /\ merged.clean = result.parsed.clean
          /\ TextsOf(merged) = Over(TextsOf(result.parsed), TextsOf(saved), result.paths)
        BY <1>5, <2>2, <3>1, MergeOfTexts DEF merged
    <3>3. /\ TextsOf(merged) = Texts(merged.documents)
          /\ TextsOf(result.parsed) = Good(result.seen) /\ TextsOf(saved) = c
        BY <1>5, <2>1, <2>3, <3>1, ParsedHasTexts DEF texts
    <3> QED
        BY <3>1, <3>2, <3>3
  <2>12. UnseenOK => /\ Texts(merged.documents) = c /\ merged.clean = TRUE
    BY <1>3, <2>1 DEF OwnOK, Merge, merged, texts
  <2>13. /\ SeenOK' => SeenOK /\ Texts(merged.documents)
                                 = Over(Good(result.seen), c, result.paths)
         /\ UnseenOK' => UnseenOK
         /\ SeenOK' \/ UnseenOK'
    <3>1. CASE SeenOK
      <4>1. SeenOK'
        BY <1>6, <2>3, <2>10, <2>11, <3>1 DEF SeenOK, Present
      <4>2. ~UnseenOK'
        BY <2>10, <3>1, TextAssumption DEF SeenOK, UnseenOK
      <4> QED
        BY <2>11, <3>1, <4>1, <4>2
    <3>2. CASE UnseenOK
      <4>1. UnseenOK'
        BY <2>10, <3>2 DEF UnseenOK
      <4>2. ~SeenOK'
        BY <2>10, <3>2, TextAssumption DEF SeenOK, UnseenOK
      <4> QED
        BY <3>2, <4>1, <4>2
    <3> QED
      BY <1>3, <3>1, <3>2
  <2>14. SeededOK'
    BY <1>3, <1>6, <1>9, <2>3, <2>7, <2>10, <2>12, <2>13 DEF SeededOK
  <2>15. ResultOK'
    BY <1>1, <1>6, <2>10, <2>13, <2>14 DEF ResultOK
  <2> QED
    BY <1>1, <1>6, <1>7, <2>8, <2>10, <2>15, LatestKept DEF IInv
<1> QED
    BY <1>8, <1>9

(* An accepted snapshot, with the caches out of the way.                   *)
Taken == IF result.catalog # None THEN result.catalog ELSE latest.catalog
Kept == Merge(result.parsed, latest.parsed, result.paths \cup Present(buffer))
Rebuilt == result.index = None /\ Taken # None /\ Kept # None /\ Kept.clean

LEMMA AcceptFacts ==
    ASSUME IInv, Accept
    PROVE  /\ Taken \in Corpora \cup {None}
           /\ Kept \in ParsedResult \cup {None}
           /\ FragmentsOK(fragments')
           /\ latest'.catalog = Taken /\ latest'.parsed = Kept
           /\ latest'.index = IF Rebuilt
                              THEN [catalog |-> Taken, spans |-> TextsOf(Kept)]
                              ELSE IF result.index # None THEN result.index
                              ELSE latest.index
           /\ latest'.errors = result.errors
           /\ latest'.versions = [p \in Present(buffer) |-> buffer[p]]
           /\ latest' \in SnapshotSet
<1>1. result \in ResultSet /\ latest \in SnapshotSet /\ FragmentsOK(fragments)
      /\ buffer \in [Path -> Text \cup {None}]
    BY DEF IInv, ResultOK, LatestOK, CachesOK, FilesOK
<1>2. Taken \in Corpora \cup {None}
    BY <1>1 DEF Taken, ResultSet, SnapshotSet
<1>3. result.paths \cup Present(buffer) \in SUBSET Path
    BY <1>1 DEF Present, ResultSet
<1>4. result.parsed \in ParsedResult \cup {None} /\ latest.parsed \in ParsedResult \cup {None}
    BY <1>1 DEF ResultSet, SnapshotSet
<1>5. Kept \in ParsedResult \cup {None}
  <2>1. CASE result.parsed = None
    BY <1>4, <2>1 DEF Kept, Merge
  <2>2. CASE result.parsed # None
    BY <1>3, <1>4, <2>2, MergeOfTexts DEF Kept
  <2> QED
    BY <2>1, <2>2
<1> DEFINE V == [p \in Present(buffer) |-> buffer[p]]
<1>6. /\ fragments' = IF Rebuilt THEN Refragment(fragments, Kept.documents) ELSE fragments
      /\ latest' = [catalog |-> Taken, parsed |-> Kept,
                    index |-> IF Rebuilt THEN Index(Taken, fragments')
                              ELSE IF result.index # None THEN result.index
                              ELSE latest.index,
                    versions |-> V, errors |-> result.errors]
    BY DEF Accept, Taken, Kept, Rebuilt
<1>7. Rebuilt => /\ FragmentsOK(fragments')
                 /\ Index(Taken, fragments') = [catalog |-> Taken, spans |-> TextsOf(Kept)]
                 /\ Index(Taken, fragments') \in CatalogIndex
  <2> SUFFICES ASSUME Rebuilt
               PROVE  /\ FragmentsOK(fragments')
                      /\ Index(Taken, fragments') = [catalog |-> Taken, spans |-> TextsOf(Kept)]
                      /\ Index(Taken, fragments') \in CatalogIndex
      OBVIOUS
  <2>1. Kept \in ParsedResult /\ Taken \in Corpora
      BY <1>2, <1>5 DEF Rebuilt
  <2>2. Kept.documents \in DocumentMap /\ TextsOf(Kept) = Texts(Kept.documents)
        /\ Texts(Kept.documents) \in Corpora
      BY <2>1, ParsedHasTexts
  <2>3. fragments' = Refragment(fragments, Kept.documents)
      BY <1>6
  <2>4. FragmentsOK(fragments')
        /\ Index(Taken, fragments') = [catalog |-> Taken, spans |-> Texts(Kept.documents)]
      BY <1>1, <2>2, <2>3, IndexIsOfTexts
  <2> QED
      BY <2>1, <2>2, <2>4, IndexedIsIndex
<1>8. FragmentsOK(fragments')
    BY <1>1, <1>6, <1>7
<1>9. V \in Corpora
  <2>1. V \in [Present(buffer) -> Text] /\ Present(buffer) \in SUBSET Path
    BY <1>1 DEF Present
  <2> QED
    BY <2>1 DEF Corpora
<1>10. result.index \in CatalogIndex \cup {None} /\ latest.index \in CatalogIndex \cup {None}
       /\ result.errors \in Problems
    BY <1>1 DEF ResultSet, SnapshotSet
<1>11. latest' \in SnapshotSet
    BY <1>2, <1>5, <1>6, <1>7, <1>9, <1>10 DEF SnapshotSet
<1>12. latest'.index = IF Rebuilt THEN [catalog |-> Taken, spans |-> TextsOf(Kept)]
                       ELSE IF result.index # None THEN result.index ELSE latest.index
    BY <1>6, <1>7
<1> QED
    BY <1>2, <1>5, <1>6, <1>8, <1>11, <1>12

(* A check that could read the files merges with the snapshot before over  *)
(* just the files it has read.                                             *)
LEMMA KeptOfSeen ==
    ASSUME IInv, Accept, SeenOK
    PROVE  /\ Kept \in ParsedResult
           /\ Kept.clean = (DOMAIN Good(result.seen) = DOMAIN result.seen)
           /\ TextsOf(Kept) = Over(Texts(result.parsed.documents), TextsOf(latest.parsed),
                                   DOMAIN result.seen)
<1>1. result.paths \cup Present(buffer) = DOMAIN result.seen
    BY DEF SeenOK, IInv, FilesOK, Accept
<1>2. DOMAIN result.seen \in SUBSET Path
    BY GoodIsCorpus DEF SeenOK
<1>3. latest.parsed \in ParsedResult \cup {None} /\ result.parsed \in ParsedResult
    BY DEF IInv, LatestOK, SnapshotSet, SeenOK
<1>4. TextsOf(result.parsed) = Texts(result.parsed.documents)
    BY <1>3, ParsedHasTexts
<1> DEFINE D == DOMAIN result.seen
<1>5. Kept = Merge(result.parsed, latest.parsed, D)
    BY <1>1 DEF Kept
<1> HIDE DEF D
<1>6. /\ Merge(result.parsed, latest.parsed, D) \in ParsedResult
      /\ Merge(result.parsed, latest.parsed, D).clean = result.parsed.clean
      /\ TextsOf(Merge(result.parsed, latest.parsed, D))
            = Over(TextsOf(result.parsed), TextsOf(latest.parsed), D)
    BY <1>2, <1>3, MergeOfTexts DEF D
<1> QED
    BY <1>4, <1>5, <1>6 DEF D, SeenOK

(* What is accepted is what was promised.                                  *)
LEMMA AcceptDelivers ==
    ASSUME IInv, Accept
    PROVE  Promised!Deliver
<1> DEFINE old == TextsOf(latest.parsed)
           oldClean == latest.parsed # None /\ latest.parsed.clean
<1>1. /\ latest'.catalog = Taken /\ latest'.parsed = Kept
      /\ latest'.index = IF Rebuilt THEN [catalog |-> Taken, spans |-> TextsOf(Kept)]
                         ELSE IF result.index # None THEN result.index ELSE latest.index
    BY AcceptFacts
<1>2. result'.seen = None /\ result'.paths = {} /\ result'.saved = None
    BY DEF Accept, NoResult
<1>3. SeenOK \/ UnseenOK
    BY DEF IInv, ResultOK, Accept
<1>4. (result.saved \notin Valid /\ OwnOK) \/ SeededOK
    BY DEF IInv, ResultOK, Accept
<1>5. None \notin Valid /\ None \notin Corpora
    BY ValidIsGood, TextAssumption
<1>6. CASE SeenOK /\ result.saved \notin Valid /\ OwnOK
  <2>1. /\ Kept \in ParsedResult /\ Kept # None
        /\ Kept.clean = (DOMAIN Good(result.seen) = DOMAIN result.seen)
        /\ TextsOf(Kept) = Over(Good(result.seen), old, DOMAIN result.seen)
    BY <1>6, KeptOfSeen, ParsedHasTexts DEF OwnOK
  <2>2. result.seen # None /\ result.seen \in Corpora
    BY <1>5, <1>6 DEF SeenOK
  <2>3. CASE result.seen \in Valid
    <3>1. /\ Good(result.seen) = result.seen
          /\ Over(result.seen, old, DOMAIN result.seen) = result.seen
      BY <2>2, <2>3, ValidIsGood, OverOfSame
    <3>2. /\ result.catalog = result.seen /\ Taken = result.seen
          /\ result.index = [catalog |-> result.seen, spans |-> result.seen]
          /\ result.index # None
      BY <1>6, <2>2, <2>3, IndexedIsIndex DEF OwnOK, Taken
    <3>3. latest'.index = [catalog |-> result.seen, spans |-> result.seen]
      BY <1>1, <3>2 DEF Rebuilt
    <3>4. Kept.clean = TRUE /\ TextsOf(Kept) = result.seen
      BY <2>1, <3>1
    <3>5. Promised!Good(result.seen) = result.seen
          /\ Promised!Over(result.seen, old, DOMAIN result.seen) = result.seen
      BY <3>1 DEF Promised!Good, Good, Promised!Over, Over
    <3>6. latest'.catalog = result.seen /\ latest'.parsed # None
          /\ latest'.parsed.clean = TRUE /\ TextsOf(latest'.parsed) = result.seen
      BY <1>1, <2>1, <3>2, <3>4
    <3>7. Promised!Reindex(result.seen, result.seen, TRUE)
            = [catalog |-> result.seen, spans |-> result.seen]
      BY <2>2 DEF Promised!Reindex, Promised!Indexed
    <3>8. Promised!Checked
      BY <1>6, <2>2, <2>3, <3>3, <3>5, <3>6, <3>7, Zenon DEF Promised!Checked
    <3> QED
      BY <1>2, <3>8 DEF Promised!Deliver
  <2>4. CASE result.seen \notin Valid
    <3>1. result.catalog = None /\ result.index = None /\ Taken = latest.catalog
      BY <1>6, <2>4 DEF OwnOK, Taken
    <3>2. Promised!Checked
      BY <1>1, <1>6, <2>1, <2>2, <2>4, <3>1
      DEF Promised!Checked, Promised!Reindex, Promised!Indexed, Promised!Over, Over,
          Promised!Good, Good, Rebuilt
    <3> QED
      BY <1>2, <3>2 DEF Promised!Deliver
  <2> QED
    BY <2>3, <2>4
<1>7. CASE UnseenOK /\ result.saved \notin Valid /\ OwnOK
  <2>1. /\ result.seen = None /\ result.parsed = None
        /\ result.catalog = None /\ result.index = None
    BY <1>5, <1>7 DEF UnseenOK, OwnOK
  <2>2. Kept = latest.parsed /\ Taken = latest.catalog
    BY <2>1 DEF Kept, Merge, Taken
  <2>3. Promised!Unread
    BY <1>1, <1>7, <2>1, <2>2
    DEF Promised!Unread, Promised!Reindex, Promised!Indexed, Rebuilt
  <2> QED
    BY <1>2, <2>3 DEF Promised!Deliver
<1>8. CASE SeenOK /\ SeededOK
  <2> DEFINE texts == Over(Good(result.seen), result.saved, result.paths)
  <2>1. /\ Texts(result.parsed.documents) = texts
        /\ result.index = [catalog |-> result.saved, spans |-> texts]
        /\ result.catalog = result.saved /\ result.saved \in Valid
        /\ latest.index = None /\ result.seen \notin Valid
    BY <1>8 DEF SeededOK
  <2>2. /\ Kept \in ParsedResult /\ Kept # None
        /\ Kept.clean = (DOMAIN Good(result.seen) = DOMAIN result.seen)
        /\ TextsOf(Kept) = Over(texts, old, DOMAIN result.seen)
    BY <1>8, <2>1, KeptOfSeen, ParsedHasTexts
  <2>3. result.seen # None /\ Taken = result.saved
    BY <1>5, <1>8, <2>1 DEF SeenOK, Taken
  <2>4. result.index # None
    <3>1. result.parsed \in ParsedResult /\ result.saved \in Corpora
      BY <1>8, <2>1, ValidIsGood DEF SeededOK
    <3> QED
      BY <1>8, <3>1, ParsedHasTexts, IndexedIsIndex DEF SeededOK
  <2>5. latest'.index = [catalog |-> result.saved, spans |-> texts]
    BY <1>1, <2>1, <2>4 DEF Rebuilt
  <2>6. Promised!Seeded
    BY <1>1, <2>1, <2>2, <2>3, <2>5
    DEF Promised!Seeded, Promised!Indexed, Promised!Over, Over, Promised!Good, Good
  <2> QED
    BY <1>2, <2>6 DEF Promised!Deliver
<1>9. CASE UnseenOK /\ SeededOK
  <2> DEFINE S == result.paths \cup Present(buffer)
  <2>1. /\ Texts(result.parsed.documents) = result.saved /\ result.parsed.clean = TRUE
        /\ result.index = [catalog |-> result.saved, spans |-> result.saved]
        /\ result.catalog = result.saved /\ result.saved \in Valid
        /\ latest.index = None /\ result.parsed \in ParsedResult /\ result.seen = None
    BY <1>9 DEF SeededOK, UnseenOK
  <2>2. S \in SUBSET Path
    BY <1>9 DEF UnseenOK, Present
  <2>3. latest.parsed \in ParsedResult \cup {None}
    BY DEF IInv, LatestOK, SnapshotSet
  <2>4. /\ Kept \in ParsedResult /\ Kept # None /\ Kept.clean = TRUE
        /\ TextsOf(Kept) = Over(result.saved, old, S)
    BY <2>1, <2>2, <2>3, MergeOfTexts, ParsedHasTexts DEF Kept
  <2>5. Taken = result.saved /\ result.index # None
    BY <1>5, <2>1, ValidIsGood, IndexedIsIndex DEF Taken
  <2>6. latest'.index = [catalog |-> result.saved, spans |-> result.saved]
    BY <1>1, <2>1, <2>5 DEF Rebuilt
  <2>7. Promised!SeededBlindly
    BY <1>1, <2>1, <2>2, <2>4, <2>5, <2>6
    DEF Promised!SeededBlindly, Promised!Indexed, Promised!Over, Over
  <2> QED
    BY <1>2, <2>7 DEF Promised!Deliver
<1> QED
    BY <1>3, <1>4, <1>6, <1>7, <1>8, <1>9

LEMMA KeptCovers ==
    ASSUME NEW kept \in ParsedResult, NEW c \in Corpora, NEW d \in Corpora,
           NEW S \in SUBSET Path, TextsOf(kept) = Over(c, d, S)
    PROVE  \A p \in DOMAIN c : /\ p \in DOMAIN kept.documents
                               /\ c[p] = kept.documents[p].text
<1>1. /\ TextsOf(kept) = Texts(kept.documents)
      /\ kept.documents \in DocumentMap
    BY ParsedHasTexts
<1>2. /\ DOMAIN TextsOf(kept) = DOMAIN kept.documents
      /\ \A p \in DOMAIN kept.documents : TextsOf(kept)[p] = kept.documents[p].text
    BY <1>1, TextsOfDocuments
<1>3. \A p \in DOMAIN c : p \in DOMAIN Over(c, d, S) /\ Over(c, d, S)[p] = c[p]
    BY DEF Over
<1> QED
    BY <1>2, <1>3

(* The corpus the index of a check was built from is covered by what is    *)
(* kept of the documents.                                                  *)
LEMMA ResultCovered ==
    ASSUME IInv, Accept, result.index # None
    PROVE  /\ Taken # None /\ Kept # None
           /\ \A p \in DOMAIN result.index.spans :
                /\ p \in DOMAIN Kept.documents
                /\ result.index.spans[p] = Kept.documents[p].text
<1>1. latest.parsed \in ParsedResult \cup {None} /\ None \notin Valid
      /\ result \in ResultSet
    BY ValidIsGood DEF IInv, LatestOK, SnapshotSet, ResultOK
<1>2. TextsOf(latest.parsed) \in Corpora
    BY <1>1, ParsedHasTexts, NothingIsCorpus DEF TextsOf
<1>3. (SeenOK \/ UnseenOK) /\ ((result.saved \notin Valid /\ OwnOK) \/ SeededOK)
    BY DEF IInv, ResultOK, Accept
<1>4. CASE SeenOK
  <2>1. DOMAIN result.seen \in SUBSET Path
    BY <1>4, GoodIsCorpus DEF SeenOK
  <2>2. /\ Kept \in ParsedResult /\ Kept # None
        /\ TextsOf(Kept) = Over(Texts(result.parsed.documents), TextsOf(latest.parsed),
                                DOMAIN result.seen)
    BY <1>4, KeptOfSeen, ParsedHasTexts
  <2>3. /\ Texts(result.parsed.documents) \in Corpora
    BY <1>4, ParsedHasTexts DEF SeenOK
  <2>4. result.catalog # None /\ result.index.spans = Texts(result.parsed.documents)
    <3>1. CASE OwnOK
      <4>1. result.seen \in Valid
        BY <3>1 DEF OwnOK
      <4> QED
        BY <1>1, <1>4, <3>1, <4>1, ValidIsGood DEF OwnOK
    <3>2. CASE SeededOK
      BY <1>1, <3>2 DEF SeededOK
    <3> QED
      BY <1>3, <3>1, <3>2
  <2> QED
    BY <1>2, <2>1, <2>2, <2>3, <2>4, KeptCovers DEF Taken
<1>5. CASE UnseenOK
  <2> DEFINE S == result.paths \cup Present(buffer)
  <2>1. SeededOK
    BY <1>1, <1>3, <1>5 DEF UnseenOK, OwnOK
  <2>2. /\ result.parsed \in ParsedResult /\ S \in SUBSET Path
        /\ result.catalog # None
        /\ result.index.spans = Texts(result.parsed.documents)
    BY <1>1, <1>5, <2>1 DEF SeededOK, UnseenOK, Present
  <2>3. /\ Kept \in ParsedResult /\ Kept # None
        /\ TextsOf(Kept) = Over(TextsOf(result.parsed), TextsOf(latest.parsed), S)
    BY <1>1, <2>2, MergeOfTexts, ParsedHasTexts DEF Kept
  <2>4. TextsOf(result.parsed) = Texts(result.parsed.documents)
        /\ Texts(result.parsed.documents) \in Corpora
    BY <2>2, ParsedHasTexts
  <2> QED
    BY <1>2, <2>2, <2>3, <2>4, KeptCovers DEF Taken
<1> QED
    BY <1>3, <1>4, <1>5

LEMMA AcceptOK ==
    ASSUME IInv, Accept
    PROVE  IInv'
<1>1. /\ latest'.catalog = Taken /\ latest'.parsed = Kept
      /\ latest'.index = IF Rebuilt THEN [catalog |-> Taken, spans |-> TextsOf(Kept)]
                         ELSE IF result.index # None THEN result.index ELSE latest.index
      /\ latest'.errors = result.errors
      /\ latest'.versions = [p \in Present(buffer) |-> buffer[p]]
      /\ latest' \in SnapshotSet
      /\ FragmentsOK(fragments')
      /\ Kept \in ParsedResult \cup {None}
    BY AcceptFacts
<1>2. FilesOK'
    BY DEF IInv, FilesOK, Accept, files
<1>3. CachesOK'
    BY <1>1 DEF IInv, CachesOK, StatesOK, FragmentsOK, Accept
<1>4. result' = NoResult /\ NoResult \in ResultSet /\ stage' = "idle"
    BY DEF Accept, NoResult, ResultSet, Problems
<1>5. ResultOK'
    BY <1>4 DEF ResultOK, NoResult
<1>6. ASSUME latest'.index # None
      PROVE  /\ latest'.catalog # None /\ latest'.parsed # None
             /\ Kept.clean =>
                  \A p \in DOMAIN latest'.index.spans :
                      /\ p \in DOMAIN Kept.documents
                      /\ latest'.index.spans[p] = Kept.documents[p].text
  <2>1. CASE Rebuilt
    <3>1. Taken # None /\ Kept # None /\ Kept \in ParsedResult
      BY <1>1, <2>1 DEF Rebuilt
    <3>2. /\ latest'.index.spans = Texts(Kept.documents)
          /\ Kept.documents \in DocumentMap
      BY <1>1, <2>1, <3>1, ParsedHasTexts
    <3> QED
      BY <1>1, <3>1, <3>2, TextsOfDocuments
  <2>2. CASE ~Rebuilt /\ result.index # None
    BY <1>1, <2>2, ResultCovered
  <2>3. CASE ~Rebuilt /\ result.index = None
    <3>1. latest.index # None /\ latest.catalog # None /\ latest.parsed # None
      BY <1>1, <1>6, <2>3 DEF IInv, LatestOK
    <3>2. Taken # None
      BY <3>1 DEF Taken
    <3>3. Kept # None
      <4>1. CASE result.parsed = None
        BY <3>1, <4>1 DEF Kept, Merge
      <4>2. CASE result.parsed # None
        <5>1. result.parsed \in ParsedResult /\ latest.parsed \in ParsedResult \cup {None}
              /\ result.paths \cup Present(buffer) \in SUBSET Path
          BY <4>2 DEF IInv, ResultOK, ResultSet, LatestOK, SnapshotSet, Present
        <5> QED
          BY <5>1, MergeOfTexts, ParsedHasTexts DEF Kept
      <4> QED
        BY <4>1, <4>2
    <3> QED
      BY <1>1, <2>3, <3>2, <3>3 DEF Rebuilt
  <2> QED
    BY <2>1, <2>2, <2>3
<1>7. SpansFollowTheText'
    BY <1>1, <1>6 DEF SpansFollowTheText
<1>8. LensesAreOfTheVersion'
  <2> SUFFICES ASSUME \A e \in result.errors : e.stop # "source",
                      NEW p \in Present(buffer),
                      \A e \in result.errors : e.path # p
               PROVE  Kept.documents[p].text = buffer[p]
      BY <1>1 DEF LensesAreOfTheVersion
  <2>1. SeenOK /\ (OwnOK \/ SeededOK)
      BY DEF IInv, ResultOK, Accept, UnseenOK
  <2>2. overlays = buffer /\ latest.parsed \in ParsedResult \cup {None}
      BY DEF IInv, FilesOK, Accept, LatestOK, SnapshotSet
  <2>3. p \in DOMAIN result.seen /\ result.seen[p] = buffer[p]
      BY <2>1, <2>2 DEF SeenOK
  <2>4. result.seen[p] \in Parsable
    <3>1. SUFFICES ASSUME result.seen[p] \notin Parsable PROVE FALSE
        OBVIOUS
    <3>2. [stop |-> "parse", path |-> p] \in result.errors
        BY <2>1, <2>3, <3>1 DEF SeenOK, Errors
    <3> QED
        BY <3>2
  <2> DEFINE good == Good(result.seen)
  <2>5. good \in Corpora /\ p \in DOMAIN good /\ good[p] = buffer[p]
        /\ DOMAIN result.seen \in SUBSET Path
      BY <2>1, <2>3, <2>4, GoodIsCorpus DEF SeenOK, Good
  <2> DEFINE own == Texts(result.parsed.documents)
  <2>6. own \in Corpora /\ p \in DOMAIN own /\ own[p] = buffer[p]
    <3>1. own \in Corpora
        BY <2>1, ParsedHasTexts DEF SeenOK
    <3>2. CASE own = good
        BY <2>5, <3>2
    <3>3. CASE own = Over(good, result.saved, result.paths)
        BY <2>5, <3>1, <3>3 DEF Over
    <3> QED
        BY <2>1, <3>1, <3>2, <3>3 DEF OwnOK, SeededOK
  <2>7. /\ Kept \in ParsedResult
        /\ TextsOf(Kept) = Over(own, TextsOf(latest.parsed), DOMAIN result.seen)
      BY <2>1, KeptOfSeen
  <2>8. TextsOf(latest.parsed) \in Corpora
      BY <2>2, ParsedHasTexts, NothingIsCorpus DEF TextsOf
  <2> HIDE DEF own, good
  <2> QED
      BY <2>5, <2>6, <2>7, <2>8, KeptCovers
<1>9. LatestOK'
    BY <1>1, <1>6, <1>7, <1>8 DEF LatestOK
<1> QED
    BY <1>2, <1>3, <1>5, <1>9 DEF IInv

LEMMA Preserved == IInv /\ [Next]_vars => IInv'
<1> SUFFICES ASSUME IInv, [Next]_vars PROVE IInv'
    OBVIOUS
<1>1. ASSUME NEW p \in Path, Edit(p) PROVE IInv'
    BY <1>1, EditOK
<1>2. ASSUME NEW p \in Path, Write(p) PROVE IInv'
    BY <1>2, WriteOK
<1>3. CASE Check
    BY <1>3, BeginOK, CheckFailsOK, CheckCorpusOK, BaselineFailsOK, BaselineOK,
       SupersededOK, AcceptOK DEF Check
<1>4. CASE UNCHANGED vars
  <2>1. FilesOK'
    BY <1>4 DEF IInv, FilesOK, vars, files, caches
  <2> QED
    BY <1>4, <2>1, ResultKept, LatestKept, CachesKept DEF IInv, vars
<1> QED
    BY <1>1, <1>2, <1>3, <1>4 DEF Next

THEOREM InvariantHolds == Spec => []IInv
    BY InitOK, Preserved, PTL DEF Spec

(* Where everything parses, index and parsed documents agree on positions, *)
(* whatever superseded checks left in the caches.                          *)
THEOREM SpansFollow == Spec => []SpansFollowTheText
<1>1. IInv => SpansFollowTheText
    BY DEF IInv, LatestOK
<1> QED
    BY <1>1, InvariantHolds, PTL

(* Lenses are anchored in the text of the version they are offered for.    *)
THEOREM LensesHold == Spec => []LensesAreOfTheVersion
<1>1. IInv => LensesAreOfTheVersion
    BY DEF IInv, LatestOK
<1> QED
    BY <1>1, InvariantHolds, PTL

LEMMA StartsAsPromised == Init => Promised!Init
    BY DEF Init, Promised!Init, NoResult, TextsOf, Nothing

LEMMA StepsAsPromised ==
    IInv /\ [Next]_vars => [Promised!Next]_Promised!vars
<1> SUFFICES ASSUME IInv, [Next]_vars PROVE [Promised!Next]_Promised!vars
    OBVIOUS
<1>1. ASSUME UNCHANGED <<result, latest>> PROVE [Promised!Next]_Promised!vars
    BY <1>1 DEF Promised!vars, TextsOf
<1>2. ASSUME UNCHANGED latest,
             result'.seen \in Corpora \cup {None}, result'.paths \in SUBSET Path,
             result'.saved \in Corpora \cup {None}
      PROVE  [Promised!Next]_Promised!vars
    BY <1>2 DEF Promised!Next, Promised!Read, Promised!Corpora, Corpora, TextsOf
<1>3. ASSUME NEW p \in Path, Edit(p) \/ Write(p) PROVE [Promised!Next]_Promised!vars
    BY <1>1, <1>3 DEF Edit, Write, Change
<1>4. CASE Check
  <2>1. CASE Begin \/ BaselineFails
    BY <1>1, <2>1 DEF Begin, BaselineFails
  <2>2. CASE CheckFails
    <3>1. result'.seen = None /\ result'.saved = None /\ result'.paths \in SUBSET Path
      BY <2>2 DEF CheckFails, NoResult, Present
    <3> QED
      BY <1>2, <2>2, <3>1 DEF CheckFails
  <2>3. CASE CheckCorpus
    BY <1>2, <2>3, CheckCorpusOK DEF CheckCorpus, IInv, ResultOK, ResultSet
  <2>4. CASE Baseline
    BY <1>2, <2>4, BaselineOK DEF Baseline, IInv, ResultOK, ResultSet
  <2>5. CASE Superseded
    BY <1>2, <2>5 DEF Superseded, NoResult
  <2>6. CASE Accept
    BY <2>6, AcceptDelivers DEF Promised!Next
  <2> QED
    BY <1>4, <2>1, <2>2, <2>3, <2>4, <2>5, <2>6 DEF Check
<1>5. CASE UNCHANGED vars
    BY <1>1, <1>5 DEF vars
<1> QED
    BY <1>3, <1>4, <1>5 DEF Next

(* Caches, document objects and edits during a check do not show: what     *)
(* checks deliver is the last good text, catalog and index of what they    *)
(* have read.                                                              *)
THEOREM Refinement == Spec => ImplementsLastGood
<1>1. Spec => Promised!Init /\ [][Promised!Next]_Promised!vars
    BY StartsAsPromised, StepsAsPromised, InvariantHolds, PTL DEF Spec
<1> QED
    BY <1>1 DEF ImplementsLastGood, Promised!Spec
=============================================================================
