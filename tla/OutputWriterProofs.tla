-------------------------- MODULE OutputWriterProofs --------------------------
(***************************************************************************)
(* Proofs about OutputWriter, for every set of paths and every number of   *)
(* runs and changes.  The inductive invariant says, stage by stage, what   *)
(* is already true of the tree and what is still to do; what makes it hold *)
(* is that writing an artifact makes the directories above it, and that    *)
(* planning has seen to it that no artifact and no file is one of them.    *)
(***************************************************************************)
EXTENDS OutputWriter, WellFoundedInduction, TLAPS

USE OutputWriterAssumption

RunType ==
    run \in [stage : {"idle", "removing", "writing", "listed", "formatted", "ready"},
             mode : Mode, artifacts : SUBSET Path, todo : SUBSET Path, failed : BOOLEAN]

(* The disk is as TypeOK has it. *)
Tree(d) ==
    /\ d \in [Path -> Content \cup {Absent, Directory}]
    /\ \A p \in Path : d[p] \notin {Absent, Directory} =>
                         \A q \in Above[p] : d[q] = Directory

Types ==
    /\ Tree(disk) /\ RunType
    /\ Owned \subseteq Path /\ manifest \in [Owned -> Content]
    /\ DOMAIN attested.manifest \subseteq Path
    /\ runs \in 0..MaxRuns /\ changes \in 0..MaxChanges
    /\ unlisted \subseteq 1..MaxRuns /\ theirs \subseteq Path
    /\ run.stage # "idle" => runs # 0

(* What the plan checked stays true until everything is written: nothing   *)
(* an artifact needs a directory for is, or will be, a file.               *)
Planned ==
    run.stage \in {"removing", "writing"} =>
        \A p \in run.artifacts :
            /\ disk[p] # Directory
            /\ \A q \in Above[p] : q \notin run.artifacts /\ ~IsFile(q)

(* Removing works through the stale paths; those it is done with are no    *)
(* files, unless something failed.                                         *)
Removing ==
    run.stage = "removing" =>
        /\ run.mode = "manifest-clean" /\ run.todo \subseteq Stale(run.artifacts)
        /\ ~run.failed => \A p \in Stale(run.artifacts) \ run.todo : ~IsFile(p)

(* Writing has removed every stale file, and has written what is not to do *)
(* any more, unless something failed.                                      *)
Writing ==
    run.stage = "writing" =>
        /\ run.todo \subseteq run.artifacts
        /\ run.mode = "manifest-clean" => \A p \in Stale(run.artifacts) : ~IsFile(p)
        /\ ~run.failed => \A p \in run.artifacts \ run.todo : disk[p] = Fresh

(* The manifest is of the files on the disk when it is written and when it *)
(* is refreshed; a formatter leaves files of the same run, none torn.      *)
Listed ==
    /\ run.stage \in {"listed", "ready"} => manifest = [p \in Owned |-> disk[p]]
    /\ run.stage = "formatted" =>
         \A p \in Owned : /\ disk[p] \in Content /\ disk[p].form # "torn"
                          /\ disk[p].made = manifest[p].made

(* StrayFilesAreOfUnlistedRuns with the run under way. *)
Strays ==
    \A p \in Path \ Owned :
        IsFile(p) /\ disk[p].made > 0 =>
            \/ disk[p].made \in unlisted
            \/ run.stage = "writing" /\ p \in run.artifacts /\ disk[p].made = runs

IInv ==
    /\ Types
    /\ Planned /\ Removing /\ Writing /\ Listed /\ Strays
    /\ ManifestIsOfOneGeneration
    /\ AttestationIdentifiesTheBytes
-----------------------------------------------------------------------------
LEMMA ContentIsAFile ==
    ASSUME NEW c \in Content
    PROVE  c \notin {Absent, Directory}
BY DEF Content, Absent, Directory

LEMMA NothingIsNoContent == Absent \notin Content /\ Directory \notin Content /\ Absent # Directory
BY DEF Content, Absent, Directory

LEMMA MadeNow ==
    ASSUME Types, run.stage # "idle"
    PROVE  Fresh \in Content /\ Torn \in Content
BY DEF Types, Fresh, Torn, Content

(* A nonempty set of numbers has a least one. *)
LEMMA LeastNumber ==
    ASSUME NEW T \in SUBSET Nat, T # {}
    PROVE  Min(T) \in T
<1> DEFINE R == OpToRel(<, Nat)
<1>1. \A a, b \in Nat : a < b => <<a, b>> \in R
  BY DEF OpToRel
<1>2. IsWellFoundedOn(R, Nat)
  BY NatLessThanWellFounded
<1> HIDE DEF R
<1>3. PICK m \in T : \A n \in T : ~ (<<n, m>> \in R)
  BY <1>2, WFMin
<1>4. \A n \in T : n \in Nat /\ ~ (n < m)
  BY <1>1, <1>3
<1>5. \A n \in T : m <= n
  BY <1>4
<1> QED BY <1>5 DEF Min

LEMMA ItemIsToDo ==
    ASSUME RunType, run.todo # {}
    PROVE  Item \in run.todo
<1>1. run.todo \in SUBSET Nat
  BY DEF RunType
<1> QED BY <1>1, LeastNumber DEF Item

(* Putting a file where no directory is keeps the tree a tree: no file was *)
(* below it, since what is above a file is a directory.                    *)
LEMMA WithKeepsTree ==
    ASSUME NEW p \in Path, NEW c \in Content, Tree(disk), disk[p] # Directory
    PROVE  Tree(With(p, c))
<1> DEFINE d == With(p, c)
<1>1. /\ d \in [Path -> Content \cup {Absent, Directory}]
      /\ d[p] = c
      /\ \A q \in Above[p] : d[q] = Directory
      /\ \A q \in Path \ ({p} \cup Above[p]) : d[q] = disk[q]
  BY DEF With, Tree
<1>2. ASSUME NEW r \in Path, d[r] \notin {Absent, Directory}, NEW q \in Above[r]
      PROVE  d[q] = Directory
  <2>1. CASE r = p
    BY <2>1, <1>1
  <2>2. CASE r # p
    <3>1. r \notin Above[p] /\ d[r] = disk[r]
      BY <2>2, <1>1, <1>2
    <3>2. q \in Path /\ disk[q] = Directory
      BY <3>1, <1>2 DEF Tree
    <3>3. q # p
      BY <3>2
    <3> QED BY <3>2, <3>3, <1>1
  <2> QED BY <2>1, <2>2
<1> HIDE DEF d
<1>3. Tree(d)
  BY <1>1, <1>2 DEF Tree
<1> QED BY <1>3 DEF d

(* So does taking a file away. *)
LEMMA AbsentKeepsTree ==
    ASSUME NEW p \in Path, Tree(disk), IsFile(p)
    PROVE  Tree([disk EXCEPT ![p] = Absent])
<1>1. disk[p] # Directory
  BY DEF IsFile
<1> QED BY <1>1 DEF Tree

(* Where a file was put and elsewhere. *)
LEMMA WithValues ==
    ASSUME NEW p \in Path, NEW c
    PROVE  /\ With(p, c)[p] = c
           /\ \A q \in Above[p] : With(p, c)[q] = Directory
           /\ \A q \in Path \ {p} : With(p, c)[q] \in {Directory, disk[q]}
           /\ \A q \in Path \ ({p} \cup Above[p]) : With(p, c)[q] = disk[q]
BY DEF With

(* What IInv promises of the properties. *)
LEMMA Promised == IInv => TypeOK /\ StrayFilesAreOfUnlistedRuns
<1> SUFFICES ASSUME IInv PROVE TypeOK /\ StrayFilesAreOfUnlistedRuns
  OBVIOUS
<1>1. Range(manifest) \subseteq Content
  BY DEF IInv, Types, Range
<1>2. TypeOK
  BY <1>1 DEF IInv, Types, Tree, RunType, TypeOK, IsFile
<1>3. StrayFilesAreOfUnlistedRuns
  BY DEF IInv, Strays, StrayFilesAreOfUnlistedRuns
<1> QED BY <1>2, <1>3

LEMMA Initially == Init => IInv
<1> SUFFICES ASSUME Init PROVE IInv
  OBVIOUS
<1>1. Tree(disk) /\ RunType
  BY DEF Init, Tree, RunType, NoRun, Mode
<1>2. Owned = {} /\ manifest \in [Owned -> Content] /\ DOMAIN attested.manifest = {}
  BY DEF Init, Owned
<1>3. Types
  BY <1>1, <1>2 DEF Init, Types, NoRun
<1>4. Planned /\ Removing /\ Writing /\ Listed /\ Strays
  BY <1>2 DEF Init, Planned, Removing, Writing, Listed, Strays, IsFile, NoRun
<1>5. ManifestIsOfOneGeneration /\ AttestationIdentifiesTheBytes
  BY <1>2 DEF Init, ManifestIsOfOneGeneration, AttestationIdentifiesTheBytes
<1> QED BY <1>3, <1>4, <1>5 DEF IInv
-----------------------------------------------------------------------------
(* One lemma for each step of the program and of the tree's owner. *)

LEMMA GenerateStep ==
    ASSUME IInv, NEW artifacts \in SUBSET Path, NEW mode \in Mode,
           Generate(artifacts, mode)
    PROVE  IInv'
<1>1. /\ run.stage = "idle" /\ runs < MaxRuns /\ runs' = runs + 1 /\ runs \in 0..MaxRuns
      /\ disk' = disk /\ manifest' = manifest /\ attested' = attested
      /\ changes' = changes /\ unlisted' = unlisted /\ theirs' = theirs
      /\ Owned' = Owned
  BY DEF Generate, IInv, Types, Owned
<1>2. runs' \in 0..MaxRuns /\ runs' # 0
  BY <1>1
<1>3. CASE Refused(artifacts)
  <2>1. run' = NoRun
    BY <1>3 DEF Generate
  <2>2. RunType' /\ run'.stage = "idle"
    BY <2>1 DEF NoRun, RunType, Mode
  <2> QED BY <1>1, <1>2, <2>2 DEF IInv, Types, Planned, Removing, Writing, Listed, Strays,
             ManifestIsOfOneGeneration, AttestationIdentifiesTheBytes, IsFile
<1>4. CASE ~Refused(artifacts)
  <2>1. /\ run'.stage = IF mode = "overwrite" THEN "writing" ELSE "removing"
        /\ run'.mode = mode /\ run'.artifacts = artifacts /\ run'.failed = FALSE
        /\ run'.todo = IF mode = "overwrite" THEN artifacts ELSE Stale(artifacts)
        /\ RunType'
    <3>1. Stale(artifacts) \in SUBSET Path
      BY DEF Stale, IInv, Types
    <3> QED BY <3>1, <1>4 DEF Generate, NoRun, RunType, Mode
  <2>2. Types'
    BY <1>1, <1>2, <2>1 DEF IInv, Types
  <2>3. Planned'
    BY <1>1, <1>4, <2>1 DEF Planned, Refused, IsFile
  <2>4. Removing' /\ Writing'
    BY <1>1, <2>1 DEF Removing, Writing, Stale, Mode
  <2>5. Listed' /\ Strays'
    BY <1>1, <2>1 DEF IInv, Listed, Strays, IsFile
  <2> QED BY <1>1, <2>2, <2>3, <2>4, <2>5
          DEF IInv, ManifestIsOfOneGeneration, AttestationIdentifiesTheBytes
<1> QED BY <1>3, <1>4

LEMMA RemoveStep == IInv /\ Remove => IInv'
<1> SUFFICES ASSUME IInv, Remove PROVE IInv'
  OBVIOUS
<1>1. /\ run.stage = "removing" /\ run.todo # {} /\ RunType
      /\ manifest' = manifest /\ attested' = attested /\ runs' = runs
      /\ changes' = changes /\ unlisted' = unlisted /\ theirs' = theirs
      /\ Owned' = Owned
  BY DEF Remove, IInv, Types, Owned
<1>2. Item \in run.todo /\ Item \in Stale(run.artifacts) /\ Item \in Path
  BY <1>1, ItemIsToDo DEF IInv, Removing, RunType
<1>3. PICK failed \in BOOLEAN : Did(failed) /\ (failed \/ disk'[Item] \in {Absent, Directory})
        /\ \/ IsFile(Item) /\ disk' = [disk EXCEPT ![Item] = Absent]
           \/ disk' = disk
  <2>1. CASE IsFile(Item) /\ disk' = [disk EXCEPT ![Item] = Absent]
                /\ Did(FALSE)
    <3>1. disk'[Item] = Absent
      BY <2>1, <1>2 DEF IInv, Types, Tree
    <3> QED BY <2>1, <3>1 DEF IsFile
  <2>2. CASE disk[Item] = Absent /\ Did(FALSE) /\ UNCHANGED disk
    BY <2>2 DEF IsFile
  <2>3. CASE Did(TRUE) /\ UNCHANGED disk
    BY <2>3
  <2> QED BY <2>1, <2>2, <2>3 DEF Remove
<1>4. /\ run' = [run EXCEPT !.todo = run.todo \ {Item}, !.failed = run.failed \/ failed]
  BY <1>3 DEF Did
<1>5. /\ run'.stage = "removing" /\ run'.mode = run.mode /\ run'.artifacts = run.artifacts
      /\ run'.todo = run.todo \ {Item} /\ RunType'
      /\ ~run'.failed => ~run.failed /\ ~failed
  BY <1>1, <1>4 DEF RunType
<1>6. \A p \in Path : /\ disk'[p] \in {disk[p], Absent}
                      /\ ~IsFile(p) => ~IsFile(p)'
  BY <1>2, <1>3 DEF IInv, Types, Tree, IsFile
<1>7. Types'
  <2>1. Tree(disk')
    BY <1>2, <1>3, AbsentKeepsTree DEF IInv, Types
  <2> QED BY <1>1, <1>3, <1>5, <2>1 DEF IInv, Types
<1>8. Planned'
  BY <1>1, <1>5, <1>6, NothingIsNoContent DEF IInv, Planned, RunType
<1>9. Removing' /\ Writing'
  <2>1. ~run'.failed => \A p \in Stale(run.artifacts) \ run'.todo : ~IsFile(p)'
    <3> SUFFICES ASSUME ~run'.failed, NEW p \in Stale(run.artifacts) \ run'.todo
                 PROVE  ~IsFile(p)'
      OBVIOUS
    <3>1. p \in Path
      BY DEF IInv, Types, Stale
    <3>2. CASE p = Item
      BY <3>2, <1>3, <1>5 DEF IsFile
    <3>3. CASE p # Item
      BY <3>1, <3>3, <1>1, <1>5, <1>6 DEF IInv, Removing
    <3> QED BY <3>2, <3>3
  <2>2. run'.todo \subseteq Stale(run.artifacts) /\ run.mode = "manifest-clean"
    BY <1>1, <1>5 DEF IInv, Removing
  <2> QED BY <2>1, <2>2, <1>1, <1>5 DEF Removing, Writing, Stale
<1>10. Listed' /\ Strays'
  BY <1>1, <1>5, <1>6 DEF IInv, Listed, Strays, IsFile
<1> QED BY <1>1, <1>7, <1>8, <1>9, <1>10
        DEF IInv, ManifestIsOfOneGeneration, AttestationIdentifiesTheBytes

LEMMA RemovedStep == IInv /\ Removed => IInv'
<1> SUFFICES ASSUME IInv, Removed PROVE IInv'
  OBVIOUS
<1>1. /\ run.stage = "removing" /\ run.todo = {} /\ RunType /\ runs # 0
      /\ disk' = disk /\ manifest' = manifest /\ attested' = attested /\ runs' = runs
      /\ changes' = changes /\ unlisted' = unlisted /\ theirs' = theirs
      /\ Owned' = Owned
  BY DEF Removed, IInv, Types, Owned
<1>2. CASE run.failed
  <2>1. run' = NoRun
    BY <1>2 DEF Removed
  <2>2. RunType' /\ run'.stage = "idle"
    BY <2>1 DEF NoRun, RunType, Mode
  <2> QED BY <1>1, <2>2 DEF IInv, Types, Planned, Removing, Writing, Listed, Strays,
             ManifestIsOfOneGeneration, AttestationIdentifiesTheBytes, IsFile
<1>3. CASE ~run.failed
  <2>1. /\ run' = [run EXCEPT !.stage = "writing", !.todo = run.artifacts]
    BY <1>3 DEF Removed
  <2>2. /\ run'.stage = "writing" /\ run'.mode = run.mode
        /\ run'.artifacts = run.artifacts /\ run'.todo = run.artifacts /\ RunType'
    BY <1>1, <2>1 DEF RunType
  <2>3. Types' /\ Planned'
    BY <1>1, <2>2 DEF IInv, Types, Planned, IsFile
  <2>4. Removing' /\ Writing'
    BY <1>1, <1>3, <2>2 DEF IInv, Removing, Writing, Stale, IsFile
  <2>5. Listed' /\ Strays'
    BY <1>1, <2>2 DEF IInv, Listed, Strays, IsFile
  <2> QED BY <1>1, <2>3, <2>4, <2>5
          DEF IInv, ManifestIsOfOneGeneration, AttestationIdentifiesTheBytes
<1> QED BY <1>2, <1>3

(* What a write leaves on the disk, whole or torn, in Write and in Crash. *)
LEMMA WrittenDisk ==
    ASSUME IInv, run.stage = "writing", run.todo # {}, NEW c \in Content, c.made = runs
    PROVE  LET d == With(Item, c) IN
           /\ Item \in run.todo /\ Item \in run.artifacts /\ Item \in Path
           /\ Tree(d) /\ d[Item] = c
           /\ \A p \in Path \ {Item} : d[p] \in {Directory, disk[p]}
           /\ \A p \in run.artifacts \ {Item} : d[p] = disk[p]
           /\ \A p \in run.artifacts : d[p] # Directory
<1>1. Item \in run.todo /\ Item \in run.artifacts /\ Item \in Path
  BY ItemIsToDo DEF IInv, Types, Writing, RunType
<1>2. disk[Item] # Directory /\ run.artifacts \cap Above[Item] = {}
      /\ run.artifacts \subseteq Path
  BY <1>1 DEF IInv, Types, RunType, Planned
<1>3. Tree(With(Item, c))
  BY <1>1, <1>2, WithKeepsTree DEF IInv, Types
<1>4. \A p \in run.artifacts \ {Item} : With(Item, c)[p] = disk[p]
  <2>1. \A q \in Path \ ({Item} \cup Above[Item]) : With(Item, c)[q] = disk[q]
    BY <1>1, WithValues
  <2> QED BY <2>1, <1>2
<1>5. c # Directory
  BY ContentIsAFile
<1>6. \A p \in run.artifacts : With(Item, c)[p] # Directory
  BY <1>1, <1>4, <1>5, WithValues DEF IInv, Planned
<1> QED BY <1>1, <1>3, <1>4, <1>6, WithValues

(* Files of this run may be at artifacts only, wherever directories appear. *)
LEMMA WrittenIsNotStray ==
    ASSUME IInv, run.stage = "writing", run.todo # {}, NEW c \in Content, c.made = runs,
           NEW p \in Path \ Owned, NEW d, d = With(Item, c)[p],
           d \notin {Absent, Directory}, d.made > 0
    PROVE  d.made \in unlisted \/ (p \in run.artifacts /\ d.made = runs)
<1>1. CASE p = Item
  BY <1>1, WrittenDisk
<1>2. CASE p # Item
  <2>1. d = disk[p]
    BY <1>2, WrittenDisk
  <2> QED BY <2>1 DEF IInv, Strays, IsFile
<1> QED BY <1>1, <1>2

(* No stale file comes back. *)
LEMMA WrittenIsNotStale ==
    ASSUME IInv, run.stage = "writing", run.todo # {}, NEW c \in Content, c.made = runs,
           run.mode = "manifest-clean", NEW p \in Stale(run.artifacts)
    PROVE  With(Item, c)[p] \in {Absent, Directory}
<1>1. p # Item /\ p \in Path
  BY WrittenDisk DEF Stale, IInv, Types
<1>2. disk[p] \in {Absent, Directory}
  BY DEF IInv, Writing, IsFile
<1> QED BY <1>1, <1>2, WrittenDisk

(* The plan is not disturbed by a file at an artifact. *)
LEMMA WrittenKeepsPlan ==
    ASSUME IInv, run.stage = "writing", run.todo # {}, NEW c \in Content, c.made = runs,
           NEW p \in run.artifacts
    PROVE  /\ With(Item, c)[p] # Directory
           /\ \A q \in Above[p] : /\ q \notin run.artifacts
                                 /\ With(Item, c)[q] \in {Absent, Directory}
<1>1. p \in Path
  BY DEF IInv, Types, RunType
<1>2. ASSUME NEW q \in Above[p]
      PROVE  q \notin run.artifacts /\ With(Item, c)[q] \in {Absent, Directory}
  <2>1. q \in Path /\ q \notin run.artifacts /\ disk[q] \in {Absent, Directory}
    BY <1>1 DEF IInv, Planned, IsFile
  <2>2. q # Item
    BY <2>1, WrittenDisk
  <2> QED BY <2>1, <2>2, WrittenDisk
<1> QED BY <1>2, WrittenDisk

LEMMA WriteStep == IInv /\ Write => IInv'
<1> SUFFICES ASSUME IInv, Write PROVE IInv'
  OBVIOUS
<1>1. /\ run.stage = "writing" /\ run.todo # {} /\ RunType /\ runs # 0
      /\ manifest' = manifest /\ attested' = attested /\ runs' = runs
      /\ changes' = changes /\ unlisted' = unlisted /\ theirs' = theirs
      /\ Owned' = Owned /\ Fresh' = Fresh /\ Tree(disk)
  BY DEF Write, IInv, Types, Owned, Fresh
<1>2. Fresh \in Content /\ Torn \in Content /\ Fresh.made = runs /\ Torn.made = runs
  BY <1>1, MadeNow DEF IInv, Fresh, Torn
<1>3. PICK failed \in BOOLEAN :
        /\ Did(failed)
        /\ \/ disk' = With(Item, Fresh)
           \/ disk' = With(Item, Torn) /\ failed
           \/ disk' = disk /\ failed
  BY DEF Write
<1>4. run' = [run EXCEPT !.todo = run.todo \ {Item}, !.failed = run.failed \/ failed]
  BY <1>3 DEF Did
<1>5. /\ run'.stage = "writing" /\ run'.mode = run.mode /\ run'.artifacts = run.artifacts
      /\ run'.todo = run.todo \ {Item} /\ RunType'
      /\ ~run'.failed => ~run.failed /\ ~failed
  BY <1>1, <1>4 DEF RunType
<1>6. Types'
  <2>1. Tree(disk')
    BY <1>1, <1>2, <1>3, WrittenDisk
  <2> QED BY <1>1, <1>5, <2>1 DEF IInv, Types
<1>7. Planned'
  <2> SUFFICES ASSUME NEW p \in run.artifacts
               PROVE  /\ disk'[p] # Directory
                      /\ \A q \in Above[p] : /\ q \notin run.artifacts
                                            /\ disk'[q] \in {Absent, Directory}
    BY <1>1, <1>5 DEF Planned, IsFile
  <2>1. CASE disk' = disk
    BY <2>1, <1>1 DEF IInv, Planned, IsFile
  <2>2. CASE disk' = With(Item, Fresh)
    BY <2>2, <1>1, <1>2, WrittenKeepsPlan
  <2>3. CASE disk' = With(Item, Torn)
    BY <2>3, <1>1, <1>2, WrittenKeepsPlan
  <2> QED BY <1>3, <2>1, <2>2, <2>3
<1>8. Writing' /\ Removing'
  <2>1. run'.todo \subseteq run'.artifacts
    BY <1>1, <1>5 DEF IInv, Writing
  <2>2. ASSUME run.mode = "manifest-clean", NEW p \in Stale(run.artifacts)
        PROVE  disk'[p] \in {Absent, Directory}
    <3>1. CASE disk' = disk
      BY <3>1, <2>2, <1>1 DEF IInv, Writing, IsFile
    <3>2. CASE disk' = With(Item, Fresh)
      BY <3>2, <2>2, <1>1, <1>2, WrittenIsNotStale
    <3>3. CASE disk' = With(Item, Torn)
      BY <3>3, <2>2, <1>1, <1>2, WrittenIsNotStale
    <3> QED BY <1>3, <3>1, <3>2, <3>3
  <2>3. ASSUME ~run'.failed, NEW p \in run.artifacts \ run'.todo
        PROVE  disk'[p] = Fresh
    <3>1. disk' = With(Item, Fresh)
      BY <2>3, <1>3, <1>5
    <3>2. CASE p = Item
      BY <3>1, <3>2, <1>1, <1>2, WrittenDisk
    <3>3. CASE p # Item
      <4>1. disk'[p] = disk[p]
        BY <3>1, <3>3, <1>1, <1>2, WrittenDisk
      <4> QED BY <4>1, <3>3, <2>3, <1>1, <1>5 DEF IInv, Writing
    <3> QED BY <3>2, <3>3
  <2> QED BY <2>1, <2>2, <2>3, <1>1, <1>5 DEF Writing, Removing, Stale, IsFile
<1>9. Listed'
  BY <1>5 DEF Listed
<1>10. Strays'
  <2> SUFFICES ASSUME NEW p \in Path \ Owned, disk'[p] \notin {Absent, Directory},
                      disk'[p].made > 0
               PROVE  disk'[p].made \in unlisted
                        \/ (p \in run.artifacts /\ disk'[p].made = runs)
    BY <1>1, <1>5 DEF Strays, IsFile
  <2>1. CASE disk' = disk
    BY <2>1 DEF IInv, Strays, IsFile
  <2>2. CASE disk' = With(Item, Fresh)
    BY <2>2, <1>1, <1>2, WrittenIsNotStray
  <2>3. CASE disk' = With(Item, Torn)
    BY <2>3, <1>1, <1>2, WrittenIsNotStray
  <2> QED BY <1>3, <2>1, <2>2, <2>3
<1> QED BY <1>1, <1>6, <1>7, <1>8, <1>9, <1>10
        DEF IInv, ManifestIsOfOneGeneration, AttestationIdentifiesTheBytes

(* A run that ends unlisted: its files are strays from then on. *)
LEMMA EndUnlistedStep ==
    ASSUME IInv, run.stage # "idle", EndUnlisted, Tree(disk'),
           UNCHANGED <<manifest, attested, runs, changes, theirs>>,
           \A p \in Path \ Owned :
              disk'[p] \notin {Absent, Directory} /\ disk'[p].made > 0 =>
                disk'[p].made \in unlisted \cup {runs}
    PROVE  IInv'
<1>1. /\ run' = NoRun /\ unlisted' = unlisted \cup {runs} /\ Owned' = Owned
      /\ RunType' /\ run'.stage = "idle"
      /\ manifest' = manifest /\ attested' = attested /\ runs' = runs
      /\ changes' = changes /\ theirs' = theirs
  BY DEF EndUnlisted, NoRun, RunType, Mode, Owned
<1>2. Types'
  <2>1. runs \in 1..MaxRuns /\ unlisted \subseteq 1..MaxRuns
    BY DEF IInv, Types
  <2>2. unlisted' \subseteq 1..MaxRuns
    BY <1>1, <2>1
  <2> QED BY <1>1, <2>2 DEF IInv, Types
<1> QED BY <1>1, <1>2 DEF IInv, Planned, Removing, Writing, Listed, Strays, IsFile,
           ManifestIsOfOneGeneration, AttestationIdentifiesTheBytes

(* While a run writes, the strays that are not of earlier runs are its own. *)
LEMMA StraysOfTheRun ==
    ASSUME IInv, NEW p \in Path \ Owned, IsFile(p), disk[p].made > 0
    PROVE  disk[p].made \in unlisted \cup {runs}
BY DEF IInv, Strays

LEMMA WriteManifestStep == IInv /\ WriteManifest => IInv'
<1> SUFFICES ASSUME IInv, WriteManifest PROVE IInv'
  OBVIOUS
<1>1. /\ run.stage = "writing" /\ run.todo = {} /\ RunType /\ runs # 0 /\ Tree(disk)
      /\ disk' = disk /\ attested' = attested /\ runs' = runs
      /\ changes' = changes /\ theirs' = theirs
  BY DEF WriteManifest, IInv, Types
<1>2. CASE EndUnlisted /\ UNCHANGED manifest
  BY <1>1, <1>2, StraysOfTheRun, EndUnlistedStep DEF IsFile
<1>3. CASE /\ run.mode = "manifest-clean" /\ ~run.failed
           /\ manifest' = [p \in run.artifacts |-> Fresh]
           /\ run' = [run EXCEPT !.stage = "listed"]
           /\ unlisted' = unlisted
  <2>1. /\ run'.stage = "listed" /\ RunType'
    BY <1>1, <1>3 DEF RunType
  <2>2. Owned' = run.artifacts /\ run.artifacts \subseteq Path
    BY <1>1, <1>3 DEF Owned, RunType
  <2>3. Fresh \in Content /\ Fresh.form # "torn" /\ Fresh.made > 0
    <3>1. runs \in Nat /\ runs # 0
      BY <1>1 DEF IInv, Types
    <3> QED BY <3>1, <1>1, MadeNow DEF IInv, Fresh
  <2>4. \A p \in run.artifacts : disk[p] = Fresh
    BY <1>1, <1>3 DEF IInv, Writing
  <2>5. manifest' \in [Owned' -> Content]
    BY <1>3, <2>2, <2>3
  <2>6. Types'
    BY <1>1, <1>3, <2>1, <2>2, <2>5 DEF IInv, Types
  <2>7. Listed'
    BY <1>1, <1>3, <2>1, <2>2, <2>4 DEF Listed
  <2>8. Strays'
    <3> SUFFICES ASSUME NEW p \in Path \ run.artifacts, IsFile(p), disk[p].made > 0
                 PROVE  disk[p].made \in unlisted
      BY <1>1, <1>3, <2>2 DEF Strays, IsFile
    <3>1. p \notin Owned
      BY <1>1, <1>3 DEF IInv, Writing, Stale
    <3> QED BY <3>1 DEF IInv, Strays
  <2>9. ManifestIsOfOneGeneration'
    BY <1>3, <2>2, <2>3 DEF ManifestIsOfOneGeneration
  <2> QED BY <1>1, <2>1, <2>6, <2>7, <2>8, <2>9
          DEF IInv, Planned, Removing, Writing, AttestationIdentifiesTheBytes
<1> QED BY <1>2, <1>3 DEF WriteManifest

(* Formatting changes neither who made a file nor what a failed write did  *)
(* to it.                                                                  *)
LEMMA ReformattedIsContent ==
    ASSUME NEW c \in Content, NEW d \in Reformatted(c)
    PROVE  /\ d \in Content /\ d.made = c.made
           /\ c.form # "torn" => d.form # "torn"
<1>1. \/ d = c
      \/ d = [c EXCEPT !.form = "formatted"]
      \/ d = [c EXCEPT !.form = "cut"]
  BY DEF Reformatted, Rewritten
<1> QED BY <1>1 DEF Content

(* What the formatter does to one path. *)
LEMMA FormattedDisk ==
    ASSUME Format, NEW p \in Path
    PROVE  \/ disk'[p] = disk[p]
           \/ p \in Matched /\ IsFile(p) /\ disk'[p] \in Reformatted(disk[p])
<1>1. PICK done, cut \in SUBSET {q \in Matched : IsFile(q)} :
        disk' = [q \in Path |-> IF q \in cut THEN Rewritten(disk[q], "cut")
                               ELSE IF q \in done THEN Rewritten(disk[q], "formatted")
                               ELSE disk[q]]
  BY DEF Format
<1>2. disk'[p] = IF p \in cut THEN Rewritten(disk[p], "cut")
                 ELSE IF p \in done THEN Rewritten(disk[p], "formatted")
                 ELSE disk[p]
  BY <1>1
<1> QED BY <1>2 DEF Reformatted

LEMMA FormatStep == IInv /\ Format => IInv'
<1> SUFFICES ASSUME IInv, Format PROVE IInv'
  OBVIOUS
<1>1. /\ run.stage = "listed" /\ RunType /\ runs # 0 /\ Tree(disk)
      /\ manifest' = manifest /\ attested' = attested /\ runs' = runs
      /\ changes' = changes /\ unlisted' = unlisted /\ theirs' = theirs
      /\ Owned' = Owned /\ Owned \subseteq Path
      /\ run' = [run EXCEPT !.stage = "formatted"]
  BY DEF Format, IInv, Types, Owned
<1>2. run'.stage = "formatted" /\ RunType'
  BY <1>1 DEF RunType
<1>3. disk' = [p \in Path |-> disk'[p]]
  BY DEF Format
<1>4. ASSUME NEW p \in Path
      PROVE  \/ disk'[p] = disk[p]
             \/ /\ disk[p] \in Content /\ disk'[p] \in Content
                /\ disk'[p].made = disk[p].made
                /\ disk[p].form # "torn" => disk'[p].form # "torn"
  <2>1. CASE disk'[p] = disk[p]
    BY <2>1
  <2>2. CASE IsFile(p) /\ disk'[p] \in Reformatted(disk[p])
    <3>1. disk[p] \in Content
      BY <2>2, <1>1 DEF Tree, IsFile
    <3> QED BY <2>2, <3>1, ReformattedIsContent
  <2> QED BY <2>1, <2>2, FormattedDisk
<1>5. \A p \in Path : disk[p] \in {Absent, Directory} <=> disk'[p] \in {Absent, Directory}
  BY <1>4, NothingIsNoContent
<1>6. Tree(disk')
  <2>1. disk' \in [Path -> Content \cup {Absent, Directory}]
    BY <1>1, <1>3, <1>4 DEF Tree
  <2>2. \A p \in Path : disk[p] = Directory => disk'[p] = Directory
    BY <1>4, NothingIsNoContent
  <2>3. ASSUME NEW p \in Path, disk'[p] \notin {Absent, Directory}, NEW q \in Above[p]
        PROVE  disk'[q] = Directory
    <3>1. disk[q] = Directory /\ q \in Path
      BY <2>3, <1>1, <1>5 DEF Tree
    <3> QED BY <3>1, <2>2
  <2> QED BY <2>1, <2>3 DEF Tree
<1>7. Types'
  BY <1>1, <1>2, <1>6 DEF IInv, Types
<1>8. Listed'
  <2> SUFFICES ASSUME NEW p \in Owned
               PROVE  /\ disk'[p] \in Content /\ disk'[p].form # "torn"
                      /\ disk'[p].made = manifest[p].made
    BY <1>1, <1>2 DEF Listed
  <2>1. disk[p] = manifest[p] /\ disk[p] \in Content /\ disk[p].form # "torn"
    BY <1>1 DEF IInv, Types, Listed, ManifestIsOfOneGeneration
  <2> QED BY <2>1, <1>1, <1>4
<1>9. Strays'
  <2> SUFFICES ASSUME NEW p \in Path \ Owned, disk'[p] \notin {Absent, Directory},
                      disk'[p].made > 0
               PROVE  disk'[p].made \in unlisted
    BY <1>1, <1>2 DEF Strays, IsFile
  <2>1. disk'[p].made = disk[p].made /\ IsFile(p)
    BY <1>4, <1>5 DEF IsFile
  <2> QED BY <2>1, <1>1 DEF IInv, Strays
<1> QED BY <1>1, <1>2, <1>7, <1>8, <1>9
        DEF IInv, Planned, Removing, Writing, ManifestIsOfOneGeneration,
            AttestationIdentifiesTheBytes

(* A run that ends with the disk as it is, after its manifest. *)
LEMMA EndListedStep ==
    ASSUME IInv, run.stage \in {"removing", "listed", "formatted", "ready"}, run' = NoRun,
           UNCHANGED <<disk, manifest, runs, changes, unlisted, theirs>>,
           AttestationIdentifiesTheBytes', DOMAIN attested'.manifest \subseteq Path
    PROVE  IInv'
<1>1. /\ disk' = disk /\ manifest' = manifest /\ runs' = runs /\ changes' = changes
      /\ unlisted' = unlisted /\ theirs' = theirs /\ Owned' = Owned
      /\ RunType' /\ run'.stage = "idle"
  BY DEF NoRun, RunType, Mode, Owned
<1>2. Types'
  BY <1>1 DEF IInv, Types
<1> QED BY <1>1, <1>2 DEF IInv, Planned, Removing, Writing, Listed, Strays, IsFile,
           ManifestIsOfOneGeneration

LEMMA RefreshStep == IInv /\ Refresh => IInv'
<1> SUFFICES ASSUME IInv, Refresh PROVE IInv'
  OBVIOUS
<1>1. /\ run.stage = "formatted" /\ RunType /\ runs # 0 /\ Owned \subseteq Path
      /\ disk' = disk /\ attested' = attested /\ runs' = runs
      /\ changes' = changes /\ unlisted' = unlisted /\ theirs' = theirs
  BY DEF Refresh, IInv, Types
<1>2. CASE run' = NoRun /\ UNCHANGED manifest
  <2>1. AttestationIdentifiesTheBytes' /\ DOMAIN attested'.manifest \subseteq Path
    BY <1>1 DEF IInv, Types, AttestationIdentifiesTheBytes
  <2> QED BY <1>1, <1>2, <2>1, EndListedStep
<1>3. CASE /\ manifest' = [p \in Owned |-> disk[p]]
           /\ run' = [run EXCEPT !.stage = "ready"]
  <2>1. run'.stage = "ready" /\ RunType'
    BY <1>1, <1>3 DEF RunType
  <2>2. Owned' = Owned
    BY <1>3 DEF Owned
  <2>3. manifest' \in [Owned' -> Content]
    BY <1>1, <1>3, <2>2 DEF IInv, Listed
  <2>4. Types'
    BY <1>1, <2>1, <2>2, <2>3 DEF IInv, Types
  <2>5. Listed'
    BY <1>1, <1>3, <2>1, <2>2 DEF Listed
  <2>6. Strays'
    BY <1>1, <2>1, <2>2 DEF IInv, Strays, IsFile
  <2>7. ManifestIsOfOneGeneration'
    BY <1>1, <1>3, <2>2 DEF IInv, Listed, ManifestIsOfOneGeneration
  <2> QED BY <1>1, <2>1, <2>4, <2>5, <2>6, <2>7
          DEF IInv, Planned, Removing, Writing, AttestationIdentifiesTheBytes
<1> QED BY <1>2, <1>3 DEF Refresh

LEMMA VerifyStep == IInv /\ Verify => IInv'
<1> SUFFICES ASSUME IInv, Verify PROVE IInv'
  OBVIOUS
<1>1. /\ run.stage \in {"listed", "ready"} /\ run' = NoRun
      /\ UNCHANGED <<disk, manifest, runs, changes, unlisted, theirs>>
  BY DEF Verify
<1>2. AttestationIdentifiesTheBytes' /\ DOMAIN attested'.manifest \subseteq Path
  <2>1. CASE attested' = [manifest |-> manifest, compiled |-> [p \in Owned |-> disk[p]]]
    BY <2>1, <1>1 DEF IInv, Types, Listed, AttestationIdentifiesTheBytes, Owned
  <2>2. CASE attested' = attested
    BY <2>2 DEF IInv, Types, AttestationIdentifiesTheBytes
  <2> QED BY <2>1, <2>2 DEF Verify
<1> QED BY <1>1, <1>2, EndListedStep

LEMMA CrashStep == IInv /\ Crash => IInv'
<1> SUFFICES ASSUME IInv, Crash PROVE IInv'
  OBVIOUS
<1>1. /\ run.stage # "idle" /\ RunType /\ runs # 0 /\ Tree(disk)
      /\ UNCHANGED <<manifest, attested, runs, changes, theirs>>
  BY DEF Crash, IInv, Types
<1>2. CASE run.stage = "writing"
  <2>1. EndUnlisted
    BY <1>2 DEF Crash
  <2>2. CASE disk' = disk
    BY <1>1, <2>1, <2>2, StraysOfTheRun, EndUnlistedStep DEF IsFile
  <2>3. CASE run.todo # {} /\ disk' = With(Item, Torn)
    <3>1. Torn \in Content /\ Torn.made = runs
      BY <1>1, MadeNow DEF IInv, Torn
    <3>2. Tree(disk')
      BY <1>2, <2>3, <3>1, WrittenDisk
    <3>3. ASSUME NEW p \in Path \ Owned, disk'[p] \notin {Absent, Directory},
                 disk'[p].made > 0
          PROVE  disk'[p].made \in unlisted \cup {runs}
      BY <1>2, <2>3, <3>1, <3>3, WrittenIsNotStray
    <3> QED BY <1>1, <2>1, <3>2, <3>3, EndUnlistedStep
  <2> QED BY <2>2, <2>3 DEF Crash
<1>3. CASE run.stage # "writing"
  <2>1. run' = NoRun /\ UNCHANGED <<disk, manifest, runs, changes, unlisted, theirs>>
    BY <1>1, <1>3 DEF Crash
  <2>2. AttestationIdentifiesTheBytes' /\ DOMAIN attested'.manifest \subseteq Path
    BY <1>1 DEF IInv, Types, AttestationIdentifiesTheBytes
  <2>3. run.stage \in {"removing", "listed", "formatted", "ready"}
    BY <1>1, <1>3 DEF RunType
  <2> QED BY <2>1, <2>2, <2>3, EndListedStep
<1> QED BY <1>2, <1>3

LEMMA ChangeStep ==
    ASSUME IInv, NEW p \in Path, Change(p)
    PROVE  IInv'
<1> DEFINE mine == [made |-> 0, form |-> "whole"]
<1>1. /\ run.stage = "idle" /\ changes < MaxChanges /\ changes' = changes + 1
      /\ manifest' = manifest /\ attested' = attested /\ run' = run /\ runs' = runs
      /\ unlisted' = unlisted /\ Owned' = Owned /\ Tree(disk)
  BY DEF Change, IInv, Types, Owned
<1>2. mine \in Content /\ mine.made = 0
  BY DEF Content
<1>3. /\ Tree(disk') /\ theirs' \subseteq Path
      /\ \A q \in Path : /\ disk'[q] \notin {Absent, Directory}
                        /\ disk'[q].made > 0 => disk'[q] = disk[q]
  <2>1. CASE /\ disk[p] # Directory /\ disk' = With(p, mine)
             /\ theirs' = IF p \in Owned THEN theirs \ {p} ELSE theirs \cup {p}
    <3>1. Tree(disk')
      BY <2>1, <1>1, <1>2, WithKeepsTree
    <3> HIDE DEF mine
    <3>2. disk'[p] = mine /\ \A q \in Path \ {p} : disk'[q] \in {Directory, disk[q]}
      BY <2>1, WithValues
    <3>3. theirs' \subseteq Path
      BY <2>1 DEF IInv, Types
    <3> QED BY <3>1, <3>2, <3>3, <1>2
  <2>2. CASE /\ IsFile(p) /\ disk' = [disk EXCEPT ![p] = Absent]
             /\ theirs' = theirs \ {p}
    <3>1. Tree(disk')
      BY <2>2, <1>1, AbsentKeepsTree
    <3>2. disk'[p] = Absent /\ \A q \in Path \ {p} : disk'[q] = disk[q]
      BY <2>2, <1>1 DEF Tree
    <3> QED BY <2>2, <3>1, <3>2 DEF IInv, Types
  <2> QED BY <2>1, <2>2 DEF Change
<1>4. Types'
  <2>1. changes' \in 0..MaxChanges
    BY <1>1 DEF IInv, Types
  <2>2. RunType' /\ run'.stage = "idle"
    BY <1>1 DEF IInv, Types, RunType
  <2> QED BY <1>1, <1>3, <2>1, <2>2 DEF IInv, Types
<1>5. Strays'
  BY <1>1, <1>3 DEF IInv, Strays, IsFile
<1> QED BY <1>1, <1>4, <1>5
        DEF IInv, Planned, Removing, Writing, Listed, ManifestIsOfOneGeneration,
            AttestationIdentifiesTheBytes

LEMMA StutterStep == IInv /\ UNCHANGED vars => IInv'
<1> SUFFICES ASSUME IInv, UNCHANGED vars PROVE IInv'
  OBVIOUS
<1>1. /\ disk' = disk /\ manifest' = manifest /\ attested' = attested /\ run' = run
      /\ runs' = runs /\ changes' = changes /\ unlisted' = unlisted /\ theirs' = theirs
  BY DEF vars
<1>2. Owned' = Owned /\ Fresh' = Fresh
  BY <1>1 DEF Owned, Fresh
<1>3. Types'
  BY <1>1, <1>2 DEF IInv, Types, RunType
<1> QED BY <1>1, <1>2, <1>3
        DEF IInv, Planned, Removing, Writing, Listed, Strays, Stale, IsFile,
            ManifestIsOfOneGeneration, AttestationIdentifiesTheBytes

LEMMA Consecution == IInv /\ [Next]_vars => IInv'
<1> SUFFICES ASSUME IInv, [Next]_vars PROVE IInv'
  OBVIOUS
<1>1. CASE \E artifacts \in (SUBSET Path) \ {{}}, mode \in Mode : Generate(artifacts, mode)
  BY <1>1, GenerateStep
<1>2. CASE RunStep
  BY <1>2, RemoveStep, RemovedStep, WriteStep, WriteManifestStep, FormatStep, RefreshStep,
     VerifyStep, CrashStep DEF RunStep
<1>3. CASE \E p \in Path : Change(p)
  BY <1>3, ChangeStep
<1>4. CASE UNCHANGED vars
  BY <1>4, StutterStep
<1> QED BY <1>1, <1>2, <1>3, <1>4 DEF Next

(* The invariant holds in every state of every history of the tree. *)
THEOREM Invariance == Spec => []IInv
BY Initially, Consecution, PTL DEF Spec
-----------------------------------------------------------------------------
(* Every variable has its type and what is above a file is a directory,    *)
(* over every failure, crash and change (ArtifactWriter).                  *)
THEOREM TypesHold == Spec => []TypeOK
BY Invariance, Promised, PTL

(* What is generated and not listed is of a run that did not complete: the *)
(* manifest never loses a file of a completed run (ArtifactWriter.write).  *)
THEOREM StraysAreKnown == Spec => []StrayFilesAreOfUnlistedRuns
BY Invariance, Promised, PTL

(* Whatever fails, every manifest is of the files of one run, and of none  *)
(* that a write of tslc cut short (_write_manifest, refresh_manifest).     *)
THEOREM OneGeneration == Spec => []ManifestIsOfOneGeneration
<1>1. IInv => ManifestIsOfOneGeneration
  BY DEF IInv
<1> QED BY <1>1, Invariance, PTL

(* What an attestation names is what was compiled                          *)
(* (run_generation_command, write_verification_attestation).               *)
THEOREM Attested == Spec => []AttestationIdentifiesTheBytes
<1>1. IInv => AttestationIdentifiesTheBytes
  BY DEF IInv
<1> QED BY <1>1, Invariance, PTL

(* A manifest adopts no file of the owner: what it lists where the owner   *)
(* put a file is a file that a run has written there since.                *)
NoneAdopted == \A p \in theirs \cap Owned : IsFile(p) => disk[p].made > 0

LEMMA AdoptionStep == IInv /\ NoneAdopted /\ [Next]_vars => NoneAdopted'
<1> SUFFICES ASSUME IInv, NoneAdopted, [Next]_vars, NEW p \in theirs', p \in Owned',
                    disk'[p] \notin {Absent, Directory}
             PROVE  disk'[p].made > 0
  BY DEF NoneAdopted, IsFile
<1>1. /\ Tree(disk) /\ RunType /\ Owned \subseteq Path /\ theirs \subseteq Path
      /\ run.stage # "idle" => runs > 0
  BY DEF IInv, Types
<1>2. CASE theirs' = theirs /\ Owned' = Owned /\ disk'[p] = disk[p]
  BY <1>2 DEF NoneAdopted, IsFile
<1>3. CASE \E artifacts \in (SUBSET Path) \ {{}}, mode \in Mode : Generate(artifacts, mode)
  BY <1>2, <1>3 DEF Generate, Owned
<1>4. CASE Remove
  <2>1. theirs' = theirs /\ Owned' = Owned /\ p \in Path
    BY <1>1, <1>4 DEF Remove, Owned
  <2>2. disk' = disk \/ disk' = [disk EXCEPT ![Item] = Absent]
    BY <1>4 DEF Remove
  <2>3. disk'[p] = disk[p]
    BY <1>1, <2>1, <2>2 DEF Tree
  <2> QED BY <1>2, <2>1, <2>3
<1>5. CASE Removed \/ Refresh \/ Verify \/ UNCHANGED vars
  <2>1. theirs' = theirs /\ Owned' = Owned /\ disk' = disk
    BY <1>5 DEF Removed, Refresh, Verify, vars, Owned
  <2> QED BY <1>2, <2>1
<1>6. CASE Write \/ Crash
  <2>1. /\ theirs' = theirs /\ Owned' = Owned /\ p \in Path /\ run.stage # "idle"
        /\ \/ disk' = disk
           \/ /\ run.stage = "writing" /\ run.todo # {}
              /\ disk' = With(Item, Fresh) \/ disk' = With(Item, Torn)
    BY <1>1, <1>6 DEF Write, Crash, Owned
  <2>2. /\ Fresh \in Content /\ Fresh.made = runs
        /\ Torn \in Content /\ Torn.made = runs /\ runs > 0
    BY <1>1, <2>1, MadeNow DEF IInv, Fresh, Torn
  <2>3. CASE disk'[p] = disk[p]
    BY <1>2, <2>1, <2>3
  <2>4. CASE disk'[p] # disk[p]
    BY <2>1, <2>2, <2>4, WrittenDisk
  <2> QED BY <2>3, <2>4
<1>7. CASE WriteManifest
  <2>1. theirs' = theirs /\ disk' = disk
    BY <1>7 DEF WriteManifest
  <2>2. CASE manifest' = manifest
    BY <1>2, <2>1, <2>2 DEF Owned
  <2>3. CASE /\ run.stage = "writing" /\ run.todo = {} /\ ~run.failed
             /\ manifest' = [q \in run.artifacts |-> Fresh]
    <3>1. p \in run.artifacts
      BY <2>3 DEF Owned
    <3>2. disk[p] = Fresh
      BY <2>3, <3>1 DEF IInv, Writing
    <3> QED BY <1>1, <2>1, <2>3, <3>2 DEF Fresh
  <2> QED BY <1>7, <2>2, <2>3 DEF WriteManifest, EndUnlisted
<1>8. CASE Format
  <2>1. theirs' = theirs /\ Owned' = Owned /\ p \in Path
    BY <1>1, <1>8 DEF Format, Owned
  <2>2. CASE IsFile(p) /\ disk'[p] \in Reformatted(disk[p])
    <3>1. disk[p] \in Content
      BY <1>1, <2>1, <2>2 DEF Tree, IsFile
    <3> QED BY <2>1, <2>2, <3>1, ReformattedIsContent DEF NoneAdopted
  <2> QED BY <1>2, <1>8, <2>1, <2>2, FormattedDisk
<1>9. ASSUME NEW q \in Path, Change(q) PROVE disk'[p].made > 0
  <2>1. Owned' = Owned
    BY <1>9 DEF Change, Owned
  <2>2. CASE p = q
    BY <1>1, <1>9, <2>1, <2>2 DEF Change
  <2>3. CASE p # q
    <3>1. p \in theirs /\ p \in Path
      BY <1>1, <1>9, <2>1, <2>3 DEF Change
    <3>2. disk'[p] \in {Directory, disk[p]}
      BY <1>1, <1>9, <2>3, <3>1, WithValues DEF Change, Tree
    <3> QED BY <2>1, <3>1, <3>2 DEF NoneAdopted, IsFile
  <2> QED BY <2>2, <2>3
<1> QED BY <1>3, <1>4, <1>5, <1>6, <1>7, <1>8, <1>9 DEF Next, RunStep

(* What OwnersBytesSurvive says of one step. *)
Survives(p) ==
    run.stage # "idle" /\ IsFile(p) /\ disk[p].made = 0 =>
      \/ disk'[p] = disk[p]
      \/ run.stage = "writing" /\ p \in run.artifacts /\ disk'[p] \in {Fresh, Torn}
      \/ run.stage = "listed" /\ p \in Matched /\ disk'[p] \in Reformatted(disk[p])
      \/ run.stage = "removing" /\ p \notin theirs \cup run.artifacts
         /\ disk'[p] = Absent

(* A write spares every file that is no artifact, also above the artifact. *)
LEMMA WrittenSpares ==
    ASSUME IInv, run.stage = "writing", run.todo # {}, NEW c \in Content, c.made = runs,
           NEW p \in Path \ run.artifacts, IsFile(p)
    PROVE  With(Item, c)[p] = disk[p]
<1>1. p # Item /\ Item \in Path /\ Item \in run.artifacts
  BY WrittenDisk
<1>2. p \notin Above[Item]
  BY <1>1 DEF IInv, Planned
<1>3. \A q \in Path \ ({Item} \cup Above[Item]) : With(Item, c)[q] = disk[q]
  BY <1>1, WithValues
<1> QED BY <1>1, <1>2, <1>3

LEMMA SurvivalStep ==
    ASSUME IInv, NoneAdopted, [Next]_vars, NEW p \in Path
    PROVE  Survives(p)
<1> SUFFICES ASSUME run.stage # "idle", IsFile(p), disk[p].made = 0, disk'[p] # disk[p]
             PROVE  \/ run.stage = "writing" /\ p \in run.artifacts
                       /\ disk'[p] \in {Fresh, Torn}
                    \/ run.stage = "listed" /\ p \in Matched
                       /\ disk'[p] \in Reformatted(disk[p])
                    \/ run.stage = "removing" /\ p \notin theirs \cup run.artifacts
                       /\ disk'[p] = Absent
  BY DEF Survives
<1>1. Tree(disk) /\ RunType
  BY DEF IInv, Types
<1>2. CASE Remove
  <2>1. disk' = [disk EXCEPT ![Item] = Absent] /\ run.stage = "removing"
    BY <1>2 DEF Remove
  <2>2. p = Item /\ disk'[p] = Absent
    BY <1>1, <2>1 DEF Tree
  <2>3. Item \in Stale(run.artifacts)
    BY <1>1, <1>2, ItemIsToDo DEF Remove, IInv, Removing
  <2>4. p \in Owned /\ p \notin run.artifacts
    BY <2>2, <2>3 DEF Stale
  <2>5. p \notin theirs
    BY <2>4 DEF NoneAdopted
  <2> QED BY <2>1, <2>2, <2>4, <2>5
<1>3. CASE Removed \/ WriteManifest \/ Refresh \/ Verify \/ UNCHANGED vars
  BY <1>3 DEF Removed, WriteManifest, Refresh, Verify, vars
<1>4. CASE Write \/ Crash
  <2>1. /\ run.stage = "writing" /\ run.todo # {}
        /\ disk' = With(Item, Fresh) \/ disk' = With(Item, Torn)
    BY <1>4 DEF Write, Crash
  <2>2. /\ Fresh \in Content /\ Fresh.made = runs
        /\ Torn \in Content /\ Torn.made = runs
    BY MadeNow DEF IInv, Fresh, Torn
  <2>3. p \in run.artifacts
    BY <2>1, <2>2, WrittenSpares
  <2>4. p = Item /\ disk'[p] \in {Fresh, Torn}
    BY <2>1, <2>2, <2>3, WrittenDisk
  <2> QED BY <2>1, <2>3, <2>4
<1>5. CASE Format
  BY <1>5, FormattedDisk DEF Format
<1>6. ~(\E artifacts \in (SUBSET Path) \ {{}}, mode \in Mode : Generate(artifacts, mode))
      /\ ~(\E q \in Path : Change(q))
  BY DEF Generate, Change
<1> QED BY <1>2, <1>3, <1>4, <1>5, <1>6 DEF Next, RunStep

(* No run changes a byte of the owner's, except by writing an artifact, by *)
(* the formatter, or by taking away an edited listed file it does not emit *)
(* (_remove_stale_manifest_paths, _plan_writes).                           *)
THEOREM OwnersFilesSurvive == Spec => OwnersBytesSurvive
<1>1. Init => NoneAdopted
  BY DEF Init, NoneAdopted
<1>2. IInv /\ NoneAdopted /\ [Next]_vars =>
        [\A p \in Path :
           run.stage # "idle" /\ IsFile(p) /\ disk[p].made = 0 =>
             \/ disk'[p] = disk[p]
             \/ run.stage = "writing" /\ p \in run.artifacts /\ disk'[p] \in {Fresh, Torn}
             \/ run.stage = "listed" /\ p \in Matched /\ disk'[p] \in Reformatted(disk[p])
             \/ run.stage = "removing" /\ p \notin theirs \cup run.artifacts
                /\ disk'[p] = Absent]_vars
  BY SurvivalStep DEF Survives
<1> QED BY <1>1, <1>2, Invariance, AdoptionStep, PTL DEF Spec, OwnersBytesSurvive
=============================================================================
