------------------------ MODULE AuthoringServerProofs ------------------------
(***************************************************************************)
(* Proofs about AuthoringServer, for any documents, requests and tasks,    *)
(* and any number of edits, saves and configuration changes.  Generations  *)
(* stand for texts: a check whose generation is still that of its          *)
(* workspace has read the documents as they still are.                     *)
(***************************************************************************)
EXTENDS AuthoringServer, FiniteSetTheorems, TLAPS

Texts == [Path -> Nat]

SnapshotSet == [gen : Nat, texts : Texts, versions : Texts,
                indexed : BOOLEAN, errors : SUBSET Path]

Workspace == [gen : Nat, docs : Texts, closed : BOOLEAN,
              latest : SnapshotSet, spoke : Nat \cup {-1}]

TaskSet == [stage : {"none", "debounce", "queued", "checking", "returned", "failed"},
            ws : Nat, gen : Nat, snapshot : SnapshotSet]

TypeInv ==
  /\ editor \in Texts
  /\ space \in Seq(Workspace)
  /\ task \in [Task -> TaskSet]
  /\ complete \in BOOLEAN /\ stopped \in BOOLEAN
  /\ request \in [Request -> {"idle", "waiting", "released", "answered"}]
  /\ edits \in Nat

(* A coroutine belongs to a workspace that was made, and asks for a        *)
(* generation that workspace has had; while that one is the current one    *)
(* its check has read the documents as they are.                           *)
TaskOK(t) ==
  task[t].stage # "none" =>
    /\ task[t].ws \in 1..Len(space)
    /\ task[t].gen <= Own(t).gen
    /\ task[t].stage = "checking" /\ task[t].gen = Own(t).gen
         => task[t].snapshot.texts = Own(t).docs

TasksOK == \A t \in Task : TaskOK(t)

(* What is shown is what was published last, and it was addressed.         *)
ShownOK == ShownIsLastPublished /\ last \subseteq published

(* Before the first workspace nobody waits, and while no check of it has   *)
(* completed nobody is released.                                           *)
FirstOK ==
  ~stopped =>
    /\ Current = 0 =>
         /\ ~complete
         /\ \A r \in Request : request[r] \in {"idle", "answered"}
    /\ Current = 1 /\ Unchecked =>
         /\ ~complete /\ ~space[1].latest.indexed
         /\ \A r \in Request : request[r] # "released"
         /\ \A t \in Task : task[t].stage \notin {"returned", "failed"}

IInv == TypeInv /\ TasksOK /\ SnapshotDescribesOneText /\ ShownOK /\ FirstOK
----------------------------------------------------------------------------
(* The documents of a workspace are finitely many. *)
LEMMA NewIsWorkspace ==
  ASSUME NEW docs \in Texts
  PROVE  NewWorkspace(docs) \in Workspace
<1>1. Cardinality(OpenIn(docs)) \in Nat
  BY AuthoringServerAssumption, FS_Subset, FS_CardinalityType DEF OpenIn
<1>2. Closed \in Texts
  BY DEF Closed, Texts
<1> QED BY <1>1, <1>2 DEF NewWorkspace, Workspace, NoSnapshot, SnapshotSet

(* Replacing one workspace of the list by another. *)
LEMMA SpaceUpdate ==
  ASSUME NEW s \in Seq(Workspace), NEW i \in 1..Len(s), NEW w \in Workspace
  PROVE  /\ [s EXCEPT ![i] = w] \in Seq(Workspace)
         /\ Len([s EXCEPT ![i] = w]) = Len(s)
         /\ \A j \in 1..Len(s) : [s EXCEPT ![i] = w][j] = IF j = i THEN w ELSE s[j]
OBVIOUS

(* The invariant speaks of neither editor nor counters. *)
LEMMA Unchanged == IInv /\ UNCHANGED vars => IInv'
BY DEF IInv, vars, TypeInv, TasksOK, TaskOK, Own, SnapshotDescribesOneText, ShownOK,
       ShownIsLastPublished, FirstOK, Current, Unchecked

LEMMA InitInvariant == Init => IInv
<1> SUFFICES ASSUME Init PROVE IInv
  OBVIOUS
<1>1. Closed \in Texts /\ NoSnapshot \in SnapshotSet
  BY DEF Closed, Texts, NoSnapshot, SnapshotSet
<1>2. NewWorkspace(Closed) \in Workspace
  BY <1>1, NewIsWorkspace
<1>3. NoTask \in TaskSet /\ NoTask.stage = "none"
  BY <1>1 DEF NoTask, TaskSet
<1>4. CASE space = <<>>
  <2>1. task = [t \in Task |-> NoTask]
    BY <1>4 DEF Init
  <2>2. space \in Seq(Workspace) /\ Len(space) = 0
    BY <1>4
  <2>3. TypeInv
    BY <1>1, <1>3, <2>1, <2>2 DEF Init, TypeInv
  <2>4. TasksOK /\ SnapshotDescribesOneText
    BY <1>3, <2>1, <2>2 DEF TasksOK, TaskOK, SnapshotDescribesOneText
  <2>5. ShownOK /\ FirstOK
    BY <2>2 DEF Init, ShownOK, ShownIsLastPublished, FirstOK, Current
  <2> QED BY <2>3, <2>4, <2>5 DEF IInv
<1>5. CASE space = <<NewWorkspace(Closed)>>
  <2> DEFINE w == NewWorkspace(Closed)
             first == [NoTask EXCEPT !.stage = "debounce", !.ws = 1]
  <2>1. first \in TaskSet /\ first.stage = "debounce" /\ first.ws = 1 /\ first.gen = 0
    BY <1>1 DEF NoTask, TaskSet
  <2>2. /\ w.latest = NoSnapshot /\ w.gen \in Nat
        /\ NoSnapshot.texts = NoSnapshot.versions /\ ~NoSnapshot.indexed
    BY <1>2 DEF NewWorkspace, NoSnapshot, Workspace
  <2>3. task \in [Task -> {first, NoTask}]
    BY <1>5 DEF Init
  <2>4. space \in Seq(Workspace) /\ Len(space) = 1 /\ space[1] = w
    BY <1>2, <1>5
  <2> HIDE DEF w, first
  <2>5. TypeInv
    BY <1>1, <1>3, <2>1, <2>3, <2>4 DEF Init, TypeInv
  <2>6. TasksOK
    BY <1>3, <2>1, <2>2, <2>3, <2>4 DEF TasksOK, TaskOK, Own
  <2>7. SnapshotDescribesOneText
    BY <1>3, <2>1, <2>2, <2>3, <2>4 DEF SnapshotDescribesOneText
  <2> QED BY <1>1, <1>3, <2>1, <2>2, <2>3, <2>4, <2>5, <2>6, <2>7
          DEF Init, IInv, ShownOK, ShownIsLastPublished, FirstOK, Current, Unchecked
<1> QED BY <1>4, <1>5 DEF Init
----------------------------------------------------------------------------
(* Notifications *)

(* The task a notification launches is new; the others go on. *)
LEMMA Launched ==
  ASSUME TypeInv, NEW stage \in {"debounce", "queued"}, NEW ws \in Nat, NEW gen \in Nat,
         Launch(stage, ws, gen)
  PROVE  /\ task' \in [Task -> TaskSet]
         /\ \A t \in Task : \/ task'[t] = task[t]
                            \/ task'[t].stage = stage /\ task'[t].ws = ws /\ task'[t].gen = gen
<1> DEFINE new == [stage |-> stage, ws |-> ws, gen |-> gen, snapshot |-> NoSnapshot]
<1>1. new \in TaskSet /\ new.stage = stage /\ new.ws = ws /\ new.gen = gen
  BY DEF TaskSet, NoSnapshot, SnapshotSet, Closed, Texts
<1>2. task' = [task EXCEPT ![Min(Idle)] = new]
  BY DEF Launch
<1> HIDE DEF new
<1>3. task' \in [Task -> TaskSet] /\ \A t \in Task : task'[t] = task[t] \/ task'[t] = new
  BY <1>1, <1>2 DEF TypeInv
<1>4. ASSUME NEW t \in Task, task'[t] = new
      PROVE  task'[t].stage = stage /\ task'[t].ws = ws /\ task'[t].gen = gen
  BY <1>1, <1>4
<1> QED BY <1>3, <1>4

(* A text typed or a document closed moves the generation on, past all     *)
(* that was asked for before.                                              *)
LEMMA ReplaceInvariant ==
  ASSUME IInv, NEW p \in Path, NEW text \in Nat, Replace(p, text)
  PROVE  IInv'
<1>1. /\ editor' = [editor EXCEPT ![p] = text] /\ edits' = edits + 1
      /\ complete' = complete /\ published' = published /\ shown' = shown
      /\ last' = last /\ request' = request /\ stopped' = stopped
  BY DEF Replace
<1>2. editor' \in Texts /\ edits' \in Nat
  BY <1>1 DEF IInv, TypeInv, Texts
<1>3. ShownOK'
  BY <1>1 DEF IInv, ShownOK, ShownIsLastPublished
<1>4. CASE Current = 0
  <2>1. space' = space /\ task' = task
    BY <1>4 DEF Replace
  <2> QED BY <1>1, <1>2, <1>3, <2>1
          DEF IInv, TypeInv, TasksOK, TaskOK, Own, SnapshotDescribesOneText, FirstOK,
              Current, Unchecked
<1>5. CASE Current # 0
  <2> DEFINE c == Current
             old == space[c]
             w == [old EXCEPT !.docs = [@ EXCEPT ![p] = text], !.gen = @ + 1]
  <2>1. c \in 1..Len(space) /\ old \in Workspace /\ space \in Seq(Workspace)
    BY <1>5 DEF IInv, TypeInv, Current
  <2>2. /\ w \in Workspace /\ w.gen = old.gen + 1 /\ w.latest = old.latest
        /\ w.spoke = old.spoke
    <3>1. [old.docs EXCEPT ![p] = text] \in Texts /\ old.gen + 1 \in Nat
      BY <2>1 DEF Workspace, Texts
    <3> QED BY <2>1, <3>1 DEF Workspace
  <2>3. space' = [space EXCEPT ![c] = w]
    BY <1>5 DEF Replace
  <2>4. Launch("debounce", c, old.gen + 1)
    BY <1>5 DEF Replace
  <2>5. c \in Nat /\ old.gen \in Nat /\ old.gen + 1 \in Nat
    BY <2>1 DEF Workspace
  <2> HIDE DEF c, w
  <2>6. /\ space' \in Seq(Workspace) /\ Len(space') = Len(space)
        /\ \A j \in 1..Len(space) : space'[j] = IF j = c THEN w ELSE space[j]
    BY <2>1, <2>2, <2>3, SpaceUpdate
  <2>7. /\ task' \in [Task -> TaskSet]
        /\ \A t \in Task : \/ task'[t] = task[t]
                           \/ /\ task'[t].stage = "debounce"
                              /\ task'[t].ws = c /\ task'[t].gen = old.gen + 1
    BY <2>4, <2>5, Launched DEF IInv
  <2>8. TypeInv'
    BY <1>1, <1>2, <2>6, <2>7 DEF IInv, TypeInv
  <2>9. TasksOK'
    <3> SUFFICES ASSUME NEW t \in Task, task'[t].stage # "none"
                 PROVE  TaskOK(t)'
      BY DEF TasksOK, TaskOK
    <3>1. CASE task'[t] = task[t]
      <4>1. TaskOK(t) /\ task[t].gen \in Nat /\ task[t].ws \in 1..Len(space)
        BY <3>1 DEF IInv, TasksOK, TaskOK, TypeInv, TaskSet
      <4> QED BY <2>2, <2>5, <2>6, <3>1, <4>1 DEF TaskOK, Own
    <3>2. CASE task'[t] # task[t]
      BY <2>1, <2>2, <2>5, <2>6, <2>7, <3>2 DEF TaskOK, Own
    <3> QED BY <3>1, <3>2
  <2>10. SnapshotDescribesOneText'
    BY <2>2, <2>6, <2>7 DEF IInv, SnapshotDescribesOneText
  <2>11. FirstOK'
    BY <1>1, <2>1, <2>2, <2>6, <2>7 DEF IInv, FirstOK, Current, Unchecked
  <2> QED BY <1>3, <2>8, <2>9, <2>10, <2>11 DEF IInv
<1> QED BY <1>4, <1>5

LEMMA SaveInvariant == IInv /\ DidSave => IInv'
<1> SUFFICES ASSUME IInv, DidSave PROVE IInv'
  OBVIOUS
<1>1. /\ editor' = editor /\ space' = space /\ complete' = complete
      /\ published' = published /\ shown' = shown /\ last' = last
      /\ request' = request /\ edits' = edits /\ stopped' = stopped /\ Current # 0
  BY DEF DidSave
<1> DEFINE c == Current
<1>2. c \in 1..Len(space) /\ space[c] \in Workspace
  BY <1>1 DEF IInv, TypeInv, Current
<1>3. c \in Nat /\ space[c].gen \in Nat
  BY <1>2 DEF Workspace
<1>4. Launch("queued", c, space[c].gen)
  BY DEF DidSave
<1> HIDE DEF c
<1>5. /\ task' \in [Task -> TaskSet]
      /\ \A t \in Task : \/ task'[t] = task[t]
                        \/ /\ task'[t].stage = "queued"
                           /\ task'[t].ws = c /\ task'[t].gen = space[c].gen
  BY <1>3, <1>4, Launched DEF IInv
<1>6. TypeInv'
  BY <1>1, <1>5 DEF IInv, TypeInv
<1>7. TasksOK'
  BY <1>1, <1>2, <1>3, <1>5 DEF IInv, TasksOK, TaskOK, Own
<1>8. SnapshotDescribesOneText' /\ ShownOK'
  BY <1>1, <1>5 DEF IInv, SnapshotDescribesOneText, ShownOK, ShownIsLastPublished
<1>9. FirstOK'
  BY <1>1, <1>5 DEF IInv, FirstOK, Current, Unchecked
<1> QED BY <1>6, <1>7, <1>8, <1>9 DEF IInv

(* Closing the last workspace leaves the list as long as it was, and every *)
(* workspace with the documents and the snapshot it had; its generation    *)
(* moves past what was asked of it.                                        *)
LEMMA ClosesTheLast ==
  ASSUME TypeInv
  PROVE  /\ OldClosed \in Seq(Workspace) /\ Len(OldClosed) = Len(space)
         /\ \A j \in 1..Len(space) :
               /\ OldClosed[j].docs = space[j].docs
               /\ OldClosed[j].latest = space[j].latest
               /\ OldClosed[j].spoke = space[j].spoke
               /\ OldClosed[j].gen \in {space[j].gen, space[j].gen + 1}
<1>1. CASE Current = 0
  BY <1>1 DEF TypeInv, Current, OldClosed
<1>2. CASE Current # 0
  <2> DEFINE c == Current
             w == [space[c] EXCEPT !.closed = TRUE, !.gen = @ + 1]
  <2>1. c \in 1..Len(space) /\ space[c] \in Workspace
    BY <1>2 DEF TypeInv, Current
  <2>2. /\ w \in Workspace /\ w.docs = space[c].docs /\ w.latest = space[c].latest
        /\ w.spoke = space[c].spoke /\ w.gen = space[c].gen + 1
    <3>1. space[c].gen + 1 \in Nat
      BY <2>1 DEF Workspace
    <3> QED BY <2>1, <3>1 DEF Workspace
  <2>3. OldClosed = [space EXCEPT ![c] = w]
    BY <1>2 DEF OldClosed
  <2> HIDE DEF c, w
  <2>4. /\ OldClosed \in Seq(Workspace) /\ Len(OldClosed) = Len(space)
        /\ \A j \in 1..Len(space) : OldClosed[j] = IF j = c THEN w ELSE space[j]
    BY <2>1, <2>2, <2>3, SpaceUpdate DEF TypeInv
  <2> QED BY <2>2, <2>4
<1> QED BY <1>1, <1>2

(* The tasks of a closed workspace stay what they are for it. *)
LEMMA ClosingKeepsTasks ==
  ASSUME IInv, NEW t \in Task, task[t].stage # "none"
  PROVE  /\ task[t].ws \in 1..Len(space)
         /\ task[t].gen <= OldClosed[task[t].ws].gen
         /\ task[t].stage = "checking" /\ task[t].gen = OldClosed[task[t].ws].gen
              => task[t].snapshot.texts = OldClosed[task[t].ws].docs
<1>1. /\ TaskOK(t) /\ task[t].gen \in Nat /\ TypeInv
  BY DEF IInv, TypeInv, TasksOK, TaskSet
<1> DEFINE w == task[t].ws
<1>2. w \in 1..Len(space) /\ space[w].gen \in Nat
  <2>1. w \in 1..Len(space)
    BY <1>1 DEF TaskOK
  <2>2. space[w] \in Workspace
    BY <1>1, <2>1 DEF TypeInv
  <2> QED BY <2>1, <2>2 DEF Workspace
<1>3. OldClosed[w].docs = space[w].docs /\ OldClosed[w].gen \in {space[w].gen, space[w].gen + 1}
  BY <1>1, <1>2, ClosesTheLast
<1> HIDE DEF w
<1>4. /\ task[t].gen <= space[w].gen
      /\ task[t].stage = "checking" /\ task[t].gen = space[w].gen
           => task[t].snapshot.texts = space[w].docs
  BY <1>1 DEF TaskOK, Own, w
<1>5. /\ w \in 1..Len(space)
      /\ task[t].gen <= OldClosed[w].gen
      /\ task[t].stage = "checking" /\ task[t].gen = OldClosed[w].gen
           => task[t].snapshot.texts = OldClosed[w].docs
  BY <1>1, <1>2, <1>3, <1>4
<1> QED BY <1>5 DEF w

(* A configuration change appends a workspace with the documents of the    *)
(* one before, unchecked, and one task for it.                             *)
LEMMA ConfigureInvariant == IInv /\ Configure => IInv'
<1> SUFFICES ASSUME IInv, Configure PROVE IInv'
  OBVIOUS
<1> DEFINE n == Len(space) + 1
           new == NewWorkspace(Reopened)
<1>1. /\ editor' = editor /\ published' = published /\ shown' = shown /\ last' = last
      /\ request' = request /\ edits' = edits /\ stopped' = stopped
      /\ complete' = FALSE /\ ~stopped
      /\ space' = Append(OldClosed, new)
      /\ Launch("queued", n, new.gen)
  BY DEF Configure, CanStart, Current
<1>2. Reopened \in Texts
  <2>1. CASE Current = 0
    BY <2>1 DEF Reopened, Closed, Texts
  <2>2. CASE Current # 0
    <3>1. space[Current] \in Workspace
      BY <2>2 DEF IInv, TypeInv, Current
    <3> QED BY <2>2, <3>1 DEF Reopened, Workspace
  <2> QED BY <2>1, <2>2
<1>3. /\ new \in Workspace /\ new.docs = Reopened /\ new.spoke = -1
      /\ new.latest = NoSnapshot /\ new.gen \in Nat
  BY <1>2, NewIsWorkspace DEF NewWorkspace, Workspace
<1>4. NoSnapshot.texts = NoSnapshot.versions /\ ~NoSnapshot.indexed
  BY DEF NoSnapshot
<1>5. TypeInv /\ Len(space) \in Nat
  BY DEF IInv, TypeInv
<1> HIDE DEF new
<1>6. /\ space' \in Seq(Workspace) /\ Len(space') = n /\ space'[n] = new
      /\ \A j \in 1..Len(space) : space'[j] = OldClosed[j]
  BY <1>1, <1>3, <1>5, ClosesTheLast
<1>7. n \in Nat /\ n \in 1..n /\ \A j \in 1..n : j = n \/ j \in 1..Len(space)
  BY <1>5
<1> HIDE DEF n
<1>8. /\ task' \in [Task -> TaskSet]
      /\ \A t \in Task : \/ task'[t] = task[t]
                        \/ /\ task'[t].stage = "queued"
                           /\ task'[t].ws = n /\ task'[t].gen = new.gen
  BY <1>1, <1>3, <1>5, <1>7, Launched
<1>9. TypeInv'
  BY <1>1, <1>6, <1>8 DEF IInv, TypeInv
<1>10. TasksOK'
  <2> SUFFICES ASSUME NEW t \in Task, task'[t].stage # "none"
               PROVE  TaskOK(t)'
    BY DEF TasksOK, TaskOK
  <2>1. CASE task'[t] = task[t]
    <3>1. task[t].ws \in 1..n /\ space'[task[t].ws] = OldClosed[task[t].ws]
      BY <1>5, <1>6, <2>1, ClosingKeepsTasks DEF n
    <3> QED BY <1>6, <2>1, <3>1, ClosingKeepsTasks DEF TaskOK, Own
  <2>2. CASE task'[t] # task[t]
    BY <1>3, <1>6, <1>7, <1>8, <2>2 DEF TaskOK, Own
  <2> QED BY <2>1, <2>2
<1>11. SnapshotDescribesOneText'
  <2>1. \A j \in 1..n : space'[j].latest.texts = space'[j].latest.versions
    BY <1>3, <1>4, <1>5, <1>6, <1>7, ClosesTheLast DEF IInv, SnapshotDescribesOneText
  <2>2. \A t \in Task : task'[t].stage = "returned" =>
            task'[t].snapshot.texts = task'[t].snapshot.versions
    BY <1>8 DEF IInv, SnapshotDescribesOneText
  <2> QED BY <1>6, <2>1, <2>2 DEF SnapshotDescribesOneText
<1>12. ShownOK'
  BY <1>1 DEF IInv, ShownOK, ShownIsLastPublished
<1>13. FirstOK'
  <2> SUFFICES ASSUME Len(space) = 0
               PROVE  /\ ~new.latest.indexed
                      /\ \A r \in Request : request[r] # "released"
                      /\ \A t \in Task : task'[t].stage \notin {"returned", "failed"}
    BY <1>1, <1>5, <1>6 DEF FirstOK, Current, Unchecked, n
  <2>1. \A t \in Task : task[t].stage = "none"
    BY DEF IInv, TasksOK, TaskOK
  <2> QED BY <1>1, <1>3, <1>4, <1>8, <2>1 DEF IInv, FirstOK, Current
<1> QED BY <1>9, <1>10, <1>11, <1>12, <1>13 DEF IInv

LEMMA ShutdownInvariant == IInv /\ Shutdown => IInv'
<1> SUFFICES ASSUME IInv, Shutdown PROVE IInv'
  OBVIOUS
<1>1. /\ editor' = editor /\ published' = published /\ shown' = shown /\ last' = last
      /\ edits' = edits /\ stopped' = TRUE /\ complete' = TRUE /\ task' = task
      /\ space' = OldClosed /\ request' = Release
  BY DEF Shutdown
<1>2. TypeInv
  BY DEF IInv
<1>3. /\ space' \in Seq(Workspace) /\ Len(space') = Len(space)
      /\ \A j \in 1..Len(space) : space'[j].latest = space[j].latest
  BY <1>1, <1>2, ClosesTheLast
<1>4. TypeInv'
  BY <1>1, <1>2, <1>3 DEF TypeInv, Release
<1>5. TasksOK'
  BY <1>1, <1>3, ClosingKeepsTasks DEF TasksOK, TaskOK, Own
<1>6. SnapshotDescribesOneText'
  BY <1>1, <1>3 DEF IInv, SnapshotDescribesOneText
<1> QED BY <1>1, <1>4, <1>5, <1>6 DEF IInv, ShownOK, ShownIsLastPublished, FirstOK
----------------------------------------------------------------------------
(* Requests *)

LEMMA AskInvariant ==
  ASSUME IInv, NEW r \in Request, Ask(r)
  PROVE  IInv'
<1>1. /\ editor' = editor /\ space' = space /\ complete' = complete
      /\ published' = published /\ shown' = shown /\ last' = last
      /\ task' = task /\ edits' = edits /\ stopped' = stopped
      /\ request' = [request EXCEPT ![r] =
           IF Ready(r) THEN "answered" ELSE IF complete THEN "released" ELSE "waiting"]
  BY DEF Ask
<1>2. TypeInv'
  BY <1>1 DEF IInv, TypeInv
<1>3. FirstOK'
  BY <1>1 DEF IInv, TypeInv, FirstOK, Current, Unchecked, Ready
<1> QED BY <1>1, <1>2, <1>3 DEF IInv, TasksOK, TaskOK, Own, SnapshotDescribesOneText,
                                ShownOK, ShownIsLastPublished

LEMMA AnswerInvariant ==
  ASSUME IInv, NEW r \in Request, Answer(r)
  PROVE  IInv'
<1>1. /\ editor' = editor /\ space' = space /\ complete' = complete
      /\ published' = published /\ shown' = shown /\ last' = last
      /\ task' = task /\ edits' = edits /\ stopped' = stopped
      /\ request' = [request EXCEPT ![r] = "answered"]
  BY DEF Answer
<1>2. TypeInv'
  BY <1>1 DEF IInv, TypeInv
<1>3. FirstOK'
  BY <1>1 DEF IInv, TypeInv, FirstOK, Current, Unchecked
<1> QED BY <1>1, <1>2, <1>3 DEF IInv, TasksOK, TaskOK, Own, SnapshotDescribesOneText,
                                ShownOK, ShownIsLastPublished
----------------------------------------------------------------------------
(* Tasks.  A step of a task changes that task alone. *)

NoTaskIsTask == NoTask \in TaskSet /\ NoTask.stage = "none"

LEMMA NoTaskType == NoTaskIsTask
BY DEF NoTaskIsTask, NoTask, TaskSet, NoSnapshot, SnapshotSet, Closed, Texts

(* A task that ends asks for nothing. *)
LEMMA DoneTask ==
  ASSUME TypeInv, NEW t \in Task, Done(t)
  PROVE  /\ task' \in [Task -> TaskSet] /\ task'[t].stage = "none"
         /\ \A u \in Task \ {t} : task'[u] = task[u]
BY NoTaskType DEF TypeInv, Done, NoTaskIsTask

(* A step that only moves one task to a stage before the check or ends it, *)
(* or fails it once its workspace has been spoken for.                     *)
LEMMA TaskMoves ==
  ASSUME IInv, NEW t \in Task, space' = space, editor' = editor, edits' = edits,
         complete' = complete, published' = published, shown' = shown, last' = last,
         request' = request, stopped' = stopped,
         task' \in [Task -> TaskSet], \A u \in Task \ {t} : task'[u] = task[u],
         task'[t].stage \in {"none", "queued", "checking"}, TaskOK(t)'
  PROVE  IInv'
<1>1. TypeInv'
  BY DEF IInv, TypeInv
<1>2. TasksOK'
  <2> SUFFICES ASSUME NEW u \in Task, u # t PROVE TaskOK(u)'
    BY DEF TasksOK
  <2> QED BY DEF IInv, TasksOK, TaskOK, Own
<1>3. SnapshotDescribesOneText'
  BY DEF IInv, SnapshotDescribesOneText
<1>4. ShownOK'
  BY DEF IInv, ShownOK, ShownIsLastPublished
<1>5. FirstOK'
  BY DEF IInv, FirstOK, Current, Unchecked
<1> QED BY <1>1, <1>2, <1>3, <1>4, <1>5 DEF IInv

LEMMA WakeInvariant ==
  ASSUME IInv, NEW t \in Task, Wake(t)
  PROVE  IInv'
<1>1. /\ editor' = editor /\ space' = space /\ complete' = complete
      /\ published' = published /\ shown' = shown /\ last' = last
      /\ request' = request /\ edits' = edits /\ stopped' = stopped
      /\ TypeInv /\ TaskOK(t) /\ task[t] \in TaskSet
  BY DEF Wake, IInv, TypeInv, TasksOK
<1>2. CASE Done(t)
  BY <1>1, <1>2, DoneTask, TaskMoves DEF TaskOK
<1>3. CASE ~Done(t)
  <2> DEFINE new == [task[t] EXCEPT !.stage = "queued"]
  <2>1. task' = [task EXCEPT ![t] = new] /\ task[t].stage = "debounce"
    BY <1>3 DEF Wake
  <2>2. /\ new \in TaskSet /\ new.stage = "queued" /\ new.ws = task[t].ws
        /\ new.gen = task[t].gen
    BY <1>1 DEF TaskSet
  <2> HIDE DEF new
  <2>3. /\ task' \in [Task -> TaskSet] /\ task'[t] = new
        /\ \A u \in Task \ {t} : task'[u] = task[u]
    BY <1>1, <2>1, <2>2 DEF TypeInv
  <2>4. TaskOK(t)'
    BY <1>1, <2>1, <2>2, <2>3 DEF TaskOK, Own
  <2> QED BY <1>1, <2>2, <2>3, <2>4, TaskMoves
<1> QED BY <1>2, <1>3

(* A check that starts reads the documents of its generation. *)
LEMMA StartInvariant ==
  ASSUME IInv, NEW t \in Task, Start(t)
  PROVE  IInv'
<1>1. /\ editor' = editor /\ space' = space /\ complete' = complete
      /\ published' = published /\ shown' = shown /\ last' = last
      /\ request' = request /\ edits' = edits /\ stopped' = stopped
      /\ TypeInv /\ TaskOK(t) /\ task[t] \in TaskSet
  BY DEF Start, IInv, TypeInv, TasksOK
<1>2. CASE Done(t)
  BY <1>1, <1>2, DoneTask, TaskMoves DEF TaskOK
<1>3. CASE ~Done(t)
  <2> DEFINE new == [task[t] EXCEPT !.stage = "checking",
                                    !.snapshot = [@ EXCEPT !.texts = Own(t).docs]]
  <2>1. task' = [task EXCEPT ![t] = new] /\ task[t].stage = "queued"
    BY <1>1, <1>3 DEF Start, TaskSet
  <2>2. Own(t).docs \in Texts
    <3>1. Own(t) \in Workspace
      BY <1>1, <2>1 DEF TaskOK, TypeInv, Own
    <3> QED BY <3>1 DEF Workspace
  <2>3. /\ new \in TaskSet /\ new.stage = "checking" /\ new.ws = task[t].ws
        /\ new.gen = task[t].gen /\ new.snapshot.texts = Own(t).docs
    <3>1. [task[t].snapshot EXCEPT !.texts = Own(t).docs] \in SnapshotSet
      BY <1>1, <2>2 DEF TaskSet, SnapshotSet
    <3> QED BY <1>1, <3>1 DEF TaskSet, SnapshotSet
  <2> HIDE DEF new
  <2>4. /\ task' \in [Task -> TaskSet] /\ task'[t] = new
        /\ \A u \in Task \ {t} : task'[u] = task[u]
    BY <1>1, <2>1, <2>3 DEF TypeInv
  <2>5. TaskOK(t)'
    BY <1>1, <2>1, <2>3, <2>4 DEF TaskOK, Own
  <2> QED BY <1>1, <2>3, <2>4, <2>5, TaskMoves
<1> QED BY <1>2, <1>3

(* A result is accepted only while the documents are those it is of. *)
LEMMA AcceptInvariant ==
  ASSUME IInv, NEW t \in Task, Accept(t)
  PROVE  IInv'
<1>1. /\ editor' = editor /\ complete' = complete
      /\ published' = published /\ shown' = shown /\ last' = last
      /\ request' = request /\ edits' = edits /\ stopped' = stopped
      /\ TypeInv /\ TaskOK(t) /\ task[t] \in TaskSet /\ task[t].stage = "checking"
  BY DEF Accept, IInv, TypeInv, TasksOK
<1>2. CASE Superseded(t)
  BY <1>1, <1>2, DoneTask, TaskMoves DEF TaskOK, Accept
<1>3. CASE ~Superseded(t)
  <2> DEFINE ws == task[t].ws
             Result(found, errors) ==
               [gen |-> task[t].gen, texts |-> task[t].snapshot.texts,
                versions |-> Own(t).docs, indexed |-> KeepIndex(found, Own(t).latest),
                errors |-> errors]
  <2>1. PICK found \in BOOLEAN, errors \in SUBSET Path :
          /\ space' = [space EXCEPT ![ws].latest = Result(found, errors),
                                    ![ws].spoke = task[t].gen]
          /\ task' = [task EXCEPT ![t].stage = "returned",
                                  ![t].snapshot = Result(found, errors)]
    BY <1>3 DEF Accept
  <2> DEFINE result == Result(found, errors)
             w == [space[ws] EXCEPT !.latest = result, !.spoke = task[t].gen]
             new == [task[t] EXCEPT !.stage = "returned", !.snapshot = result]
  <2>2. /\ ws \in 1..Len(space) /\ space[ws] \in Workspace /\ task[t].gen \in Nat
        /\ task[t].gen = space[ws].gen /\ task[t].snapshot.texts = space[ws].docs
    BY <1>1, <1>3 DEF TaskOK, TypeInv, Own, Superseded, TaskSet
  <2>3. result \in SnapshotSet /\ result.texts = result.versions
    <3>1. KeepIndex(found, Own(t).latest) \in BOOLEAN
      BY <2>2 DEF KeepIndex, Own, Workspace, SnapshotSet
    <3>2. space[ws].docs \in Texts
      BY <2>2 DEF Workspace
    <3> QED BY <2>2, <3>1, <3>2 DEF Own, SnapshotSet
  <2> HIDE DEF Result, result
  <2>4. /\ w \in Workspace /\ w.docs = space[ws].docs /\ w.gen = space[ws].gen
        /\ w.latest = result /\ w.spoke = task[t].gen
    BY <2>2, <2>3 DEF Workspace
  <2>5. /\ new \in TaskSet /\ new.stage = "returned" /\ new.ws = ws
        /\ new.gen = task[t].gen /\ new.snapshot = result
    BY <1>1, <2>3 DEF TaskSet
  <2>6. space' = [space EXCEPT ![ws] = w] /\ task' = [task EXCEPT ![t] = new]
    BY <1>1, <2>1, <2>2 DEF result, TypeInv
  <2> HIDE DEF w, new, ws
  <2>7. /\ space' \in Seq(Workspace) /\ Len(space') = Len(space)
        /\ \A j \in 1..Len(space) : space'[j] = IF j = ws THEN w ELSE space[j]
    BY <1>1, <2>2, <2>4, <2>6, SpaceUpdate DEF TypeInv
  <2>8. /\ task' \in [Task -> TaskSet] /\ task'[t] = new
        /\ \A u \in Task \ {t} : task'[u] = task[u]
    BY <1>1, <2>5, <2>6 DEF TypeInv
  <2>9. TypeInv'
    BY <1>1, <2>7, <2>8 DEF TypeInv
  <2>10. TasksOK'
    <3> SUFFICES ASSUME NEW u \in Task, task'[u].stage # "none" PROVE TaskOK(u)'
      BY DEF TasksOK, TaskOK
    <3>1. CASE u = t
      <4>1. space[ws].gen \in Nat
        BY <2>2 DEF Workspace
      <4> QED BY <2>2, <2>4, <2>5, <2>7, <2>8, <3>1, <4>1 DEF TaskOK, Own
    <3>2. CASE u # t
      <4>1. TaskOK(u)
        BY DEF IInv, TasksOK
      <4> QED BY <2>4, <2>7, <2>8, <3>2, <4>1 DEF TaskOK, Own
    <3> QED BY <3>1, <3>2
  <2>11. SnapshotDescribesOneText'
    BY <2>3, <2>4, <2>5, <2>7, <2>8 DEF IInv, SnapshotDescribesOneText
  <2>12. ShownOK'
    BY <1>1 DEF IInv, ShownOK, ShownIsLastPublished
  <2>13. FirstOK'
    <3>1. Len(space) = 1 => ws = 1
      BY <2>2
    <3>2. Len(space) = 1 => space'[1].spoke \in Nat
      BY <2>2, <2>4, <2>7, <3>1
    <3> QED BY <1>1, <2>2, <2>7, <3>2 DEF IInv, FirstOK, Current, Unchecked
  <2> QED BY <2>9, <2>10, <2>11, <2>12, <2>13 DEF IInv
<1> QED BY <1>2, <1>3

(* A check that raised has been completed all the same. *)
LEMMA RaiseInvariant ==
  ASSUME IInv, NEW t \in Task, Raise(t)
  PROVE  IInv'
<1> DEFINE ws == task[t].ws
           w == [space[ws] EXCEPT !.spoke = task[t].gen]
           new == [task[t] EXCEPT !.stage = "failed"]
<1>1. /\ editor' = editor /\ complete' = complete
      /\ published' = published /\ shown' = shown /\ last' = last
      /\ request' = request /\ edits' = edits /\ stopped' = stopped
      /\ TypeInv /\ TaskOK(t) /\ task[t] \in TaskSet /\ task[t].stage = "checking"
  BY DEF Raise, IInv, TypeInv, TasksOK
<1>2. /\ ws \in 1..Len(space) /\ space[ws] \in Workspace /\ task[t].gen \in Nat
      /\ task[t].gen <= space[ws].gen
  BY <1>1 DEF TaskOK, TypeInv, Own, TaskSet
<1>3. /\ w \in Workspace /\ w.docs = space[ws].docs /\ w.gen = space[ws].gen
      /\ w.latest = space[ws].latest /\ w.spoke = task[t].gen
  BY <1>2 DEF Workspace
<1>4. new \in TaskSet /\ new.stage = "failed" /\ new.ws = ws /\ new.gen = task[t].gen
  BY <1>1 DEF TaskSet
<1>5. space' = [space EXCEPT ![ws] = w] /\ task' = [task EXCEPT ![t] = new]
  BY DEF Raise
<1> HIDE DEF w, new, ws
<1>6. /\ space' \in Seq(Workspace) /\ Len(space') = Len(space)
      /\ \A j \in 1..Len(space) : space'[j] = IF j = ws THEN w ELSE space[j]
  BY <1>1, <1>2, <1>3, <1>5, SpaceUpdate DEF TypeInv
<1>7. /\ task' \in [Task -> TaskSet] /\ task'[t] = new
      /\ \A u \in Task \ {t} : task'[u] = task[u]
  BY <1>1, <1>4, <1>5 DEF TypeInv
<1>8. TypeInv'
  BY <1>1, <1>6, <1>7 DEF TypeInv
<1>9. TasksOK'
  <2> SUFFICES ASSUME NEW u \in Task, task'[u].stage # "none" PROVE TaskOK(u)'
    BY DEF TasksOK, TaskOK
  <2>1. CASE u = t
    BY <1>2, <1>3, <1>4, <1>6, <1>7, <2>1 DEF TaskOK, Own
  <2>2. CASE u # t
    <3>1. TaskOK(u)
      BY DEF IInv, TasksOK
    <3> QED BY <1>3, <1>6, <1>7, <2>2, <3>1 DEF TaskOK, Own
  <2> QED BY <2>1, <2>2
<1>10. SnapshotDescribesOneText'
  BY <1>3, <1>4, <1>6, <1>7 DEF IInv, SnapshotDescribesOneText
<1>11. ShownOK'
  BY <1>1 DEF IInv, ShownOK, ShownIsLastPublished
<1>12. FirstOK'
  <2>1. Len(space) = 1 => ws = 1
    BY <1>2
  <2>2. Len(space) = 1 => space'[1].spoke \in Nat
    BY <1>2, <1>3, <1>6, <2>1
  <2> QED BY <1>1, <1>2, <1>6, <2>2 DEF IInv, FirstOK, Current, Unchecked
<1> QED BY <1>8, <1>9, <1>10, <1>11, <1>12 DEF IInv

(* A task that ends while everyone who waits is released, or nobody: by    *)
(* then a check of the first workspace has completed.                      *)
LEMMA EndsReported ==
  ASSUME IInv, NEW t \in Task, task[t].stage \in {"returned", "failed"}, Done(t),
         editor' = editor, space' = space, edits' = edits, stopped' = stopped,
         \/ complete' = TRUE /\ request' = Release
         \/ complete' = complete /\ request' = request
  PROVE  TypeInv' /\ TasksOK' /\ SnapshotDescribesOneText' /\ FirstOK'
<1>1. TypeInv /\ TaskOK(t) /\ task[t].ws \in 1..Len(space)
  BY DEF IInv, TasksOK, TaskOK
<1>2. /\ task' \in [Task -> TaskSet] /\ task'[t].stage = "none"
      /\ \A u \in Task \ {t} : task'[u] = task[u]
  BY <1>1, DoneTask
<1>3. complete' \in BOOLEAN /\ request' \in [Request -> {"idle", "waiting", "released", "answered"}]
  BY DEF IInv, TypeInv, Release
<1>4. TypeInv'
  BY <1>1, <1>2, <1>3 DEF TypeInv
<1>5. TasksOK'
  <2> SUFFICES ASSUME NEW u \in Task, u # t PROVE TaskOK(u)'
    BY <1>2 DEF TasksOK, TaskOK
  <2> QED BY <1>2 DEF IInv, TasksOK, TaskOK, Own
<1>6. SnapshotDescribesOneText'
  BY <1>2 DEF IInv, SnapshotDescribesOneText
<1>7. FirstOK'
  <2>1. ~stopped => Current # 0 /\ ~(Current = 1 /\ Unchecked)
    BY <1>1 DEF IInv, FirstOK, Current
  <2> QED BY <2>1 DEF FirstOK, Current, Unchecked
<1> QED BY <1>4, <1>5, <1>6, <1>7

(* What is shown is the errors of this snapshot: every other document that *)
(* was shown had been addressed before, and is addressed again.            *)
LEMMA PublishInvariant ==
  ASSUME IInv, NEW t \in Task, Publish(t)
  PROVE  IInv'
<1> DEFINE errors == task[t].snapshot.errors
<1>1. TypeInv' /\ TasksOK' /\ SnapshotDescribesOneText' /\ FirstOK'
  BY EndsReported DEF Publish
<1>2. /\ shown' = (shown \ Addressed(task[t].snapshot)) \cup errors
      /\ published' = Mentioned(task[t].snapshot) /\ last' = errors
  BY DEF Publish
<1>3. shown \subseteq published
  BY DEF IInv, ShownOK, ShownIsLastPublished
<1>4. shown' = last' /\ last' \subseteq published'
  BY <1>2, <1>3 DEF Addressed, Mentioned
<1> QED BY <1>1, <1>4 DEF IInv, ShownOK, ShownIsLastPublished

LEMMA ReportFailureInvariant ==
  ASSUME IInv, NEW t \in Task, ReportFailure(t)
  PROVE  IInv'
<1>1. TypeInv' /\ TasksOK' /\ SnapshotDescribesOneText' /\ FirstOK'
  BY EndsReported DEF ReportFailure
<1>2. ShownOK'
  BY DEF IInv, ShownOK, ShownIsLastPublished, ReportFailure
<1> QED BY <1>1, <1>2 DEF IInv
----------------------------------------------------------------------------
LEMMA NextInvariant == IInv /\ [Next]_vars => IInv'
<1> SUFFICES ASSUME IInv, [Next]_vars PROVE IInv'
  OBVIOUS
<1>1. ASSUME NEW p \in Path, Edit(p) PROVE IInv'
  <2>1. edits + 1 \in Nat
    BY DEF IInv, TypeInv
  <2> QED BY <1>1, <2>1, ReplaceInvariant DEF Edit
<1>2. ASSUME NEW p \in Path, DidClose(p) PROVE IInv'
  BY <1>2, ReplaceInvariant DEF DidClose
<1>3. CASE DidSave
  BY <1>3, SaveInvariant
<1>4. CASE Configure
  BY <1>4, ConfigureInvariant
<1>5. CASE Shutdown
  BY <1>5, ShutdownInvariant
<1>6. ASSUME NEW r \in Request, Ask(r) \/ Answer(r) PROVE IInv'
  BY <1>6, AskInvariant, AnswerInvariant
<1>7. ASSUME NEW t \in Task,
             Wake(t) \/ Start(t) \/ Accept(t) \/ Raise(t) \/ Publish(t) \/ ReportFailure(t)
      PROVE  IInv'
  BY <1>7, WakeInvariant, StartInvariant, AcceptInvariant, RaiseInvariant,
     PublishInvariant, ReportFailureInvariant
<1>8. CASE UNCHANGED vars
  BY <1>8, Unchanged
<1> QED BY <1>1, <1>2, <1>3, <1>4, <1>5, <1>6, <1>7, <1>8 DEF Next, TaskStep

(* The inductive invariant of the session: types; the generation of a task *)
(* is one its workspace has had, and while they are equal the documents    *)
(* are those its check read; snapshots describe one text; what is shown    *)
(* was published; nobody is released before the first check completed.     *)
THEOREM Invariance == Spec => []IInv
BY InitInvariant, NextInvariant, PTL DEF Spec

(* No snapshot reports the versions of other texts than its check read,    *)
(* although documents change between the two lock regions of a check       *)
(* (AuthoringWorkspace.check, _accept).                                    *)
THEOREM SnapshotsDescribeOneText == Spec => []SnapshotDescribesOneText
<1>1. IInv => SnapshotDescribesOneText
  BY DEF IInv
<1> QED BY <1>1, Invariance, PTL

(* No diagnostics linger with the client: it shows those of the snapshot   *)
(* published last (_publish and published_paths).                          *)
THEOREM ShownIsPublished == Spec => []ShownIsLastPublished
<1>1. IInv => ShownIsLastPublished
  BY DEF IInv, ShownOK
<1> QED BY <1>1, Invariance, PTL

(* The step of FirstAnswersFollowACheck. *)
AnswerFollowsACheck ==
  \A r \in Request :
    /\ request[r] # "answered" /\ request'[r] = "answered"
    /\ Current = 1 /\ ~stopped
    => ~Unchecked

(* A request on the first workspace is answered only once a check of it    *)
(* has completed (_workspace_with_index and initial_check_complete).       *)
THEOREM FirstAnswers == Spec => FirstAnswersFollowACheck
<1>1. IInv /\ [Next]_vars => [AnswerFollowsACheck]_vars
  <2> SUFFICES ASSUME IInv, [Next]_vars, NEW q \in Request,
                      request[q] # "answered", request'[q] = "answered",
                      Current = 1, ~stopped, Unchecked
               PROVE  FALSE
    BY DEF AnswerFollowsACheck
  <2>1. /\ ~complete /\ ~space[1].latest.indexed /\ request[q] # "released"
        /\ request \in [Request -> {"idle", "waiting", "released", "answered"}]
    BY DEF IInv, TypeInv, FirstOK
  <2>2. request' # request /\ request' # Release
    BY <2>1 DEF Release
  <2>3. \E r \in Request : Ask(r) \/ Answer(r)
    <3>1. CASE Next
      <4>1. ASSUME NEW p \in Path, Edit(p) \/ DidClose(p) PROVE FALSE
        BY <2>2, <4>1 DEF Edit, DidClose, Replace
      <4>2. ASSUME DidSave \/ Configure \/ Shutdown PROVE FALSE
        BY <2>2, <4>2 DEF DidSave, Configure, Shutdown
      <4>3. ASSUME TaskStep PROVE FALSE
        BY <2>2, <4>3 DEF TaskStep, Wake, Start, Accept, Raise, Publish, ReportFailure
      <4> QED BY <3>1, <4>1, <4>2, <4>3 DEF Next
    <3>2. CASE UNCHANGED vars
      BY <2>2, <3>2 DEF vars
    <3> QED BY <3>1, <3>2
  <2>4. PICK r \in Request : Ask(r) \/ Answer(r)
    BY <2>3
  <2>5. CASE Ask(r)
    BY <2>1, <2>5 DEF Ask, Ready, Current
  <2>6. CASE Answer(r)
    BY <2>1, <2>6 DEF Answer
  <2> QED BY <2>4, <2>5, <2>6
<1> QED BY <1>1, Invariance, PTL DEF Spec, FirstAnswersFollowACheck, AnswerFollowsACheck

(* The step of WorkspaceKeepsTheEditor. *)
KeepsTheEditor ==
  Current # 0 /\ space[Current].docs = editor /\ ~stopped'
    => space'[Len(space')].docs = editor'

(* A workspace that knows what the editor has open is followed by one that *)
(* does, over edits, closes and new configurations                         *)
(* (did_change_configuration).                                             *)
THEOREM KeepsEditor == Spec => WorkspaceKeepsTheEditor
<1>1. IInv /\ [Next]_vars => [KeepsTheEditor]_vars
  <2> SUFFICES ASSUME IInv, [Next]_vars, Current # 0,
                      space[Current].docs = editor, ~stopped'
               PROVE  space'[Len(space')].docs = editor'
    BY DEF KeepsTheEditor
  <2>1. /\ TypeInv /\ space \in Seq(Workspace) /\ Current \in 1..Len(space)
        /\ space[Current] \in Workspace /\ space[Current].docs \in Texts
    <3>1. space \in Seq(Workspace) /\ Current \in 1..Len(space)
      BY DEF IInv, TypeInv, Current
    <3>2. space[Current] \in Workspace
      BY <3>1
    <3> QED BY <3>1, <3>2 DEF IInv, Workspace
  <2>2. ASSUME editor' = editor, space' = space PROVE space'[Len(space')].docs = editor'
    BY <2>2 DEF Current
  <2>3. ASSUME NEW p \in Path, NEW text \in Nat, Replace(p, text)
        PROVE  space'[Len(space')].docs = editor'
    <3> DEFINE docs == [space[Current].docs EXCEPT ![p] = text]
               w == [space[Current] EXCEPT !.docs = docs, !.gen = @ + 1]
    <3>1. space' = [space EXCEPT ![Current] = w] /\ editor' = docs
      BY <2>3 DEF Replace
    <3>2. w.docs = docs
      BY <2>1 DEF Workspace
    <3> HIDE DEF w, docs
    <3>3. Len(space') = Current /\ space'[Current] = w
      BY <2>1, <3>1 DEF Current
    <3> QED BY <3>1, <3>2, <3>3
  <2>4. ASSUME NEW p \in Path, Edit(p) \/ DidClose(p)
        PROVE  space'[Len(space')].docs = editor'
    <3>1. edits + 1 \in Nat
      BY <2>1 DEF TypeInv
    <3> QED BY <2>3, <2>4, <3>1 DEF Edit, DidClose
  <2>5. CASE Configure
    <3>1. space' = Append(OldClosed, NewWorkspace(Reopened)) /\ editor' = editor
      BY <2>5 DEF Configure
    <3>2. OldClosed \in Seq(Workspace) /\ NewWorkspace(Reopened) \in Workspace
      BY <2>1, ClosesTheLast, NewIsWorkspace DEF Reopened
    <3>3. space'[Len(space')] = NewWorkspace(Reopened)
      BY <3>1, <3>2
    <3> QED BY <3>1, <3>3 DEF NewWorkspace, Reopened
  <2>6. ASSUME NEW t \in Task, Wake(t) \/ Start(t) \/ Publish(t) \/ ReportFailure(t)
        PROVE  space'[Len(space')].docs = editor'
    BY <2>2, <2>6 DEF Wake, Start, Publish, ReportFailure
  <2>7. ASSUME NEW t \in Task, Accept(t) \/ Raise(t)
        PROVE  space'[Len(space')].docs = editor'
    <3>1. /\ Len(space') = Len(space) /\ editor' = editor
          /\ space'[Current].docs = space[Current].docs
      <4>1. CASE space' = space
        BY <2>7, <4>1 DEF Accept, Raise
      <4>2. CASE space' # space
        <5>1. PICK snapshot :
                \/ space' = [space EXCEPT ![task[t].ws].latest = snapshot,
                                          ![task[t].ws].spoke = task[t].gen]
                \/ space' = [space EXCEPT ![task[t].ws].spoke = task[t].gen]
          BY <2>7, <4>2 DEF Accept, Raise
        <5> DEFINE ws == task[t].ws
        <5>2. PICK w : space' = [space EXCEPT ![ws] = w] /\ w.docs = space[ws].docs
          <6>1. ws \in 1..Len(space) /\ space[ws] \in Workspace
            BY <2>1, <2>7 DEF IInv, TasksOK, TaskOK, Accept, Raise
          <6>2. CASE space' = [space EXCEPT ![ws].spoke = task[t].gen]
            <7>1. [space[ws] EXCEPT !.spoke = task[t].gen].docs = space[ws].docs
              BY <6>1 DEF Workspace
            <7> QED BY <6>2, <7>1
          <6>3. CASE space' = [space EXCEPT ![ws].latest = snapshot, ![ws].spoke = task[t].gen]
            <7> DEFINE both == [space[ws] EXCEPT !.latest = snapshot, !.spoke = task[t].gen]
            <7>1. both.docs = space[ws].docs
              BY <6>1 DEF Workspace
            <7>2. space' = [space EXCEPT ![ws] = both]
              BY <2>1, <6>1, <6>3
            <7> QED BY <7>1, <7>2
          <6> QED BY <5>1, <6>2, <6>3
        <5>3. editor' = editor
          BY <2>7 DEF Accept, Raise
        <5> HIDE DEF ws
        <5> QED BY <2>1, <5>2, <5>3
      <4> QED BY <4>1, <4>2
    <3> QED BY <3>1 DEF Current
  <2>8. ASSUME NEW r \in Request, Ask(r) \/ Answer(r)
        PROVE  space'[Len(space')].docs = editor'
    BY <2>2, <2>8 DEF Ask, Answer
  <2>9. ASSUME DidSave PROVE space'[Len(space')].docs = editor'
    BY <2>2, <2>9 DEF DidSave
  <2>10. ~Shutdown
    BY DEF Shutdown
  <2>11. CASE UNCHANGED vars
    BY <2>2, <2>11 DEF vars
  <2> QED BY <2>4, <2>5, <2>6, <2>7, <2>8, <2>9, <2>10, <2>11 DEF Next, TaskStep
<1> QED BY <1>1, Invariance, PTL DEF Spec, WorkspaceKeepsTheEditor, KeepsTheEditor
=============================================================================
