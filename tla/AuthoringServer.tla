---------------------------- MODULE AuthoringServer ----------------------------
(***************************************************************************)
(* The editor session of tslc: the asyncio language server (lsp/server.py) *)
(* around the mutable workspaces it checks in threads (lsp/workspace.py).  *)
(*                                                                         *)
(* A handler runs on the event loop and is atomic up to its next await.    *)
(* Every handler that changes the documents leaves a task behind: it       *)
(* waits out the debounce, asks a thread to check one generation of one    *)
(* workspace, and publishes what comes back.  Threads of one workspace     *)
(* exclude each other by its check lock; the two lock regions of a check   *)
(* (reading the overlays, accepting the result) are the steps Start and    *)
(* Accept.  A changed configuration replaces the workspace while tasks of  *)
(* the old one are still under way.                                        *)
(***************************************************************************)
EXTENDS Integers, Sequences, FiniteSetsExt

CONSTANTS
  Path,          \* the documents of the corpus
  Request,       \* requests that need an index (hover, definition, ...)
  Task,          \* names of the coroutines that may be under way, 1..n
  SetupFails,    \* whether the first from_root may have raised ValueError
  MaxEdits,      \* bound: opens, changes and closes of documents
  MaxSaves,      \* bound: saves
  MaxConfigs     \* bound: successful configuration changes

ASSUME AuthoringServerAssumption ==
  /\ IsFiniteSet(Path) /\ Task \in SUBSET Nat /\ SetupFails \in BOOLEAN
  /\ MaxEdits \in Nat /\ MaxSaves \in Nat /\ MaxConfigs \in Nat

VARIABLES
  editor,      \* text each document has in the editor, 0 when it is not open
  space,       \* every AuthoringWorkspace made so far; the last one is state.workspace
  complete,    \* state.initial_check_complete
  published,   \* state.published_paths
  shown,       \* documents the client shows diagnostics on
  last,        \* documents the last published snapshot has diagnostics on
  task,        \* the coroutines of _check_and_publish
  request,     \* where each request stands in _workspace_with_index
  edits, saves, stopped

vars == <<editor, space, complete, published, shown, last, task, request,
          edits, saves, stopped>>

\* Texts are numbered in the order they are typed; a number also serves as
\* the version the client sends with that text; 0 is no text.
Closed == [p \in Path |-> 0]
OpenIn(docs) == {p \in Path : docs[p] # 0}

\* WorkspaceSnapshot: the generation it answers for, the texts that were
\* checked, the versions it reports, whether it has an index, and the
\* documents it has diagnostics on.
NoSnapshot == [gen |-> 0, texts |-> Closed, versions |-> Closed,
               indexed |-> FALSE, errors |-> {}]

\* "spoke" is a history: the last generation whose check was completed,
\* by a snapshot or by an exception, or -1.
NewWorkspace(docs) ==
  [gen |-> Cardinality(OpenIn(docs)), docs |-> docs, closed |-> FALSE,
   latest |-> NoSnapshot, spoke |-> -1]

NoTask == [stage |-> "none", ws |-> 0, gen |-> 0, snapshot |-> NoSnapshot]

Current == Len(space)                       \* 0 is state.workspace = None
Idle == {t \in Task : task[t].stage = "none"}

Launch(stage, ws, gen) ==
  task' = [task EXCEPT ![Min(Idle)] =
             [stage |-> stage, ws |-> ws, gen |-> gen, snapshot |-> NoSnapshot]]

\* initialize and initialized: the first workspace, or none, and its first
\* check.
Init ==
  /\ editor = Closed
  /\ complete = FALSE /\ published = {} /\ shown = {} /\ last = {}
  /\ request = [r \in Request |-> "idle"]
  /\ edits = 0 /\ saves = 0 /\ stopped = FALSE
  /\ \/ /\ space = <<NewWorkspace(Closed)>>
        /\ task = [t \in Task |-> IF t = Min(Task)
                     THEN [NoTask EXCEPT !.stage = "debounce", !.ws = 1]
                     ELSE NoTask]
     \/ /\ SetupFails
        /\ space = <<>>
        /\ task = [t \in Task |-> NoTask]

-----------------------------------------------------------------------------
\* Notifications from the client.

\* The document's text in the workspace and in the editor becomes text; a
\* workspace that exists is checked again at its new generation.
Replace(p, text) ==
  /\ editor' = [editor EXCEPT ![p] = text]
  /\ edits' = edits + 1
  /\ IF Current = 0
     THEN UNCHANGED <<space, task>>
     ELSE /\ space' = [space EXCEPT ![Current].docs[p] = text, ![Current].gen = @ + 1]
          /\ Launch("debounce", Current, space[Current].gen + 1)
  /\ UNCHANGED <<complete, published, shown, last, request, saves, stopped>>

CanStart == ~stopped /\ Idle # {}

\* did_open and did_change both store the new text.
Edit(p) == CanStart /\ edits < MaxEdits /\ Replace(p, edits + 1)

DidClose(p) == CanStart /\ edits < MaxEdits /\ editor[p] # 0 /\ Replace(p, 0)

DidSave ==
  /\ CanStart /\ saves < MaxSaves /\ Current # 0
  /\ saves' = saves + 1
  /\ Launch("queued", Current, space[Current].gen)
  /\ UNCHANGED <<editor, space, complete, published, shown, last, request, edits, stopped>>

\* MUTANT: the replacement starts without the documents the editor has open.
ReopenNothing == Closed

Reopened == IF Current = 0 THEN Closed ELSE space[Current].docs

OldClosed == IF Current = 0 THEN <<>>
             ELSE [space EXCEPT ![Current].closed = TRUE, ![Current].gen = @ + 1]

\* MUTANT: the check is asked for the generation of the workspace it replaces.
ConfigureWithOldGeneration ==
  /\ CanStart /\ Len(space) <= MaxConfigs
  /\ space' = Append(OldClosed, NewWorkspace(Reopened))
  /\ complete' = FALSE
  /\ Launch("queued", Current + 1, IF Current = 0 THEN 0 ELSE space[Current].gen)
  /\ UNCHANGED <<editor, published, shown, last, request, edits, saves, stopped>>

\* did_change_configuration.  A from_root that raises changes nothing but the
\* setup message, so it is no step of its own.
Configure ==
  /\ CanStart /\ Len(space) <= MaxConfigs
  /\ LET replacement == NewWorkspace(Reopened) IN
     /\ space' = Append(OldClosed, replacement)
     /\ Launch("queued", Current + 1, replacement.gen)
  /\ complete' = FALSE
  /\ UNCHANGED <<editor, published, shown, last, request, edits, saves, stopped>>

\* Setting the event schedules everyone who waits on it.
Release == [r \in Request |-> IF request[r] = "waiting" THEN "released" ELSE request[r]]

Shutdown ==
  /\ ~stopped /\ stopped' = TRUE
  /\ complete' = TRUE /\ request' = Release
  /\ space' = OldClosed
  /\ UNCHANGED <<editor, published, shown, last, task, edits, saves>>

-----------------------------------------------------------------------------
\* A request that reads the index.

Ready(r) == Current = 0 \/ space[Current].latest.indexed

Ask(r) ==
  /\ ~stopped /\ request[r] = "idle"
  /\ request' = [request EXCEPT ![r] =
       IF Ready(r) THEN "answered" ELSE IF complete THEN "released" ELSE "waiting"]
  /\ UNCHANGED <<editor, space, complete, published, shown, last, task, edits, saves, stopped>>

\* The waiter's turn on the loop comes after the event was set: it answers
\* from whatever workspace is current by then.
Answer(r) ==
  /\ request[r] = "released"
  /\ request' = [request EXCEPT ![r] = "answered"]
  /\ UNCHANGED <<editor, space, complete, published, shown, last, task, edits, saves, stopped>>

-----------------------------------------------------------------------------
\* One coroutine of _check_and_publish and the thread it waits for.

Own(t) == space[task[t].ws]
\* MUTANT: a result is accepted for a workspace that is open, whatever its
\* generation by now.
OnlyClosed(t) == Own(t).closed

Superseded(t) == Own(t).closed \/ task[t].gen # Own(t).gen

Done(t) == task' = [task EXCEPT ![t] = NoTask]

\* The end of the debounce: superseded edits drop out here.
Wake(t) ==
  /\ task[t].stage = "debounce"
  /\ IF task[t].gen # Own(t).gen
     THEN Done(t)
     ELSE task' = [task EXCEPT ![t].stage = "queued"]
  /\ UNCHANGED <<editor, space, complete, published, shown, last, request, edits, saves, stopped>>

Locked(ws) == \E t \in Task : task[t].ws = ws /\ task[t].stage = "checking"

\* MUTANT: a superseded check releases the waiting requests too.
StartReleasing(t) ==
  /\ task[t].stage = "queued" /\ ~Locked(task[t].ws)
  /\ IF Superseded(t)
     THEN Done(t) /\ complete' = TRUE /\ request' = Release
     ELSE /\ task' = [task EXCEPT ![t].stage = "checking", ![t].snapshot.texts = Own(t).docs]
          /\ UNCHANGED <<complete, request>>
  /\ UNCHANGED <<editor, space, published, shown, last, edits, saves, stopped>>

\* check, its first half: the thread has the check lock and reads the
\* overlays.  A superseded check returns None, which ends the coroutine.
Start(t) ==
  /\ task[t].stage = "queued" /\ ~Locked(task[t].ws)
  /\ IF Superseded(t)
     THEN Done(t)
     ELSE task' = [task EXCEPT ![t].stage = "checking", ![t].snapshot.texts = Own(t).docs]
  /\ UNCHANGED <<editor, space, complete, published, shown, last, request, edits, saves, stopped>>

KeepIndex(found, previous) == found \/ previous.indexed

\* _accept: the result of the check becomes the latest snapshot unless the
\* documents have changed meanwhile.  found: the check made an index, or one
\* could be rebuilt from the retained catalog; a corpus without diagnostics
\* always has one.
Accept(t) ==
  /\ task[t].stage = "checking"
  /\ IF Superseded(t)
     THEN Done(t) /\ UNCHANGED space
     ELSE \E found \in BOOLEAN, errors \in SUBSET Path :
            /\ errors = {} => found
            /\ LET snapshot == [gen |-> task[t].gen, texts |-> task[t].snapshot.texts,
                             versions |-> Own(t).docs,
                             indexed |-> KeepIndex(found, Own(t).latest),
                             errors |-> errors] IN
               /\ space' = [space EXCEPT ![task[t].ws].latest = snapshot,
                                      ![task[t].ws].spoke = task[t].gen]
               /\ task' = [task EXCEPT ![t].stage = "returned", ![t].snapshot = snapshot]
  /\ UNCHANGED <<editor, complete, published, shown, last, request, edits, saves, stopped>>

\* The check raises: the lock is free again and the exception travels to the
\* coroutine.
Raise(t) ==
  /\ task[t].stage = "checking"
  /\ task' = [task EXCEPT ![t].stage = "failed"]
  /\ space' = [space EXCEPT ![task[t].ws].spoke = task[t].gen]
  /\ UNCHANGED <<editor, complete, published, shown, last, request, edits, saves, stopped>>

\* The documents one publication addresses: those it has diagnostics on or
\* versions of, and those the previous one addressed.
Mentioned(snapshot) == snapshot.errors \cup OpenIn(snapshot.versions)

\* MUTANT: only the documents of this snapshot are addressed.
AddressOwn(snapshot) == Mentioned(snapshot)

Addressed(snapshot) == Mentioned(snapshot) \cup published

\* _publish.
Publish(t) ==
  /\ task[t].stage = "returned"
  /\ LET snapshot == task[t].snapshot IN
     /\ shown' = (shown \ Addressed(snapshot)) \cup snapshot.errors
     /\ published' = Mentioned(snapshot)
     /\ last' = snapshot.errors
  /\ complete' = TRUE /\ request' = Release
  /\ Done(t)
  /\ UNCHANGED <<editor, space, edits, saves, stopped>>

\* MUTANT: a failed check is reported without releasing anyone.
ReportOnly(t) ==
  /\ task[t].stage = "failed"
  /\ Done(t)
  /\ UNCHANGED <<editor, space, complete, published, shown, last, request, edits, saves, stopped>>

\* _report_check_failure: the generation of the failed check is compared with
\* that of the workspace that is current by now.
ReportFailure(t) ==
  /\ task[t].stage = "failed"
  /\ IF task[t].gen = space[Current].gen
     THEN complete' = TRUE /\ request' = Release
     ELSE UNCHANGED <<complete, request>>
  /\ Done(t)
  /\ UNCHANGED <<editor, space, published, shown, last, edits, saves, stopped>>

TaskStep ==
  \E t \in Task : \/ Wake(t) \/ Start(t) \/ Accept(t) \/ Raise(t)
                  \/ Publish(t) \/ ReportFailure(t)

Next ==
  \/ \E p \in Path : Edit(p) \/ DidClose(p)
  \/ DidSave \/ Configure \/ Shutdown
  \/ \E r \in Request : Ask(r) \/ Answer(r)
  \/ TaskStep

\* The loop runs what is ready and threads finish; what the client sends is
\* up to the client.
Spec == /\ Init /\ [][Next]_vars
        /\ WF_vars(TaskStep) /\ WF_vars(\E r \in Request : Answer(r))

-----------------------------------------------------------------------------
\* What a snapshot reports as the versions it describes are the texts that
\* were in fact checked, although the documents may change between the two
\* lock regions of the check (AuthoringWorkspace.check, _accept): no edit is
\* credited with the diagnostics of another text.
SnapshotDescribesOneText ==
  /\ \A i \in 1..Len(space) : space[i].latest.texts = space[i].latest.versions
  /\ \A t \in Task : task[t].stage = "returned" =>
       task[t].snapshot.texts = task[t].snapshot.versions

\* The client shows diagnostics on exactly the documents the last published
\* snapshot has any on, whichever workspace that came from: nothing lingers
\* on a document that was closed or left the corpus (_publish and
\* published_paths).
ShownIsLastPublished == shown = last

\* A workspace that knows the documents the editor has open, each with the
\* text the editor shows, is only ever followed by one that knows them too,
\* over edits, closes and configuration changes (did_change_configuration).
WorkspaceKeepsTheEditor ==
  [][Current # 0 /\ space[Current].docs = editor /\ ~stopped'
       => space'[Len(space')].docs = editor']_vars

Unchecked == Current # 0 /\ space[Current].spoke = -1

\* A request on the first workspace is not answered before a check of it has
\* completed, however many checks are superseded first (_workspace_with_index
\* and initial_check_complete).
FirstAnswersFollowACheck ==
  [][\A r \in Request :
       /\ request[r] # "answered" /\ request'[r] = "answered"
       /\ Current = 1 /\ ~stopped
       => ~Unchecked]_vars

\* A request that waits is answered in the end, whatever becomes of the
\* checks: superseded, raised, or of a workspace that was replaced.
WaitersAreAnswered ==
  \A r \in Request : (request[r] = "waiting") ~> (request[r] = "answered")

\* In the end a check of the documents as they then are has completed, for
\* the workspace that is then current: dropping superseded checks never drops
\* the last.
LastEditIsChecked ==
  <>[](Current = 0 \/ stopped \/ space[Current].spoke = space[Current].gen)
=============================================================================
