--------------------------- MODULE ExplorerClient ---------------------------
(***************************************************************************)
(* The specialization explorer of the VS Code extension and the analyses   *)
(* it starts: explorer requests answered by a language server that may be  *)
(* restarted, choices of the author that wait for the editor to store      *)
(* them, compiler children that read the saved corpus, and the cache that  *)
(* tells whether an analysis still describes what the explorer shows.      *)
(*                                                                         *)
(* The corpus is a version number: what was typed and what was saved. A    *)
(* target is a mode, profile and backend. The handlers of the extension    *)
(* run on one thread, so a step ends where its handler awaits. The cache   *)
(* generation counts the configuration changes, as the code's does.        *)
(***************************************************************************)
EXTENDS Integers

CONSTANTS
    Target, Primitive, Task,
    FirstTarget,  \* the target the workspace remembers
    FirstPrimitive,  \* the row selected when the behavior starts
    None,
    MaxEdits,     \* bounds the edits of the corpus
    MaxTurns      \* bounds the author's other steps: choices, settings, restarts

ASSUME ExplorerClientAssumption ==
    FirstTarget \in Target /\ FirstPrimitive \in Primitive /\ None \notin Task

VARIABLES
    typed, saved,       \* the corpus in the editor and on the disk
    settings,           \* configuration changes so far
    turns,              \* configuration changes and restarts so far
    server,             \* the server's session, its generation and whether it is up
    checked,            \* the generation and the text it checked last
    target, primitive,  \* what the explorer is set to
    choosing,           \* a choice of target is being stored by the editor
    timer,              \* a delayed refresh is due
    requests,           \* refreshes not yet answered
    response,           \* what the explorer shows
    tasks,              \* analyses under way
    newest,             \* the analysis the manager was given last
    active, cache       \* the analysed row and the stored results

corpus == <<typed, saved, settings, turns>>
view == <<target, primitive, choosing, timer, requests, response>>
analysis == <<tasks, newest, active, cache>>
vars == <<corpus, server, checked, view, analysis>>

Context == [target : Target, primitive : Primitive]
(* A request is sent, served from the last check, and answered under the   *)
(* server's generation; text is the text of that generation.               *)
Unchecked == [generation |-> 0, text |-> 0]
Asked(t, p) == [stage |-> "sent", target |-> t, primitive |-> p,
                shown |-> 0, generation |-> 0, text |-> 0]

Idle == [stage |-> "idle"]

Init ==
    /\ typed = 0 /\ saved = 0 /\ settings = 0
    /\ server = [session |-> 1, generation |-> 1, up |-> TRUE] /\ checked = Unchecked
    /\ target = FirstTarget /\ primitive = FirstPrimitive
    /\ turns = 0 /\ choosing = FALSE /\ timer = FALSE
    /\ requests = {Asked(target, primitive)} /\ response = None
    /\ tasks = [k \in Task |-> Idle] /\ newest = None
    /\ active = None /\ cache = [c \in Context |-> None]

(***************************************************************************)
(* The author                                                              *)
(***************************************************************************)
Turn == turns < MaxTurns /\ turns' = turns + 1

(* The server is told of every edit while it is up. *)
Edit ==
    /\ typed < MaxEdits
    /\ typed' = typed + 1
    /\ server' = [server EXCEPT !.generation = IF server.up THEN @ + 1 ELSE @]
    /\ UNCHANGED <<saved, settings, turns, checked, view, analysis>>

Save ==
    /\ saved # typed
    /\ saved' = typed
    /\ UNCHANGED <<typed, settings, turns, server, checked, view, analysis>>

(* A setting or tslc.toml: the server is not told, the cache is outdated. *)
Configure ==
    /\ Turn /\ settings' = settings + 1
    /\ UNCHANGED <<typed, saved, server, checked, view, analysis>>

(***************************************************************************)
(* Refreshing the explorer                                                 *)
(***************************************************************************)
(* A refresh moves the explorer's generation on, so that the answer to     *)
(* every request before it is thrown away; without a server it does        *)
(* nothing.                                                                *)
NotOutdated == requests  \* mutant: the explorer's generation does not move on
StillWanted == {}
Ask(t, p) ==
    requests' = IF server'.up THEN StillWanted \cup {Asked(t, p)} ELSE requests

(* A choice is assigned at once and refreshed when the editor stored it.   *)
Choose(t) ==
    /\ Turn /\ ~choosing /\ t # target
    /\ target' = t /\ choosing' = TRUE
    /\ UNCHANGED <<typed, saved, settings, server, checked, primitive, timer, requests, response,
                   analysis>>

Chosen ==
    /\ choosing /\ choosing' = FALSE
    /\ UNCHANGED server /\ Ask(target, primitive)
    /\ UNCHANGED <<corpus, checked, target, primitive, timer, response, analysis>>

(* A row is selected at once. *)
Select(p) ==
    /\ Turn /\ p # primitive
    /\ primitive' = p
    /\ UNCHANGED server /\ Ask(target, p)
    /\ UNCHANGED <<typed, saved, settings, checked, target, choosing, timer, response, analysis>>

Now == [generation |-> server.generation, text |-> typed]

PublishQuietly ==  \* mutant: nobody listens to diagnostics
    /\ server.up /\ checked.generation # server.generation
    /\ checked' = Now
    /\ UNCHANGED <<corpus, server, view, analysis>>

(* The last generation is checked; its diagnostics start the timer of a    *)
(* refresh.                                                                *)
Publish ==
    /\ server.up /\ checked.generation # server.generation
    /\ checked' = Now /\ timer' = TRUE
    /\ UNCHANGED <<corpus, server, target, primitive, choosing, requests,
                   response, analysis>>

TimerFires ==
    /\ timer /\ timer' = FALSE
    /\ UNCHANGED server /\ Ask(target, primitive)
    /\ UNCHANGED <<corpus, checked, target, primitive, choosing, response, analysis>>

(* The server waits for its first check, projects what it checked last in  *)
(* a thread, and answers with the generation it has by then.               *)
Serve(r) ==
    /\ r.stage = "sent" /\ checked.generation > 0
    /\ requests' = (requests \ {r}) \cup
          {[r EXCEPT !.stage = "served", !.shown = checked.text]}
    /\ UNCHANGED <<corpus, server, checked, target, primitive, choosing, timer,
                   response, analysis>>

Answer(r) ==
    /\ r.stage = "served"
    /\ requests' = (requests \ {r}) \cup
          {[r EXCEPT !.stage = "answered", !.generation = server.generation, !.text = typed]}
    /\ UNCHANGED <<corpus, server, checked, target, primitive, choosing, timer,
                   response, analysis>>

Taken(r) == [target |-> r.target, primitive |-> r.primitive, shown |-> r.shown,
             generation |-> r.generation, session |-> server.session, text |-> r.text]

(* The answer to the last refresh is taken, and with it the target.        *)
Receive(r) ==
    /\ r.stage = "answered"
    /\ requests' = requests \ {r}
    /\ target' = r.target /\ response' = Taken(r)
    /\ UNCHANGED <<corpus, server, checked, primitive, choosing, timer, analysis>>

(***************************************************************************)
(* Restarting the server                                                   *)
(***************************************************************************)
(* The explorer is emptied and requests on their way are rejected. *)
Stop ==
    /\ server.up /\ Turn
    /\ server' = [server EXCEPT !.up = FALSE]
    /\ response' = None /\ requests' = {}
    /\ UNCHANGED <<typed, saved, settings, checked, target, primitive, choosing, timer, analysis>>

(* A new server counts its generations from the documents opened in it.    *)
Restart ==
    /\ ~server.up
    /\ server' = [session |-> server.session + 1, generation |-> 1, up |-> TRUE]
    /\ checked' = Unchecked
    /\ Ask(target, primitive)
    /\ UNCHANGED <<corpus, target, primitive, choosing, timer, response, analysis>>

(***************************************************************************)
(* Analyzing a row                                                         *)
(***************************************************************************)
Here == [target |-> target, primitive |-> primitive]
RowIsCurrent ==
    /\ response # None
    /\ response.target = target /\ response.primitive = primitive
Valid(c) ==
    /\ cache[c] # None
    /\ cache[c].generation = response.generation /\ cache[c].settings = settings
NeverDirty == FALSE  \* mutant: unsaved documents are not looked for
Dirty == saved # typed

(* While a choice is being stored the rows shown are those of the target   *)
(* before it: clicking one only refreshes.                                 *)
ClickOldRow ==
    /\ choosing /\ response # None /\ ~RowIsCurrent
    /\ UNCHANGED server /\ Ask(target, primitive)
    /\ UNCHANGED <<corpus, checked, target, primitive, choosing, timer, response, analysis>>

(* A stored result of this generation is shown again; an unsaved document  *)
(* refuses the analysis; otherwise it goes on after two awaits.            *)
Analyze(k) ==
    /\ tasks[k] = Idle /\ RowIsCurrent
    /\ active' = Here
    /\ tasks' = (IF Valid(Here) \/ Dirty THEN tasks
                 ELSE [tasks EXCEPT ![k] =
                         [stage |-> "opening", context |-> Here,
                          generation |-> response.generation,
                          session |-> server.session,
                          text |-> 0, config |-> 0]])
    /\ UNCHANGED <<corpus, server, checked, view, newest, cache>>

(* The manager cancels the child before, if it still runs; what was        *)
(* cancelled is thrown away.                                               *)
Launch(k) ==
    /\ tasks[k].stage = "opening"
    /\ newest' = k
    /\ tasks' = [j \in Task |->
          IF j = k THEN [tasks[k] EXCEPT !.stage = "running"]
          ELSE IF j = newest /\ tasks[j].stage = "running" THEN Idle
          ELSE tasks[j]]
    /\ UNCHANGED <<corpus, server, checked, view, active, cache>>

Done(k) == newest' = IF newest = k THEN None ELSE newest

(* The child reads the corpus on the disk and its configuration, and exits *)
(* with a result; what happens between the two is left to what may happen  *)
(* before the result is settled.                                           *)
ChildExits(k) ==
    /\ tasks[k].stage = "running"
    /\ tasks' = [tasks EXCEPT ![k] = [@ EXCEPT !.stage = "exited", !.text = saved,
                                               !.config = settings]]
    /\ UNCHANGED <<corpus, server, checked, view, newest, active, cache>>

(* There is no compiler, the child fails, or the author cancels it.        *)
Fail(k) ==
    /\ tasks[k].stage \in {"opening", "running"}
    /\ tasks' = [tasks EXCEPT ![k] = Idle] /\ Done(k)
    /\ UNCHANGED <<corpus, server, checked, view, active, cache>>

SettleAny(k) ==  \* mutant: a result is stored although a later analysis was launched
    /\ tasks[k].stage = "exited"
    /\ tasks' = [tasks EXCEPT ![k] = Idle] /\ Done(k)
    /\ cache' = [cache EXCEPT ![tasks[k].context] =
                         [generation |-> tasks[k].generation, settings |-> settings,
                          session |-> tasks[k].session,
                          text |-> tasks[k].text, config |-> tasks[k].config]]
    /\ UNCHANGED <<corpus, server, checked, view, active>>

(* Only the result of the last analysis given to the manager is stored,    *)
(* under the generation the explorer showed when it was asked for.         *)
Settle(k) ==
    /\ tasks[k].stage = "exited"
    /\ tasks' = [tasks EXCEPT ![k] = Idle] /\ Done(k)
    /\ cache' = (IF newest # k THEN cache
                 ELSE [cache EXCEPT ![tasks[k].context] =
                         [generation |-> tasks[k].generation, settings |-> settings,
                          session |-> tasks[k].session,
                          text |-> tasks[k].text, config |-> tasks[k].config]])
    /\ UNCHANGED <<corpus, server, checked, view, active>>

Author ==
    \/ Edit \/ Save \/ Configure \/ Stop \/ ClickOldRow
    \/ \E t \in Target : Choose(t)
    \/ \E p \in Primitive : Select(p)
    \/ \E k \in Task : Analyze(k)
Editor ==
    \/ Chosen \/ Publish \/ TimerFires \/ Restart
    \/ \E r \in requests : Serve(r) \/ Answer(r) \/ Receive(r)
Analyses ==
    \E k \in Task :
        Launch(k) \/ ChildExits(k) \/ Fail(k) \/ Settle(k)

Next == Author \/ Editor \/ Analyses
Spec == Init /\ [][Next]_vars /\ WF_vars(Editor) /\ WF_vars(Chosen)

(***************************************************************************)
(* What the explorer shows                                                 *)
(***************************************************************************)
Shown ==
    IF /\ response # None /\ active # None
       /\ active.target = response.target /\ active.primitive = primitive
    THEN cache[active] ELSE None
Stale(result) ==
    result.generation # response.generation \/ result.settings # settings

(* A result shown as up to date, and asked for since the server was        *)
(* started, was computed from a corpus at least as new as the one the      *)
(* explorer shows: the child reads the disk, the explorer the editor.  Of  *)
(* a result kept over a restart the code promises nothing: the generations *)
(* of the new server start again and may meet those of the old one.        *)
FreshResultsAreRecent ==
    LET result == Shown IN
        result # None /\ ~Stale(result) /\ result.session = response.session =>
            result.text >= response.text

(* The result kept for a row is never replaced by one computed from an     *)
(* older corpus, whatever order children exit in.                          *)
ResultsDoNotGoBack ==
    [][\A c \in Context : cache[c] # None => cache'[c].text >= cache[c].text]_vars

(* What the explorer shows belongs to the running server, and its texts    *)
(* never go back while that server runs.                                   *)
ExplorerDoesNotGoBack ==
    [][response # None /\ response' # None =>
          /\ response'.session = response.session
          /\ response'.generation >= response.generation
          /\ response'.shown >= response.shown]_vars

(* When the author rests, the explorer comes to show the last edit and     *)
(* the row it is set to.                                                   *)
UpToDate ==
    /\ response # None
    /\ response.shown = typed /\ response.target = target /\ response.primitive = primitive
ExplorerCatchesUp == <>[]UpToDate

(* A result shown as up to date describes the corpus and the configuration *)
(* the explorer shows it for.                                              *)
UnstaleIsCurrent ==
    LET result == Shown IN
        result # None /\ ~Stale(result) =>
            result.text >= response.text /\ result.config = settings
=============================================================================
