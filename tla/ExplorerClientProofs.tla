------------------------- MODULE ExplorerClientProofs -------------------------
(***************************************************************************)
(* Proofs about ExplorerClient, for any targets, rows and analyses, any    *)
(* number of edits, settings and restarts.  While one server runs its      *)
(* generation moves with every edit, so that a generation stands for one   *)
(* text: the text of g is g + typed - server.generation.                   *)
(***************************************************************************)
EXTENDS ExplorerClient, TLAPS

RequestSet == [stage : {"sent", "served", "answered"}, target : Target,
               primitive : Primitive, shown : Nat, generation : Nat, text : Nat]
ResponseSet == [target : Target, primitive : Primitive, shown : Nat,
                generation : Nat, session : Nat, text : Nat]
TaskSet == [stage : {"opening", "running", "exited"}, context : Context,
            generation : Nat, session : Nat, text : Nat, config : Nat]
ResultSet == [generation : Nat, settings : Nat, session : Nat, text : Nat, config : Nat]

TypeInv ==
    /\ typed \in Nat /\ saved \in Nat /\ settings \in Nat
    /\ server \in [session : Nat, generation : Nat, up : BOOLEAN]
    /\ checked \in [generation : Nat, text : Nat]
    /\ target \in Target /\ primitive \in Primitive
    /\ requests \in SUBSET RequestSet
    /\ response \in ResponseSet \cup {None}
    /\ tasks \in [Task -> TaskSet \cup {Idle}]
    /\ newest \in Task \cup {None}
    /\ active \in Context \cup {None}
    /\ cache \in [Context -> ResultSet \cup {None}]

Ordered == saved <= typed /\ checked.text <= typed

(* The text x has is the text of the generation x is under, or a later     *)
(* one, while the server x knows is running.                               *)
Recent(session, generation, text) ==
    /\ session <= server.session
    /\ server.up /\ session = server.session
         => text + server.generation >= generation + typed

(* At most one request is on its way, to a server that is up; what it      *)
(* brings is no older than what is shown.                                  *)
RequestOK(r) ==
    /\ r.stage # "sent" =>
         /\ r.shown <= checked.text
         /\ response # None => r.shown >= response.shown
    /\ r.stage = "answered" =>
         /\ r.text + server.generation = r.generation + typed
         /\ r.generation <= server.generation
         /\ response # None => r.generation >= response.generation
RequestsOK ==
    /\ requests # {} => server.up
    /\ \A r, q \in requests : r = q
    /\ \A r \in requests : RequestOK(r)

ResponseOK ==
    response # None =>
        /\ server.up /\ response.session = server.session
        /\ response.text + server.generation = response.generation + typed
        /\ response.generation <= server.generation
        /\ response.shown <= checked.text

(* The child of an analysis reads, or has read, no older text than that of *)
(* the generation the analysis was asked for under.                        *)
TaskOK(k) ==
    /\ tasks[k].stage \in {"opening", "running"}
         => Recent(tasks[k].session, tasks[k].generation, saved)
    /\ tasks[k].stage = "exited"
         => /\ Recent(tasks[k].session, tasks[k].generation, tasks[k].text)
            /\ tasks[k].text <= saved
TasksOK == \A k \in Task : TaskOK(k)

ResultOK(c) ==
    cache[c] # None =>
        /\ Recent(cache[c].session, cache[c].generation, cache[c].text)
        /\ cache[c].text <= saved
CacheOK == \A c \in Context : ResultOK(c)

(* While the result of the last analysis is not settled nothing is stored. *)
NewestOK ==
    \A k \in Task : newest = k /\ tasks[k].stage = "exited" =>
        \A c \in Context : cache[c] # None => cache[c].text <= tasks[k].text

IInv ==
    TypeInv /\ Ordered /\ RequestsOK /\ ResponseOK /\ TasksOK /\ CacheOK /\ NewestOK
-----------------------------------------------------------------------------
LEMMA IdleIsNoStage ==
    /\ Idle.stage = "idle"
    /\ \A x \in TaskSet : x.stage \in {"opening", "running", "exited"} /\ x # Idle
BY DEF Idle, TaskSet

LEMMA InitInvariant == Init => IInv
<1> SUFFICES ASSUME Init PROVE IInv
  OBVIOUS
<1>1. Asked(target, primitive) \in RequestSet /\ Asked(target, primitive).stage = "sent"
  BY ExplorerClientAssumption DEF Init, Asked, RequestSet
<1>2. TypeInv
  BY <1>1, ExplorerClientAssumption DEF Init, TypeInv, Unchecked
<1>3. Ordered /\ ResponseOK /\ CacheOK /\ NewestOK
  BY ExplorerClientAssumption DEF Init, Ordered, Unchecked, ResponseOK, CacheOK,
                                   ResultOK, NewestOK
<1>4. RequestsOK
  BY <1>1 DEF Init, RequestsOK, RequestOK
<1>5. TasksOK
  BY DEF Init, TasksOK, TaskOK, Idle
<1> QED BY <1>2, <1>3, <1>4, <1>5 DEF IInv

(* A step that leaves requests, response, the server and the analyses      *)
(* alone: only what the author has chosen and saved may change.            *)
LEMMA Unchanged == IInv /\ UNCHANGED vars => IInv'
BY DEF IInv, vars, corpus, view, analysis, TypeInv, Ordered, RequestsOK, RequestOK,
       ResponseOK, TasksOK, TaskOK, CacheOK, ResultOK, NewestOK, Recent

-----------------------------------------------------------------------------
(* The author *)

(* An edit moves the text and the generation of a server that is up on     *)
(* together.                                                               *)
LEMMA EditInvariant == IInv /\ Edit => IInv'
<1> SUFFICES ASSUME IInv, Edit PROVE IInv'
  OBVIOUS
<1>1. /\ typed' = typed + 1 /\ saved' = saved /\ settings' = settings
      /\ server' = [server EXCEPT !.generation = IF server.up THEN @ + 1 ELSE @]
      /\ checked' = checked /\ UNCHANGED view /\ UNCHANGED analysis
  BY DEF Edit
<1>2. TypeInv
  BY DEF IInv
<1>3. /\ server' \in [session : Nat, generation : Nat, up : BOOLEAN]
      /\ server'.session = server.session /\ server'.up = server.up
      /\ server'.generation = IF server.up THEN server.generation + 1 ELSE server.generation
  BY <1>1, <1>2 DEF TypeInv
<1>4. TypeInv' /\ Ordered'
  BY <1>1, <1>2, <1>3 DEF IInv, TypeInv, Ordered, view, analysis
<1>5. ASSUME NEW session \in Nat, NEW generation \in Nat, NEW text \in Nat,
             Recent(session, generation, text)
      PROVE  Recent(session, generation, text)'
  BY <1>1, <1>2, <1>3, <1>5 DEF TypeInv, Recent
<1>6. RequestsOK'
  <2>1. ASSUME NEW r \in requests PROVE RequestOK(r)'
    BY <1>1, <1>2, <1>3 DEF IInv, TypeInv, RequestsOK, RequestOK, RequestSet, view
  <2> QED BY <1>1, <1>3, <2>1 DEF IInv, RequestsOK, view
<1>7. ResponseOK'
  BY <1>1, <1>2, <1>3 DEF IInv, TypeInv, ResponseOK, ResponseSet, view
<1>8. TasksOK'
  <2> SUFFICES ASSUME NEW k \in Task, tasks[k].stage \in {"opening", "running", "exited"}
               PROVE  TaskOK(k)'
    BY <1>1 DEF TasksOK, TaskOK, analysis
  <2>1. tasks[k] \in TaskSet /\ saved \in Nat
    BY <1>2, IdleIsNoStage DEF TypeInv
  <2>2. tasks[k].session \in Nat /\ tasks[k].generation \in Nat /\ tasks[k].text \in Nat
    BY <2>1 DEF TaskSet
  <2> QED BY <1>1, <1>5, <2>1, <2>2 DEF IInv, TasksOK, TaskOK, analysis
<1>9. CacheOK'
  <2> SUFFICES ASSUME NEW c \in Context, cache[c] # None
               PROVE  Recent(cache[c].session, cache[c].generation, cache[c].text)'
    BY <1>1 DEF IInv, CacheOK, ResultOK, analysis
  <2>1. cache[c] \in ResultSet
    BY <1>2 DEF TypeInv
  <2>2. cache[c].session \in Nat /\ cache[c].generation \in Nat /\ cache[c].text \in Nat
    BY <2>1 DEF ResultSet
  <2> QED BY <1>1, <1>5, <2>2 DEF IInv, CacheOK, ResultOK, analysis
<1>10. NewestOK'
  BY <1>1 DEF IInv, NewestOK, analysis
<1> QED BY <1>4, <1>6, <1>7, <1>8, <1>9, <1>10 DEF IInv

(* Saving makes what children will read newer. *)
LEMMA SaveInvariant == IInv /\ Save => IInv'
<1> SUFFICES ASSUME IInv, Save PROVE IInv'
  OBVIOUS
<1>1. /\ typed' = typed /\ saved' = typed /\ settings' = settings /\ server' = server
      /\ checked' = checked /\ UNCHANGED view /\ UNCHANGED analysis
  BY DEF Save
<1>2. TypeInv /\ saved <= typed
  BY DEF IInv, Ordered
<1>3. TypeInv' /\ Ordered' /\ RequestsOK' /\ ResponseOK' /\ NewestOK'
  BY <1>1, <1>2 DEF IInv, TypeInv, Ordered, RequestsOK, RequestOK, ResponseOK, NewestOK,
                    view, analysis
<1>4. TasksOK'
  <2> SUFFICES ASSUME NEW k \in Task, tasks[k].stage \in {"opening", "running", "exited"}
               PROVE  TaskOK(k)'
    BY <1>1 DEF TasksOK, TaskOK, analysis
  <2>1. tasks[k] \in TaskSet
    BY <1>2, IdleIsNoStage DEF TypeInv
  <2> QED BY <1>1, <1>2, <2>1 DEF IInv, TypeInv, TasksOK, TaskOK, TaskSet, Recent, analysis
<1>5. CacheOK'
  <2> SUFFICES ASSUME NEW c \in Context, cache[c] # None
               PROVE  cache[c].text <= typed
    BY <1>1 DEF IInv, CacheOK, ResultOK, Recent, analysis
  <2>1. cache[c].text \in Nat
    BY <1>2 DEF TypeInv, ResultSet
  <2> QED BY <1>2, <2>1 DEF IInv, TypeInv, CacheOK, ResultOK
<1> QED BY <1>3, <1>4, <1>5 DEF IInv

LEMMA ConfigureInvariant == IInv /\ Configure => IInv'
<1> SUFFICES ASSUME IInv, Configure PROVE IInv'
  OBVIOUS
<1>1. /\ typed' = typed /\ saved' = saved /\ settings' = settings + 1 /\ server' = server
      /\ checked' = checked /\ UNCHANGED view /\ UNCHANGED analysis
  BY DEF Configure
<1> QED BY <1>1 DEF IInv, TypeInv, Ordered, RequestsOK, RequestOK, ResponseOK, TasksOK,
                    TaskOK, CacheOK, ResultOK, NewestOK, Recent, view, analysis
-----------------------------------------------------------------------------
(* The explorer *)

(* What a refresh sends is alone on its way. *)
LEMMA AskedAlone ==
    ASSUME IInv, NEW t \in Target, NEW p \in Primitive, Ask(t, p), server'.up = server.up,
           response' = response
    PROVE  requests' \in SUBSET RequestSet /\ RequestsOK'
<1>1. Asked(t, p) \in RequestSet /\ Asked(t, p).stage = "sent"
  BY DEF Asked, RequestSet
<1>2. CASE server.up
  BY <1>1, <1>2 DEF Ask, StillWanted, RequestsOK, RequestOK
<1>3. CASE ~server.up
  <2>1. requests = {} /\ requests' = {}
    BY <1>3 DEF IInv, Ask, RequestsOK
  <2> QED BY <2>1 DEF RequestsOK
<1> QED BY <1>2, <1>3

(* A step that sends a refresh or none, and otherwise changes only what    *)
(* the explorer is set to.                                                 *)
LEMMA SetInvariant ==
    ASSUME IInv, typed' = typed, saved' = saved, settings' = settings, server' = server,
           checked' = checked, response' = response, UNCHANGED analysis,
           target' \in Target, primitive' \in Primitive,
           \/ requests' = requests
           \/ \E t \in Target, p \in Primitive : Ask(t, p)
    PROVE  IInv'
<1>1. requests' \in SUBSET RequestSet /\ RequestsOK'
  <2>1. CASE requests' = requests
    BY <2>1 DEF IInv, TypeInv, RequestsOK, RequestOK
  <2>2. CASE \E t \in Target, p \in Primitive : Ask(t, p)
    BY <2>2, AskedAlone
  <2> QED BY <2>1, <2>2
<1>2. TypeInv' /\ Ordered' /\ ResponseOK'
  BY <1>1 DEF IInv, TypeInv, Ordered, ResponseOK, analysis
<1>3. TasksOK' /\ CacheOK' /\ NewestOK'
  BY DEF IInv, TasksOK, TaskOK, CacheOK, ResultOK, NewestOK, Recent, analysis
<1> QED BY <1>1, <1>2, <1>3 DEF IInv

LEMMA SettingInvariant ==
    ASSUME IInv,
           \/ \E t \in Target : Choose(t)
           \/ \E p \in Primitive : Select(p)
           \/ Chosen \/ TimerFires \/ ClickOldRow
    PROVE  IInv'
<1>1. target \in Target /\ primitive \in Primitive
  BY DEF IInv, TypeInv
<1>2. ASSUME NEW t \in Target, Choose(t) PROVE IInv'
  BY <1>1, <1>2, SetInvariant DEF Choose
<1>3. ASSUME NEW p \in Primitive, Select(p) PROVE IInv'
  <2>1. \E t \in Target, q \in Primitive : Ask(t, q)
    BY <1>1, <1>3 DEF Select
  <2> QED BY <1>1, <1>3, <2>1, SetInvariant DEF Select
<1>4. ASSUME Chosen \/ TimerFires \/ ClickOldRow PROVE IInv'
  <2>1. \E t \in Target, q \in Primitive : Ask(t, q)
    BY <1>1, <1>4 DEF Chosen, TimerFires, ClickOldRow
  <2> QED BY <1>1, <1>4, <2>1, SetInvariant DEF Chosen, TimerFires, ClickOldRow, corpus
<1> QED BY <1>2, <1>3, <1>4

(* Checking makes what will be served newer. *)
LEMMA PublishInvariant == IInv /\ Publish => IInv'
<1> SUFFICES ASSUME IInv, Publish PROVE IInv'
  OBVIOUS
<1>1. /\ UNCHANGED corpus /\ server' = server /\ requests' = requests
      /\ response' = response /\ target' = target /\ primitive' = primitive
      /\ UNCHANGED analysis
      /\ checked' = [generation |-> server.generation, text |-> typed]
  BY DEF Publish, Now
<1>2. TypeInv /\ checked.text <= typed /\ checked.text \in Nat /\ checked'.text = typed
  BY <1>1 DEF IInv, TypeInv, Ordered
<1>3. TypeInv' /\ Ordered'
  BY <1>1, <1>2 DEF IInv, TypeInv, Ordered, corpus, analysis
<1>4. RequestsOK'
  <2>1. ASSUME NEW r \in requests PROVE RequestOK(r)'
    <3>1. RequestOK(r) /\ r.shown \in Nat
      BY <1>2 DEF IInv, RequestsOK, TypeInv, RequestSet
    <3> QED BY <1>1, <1>2, <3>1 DEF TypeInv, RequestOK, corpus
  <2> QED BY <1>1, <2>1 DEF IInv, RequestsOK
<1>5. ResponseOK'
  <2>1. response # None => response.shown \in Nat
    BY <1>2 DEF TypeInv, ResponseSet
  <2> QED BY <1>1, <1>2, <2>1 DEF IInv, TypeInv, ResponseOK, corpus
<1>6. TasksOK' /\ CacheOK' /\ NewestOK'
  BY <1>1 DEF IInv, TasksOK, TaskOK, CacheOK, ResultOK, NewestOK, Recent, analysis, corpus
<1> QED BY <1>3, <1>4, <1>5, <1>6 DEF IInv

(* The one request on its way takes a step. *)
LEMMA RequestMoves ==
    ASSUME IInv, NEW r \in requests, NEW q \in RequestSet, RequestOK(q),
           requests' = (requests \ {r}) \cup {q},
           UNCHANGED corpus, server' = server, checked' = checked, target' = target,
           primitive' = primitive, response' = response, UNCHANGED analysis
    PROVE  IInv'
<1>1. requests' = {q} /\ server.up
  BY DEF IInv, RequestsOK
<1>2. RequestsOK'
  BY <1>1 DEF RequestsOK, RequestOK, corpus
<1>3. TypeInv' /\ Ordered' /\ ResponseOK'
  BY <1>1 DEF IInv, TypeInv, Ordered, ResponseOK, corpus, analysis
<1>4. TasksOK' /\ CacheOK' /\ NewestOK'
  BY DEF IInv, TasksOK, TaskOK, CacheOK, ResultOK, NewestOK, Recent, analysis, corpus
<1> QED BY <1>2, <1>3, <1>4 DEF IInv

LEMMA ServeInvariant ==
    ASSUME IInv, NEW r \in requests, Serve(r)
    PROVE  IInv'
<1> DEFINE q == [r EXCEPT !.stage = "served", !.shown = checked.text]
<1>1. r \in RequestSet /\ checked.text \in Nat
  BY DEF IInv, TypeInv
<1>2. q \in RequestSet /\ q.stage = "served" /\ q.shown = checked.text
  BY <1>1 DEF RequestSet
<1>3. RequestOK(q)
  BY <1>1, <1>2 DEF IInv, ResponseOK, RequestOK
<1>4. requests' = (requests \ {r}) \cup {q}
  BY DEF Serve
<1> HIDE DEF q
<1> QED BY <1>2, <1>3, <1>4, RequestMoves DEF Serve

LEMMA AnswerInvariant ==
    ASSUME IInv, NEW r \in requests, Answer(r)
    PROVE  IInv'
<1> DEFINE q == [r EXCEPT !.stage = "answered", !.generation = server.generation,
                          !.text = typed]
<1>1. r \in RequestSet /\ typed \in Nat /\ server.generation \in Nat
  BY DEF IInv, TypeInv
<1>2. /\ q \in RequestSet /\ q.stage = "answered" /\ q.shown = r.shown
      /\ q.generation = server.generation /\ q.text = typed
  BY <1>1 DEF RequestSet
<1>3. RequestOK(r) /\ r.stage = "served"
  BY DEF IInv, RequestsOK, Answer
<1>4. RequestOK(q)
  BY <1>1, <1>2, <1>3 DEF IInv, ResponseOK, RequestOK
<1>5. requests' = (requests \ {r}) \cup {q}
  BY DEF Answer
<1> HIDE DEF q
<1> QED BY <1>2, <1>4, <1>5, RequestMoves DEF Answer

LEMMA ReceiveInvariant ==
    ASSUME IInv, NEW r \in requests, Receive(r)
    PROVE  IInv'
<1>1. /\ UNCHANGED corpus /\ server' = server /\ checked' = checked
      /\ primitive' = primitive /\ UNCHANGED analysis
      /\ target' = r.target /\ response' = Taken(r) /\ r.stage = "answered"
  BY DEF Receive
<1>2. requests' = {} /\ RequestOK(r) /\ server.up
  BY DEF IInv, RequestsOK, Receive
<1>3. r \in RequestSet /\ TypeInv /\ server.session \in Nat
  BY DEF IInv, TypeInv
<1>4. /\ response' \in ResponseSet /\ target' \in Target
      /\ response'.session = server.session /\ response'.text = r.text
      /\ response'.generation = r.generation /\ response'.shown = r.shown
  BY <1>1, <1>3 DEF Taken, RequestSet, ResponseSet
<1>5. TypeInv' /\ Ordered' /\ RequestsOK'
  BY <1>1, <1>2, <1>3, <1>4 DEF IInv, TypeInv, Ordered, RequestsOK, corpus, analysis
<1>6. ResponseOK'
  BY <1>1, <1>2, <1>4 DEF RequestOK, ResponseOK, corpus
<1>7. TasksOK' /\ CacheOK' /\ NewestOK'
  BY <1>1 DEF IInv, TasksOK, TaskOK, CacheOK, ResultOK, NewestOK, Recent, analysis, corpus
<1> QED BY <1>5, <1>6, <1>7 DEF IInv

(* Without a server nothing is shown and nothing on its way. *)
LEMMA StopInvariant == IInv /\ Stop => IInv'
<1> SUFFICES ASSUME IInv, Stop PROVE IInv'
  OBVIOUS
<1>1. /\ typed' = typed /\ saved' = saved /\ settings' = settings /\ checked' = checked
      /\ target' = target /\ primitive' = primitive /\ UNCHANGED analysis
      /\ requests' = {} /\ response' = None /\ server' = [server EXCEPT !.up = FALSE]
  BY DEF Stop
<1>2. /\ server' \in [session : Nat, generation : Nat, up : BOOLEAN]
      /\ server'.session = server.session /\ ~server'.up
  BY <1>1 DEF IInv, TypeInv
<1>3. TypeInv' /\ Ordered' /\ RequestsOK' /\ ResponseOK' /\ NewestOK'
  BY <1>1, <1>2 DEF IInv, TypeInv, Ordered, RequestsOK, ResponseOK, NewestOK, analysis
<1>4. TasksOK' /\ CacheOK'
  BY <1>1, <1>2 DEF IInv, TasksOK, TaskOK, CacheOK, ResultOK, Recent, analysis
<1> QED BY <1>3, <1>4 DEF IInv

(* What is kept of an earlier server says nothing of the new one. *)
LEMMA RestartInvariant == IInv /\ Restart => IInv'
<1> SUFFICES ASSUME IInv, Restart PROVE IInv'
  OBVIOUS
<1>1. /\ UNCHANGED corpus /\ target' = target /\ primitive' = primitive
      /\ response' = response /\ UNCHANGED analysis /\ ~server.up
      /\ server' = [session |-> server.session + 1, generation |-> 1, up |-> TRUE]
      /\ checked' = [generation |-> 0, text |-> 0]
      /\ requests' = {Asked(target, primitive)}
  BY DEF Restart, Ask, StillWanted, Unchecked
<1>2. /\ server' \in [session : Nat, generation : Nat, up : BOOLEAN]
      /\ server'.session = server.session + 1 /\ server'.up /\ server.session \in Nat
      /\ checked' \in [generation : Nat, text : Nat] /\ checked'.text = 0
  BY <1>1 DEF IInv, TypeInv
<1>3. Asked(target, primitive) \in RequestSet /\ Asked(target, primitive).stage = "sent"
  BY DEF IInv, TypeInv, Asked, RequestSet
<1>4. response = None
  BY <1>1 DEF IInv, ResponseOK
<1>5. TypeInv' /\ Ordered' /\ ResponseOK' /\ NewestOK'
  BY <1>1, <1>2, <1>3, <1>4 DEF IInv, TypeInv, Ordered, ResponseOK, NewestOK, corpus, analysis
<1>6. RequestsOK'
  BY <1>1, <1>2, <1>3 DEF RequestsOK, RequestOK
<1>7. ASSUME NEW session \in Nat, NEW generation, NEW text, Recent(session, generation, text)
      PROVE  Recent(session, generation, text)'
  BY <1>2, <1>7 DEF Recent
<1>8. TasksOK'
  <2> SUFFICES ASSUME NEW k \in Task, tasks[k].stage \in {"opening", "running", "exited"}
               PROVE  TaskOK(k)'
    BY <1>1 DEF TasksOK, TaskOK, analysis
  <2>1. tasks[k].session \in Nat
    BY IdleIsNoStage DEF IInv, TypeInv, TaskSet
  <2> QED BY <1>1, <1>7, <2>1 DEF IInv, TasksOK, TaskOK, analysis, corpus
<1>9. CacheOK'
  <2> SUFFICES ASSUME NEW c \in Context, cache[c] # None
               PROVE  Recent(cache[c].session, cache[c].generation, cache[c].text)'
    BY <1>1 DEF IInv, CacheOK, ResultOK, analysis, corpus
  <2>1. cache[c].session \in Nat
    BY DEF IInv, TypeInv, ResultSet
  <2> QED BY <1>1, <1>7, <2>1 DEF IInv, CacheOK, ResultOK, analysis
<1> QED BY <1>5, <1>6, <1>8, <1>9 DEF IInv
-----------------------------------------------------------------------------
(* Analyses *)

(* A step of the analyses alone. *)
LEMMA AnalysisStep ==
    ASSUME IInv, UNCHANGED corpus, server' = server, checked' = checked, UNCHANGED view,
           tasks' \in [Task -> TaskSet \cup {Idle}], newest' \in Task \cup {None},
           active' \in Context \cup {None}, cache' \in [Context -> ResultSet \cup {None}],
           TasksOK', CacheOK', NewestOK'
    PROVE  IInv'
BY DEF IInv, TypeInv, Ordered, RequestsOK, RequestOK, ResponseOK, corpus, view

(* An analysis starts only when everything typed is on the disk. *)
LEMMA AnalyzeInvariant ==
    ASSUME IInv, NEW k \in Task, Analyze(k)
    PROVE  IInv'
<1>1. /\ UNCHANGED corpus /\ server' = server /\ checked' = checked /\ UNCHANGED view
      /\ newest' = newest /\ cache' = cache /\ TypeInv
      /\ active' \in Context \cup {None}
  BY DEF Analyze, IInv, TypeInv, Here, Context
<1>2. CASE tasks' = tasks
  <2>1. TasksOK' /\ CacheOK' /\ NewestOK'
    BY <1>1, <1>2 DEF IInv, TasksOK, TaskOK, CacheOK, ResultOK, NewestOK, Recent, corpus
  <2> QED BY <1>1, <1>2, <2>1, AnalysisStep DEF TypeInv
<1>3. CASE tasks' # tasks
  <2> DEFINE new == [stage |-> "opening", context |-> Here,
                     generation |-> response.generation, session |-> server.session,
                     text |-> 0, config |-> 0]
  <2>1. /\ tasks' = [tasks EXCEPT ![k] = new] /\ response # None /\ saved = typed
        /\ tasks[k].stage = "idle"
    BY <1>3, IdleIsNoStage DEF Analyze, Dirty, RowIsCurrent
  <2>2. /\ new \in TaskSet /\ new.stage = "opening" /\ new.session = server.session
        /\ new.generation = response.generation
    <3>1. response \in ResponseSet /\ Here \in Context
      BY <1>1, <2>1 DEF TypeInv, Here, Context
    <3> QED BY <1>1, <3>1 DEF TypeInv, ResponseSet, TaskSet
  <2>3. Recent(server.session, response.generation, typed)
    <3>1. response.generation \in Nat /\ response.generation <= server.generation
      BY <1>1, <2>1 DEF IInv, TypeInv, ResponseOK, ResponseSet
    <3> QED BY <1>1, <3>1 DEF TypeInv, Recent
  <2> HIDE DEF new
  <2>4. /\ tasks' \in [Task -> TaskSet \cup {Idle}] /\ tasks'[k] = new
        /\ \A j \in Task \ {k} : tasks'[j] = tasks[j]
    BY <1>1, <2>1, <2>2 DEF TypeInv
  <2>5. TasksOK'
    <3> SUFFICES ASSUME NEW j \in Task PROVE TaskOK(j)'
      BY DEF TasksOK
    <3>1. CASE j = k
      BY <1>1, <2>1, <2>2, <2>3, <2>4, <3>1 DEF TaskOK, Recent, corpus
    <3>2. CASE j # k
      BY <1>1, <2>4, <3>2 DEF IInv, TasksOK, TaskOK, Recent, corpus
    <3> QED BY <3>1, <3>2
  <2>6. CacheOK' /\ NewestOK'
    BY <1>1, <2>2, <2>4 DEF IInv, CacheOK, ResultOK, NewestOK, Recent, corpus
  <2> QED BY <1>1, <2>4, <2>5, <2>6, AnalysisStep DEF TypeInv
<1> QED BY <1>2, <1>3

LEMMA LaunchInvariant ==
    ASSUME IInv, NEW k \in Task, Launch(k)
    PROVE  IInv'
<1>1. /\ UNCHANGED corpus /\ server' = server /\ checked' = checked /\ UNCHANGED view
      /\ newest' = k /\ active' = active /\ cache' = cache /\ TypeInv
      /\ tasks[k].stage = "opening"
  BY DEF Launch, IInv
<1> DEFINE new == [tasks[k] EXCEPT !.stage = "running"]
<1>2. /\ new \in TaskSet /\ new.stage = "running" /\ new.session = tasks[k].session
      /\ new.generation = tasks[k].generation
  <2>1. tasks[k] \in TaskSet
    BY <1>1, IdleIsNoStage DEF TypeInv
  <2> QED BY <2>1 DEF TaskSet
<1>3. tasks' = [j \in Task |-> IF j = k THEN new
                 ELSE IF j = newest /\ tasks[j].stage = "running" THEN Idle ELSE tasks[j]]
  BY DEF Launch
<1> HIDE DEF new
<1>4. /\ tasks' \in [Task -> TaskSet \cup {Idle}] /\ tasks'[k] = new
      /\ \A j \in Task \ {k} : tasks'[j] = tasks[j] \/ tasks'[j] = Idle
  BY <1>1, <1>2, <1>3 DEF TypeInv
<1>5. TasksOK'
  <2> SUFFICES ASSUME NEW j \in Task PROVE TaskOK(j)'
    BY DEF TasksOK
  <2>1. CASE j = k
    BY <1>1, <1>2, <1>4, <2>1 DEF IInv, TasksOK, TaskOK, Recent, corpus
  <2>2. CASE j # k
    BY <1>1, <1>4, <2>2, IdleIsNoStage DEF IInv, TasksOK, TaskOK, Recent, corpus
  <2> QED BY <2>1, <2>2
<1>6. CacheOK' /\ NewestOK'
  BY <1>1, <1>2, <1>4 DEF IInv, CacheOK, ResultOK, NewestOK, Recent, corpus
<1> QED BY <1>1, <1>4, <1>5, <1>6, AnalysisStep DEF TypeInv

(* What the child read is what is on the disk: nothing stored is newer. *)
LEMMA ExitInvariant ==
    ASSUME IInv, NEW k \in Task, ChildExits(k)
    PROVE  IInv'
<1>1. /\ UNCHANGED corpus /\ server' = server /\ checked' = checked /\ UNCHANGED view
      /\ newest' = newest /\ active' = active /\ cache' = cache /\ TypeInv
      /\ tasks[k].stage = "running"
  BY DEF ChildExits, IInv
<1> DEFINE new == [tasks[k] EXCEPT !.stage = "exited", !.text = saved, !.config = settings]
<1>2. /\ new \in TaskSet /\ new.stage = "exited" /\ new.session = tasks[k].session
      /\ new.generation = tasks[k].generation /\ new.text = saved
  <2>1. tasks[k] \in TaskSet
    BY <1>1, IdleIsNoStage DEF TypeInv
  <2> QED BY <1>1, <2>1 DEF TypeInv, TaskSet
<1>3. tasks' = [tasks EXCEPT ![k] = new]
  BY DEF ChildExits
<1> HIDE DEF new
<1>4. /\ tasks' \in [Task -> TaskSet \cup {Idle}] /\ tasks'[k] = new
      /\ \A j \in Task \ {k} : tasks'[j] = tasks[j]
  BY <1>1, <1>2, <1>3 DEF TypeInv
<1>5. TasksOK'
  <2> SUFFICES ASSUME NEW j \in Task PROVE TaskOK(j)'
    BY DEF TasksOK
  <2>1. CASE j = k
    <3>1. Recent(tasks[k].session, tasks[k].generation, saved)
      BY <1>1 DEF IInv, TasksOK, TaskOK
    <3> QED BY <1>1, <1>2, <1>4, <2>1, <3>1 DEF TypeInv, TaskOK, Recent, corpus
  <2>2. CASE j # k
    BY <1>1, <1>4, <2>2 DEF IInv, TasksOK, TaskOK, Recent, corpus
  <2> QED BY <2>1, <2>2
<1>6. CacheOK'
  BY <1>1 DEF IInv, CacheOK, ResultOK, Recent, corpus
<1>7. NewestOK'
  BY <1>1, <1>2, <1>4 DEF IInv, NewestOK, CacheOK, ResultOK
<1> QED BY <1>1, <1>4, <1>5, <1>6, <1>7, AnalysisStep DEF TypeInv

(* An analysis that ends and stores nothing. *)
LEMMA EndsUnstored ==
    ASSUME IInv, NEW k \in Task, tasks' = [tasks EXCEPT ![k] = Idle], Done(k),
           active' = active, cache' = cache,
           UNCHANGED corpus, server' = server, checked' = checked, UNCHANGED view
    PROVE  IInv'
<1>1. /\ tasks' \in [Task -> TaskSet \cup {Idle}] /\ tasks'[k].stage = "idle"
      /\ \A j \in Task \ {k} : tasks'[j] = tasks[j]
  BY IdleIsNoStage DEF IInv, TypeInv
<1>2. newest' \in Task \cup {None} /\ \A j \in Task : newest' = j => newest = j
  BY ExplorerClientAssumption DEF IInv, TypeInv, Done
<1>3. TasksOK' /\ CacheOK' /\ NewestOK'
  BY <1>1, <1>2 DEF IInv, TasksOK, TaskOK, CacheOK, ResultOK, NewestOK, Recent, corpus
<1> QED BY <1>1, <1>2, <1>3, AnalysisStep DEF IInv, TypeInv

(* What Settle stores of the analysis it settles. *)
Kept(k) == [generation |-> tasks[k].generation, settings |-> settings,
            session |-> tasks[k].session, text |-> tasks[k].text,
            config |-> tasks[k].config]

LEMMA StoredResult ==
    ASSUME IInv, NEW k \in Task, Settle(k), newest = k
    PROVE  /\ cache' = [cache EXCEPT ![tasks[k].context] = Kept(k)]
           /\ tasks[k].context \in Context /\ Kept(k) \in ResultSet
           /\ Kept(k).session = tasks[k].session /\ Kept(k).text = tasks[k].text
           /\ Kept(k).generation = tasks[k].generation
<1>1. tasks[k] \in TaskSet /\ settings \in Nat
  BY IdleIsNoStage DEF IInv, TypeInv, Settle
<1> QED BY <1>1 DEF Settle, Kept, TaskSet, ResultSet

LEMMA SettleInvariant ==
    ASSUME IInv, NEW k \in Task, Settle(k)
    PROVE  IInv'
<1>1. /\ UNCHANGED corpus /\ server' = server /\ checked' = checked /\ UNCHANGED view
      /\ tasks' = [tasks EXCEPT ![k] = Idle] /\ Done(k)
      /\ active' = active /\ TypeInv /\ tasks[k].stage = "exited"
  BY DEF Settle, IInv
<1>2. CASE newest # k
  BY <1>1, <1>2, EndsUnstored DEF Settle
<1>3. CASE newest = k
  <2> DEFINE c == tasks[k].context
             kept == Kept(k)
  <2>1. /\ cache' = [cache EXCEPT ![c] = kept] /\ c \in Context /\ kept \in ResultSet
        /\ kept.session = tasks[k].session /\ kept.text = tasks[k].text
        /\ kept.generation = tasks[k].generation
    BY <1>3, StoredResult
  <2> HIDE DEF c, kept
  <2>2. /\ cache' \in [Context -> ResultSet \cup {None}] /\ cache'[c] = kept
        /\ \A d \in Context \ {c} : cache'[d] = cache[d]
    BY <1>1, <2>1 DEF TypeInv
  <2>3. CacheOK'
    <3> SUFFICES ASSUME NEW d \in Context PROVE ResultOK(d)'
      BY DEF CacheOK
    <3>1. CASE d = c
      <4>1. TaskOK(k)
        BY DEF IInv, TasksOK
      <4> QED BY <1>1, <2>1, <2>2, <3>1, <4>1 DEF TaskOK, ResultOK, Recent, corpus
    <3>2. CASE d # c
      BY <1>1, <2>2, <3>2 DEF IInv, CacheOK, ResultOK, Recent, corpus
    <3> QED BY <3>1, <3>2
  <2>4. /\ tasks' \in [Task -> TaskSet \cup {Idle}] /\ tasks'[k].stage = "idle"
        /\ \A j \in Task \ {k} : tasks'[j] = tasks[j]
    BY <1>1, IdleIsNoStage DEF TypeInv
  <2>5. newest' = None
    BY <1>1, <1>3 DEF Done
  <2>6. TasksOK' /\ NewestOK'
    BY <1>1, <2>4, <2>5, ExplorerClientAssumption
    DEF IInv, TasksOK, TaskOK, NewestOK, Recent, corpus
  <2> QED BY <1>1, <2>2, <2>3, <2>4, <2>5, <2>6, AnalysisStep DEF TypeInv
<1> QED BY <1>2, <1>3
-----------------------------------------------------------------------------
LEMMA NextInvariant == IInv /\ [Next]_vars => IInv'
<1> SUFFICES ASSUME IInv, [Next]_vars PROVE IInv'
  OBVIOUS
<1>1. CASE Author
  <2>1. ASSUME NEW k \in Task, Analyze(k) PROVE IInv'
    BY <2>1, AnalyzeInvariant
  <2> QED BY <1>1, <2>1, EditInvariant, SaveInvariant, ConfigureInvariant, StopInvariant,
             SettingInvariant DEF Author
<1>2. CASE Editor
  <2>1. ASSUME NEW r \in requests, Serve(r) \/ Answer(r) \/ Receive(r) PROVE IInv'
    BY <2>1, ServeInvariant, AnswerInvariant, ReceiveInvariant
  <2> QED BY <1>2, <2>1, SettingInvariant, PublishInvariant, RestartInvariant DEF Editor
<1>3. CASE Analyses
  <2>1. ASSUME NEW k \in Task, Fail(k) PROVE IInv'
    BY <2>1, EndsUnstored DEF Fail
  <2> QED BY <1>3, <2>1, LaunchInvariant, ExitInvariant, SettleInvariant DEF Analyses
<1>4. CASE UNCHANGED vars
  BY <1>4, Unchanged
<1> QED BY <1>1, <1>2, <1>3, <1>4 DEF Next

(* The inductive invariant of the explorer: what is shown, on its way,     *)
(* analysed or kept under a generation of the running server is of the     *)
(* text of that generation or a later one.                                 *)
THEOREM Invariance == Spec => []IInv
BY InitInvariant, NextInvariant, PTL DEF Spec

(* A result shown as up to date was computed from a corpus at least as new *)
(* as the one the explorer shows (ConcreteAnalysisCache.latest and store), *)
(* whatever happens between an analysis and its exit, if it was asked for  *)
(* in the session of the answer shown.  Without that it would not hold:    *)
(* the cache compares generations, and a new server counts them anew.      *)
THEOREM FreshAreRecent == Spec => []FreshResultsAreRecent
<1>1. IInv => FreshResultsAreRecent
  <2> SUFFICES ASSUME IInv, Shown # None, ~Stale(Shown), Shown.session = response.session
               PROVE  Shown.text >= response.text
    BY DEF FreshResultsAreRecent
  <2>1. /\ response # None /\ Shown = cache[active] /\ Shown.generation = response.generation
    BY DEF Shown, Stale
  <2>2. active \in Context => CacheOK /\ cache[active] \in ResultSet
    BY <2>1 DEF IInv, TypeInv
  <2>3. /\ response.text + server.generation = response.generation + typed
        /\ server.up /\ response.session = server.session /\ response \in ResponseSet
    BY <2>1 DEF IInv, TypeInv, ResponseOK
  <2>4. active \in Context
    BY DEF IInv, TypeInv, Shown
  <2>5. Recent(Shown.session, Shown.generation, Shown.text) /\ Shown \in ResultSet
    BY <2>1, <2>2, <2>4 DEF CacheOK, ResultOK
  <2> QED BY <2>1, <2>3, <2>5 DEF IInv, TypeInv, Recent, ResultSet, ResponseSet
<1> QED BY <1>1, Invariance, PTL

(* The step of ResultsDoNotGoBack. *)
KeepsTheNewer == \A c \in Context : cache[c] # None => cache'[c].text >= cache[c].text

(* The result kept for a row is never replaced by one of an older corpus,  *)
(* in whatever order children exit (AnalysisManager and storeResult).      *)
THEOREM NoResultGoesBack == Spec => ResultsDoNotGoBack
<1>1. IInv /\ [Next]_vars => [KeepsTheNewer]_vars
  <2> SUFFICES ASSUME IInv, [Next]_vars, NEW c \in Context, cache[c] # None
               PROVE  cache'[c].text >= cache[c].text
    BY DEF KeepsTheNewer
  <2>1. cache[c].text \in Nat /\ cache \in [Context -> ResultSet \cup {None}]
    BY DEF IInv, TypeInv, ResultSet
  <2>2. CASE cache' = cache
    BY <2>1, <2>2
  <2>3. CASE cache' # cache
    <3>1. PICK k \in Task : Settle(k)
      <4>1. CASE Next
        BY <2>3, <4>1 DEF Next, Author, Editor, Analyses, Edit, Save, Configure, Stop,
           ClickOldRow, Choose, Select, Analyze, Chosen, Publish, TimerFires, Restart,
           Serve, Answer, Receive, Launch, ChildExits, Fail, analysis
      <4>2. CASE UNCHANGED vars
        BY <2>3, <4>2 DEF vars, analysis
      <4> QED BY <4>1, <4>2
    <3>2. newest = k /\ tasks[k].stage = "exited"
      BY <2>3, <3>1 DEF Settle
    <3>3. cache[c].text <= tasks[k].text
      BY <3>2 DEF IInv, NewestOK
    <3>4. /\ cache' = [cache EXCEPT ![tasks[k].context] = Kept(k)]
          /\ Kept(k).text = tasks[k].text /\ Kept(k).text \in Nat
      BY <3>1, <3>2, StoredResult DEF ResultSet
    <3>5. cache'[c] = IF c = tasks[k].context THEN Kept(k) ELSE cache[c]
      BY <2>1, <3>4
    <3> QED BY <2>1, <3>3, <3>4, <3>5
  <2> QED BY <2>2, <2>3
<1> QED BY <1>1, Invariance, PTL DEF Spec, ResultsDoNotGoBack, KeepsTheNewer

(* The step of ExplorerDoesNotGoBack. *)
ShowsTheNewer ==
    response # None /\ response' # None =>
        /\ response'.session = response.session
        /\ response'.generation >= response.generation
        /\ response'.shown >= response.shown

(* What the explorer shows is of the running server and never goes back    *)
(* while that server runs: answers to refreshes sent before the last are   *)
(* thrown away (SpecializationExplorer.refresh).                           *)
THEOREM ExplorerMovesOn == Spec => ExplorerDoesNotGoBack
<1>1. IInv /\ [Next]_vars => [ShowsTheNewer]_vars
  <2> SUFFICES ASSUME IInv, [Next]_vars, response # None, response' # None
               PROVE  /\ response'.session = response.session
                      /\ response'.generation >= response.generation
                      /\ response'.shown >= response.shown
    BY DEF ShowsTheNewer
  <2>1. response \in ResponseSet /\ response.session = server.session
    BY DEF IInv, TypeInv, ResponseOK
  <2>2. CASE response' = response
    BY <2>1, <2>2 DEF ResponseSet
  <2>3. CASE response' # response
    <3>1. PICK r \in requests : Receive(r)
      <4>1. CASE Next
        BY <2>3, <4>1 DEF Next, Author, Editor, Analyses, Edit, Save, Configure, Stop,
           ClickOldRow, Choose, Select, Analyze, Chosen, Publish, TimerFires, Restart,
           Serve, Answer, Launch, ChildExits, Fail, Settle, view
      <4>2. CASE UNCHANGED vars
        BY <2>3, <4>2 DEF vars, view
      <4> QED BY <4>1, <4>2
    <3>2. response' = Taken(r) /\ RequestOK(r) /\ r.stage = "answered"
      BY <3>1 DEF IInv, RequestsOK, Receive
    <3> QED BY <2>1, <3>2 DEF Taken, RequestOK
  <2> QED BY <2>2, <2>3
<1> QED BY <1>1, Invariance, PTL DEF Spec, ExplorerDoesNotGoBack, ShowsTheNewer
=============================================================================
