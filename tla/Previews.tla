------------------------------- MODULE Previews -------------------------------
(***************************************************************************)
(* The previews of pull requests: PreviewPipeline, with what its Sensors   *)
(* do when GitHub calls the webhook, and what becomes of it: Environments, *)
(* Applications, namespaces and Argo CD Applications.                      *)
(*                                                                         *)
(* A Sensor's triggers take their events in order, each at its own pace;   *)
(* one that fails drops its event.  The build of a preview and the rest of *)
(* the Application's handler are in ApplicationEngine: here a live         *)
(* Application whose Environment exists is deployed at its ref.            *)
(***************************************************************************)
EXTENDS PreviewPipeline, Sequences

CONSTANTS
    Pulls,     \* pull requests
    UrlOf,     \* their repositories
    NumberOf,  \* their numbers
    MaxPushes, \* bound: commits of a pull request
    MaxEvents  \* bound: events of pull requests

Numbers == {NumberOf[p] : p \in Pulls}

\* The number in the Sensor's templates.
Zero == 0

ASSUME PullsAssumption ==
    /\ UrlOf \in [Pulls -> Urls] /\ Zero \notin Numbers /\ None \notin Numbers
    /\ MaxPushes \in Nat /\ MaxEvents \in Nat

VARIABLES
    pull,   \* state and head of the pull requests
    queue,  \* the events each trigger of a repository's Sensor has yet to take
    env,    \* the Environments pr-<number>
    app,    \* the Applications pr-<number>-<type>
    ns,     \* the namespaces <client>-pr-<number>
    argo,   \* the Argo CD Applications
    raced,  \* (history) numbers with an event that was lost, that a trigger
            \* dropped, or that came to its trigger too late
    events

previewVars == <<pull, queue, env, app, ns, argo, raced, events>>
vars == <<pipelineVars, previewVars>>

Triggers == {"create-environment", "create-app", "sync-app", "delete-app",
             "delete-environment"}
Shas == 0 .. MaxPushes
Event == [pull : Pulls, sha : Shas, repo : Repos]
Environment == [due : BOOLEAN, mid : BOOLEAN, deleting : BOOLEAN,
                ready : BOOLEAN, recorded : BOOLEAN]
Application == [repo : Repos, environment : Numbers \cup {Zero}, sha : Shas,
                deleting : BOOLEAN]
NewEnvironment == [due |-> TRUE, mid |-> FALSE, deleting |-> FALSE, ready |-> FALSE,
                   recorded |-> FALSE]

----------------------------------------------------------------------------
(* Decisions, each after its mutant *)

\* The mutant's finalizer leaves the namespace to whoever comes after.
NamespaceAfter_Mutant(recorded, state) == state

\* Environment's finalize: the namespace of the status is deleted.
NamespaceAfter(recorded, state) ==
    IF recorded /\ state = "active" THEN "terminating" ELSE state

\* The mutant's dependency leaves reopened pull requests out.
TriggersOf_Mutant(action) ==
    CASE action = "opened" -> {"create-environment", "create-app"}
      [] action = "synchronize" -> {"sync-app"}
      [] action = "closed" -> {"delete-app", "delete-environment"}
      [] OTHER -> {}

\* The Sensor's dependencies and its triggers' conditions.
TriggersOf(action) ==
    CASE action \in {"opened", "reopened"} -> {"create-environment", "create-app"}
      [] action = "synchronize" -> {"sync-app"}
      [] action = "closed" -> {"delete-app", "delete-environment"}

----------------------------------------------------------------------------
(* GitHub *)

Listening(u) == pipe[u].source /\ pipe[u].sensor # None /\ pipe[u].ingress
                /\ pipe[u].token /\ pipe[u].key # 0

Emit(p, action) ==
    LET u == UrlOf[p]
        event == [pull |-> p, sha |-> pull'[p].sha, repo |-> pipe[u].sensor] IN
    /\ events < MaxEvents /\ events' = events + 1
    /\ IF Listening(u)
       THEN /\ queue' = [queue EXCEPT ![u] = [t \in Triggers |->
                  IF t \in TriggersOf(action) THEN Append(@[t], event) ELSE @[t]]]
            /\ UNCHANGED raced
       ELSE raced' = raced \cup {NumberOf[p]} /\ UNCHANGED queue
    /\ UNCHANGED <<pipelineVars, env, app, ns, argo>>

Open(p) ==
    /\ pull[p].state # "open"
    /\ pull' = [pull EXCEPT ![p].state = "open"]
    /\ Emit(p, IF pull[p].state = "none" THEN "opened" ELSE "reopened")

Push(p) ==
    /\ pull[p].state = "open" /\ pull[p].sha < MaxPushes
    /\ pull' = [pull EXCEPT ![p].sha = @ + 1]
    /\ Emit(p, "synchronize")

Close(p) ==
    /\ pull[p].state = "open"
    /\ pull' = [pull EXCEPT ![p].state = "closed"]
    /\ Emit(p, "closed")

----------------------------------------------------------------------------
(* The triggers *)

\* _app_resource with the parameters of create-app.
CreatedApp(e) == [repo |-> e.repo, environment |-> NumberOf[e.pull], sha |-> e.sha,
                  deleting |-> FALSE]

\* The merge patch of sync-app is _app_resource with the name and the ref as
\* parameters: the rest of the template goes with it.
Patched(a, e) == [a EXCEPT !.sha = e.sha, !.repo = e.repo, !.environment = Zero]

\* The pull request is still, or again, in the state the event is about.
Timely(t, e) ==
    CASE t \in {"create-environment", "create-app"} -> pull[e.pull].state = "open"
      [] t \in {"delete-environment", "delete-app"} -> pull[e.pull].state = "closed"
      [] t = "sync-app" -> TRUE

\* A create needs that there is no such object, the others that there is one.
Succeeds(t, n) ==
    CASE t = "create-environment" -> env[n] = None
      [] t = "create-app" -> app[n] = None
      [] t = "delete-environment" -> env[n] # None
      [] t \in {"sync-app", "delete-app"} -> app[n] # None

Trigger(u, t) ==
    LET e == Head(queue[u][t])
        n == NumberOf[e.pull] IN
    /\ pipe[u].sensor # None /\ queue[u][t] # <<>>
    /\ queue' = [queue EXCEPT ![u][t] = Tail(@)]
    /\ env' = CASE ~Succeeds(t, n) -> env
                [] t = "create-environment" -> [env EXCEPT ![n] = NewEnvironment]
                [] t = "delete-environment" -> [env EXCEPT ![n].deleting = TRUE]
                [] OTHER -> env
    /\ app' = CASE ~Succeeds(t, n) -> app
                [] t = "create-app" -> [app EXCEPT ![n] = CreatedApp(e)]
                [] t = "sync-app" -> [app EXCEPT ![n] = Patched(@, e)]
                [] t = "delete-app" -> [app EXCEPT ![n].deleting = TRUE]
                [] OTHER -> app
    /\ raced' = IF Succeeds(t, n) /\ Timely(t, e) THEN raced ELSE raced \cup {n}
    /\ UNCHANGED <<pipelineVars, pull, ns, argo, events>>

----------------------------------------------------------------------------
(* The Environment's handler *)

\* A namespace that is terminating is there, and is patched.
EnsureNamespace(n) ==
    /\ env[n] # None /\ env[n].due /\ ~env[n].mid /\ ~env[n].deleting
    /\ ns' = [ns EXCEPT ![n] = IF @ = "none" THEN "active" ELSE @]
    /\ env' = [env EXCEPT ![n].mid = TRUE, ![n].due = FALSE]
    /\ UNCHANGED <<pipelineVars, pull, queue, app, argo, raced, events>>

RecordNamespace(n) ==
    /\ env[n] # None /\ env[n].mid
    /\ env' = [env EXCEPT ![n].mid = FALSE, ![n].ready = TRUE, ![n].recorded = TRUE]
    /\ UNCHANGED <<pipelineVars, pull, queue, app, ns, argo, raced, events>>

FinalizeEnvironment(n) ==
    /\ env[n] # None /\ env[n].deleting /\ ~env[n].mid
    /\ ns' = [ns EXCEPT ![n] = NamespaceAfter(env[n].recorded, @)]
    /\ env' = [env EXCEPT ![n] = None]
    /\ raced' = IF ns[n] = "active" /\ ~env[n].recorded THEN raced \cup {n} ELSE raced
    /\ UNCHANGED <<pipelineVars, pull, queue, app, argo, events>>

\* The deletion of the namespace fails, and is logged.
FinalizeFails(n) ==
    /\ env[n] # None /\ env[n].deleting /\ ~env[n].mid /\ env[n].recorded
    /\ faults < MaxFaults /\ faults' = faults + 1
    /\ env' = [env EXCEPT ![n] = None] /\ raced' = raced \cup {n}
    /\ UNCHANGED <<spec, status, secret, due, handler, pipe, shared, left, ops>>
    /\ UNCHANGED <<pull, queue, app, ns, argo, events>>

----------------------------------------------------------------------------
(* The Application's handler, Argo CD, Kubernetes *)

Deploy(n) ==
    /\ app[n] # None /\ ~app[n].deleting
    /\ app[n].environment \in Numbers /\ env[app[n].environment] # None
    /\ argo[n] # app[n].sha
    /\ argo' = [argo EXCEPT ![n] = app[n].sha]
    /\ UNCHANGED <<pipelineVars, pull, queue, env, app, ns, raced, events>>

FinalizeApplication(n) ==
    /\ app[n] # None /\ app[n].deleting
    /\ argo' = [argo EXCEPT ![n] = None] /\ app' = [app EXCEPT ![n] = None]
    /\ UNCHANGED <<pipelineVars, pull, queue, env, ns, raced, events>>

\* CreateNamespace=true, with nobody to delete it when the Environment has gone.
CreateNamespace(n) ==
    /\ argo[n] # None /\ ns[n] = "none"
    /\ ns' = [ns EXCEPT ![n] = "active"]
    /\ raced' = IF env[n] = None THEN raced \cup {n} ELSE raced
    /\ UNCHANGED <<pipelineVars, pull, queue, env, app, argo, events>>

NamespaceGone(n) ==
    /\ ns[n] = "terminating" /\ ns' = [ns EXCEPT ![n] = "none"]
    /\ UNCHANGED <<pipelineVars, pull, queue, env, app, argo, raced, events>>

----------------------------------------------------------------------------
\* A Sensor that is deleted takes its events with it.
PipelineStep(r) ==
    /\ Work(r) \/ Other(r)
    /\ LET gone == {u \in Urls : pipe'[u].sensor = None}
           lost == {p \in Pulls : UrlOf[p] \in gone
                       /\ \E t \in Triggers : queue[UrlOf[p]][t] # <<>>} IN
       /\ queue' = [u \in Urls |-> IF u \in gone THEN [t \in Triggers |-> <<>>] ELSE queue[u]]
       /\ raced' = raced \cup {NumberOf[p] : p \in lost}
    /\ UNCHANGED <<pull, env, app, ns, argo, events>>

\* A status that was not written is lost.
ControllerRestart ==
    /\ RestartAll
    /\ env' = [n \in Numbers |-> IF env[n] = None THEN None
                                 ELSE [env[n] EXCEPT !.mid = FALSE, !.due = TRUE]]
    /\ UNCHANGED <<pull, queue, app, ns, argo, raced, events>>

Handlers(n) == EnsureNamespace(n) \/ RecordNamespace(n) \/ FinalizeEnvironment(n)
               \/ Deploy(n) \/ FinalizeApplication(n)
Cluster(n) == CreateNamespace(n) \/ NamespaceGone(n)

Next ==
    \/ ControllerRestart \/ \E r \in Repos : PipelineStep(r)
    \/ \E p \in Pulls : Open(p) \/ Push(p) \/ Close(p)
    \/ \E u \in Urls, t \in Triggers : Trigger(u, t)
    \/ \E n \in Numbers : Handlers(n) \/ FinalizeFails(n) \/ Cluster(n)

Init ==
    /\ PipelineInit
    /\ pull = [p \in Pulls |-> [state |-> "none", sha |-> 0]]
    /\ queue = [u \in Urls |-> [t \in Triggers |-> <<>>]]
    /\ env = [n \in Numbers |-> None] /\ app = [n \in Numbers |-> None]
    /\ ns = [n \in Numbers |-> "none"] /\ argo = [n \in Numbers |-> None]
    /\ raced = {} /\ events = 0

\* Kopf calls handlers and their calls are answered in the end, Sensors work
\* off their events, Argo CD syncs, and a namespace that is terminating goes.
Fairness ==
    /\ \A r \in Repos : WF_vars(Work(r) /\ PipelineStep(r))
    /\ \A u \in Urls, t \in Triggers : WF_vars(Trigger(u, t))
    /\ \A n \in Numbers : WF_vars(Handlers(n)) /\ WF_vars(Cluster(n))

Spec == Init /\ [][Next]_vars /\ Fairness

----------------------------------------------------------------------------
\* Every variable has its type.
\* What a pull request's number stands for when nothing overtook anything:
\* closed, in the end all of its preview is gone ("closed tears it down").
TornDown ==
    <>[](\A p \in Pulls : pull[p].state = "closed" /\ NumberOf[p] \notin raced =>
           LET n == NumberOf[p] IN
           env[n] = None /\ app[n] = None /\ argo[n] = None /\ ns[n] = "none")

\* A pull request that is open, in the end, has its Environment, and an
\* Application at its head that is deployed as long as it stays in that
\* Environment; a namespace that was still terminating when it was opened
\* again notwithstanding.
EventuallyPreviewed ==
    <>[](\A p \in Pulls : pull[p].state = "open" /\ NumberOf[p] \notin raced =>
           LET n == NumberOf[p] IN
           /\ env[n] # None /\ env[n].ready
           /\ app[n] # None /\ app[n].sha = pull[p].sha
           /\ app[n].environment = n => argo[n] = pull[p].sha /\ ns[n] = "active")

\* README.md:212-213, "synchronize rebuilds": a pull request that is open, in
\* the end, runs at its head.
EventuallyRebuilt ==
    <>[](\A p \in Pulls : pull[p].state = "open" /\ NumberOf[p] \notin raced =>
           argo[NumberOf[p]] = pull[p].sha)
=============================================================================
