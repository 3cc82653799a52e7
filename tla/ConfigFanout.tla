---------------------------- MODULE ConfigFanout ----------------------------
(***************************************************************************)
(* How a change of a scope object (Organization, Client, Environment,      *)
(* ApplicationType, Domain) reaches the Applications that inherit from it  *)
(* (requeue.py and the handlers of those five kinds).                      *)
(*                                                                         *)
(* A parent's handler lists the Applications, then stamps each dependent   *)
(* one with the annotation kind/name@generation, then returns; only then   *)
(* does Kopf write the parent's status.  An Application has one such       *)
(* annotation for all its parents.  A stamp makes Kopf call the            *)
(* Application's handler, which reads its parents one after the other and   *)
(* renders.  Handlers of different objects run concurrently.               *)
(*                                                                         *)
(* The content of a parent's spec is identified with its generation.       *)
(***************************************************************************)
EXTENDS Naturals

CONSTANTS
    Parents,     \* the scope objects
    Domains,     \* those of kind Domain, read through their status
    Broad,       \* those that stamp every Application: Organization, Client
    Requires,    \* for each parent, those its own handler looks up first
    Apps,        \* the Applications
    Scopes,      \* for each Application, the parents it may inherit from
    Unstamped,   \* an Application without the annotation
    MaxGen,      \* bound: the last generation of each parent
    MaxRetargets,\* bound: changes of an Application's references
    MaxCrashes,  \* bound: restarts of the controller
    MaxMissed    \* bound: failed calls of requeue_applications

ASSUME FanoutAssumption ==
    /\ Domains \subseteq Parents /\ Broad \subseteq Parents
    /\ Requires \in [Parents -> SUBSET Parents]
    /\ Scopes \in [Apps -> SUBSET SUBSET Parents]
    /\ \A a \in Apps : Scopes[a] # {}
    /\ Unstamped \notin Parents \X Nat /\ Parents \cap Apps = {}
    /\ MaxGen \in [Parents -> Nat] /\ MaxRetargets \in Nat
    /\ MaxCrashes \in Nat /\ MaxMissed \in Nat

VARIABLES
    gen,         \* each parent's metadata.generation; 0 before it is created
    observed,    \* each parent's status: the generation it was written for
    due,         \* the parents and Applications Kopf has a reason to call
    parent,      \* the frames of the parents' handlers
    scope,       \* each Application's parents, by its references
    annotation,  \* each Application's config-revision
    app,         \* the frames of the Applications' handlers
    rendered,    \* the generation of each parent last rendered
    retargets, crashes, missed

counts == <<retargets, crashes, missed>>
vars == <<gen, observed, due, parent, scope, annotation, app, rendered, counts>>

\* A parent's handler: the generation it was called with, the Applications
\* it has still to stamp, whether it raised.
ParentFrame == [pc : {"idle", "list", "stamp"}, gen : Nat,
                todo : SUBSET Apps, again : BOOLEAN]

\* An Application's handler: the parents it has still to read, and the
\* generations it has read.
AppFrame == [pc : {"idle", "read"}, todo : SUBSET Parents,
             view : [Parents -> Nat]]

NoParentFrame == [pc |-> "idle", gen |-> 0, todo |-> {}, again |-> FALSE]
NoAppFrame == [pc |-> "idle", todo |-> {}, view |-> [p \in Parents |-> 0]]

Init ==
    /\ gen \in {f \in [Parents -> {0, 1}] : \A p \in Parents : f[p] <= MaxGen[p]}
    /\ observed = [p \in Parents |-> 0]
    /\ due = {p \in Parents : gen[p] # 0} \cup Apps
    /\ parent = [p \in Parents |-> NoParentFrame]
    /\ scope \in {f \in [Apps -> SUBSET Parents] : \A a \in Apps : f[a] \in Scopes[a]}
    /\ annotation = [a \in Apps |-> Unstamped]
    /\ app = [a \in Apps |-> NoAppFrame]
    /\ rendered = [a \in Apps |-> [p \in Parents |-> 0]]
    /\ retargets = 0 /\ crashes = 0 /\ missed = 0

----------------------------------------------------------------------------
(* Decisions, each after its mutant (see ApplicationEngine)                *)

\* requeue.revision: kind/name@generation.
Revision(p, g) == <<p, g>>

\* The predicates of requeue.py; an Organization and a Client use none.
Dependent(p, a) == p \in Broad \/ p \in scope[a]

\* resolve.get_* raises NotFound for a parent that p's handler looks up.
Missing(p) == \E q \in Requires[p] : gen[q] = 0

\* The skip compares the parent and not its generation.
Stamped_Mutant(a, rev) ==
    annotation[a] # Unstamped /\ annotation[a][1] = rev[1]
\* requeue_applications: the stamp is skipped when it is there already.
Stamped(a, rev) == annotation[a] = rev

\* Every parent is read through the status its own handler writes.
Reads_Mutant(p) == IF observed[p] # 0 THEN observed[p] ELSE gen[p]
\* _resolve reads the spec of a parent, but status.host of a Domain once
\* there is one.
Reads(p) == IF p \in Domains /\ observed[p] # 0 THEN observed[p] ELSE gen[p]

\* A status that is never the same twice.
StatusChanged_Mutant(old, new) == TRUE
\* conditions._upsert keeps lastTransitionTime while the condition stays the
\* same, so a run for the same generation writes the same status.
StatusChanged(old, new) == old # new

\* The Application is marked as handled although it was stamped meanwhile.
StillDue_Mutant(a, view) == FALSE
\* Kopf calls an Application's handler again when its essence changed while
\* it ran, or its status did (status.url follows the Domain).
StillDue(a, view) == a \in due \/ \E p \in Domains : view[p] # rendered[a][p]

----------------------------------------------------------------------------
(* The handler of a parent *)

\* Its lookup of the parents it needs fails, or it goes on.
CallParent(p) ==
    /\ p \in due /\ parent[p].pc = "idle"
    /\ due' = due \ {p}
    /\ parent' = [parent EXCEPT ![p] =
                    [pc |-> IF Missing(p) THEN "stamp" ELSE "list",
                     gen |-> gen[p], todo |-> {}, again |-> Missing(p)]]
    /\ UNCHANGED <<gen, observed, scope, annotation, app, rendered, counts>>

\* requeue_applications lists the Applications; the annotations and
\* references it goes by are those of the listing.  A listing that fails is
\* logged and nothing is stamped.
ListApps(p) ==
    /\ parent[p].pc = "list"
    /\ LET rev  == Revision(p, parent[p].gen)
           apps == {a \in Apps : Dependent(p, a) /\ ~Stamped(a, rev)}
           Listed(todo) == parent' = [parent EXCEPT ![p] =
                             [pc |-> "stamp", gen |-> @.gen, todo |-> todo,
                              again |-> @.again]]
       IN \/ Listed(apps) /\ UNCHANGED missed
          \/ Listed({}) /\ missed < MaxMissed /\ missed' = missed + 1
    /\ UNCHANGED <<gen, observed, due, scope, annotation, app, rendered,
                   retargets, crashes>>

\* It stamps one of them; a failure is logged and the next one is tried.
StampApp(p, a) ==
    /\ parent[p].pc = "stamp" /\ a \in parent[p].todo
    /\ parent' = [parent EXCEPT ![p].todo = @ \ {a}]
    /\ \/ /\ annotation' = [annotation EXCEPT ![a] = Revision(p, parent[p].gen)]
          /\ due' = IF annotation'[a] # annotation[a] THEN due \cup {a} ELSE due
          /\ UNCHANGED missed
       \/ /\ missed < MaxMissed /\ missed' = missed + 1
          /\ UNCHANGED <<annotation, due>>
    /\ UNCHANGED <<gen, observed, scope, app, rendered, retargets, crashes>>

\* The handler has returned or raised, and Kopf writes the parent's status;
\* a run that raised leaves the published part as it was.
WriteParent(p) ==
    /\ parent[p].pc = "stamp" /\ parent[p].todo = {}
    /\ parent' = [parent EXCEPT ![p] = NoParentFrame]
    /\ LET new == IF parent[p].again THEN observed[p] ELSE parent[p].gen
       IN /\ observed' = [observed EXCEPT ![p] = new]
          /\ due' = IF parent[p].again \/ StatusChanged(observed[p], new)
                    THEN due \cup {p} ELSE due
    /\ UNCHANGED <<gen, scope, annotation, app, rendered, counts>>

----------------------------------------------------------------------------
(* The handler of an Application *)

CallApp(a) ==
    /\ a \in due /\ app[a].pc = "idle"
    /\ due' = due \ {a}
    /\ app' = [app EXCEPT ![a] = [pc |-> "read", todo |-> scope[a],
                                  view |-> rendered[a]]]
    /\ UNCHANGED <<gen, observed, parent, scope, annotation, rendered, counts>>

\* _resolve reads a parent; one that does not exist ends the run, to be
\* retried.  (It reads them in a fixed order; here they come in any.)
ReadParent(a, p) ==
    /\ app[a].pc = "read" /\ p \in app[a].todo
    /\ \/ /\ gen[p] # 0
          /\ app' = [app EXCEPT ![a] =
                     [pc |-> "read", todo |-> @.todo \ {p},
                      view |-> [@.view EXCEPT ![p] = Reads(p)]]]
          /\ UNCHANGED due
       \/ /\ gen[p] = 0
          /\ app' = [app EXCEPT ![a] = NoAppFrame]
          /\ due' = due \cup {a}
    /\ UNCHANGED <<gen, observed, parent, scope, annotation, rendered, counts>>

\* The rest of the reconcile, abstracted (see ApplicationEngine): the Argo CD
\* Application is rendered from what was read.
Render(a) ==
    /\ app[a].pc = "read" /\ app[a].todo = {}
    /\ rendered' = [rendered EXCEPT ![a] = app[a].view]
    /\ due' = IF StillDue(a, app[a].view) THEN due \cup {a} ELSE due \ {a}
    /\ app' = [app EXCEPT ![a] = NoAppFrame]
    /\ UNCHANGED <<gen, observed, parent, scope, annotation, counts>>

----------------------------------------------------------------------------
(* Users, and restarts of the controller *)

\* Create a parent, or edit its spec.
EditParent(p) ==
    /\ gen[p] < MaxGen[p]
    /\ gen' = [gen EXCEPT ![p] = @ + 1]
    /\ due' = due \cup {p}
    /\ UNCHANGED <<observed, parent, scope, annotation, app, rendered, counts>>

\* Change the references of an Application.
Retarget(a) ==
    /\ retargets < MaxRetargets /\ retargets' = retargets + 1
    /\ \E s \in Scopes[a] \ {scope[a]} : scope' = [scope EXCEPT ![a] = s]
    /\ due' = due \cup {a}
    /\ UNCHANGED <<gen, observed, parent, annotation, app, rendered, crashes,
                   missed>>

\* Every frame is lost, on.resume calls every handler.
Restart ==
    /\ crashes < MaxCrashes /\ crashes' = crashes + 1
    /\ parent' = [p \in Parents |-> NoParentFrame]
    /\ app' = [a \in Apps |-> NoAppFrame]
    /\ due' = {p \in Parents : gen[p] # 0} \cup Apps
    /\ UNCHANGED <<gen, observed, scope, annotation, rendered, retargets, missed>>

ParentStep(p) == CallParent(p) \/ ListApps(p) \/ WriteParent(p)
                 \/ \E a \in Apps : StampApp(p, a)

AppStep(a) == CallApp(a) \/ Render(a) \/ \E p \in Parents : ReadParent(a, p)

Next == \/ \E p \in Parents : ParentStep(p) \/ EditParent(p)
        \/ \E a \in Apps : AppStep(a) \/ Retarget(a)
        \/ Restart

Spec == Init /\ [][Next]_vars

\* Kopf calls every due handler, and a handler runs to its end.
FairSpec == /\ Spec
            /\ \A p \in Parents : WF_vars(ParentStep(p))
            /\ \A a \in Apps : WF_vars(AppStep(a))

----------------------------------------------------------------------------
(* Properties *)

Revisions == (Parents \X Nat) \cup {Unstamped}

TypeOK ==
    /\ gen \in [Parents -> Nat] /\ observed \in [Parents -> Nat]
    /\ due \in SUBSET (Parents \cup Apps)
    /\ parent \in [Parents -> ParentFrame]
    /\ scope \in [Apps -> SUBSET Parents]
    /\ annotation \in [Apps -> Revisions]
    /\ app \in [Apps -> AppFrame]
    /\ rendered \in [Apps -> [Parents -> Nat]]
    /\ retargets \in 0 .. MaxRetargets /\ crashes \in 0 .. MaxCrashes
    /\ missed \in 0 .. MaxMissed

\* Application a carries a revision of parent p.
Carries(a, p) == annotation[a] # Unstamped /\ annotation[a][1] = p

Quiet(a) == a \notin due /\ app[a].pc = "idle"

\* "The stamp is skipped when the annotation already carries the revision"
\* is right only if an Application that carries a revision has rendered it:
\* once its handler has nothing to do, an Application stamped p@g was
\* rendered from generation g of p or a later one, whatever stamps of other
\* parents, edits, retargets and restarts came between.  (A Domain is the
\* exception, see DomainConverges.)
RevisionIsRendered ==
    \A a \in Apps, p \in Parents \ Domains :
        Carries(a, p) /\ p \in scope[a] /\ Quiet(a) =>
            rendered[a][p] >= annotation[a][2]

\* No step renders an older generation of a parent than was rendered before:
\* retries and handlers that overlap an edit never take a change back.
NeverRendersBackwards ==
    [][\A a \in Apps, p \in Parents \ Domains :
            rendered'[a][p] >= rendered[a][p]]_vars

AllExist == \A p \in Parents : gen[p] # 0

\* Unless a stamp failed, every Application ends up rendered from the last
\* generation of every parent it inherits from: the overwriting of one
\* parent's stamp by another's loses nothing.
ParentsConverge ==
    <>[](AllExist /\ missed = 0 =>
           \A a \in Apps : \A p \in scope[a] \ Domains :
               rendered[a][p] = gen[p])

\* The fan-out comes to rest: stamps, the status writes that call a handler
\* again, and retries do not keep each other going.
ComesToRest ==
    <>[](AllExist => due = {} /\ \A p \in Parents : parent[p].pc = "idle")

\* domain.py:38-39: "Apps published under this Domain build their hostname
\* from its fqdn: re-render them on a spec change".
DomainConverges ==
    <>[](AllExist /\ missed = 0 =>
           \A a \in Apps : \A p \in scope[a] \cap Domains :
               rendered[a][p] = gen[p])

\* requeue.py:14-16: "controller restarts (resume) and status-only updates
\* re-run the parent handler with an unchanged generation and touch nothing":
\* no stamp for a generation the parent's status was already written for.
UnchangedTouchesNothing ==
    [][\A a \in Apps, p \in Parents :
            Carries(a, p)' /\ annotation'[a] # annotation[a] =>
                annotation'[a][2] # observed[p]]_vars

----------------------------------------------------------------------------
(* The inductive invariant behind RevisionIsRendered: a revision an        *)
(* Application carries is one its parent has reached, and one it has       *)
(* rendered, has read, is about to read, or is due to be called for.       *)
Reached ==
    /\ \A p \in Parents : parent[p].gen <= gen[p]
    /\ \A a \in Apps, p \in Parents :
         Carries(a, p) => annotation[a][2] <= gen[p]

Carried ==
    \A a \in Apps, p \in Parents \ Domains :
        Carries(a, p) /\ p \in scope[a] /\ a \notin due =>
            \/ app[a].pc = "idle" /\ rendered[a][p] >= annotation[a][2]
            \/ /\ app[a].pc = "read"
               /\ p \in app[a].todo \/ app[a].view[p] >= annotation[a][2]

Growing ==
    \A a \in Apps, p \in Parents \ Domains :
        /\ rendered[a][p] <= gen[p]
        /\ app[a].pc = "read" => /\ rendered[a][p] <= app[a].view[p]
                                 /\ app[a].view[p] <= gen[p]

FanoutInv == TypeOK /\ Reached /\ Carried /\ Growing
=============================================================================
