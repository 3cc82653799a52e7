----------------------------- MODULE PortalMirror -----------------------------
(***************************************************************************)
(* The portal's records (adomi.k8s.mixin), the manifests the platform API  *)
(* commits for them, the custom resources GitOps makes of those, and the   *)
(* way back: status pushes and the sync cron, which import what they find. *)
(*                                                                         *)
(* The API is called inside the portal's database transaction: what a      *)
(* request wrote to git is there before its record is visible to others,   *)
(* and stays if the transaction does not commit.  Objects read from the    *)
(* cluster are imported later than they were read, status pushes in any    *)
(* order or not at all.  Two requests do not write one row together: the   *)
(* portal's database aborts one of them, and Odoo repeats it after the     *)
(* other.                                                                  *)
(***************************************************************************)
EXTENDS PortalBounds

CONSTANTS
    Resources,  \* what the portal identifies: a client, (client, env), ...
    Parent,     \* the record each one's record refers to, None: no other
    Levels,     \* cron_sync_all's order, in which each resource has a place
    LevelOf,
    RepoPaths,  \* a repo's files, and the custom resources, by kind and name
    PathOf,
    Payloads,   \* what a record's form and a CR's spec have in common
    Forms,      \* what users fill in for each resource
    RepoFiles,  \* what git may hold before the portal is installed
    Outcomes    \* what the reconciles of each custom resource end with

Manifest == [of : Resources, body : Payloads]

\* What a model refers to comes before it in cron_sync_all's order.
ASSUME PortalAssumption ==
    /\ Parent \in [Resources -> Resources \cup {None}]
    /\ Levels \in Nat \ {0} /\ LevelOf \in [Resources -> 1 .. Levels]
    /\ \A r \in Resources : Parent[r] # None => LevelOf[Parent[r]] < LevelOf[r]
    /\ PathOf \in [Resources -> RepoPaths]
    /\ Outcomes \in [RepoPaths -> SUBSET {"True", "False"}]
    /\ Forms \in [Resources -> SUBSET Payloads]
    /\ RepoFiles \subseteq [RepoPaths -> Manifest \cup {None}]
    /\ None \notin Resources \cup Payloads
    /\ MaxOps \in Nat /\ MaxFaults \in Nat

VARIABLES
    form,     \* each resource's record: its form, None: no such record
    shown,    \* k8s_state, with the message "Committed ..." told apart
    twin,     \* resources with a second record
    run,      \* the request that is working on each resource's record
    repo,     \* the manifests
    cluster,  \* the custom resources
    pushes,   \* status pushes under way
    cron,     \* the sync and its transaction: the level it lists next (0: it
              \* does not run), the records there were, the objects it found,
              \* and the rows others changed since it began
    pushed    \* (history) records whose last push went through

portalVars == <<form, shown, twin, run, repo, cluster, pushes, cron, pushed, ops,
                faults>>

Shown == {"pending", "committed", "unknown", "not_ready", "ready"}
CR == [path : RepoPaths, of : Resources, body : Payloads,
       ready : {"", "True", "False"}]
PortalFrame == [pc : {"idle", "put", "refresh", "commit", "delete", "unlink"},
                body : Payloads \cup {None}, new : BOOLEAN, out : Shown]
Idle == [pc |-> "idle", body |-> None, new |-> FALSE, out |-> "pending"]
Sync == [level : 0 .. Levels + 1, before : SUBSET Resources,
         found : SUBSET CR, touched : SUBSET Resources]
Resting == [level |-> 0, before |-> {}, found |-> {}, touched |-> {}]

----------------------------------------------------------------------------
\* What the API makes of a form.  The file and the object have the resource's
\* kind and name; its environment is in the spec.
ManifestOf(r, b) == [of |-> r, body |-> b]

\* The form an import makes of an object.
Imported(cr) == cr.body

\* The identity by which an object's record is found: client, environment
\* and name.
Found(cr, known) == cr.of \in known

\* The repo's contents API: what is there is replaced, what is not, made.
PutManifest(r, m) == repo' = [repo EXCEPT ![PathOf[r]] = m]
DeleteFile(r) == repo' = [repo EXCEPT ![PathOf[r]] = None]

\* The mutant pushes before the write of the record.
Written_Mutant(r) == IF form[r] = None THEN run[r].body ELSE form[r]

\* What a push writes: the form as the transaction has it.
Written(r) == run[r].body

\* The mutant knows no condition but the two.
ShownOf_Mutant(cr) == IF cr.ready = "True" THEN "ready" ELSE "not_ready"

\* k8s.ready and its state.
ShownOf(cr) == CASE cr.ready = "True"  -> "ready"
                 [] cr.ready = "False" -> "not_ready"
                 [] cr.ready = ""      -> "pending"

At(r) == cluster[PathOf[r]]

\* action_k8s_sync of one record: what it shows.
Refreshed(r) == IF At(r) = None THEN "committed" ELSE ShownOf(At(r))

\* Rows whose deletion takes others with it: ondelete="cascade".
Closed(S) == \A x \in Resources : Parent[x] \in S => x \in S
Descendants(r) ==
    {x \in Resources : \A S \in SUBSET Resources : r \in S /\ Closed(S) => x \in S}

\* The rows of S were changed: a sync that began before cannot write them.
Touch(S) == [cron EXCEPT !.touched = @ \cup (S \cap cron.before)]

----------------------------------------------------------------------------
\* Users' requests.  create and write change the record and push it, create
\* also reads the status; the transaction commits at the end.

Create(r, b) ==
    /\ run[r] = Idle /\ form[r] = None
    /\ Parent[r] # None => form[Parent[r]] # None
    /\ ops < MaxOps /\ ops' = ops + 1
    /\ run' = [run EXCEPT ![r] = [Idle EXCEPT !.pc = "put", !.body = b,
                                              !.new = TRUE]]
    /\ UNCHANGED <<form, shown, twin, repo, cluster, pushes, cron, pushed,
                   faults>>

Write(r, b) ==
    /\ run[r] = Idle /\ form[r] \notin {None, b}
    /\ ops < MaxOps /\ ops' = ops + 1
    /\ run' = [run EXCEPT ![r] = [Idle EXCEPT !.pc = "put", !.body = b,
                                              !.out = shown[r]]]
    /\ UNCHANGED <<form, shown, twin, repo, cluster, pushes, cron, pushed,
                   faults>>

\* _k8s_push swallows a failure: a call that failed may have been answered
\* too late and have written all the same.
Put(r) ==
    /\ run[r].pc = "put"
    /\ \E ok, done \in BOOLEAN :
        /\ ok => done
        /\ IF ok THEN UNCHANGED faults
                 ELSE faults < MaxFaults /\ faults' = faults + 1
        /\ IF done THEN PutManifest(r, ManifestOf(r, Written(r)))
                   ELSE UNCHANGED repo
        /\ pushed' = IF ok THEN pushed \cup {r} ELSE pushed \ {r}
        /\ run' = [run EXCEPT
             ![r].pc = IF run[r].new THEN "refresh" ELSE "commit",
             ![r].out = IF ok THEN @ ELSE "unknown"]
    /\ UNCHANGED <<form, shown, twin, cluster, pushes, cron, ops>>

\* _k8s_refresh_quiet: an error leaves what the push noted.
Refresh(r) ==
    /\ run[r].pc = "refresh"
    /\ \/ /\ run' = [run EXCEPT ![r].pc = "commit", ![r].out = Refreshed(r)]
          /\ UNCHANGED faults
       \/ /\ faults < MaxFaults /\ faults' = faults + 1
          /\ run' = [run EXCEPT ![r].pc = "commit"]
    /\ UNCHANGED <<form, shown, twin, repo, cluster, pushes, cron, pushed,
                   ops>>

\* The record becomes visible; what was imported meanwhile is the second one.
CommitRecord(r) ==
    /\ run[r].pc = "commit"
    /\ form' = [form EXCEPT ![r] = run[r].body]
    /\ shown' = [shown EXCEPT ![r] = run[r].out]
    /\ twin' = IF run[r].new /\ form[r] # None THEN twin \cup {r} ELSE twin
    /\ run' = [run EXCEPT ![r] = Idle]
    /\ cron' = Touch({r})
    /\ UNCHANGED <<repo, cluster, pushes, pushed, ops, faults>>

\* unlink asks for the deletion of the object, and then deletes the row.
Unlink(r) ==
    /\ run[r] = Idle /\ form[r] # None
    /\ ops < MaxOps /\ ops' = ops + 1
    /\ run' = [run EXCEPT ![r] = [Idle EXCEPT !.pc = "delete"]]
    /\ UNCHANGED <<form, shown, twin, repo, cluster, pushes, cron, pushed,
                   faults>>

\* A failure of the deletion is logged: the row goes in any case.
DeleteCall(r) ==
    /\ run[r].pc = "delete"
    /\ \/ DeleteFile(r) /\ UNCHANGED faults
       \/ /\ faults < MaxFaults /\ faults' = faults + 1
          /\ DeleteFile(r) \/ UNCHANGED repo
    /\ run' = [run EXCEPT ![r].pc = "unlink"]
    /\ UNCHANGED <<form, shown, twin, cluster, pushes, cron, pushed, ops>>

\* The database deletes the rows that refer to it with it, and calls no
\* unlink of theirs.  Of two records the first goes, to which they refer.
DeleteRow(r) ==
    LET gone == Descendants(r) \ (IF r \in twin THEN {r} ELSE {}) IN
    /\ run[r].pc = "unlink"
    /\ \A x \in Descendants(r) \ {r} : run[x] = Idle
    /\ form' = [x \in Resources |-> IF x \in gone THEN None ELSE form[x]]
    /\ shown' = [x \in Resources |-> IF x \in gone THEN "pending" ELSE shown[x]]
    /\ twin' = twin \ Descendants(r)
    /\ pushed' = pushed \ Descendants(r)
    /\ run' = [run EXCEPT ![r] = Idle]
    /\ cron' = Touch(Descendants(r))
    /\ UNCHANGED <<repo, cluster, pushes, ops, faults>>

----------------------------------------------------------------------------
\* The "Sync from cluster" button, and the status of a known record.

Show(r, s) ==
    /\ shown' = [shown EXCEPT ![r] = s]
    /\ cron' = Touch({r})

ActionSync(r) ==
    /\ form[r] # None /\ run[r] = Idle /\ Refreshed(r) # shown[r]
    /\ ops < MaxOps /\ ops' = ops + 1
    /\ Show(r, Refreshed(r))
    /\ UNCHANGED <<form, twin, run, repo, cluster, pushes, pushed, faults>>

\* The mutant imports what it cannot attach to a parent all the same.
Importable_Mutant(r, known) == TRUE

\* _k8s_import_vals gives nothing where the parent is not there yet.
Importable(r, known) == Parent[r] = None \/ Parent[r] \in known

Recorded == {r \in Resources : form[r] # None}

\* _adomi_import_one: only a missing record is created; an existing one
\* keeps its form and shows the new status.
Ingest(cr) ==
    /\ cr \in pushes /\ pushes' = pushes \ {cr}
    /\ run[cr.of] = Idle \/ run[cr.of].new
    /\ IF Found(cr, Recorded)
       THEN Show(cr.of, ShownOf(cr)) /\ UNCHANGED form
       ELSE IF Importable(cr.of, Recorded)
            THEN /\ Show(cr.of, ShownOf(cr))
                 /\ form' = [form EXCEPT ![cr.of] = Imported(cr)]
            ELSE UNCHANGED <<form, shown, cron>>
    /\ UNCHANGED <<twin, run, repo, cluster, pushed, ops, faults>>

\* cron_sync_all begins, once an hour or after a push to the repo.
CronStart ==
    /\ cron.level = 0
    /\ cron' = [Resting EXCEPT !.level = 1, !.before = Recorded]
    /\ UNCHANGED <<form, shown, twin, run, repo, cluster, pushes, pushed,
                   ops, faults>>

\* The cluster's list of a kind.
Listed == {cluster[p] : p \in RepoPaths} \ {None}

\* The records the sync's transaction sees: its snapshot and what it made.
Known == cron.before \cup {cr.of : cr \in cron.found}

\* _adomi_import_kind of the next model, of what its list has now.
CronList ==
    LET found == {cr \in Listed : /\ LevelOf[cr.of] = cron.level
                                  /\ Found(cr, Known) \/ Importable(cr.of, Known)} IN
    /\ cron.level \in 1 .. Levels
    /\ \/ /\ cron' = [cron EXCEPT !.level = @ + 1, !.found = @ \cup found]
          /\ UNCHANGED faults
       \/ /\ faults < MaxFaults /\ faults' = faults + 1
          /\ cron' = [cron EXCEPT !.level = @ + 1]
    /\ UNCHANGED <<form, shown, twin, run, repo, cluster, pushes, pushed, ops>>

\* The transaction commits, unless a row it wrote has changed since its
\* snapshot or a parent it refers to is gone.
CronCommit ==
    LET made  == {cr.of : cr \in cron.found} \ cron.before
        clash == \/ \E cr \in cron.found : cr.of \in cron.before \cap cron.touched
                 \/ \E r \in made : /\ Parent[r] \in cron.before
                                    /\ Parent[r] \notin Recorded
        new(cr) == cr.of \in made /\ cr.of \notin Recorded IN
    /\ cron.level = Levels + 1
    /\ \A cr \in cron.found : run[cr.of] = Idle \/ run[cr.of].new
    /\ IF clash
       THEN UNCHANGED <<form, shown, twin>>
       ELSE /\ form' = [r \in Resources |->
                 IF \E cr \in cron.found : cr.of = r /\ new(cr)
                 THEN Imported(CHOOSE cr \in cron.found : cr.of = r)
                 ELSE form[r]]
            /\ shown' = [r \in Resources |->
                 IF \E cr \in cron.found : cr.of = r /\ (new(cr) \/ r \notin made)
                 THEN ShownOf(CHOOSE cr \in cron.found : cr.of = r)
                 ELSE shown[r]]
            /\ twin' = twin \cup (made \cap Recorded)
    /\ cron' = Resting
    /\ UNCHANGED <<run, repo, cluster, pushes, pushed, ops, faults>>

----------------------------------------------------------------------------
\* The cluster: GitOps and the platform controller.

\* What an object was made from.
InCluster(p) ==
    IF cluster[p] = None THEN None ELSE ManifestOf(cluster[p].of, cluster[p].body)

\* Argo CD makes the object what git has, and prunes what git has not.
ApplyManifest(p) ==
    /\ InCluster(p) # repo[p]
    /\ cluster' = [cluster EXCEPT ![p] =
         IF repo[p] = None THEN None
         ELSE [path |-> p, of |-> repo[p].of, body |-> repo[p].body,
               ready |-> IF @ = None THEN "" ELSE @.ready]]
    /\ UNCHANGED <<form, shown, twin, run, repo, pushes, cron, pushed, ops,
                   faults>>

\* A reconcile ends and changes the status: push_status sends the object as
\* it is now, after the last one was answered; or its call times out, and
\* the portal gets the object late or never.
Reconciled(p) ==
    /\ cluster[p] # None
    /\ \E s \in Outcomes[p] \ {cluster[p].ready} :
        LET cr == [cluster[p] EXCEPT !.ready = s] IN
        /\ cluster[p].ready # "True"
        /\ cluster' = [cluster EXCEPT ![p] = cr]
        /\ \/ /\ \A old \in pushes : old.path # p
              /\ pushes' = pushes \cup {cr} /\ UNCHANGED faults
           \/ /\ faults < MaxFaults /\ faults' = faults + 1
              /\ pushes' \in {pushes, pushes \cup {cr}}
    /\ UNCHANGED <<form, shown, twin, run, repo, cron, pushed, ops>>

----------------------------------------------------------------------------
PortalInit ==
    /\ form = [r \in Resources |-> None]
    /\ shown = [r \in Resources |-> "pending"]
    /\ twin = {}
    /\ run = [r \in Resources |-> Idle]
    /\ repo \in RepoFiles
    /\ cluster = [p \in RepoPaths |-> None]
    /\ pushes = {} /\ cron = Resting /\ pushed = {}
    /\ ops = 0 /\ faults = 0

Request(r) ==
    Put(r) \/ Refresh(r) \/ CommitRecord(r) \/ DeleteCall(r) \/ DeleteRow(r)

PortalNext ==
    \/ \E r \in Resources :
        \/ \E b \in Forms[r] : Create(r, b) \/ Write(r, b)
        \/ Unlink(r) \/ ActionSync(r) \/ Request(r)
    \/ \E cr \in pushes : Ingest(cr)
    \/ CronStart \/ CronList \/ CronCommit
    \/ \E p \in RepoPaths : ApplyManifest(p) \/ Reconciled(p)

\* A request ends, by its timeouts if nothing else; Argo CD polls the repos;
\* the sync is a cron job of every hour.  Nobody must make a request, no
\* resource needs to become Ready, and no status push has to arrive.
PortalFairness ==
    /\ \A r \in Resources : WF_portalVars(Request(r))
    /\ \A p \in RepoPaths : WF_portalVars(ApplyManifest(p))
    /\ WF_portalVars(CronStart) /\ WF_portalVars(CronList) /\ WF_portalVars(CronCommit)

PortalSpec == PortalInit /\ [][PortalNext]_portalVars /\ PortalFairness

----------------------------------------------------------------------------
\* Every variable has its type; only a record has a second one.
PortalTypeOK ==
    /\ form \in [Resources -> Payloads \cup {None}]
    /\ shown \in [Resources -> Shown]
    /\ twin \subseteq Recorded
    /\ run \in [Resources -> PortalFrame]
    /\ repo \in [RepoPaths -> Manifest \cup {None}]
    /\ cluster \in [RepoPaths -> CR \cup {None}]
    /\ pushes \subseteq CR
    /\ cron \in Sync
    /\ pushed \subseteq Resources
    /\ ops \in 0 .. MaxOps /\ faults \in 0 .. MaxFaults

\* A sync imports the parents first ("processed in dependency order so
\* parent references resolve"): no record refers to one that is not there.
NoOrphan ==
    /\ PortalTypeOK
    /\ \A r \in Recorded : Parent[r] # None => Parent[r] \in Recorded

\* A record that was pushed without an error, and that no import doubled,
\* has its own manifest in git, with the form it shows.
OwnManifest ==
    \A r \in (Recorded \cap pushed) \ twin :
        run[r] = Idle => repo[PathOf[r]] = ManifestOf(r, form[r])

\* "Pushing on create/write is best-effort (failures are logged + recorded in
\* k8s_message ...)": a request whose push failed leaves the record's state
\* "unknown", which goes with that message.
FailureRecorded ==
    [][\A r \in Resources :
         run[r].pc = "commit" /\ run[r]' = Idle /\ r \notin pushed =>
             shown'[r] = "unknown"]_portalVars

\* The resource's parents are in git too.
InGit(r) == repo[PathOf[r]] # None /\ repo[PathOf[r]].of = r
Rooted(r) ==
    \A x \in Resources : r \in Descendants(x) => InGit(x)

\* In the end the portal mirrors git: whatever is committed there, through
\* the portal or not, has its object and, if its parents have, a record that
\* shows that object's status; lost and overtaken status pushes are made up
\* for by the sync ("the portal's cron remains only as a slow fallback").
PortalMirrored ==
    \A p \in RepoPaths : repo[p] # None /\ Rooted(repo[p].of) =>
        /\ InCluster(p) = repo[p]
        /\ repo[p].of \in Recorded
        /\ shown[repo[p].of] = (CASE cluster[p].ready = "True"  -> "ready"
                                  [] cluster[p].ready = "False" -> "not_ready"
                                  [] OTHER -> "pending")
RecordsMirrored == <>[]PortalMirrored

----------------------------------------------------------------------------
(* Why they hold: an inductive invariant, proved in PortalProofs           *)

\* What a request that is under way can count on: the row it writes or
\* deletes, and the row that a new one refers to, stay until it ends.
RunInv ==
    \A r \in Resources :
        /\ run[r].pc = "idle" => run[r] = Idle
        /\ run[r].pc \in {"put", "refresh", "commit"} => run[r].body \in Payloads
        /\ run[r] # Idle /\ ~run[r].new => r \in Recorded
        /\ run[r].new /\ Parent[r] # None => Parent[r] \in Recorded

\* What the sync is about to create has its parent among what it knows.
CronInv ==
    \A cr \in cron.found : cr.of \in cron.before \/ Importable(cr.of, Known)

\* No other resource has the same file.
Alone(r) == \A other \in Resources : PathOf[other] = PathOf[r] => other = r

\* A push that went through is in git until the next push or the deletion,
\* and its record is there or about to be.
PushInv ==
    \A r \in pushed : Alone(r) =>
        /\ run[r] = Idle =>
             /\ r \in Recorded
             /\ r \notin twin => repo[PathOf[r]] = ManifestOf(r, form[r])
        /\ run[r].pc \in {"refresh", "commit"} =>
             repo[PathOf[r]] = ManifestOf(r, run[r].body)

PortalInv == NoOrphan /\ RunInv /\ CronInv /\ PushInv
=============================================================================
