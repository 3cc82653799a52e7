------------------------- MODULE ApplicationEngine -------------------------
(***************************************************************************)
(* The reconciler of one Application custom resource                       *)
(* (handlers/application.py), the generic app engine of the controller.    *)
(*                                                                         *)
(* One run of the handler is split at its calls to the cluster, because    *)
(* the rest of the cluster moves between them: resolve the configuration,  *)
(* gate on the image build, gate on the restore of a snapshot, read the    *)
(* SSOApplication's status, apply the Argo CD Application.  The status      *)
(* fields the run sets are collected in a patch that Kopf writes only      *)
(* after the handler has returned or raised.                               *)
(*                                                                         *)
(* Argo Workflows, Argo CD, the application's chart and Kopf are external: *)
(* they are modelled by what the controller relies on.  Applications share *)
(* none of this state (every name carries namespace and application), so   *)
(* one Application is the whole component.                                 *)
(***************************************************************************)
EXTENDS Naturals

CONSTANTS
    Refs,        \* git refs a source build can name (spec.source.ref)
    Tags,        \* image tags
    TagOf,       \* resolve.sanitize_tag, as a function from Refs to Tags
    Snaps,       \* names of Snapshot resources
    None,        \* "absent": an optional field that is not set
    UserSpecs,   \* the specs users write in this instance
    MaxGen,      \* bound: the last generation of the spec
    MaxFaults    \* bound: crashes and failed backend calls in a behaviour

\* spec.restoreFrom, and the part of an Application's spec that the engine's
\* control flow depends on.
RestoreFrom == [snap : Snaps, sanitize : BOOLEAN]

Spec_ == [ref : Refs \cup {None}, restore : RestoreFrom \cup {None},
          sso : BOOLEAN]

VARIABLES
    spec,        \* the Application's spec, as last written by a user
    gen,         \* metadata.generation
    life,        \* "live", "deleting" (deletionTimestamp set), "gone"
    due,         \* Kopf has a reason to call the reconcile handler
    status,      \* the Application's status subresource
    run,         \* the frame of the reconcile handler
    resolvable,  \* every parent the spec refers to exists, and a hostname
    build,       \* build Workflows, by the tag in their name
    image,       \* what the registry holds, by tag: the ref it was built from
    restore,     \* restore Workflows, by the Snapshot in their name
    completed,   \* Snapshots whose status.phase is Completed
    db,          \* the application's database
    dbSecret,    \* the database credential Secret is in the app namespace
    sso,         \* the chart-emitted SSOApplication
    argo,        \* the Argo CD Application, or None
    faults       \* crashes and failed calls so far

vars == <<spec, gen, life, due, status, run, resolvable, build, image,
          restore, completed, db, dbSecret, sso, argo, faults>>

resourceVars == <<spec, gen, life>>
clusterVars  == <<build, image, restore, completed, db, dbSecret, sso>>

----------------------------------------------------------------------------
(* Records *)

Phases == {"", "Building", "BuildFailed", "Restoring", "RestoreFailed",
           "Deployed"}

\* status.argoApplication, buildWorkflow and restoreWorkflow hold names that
\* identify what they name: the Argo Application, a tag, a Snapshot.
Status == [phase : Phases, ready : BOOLEAN, observed : 0 .. MaxGen,
           argoApplication : BOOLEAN, builtImage : Tags \cup {None},
           buildWorkflow : Tags \cup {None},
           restoreWorkflow : Snaps \cup {None},
           restoredFrom : Snaps \cup {None}]

NoStatus == [phase |-> "", ready |-> FALSE, observed |-> 0,
             argoApplication |-> FALSE, builtImage |-> None,
             buildWorkflow |-> None, restoreWorkflow |-> None,
             restoredFrom |-> None]

\* The handler's locals: want and gen are the spec and generation it was
\* called with, out the status it will leave, again whether it raised.
Frame == [pc : {"idle", "build", "restore", "sso", "apply", "patch"},
          want : Spec_, gen : 0 .. MaxGen, image : Tags \cup {None},
          oidc : BOOLEAN, out : Status, again : BOOLEAN]

Builds   == [phase : {"none", "Running", "Succeeded", "Failed"},
             ref : Refs \cup {None}]
Restores == [phase : {"none", "Running", "Loaded", "Succeeded", "Failed"},
             sanitize : BOOLEAN]
Releases == [image : Tags \cup {None}, sso : BOOLEAN, oidc : BOOLEAN]

\* None is none of the values it stands beside.
ASSUME EngineAssumption ==
    /\ TagOf \in [Refs -> Tags]
    /\ None \notin Refs \cup Tags \cup Snaps \cup Releases \cup {"own", "mixed"}
    /\ Snaps \cap {"own", "mixed"} = {}
    /\ UserSpecs \subseteq Spec_
    /\ MaxGen \in Nat \ {0}
    /\ MaxFaults \in Nat

NoBuild   == [phase |-> "none", ref |-> None]
NoRestore == [phase |-> "none", sanitize |-> FALSE]

----------------------------------------------------------------------------
(* Initial states: the resource has just been created, or the controller  *)
(* has just started and resumes it; its database may have been made ahead  *)
(* of it by a Database resource of its own.                                *)

Init ==
    /\ spec \in UserSpecs
    /\ gen = 1 /\ life = "live" /\ due = TRUE
    /\ status = NoStatus
    /\ run = [pc |-> "idle", want |-> spec, gen |-> 0, image |-> None,
              oidc |-> FALSE, out |-> NoStatus, again |-> FALSE]
    /\ resolvable \in BOOLEAN
    /\ build = [t \in Tags |-> NoBuild]
    /\ image = [t \in Tags |-> None]
    /\ restore = [s \in Snaps |-> NoRestore]
    /\ completed = {}
    /\ db = [data |-> None, clean |-> TRUE]
    /\ dbSecret \in BOOLEAN
    /\ sso = "absent"
    /\ argo = None
    /\ faults = 0

----------------------------------------------------------------------------
(* The decisions of the handler.  An operator whose name ends in _Mutant is *)
(* the same decision with a plausible mistake; nothing uses it but the      *)
(* mutation runs, which put it in the place of the definition after it.     *)

\* Deploys as soon as the Workflow has not failed.
BuildDone_Mutant(phase) == phase # "Failed"
\* workflows.PHASE_SUCCEEDED opens the gate.
BuildDone(phase) == phase = "Succeeded"

\* Any earlier restore counts as this one.
RestoreSkipped_Mutant(want, out) ==
    want.restore = None \/ out.restoredFrom # None
\* restoreFrom is absent, or status.restoredFrom already names its Snapshot.
RestoreSkipped(want, out) ==
    \/ want.restore = None
    \/ out.restoredFrom = want.restore.snap

\* Only a failed Workflow keeps the gate shut.
RestoreDone_Mutant(phase) == phase # "Failed"
RestoreDone(phase) == phase = "Succeeded"

\* Whether the OIDC values were known is not asked.
SsoReady_Mutant(want, oidc) == TRUE
SsoReady(want, oidc) == want.sso => oidc

\* The phase after the apply.
AppliedPhase == "Deployed"

\* The status fields set after the Argo CD Application is applied, with the
\* name recorded only once the application no longer waits for its SSO client.
Applied_Mutant(out, tag, ready) ==
    [out EXCEPT !.argoApplication = @ \/ ready, !.phase = AppliedPhase,
                !.builtImage = IF tag = None THEN @ ELSE tag]
Applied(out, tag, ready) ==
    [out EXCEPT !.argoApplication = TRUE, !.phase = AppliedPhase,
                !.builtImage = IF tag = None THEN @ ELSE tag]

\* A raised handler is not called again.
CalledAgain_Mutant(frame, latest, old) ==
    latest # frame.gen \/ frame.out # old
\* Kopf calls the handler again after a TemporaryError, for a generation the
\* run has not seen, and for a changed status: the status watchers of
\* odoo_sync.py make status part of the essence Kopf compares.
CalledAgain(frame, latest, old) ==
    frame.again \/ latest # frame.gen \/ frame.out # old

----------------------------------------------------------------------------
(* The handler *)

\* _common.fail: Ready=False at this generation, and a TemporaryError, after
\* which Kopf still writes the patch and calls the handler again.
Fail(out) ==
    run' = [run EXCEPT !.pc = "patch", !.again = TRUE,
                       !.out = [out EXCEPT !.ready = FALSE,
                                           !.observed = run.gen]]

Goto(pc) == run' = [run EXCEPT !.pc = pc]

\* reconcile up to _reconcile_build: resolve the scope chain and the
\* hostname, ensure the namespace.  The status argument is the one at the
\* time of the call.
Begin ==
    /\ run.pc = "idle" /\ due /\ life = "live"
    /\ run' = [run EXCEPT
                 !.pc    = IF resolvable THEN "build" ELSE "patch",
                 !.want  = spec, !.gen = gen, !.image = None, !.oidc = FALSE,
                 !.again = ~resolvable,
                 !.out   = IF resolvable THEN status
                           ELSE [status EXCEPT !.ready = FALSE,
                                               !.observed = gen]]
    /\ UNCHANGED <<resourceVars, clusterVars, due, status, resolvable, argo,
                   faults>>

\* Workflow.apply: submitted Workflows are immutable, an existing one of that
\* name is left alone.
Submitted(ref) ==
    IF build[TagOf[ref]].phase # "none" THEN build
    ELSE [build EXCEPT ![TagOf[ref]] = [phase |-> "Running", ref |-> ref]]

\* _reconcile_build: submit the build Workflow, record its name, look
\* at its phase.
BuildGate ==
    /\ run.pc = "build"
    /\ IF run.want.ref = None
       THEN Goto("restore") /\ UNCHANGED build
       ELSE LET tag == TagOf[run.want.ref]
                out == [run.out EXCEPT !.buildWorkflow = tag]
            IN /\ build' = Submitted(run.want.ref)
               /\ \/ /\ BuildDone(build'[tag].phase)
                     /\ run' = [run EXCEPT !.pc = "restore", !.image = tag,
                                           !.out = out]
                  \/ /\ build'[tag].phase = "Failed"
                     /\ Fail([out EXCEPT !.phase = "BuildFailed"])
                  \/ /\ ~BuildDone(build'[tag].phase)
                     /\ build'[tag].phase # "Failed"
                     /\ Fail([out EXCEPT !.phase = "Building"])
    /\ UNCHANGED <<resourceVars, due, status, resolvable, image, restore,
                   completed, db, dbSecret, sso, argo, faults>>

\* _reconcile_restore: skipped once status.restoredFrom names the Snapshot;
\* waits for the Snapshot and for the credential Secret dbjobs.ensure_secrets
\* reads from the app namespace; submits the Workflow unless it exists.
RestoreGate ==
    /\ run.pc = "restore"
    /\ IF RestoreSkipped(run.want, run.out)
       THEN Goto("sso") /\ UNCHANGED restore
       ELSE LET s   == run.want.restore.snap
                out == [run.out EXCEPT !.restoreWorkflow = s]
            IN IF s \notin completed \/ ~dbSecret
               THEN Fail(run.out) /\ UNCHANGED restore
               ELSE /\ restore' = IF restore[s].phase = "none"
                                  THEN [restore EXCEPT ![s] =
                                          [phase |-> "Running",
                                           sanitize |-> run.want.restore.sanitize]]
                                  ELSE restore
                    /\ \/ /\ RestoreDone(restore'[s].phase)
                          /\ run' = [run EXCEPT !.pc = "sso",
                                       !.out = [out EXCEPT !.restoredFrom = s]]
                       \/ /\ restore'[s].phase = "Failed"
                          /\ Fail([out EXCEPT !.phase = "RestoreFailed"])
                       \/ /\ ~RestoreDone(restore'[s].phase)
                          /\ restore'[s].phase # "Failed"
                          /\ Fail([out EXCEPT !.phase = "Restoring"])
    /\ UNCHANGED <<resourceVars, due, status, resolvable, build, image,
                   completed, db, dbSecret, sso, argo, faults>>

\* _resolve_oidc: the OIDC values are known once the SSOApplication has
\* published a client ID.
ReadSso ==
    /\ run.pc = "sso"
    /\ run' = [run EXCEPT !.pc = "apply",
                          !.oidc = run.want.sso /\ sso = "published"]
    /\ UNCHANGED <<resourceVars, clusterVars, due, status, resolvable, argo,
                   faults>>

\* The Argo CD Application the handler renders from its locals.
Rendered == [image |-> run.image, sso |-> run.want.sso, oidc |-> run.oidc]

\* The rest of reconcile: create or replace the Argo CD Application with the
\* rendered values, then wait for the SSO client or report Ready.
ApplyArgo ==
    /\ run.pc = "apply"
    /\ argo' = Rendered
    /\ LET ready == SsoReady(run.want, run.oidc)
           out   == Applied(run.out, run.image, ready)
       IN \/ ~ready /\ Fail(out)
          \/ /\ ready
             /\ run' = [run EXCEPT !.pc = "patch", !.again = FALSE,
                          !.out = [out EXCEPT !.ready = TRUE,
                                              !.observed = run.gen]]
    /\ UNCHANGED <<resourceVars, clusterVars, due, status, resolvable, faults>>

\* A call of the handler raises.  Most are wrapped and end in fail(), which
\* keeps what the patch already holds; the others (the reads of _resolve, of a
\* Workflow's phase, of the SSOApplication) leave it as it is.  Kopf calls the
\* handler again either way.  A write may have taken effect before it raised.
BackendError ==
    /\ run.pc \in {"build", "restore", "sso", "apply"}
    /\ faults < MaxFaults /\ faults' = faults + 1
    /\ \/ Fail(run.out)
       \/ run' = [run EXCEPT !.pc = "patch", !.again = TRUE]
    /\ \/ UNCHANGED <<build, restore, argo>>
       \/ run.pc = "build" /\ run.want.ref # None
          /\ build' = Submitted(run.want.ref) /\ UNCHANGED <<restore, argo>>
       \/ run.pc = "apply" /\ argo' = Rendered /\ UNCHANGED <<build, restore>>
    /\ UNCHANGED <<resourceVars, due, status, resolvable, image, completed, db,
                   dbSecret, sso>>

\* Kopf writes the patch.
WritePatch ==
    /\ run.pc = "patch"
    /\ status' = run.out
    /\ due' = CalledAgain(run, gen, status)
    /\ run' = [run EXCEPT !.pc = "idle"]
    /\ UNCHANGED <<resourceVars, clusterVars, resolvable, argo, faults>>

\* The controller stops and starts: the frame and its patch are lost, and
\* on.resume calls the handler again.
Crash ==
    /\ life # "gone" /\ faults < MaxFaults
    /\ run' = [run EXCEPT !.pc = "idle"]
    /\ due' = TRUE
    /\ faults' = faults + 1
    /\ UNCHANGED <<resourceVars, clusterVars, status, resolvable, argo>>

\* finalize: delete what the status names, each deletion best effort.
Finalize ==
    /\ life = "deleting" /\ run.pc = "idle"
    /\ \E kept \in SUBSET {"argo", "build", "restore"} :
         /\ IF kept = {} THEN faults' = faults
            ELSE faults < MaxFaults /\ faults' = faults + 1
         /\ argo' = IF status.argoApplication /\ "argo" \notin kept
                    THEN None ELSE argo
         /\ build' = [t \in Tags |->
                        IF t = status.buildWorkflow /\ "build" \notin kept
                        THEN NoBuild ELSE build[t]]
         /\ restore' = [s \in Snaps |->
                          IF s = status.restoreWorkflow /\ "restore" \notin kept
                          THEN NoRestore ELSE restore[s]]
    /\ life' = "gone"
    /\ due' = FALSE
    /\ UNCHANGED <<spec, gen, status, run, resolvable, image, completed, db,
                   dbSecret, sso>>

Handler == Begin \/ BuildGate \/ RestoreGate \/ ReadSso \/ ApplyArgo
           \/ WritePatch \/ Finalize

----------------------------------------------------------------------------
(* The world around the handler *)

EditSpec ==
    /\ life = "live" /\ gen < MaxGen
    /\ \E new \in UserSpecs \ {spec} : spec' = new
    /\ gen' = gen + 1
    /\ due' = TRUE
    /\ UNCHANGED <<life, status, run, resolvable, clusterVars, argo, faults>>

Delete ==
    /\ life = "live"
    /\ life' = "deleting"
    /\ UNCHANGED <<spec, gen, due, status, run, resolvable, clusterVars, argo,
                   faults>>

ParentsAppear ==
    /\ ~resolvable /\ resolvable' = TRUE
    /\ UNCHANGED <<resourceVars, due, status, run, clusterVars, argo, faults>>

SnapshotCompletes(s) ==
    /\ s \notin completed
    /\ completed' = completed \cup {s}
    /\ UNCHANGED <<resourceVars, due, status, run, resolvable, build, image,
                   restore, db, dbSecret, sso, argo, faults>>

\* A build Workflow ends: the image is in the registry before it reports
\* success, a failed one pushes nothing.
BuildEnds(t) ==
    /\ build[t].phase = "Running"
    /\ \/ /\ build' = [build EXCEPT ![t].phase = "Succeeded"]
          /\ image' = [image EXCEPT ![t] = build[t].ref]
       \/ /\ build' = [build EXCEPT ![t].phase = "Failed"]
          /\ UNCHANGED image
    /\ UNCHANGED <<resourceVars, due, status, run, resolvable, restore,
                   completed, db, dbSecret, sso, argo, faults>>

\* The restore Workflow's download and pg_restore steps.  pg_restore does
\* not clean first, so it fails against a database that already has tables.
RestoreLoads(s) ==
    /\ restore[s].phase = "Running"
    /\ \/ /\ restore' = [restore EXCEPT ![s].phase = "Failed"]
          /\ UNCHANGED db
       \/ /\ db.data = None
          /\ db' = [data |-> s, clean |-> FALSE]
          /\ restore' = [restore EXCEPT ![s].phase = "Loaded"]
       \/ /\ db.data # None
          /\ db' = [data |-> "mixed", clean |-> FALSE]
          /\ restore' = [restore EXCEPT ![s].phase = "Failed"]
    /\ UNCHANGED <<resourceVars, due, status, run, resolvable, build, image,
                   completed, dbSecret, sso, argo, faults>>

\* Its last step: neutralize the data when the Workflow was submitted with
\* sanitize=true.
RestoreEnds(s) ==
    /\ restore[s].phase = "Loaded"
    /\ \/ /\ restore' = [restore EXCEPT ![s].phase = "Succeeded"]
          /\ db' = IF restore[s].sanitize THEN [db EXCEPT !.clean = TRUE]
                   ELSE db
       \/ /\ restore[s].sanitize
          /\ restore' = [restore EXCEPT ![s].phase = "Failed"]
          /\ UNCHANGED db
    /\ UNCHANGED <<resourceVars, due, status, run, resolvable, build, image,
                   completed, dbSecret, sso, argo, faults>>

\* Argo CD syncs the chart, which emits the app's Database and
\* SSOApplication; pruning removes an SSOApplication no longer asked for.
ChartDeliversDatabase ==
    /\ argo # None /\ ~dbSecret /\ dbSecret' = TRUE
    /\ UNCHANGED <<resourceVars, due, status, run, resolvable, build, image,
                   restore, completed, db, sso, argo, faults>>

ChartWantsSso == IF argo = None THEN FALSE ELSE argo.sso

ChartSyncsSso ==
    /\ \/ ChartWantsSso /\ sso = "absent" /\ sso' = "created"
       \/ sso = "created" /\ sso' = "published"
       \/ ~ChartWantsSso /\ sso # "absent" /\ sso' = "absent"
    /\ UNCHANGED <<resourceVars, due, status, run, resolvable, build, image,
                   restore, completed, db, dbSecret, argo, faults>>

AppBoots ==
    /\ argo # None /\ dbSecret /\ db.data = None
    /\ db' = [data |-> "own", clean |-> TRUE]
    /\ UNCHANGED <<resourceVars, due, status, run, resolvable, build, image,
                   restore, completed, dbSecret, sso, argo, faults>>

Cluster ==
    \/ \E t \in Tags : BuildEnds(t)
    \/ \E s \in Snaps : RestoreLoads(s) \/ RestoreEnds(s)
    \/ ChartDeliversDatabase \/ ChartSyncsSso \/ AppBoots

User == EditSpec \/ Delete \/ ParentsAppear
        \/ \E s \in Snaps : SnapshotCompletes(s)

Next == Handler \/ BackendError \/ Crash \/ Cluster \/ User

Spec == Init /\ [][Next]_vars

\* Kopf keeps calling a due handler and a handler runs to its end; Workflows
\* end; Argo CD syncs.  Users owe nothing.
Fairness ==
    /\ WF_vars(Handler)
    /\ \A t \in Tags : WF_vars(BuildEnds(t))
    /\ \A s \in Snaps : WF_vars(RestoreLoads(s) \/ RestoreEnds(s))
    /\ WF_vars(ChartDeliversDatabase)
    /\ WF_vars(ChartSyncsSso)
    /\ WF_vars(AppBoots)

FairSpec == Spec /\ Fairness

----------------------------------------------------------------------------
(* Properties *)

TypeOK ==
    /\ spec \in Spec_ /\ gen \in 1 .. MaxGen
    /\ life \in {"live", "deleting", "gone"} /\ due \in BOOLEAN
    /\ status \in Status /\ run \in Frame /\ resolvable \in BOOLEAN
    /\ build \in [Tags -> Builds] /\ image \in [Tags -> Refs \cup {None}]
    /\ restore \in [Snaps -> Restores] /\ completed \in SUBSET Snaps
    /\ db \in [data : Snaps \cup {None, "own", "mixed"}, clean : BOOLEAN]
    /\ dbSecret \in BOOLEAN /\ sso \in {"absent", "created", "published"}
    /\ argo \in Releases \cup {None} /\ faults \in 0 .. MaxFaults

\* "Gates the deploy on a successful build": whatever image the Argo CD
\* Application names, now or while an edit, a retry or a restart is under
\* way, is one the registry holds.
DeployedImageIsBuilt ==
    argo # None /\ argo.image # None => image[argo.image] # None

\* Ready at the current generation is true of the cluster, not only of the
\* last run: the Argo CD Application carries the image of the ref the spec
\* names now, and the OIDC values if the spec asks for SSO now.
ReadyMeansServed ==
    life = "live" /\ status.ready /\ status.observed = gen =>
        /\ argo # None
        /\ argo.image = IF spec.ref = None THEN None ELSE TagOf[spec.ref]
        /\ argo.sso = spec.sso
        /\ spec.sso /\ run.pc = "idle" /\ ~due => argo.oidc

\* Ready with a restoreFrom means the restore of that very Snapshot has
\* written the database.  "mixed" is left by a later restore of another
\* Snapshot that failed half way.
ReadyMeansRestored ==
    /\ life = "live" /\ status.ready /\ status.observed = gen
    /\ spec.restore # None
    => /\ status.restoredFrom = spec.restore.snap
       /\ db.data \in {spec.restore.snap, "mixed"}

\* A deleted Application leaves no Argo CD Application, hence no workload,
\* behind, whatever the handler was doing when the deletion came; a crash or
\* a failed call in the same behaviour is the exception (finalize knows only
\* what status names, and ignores errors).
NoOrphan == life = "gone" /\ faults = 0 => argo = None

\* Every run of edits ends with a status that tells how things stand: Ready
\* for the last generation, or not Ready and for which reason.
BuildStuck ==
    /\ spec.ref # None /\ build[TagOf[spec.ref]].phase = "Failed"
    /\ ~status.ready /\ status.observed = gen /\ status.phase = "BuildFailed"

RestoreStuck ==
    /\ spec.restore # None /\ ~status.ready /\ status.observed = gen
    /\ \/ spec.restore.snap \notin completed \/ ~dbSecret
       \/ /\ restore[spec.restore.snap].phase = "Failed"
          /\ status.phase = "RestoreFailed"

Settled ==
    \/ life = "gone"
    \/ status.observed = gen /\ (status.ready \/ ~resolvable)
    \/ BuildStuck \/ RestoreStuck

EventuallySettled == <>[]Settled

\* The engine implements the contract of ReleaseContract.
Contract == INSTANCE ReleaseContract WITH
    Artifacts <- Tags \cup {None},
    Stock     <- None,
    Sources   <- Snaps,
    Off       <- "off",
    built     <- {None} \cup {t \in Tags : image[t] # None},
    loaded    <- {s \in Snaps : restore[s].phase = "Succeeded"},
    live      <- IF argo = None THEN "off" ELSE argo.image,
    claim     <- IF life = "gone" \/ status.restoredFrom = None THEN "off"
                 ELSE status.restoredFrom

KeepsContract == Contract!Spec

\* README.md:219-221: with restoreFrom, "before deploying, a restore Workflow
\* runs ... into the freshly-provisioned (cnpg) database".  So an Application
\* with a completed Snapshot to restore is deployed at some time, unless a
\* Workflow fails or its user changes it.
CloneIsDeployed ==
    ( /\ life = "live" /\ resolvable /\ spec.restore # None
      /\ spec.restore.snap \in completed ) ~>
    ( \/ argo # None \/ life # "live" \/ spec.restore = None
      \/ spec.restore.snap \notin completed
      \/ \E t \in Tags : build[t].phase = "Failed"
      \/ \E s \in Snaps : restore[s].phase = "Failed" )

\* README.md:221-222: "sanitize runs Odoo's neutralize to disarm mail/crons/
\* payment keys ..., so production data is safe": an Application that is Ready
\* for a spec that asks for a sanitized restore holds no raw copy.
ReadyMeansSanitized ==
    /\ life = "live" /\ status.ready /\ status.observed = gen
    /\ spec.restore # None
    => (spec.restore.sanitize /\ db.data = spec.restore.snap => db.clean)

----------------------------------------------------------------------------
(* The inductive invariant behind the safety properties, by what each part  *)
(* is for.  It speaks of the frame because a property of the status must    *)
(* already hold of the patch that will become the status.                   *)

\* The image behind a successful Workflow, a passed gate and the deployed app.
BuiltInv ==
    /\ \A t \in Tags : build[t].phase = "Running" => build[t].ref \in Refs
    /\ \A t \in Tags : build[t].phase = "Succeeded" => image[t] # None
    /\ run.pc = "build" => run.image = None
    /\ run.pc \in {"restore", "sso", "apply"} /\ run.image # None =>
         image[run.image] # None
    /\ DeployedImageIsBuilt

\* The data behind a successful restore, and the claims made of it.
LoadedInv ==
    /\ \A s \in Snaps : restore[s].phase \in {"Loaded", "Succeeded"} =>
         db.data \in {s, "mixed"}
    /\ life = "gone" => run.pc = "idle"
    /\ life # "gone" /\ status.restoredFrom # None =>
         restore[status.restoredFrom].phase = "Succeeded"
    /\ run.pc # "idle" /\ run.out.restoredFrom # None =>
         restore[run.out.restoredFrom].phase = "Succeeded"

WantedImage(want) == IF want.ref = None THEN None ELSE TagOf[want.ref]

Serves == argo # None /\ argo.image = WantedImage(spec) /\ argo.sso = spec.sso

Restored(want, out) ==
    want.restore # None => out.restoredFrom = want.restore.snap

\* A frame is never ahead of the resource nor behind the status, and what
\* it will report as ready is so for the spec it was called with.
ServedInv ==
    /\ status.observed <= gen
    /\ run.pc # "idle" => run.gen <= gen /\ status.observed <= run.gen
    /\ run.pc # "idle" /\ run.gen = gen => run.want = spec
    /\ run.pc \in {"restore", "sso", "apply"} =>
         run.image = WantedImage(run.want)
    /\ run.pc \in {"sso", "apply"} => Restored(run.want, run.out)
    /\ run.pc # "idle" /\ run.out.restoredFrom # status.restoredFrom =>
         run.want.restore # None /\ Restored(run.want, run.out)
    /\ run.pc = "patch" /\ ~run.again =>
         run.out.ready /\ run.out.observed = run.gen
    /\ run.pc # "idle" =>
         \/ run.pc = "patch" /\ run.out.observed = run.gen
                             /\ (run.again => ~run.out.ready)
         \/ run.out.observed = status.observed /\ run.out.ready = status.ready
    /\ run.pc = "patch" /\ ~run.again /\ run.gen = gen =>
         Serves /\ (spec.sso => argo.oidc) /\ Restored(spec, run.out)
    /\ life = "live" /\ status.ready /\ status.observed = gen =>
         /\ Serves /\ Restored(spec, status)
         /\ run.pc = "idle" /\ ~due => (spec.sso => argo.oidc)

\* Without faults, an applied Argo CD Application is one the status names or
\* is about to name.
NamedInv ==
    /\ run.pc # "idle" /\ status.argoApplication => run.out.argoApplication
    /\ faults = 0 /\ argo # None =>
         /\ life # "gone"
         /\ \/ status.argoApplication
            \/ run.pc = "patch" /\ run.out.argoApplication

EngineInv == TypeOK /\ BuiltInv /\ LoadedInv /\ ServedInv /\ NamedInv

=============================================================================
