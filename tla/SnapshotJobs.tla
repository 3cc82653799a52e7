----------------------------- MODULE SnapshotJobs -----------------------------
(***************************************************************************)
(* Snapshots of applications' databases and applications that are restored *)
(* from them.  Both are Argo Workflows that the controller submits to the   *)
(* argo namespace and polls; their Pods take the database's password from   *)
(* a Secret that the controller copies there, one per namespace, and pass   *)
(* the dump through the object store.                                      *)
(*                                                                         *)
(* SnapshotReconciler and _reconcile_restore run once at a time for an     *)
(* object and interleave between objects.  The rest of an application's    *)
(* handler is in ApplicationEngine.                                        *)
(***************************************************************************)
EXTENDS Naturals

CONSTANTS
    Snaps,      \* names of Snapshots
    Apps,       \* Applications with a database
    Clones,     \* the Applications that have a spec.restoreFrom ...
    From,       \* ... and the Snapshot it names
    NsOf,       \* the namespace an Application runs in
    None,
    Sources,    \* bound: Applications of which Snapshots are made
    Moving,     \* bound: Applications whose database server comes and goes
    Changing,   \* bound: Snapshots that users edit and delete
    MaxOps,     \* bound: what users do
    MaxFaults   \* bound: failed calls, failed Pods and restarts

Jobs == Snaps \cup Clones
Namespaces == {NsOf[a] : a \in Apps}

\* birth tells a Snapshot from an earlier one of its name.
Snapshot == [app : Apps, birth : 1 .. MaxOps, deleting : BOOLEAN]
Dump == [app : Apps, birth : 1 .. MaxOps]

\* A Workflow with the database it was submitted for and the dump in its
\* volume: Started has its first step behind it.
Workflow == [app : Apps, birth : 1 .. MaxOps, work : Dump \cup {None},
             phase : {"Pending", "Started", "Succeeded", "Failed", "Error"}]

ASSUME SnapshotAssumption ==
    /\ Clones \cup Sources \cup Moving \subseteq Apps /\ Snaps \cap Apps = {}
    /\ Changing \subseteq Snaps /\ From \in [Clones -> Snaps] /\ NsOf \in [Apps -> Namespaces]
    /\ None \notin Jobs \cup Apps \cup Namespaces \cup Snapshot \cup Dump \cup Workflow
                 \cup {"Completed"}
    /\ MaxOps \in Nat /\ MaxFaults \in Nat

VARIABLES
    snap,       \* the Snapshots
    births,     \* how often a Snapshot of a name was created
    connected,  \* Applications whose database server has published its host
    status,     \* of the Snapshots and of the restores
    due,        \* an object's handler is to be called
    handler,    \* the handlers' frames
    dbpass,     \* whose password a namespace's Secret in argo holds
    wf,         \* the Workflows
    s3,         \* the object store
    loaded,     \* the dump a clone's database was loaded with
    contested,  \* (history) namespaces in which the jobs of two Applications met
    stale,      \* (history) Snapshots that were edited, or whose Workflow
                \* finalize could not delete
    ops, faults

snapshotVars == <<snap, births, connected, status, due, handler, dbpass, wf, s3, loaded,
                  contested, stale, ops, faults>>

\* status.phase of a Snapshot.  For a restore: Restoring, RestoreFailed, and
\* Completed once status.restoredFrom is set.  source stands for
\* sourceApplication, workflow and location.
Status == [phase : {None, "Running", "Completed", "Failed"}, source : Apps \cup {None},
           ready : BOOLEAN]
NoStatus == [phase |-> None, source |-> None, ready |-> FALSE]

Frame == [pc : {"idle", "secrets", "submit", "write"},
          app : Apps \cup {None}, birth : 0 .. MaxOps, out : Status]
Idle == [pc |-> "idle", app |-> None, birth |-> 0, out |-> NoStatus]

----------------------------------------------------------------------------
(* Decisions, each after its mutant *)

\* The mutant keeps one password Secret for all namespaces.
SecretOf_Mutant(a) == CHOOSE n \in Namespaces : TRUE

\* _db_secret_name: dbpass-<namespace>.
SecretOf(a) == NsOf[a]

\* The mutant takes a Workflow that runs for one that succeeded.
PhaseOf_Mutant(w) ==
    CASE w.phase \in {"Started", "Succeeded"} -> "Completed"
      [] w.phase \in {"Failed", "Error"} -> "Failed"
      [] OTHER -> "Running"

\* What a poll makes of the Workflow's phase.
PhaseOf(w) ==
    CASE w.phase = "Succeeded" -> "Completed"
      [] w.phase \in {"Failed", "Error"} -> "Failed"
      [] OTHER -> "Running"

\* A submitted Workflow is left alone.
Submitted(w, new) == IF w = None THEN new ELSE w

\* The mutant leaves the Workflow.
AfterDeletion_Mutant(w) == w

\* finalize deletes the Workflow.
AfterDeletion(w) == None

\* The mutant does not look at the Snapshot's phase.
Usable_Mutant(n) == snap[n] # None

\* The Snapshot a restore starts from: Completed, with a location.
Usable(n) == snap[n] # None /\ status[n].phase = "Completed" /\ status[n].source # None

\* The mutant does not come back to a handler that failed.
CalledAgain_Mutant(phase) == phase = "Running"

\* Kopf calls a handler that raised again: all but a Completed run raise.
CalledAgain(phase) == phase # "Completed"

----------------------------------------------------------------------------
(* The handlers *)

Exists(n) == snap[n] # None

NotReady(f) == [f.out EXCEPT !.ready = FALSE]
Ready(f) == [f.out EXCEPT !.ready = TRUE]

\* fail(...): the patch is written and the handler is called again.
Fail(j) ==
    /\ handler' = [handler EXCEPT ![j].pc = "write", ![j].out = NotReady(handler[j])]
    /\ due' = [due EXCEPT ![j] = @ \/ CalledAgain("Failed")]

\* The Applications whose password a job copies or is about to need.
Using(j) ==
    (IF handler[j].pc \in {"secrets", "submit"} THEN {handler[j].app} ELSE {})
    \cup (IF wf[j] # None /\ wf[j].phase \in {"Pending", "Started"} THEN {wf[j].app} ELSE {})

\* A job needs the password of another Application of the namespace: it may be
\* the Snapshot's own, submitted before it was edited.
Meets(a) == \E i \in Jobs : \E b \in Using(i) : a # b /\ NsOf[a] = NsOf[b]

\* Kopf calls the handler with the object as it is, which looks for the
\* database's connection and, for a restore, whether it is done and whether the
\* Snapshot is Completed.  A run that ends there has its patch written in the
\* same step.
Begin(j) ==
    LET f == [pc |-> "secrets", app |-> IF j \in Snaps THEN snap[j].app ELSE j,
              birth |-> IF j \in Snaps THEN snap[j].birth ELSE 0, out |-> status[j]]
        done == j \in Clones /\ status[j].phase = "Completed"
        lacking == f.app \notin connected \/ (j \in Clones /\ ~done /\ ~Usable(From[j]))
    IN
    /\ handler[j].pc = "idle" /\ due[j]
    /\ j \in Snaps => Exists(j) /\ ~snap[j].deleting
    /\ IF lacking \/ done
       THEN /\ status' = [status EXCEPT ![j] = IF lacking THEN NotReady(f) ELSE Ready(f)]
            /\ UNCHANGED handler
       ELSE /\ handler' = [handler EXCEPT ![j] =
                 IF j \in Clones THEN [f EXCEPT !.birth = snap[From[j]].birth] ELSE f]
            /\ UNCHANGED status
    /\ due' = [due EXCEPT ![j] = lacking /\ CalledAgain("Failed")]
    /\ contested' = IF ~lacking /\ ~done /\ Meets(f.app)
                    THEN contested \cup {NsOf[f.app]} ELSE contested
    /\ UNCHANGED <<snap, births, connected, dbpass, wf, s3, loaded, stale, ops, faults>>

\* ensure_secrets: the password of the Application's database goes to argo.
EnsureSecrets(j) ==
    LET f == handler[j] IN
    /\ f.pc = "secrets"
    /\ dbpass' = [dbpass EXCEPT ![SecretOf(f.app)] = f.app]
    /\ handler' = [handler EXCEPT ![j].pc = "submit"]
    /\ UNCHANGED <<snap, births, connected, status, due, wf, s3, loaded, contested, stale, ops, faults>>

New(f) == [app |-> f.app, birth |-> f.birth, work |-> None, phase |-> "Pending"]

\* Workflow.apply, and what is read of it: the handler is done or is to be
\* called again.
Submit(j) ==
    LET f == handler[j]
        w == Submitted(wf[j], New(f))
        phase == PhaseOf(w)
        out == IF phase = "Completed" THEN Ready(f) ELSE NotReady(f)
    IN
    /\ f.pc = "submit"
    /\ wf' = [wf EXCEPT ![j] = w]
    /\ handler' = [handler EXCEPT ![j].pc = "write",
                                  ![j].out = [out EXCEPT !.source = f.app, !.phase = phase]]
    /\ due' = [due EXCEPT ![j] = @ \/ CalledAgain(phase)]
    /\ UNCHANGED <<snap, births, connected, status, dbpass, s3, loaded, contested, stale, ops, faults>>

WritePatch(j) ==
    /\ handler[j].pc = "write"
    /\ status' = [status EXCEPT ![j] = handler[j].out]
    /\ handler' = [handler EXCEPT ![j] = Idle]
    /\ UNCHANGED <<snap, births, connected, due, dbpass, wf, s3, loaded, contested, stale, ops, faults>>

\* A call fails, after its effect or before.
CallFails(j) ==
    LET f == handler[j] IN
    /\ f.pc \in {"secrets", "submit"}
    /\ Fail(j)
    /\ dbpass' \in IF f.pc = "secrets"
                   THEN {dbpass, [dbpass EXCEPT ![SecretOf(f.app)] = f.app]} ELSE {dbpass}
    /\ wf' \in IF f.pc = "submit"
               THEN {wf, [wf EXCEPT ![j] = Submitted(@, New(f))]} ELSE {wf}
    /\ UNCHANGED <<snap, births, connected, status, s3, loaded, contested, stale, ops>>

\* The last thing finalize does is to let the Snapshot go; the dump is kept.
Gone(n) ==
    /\ snap' = [snap EXCEPT ![n] = None]
    /\ status' = [status EXCEPT ![n] = NoStatus]
    /\ UNCHANGED <<births, connected, due, handler, dbpass, s3, loaded, contested, ops>>

CanFinalize(n) == handler[n].pc = "idle" /\ Exists(n) /\ snap[n].deleting

Finalize(n) ==
    /\ CanFinalize(n) /\ Gone(n)
    /\ wf' = [wf EXCEPT ![n] = AfterDeletion(@)]
    /\ UNCHANGED <<stale, faults>>

\* The failed deletion of a Workflow is logged.
FinalizeFails(n) ==
    /\ CanFinalize(n) /\ Gone(n)
    /\ stale' = stale \cup {n}
    /\ UNCHANGED wf

\* Frames are lost; on.resume calls every handler.
Restart ==
    /\ handler' = [j \in Jobs |-> Idle]
    /\ due' = [j \in Jobs |-> TRUE]
    /\ UNCHANGED <<snap, births, connected, status, dbpass, wf, s3, loaded, contested, stale, ops>>

----------------------------------------------------------------------------
(* Argo Workflows: the two steps of a job; a Pod that connects reads the    *)
(* password as it starts.                                                  *)

\* pg_dump, or the download of the dump.
FirstStep(j) ==
    LET w == wf[j]
        dump == IF j \in Snaps THEN [app |-> w.app, birth |-> w.birth] ELSE s3[From[j]]
        works == IF j \in Snaps THEN dbpass[NsOf[w.app]] = w.app ELSE dump # None
    IN
    /\ w # None /\ w.phase = "Pending"
    /\ wf' = [wf EXCEPT ![j] = IF works THEN [w EXCEPT !.phase = "Started", !.work = dump]
                                        ELSE [w EXCEPT !.phase = "Failed"]]
    /\ UNCHANGED <<snap, births, connected, status, due, handler, dbpass, s3, loaded, contested, stale, ops, faults>>

\* The upload of the dump, or pg_restore.
SecondStep(j) ==
    LET w == wf[j]
        works == j \in Snaps \/ dbpass[NsOf[w.app]] = w.app
    IN
    /\ w # None /\ w.phase = "Started"
    /\ wf' = [wf EXCEPT ![j].phase = IF works THEN "Succeeded" ELSE "Failed"]
    /\ s3' = IF j \in Snaps THEN [s3 EXCEPT ![j] = w.work] ELSE s3
    /\ loaded' = IF j \in Clones /\ works THEN [loaded EXCEPT ![j] = w.work] ELSE loaded
    /\ UNCHANGED <<snap, births, connected, status, due, handler, dbpass, contested, stale, ops, faults>>

\* A node or the object store fails.
PodFails(j) ==
    /\ wf[j] # None /\ wf[j].phase \in {"Pending", "Started"}
    /\ wf' = [wf EXCEPT ![j].phase = "Error"]
    /\ UNCHANGED <<snap, births, connected, status, due, handler, dbpass, s3, loaded, contested, stale, ops>>

----------------------------------------------------------------------------
(* Users *)

Create(n, a) ==
    /\ ~Exists(n)
    /\ births' = [births EXCEPT ![n] = @ + 1]
    /\ snap' = [snap EXCEPT ![n] = [app |-> a, birth |-> births'[n], deleting |-> FALSE]]
    /\ due' = [due EXCEPT ![n] = TRUE]
    /\ UNCHANGED <<connected, status, handler, dbpass, wf, s3, loaded, contested, stale, faults>>

\* spec.applicationRef is edited.
Edit(n, a) ==
    /\ Exists(n) /\ ~snap[n].deleting /\ a # snap[n].app
    /\ snap' = [snap EXCEPT ![n].app = a]
    /\ due' = [due EXCEPT ![n] = TRUE]
    /\ stale' = stale \cup {n}
    /\ UNCHANGED <<births, connected, status, handler, dbpass, wf, s3, loaded, contested, faults>>

Delete(n) ==
    /\ Exists(n) /\ ~snap[n].deleting
    /\ snap' = [snap EXCEPT ![n].deleting = TRUE]
    /\ UNCHANGED <<births, connected, status, due, handler, dbpass, wf, s3, loaded, contested, stale, faults>>

\* The Application gets a database whose server is up, or loses it.
Connect(a) ==
    /\ connected' = IF a \in connected THEN connected \ {a} ELSE connected \cup {a}
    /\ UNCHANGED <<snap, births, status, due, handler, dbpass, wf, s3, loaded, contested, stale, faults>>

----------------------------------------------------------------------------
Handle(j) ==
    \/ Begin(j) \/ EnsureSecrets(j) \/ Submit(j) \/ WritePatch(j)
    \/ j \in Snaps /\ Finalize(j)

Pod(j) == FirstStep(j) \/ SecondStep(j)

Fault ==
    /\ faults < MaxFaults /\ faults' = faults + 1
    /\ \/ Restart
       \/ \E j \in Jobs : CallFails(j) \/ PodFails(j)
       \/ \E n \in Snaps : FinalizeFails(n)

User ==
    /\ ops < MaxOps /\ ops' = ops + 1
    /\ \/ \E n \in Snaps, a \in Sources : Create(n, a)
       \/ \E n \in Changing : Delete(n) \/ \E a \in Sources : Edit(n, a)
       \/ \E a \in Moving : Connect(a)

Init ==
    /\ snap = [n \in Snaps |-> None] /\ births = [n \in Snaps |-> 0] /\ connected = Apps
    /\ status = [j \in Jobs |-> NoStatus] /\ due = [j \in Jobs |-> j \in Clones]
    /\ handler = [j \in Jobs |-> Idle] /\ dbpass = [n \in Namespaces |-> None]
    /\ wf = [j \in Jobs |-> None] /\ s3 = [n \in Snaps |-> None]
    /\ loaded = [c \in Clones |-> None] /\ contested = {} /\ stale = {}
    /\ ops = 0 /\ faults = 0

Next == User \/ Fault \/ \E j \in Jobs : Handle(j) \/ Pod(j)

\* Kopf calls the handlers, and Argo runs the Pods of a Workflow: each of the
\* two goes on whatever the other does.
Spec ==
    /\ Init /\ [][Next]_snapshotVars
    /\ \A j \in Jobs : WF_snapshotVars(Handle(j)) /\ WF_snapshotVars(Pod(j))

----------------------------------------------------------------------------
\* Every variable has its type.
TypeOK ==
    /\ snap \in [Snaps -> Snapshot \cup {None}] /\ births \in [Snaps -> 0 .. MaxOps]
    /\ connected \subseteq Apps
    /\ status \in [Jobs -> Status] /\ due \in [Jobs -> BOOLEAN]
    /\ handler \in [Jobs -> Frame] /\ dbpass \in [Namespaces -> Apps \cup {None}]
    /\ wf \in [Jobs -> Workflow \cup {None}] /\ s3 \in [Snaps -> Dump \cup {None}]
    /\ loaded \in [Clones -> Dump \cup {None}]
    /\ contested \subseteq Namespaces /\ stale \subseteq Snaps
    /\ ops \in 0 .. MaxOps /\ faults \in 0 .. MaxFaults

\* A Snapshot that is Completed has a dump in the object
\* store, of the application its status names and made since it was created:
\* neither an earlier Snapshot of its name nor that one's Workflow passes for
\* it.  An edit of applicationRef does not start a new dump (the Workflow of
\* the Snapshot's name is already there), and a Workflow that finalize could
\* not delete is found by the next Snapshot of the name.
CompletedMeansDumped ==
    /\ TypeOK
    /\ \A n \in Snaps :
          Exists(n) /\ status[n].phase = "Completed" /\ n \notin stale
              => s3[n] = [app |-> status[n].source, birth |-> snap[n].birth]

\* An application whose restore is recorded as done had a dump loaded, and not
\* one older than the Snapshot it looked at, although the dump is found by the
\* Snapshot's name alone.
RestoredMeansLoaded ==
    \A c \in Clones :
        status[c].phase = "Completed"
            => loaded[c] # None /\ (From[c] \in stale \/ loaded[c].birth >= wf[c].birth)

\* A job fails for a wrong password only if a job for another application of
\* the same namespace met it (another object's, or its own before an edit): they
\* share the password's Secret.
FailedMeansContested ==
    \A j \in Jobs :
        wf[j] # None /\ wf[j].phase = "Failed" => NsOf[wf[j].app] \in contested

\* A Snapshot is of one point in time: once it is Completed its dump stays
\* as it is and is not made again, whatever retries, restarts, edits and deletions follow, until
\* another Snapshot of its name is created.
DumpStays ==
    [][\A n \in Snaps :
          Exists(n) /\ status[n].phase = "Completed"
              => s3'[n] = s3[n] /\ wf'[n] \in {wf[n], None}]_snapshotVars

Wanted(j) ==
    /\ j \in Snaps => Exists(j) /\ ~snap[j].deleting /\ snap[j].app \in connected
    /\ j \in Clones => j \in connected /\ Usable(From[j])
    /\ wf[j] # None => wf[j].phase \notin {"Failed", "Error"}

Completed(j) ==
    /\ status[j].phase = "Completed" /\ status[j].ready

\* A Snapshot that stays, with its application's database reachable, is
\* Completed in the end, and a restore of a Completed Snapshot is done, unless
\* its Workflow failed, which no retry submits again: failed calls and restarts
\* only delay them.
EventuallyCompleted == \A j \in Jobs : <>[]Wanted(j) => <>[]Completed(j)

----------------------------------------------------------------------------
(* Why they hold: an inductive invariant, proved in SnapshotJobsProofs     *)

Busy(j) == handler[j].pc # "idle"
Preparing(j) == handler[j].pc \in {"secrets", "submit"}
Has(j, phases) == wf[j] # None /\ wf[j].phase \in phases

\* A status that is Completed, or is going to be, is its Workflow's.
Reported(j, st) ==
    st.phase = "Completed" =>
        Has(j, {"Succeeded"}) /\ (j \notin stale => st.source = wf[j].app)

JobInv(j) ==
    /\ Reported(j, status[j])
    /\ Busy(j) => /\ handler[j].app \in Apps /\ handler[j].birth \in 1 .. MaxOps
                  /\ Reported(j, handler[j].out)

\* The handler and the Workflow of a Snapshot, and at last its dump, are of
\* one birth and of one application.
SnapInv(n) ==
    /\ births[n] <= ops
    /\ Exists(n) => snap[n].birth = births[n]
    /\ ~Exists(n) => status[n] = NoStatus /\ ~Busy(n)
    /\ Busy(n) => handler[n].birth = births[n] /\ (n \notin stale => handler[n].app = snap[n].app)
    /\ s3[n] # None => s3[n].birth <= births[n]
    /\ wf[n] # None =>
         /\ wf[n].birth <= births[n]
         /\ n \notin stale => /\ Exists(n) /\ wf[n].app = snap[n].app
                              /\ wf[n].birth = births[n]
    /\ Has(n, {"Started", "Succeeded"}) =>
         wf[n].work = [app |-> wf[n].app, birth |-> wf[n].birth]
    /\ Has(n, {"Succeeded"}) => s3[n] = wf[n].work

\* The dump that a restore found is there for good, and only newer ones
\* replace it.
Since(c, birth, dump) == dump # None /\ (From[c] \notin stale => birth <= dump.birth)

CloneInv(c) ==
    /\ Busy(c) => handler[c].app = c
    /\ Preparing(c) => Since(c, handler[c].birth, s3[From[c]])
    /\ wf[c] # None => wf[c].app = c /\ Since(c, wf[c].birth, s3[From[c]])
    /\ Has(c, {"Started", "Succeeded"}) => Since(c, wf[c].birth, wf[c].work)
    /\ Has(c, {"Succeeded"}) => loaded[c] = wf[c].work

\* The Application whose password a job has had copied.
Copied(j) ==
    (IF handler[j].pc = "submit" THEN {handler[j].app} ELSE {})
    \cup (IF Has(j, {"Pending", "Started"}) THEN {wf[j].app} ELSE {})

\* Where no two jobs have met, the Secret is as it was copied.
PassInv ==
    /\ \A i, j \in Jobs : \A a \in Using(i), b \in Using(j) :
         NsOf[a] = NsOf[b] => a = b \/ NsOf[a] \in contested
    /\ \A j \in Jobs : \A a \in Copied(j) :
         dbpass[NsOf[a]] = a \/ NsOf[a] \in contested
    /\ FailedMeansContested

SnapshotInv ==
    /\ TypeOK /\ PassInv
    /\ \A j \in Jobs : JobInv(j)
    /\ \A n \in Snaps : SnapInv(n)
    /\ \A c \in Clones : CloneInv(c)
=============================================================================
