---------------------- MODULE ApplicationEngineProofs ----------------------
(***************************************************************************)
(* Proofs about ApplicationEngine, for every set of refs, tags and         *)
(* Snapshots, every function TagOf, every bound on generations and every   *)
(* number of faults.                                                       *)
(*                                                                         *)
(* The argument: TypeOK is inductive by itself; on top of it each part of  *)
(* EngineInv is preserved by every step, and the safety properties and the *)
(* refinement of ReleaseContract follow from EngineInv.                    *)
(***************************************************************************)
EXTENDS ApplicationEngine, TLAPS

----------------------------------------------------------------------------
(* Type correctness *)

LEMMA MarkedType ==
  ASSUME NEW out \in Status, NEW g \in 0 .. MaxGen, NEW r \in BOOLEAN
  PROVE  [out EXCEPT !.ready = r, !.observed = g] \in Status
  BY DEF Status

LEMMA FailType ==
  ASSUME run \in Frame, NEW out \in Status, Fail(out)
  PROVE  run' \in Frame
<1>1. run.gen \in 0 .. MaxGen
  BY DEF Frame
<1>2. [out EXCEPT !.ready = FALSE, !.observed = run.gen] \in Status
  BY <1>1, MarkedType
<1> QED BY <1>2 DEF Fail, Frame

LEMMA FrameFields ==
  ASSUME TypeOK
  PROVE  /\ run.want \in Spec_ /\ run.gen \in 0 .. MaxGen
         /\ run.image \in Tags \cup {None} /\ run.out \in Status
         /\ gen \in 0 .. MaxGen
  BY EngineAssumption DEF TypeOK, Frame, EngineAssumption

LEMMA TypeInit == Init => TypeOK
<1> SUFFICES ASSUME Init PROVE TypeOK
  OBVIOUS
<1>1. spec \in Spec_ /\ gen \in 1 .. MaxGen /\ 0 \in 0 .. MaxGen
      /\ faults \in 0 .. MaxFaults
  BY EngineAssumption DEF Init, EngineAssumption
<1>2. NoStatus \in Status
  BY <1>1 DEF NoStatus, Status, Phases
<1>3. run \in Frame
  BY <1>1, <1>2 DEF Init, Frame
<1>4. build \in [Tags -> Builds] /\ image \in [Tags -> Refs \cup {None}]
      /\ restore \in [Snaps -> Restores]
  BY DEF Init, Builds, Restores, NoBuild, NoRestore
<1> QED
  BY <1>1, <1>2, <1>3, <1>4 DEF Init, TypeOK

LEMMA BeginType == ASSUME TypeOK, Begin PROVE TypeOK'
<1>1. gen \in 0 .. MaxGen
  BY FrameFields
<1>2. [status EXCEPT !.ready = FALSE, !.observed = gen] \in Status
  BY <1>1, MarkedType DEF TypeOK
<1>3. run' \in Frame
  <2>1. CASE resolvable
    BY <1>1, <2>1 DEF TypeOK, Begin, Frame
  <2>2. CASE ~resolvable
    BY <1>1, <1>2, <2>2 DEF TypeOK, Begin, Frame
  <2> QED BY <2>1, <2>2 DEF TypeOK
<1> QED BY <1>3 DEF TypeOK, Begin, resourceVars, clusterVars

LEMMA SubmittedType ==
  ASSUME build \in [Tags -> Builds], NEW ref \in Refs
  PROVE  Submitted(ref) \in [Tags -> Builds]
<1>1. [phase |-> "Running", ref |-> ref] \in Builds
  BY DEF Builds
<1> QED BY <1>1 DEF Submitted

LEMMA RenderedType == ASSUME TypeOK PROVE Rendered \in Releases
  BY FrameFields DEF Rendered, Releases, TypeOK, Frame, Spec_

LEMMA BuildGateType == ASSUME TypeOK, BuildGate PROVE TypeOK'
<1> USE FrameFields
<1>1. CASE run.want.ref = None
  <2>1. run' \in Frame
    BY <1>1 DEF TypeOK, BuildGate, Goto, Frame
  <2> QED BY <1>1, <2>1 DEF TypeOK, BuildGate, resourceVars
<1>2. CASE run.want.ref # None
  <2> DEFINE tag == TagOf[run.want.ref]
             out == [run.out EXCEPT !.buildWorkflow = tag]
  <2>1. run.want.ref \in Refs /\ tag \in Tags
    BY <1>2, EngineAssumption DEF Spec_, EngineAssumption
  <2>2. build' \in [Tags -> Builds]
    BY <1>2, <2>1, SubmittedType DEF TypeOK, BuildGate
  <2>3. /\ out \in Status
        /\ [out EXCEPT !.phase = "BuildFailed"] \in Status
        /\ [out EXCEPT !.phase = "Building"] \in Status
    BY <2>1 DEF Status, Phases
  <2>4. run' \in Frame
    <3>1. CASE run' = [run EXCEPT !.pc = "restore", !.image = tag, !.out = out]
      BY <2>1, <2>3, <3>1 DEF TypeOK, Frame
    <3>2. CASE Fail([out EXCEPT !.phase = "BuildFailed"])
      BY <2>3, <3>2, FailType DEF TypeOK
    <3>3. CASE Fail([out EXCEPT !.phase = "Building"])
      BY <2>3, <3>3, FailType DEF TypeOK
    <3> QED BY <1>2, <3>1, <3>2, <3>3 DEF BuildGate
  <2> QED BY <2>2, <2>4 DEF TypeOK, BuildGate, resourceVars
<1> QED BY <1>1, <1>2

LEMMA RestoreGateType == ASSUME TypeOK, RestoreGate PROVE TypeOK'
<1> USE FrameFields
<1>1. CASE RestoreSkipped(run.want, run.out)
  <2>1. run' \in Frame
    BY <1>1 DEF TypeOK, RestoreGate, Goto, Frame
  <2> QED BY <1>1, <2>1 DEF TypeOK, RestoreGate, resourceVars
<1>2. CASE ~RestoreSkipped(run.want, run.out)
  <2> DEFINE s   == run.want.restore.snap
             out == [run.out EXCEPT !.restoreWorkflow = s]
  <2>1. s \in Snaps /\ run.want.restore.sanitize \in BOOLEAN
    BY <1>2 DEF RestoreSkipped, Spec_, RestoreFrom
  <2>2. restore' \in [Snaps -> Restores]
    BY <1>2, <2>1 DEF TypeOK, RestoreGate, Restores
  <2>3. /\ out \in Status
        /\ [out EXCEPT !.restoredFrom = s] \in Status
        /\ [out EXCEPT !.phase = "RestoreFailed"] \in Status
        /\ [out EXCEPT !.phase = "Restoring"] \in Status
    BY <2>1 DEF Status, Phases
  <2>4. run' \in Frame
    <3>1. CASE run' = [run EXCEPT !.pc = "sso",
                         !.out = [out EXCEPT !.restoredFrom = s]]
      BY <2>3, <3>1 DEF TypeOK, Frame
    <3>2. CASE Fail([out EXCEPT !.phase = "RestoreFailed"])
      BY <2>3, <3>2, FailType DEF TypeOK
    <3>3. CASE Fail([out EXCEPT !.phase = "Restoring"])
      BY <2>3, <3>3, FailType DEF TypeOK
    <3>4. CASE Fail(run.out)
      BY <3>4, FailType DEF TypeOK
    <3> QED BY <1>2, <3>1, <3>2, <3>3, <3>4 DEF RestoreGate
  <2> QED BY <2>2, <2>4 DEF TypeOK, RestoreGate, resourceVars
<1> QED BY <1>1, <1>2

LEMMA ApplyArgoType == ASSUME TypeOK, ApplyArgo PROVE TypeOK'
<1> DEFINE ready == SsoReady(run.want, run.oidc)
           out   == Applied(run.out, run.image, ready)
<1>1. out \in Status
  BY FrameFields DEF Applied, AppliedPhase, Status, Phases
<1>2. run' \in Frame
  <2>1. CASE ~ready
    BY <1>1, <2>1, FailType DEF TypeOK, ApplyArgo
  <2>2. CASE ready
    <3>1. [out EXCEPT !.ready = TRUE, !.observed = run.gen] \in Status
      BY <1>1, FrameFields, MarkedType
    <3> QED BY <2>2, <3>1 DEF TypeOK, ApplyArgo, Frame
  <2> QED BY <2>1, <2>2
<1>3. argo' \in Releases
  BY RenderedType DEF ApplyArgo
<1> QED BY <1>2, <1>3 DEF TypeOK, ApplyArgo, resourceVars, clusterVars

LEMMA FinalizeType == ASSUME TypeOK, Finalize PROVE TypeOK'
<1>1. build' \in [Tags -> Builds] /\ restore' \in [Snaps -> Restores]
  BY DEF TypeOK, Finalize, Builds, Restores, NoBuild, NoRestore
<1>2. argo' \in Releases \cup {None}
  BY DEF TypeOK, Finalize
<1>3. faults' \in 0 .. MaxFaults
  BY EngineAssumption DEF TypeOK, Finalize, EngineAssumption
<1> QED BY <1>1, <1>2, <1>3 DEF TypeOK, Finalize

LEMMA DataType ==
  ASSUME NEW d \in Snaps \cup {None, "own", "mixed"}, NEW c \in BOOLEAN
  PROVE  [data |-> d, clean |-> c] \in
            [data : Snaps \cup {None, "own", "mixed"}, clean : BOOLEAN]
  OBVIOUS

LEMMA TypeNext == TypeOK /\ [Next]_vars => TypeOK'
<1> SUFFICES ASSUME TypeOK, [Next]_vars PROVE TypeOK'
  OBVIOUS
<1>1. CASE ReadSso
  <2>1. run' \in Frame
    BY <1>1, FrameFields DEF TypeOK, ReadSso, Frame, Spec_
  <2> QED BY <1>1, <2>1 DEF TypeOK, ReadSso, resourceVars, clusterVars
<1>2. CASE WritePatch
  <2>1. run' \in Frame /\ status' \in Status /\ due' \in BOOLEAN
    BY <1>2, FrameFields DEF TypeOK, WritePatch, Frame, CalledAgain
  <2> QED BY <1>2, <2>1 DEF TypeOK, WritePatch, resourceVars, clusterVars
<1>3. CASE BackendError
  <2>1. run' \in Frame
    <3>1. CASE Fail(run.out)
      BY <3>1, FrameFields, FailType DEF TypeOK
    <3>2. CASE run' = [run EXCEPT !.pc = "patch", !.again = TRUE]
      BY <3>2 DEF TypeOK, Frame
    <3> QED BY <1>3, <3>1, <3>2 DEF BackendError
  <2>2. faults' \in 0 .. MaxFaults
    BY <1>3, EngineAssumption DEF TypeOK, BackendError, EngineAssumption
  <2>3. /\ build' \in [Tags -> Builds] /\ restore' = restore
        /\ argo' \in Releases \cup {None}
    <3>1. CASE UNCHANGED <<build, restore, argo>>
      BY <3>1 DEF TypeOK
    <3>2. CASE /\ run.want.ref # None /\ build' = Submitted(run.want.ref)
               /\ UNCHANGED <<restore, argo>>
      <4>1. run.want.ref \in Refs
        BY <3>2, FrameFields DEF Spec_
      <4> QED BY <3>2, <4>1, SubmittedType DEF TypeOK
    <3>3. CASE argo' = Rendered /\ UNCHANGED <<build, restore>>
      BY <3>3, RenderedType DEF TypeOK
    <3> QED BY <1>3, <3>1, <3>2, <3>3 DEF BackendError
  <2> QED BY <1>3, <2>1, <2>2, <2>3 DEF TypeOK, BackendError, resourceVars
<1>4. CASE Crash
  <2>1. run' \in Frame
    BY <1>4 DEF TypeOK, Crash, Frame
  <2>2. faults' \in 0 .. MaxFaults
    BY <1>4, EngineAssumption DEF TypeOK, Crash, EngineAssumption
  <2> QED BY <1>4, <2>1, <2>2 DEF TypeOK, Crash, resourceVars, clusterVars
<1>5. ASSUME NEW t \in Tags, BuildEnds(t) PROVE TypeOK'
  <2>1. build' \in [Tags -> Builds] /\ image' \in [Tags -> Refs \cup {None}]
    BY <1>5 DEF TypeOK, BuildEnds, Builds
  <2> QED BY <1>5, <2>1 DEF TypeOK, BuildEnds, resourceVars
<1>6. ASSUME NEW s \in Snaps, RestoreLoads(s) PROVE TypeOK'
  <2>1. restore' \in [Snaps -> Restores]
    BY <1>6 DEF TypeOK, RestoreLoads, Restores
  <2>2. db' \in [data : Snaps \cup {None, "own", "mixed"}, clean : BOOLEAN]
    <3>1. \/ db' = db \/ db' = [data |-> s, clean |-> FALSE]
          \/ db' = [data |-> "mixed", clean |-> FALSE]
      BY <1>6 DEF RestoreLoads
    <3> QED BY <3>1, DataType DEF TypeOK
  <2> QED BY <1>6, <2>1, <2>2 DEF TypeOK, RestoreLoads, resourceVars
<1>7. ASSUME NEW s \in Snaps, RestoreEnds(s) PROVE TypeOK'
  <2>1. restore' \in [Snaps -> Restores]
    BY <1>7 DEF TypeOK, RestoreEnds, Restores
  <2>2. db' \in [data : Snaps \cup {None, "own", "mixed"}, clean : BOOLEAN]
    BY <1>7 DEF TypeOK, RestoreEnds
  <2> QED BY <1>7, <2>1, <2>2 DEF TypeOK, RestoreEnds, resourceVars
<1>8. CASE ChartDeliversDatabase \/ ChartSyncsSso
  BY <1>8 DEF TypeOK, ChartDeliversDatabase, ChartSyncsSso, resourceVars
<1>18. CASE AppBoots
  <2>1. db' = [data |-> "own", clean |-> TRUE]
    BY <1>18 DEF AppBoots
  <2>2. db' \in [data : Snaps \cup {None, "own", "mixed"}, clean : BOOLEAN]
    BY <2>1, DataType
  <2> QED BY <1>18, <2>2 DEF TypeOK, AppBoots, resourceVars
<1>9. CASE EditSpec
  <2>1. spec' \in Spec_ /\ gen' \in 1 .. MaxGen
    BY <1>9, EngineAssumption DEF TypeOK, EditSpec, EngineAssumption
  <2>2. UNCHANGED <<life, status, run, resolvable, clusterVars, argo, faults>>
        /\ due' = TRUE
    BY <1>9 DEF EditSpec
  <2> QED BY <2>1, <2>2 DEF TypeOK, clusterVars
<1>10. CASE Delete \/ ParentsAppear
  BY <1>10 DEF TypeOK, Delete, ParentsAppear, resourceVars, clusterVars
<1>11. ASSUME NEW s \in Snaps, SnapshotCompletes(s) PROVE TypeOK'
  BY <1>11 DEF TypeOK, SnapshotCompletes, resourceVars
<1>12. CASE UNCHANGED vars
  BY <1>12 DEF TypeOK, vars
<1>13. CASE Begin
  BY <1>13, BeginType
<1>14. CASE BuildGate
  BY <1>14, BuildGateType
<1>15. CASE RestoreGate
  BY <1>15, RestoreGateType
<1>16. CASE ApplyArgo
  BY <1>16, ApplyArgoType
<1>17. CASE Finalize
  BY <1>17, FinalizeType
<1> QED
  BY <1>1, <1>2, <1>3, <1>4, <1>5, <1>6, <1>7, <1>8, <1>9, <1>10, <1>11, <1>12,
     <1>13, <1>14, <1>15, <1>16, <1>17, <1>18
  DEF Next, Handler, Cluster, User

\* Every variable keeps to the values it is declared for, in particular the
\* status fields to the phases of the CRD.
THEOREM EngineTypeCorrect == Spec => []TypeOK
  BY TypeInit, TypeNext, PTL DEF Spec

----------------------------------------------------------------------------
(* What each step of the handler does to the frame, in the terms of the     *)
(* invariant.                                                               *)

SameCall  == run'.want = run.want /\ run'.gen = run.gen
SameNames == /\ run'.out.restoredFrom = run.out.restoredFrom
             /\ run'.out.argoApplication = run.out.argoApplication
SameMark  == /\ run'.out.ready = run.out.ready
             /\ run'.out.observed = run.out.observed
Waits     == /\ run'.pc = "patch" /\ run'.again = TRUE
             /\ run'.out.ready = FALSE /\ run'.out.observed = run.gen

LEMMA FailEffect ==
  ASSUME TypeOK, NEW out \in Status, Fail(out)
  PROVE  /\ Waits /\ SameCall /\ run'.image = run.image
         /\ run'.out.restoredFrom = out.restoredFrom
         /\ run'.out.argoApplication = out.argoApplication
<1> DEFINE o == [out EXCEPT !.ready = FALSE, !.observed = run.gen]
<1>1. o.ready = FALSE /\ o.observed = run.gen
      /\ o.restoredFrom = out.restoredFrom
      /\ o.argoApplication = out.argoApplication
  BY DEF Status
<1>2. run' = [run EXCEPT !.pc = "patch", !.again = TRUE, !.out = o]
  BY DEF Fail
<1>3. run'.pc = "patch" /\ run'.again = TRUE /\ run'.out = o
      /\ run'.want = run.want /\ run'.gen = run.gen /\ run'.image = run.image
  BY <1>2 DEF TypeOK, Frame
<1> QED BY <1>1, <1>3 DEF Waits, SameCall

LEMMA GotoEffect ==
  ASSUME TypeOK, NEW pc \in {"restore", "sso"}, Goto(pc)
  PROVE  /\ run'.pc = pc /\ SameCall /\ SameNames /\ SameMark
         /\ run'.image = run.image
  BY DEF TypeOK, Frame, Goto, SameCall, SameNames, SameMark

LEMMA BeginEffect ==
  ASSUME TypeOK, Begin
  PROVE  /\ run.pc = "idle" /\ life = "live" /\ due
         /\ run'.want = spec /\ run'.gen = gen /\ run'.image = None
         /\ run'.out.restoredFrom = status.restoredFrom
         /\ run'.out.argoApplication = status.argoApplication
         /\ \/ run'.pc = "build" /\ run'.out.ready = status.ready
                                 /\ run'.out.observed = status.observed
            \/ /\ run'.pc = "patch" /\ run'.again = TRUE
               /\ run'.out.ready = FALSE /\ run'.out.observed = gen
<1> DEFINE o == IF resolvable THEN status
                ELSE [status EXCEPT !.ready = FALSE, !.observed = gen]
<1>1. /\ o.restoredFrom = status.restoredFrom
      /\ o.argoApplication = status.argoApplication
      /\ resolvable => o = status
      /\ ~resolvable => o.ready = FALSE /\ o.observed = gen
  BY DEF TypeOK, Status
<1>2. run' = [run EXCEPT !.pc = IF resolvable THEN "build" ELSE "patch",
                !.want = spec, !.gen = gen, !.image = None, !.oidc = FALSE,
                !.again = ~resolvable, !.out = o]
  BY DEF Begin
<1>3. /\ run'.pc = (IF resolvable THEN "build" ELSE "patch")
      /\ run'.want = spec /\ run'.gen = gen /\ run'.image = None
      /\ run'.again = ~resolvable /\ run'.out = o
  BY <1>2 DEF TypeOK, Frame
<1> QED BY <1>1, <1>3 DEF Begin, TypeOK

\* What passing the build gate means.
LEMMA BuildGateEffect ==
  ASSUME TypeOK, BuildGate
  PROVE  /\ SameCall /\ SameNames
         /\ \/ /\ run'.pc = "restore" /\ SameMark
               /\ \/ run.want.ref = None /\ run'.image = run.image
                  \/ /\ run.want.ref # None
                     /\ run'.image = TagOf[run.want.ref]
                     /\ run'.image \in Tags
                     /\ build'[run'.image].phase = "Succeeded"
            \/ Waits
<1> USE FrameFields
<1>1. CASE run.want.ref = None
  <2>1. Goto("restore")
    BY <1>1 DEF BuildGate
  <2> QED BY <1>1, <2>1, GotoEffect
<1>2. CASE run.want.ref # None
  <2> DEFINE tag == TagOf[run.want.ref]
             out == [run.out EXCEPT !.buildWorkflow = tag]
  <2>1. tag \in Tags
    BY <1>2, EngineAssumption DEF Spec_, EngineAssumption
  <2>2. /\ out \in Status /\ out.restoredFrom = run.out.restoredFrom
        /\ out.argoApplication = run.out.argoApplication
        /\ out.ready = run.out.ready /\ out.observed = run.out.observed
    BY <2>1 DEF Status
  <2>3. ASSUME NEW phase \in Phases, Fail([out EXCEPT !.phase = phase])
        PROVE  Waits /\ SameCall /\ SameNames
    <3> DEFINE f == [out EXCEPT !.phase = phase]
    <3>1. /\ f \in Status /\ f.restoredFrom = out.restoredFrom
          /\ f.argoApplication = out.argoApplication
      BY <2>2 DEF Status
    <3> HIDE DEF out
    <3> QED BY <2>2, <2>3, <3>1, FailEffect DEF SameNames
  <2>4. CASE /\ BuildDone(build'[tag].phase)
             /\ run' = [run EXCEPT !.pc = "restore", !.image = tag, !.out = out]
    <3>1. /\ run'.pc = "restore" /\ run'.image = tag /\ run'.out = out
          /\ run'.want = run.want /\ run'.gen = run.gen
      BY <2>4 DEF TypeOK, Frame
    <3> QED BY <1>2, <2>1, <2>2, <2>4, <3>1
            DEF SameCall, SameNames, SameMark, BuildDone
  <2>5. "BuildFailed" \in Phases /\ "Building" \in Phases
    BY DEF Phases
  <2> QED BY <1>2, <2>3, <2>4, <2>5 DEF BuildGate
<1> QED BY <1>1, <1>2

\* What passing the restore gate means.
LEMMA RestoreGateEffect ==
  ASSUME TypeOK, RestoreGate
  PROVE  /\ SameCall /\ run'.image = run.image
         /\ run'.out.argoApplication = run.out.argoApplication
         /\ \/ run'.out.restoredFrom = run.out.restoredFrom
            \/ /\ run.want.restore # None
               /\ run'.out.restoredFrom = run.want.restore.snap
               /\ run.want.restore.snap \in Snaps
               /\ restore'[run.want.restore.snap].phase = "Succeeded"
               /\ run'.pc = "sso"
         /\ \/ run'.pc = "sso" /\ SameMark /\ Restored(run.want, run'.out)
            \/ Waits
<1> USE FrameFields
<1>1. CASE RestoreSkipped(run.want, run.out)
  <2>1. Goto("sso")
    BY <1>1 DEF RestoreGate
  <2> QED BY <1>1, <2>1, GotoEffect DEF SameNames, RestoreSkipped, Restored
<1>2. CASE ~RestoreSkipped(run.want, run.out)
  <2> DEFINE s   == run.want.restore.snap
             out == [run.out EXCEPT !.restoreWorkflow = s]
  <2>1. s \in Snaps /\ run.want.restore # None
    BY <1>2 DEF RestoreSkipped, Spec_, RestoreFrom
  <2>2. /\ out \in Status /\ out.restoredFrom = run.out.restoredFrom
        /\ out.argoApplication = run.out.argoApplication
        /\ out.ready = run.out.ready /\ out.observed = run.out.observed
    BY <2>1 DEF Status
  <2>3. ASSUME NEW phase \in Phases, Fail([out EXCEPT !.phase = phase])
        PROVE  /\ Waits /\ SameCall /\ SameNames /\ run'.image = run.image
    <3> DEFINE f == [out EXCEPT !.phase = phase]
    <3>1. /\ f \in Status /\ f.restoredFrom = out.restoredFrom
          /\ f.argoApplication = out.argoApplication
      BY <2>2 DEF Status
    <3> HIDE DEF out
    <3> QED BY <2>2, <2>3, <3>1, FailEffect DEF SameNames
  <2>4. CASE Fail(run.out)
    BY <2>4, FailEffect
  <2>5. CASE /\ RestoreDone(restore'[s].phase)
             /\ run' = [run EXCEPT !.pc = "sso",
                          !.out = [out EXCEPT !.restoredFrom = s]]
    <3> DEFINE o == [out EXCEPT !.restoredFrom = s]
    <3>1. /\ o.restoredFrom = s /\ o.argoApplication = run.out.argoApplication
          /\ o.ready = run.out.ready /\ o.observed = run.out.observed
      BY <2>1, <2>2 DEF Status
    <3>2. /\ run'.pc = "sso" /\ run'.image = run.image /\ run'.out = o
          /\ run'.want = run.want /\ run'.gen = run.gen
      BY <2>5 DEF TypeOK, Frame
    <3> QED BY <2>1, <2>5, <3>1, <3>2
            DEF SameCall, SameMark, Restored, RestoreDone
  <2>6. "RestoreFailed" \in Phases /\ "Restoring" \in Phases
    BY DEF Phases
  <2> QED BY <1>2, <2>3, <2>4, <2>5, <2>6 DEF RestoreGate, SameNames
<1> QED BY <1>1, <1>2

LEMMA ReadSsoEffect ==
  ASSUME TypeOK, ReadSso
  PROVE  /\ run'.pc = "apply" /\ SameCall /\ SameNames /\ SameMark
         /\ run'.image = run.image
  BY DEF TypeOK, Frame, ReadSso, SameCall, SameNames, SameMark

\* What is rendered and reported by the last step of the handler.
LEMMA ApplyArgoEffect ==
  ASSUME TypeOK, ApplyArgo
  PROVE  /\ SameCall /\ run'.pc = "patch"
         /\ run'.out.restoredFrom = run.out.restoredFrom
         /\ run'.out.argoApplication = TRUE
         /\ argo' # None /\ argo'.image = run.image
         /\ argo'.sso = run.want.sso /\ argo'.oidc = run.oidc
         /\ \/ /\ run'.again = FALSE /\ run'.out.ready = TRUE
               /\ run'.out.observed = run.gen
               /\ run.want.sso => run.oidc
            \/ Waits
<1> DEFINE ready == SsoReady(run.want, run.oidc)
           out   == Applied(run.out, run.image, ready)
<1>1. /\ out \in Status /\ out.restoredFrom = run.out.restoredFrom
      /\ out.argoApplication = TRUE
  BY FrameFields DEF Applied, AppliedPhase, Status, Phases
<1>2. /\ argo' # None /\ argo'.image = run.image
      /\ argo'.sso = run.want.sso /\ argo'.oidc = run.oidc
  BY RenderedType, EngineAssumption DEF ApplyArgo, Rendered, EngineAssumption
<1>3. CASE Fail(out)
  <2> HIDE DEF out
  <2> QED BY <1>1, <1>2, <1>3, FailEffect DEF Waits
<1>4. CASE /\ ready
           /\ run' = [run EXCEPT !.pc = "patch", !.again = FALSE,
                        !.out = [out EXCEPT !.ready = TRUE,
                                            !.observed = run.gen]]
  <2> DEFINE o == [out EXCEPT !.ready = TRUE, !.observed = run.gen]
  <2>1. /\ o.ready = TRUE /\ o.observed = run.gen /\ o.argoApplication = TRUE
        /\ o.restoredFrom = run.out.restoredFrom
    BY <1>1 DEF Status
  <2>2. /\ run'.pc = "patch" /\ run'.again = FALSE /\ run'.out = o
        /\ run'.want = run.want /\ run'.gen = run.gen
    BY <1>4 DEF TypeOK, Frame
  <2> QED BY <1>2, <1>4, <2>1, <2>2 DEF SameCall, SsoReady
<1> QED BY <1>3, <1>4 DEF ApplyArgo

LEMMA BackendErrorEffect ==
  ASSUME TypeOK, BackendError
  PROVE  /\ run.pc \in {"build", "restore", "sso", "apply"} /\ faults' # 0
         /\ SameCall /\ SameNames /\ run'.image = run.image
         /\ run'.pc = "patch" /\ run'.again = TRUE
         /\ SameMark \/ Waits
         /\ \/ UNCHANGED <<build, restore, argo>>
            \/ /\ run.want.ref \in Refs /\ build' = Submitted(run.want.ref)
               /\ UNCHANGED <<restore, argo>>
            \/ /\ run.pc = "apply" /\ argo' # None /\ argo'.image = run.image
               /\ argo'.sso = run.want.sso /\ UNCHANGED <<build, restore>>
<1>1. /\ SameCall /\ SameNames /\ run'.image = run.image
      /\ run'.pc = "patch" /\ run'.again = TRUE /\ (SameMark \/ Waits)
  <2>1. CASE Fail(run.out)
    BY <2>1, FrameFields, FailEffect DEF SameNames, Waits
  <2>2. CASE run' = [run EXCEPT !.pc = "patch", !.again = TRUE]
    BY <2>2 DEF TypeOK, Frame, SameCall, SameNames, SameMark
  <2> QED BY <2>1, <2>2 DEF BackendError
<1>2. faults' # 0
  BY EngineAssumption DEF BackendError, TypeOK, EngineAssumption
<1>3. argo' = Rendered =>
        /\ argo' # None /\ argo'.image = run.image /\ argo'.sso = run.want.sso
  BY RenderedType, EngineAssumption DEF Rendered, EngineAssumption
<1>4. run.want.ref # None => run.want.ref \in Refs
  BY FrameFields DEF Spec_
<1> QED BY <1>1, <1>2, <1>3, <1>4 DEF BackendError

----------------------------------------------------------------------------
(* The parts of the inductive invariant, one lemma each: one step per      *)
(* action that can disturb the part, one for all the others.               *)

LEMMA BuiltInit == Init => BuiltInv
  BY DEF Init, BuiltInv, NoBuild, DeployedImageIsBuilt

LEMMA BuiltNext ==
  ASSUME TypeOK, BuiltInv, [Next]_vars
  PROVE  BuiltInv'
<1>1. CASE Begin
  BY <1>1, BeginEffect
  DEF BuiltInv, DeployedImageIsBuilt, Begin, clusterVars
<1>2. ASSUME NEW ref \in Refs, build' = Submitted(ref)
      PROVE  /\ \A t \in Tags : build'[t].phase = "Running" =>
                                  build'[t].ref \in Refs
             /\ \A t \in Tags : build'[t].phase = "Succeeded" =>
                                  build[t].phase = "Succeeded"
  BY <1>2 DEF BuiltInv, TypeOK, Submitted
<1>3. CASE BuildGate
  <2>1. UNCHANGED <<image, argo>>
    BY <1>3 DEF BuildGate
  <2>2. \/ run.want.ref = None /\ build' = build
        \/ run.want.ref \in Refs /\ build' = Submitted(run.want.ref)
    BY <1>3, FrameFields DEF BuildGate, Spec_
  <2>3. run.image = None
    BY <1>3 DEF BuiltInv, BuildGate
  <2>4. /\ \A t \in Tags : build'[t].phase = "Running" => build'[t].ref \in Refs
        /\ \A t \in Tags : build'[t].phase = "Succeeded" => image[t] # None
    BY <2>2, <1>2 DEF BuiltInv
  <2>5. \/ run'.pc = "restore" /\ run'.image = None
        \/ /\ run'.pc = "restore" /\ run'.image \in Tags
           /\ build'[run'.image].phase = "Succeeded"
        \/ run'.pc = "patch"
    BY <1>3, <2>3, BuildGateEffect DEF Waits
  <2> QED BY <2>1, <2>4, <2>5 DEF BuiltInv, DeployedImageIsBuilt
<1>4. CASE RestoreGate
  <2>1. run.pc = "restore" /\ UNCHANGED <<build, image, argo>>
    BY <1>4 DEF RestoreGate
  <2>2. run'.pc \in {"sso", "patch"} /\ run'.image = run.image
    BY <1>4, RestoreGateEffect DEF Waits
  <2> QED BY <2>1, <2>2 DEF BuiltInv, DeployedImageIsBuilt
<1>5. CASE ReadSso
  <2>1. run.pc = "sso" /\ UNCHANGED <<build, image, argo>>
    BY <1>5 DEF ReadSso, clusterVars
  <2>2. run'.pc = "apply" /\ run'.image = run.image
    BY <1>5, ReadSsoEffect
  <2> QED BY <2>1, <2>2 DEF BuiltInv, DeployedImageIsBuilt
<1>6. CASE ApplyArgo
  <2>1. run.pc = "apply" /\ UNCHANGED <<build, image>>
    BY <1>6 DEF ApplyArgo, clusterVars
  <2>2. run'.pc = "patch" /\ argo'.image = run.image
    BY <1>6, ApplyArgoEffect
  <2> QED BY <2>1, <2>2 DEF BuiltInv, DeployedImageIsBuilt
<1>7. CASE BackendError
  <2>1. /\ run'.pc = "patch" /\ image' = image
        /\ \/ UNCHANGED <<build, argo>>
           \/ /\ run.want.ref \in Refs /\ build' = Submitted(run.want.ref)
              /\ argo' = argo
           \/ /\ run.pc = "apply" /\ argo'.image = run.image /\ build' = build
    BY <1>7, BackendErrorEffect DEF BackendError
  <2> QED BY <2>1, <1>2 DEF BuiltInv, DeployedImageIsBuilt
<1>8. CASE WritePatch \/ Crash
  <2>1. run'.pc = "idle" /\ UNCHANGED <<build, image, argo>>
    BY <1>8 DEF WritePatch, Crash, clusterVars, TypeOK, Frame
  <2> QED BY <2>1 DEF BuiltInv, DeployedImageIsBuilt
<1>9. CASE Finalize
  <2>1. /\ run' = run /\ image' = image /\ argo' \in {argo, None}
        /\ \A t \in Tags : build'[t] \in {build[t], NoBuild}
    BY <1>9 DEF Finalize
  <2>2. NoBuild.phase = "none"
    BY DEF NoBuild
  <2> QED BY <1>9, <2>1, <2>2 DEF BuiltInv, DeployedImageIsBuilt, Finalize
<1>10. ASSUME NEW t \in Tags, BuildEnds(t) PROVE BuiltInv'
  <2>1. UNCHANGED <<run, argo>>
    BY <1>10 DEF BuildEnds
  <2>2. build[t].ref \in Refs
    BY <1>10 DEF BuiltInv, BuildEnds
  <2>3. \A u \in Tags : /\ image[u] # None => image'[u] # None
                        /\ build'[u].phase = "Running" => build'[u] = build[u]
                        /\ build'[u].phase = "Succeeded" =>
                             \/ u = t /\ image'[u] # None
                             \/ build[u].phase = "Succeeded"
    BY <1>10, <2>2, EngineAssumption
    DEF BuildEnds, TypeOK, Builds, EngineAssumption
  <2>4. /\ argo # None => argo.image \in Tags \cup {None}
        /\ run.image \in Tags \cup {None}
    BY FrameFields DEF TypeOK, Releases
  <2> QED BY <2>1, <2>3, <2>4 DEF BuiltInv, DeployedImageIsBuilt
<1>11. CASE UNCHANGED <<build, image, run, argo>>
  BY <1>11 DEF BuiltInv, DeployedImageIsBuilt
<1> QED
  BY <1>1, <1>3, <1>4, <1>5, <1>6, <1>7, <1>8, <1>9, <1>10, <1>11
  DEF Next, Handler, Cluster, User, vars, clusterVars, RestoreLoads,
      RestoreEnds, ChartDeliversDatabase, ChartSyncsSso, AppBoots, EditSpec,
      Delete, ParentsAppear, SnapshotCompletes

LEMMA NoStatusFields == /\ NoStatus.restoredFrom = None
                        /\ NoStatus.observed = 0 /\ NoStatus.ready = FALSE
  BY DEF NoStatus

LEMMA LoadedInit == Init => LoadedInv
<1>1. Init => run.pc = "idle" /\ life = "live" /\ status.restoredFrom = None
  BY NoStatusFields DEF Init
<1>2. Init => \A s \in Snaps : restore[s].phase = "none"
  BY DEF Init, NoRestore
<1> QED BY <1>1, <1>2 DEF LoadedInv

LEMMA LoadedNext ==
  ASSUME TypeOK, LoadedInv, [Next]_vars
  PROVE  LoadedInv'
<1> DEFINE Names(r, s) == s # None => r[s].phase = "Succeeded"
<1>1. /\ status.restoredFrom \in Snaps \cup {None}
      /\ run.out.restoredFrom \in Snaps \cup {None}
  BY FrameFields DEF TypeOK, Status
<1>2. CASE Begin
  BY <1>2, BeginEffect DEF LoadedInv, Begin, clusterVars, resourceVars
<1>3. CASE BuildGate \/ ReadSso
  <2>1. /\ run.pc # "idle" /\ run'.out.restoredFrom = run.out.restoredFrom
        /\ UNCHANGED <<restore, db, life, status>>
    BY <1>3, BuildGateEffect, ReadSsoEffect
    DEF BuildGate, ReadSso, SameNames, clusterVars, resourceVars
  <2> QED BY <2>1 DEF LoadedInv
<1>4. CASE RestoreGate
  <2>1. run.pc # "idle" /\ UNCHANGED <<db, life, status>>
    BY <1>4 DEF RestoreGate, resourceVars
  <2>2. \A s \in Snaps :
          /\ restore'[s].phase \in {"Loaded", "Succeeded"} =>
               restore'[s] = restore[s]
          /\ restore[s].phase = "Succeeded" => restore'[s] = restore[s]
    BY <1>4 DEF RestoreGate, TypeOK, Restores
  <2>3. \/ run'.out.restoredFrom = run.out.restoredFrom
        \/ Names(restore', run'.out.restoredFrom)
    BY <1>4, RestoreGateEffect
  <2> QED BY <1>1, <2>1, <2>2, <2>3 DEF LoadedInv
<1>5. CASE ApplyArgo \/ BackendError
  <2>1. /\ run.pc # "idle" /\ run'.out.restoredFrom = run.out.restoredFrom
        /\ UNCHANGED <<restore, db, life, status>>
    BY <1>5, ApplyArgoEffect, BackendErrorEffect
    DEF ApplyArgo, BackendError, SameNames, clusterVars, resourceVars
  <2> QED BY <2>1 DEF LoadedInv
<1>6. CASE WritePatch
  <2>1. /\ run.pc # "idle" /\ status' = run.out /\ run'.pc = "idle"
        /\ UNCHANGED <<restore, db, life>>
    BY <1>6 DEF WritePatch, clusterVars, resourceVars, TypeOK, Frame
  <2> QED BY <2>1 DEF LoadedInv
<1>7. CASE Crash
  <2>1. run'.pc = "idle" /\ UNCHANGED <<restore, db, life, status>>
    BY <1>7 DEF Crash, clusterVars, resourceVars, TypeOK, Frame
  <2> QED BY <2>1 DEF LoadedInv
<1>8. CASE Finalize
  <2>1. /\ run.pc = "idle" /\ life' = "gone" /\ UNCHANGED <<run, db>>
        /\ \A s \in Snaps : restore'[s] \in {restore[s], NoRestore}
    BY <1>8 DEF Finalize
  <2>2. NoRestore.phase = "none"
    BY DEF NoRestore
  <2> QED BY <2>1, <2>2 DEF LoadedInv
<1>9. ASSUME NEW s \in Snaps, RestoreLoads(s) PROVE LoadedInv'
  <2>1. UNCHANGED <<run, life, status>>
    BY <1>9 DEF RestoreLoads, resourceVars
  <2>2. \A u \in Snaps : restore[u].phase = "Succeeded" =>
                           restore'[u].phase = "Succeeded"
    BY <1>9 DEF RestoreLoads, TypeOK
  <2>3. \A u \in Snaps : restore'[u].phase \in {"Loaded", "Succeeded"} =>
                           db'.data \in {u, "mixed"}
    <3>1. \A u \in Snaps \ {s} : restore'[u] = restore[u]
      BY <1>9 DEF RestoreLoads, TypeOK
    <3>2. \A u \in Snaps : db.data \in {u, "mixed"} => db.data # None
      BY EngineAssumption DEF EngineAssumption
    <3>3. CASE UNCHANGED db /\ restore' = [restore EXCEPT ![s].phase = "Failed"]
      BY <3>1, <3>3 DEF LoadedInv, TypeOK, Restores
    <3>4. CASE db.data = None /\ db' = [data |-> s, clean |-> FALSE]
      <4>1. db'.data = s
        BY <3>4
      <4> QED BY <3>1, <3>2, <3>4, <4>1 DEF LoadedInv
    <3>5. CASE db' = [data |-> "mixed", clean |-> FALSE]
      <4>1. db'.data = "mixed"
        BY <3>5
      <4> QED BY <4>1
    <3> QED BY <1>9, <3>3, <3>4, <3>5 DEF RestoreLoads
  <2> QED BY <1>1, <2>1, <2>2, <2>3 DEF LoadedInv
<1>10. ASSUME NEW s \in Snaps, RestoreEnds(s) PROVE LoadedInv'
  <2>1. UNCHANGED <<run, life, status>>
    BY <1>10 DEF RestoreEnds, resourceVars
  <2>2. db'.data = db.data
    BY <1>10 DEF RestoreEnds, TypeOK
  <2>3. \A u \in Snaps :
          /\ restore[u].phase = "Succeeded" => restore'[u].phase = "Succeeded"
          /\ restore'[u].phase \in {"Loaded", "Succeeded"} =>
               restore[u].phase \in {"Loaded", "Succeeded"}
    BY <1>10 DEF RestoreEnds, TypeOK, Restores
  <2> QED BY <1>1, <2>1, <2>2, <2>3 DEF LoadedInv
<1>11. CASE AppBoots
  <2>1. UNCHANGED <<run, life, status, restore>> /\ db.data = None
    BY <1>11 DEF AppBoots, resourceVars
  <2>2. \A s \in Snaps : db.data \notin {s, "mixed"}
    BY <2>1, EngineAssumption DEF EngineAssumption
  <2> QED BY <2>1, <2>2 DEF LoadedInv
<1>12. CASE Delete
  BY <1>12 DEF LoadedInv, Delete, clusterVars
<1>13. CASE UNCHANGED <<run, life, status, restore, db>>
  BY <1>13 DEF LoadedInv
<1> QED
  BY <1>2, <1>3, <1>4, <1>5, <1>6, <1>7, <1>8, <1>9, <1>10, <1>11, <1>12,
     <1>13
  DEF Next, Handler, Cluster, User, vars, clusterVars, resourceVars,
      BuildEnds, ChartDeliversDatabase, ChartSyncsSso, EditSpec,
      ParentsAppear, SnapshotCompletes

LEMMA ServedInit == Init => ServedInv
<1>1. Init => /\ status.observed = 0 /\ status.ready = FALSE /\ gen = 1
              /\ run.pc = "idle"
  BY NoStatusFields DEF Init
<1> QED BY <1>1 DEF ServedInv

LEMMA ServedNext ==
  ASSUME TypeOK, BuiltInv, ServedInv, [Next]_vars
  PROVE  ServedInv'
<1>1. /\ gen \in Nat /\ gen > 0 /\ run.gen \in Nat
      /\ status.observed \in Nat /\ status.ready \in BOOLEAN
      /\ run.out.observed \in Nat /\ run.out.ready \in BOOLEAN
      /\ run.again \in BOOLEAN /\ due \in BOOLEAN
  BY EngineAssumption DEF TypeOK, Status, Frame, EngineAssumption
<1>2. CASE Begin
  <2>1. UNCHANGED <<spec, gen, life, status, argo, due>>
    BY <1>2 DEF Begin, resourceVars
  <2>2. Serves' = Serves /\ run.pc = "idle" /\ run'.gen <= gen
    BY <1>1, <1>2, <2>1, BeginEffect DEF Serves
  <2>3. run'.pc \in {"build", "patch"} /\ (run'.pc = "patch" => run'.again)
    BY <1>2, BeginEffect
  <2>4. /\ run'.out.restoredFrom = status.restoredFrom
        /\ run'.want = spec /\ run'.gen = gen
        /\ \/ run'.out.observed = status.observed
              /\ run'.out.ready = status.ready
           \/ run'.pc = "patch" /\ run'.out.observed = gen
              /\ run'.out.ready = FALSE
    BY <1>2, BeginEffect
  <2> QED BY <1>1, <2>1, <2>2, <2>3, <2>4 DEF ServedInv, Restored
<1>3. CASE BuildGate
  <2>1. run.pc = "build" /\ UNCHANGED <<spec, gen, life, status, argo, due>>
    BY <1>3 DEF BuildGate, resourceVars
  <2>2. run.image = None
    BY <2>1 DEF BuiltInv
  <2>3. /\ SameCall /\ SameNames
        /\ \/ /\ run'.pc = "restore" /\ SameMark
              /\ run'.image = WantedImage(run.want)
           \/ Waits
    BY <1>3, <2>2, BuildGateEffect DEF WantedImage
  <2> QED BY <1>1, <2>1, <2>3
          DEF ServedInv, Serves, Restored, SameCall, SameNames, SameMark, Waits
<1>4. CASE RestoreGate
  <2>1. run.pc = "restore" /\ UNCHANGED <<spec, gen, life, status, argo, due>>
    BY <1>4 DEF RestoreGate, resourceVars
  <2>2. /\ SameCall /\ run'.image = run.image
        /\ \/ run'.out.restoredFrom = run.out.restoredFrom
           \/ /\ run.want.restore # None
              /\ run'.out.restoredFrom = run.want.restore.snap
        /\ \/ run'.pc = "sso" /\ SameMark /\ Restored(run.want, run'.out)
           \/ Waits
    BY <1>4, RestoreGateEffect
  <2> QED BY <1>1, <2>1, <2>2
          DEF ServedInv, Serves, Restored, SameCall, SameMark, Waits
<1>5. CASE ReadSso
  <2>1. run.pc = "sso" /\ UNCHANGED <<spec, gen, life, status, argo, due>>
    BY <1>5 DEF ReadSso, resourceVars
  <2> QED BY <1>1, <1>5, <2>1, ReadSsoEffect
          DEF ServedInv, Serves, Restored, SameCall, SameNames, SameMark
<1>6. CASE ApplyArgo
  <2>1. run.pc = "apply" /\ UNCHANGED <<spec, gen, life, status, due>>
    BY <1>6 DEF ApplyArgo, resourceVars
  <2>2. /\ argo' # None /\ argo'.image = WantedImage(run.want)
        /\ argo'.sso = run.want.sso
    BY <1>6, <2>1, ApplyArgoEffect DEF ServedInv
  <2>3. run.gen = gen => Serves'
    BY <2>1, <2>2 DEF ServedInv, Serves
  <2>4. /\ SameCall /\ run'.pc = "patch"
        /\ run'.out.restoredFrom = run.out.restoredFrom
        /\ run'.out.observed = run.gen
        /\ \/ /\ run'.again = FALSE /\ run'.out.ready = TRUE
              /\ run.want.sso => argo'.oidc
           \/ run'.again = TRUE /\ run'.out.ready = FALSE
    BY <1>6, ApplyArgoEffect DEF Waits
  <2>5. status.observed = gen => run.gen = gen
    <3>1. run.gen <= gen /\ status.observed <= run.gen
      BY <2>1 DEF ServedInv
    <3> QED BY <1>1, <3>1
  <2>6. run.gen = gen => run.want = spec /\ Restored(spec, run.out)
    BY <2>1 DEF ServedInv
  <2>7. run.gen <= gen /\ status.observed <= run.gen /\ status.observed <= gen
    BY <2>1 DEF ServedInv
  <2>8. /\ run'.out.restoredFrom # status.restoredFrom =>
             run.want.restore # None /\ Restored(run.want, run'.out)
        /\ status.ready /\ status.observed = gen /\ life = "live" =>
             Restored(spec, status)
    BY <2>1, <2>4 DEF ServedInv, Restored
  <2> QED BY <2>1, <2>3, <2>4, <2>5, <2>6, <2>7, <2>8
          DEF ServedInv, Restored, SameCall
<1>7. CASE BackendError
  <2>1. /\ run.pc \notin {"idle", "patch"}
        /\ UNCHANGED <<spec, gen, life, status, due>>
    BY <1>7 DEF BackendError, resourceVars
  <2>2. /\ SameCall /\ SameNames /\ run'.pc = "patch" /\ run'.again = TRUE
        /\ SameMark \/ Waits
        /\ \/ argo' = argo
           \/ /\ run.pc = "apply" /\ argo' # None /\ argo'.image = run.image
              /\ argo'.sso = run.want.sso
    BY <1>7, BackendErrorEffect
  <2>3. run.gen = gen /\ Serves => Serves'
    BY <2>1, <2>2 DEF ServedInv, Serves
  <2>4. ~ (run'.pc = "patch" /\ ~run'.again) /\ run'.pc # "idle"
    BY <2>2
  <2>5. \/ /\ run'.out.observed = run'.gen /\ ~run'.out.ready
        \/ /\ run'.out.observed = status.observed
           /\ run'.out.ready = status.ready
    <3>1. CASE SameMark
      BY <2>1, <3>1 DEF ServedInv, SameMark
    <3>2. CASE Waits
      BY <2>2, <3>2 DEF SameCall, Waits
    <3> QED BY <2>2, <3>1, <3>2
  <2> QED BY <1>1, <2>1, <2>2, <2>3, <2>4, <2>5
          DEF ServedInv, Restored, SameCall, SameNames
<1>8. CASE WritePatch
  <2>1. /\ run.pc = "patch" /\ run'.pc = "idle" /\ status' = run.out
        /\ UNCHANGED <<spec, gen, life, argo>>
        /\ run.again => due'
    BY <1>8 DEF WritePatch, resourceVars, TypeOK, Frame, CalledAgain
  <2>2. status'.observed <= gen
    BY <1>1, <2>1 DEF ServedInv
  <2>3. ASSUME life = "live", run.out.ready, run.out.observed = gen
        PROVE  /\ Serves /\ Restored(spec, run.out)
               /\ ~run.again => (spec.sso => argo.oidc)
    <3>1. run.gen = gen
      <4>1. /\ run.gen <= gen /\ status.observed <= run.gen
            /\ gen = run.gen \/ gen = status.observed
        BY <2>1, <2>3 DEF ServedInv
      <4> QED BY <1>1, <4>1
    <3>2. CASE ~run.again
      BY <2>1, <3>1, <3>2 DEF ServedInv
    <3>3. CASE run.again
      <4>1. status.observed = gen /\ status.ready
        BY <2>1, <2>3, <3>3 DEF ServedInv
      <4>2. Serves /\ Restored(spec, status) /\ run.want = spec
        BY <2>1, <2>3, <3>1, <4>1 DEF ServedInv
      <4>3. Restored(spec, run.out)
        BY <2>1, <4>2 DEF ServedInv, Restored
      <4> QED BY <3>3, <4>2, <4>3
    <3> QED BY <1>1, <3>2, <3>3
  <2> QED BY <1>1, <2>1, <2>2, <2>3 DEF ServedInv, Serves, Restored
<1>9. CASE Crash
  <2>1. /\ run'.pc = "idle" /\ due' = TRUE
        /\ UNCHANGED <<spec, gen, life, status, argo>>
    BY <1>9 DEF Crash, resourceVars, TypeOK, Frame
  <2> QED BY <2>1 DEF ServedInv, Serves, Restored
<1>10. CASE Finalize
  <2>1. /\ run.pc = "idle" /\ life' = "gone"
        /\ UNCHANGED <<run, spec, gen, status>>
    BY <1>10 DEF Finalize
  <2> QED BY <2>1 DEF ServedInv
<1>11. CASE EditSpec
  <2>1. /\ gen' = gen + 1 /\ due' = TRUE
        /\ UNCHANGED <<run, life, status, argo>>
    BY <1>11 DEF EditSpec
  <2> QED BY <1>1, <2>1 DEF ServedInv
<1>12. CASE Delete
  <2>1. life' # "live" /\ UNCHANGED <<run, spec, gen, status, argo>>
    BY <1>12 DEF Delete
  <2> QED BY <2>1 DEF ServedInv, Serves
<1>13. CASE UNCHANGED <<spec, gen, life, due, status, run, argo>>
  BY <1>13 DEF ServedInv, Serves
<1> QED
  BY <1>2, <1>3, <1>4, <1>5, <1>6, <1>7, <1>8, <1>9, <1>10, <1>11, <1>12,
     <1>13
  DEF Next, Handler, Cluster, User, vars, resourceVars, BuildEnds,
      RestoreLoads, RestoreEnds, ChartDeliversDatabase, ChartSyncsSso,
      AppBoots, ParentsAppear, SnapshotCompletes

LEMMA NamedInit == Init => NamedInv
<1>1. Init => run.pc = "idle" /\ argo = None
  BY DEF Init
<1> QED BY <1>1 DEF NamedInv

LEMMA NamedNext ==
  ASSUME TypeOK, LoadedInv, NamedInv, [Next]_vars
  PROVE  NamedInv'
<1>1. faults \in Nat
  BY EngineAssumption DEF TypeOK, EngineAssumption
<1>2. CASE Begin
  BY <1>2, BeginEffect DEF NamedInv, Begin, resourceVars
<1>3. CASE BuildGate \/ RestoreGate \/ ReadSso
  <2>1. /\ run.pc \notin {"idle", "patch"}
        /\ run'.out.argoApplication = run.out.argoApplication
        /\ UNCHANGED <<life, status, argo, faults>>
    BY <1>3, BuildGateEffect, RestoreGateEffect, ReadSsoEffect
    DEF BuildGate, RestoreGate, ReadSso, resourceVars, SameNames
  <2> QED BY <2>1 DEF NamedInv
<1>4. CASE ApplyArgo
  <2>1. /\ run.pc = "apply" /\ run'.pc = "patch"
        /\ run'.out.argoApplication = TRUE /\ UNCHANGED <<life, status, faults>>
    BY <1>4, ApplyArgoEffect DEF ApplyArgo, resourceVars
  <2> QED BY <2>1 DEF NamedInv, LoadedInv
<1>5. CASE BackendError
  <2>1. /\ run.pc # "idle" /\ faults' # 0 /\ status' = status
        /\ run'.out.argoApplication = run.out.argoApplication
    BY <1>5, BackendErrorEffect DEF BackendError, SameNames
  <2> QED BY <2>1 DEF NamedInv
<1>6. CASE WritePatch
  <2>1. /\ run.pc = "patch" /\ run'.pc = "idle" /\ status' = run.out
        /\ UNCHANGED <<life, argo, faults>>
    BY <1>6 DEF WritePatch, resourceVars, TypeOK, Frame
  <2> QED BY <2>1 DEF NamedInv
<1>7. CASE Crash
  <2>1. run'.pc = "idle" /\ faults' # 0
    BY <1>1, <1>7 DEF Crash, TypeOK, Frame
  <2> QED BY <2>1 DEF NamedInv
<1>8. CASE Finalize
  <2>1. run.pc = "idle" /\ run' = run /\ (faults' = 0 => faults = 0)
    BY <1>1, <1>8 DEF Finalize
  <2>2. faults' = 0 => argo' = None
    <3>1. ASSUME faults' = 0
          PROVE  argo' = IF status.argoApplication THEN None ELSE argo
      BY <1>1, <1>8, <3>1 DEF Finalize
    <3> QED BY <2>1, <3>1 DEF NamedInv
  <2> QED BY <2>1, <2>2 DEF NamedInv
<1>9. CASE Delete
  BY <1>9 DEF NamedInv, Delete
<1>10. CASE UNCHANGED <<life, status, run, argo, faults>>
  BY <1>10 DEF NamedInv
<1> QED
  BY <1>2, <1>3, <1>4, <1>5, <1>6, <1>7, <1>8, <1>9, <1>10
  DEF Next, Handler, Cluster, User, vars, resourceVars, clusterVars,
      BuildEnds, RestoreLoads, RestoreEnds, ChartDeliversDatabase,
      ChartSyncsSso, AppBoots, EditSpec, ParentsAppear, SnapshotCompletes

\* The inductive invariant, put together.
THEOREM EngineInvariant == Spec => []EngineInv
<1>1. Init => EngineInv
  BY TypeInit, BuiltInit, LoadedInit, ServedInit, NamedInit DEF EngineInv
<1>2. EngineInv /\ [Next]_vars => EngineInv'
  BY TypeNext, BuiltNext, LoadedNext, ServedNext, NamedNext DEF EngineInv
<1> QED BY <1>1, <1>2, PTL DEF Spec

----------------------------------------------------------------------------
(* The safety properties *)

\* The deploy is gated on a successful build: whatever image the Argo CD
\* Application names is one the registry holds.
THEOREM OnlyBuiltImagesDeployed == Spec => []DeployedImageIsBuilt
<1>1. EngineInv => DeployedImageIsBuilt
  BY DEF EngineInv, BuiltInv
<1> QED BY <1>1, EngineInvariant, PTL

\* Ready at the current generation is true of the Argo CD Application, not
\* only of the run that reported it.
THEOREM ReadyIsServed == Spec => []ReadyMeansServed
<1>1. EngineInv => ReadyMeansServed
  BY DEF EngineInv, ServedInv, Serves, WantedImage, ReadyMeansServed
<1> QED BY <1>1, EngineInvariant, PTL

\* Ready with restoreFrom means that Snapshot has been loaded.
THEOREM ReadyIsRestored == Spec => []ReadyMeansRestored
<1>1. EngineInv => ReadyMeansRestored
  <2> SUFFICES ASSUME EngineInv, life = "live", status.ready,
                      status.observed = gen, spec.restore # None
               PROVE  /\ status.restoredFrom = spec.restore.snap
                      /\ db.data \in {spec.restore.snap, "mixed"}
    BY DEF ReadyMeansRestored
  <2>1. spec.restore.snap \in Snaps /\ status.restoredFrom = spec.restore.snap
    BY DEF EngineInv, ServedInv, Restored, TypeOK, Spec_, RestoreFrom
  <2>2. restore[spec.restore.snap].phase = "Succeeded"
    BY <2>1, EngineAssumption DEF EngineInv, LoadedInv, EngineAssumption
  <2> QED BY <2>1, <2>2 DEF EngineInv, LoadedInv
<1> QED BY <1>1, EngineInvariant, PTL

\* A deleted Application leaves no Argo CD Application behind.
THEOREM NothingOrphaned == Spec => []NoOrphan
<1>1. EngineInv => NoOrphan
  BY DEF EngineInv, NamedInv, NoOrphan
<1> QED BY <1>1, EngineInvariant, PTL

----------------------------------------------------------------------------
(* The refinement of ReleaseContract                                        *)

Built  == {None} \cup {t \in Tags : image[t] # None}
Loaded == {s \in Snaps : restore[s].phase = "Succeeded"}
Live   == IF argo = None THEN "off" ELSE argo.image
Claims == IF life = "gone" \/ status.restoredFrom = None THEN "off"
          ELSE status.restoredFrom

LEMMA ContractInit == Init => Contract!Init
<1> SUFFICES ASSUME Init PROVE Contract!Init
  OBVIOUS
<1>1. image = [t \in Tags |-> None] /\ argo = None
  BY DEF Init
<1>2. \A s \in Snaps : restore[s].phase = "none"
  BY DEF Init, NoRestore
<1>3. status.restoredFrom = None
  BY NoStatusFields DEF Init
<1>4. Built = {None} /\ Loaded = {} /\ Live = "off" /\ Claims = "off"
  BY <1>1, <1>2, <1>3 DEF Built, Loaded, Live, Claims
<1> QED BY <1>4 DEF Contract!Init, Built, Loaded, Live, Claims

\* A step of the engine, seen through the refinement mapping.
LEMMA ContractStep ==
  ASSUME \/ UNCHANGED <<Built, Loaded, Live, Claims>>
         \/ \E t \in Tags : Built' = Built \cup {t}
                            /\ UNCHANGED <<Loaded, Live, Claims>>
         \/ \E s \in Snaps : Loaded' = Loaded \cup {s}
                             /\ UNCHANGED <<Built, Live, Claims>>
         \/ \E a \in Tags \cup {None} : a \in Built /\ Live' = a
                             /\ UNCHANGED <<Built, Loaded, Claims>>
         \/ \E s \in Snaps : s \in Loaded /\ Claims' = s
                             /\ UNCHANGED <<Built, Loaded, Live>>
         \/ /\ Live' \in {Live, "off"} /\ Claims' = "off"
            /\ Loaded' \subseteq Loaded /\ UNCHANGED Built
  PROVE  [Contract!Next]_(Contract!contractVars)
  BY DEF Contract!Next, Contract!contractVars, Contract!Produce,
         Contract!Load, Contract!Release, Contract!Claim, Contract!TakeDown,
         Built, Loaded, Live, Claims

LEMMA ContractNext ==
  ASSUME EngineInv, EngineInv', [Next]_vars
  PROVE  [Contract!Next]_(Contract!contractVars)
<1> USE DEF EngineInv
<1>1. CASE ApplyArgo \/ BackendError
  <2>1. /\ UNCHANGED <<image, status, life>> /\ Loaded' = Loaded
        /\ \/ argo' = argo
           \/ /\ run.pc = "apply" /\ argo' # None /\ argo'.image = run.image
              /\ run.image \in Tags \cup {None}
    BY <1>1, ApplyArgoEffect, BackendErrorEffect, FrameFields
    DEF ApplyArgo, BackendError, clusterVars, resourceVars, Loaded
  <2>2. run.pc = "apply" => run.image \in Built \/ run.image \notin Tags \cup {None}
    BY DEF BuiltInv, Built
  <2> QED BY <2>1, <2>2, ContractStep DEF Built, Live, Claims
<1>2. CASE WritePatch
  <2>1. /\ run.pc = "patch" /\ status' = run.out
        /\ UNCHANGED <<image, argo, restore, life>>
    BY <1>2 DEF WritePatch, clusterVars, resourceVars
  <2>2. /\ status.restoredFrom \in Snaps \cup {None}
        /\ run.out.restoredFrom \in Snaps \cup {None}
    BY FrameFields DEF TypeOK, Status
  <2>3. run.out.restoredFrom # None =>
          run.out.restoredFrom \in Loaded /\ Claims' = run.out.restoredFrom
    BY <2>1, <2>2 DEF LoadedInv, Loaded, Claims
  <2>4. run.out.restoredFrom = None => status.restoredFrom = None
    <3>1. SUFFICES ASSUME run.out.restoredFrom # status.restoredFrom
                   PROVE  run.out.restoredFrom \in Snaps
      BY <2>2, EngineAssumption DEF EngineAssumption
    <3> QED BY <2>1, <3>1, FrameFields
            DEF ServedInv, Restored, Spec_, RestoreFrom
  <2>5. UNCHANGED <<Built, Loaded, Live>>
    BY <2>1 DEF Built, Loaded, Live
  <2>6. run.out.restoredFrom = None => Claims' = Claims
    BY <2>1, <2>4 DEF Claims
  <2> QED BY <2>2, <2>3, <2>5, <2>6, ContractStep, EngineAssumption
          DEF EngineAssumption
<1>3. CASE Finalize
  <2>1. /\ life' = "gone" /\ argo' \in {argo, None} /\ image' = image
        /\ \A s \in Snaps : restore'[s] \in {restore[s], NoRestore}
    BY <1>3 DEF Finalize
  <2>2. NoRestore.phase = "none"
    BY DEF NoRestore
  <2>3. /\ Live' \in {Live, "off"} /\ Claims' = "off"
        /\ Loaded' \subseteq Loaded /\ Built' = Built
    BY <2>1, <2>2 DEF Live, Claims, Loaded, Built
  <2> QED BY <2>3, ContractStep
<1>4. CASE RestoreGate
  <2>1. UNCHANGED <<image, argo, status, life>>
    BY <1>4 DEF RestoreGate, resourceVars
  <2>2. \A s \in Snaps : restore'[s].phase = "Succeeded" <=>
                         restore[s].phase = "Succeeded"
    BY <1>4 DEF RestoreGate, TypeOK, Restores
  <2> QED BY <2>1, <2>2, ContractStep DEF Built, Loaded, Live, Claims
<1>5. ASSUME NEW t \in Tags, BuildEnds(t)
      PROVE  [Contract!Next]_(Contract!contractVars)
  <2>1. UNCHANGED <<argo, status, life, restore>>
    BY <1>5 DEF BuildEnds, resourceVars
  <2>2. \/ image' = image
        \/ image' = [image EXCEPT ![t] = build[t].ref] /\ build[t].ref # None
    BY <1>5, EngineAssumption DEF BuildEnds, BuiltInv, EngineAssumption
  <2>3. Built' = Built \/ Built' = Built \cup {t}
    BY <2>2 DEF Built, TypeOK
  <2>4. UNCHANGED <<Loaded, Live, Claims>>
    BY <2>1 DEF Loaded, Live, Claims
  <2> QED BY <2>3, <2>4, ContractStep
<1>6. ASSUME NEW s \in Snaps, RestoreLoads(s) \/ RestoreEnds(s)
      PROVE  [Contract!Next]_(Contract!contractVars)
  <2>1. UNCHANGED <<image, argo, status, life>>
    BY <1>6 DEF RestoreLoads, RestoreEnds, resourceVars
  <2>2. /\ \A u \in Snaps \ {s} : restore'[u] = restore[u]
        /\ restore[s].phase # "Succeeded"
    BY <1>6 DEF RestoreLoads, RestoreEnds, TypeOK
  <2>3. Loaded' = Loaded \/ Loaded' = Loaded \cup {s}
    BY <2>2 DEF Loaded
  <2>4. UNCHANGED <<Built, Live, Claims>>
    BY <2>1 DEF Built, Live, Claims
  <2> QED BY <2>3, <2>4, ContractStep
<1>7. CASE Delete
  <2>1. life = "live" /\ life' = "deleting"
        /\ UNCHANGED <<image, restore, argo, status>>
    BY <1>7 DEF Delete, clusterVars
  <2> QED BY <2>1, ContractStep DEF Built, Loaded, Live, Claims
<1>8. CASE UNCHANGED <<image, restore, argo, status, life>>
  BY <1>8, ContractStep DEF Built, Loaded, Live, Claims
<1> QED
  BY <1>1, <1>2, <1>3, <1>4, <1>5, <1>6, <1>7, <1>8
  DEF Next, Handler, Cluster, User, vars, resourceVars, clusterVars, Begin,
      BuildGate, ReadSso, Crash, ChartDeliversDatabase, ChartSyncsSso,
      AppBoots, EditSpec, ParentsAppear, SnapshotCompletes

\* The engine implements the contract: only what was built is ever live, only
\* what was loaded is ever reported as restored, and what is live stays live
\* until the Application is taken down.
THEOREM EngineKeepsContract == Spec => KeepsContract
<1>1. EngineInv /\ EngineInv' /\ [Next]_vars =>
        [Contract!Next]_(Contract!contractVars)
  BY ContractNext
<1> QED
  BY <1>1, ContractInit, EngineInvariant, PTL
  DEF Spec, KeepsContract, Contract!Spec
=============================================================================
