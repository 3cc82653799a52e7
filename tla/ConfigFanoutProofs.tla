------------------------- MODULE ConfigFanoutProofs -------------------------
(***************************************************************************)
(* Proofs about ConfigFanout, for every set of parents and Applications,   *)
(* every relation between them and every bound.                            *)
(*                                                                         *)
(* The argument: TypeOK is inductive; on top of it Reached (no frame and   *)
(* no annotation is ahead of its parent), Carried (the revision an         *)
(* Application carries is on its way into what is rendered) and Growing    *)
(* (what is rendered lies behind what was read, and that behind the        *)
(* parent) are preserved together by every step.                           *)
(***************************************************************************)
EXTENDS ConfigFanout, TLAPS

----------------------------------------------------------------------------
(* Type correctness *)

LEMMA FanoutTypeInit == Init => TypeOK
<1> SUFFICES ASSUME Init PROVE TypeOK
  OBVIOUS
<1> USE FanoutAssumption DEF FanoutAssumption
<1>1. gen \in [Parents -> Nat] /\ observed \in [Parents -> Nat]
  BY DEF Init
<1>2. parent \in [Parents -> ParentFrame]
  BY DEF Init, NoParentFrame, ParentFrame
<1>3. app \in [Apps -> AppFrame]
  BY DEF Init, NoAppFrame, AppFrame
<1>4. due \in SUBSET (Parents \cup Apps) /\ scope \in [Apps -> SUBSET Parents]
  BY DEF Init
<1>5. annotation \in [Apps -> Revisions] /\ rendered \in [Apps -> [Parents -> Nat]]
  BY DEF Init, Revisions
<1>6. /\ retargets \in 0 .. MaxRetargets /\ crashes \in 0 .. MaxCrashes
      /\ missed \in 0 .. MaxMissed
  BY DEF Init
<1> QED BY <1>1, <1>2, <1>3, <1>4, <1>5, <1>6 DEF TypeOK

\* The update of a parent's frame by the fan-out.
LEMMA StampFrameType ==
  ASSUME NEW f \in ParentFrame, NEW S \in SUBSET Apps
  PROVE  [f EXCEPT !.todo = S] \in ParentFrame
  BY DEF ParentFrame

LEMMA CallParentType ==
  ASSUME TypeOK, NEW p \in Parents, CallParent(p) PROVE TypeOK'
<1>1. [pc |-> IF Missing(p) THEN "stamp" ELSE "list", gen |-> gen[p],
       todo |-> {}, again |-> Missing(p)] \in ParentFrame
  BY DEF TypeOK, ParentFrame, Missing
<1>2. parent' \in [Parents -> ParentFrame]
  BY <1>1 DEF TypeOK, CallParent
<1> QED BY <1>2 DEF TypeOK, CallParent, counts

LEMMA ListAppsType ==
  ASSUME TypeOK, NEW p \in Parents, ListApps(p) PROVE TypeOK'
<1> USE FanoutAssumption DEF FanoutAssumption
<1>1. parent' \in [Parents -> ParentFrame]
  <2>1. PICK S \in SUBSET Apps :
          parent' = [parent EXCEPT ![p] =
                       [pc |-> "stamp", gen |-> parent[p].gen, todo |-> S,
                        again |-> parent[p].again]]
    BY DEF ListApps
  <2>2. parent[p] \in ParentFrame
    BY DEF TypeOK
  <2>3. [pc |-> "stamp", gen |-> parent[p].gen, todo |-> S,
         again |-> parent[p].again] \in ParentFrame
    BY <2>2 DEF ParentFrame
  <2> QED BY <2>1, <2>3 DEF TypeOK
<1>2. missed' \in 0 .. MaxMissed
  BY DEF TypeOK, ListApps
<1> QED BY <1>1, <1>2 DEF TypeOK, ListApps

LEMMA StampAppType ==
  ASSUME TypeOK, NEW p \in Parents, NEW a \in Apps, StampApp(p, a) PROVE TypeOK'
<1> USE FanoutAssumption DEF FanoutAssumption
<1>1. parent' \in [Parents -> ParentFrame]
  <2>1. parent[p] \in ParentFrame /\ parent[p].todo \ {a} \in SUBSET Apps
    BY DEF TypeOK, ParentFrame
  <2>2. [parent[p] EXCEPT !.todo = parent[p].todo \ {a}] \in ParentFrame
    BY <2>1, StampFrameType
  <2> QED BY <2>2 DEF TypeOK, StampApp
<1>2. Revision(p, parent[p].gen) \in Revisions
  BY DEF TypeOK, ParentFrame, Revision, Revisions
<1>3. annotation' \in [Apps -> Revisions]
  BY <1>2 DEF TypeOK, StampApp
<1>4. due' \in SUBSET (Parents \cup Apps)
  BY DEF TypeOK, StampApp
<1>5. missed' \in 0 .. MaxMissed
  BY DEF TypeOK, StampApp
<1> QED BY <1>1, <1>3, <1>4, <1>5 DEF TypeOK, StampApp

LEMMA WriteParentType ==
  ASSUME TypeOK, NEW p \in Parents, WriteParent(p) PROVE TypeOK'
<1>1. parent' \in [Parents -> ParentFrame]
  BY DEF TypeOK, WriteParent, ParentFrame, NoParentFrame
<1>2. observed' \in [Parents -> Nat]
  BY DEF TypeOK, WriteParent, ParentFrame
<1>3. due' \in SUBSET (Parents \cup Apps)
  BY DEF TypeOK, WriteParent
<1> QED BY <1>1, <1>2, <1>3 DEF TypeOK, WriteParent, counts

LEMMA CallAppType ==
  ASSUME TypeOK, NEW a \in Apps, CallApp(a) PROVE TypeOK'
<1>1. app' \in [Apps -> AppFrame]
  BY DEF TypeOK, CallApp, AppFrame
<1> QED BY <1>1 DEF TypeOK, CallApp, counts

LEMMA ReadsType == ASSUME TypeOK, NEW p \in Parents PROVE Reads(p) \in Nat
  BY DEF TypeOK, Reads

LEMMA ReadParentType ==
  ASSUME TypeOK, NEW a \in Apps, NEW p \in Parents, ReadParent(a, p)
  PROVE  TypeOK'
<1>1. app' \in [Apps -> AppFrame]
  <2>1. CASE gen[p] # 0
    <3>1. /\ app[a] \in AppFrame
          /\ [app[a].view EXCEPT ![p] = Reads(p)] \in [Parents -> Nat]
      BY ReadsType DEF TypeOK, AppFrame
    <3>2. [pc |-> "read", todo |-> app[a].todo \ {p},
           view |-> [app[a].view EXCEPT ![p] = Reads(p)]] \in AppFrame
      BY <3>1 DEF AppFrame
    <3> QED BY <2>1, <3>2 DEF TypeOK, ReadParent
  <2>2. CASE gen[p] = 0
    <3>1. NoAppFrame \in AppFrame
      BY DEF NoAppFrame, AppFrame
    <3> QED BY <2>2, <3>1 DEF TypeOK, ReadParent
  <2> QED BY <2>1, <2>2
<1>2. due' \in SUBSET (Parents \cup Apps)
  BY DEF TypeOK, ReadParent
<1> QED BY <1>1, <1>2 DEF TypeOK, ReadParent, counts

LEMMA RenderType ==
  ASSUME TypeOK, NEW a \in Apps, Render(a) PROVE TypeOK'
<1>1. app' \in [Apps -> AppFrame]
  BY DEF TypeOK, Render, AppFrame, NoAppFrame
<1>2. rendered' \in [Apps -> [Parents -> Nat]]
  BY DEF TypeOK, Render, AppFrame
<1>3. due' \in SUBSET (Parents \cup Apps)
  BY DEF TypeOK, Render
<1> QED BY <1>1, <1>2, <1>3 DEF TypeOK, Render, counts

LEMMA RetargetType ==
  ASSUME TypeOK, NEW a \in Apps, Retarget(a) PROVE TypeOK'
<1> USE FanoutAssumption DEF FanoutAssumption
<1>1. scope' \in [Apps -> SUBSET Parents]
  <2>1. PICK s \in Scopes[a] \ {scope[a]} : scope' = [scope EXCEPT ![a] = s]
    BY DEF Retarget
  <2>2. s \in SUBSET Parents
    OBVIOUS
  <2> QED BY <2>1, <2>2 DEF TypeOK
<1>2. retargets' \in 0 .. MaxRetargets
  BY DEF TypeOK, Retarget
<1> QED BY <1>1, <1>2 DEF TypeOK, Retarget

LEMMA FanoutTypeStep == TypeOK /\ [Next]_vars => TypeOK'
<1> SUFFICES ASSUME TypeOK, [Next]_vars PROVE TypeOK'
  OBVIOUS
<1> USE FanoutAssumption DEF FanoutAssumption
<1>1. CASE \E p \in Parents : ParentStep(p)
  BY <1>1, CallParentType, ListAppsType, StampAppType, WriteParentType
  DEF ParentStep
<1>2. CASE \E a \in Apps : AppStep(a)
  BY <1>2, CallAppType, ReadParentType, RenderType DEF AppStep
<1>3. CASE \E p \in Parents : EditParent(p)
  BY <1>3 DEF TypeOK, EditParent, counts
<1>4. CASE \E a \in Apps : Retarget(a)
  BY <1>4, RetargetType
<1>5. CASE Restart
  BY <1>5 DEF TypeOK, Restart, NoParentFrame, ParentFrame, NoAppFrame, AppFrame
<1>6. CASE UNCHANGED vars
  BY <1>6 DEF TypeOK, vars, counts
<1> QED BY <1>1, <1>2, <1>3, <1>4, <1>5, <1>6 DEF Next

\* Every variable keeps to its declared values: an annotation, for one, is
\* always absent or the revision of a parent at some generation.
THEOREM FanoutTypeCorrect == Spec => []TypeOK
<1>1. Init => TypeOK
  BY FanoutTypeInit
<1>2. TypeOK /\ [Next]_vars => TypeOK'
  BY FanoutTypeStep
<1> QED BY <1>1, <1>2, PTL DEF Spec
----------------------------------------------------------------------------
(* The invariant *)

LEMMA FanoutInvInit == Init => FanoutInv
<1> SUFFICES ASSUME Init PROVE FanoutInv
  OBVIOUS
<1> USE FanoutAssumption DEF FanoutAssumption
<1>1. TypeOK
  BY FanoutTypeInit
<1>2. Reached
  <2>1. \A p \in Parents : gen[p] \in Nat /\ parent[p].gen = 0
    BY <1>1 DEF Init, TypeOK, NoParentFrame
  <2> QED BY <2>1 DEF Init, Reached, Carries
<1>3. Carried
  BY DEF Init, Carried, Carries
<1>4. Growing
  <2>1. \A a \in Apps, p \in Parents : gen[p] \in Nat /\ rendered[a][p] = 0
    BY <1>1 DEF Init, TypeOK
  <2>2. \A a \in Apps : app[a].pc = "idle"
    BY DEF Init, NoAppFrame
  <2> QED BY <2>1, <2>2 DEF Growing
<1> QED BY <1>1, <1>2, <1>3, <1>4 DEF FanoutInv

\* The numbers the invariant compares.
LEMMA Numbers ==
  ASSUME TypeOK, NEW a \in Apps, NEW p \in Parents
  PROVE  /\ gen[p] \in Nat /\ parent[p].gen \in Nat /\ observed[p] \in Nat
         /\ rendered[a][p] \in Nat /\ app[a].view[p] \in Nat
         /\ Carries(a, p) => annotation[a][2] \in Nat
  BY DEF TypeOK, ParentFrame, AppFrame, Revisions, Carries

LEMMA ParentNumbers ==
  ASSUME TypeOK, NEW p \in Parents
  PROVE  gen[p] \in Nat /\ parent[p].gen \in Nat
  BY DEF TypeOK, ParentFrame

LEMMA CallParentInv ==
  ASSUME FanoutInv, NEW p \in Parents, CallParent(p) PROVE FanoutInv'
<1> USE FanoutAssumption DEF FanoutAssumption
<1>1. TypeOK'
  BY CallParentType DEF FanoutInv
<1>2. \A q \in Parents : parent'[q].gen = IF q = p THEN gen[p] ELSE parent[q].gen
  BY DEF FanoutInv, TypeOK, CallParent
<1>3. /\ UNCHANGED <<gen, scope, annotation, app, rendered>>
      /\ \A a \in Apps : a \in due' <=> a \in due
  BY DEF CallParent
<1>4. Reached'
  BY <1>2, <1>3, ParentNumbers DEF FanoutInv, Reached, Carries
<1>5. Carried' /\ Growing'
  BY <1>3 DEF FanoutInv, Carried, Growing, Carries
<1> QED BY <1>1, <1>4, <1>5 DEF FanoutInv

LEMMA ListAppsInv ==
  ASSUME FanoutInv, NEW p \in Parents, ListApps(p) PROVE FanoutInv'
<1>1. TypeOK'
  BY ListAppsType DEF FanoutInv
<1>2. \A q \in Parents : parent'[q].gen = parent[q].gen
  BY DEF FanoutInv, TypeOK, ListApps
<1>3. UNCHANGED <<gen, due, scope, annotation, app, rendered>>
  BY DEF ListApps
<1>4. Reached'
  BY <1>2, <1>3 DEF FanoutInv, Reached, Carries
<1>5. Carried' /\ Growing'
  BY <1>3 DEF FanoutInv, Carried, Growing, Carries
<1> QED BY <1>1, <1>4, <1>5 DEF FanoutInv

LEMMA StampAppInv ==
  ASSUME FanoutInv, NEW p \in Parents, NEW a \in Apps, StampApp(p, a) PROVE FanoutInv'
<1>1. TypeOK'
  BY StampAppType DEF FanoutInv
<1>2. \A q \in Parents : parent'[q].gen = parent[q].gen
  BY DEF FanoutInv, TypeOK, StampApp
<1>3. UNCHANGED <<gen, scope, app, rendered>>
  BY DEF StampApp
<1>4. due \subseteq due'
  BY DEF StampApp
<1>5. \A b \in Apps : \/ annotation'[b] = annotation[b]
                      \/ annotation'[b] = <<p, parent[p].gen>> /\ b \in due'
  BY DEF FanoutInv, TypeOK, StampApp, Revision
<1>6. Reached'
  <2> SUFFICES ASSUME NEW b \in Apps, NEW q \in Parents, Carries(b, q)'
               PROVE  annotation'[b][2] <= gen[q]
    BY <1>2, <1>3 DEF FanoutInv, Reached
  <2>1. CASE annotation'[b] = annotation[b]
    BY <2>1 DEF FanoutInv, Reached, Carries
  <2>2. CASE annotation'[b] = <<p, parent[p].gen>>
    BY <2>2 DEF FanoutInv, Reached, Carries
  <2> QED BY <1>5, <2>1, <2>2
<1>7. Carried'
  BY <1>3, <1>4, <1>5 DEF FanoutInv, Carried, Carries
<1>8. Growing'
  BY <1>3 DEF FanoutInv, Growing
<1> QED BY <1>1, <1>6, <1>7, <1>8 DEF FanoutInv

LEMMA WriteParentInv ==
  ASSUME FanoutInv, NEW p \in Parents, WriteParent(p) PROVE FanoutInv'
<1> USE FanoutAssumption DEF FanoutAssumption
<1>1. TypeOK'
  BY WriteParentType DEF FanoutInv
<1>2. \A q \in Parents : parent'[q].gen = IF q = p THEN 0 ELSE parent[q].gen
  BY DEF FanoutInv, TypeOK, WriteParent, NoParentFrame
<1>3. /\ UNCHANGED <<gen, scope, annotation, app, rendered>>
      /\ \A a \in Apps : a \in due' <=> a \in due
  BY DEF WriteParent
<1>4. \A q \in Parents : gen[q] \in Nat
  BY DEF FanoutInv, TypeOK
<1>5. Reached'
  BY <1>2, <1>3, <1>4 DEF FanoutInv, Reached, Carries
<1>6. Carried' /\ Growing'
  BY <1>3 DEF FanoutInv, Carried, Growing, Carries
<1> QED BY <1>1, <1>5, <1>6 DEF FanoutInv

LEMMA CallAppInv ==
  ASSUME FanoutInv, NEW a \in Apps, CallApp(a) PROVE FanoutInv'
<1>1. TypeOK'
  BY CallAppType DEF FanoutInv
<1>2. UNCHANGED <<gen, parent, scope, annotation, rendered>>
  BY DEF CallApp
<1>3. /\ app'[a].pc = "read" /\ app'[a].todo = scope[a]
      /\ app'[a].view = rendered[a]
      /\ \A b \in Apps \ {a} : app'[b] = app[b] /\ (b \in due' <=> b \in due)
  BY DEF FanoutInv, TypeOK, CallApp
<1>4. Reached'
  BY <1>2 DEF FanoutInv, Reached, Carries
<1>5. Carried'
  BY <1>2, <1>3 DEF FanoutInv, Carried, Carries
<1>6. Growing'
  BY <1>2, <1>3, Numbers DEF FanoutInv, Growing
<1> QED BY <1>1, <1>4, <1>5, <1>6 DEF FanoutInv

LEMMA ReadParentInv ==
  ASSUME FanoutInv, NEW a \in Apps, NEW p \in Parents, ReadParent(a, p) PROVE FanoutInv'
<1>1. TypeOK'
  BY ReadParentType DEF FanoutInv
<1>2. UNCHANGED <<gen, parent, scope, annotation, rendered>>
  BY DEF ReadParent
<1>3. \A b \in Apps \ {a} : app'[b] = app[b] /\ (b \in due' <=> b \in due)
  BY DEF FanoutInv, TypeOK, ReadParent
<1>4. Reached'
  BY <1>2 DEF FanoutInv, Reached, Carries
<1>5. CASE gen[p] # 0
  <2>1. /\ app'[a].pc = "read" /\ app[a].pc = "read"
        /\ app'[a].todo = app[a].todo \ {p}
        /\ app'[a].view = [app[a].view EXCEPT ![p] = Reads(p)] /\ due' = due
    BY <1>5 DEF FanoutInv, TypeOK, ReadParent
  <2>2. app[a].view \in [Parents -> Nat]
    BY DEF FanoutInv, TypeOK, AppFrame
  <2>3. \A q \in Parents \ Domains :
          app'[a].view[q] = IF q = p THEN gen[q] ELSE app[a].view[q]
    BY <2>1, <2>2 DEF Reads
  <2>4. Carried'
    BY <1>2, <1>3, <2>1, <2>3, Numbers DEF FanoutInv, Carried, Reached, Carries
  <2>5. Growing'
    <3> SUFFICES ASSUME NEW b \in Apps, NEW q \in Parents \ Domains
                 PROVE  /\ rendered[b][q] <= gen[q]
                        /\ app'[b].pc = "read" =>
                             /\ rendered[b][q] <= app'[b].view[q]
                             /\ app'[b].view[q] <= gen[q]
      BY <1>2 DEF Growing
    <3>1. gen[q] \in Nat /\ rendered[b][q] <= gen[q]
      BY ParentNumbers DEF FanoutInv, Growing
    <3>2. CASE b = a
      <4>1. CASE q = p
        BY <2>3, <3>1, <3>2, <4>1
      <4>2. CASE q # p
        <5>1. app'[a].view[q] = app[a].view[q]
          BY <2>3, <4>2
        <5> QED BY <2>1, <3>1, <3>2, <5>1 DEF FanoutInv, Growing
      <4> QED BY <4>1, <4>2
    <3>3. CASE b # a
      BY <1>3, <3>1, <3>3 DEF FanoutInv, Growing
    <3> QED BY <3>2, <3>3
  <2> QED BY <1>1, <1>4, <2>4, <2>5 DEF FanoutInv
<1>6. CASE gen[p] = 0
  <2>1. app'[a].pc = "idle" /\ a \in due'
    BY <1>6 DEF FanoutInv, TypeOK, ReadParent, NoAppFrame
  <2>2. Carried' /\ Growing'
    BY <1>2, <1>3, <2>1 DEF FanoutInv, Carried, Growing, Carries
  <2> QED BY <1>1, <1>4, <2>2 DEF FanoutInv
<1> QED BY <1>5, <1>6

LEMMA RenderInv ==
  ASSUME FanoutInv, NEW a \in Apps, Render(a) PROVE FanoutInv'
<1>1. TypeOK'
  BY RenderType DEF FanoutInv
<1>2. UNCHANGED <<gen, parent, scope, annotation>>
  BY DEF Render
<1>3. \A b \in Apps \ {a} : /\ app'[b] = app[b] /\ rendered'[b] = rendered[b]
                            /\ b \in due' <=> b \in due
  BY DEF FanoutInv, TypeOK, Render
<1>4. /\ app[a].pc = "read" /\ app[a].todo = {} /\ app'[a].pc = "idle"
      /\ rendered'[a] = app[a].view /\ (a \in due => a \in due')
  BY DEF FanoutInv, TypeOK, Render, StillDue, NoAppFrame
<1>5. Reached'
  BY <1>2 DEF FanoutInv, Reached, Carries
<1>6. Carried'
  BY <1>2, <1>3, <1>4 DEF FanoutInv, Carried, Carries
<1>7. Growing'
  BY <1>2, <1>3, <1>4 DEF FanoutInv, Growing
<1> QED BY <1>1, <1>5, <1>6, <1>7 DEF FanoutInv

LEMMA EditParentInv ==
  ASSUME FanoutInv, NEW p \in Parents, EditParent(p) PROVE FanoutInv'
<1> USE FanoutAssumption DEF FanoutAssumption
<1>1. TypeOK'
  BY DEF FanoutInv, TypeOK, EditParent, counts
<1>2. /\ UNCHANGED <<parent, scope, annotation, app, rendered>>
      /\ \A a \in Apps : a \in due' <=> a \in due
  BY DEF EditParent
<1>3. \A q \in Parents : gen'[q] \in Nat /\ gen[q] \in Nat /\ gen[q] <= gen'[q]
  BY DEF FanoutInv, TypeOK, EditParent
<1>4. Reached'
  <2>1. \A q \in Parents : parent'[q].gen <= gen'[q]
    BY <1>2, <1>3, ParentNumbers DEF FanoutInv, Reached
  <2>2. ASSUME NEW a \in Apps, NEW q \in Parents, Carries(a, q)'
        PROVE  annotation'[a][2] <= gen'[q]
    <3>1. Carries(a, q) /\ annotation'[a][2] = annotation[a][2]
      BY <1>2, <2>2 DEF Carries
    <3> QED BY <1>3, <3>1, Numbers DEF FanoutInv, Reached
  <2> QED BY <2>1, <2>2 DEF Reached
<1>5. Carried'
  BY <1>2 DEF FanoutInv, Carried, Carries
<1>6. Growing'
  BY <1>2, <1>3, Numbers DEF FanoutInv, Growing
<1> QED BY <1>1, <1>4, <1>5, <1>6 DEF FanoutInv

LEMMA RetargetInv ==
  ASSUME FanoutInv, NEW a \in Apps, Retarget(a) PROVE FanoutInv'
<1> USE FanoutAssumption DEF FanoutAssumption
<1>1. TypeOK'
  BY RetargetType DEF FanoutInv
<1>2. UNCHANGED <<gen, parent, annotation, app, rendered>>
  BY DEF Retarget
<1>3. /\ a \in due'
      /\ \A b \in Apps \ {a} : scope'[b] = scope[b] /\ (b \in due' <=> b \in due)
  BY DEF FanoutInv, TypeOK, Retarget
<1>4. Reached' /\ Growing'
  BY <1>2 DEF FanoutInv, Reached, Growing, Carries
<1>5. Carried'
  BY <1>2, <1>3 DEF FanoutInv, Carried, Carries
<1> QED BY <1>1, <1>4, <1>5 DEF FanoutInv

LEMMA RestartInv == ASSUME FanoutInv, Restart PROVE FanoutInv'
<1> USE FanoutAssumption DEF FanoutAssumption
<1>1. TypeOK'
  BY DEF FanoutInv, TypeOK, Restart, NoParentFrame, ParentFrame, NoAppFrame, AppFrame
<1>2. UNCHANGED <<gen, scope, annotation, rendered>> /\ Apps \subseteq due'
  BY DEF Restart
<1>3. /\ \A q \in Parents : parent'[q].gen = 0
      /\ \A a \in Apps : app'[a].pc = "idle"
  BY DEF Restart, NoParentFrame, NoAppFrame
<1>4. \A q \in Parents : gen[q] \in Nat
  BY DEF FanoutInv, TypeOK
<1>5. Reached'
  BY <1>2, <1>3, <1>4 DEF FanoutInv, Reached, Carries
<1>6. Carried' /\ Growing'
  BY <1>2, <1>3 DEF FanoutInv, Carried, Growing, Carries
<1> QED BY <1>1, <1>5, <1>6 DEF FanoutInv

LEMMA FanoutInvStep == FanoutInv /\ [Next]_vars => FanoutInv'
<1> SUFFICES ASSUME FanoutInv, [Next]_vars PROVE FanoutInv'
  OBVIOUS
<1>1. CASE \E p \in Parents : ParentStep(p)
  BY <1>1, CallParentInv, ListAppsInv, StampAppInv, WriteParentInv DEF ParentStep
<1>2. CASE \E a \in Apps : AppStep(a)
  BY <1>2, CallAppInv, ReadParentInv, RenderInv DEF AppStep
<1>3. CASE \E p \in Parents : EditParent(p)
  BY <1>3, EditParentInv
<1>4. CASE \E a \in Apps : Retarget(a)
  BY <1>4, RetargetInv
<1>5. CASE Restart
  BY <1>5, RestartInv
<1>6. CASE UNCHANGED vars
  BY <1>6, FanoutTypeStep
  DEF vars, counts, FanoutInv, Reached, Carried, Growing, Carries
<1> QED BY <1>1, <1>2, <1>3, <1>4, <1>5, <1>6 DEF Next

\* No annotation is ahead of its parent, and the revision an Application
\* carries is rendered, read, still to be read, or cause for another call.
THEOREM FanoutInvariant == Spec => []FanoutInv
<1>1. Init => FanoutInv
  BY FanoutInvInit
<1>2. FanoutInv /\ [Next]_vars => FanoutInv'
  BY FanoutInvStep
<1> QED BY <1>1, <1>2, PTL DEF Spec

----------------------------------------------------------------------------
(* The properties *)

\* An Application with nothing left to do has rendered the generation of the
\* revision it was stamped with, or a later one: the skip of a stamp that is
\* there already (requeue.py:69) loses no change, however many parents share
\* the annotation and however often the controller restarts.
THEOREM RevisionsAreRendered == Spec => []RevisionIsRendered
<1>1. FanoutInv => RevisionIsRendered
  BY DEF FanoutInv, Carried, RevisionIsRendered, Quiet
<1> QED BY <1>1, FanoutInvariant, PTL

\* No step of any handler, user or restart renders an Application from an
\* older generation of a parent than it was rendered from before.
THEOREM NothingRenderedBackwards == Spec => NeverRendersBackwards
<1>1. ASSUME FanoutInv, [Next]_vars, NEW a \in Apps, NEW p \in Parents \ Domains
      PROVE  rendered'[a][p] >= rendered[a][p]
  <2>1. rendered[a][p] \in Nat
    BY <1>1, Numbers DEF FanoutInv
  <2>2. CASE rendered'[a] = rendered[a]
    BY <2>1, <2>2
  <2>3. CASE \E b \in Apps : Render(b)
    <3>1. PICK b \in Apps : Render(b)
      BY <2>3
    <3>2. CASE b = a
      <4>1. rendered'[a][p] = app[a].view[p] /\ app[a].pc = "read"
        BY <1>1, <3>1, <3>2 DEF FanoutInv, TypeOK, Render
      <4> QED BY <1>1, <4>1, Numbers DEF FanoutInv, Growing
    <3>3. CASE b # a
      BY <1>1, <2>1, <3>1, <3>3 DEF FanoutInv, TypeOK, Render
    <3> QED BY <3>2, <3>3
  <2>4. rendered' = rendered \/ \E b \in Apps : Render(b)
    BY <1>1 DEF Next, ParentStep, AppStep, CallParent, ListApps, StampApp,
                WriteParent, CallApp, ReadParent, EditParent, Retarget,
                Restart, vars, counts
  <2> QED BY <2>2, <2>3, <2>4
<1>2. FanoutInv /\ [Next]_vars =>
        [\A a \in Apps, p \in Parents \ Domains :
            rendered'[a][p] >= rendered[a][p]]_vars
  BY <1>1
<1> QED BY <1>2, FanoutInvariant, PTL DEF Spec, NeverRendersBackwards
=============================================================================
