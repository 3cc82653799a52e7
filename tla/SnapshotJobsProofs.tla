-------------------------- MODULE SnapshotJobsProofs --------------------------
(***************************************************************************)
(* Proofs about SnapshotJobs, for every set of Snapshots and Applications, *)
(* every layout of namespaces, every restoreFrom and every bound.  No      *)
(* condition is put on what users do: an edit of a Snapshot, a Workflow    *)
(* that its finalizer could not delete and a namespace in which the jobs   *)
(* of two Applications met are on record in stale and contested, and the   *)
(* properties except those alone.                                          *)
(*                                                                         *)
(* SnapshotInv follows a job from its status back to the object store.  A  *)
(* Completed status, or one that is about to be written, is its Workflow's *)
(* (JobInv); the frame, the Workflow and the dump of a Snapshot are of one *)
(* birth (SnapInv), which is what a handler that was called before a       *)
(* deletion could break; the dump a restore has found is there for good,   *)
(* and only newer ones replace it (CloneInv); and where no two jobs met    *)
(* the password Secret is as it was copied, although nobody locks it       *)
(* (PassInv).                                                              *)
(***************************************************************************)
EXTENDS SnapshotJobs, TLAPS

----------------------------------------------------------------------------
(* Frames and Workflows *)

\* What the types say of one job.
LEMMA JobFacts ==
  ASSUME TypeOK, NEW j \in Jobs
  PROVE  /\ handler[j] \in Frame /\ status[j] \in Status /\ handler[j].out \in Status
         /\ handler[j].birth \in 0 .. MaxOps /\ due[j] \in BOOLEAN
         /\ wf[j] # None => wf[j] \in Workflow
         /\ j \in Snaps => /\ births[j] \in 0 .. MaxOps /\ s3[j] \in Dump \cup {None}
                           /\ snap[j] # None => snap[j] \in Snapshot
         /\ j \in Clones => loaded[j] \in Dump \cup {None} /\ From[j] \in Snaps
                            /\ From[j] \in Jobs /\ j \in Apps
         /\ j \in Snaps <=> j \notin Clones
  BY SnapshotAssumption DEF TypeOK, Frame, SnapshotAssumption, Jobs

\* An idle handler has nothing to report.
LEMMA IdleFacts ==
  /\ Idle \in Frame /\ NoStatus \in Status /\ Idle.pc = "idle" /\ Idle.out = NoStatus
  /\ NoStatus.phase # "Completed"
  BY SnapshotAssumption DEF SnapshotAssumption, Idle, Frame, NoStatus, Status

\* The bounds are numbers.
LEMMA Bounds ==
  ASSUME TypeOK
  PROVE  MaxOps \in Nat /\ MaxFaults \in Nat /\ ops \in Nat /\ faults \in Nat
  BY SnapshotAssumption DEF SnapshotAssumption, TypeOK

\* A status keeps what it reports when only ready changes.
LEMMA ReadyFacts ==
  ASSUME NEW f \in Frame
  PROVE  /\ NotReady(f) \in Status /\ Ready(f) \in Status
         /\ NotReady(f).phase = f.out.phase /\ NotReady(f).source = f.out.source
         /\ Ready(f).phase = f.out.phase /\ Ready(f).source = f.out.source
<1>1. PICK out \in Status : out = f.out
  BY DEF Frame
<1>2. PICK a, b : a = [out EXCEPT !.ready = FALSE] /\ b = [out EXCEPT !.ready = TRUE]
  OBVIOUS
<1>3. /\ a \in Status /\ a.phase = out.phase /\ a.source = out.source
      /\ b \in Status /\ b.phase = out.phase /\ b.source = out.source
  BY <1>2 DEF Status
<1> QED BY <1>1, <1>2, <1>3 DEF NotReady, Ready

\* The frame of j is another one.
Framed(j, h) ==
    /\ handler' \in [Jobs -> Frame] /\ handler'[j] = h
    /\ \A i \in Jobs \ {j} : handler'[i] = handler[i]

\* An assignment to a frame is a step of that frame.
LEMMA HandlerStep ==
  ASSUME TypeOK, NEW j \in Jobs, NEW h \in Frame, handler' = [handler EXCEPT ![j] = h]
  PROVE  Framed(j, h)
  BY DEF TypeOK, Framed

\* A handler that fails keeps what it works on, and has its patch to write.
LEMMA FailStep ==
  ASSUME TypeOK, NEW j \in Jobs, Fail(j)
  PROVE  /\ \E h \in Frame : /\ Framed(j, h) /\ h.pc = "write" /\ h.app = handler[j].app
                             /\ h.birth = handler[j].birth /\ h.out = NotReady(handler[j])
         /\ due' \in [Jobs -> BOOLEAN]
<1>1. PICK f \in Frame : f = handler[j]
  BY JobFacts
<1>2. PICK out \in Status : out = NotReady(f)
  BY ReadyFacts
<1>3. PICK h : h = [f EXCEPT !.pc = "write", !.out = out]
  OBVIOUS
<1>4. h \in Frame /\ h.pc = "write" /\ h.app = f.app /\ h.birth = f.birth /\ h.out = out
  BY <1>3 DEF Frame
<1>5. handler' = [handler EXCEPT ![j] = h]
  BY <1>1, <1>2, <1>3 DEF Fail
<1>6. due' \in [Jobs -> BOOLEAN]
  BY DEF Fail, TypeOK, CalledAgain
<1> QED BY <1>1, <1>2, <1>4, <1>5, <1>6, HandlerStep

----------------------------------------------------------------------------
(* What a step leaves alone *)

Same(i) ==
    /\ handler'[i] = handler[i] /\ wf'[i] = wf[i] /\ status'[i] = status[i]
    /\ i \in Snaps => snap'[i] = snap[i] /\ births'[i] = births[i]
    /\ i \in Clones => loaded'[i] = loaded[i]

\* History grows, and so do the dumps of a Snapshot.
Grows ==
    /\ contested \subseteq contested' /\ stale \subseteq stale' /\ ops <= ops'
    /\ \A n \in Snaps : s3[n] # None =>
         s3'[n] # None /\ (n \notin stale => s3[n].birth <= s3'[n].birth)

\* A step of the job j, with no dump written but j's.
Alone(j) ==
    /\ \A i \in Jobs \ {j} : Same(i)
    /\ \A n \in Snaps \ {j} : s3'[n] = s3[n]

\* The dump a restore has found is still there, or a newer one.
LEMMA SinceKept ==
  ASSUME TypeOK, TypeOK', Grows, NEW c \in Clones, NEW birth \in 0 .. MaxOps,
         Since(c, birth, s3[From[c]])
  PROVE  s3'[From[c]] # None /\ (From[c] \notin stale' => birth <= s3'[From[c]].birth)
<1>1. From[c] \in Snaps
  BY JobFacts DEF Jobs
<1>2. /\ s3[From[c]] # None /\ s3'[From[c]] # None
      /\ From[c] \notin stale' => From[c] \notin stale
      /\ From[c] \notin stale => birth <= s3[From[c]].birth
                                 /\ s3[From[c]].birth <= s3'[From[c]].birth
  BY <1>1 DEF Grows, Since
<1>3. s3[From[c]].birth \in 1 .. MaxOps /\ s3'[From[c]].birth \in 1 .. MaxOps
  BY <1>1, <1>2 DEF TypeOK, Dump
<1>4. MaxOps \in Nat
  BY Bounds
<1> QED BY <1>2, <1>3, <1>4 DEF Since

\* What a step leaves alone keeps its part of the invariant.
LEMMA OtherJob ==
  ASSUME SnapshotInv, TypeOK', Grows, NEW i \in Jobs, Same(i), i \in Snaps => s3'[i] = s3[i]
  PROVE  JobInv(i)' /\ (i \in Snaps => SnapInv(i)') /\ (i \in Clones => CloneInv(i)')
<1>1. TypeOK /\ JobInv(i) /\ (i \in Snaps => SnapInv(i)) /\ (i \in Clones => CloneInv(i))
  BY DEF SnapshotInv
<1>2. i \notin stale' => i \notin stale
  BY DEF Grows
<1>3. JobInv(i)'
  BY <1>1, <1>2 DEF JobInv, Same, Busy, Reported, Has
<1>4. ASSUME i \in Snaps PROVE SnapInv(i)'
  <2>1. births'[i] <= ops'
    <3>1. births[i] \in Nat /\ ops \in Nat /\ ops' \in Nat
      BY <1>1, <1>4, JobFacts, Bounds DEF TypeOK
    <3> QED BY <1>1, <1>4, <3>1 DEF SnapInv, Same, Grows
  <2> QED BY <1>1, <1>2, <1>4, <2>1 DEF SnapInv, Same, Busy, Exists, Has
<1>5. ASSUME i \in Clones PROVE CloneInv(i)'
  <2>1. Preparing(i)' => Since(i, handler[i].birth, s3[From[i]])'
    <3>1. Preparing(i)' => Preparing(i)
      BY DEF Same, Preparing
    <3> QED BY <1>1, <1>5, <3>1, SinceKept, JobFacts DEF CloneInv, Same, Since
  <2>2. wf[i] # None => wf[i].birth \in 0 .. MaxOps
    BY <1>1, JobFacts DEF Workflow
  <2>3. wf'[i] # None => wf'[i].app = i /\ Since(i, wf[i].birth, s3[From[i]])'
    BY <1>1, <1>5, <2>2, SinceKept DEF CloneInv, Same, Since
  <2>4. Has(i, {"Started", "Succeeded"})' => Since(i, wf[i].birth, wf[i].work)'
    BY <1>1, <1>5 DEF CloneInv, Since, Same, Grows, Has
  <2> QED BY <1>1, <1>5, <2>1, <2>3, <2>4 DEF CloneInv, Same, Busy, Preparing, Has
<1> QED BY <1>3, <1>4, <1>5

\* The invariant of all jobs, from that of the one that moved.
LEMMA JobStep ==
  ASSUME SnapshotInv, NEW j \in Jobs, TypeOK', Grows, Alone(j), PassInv',
         JobInv(j)', j \in Snaps => SnapInv(j)', j \in Clones => CloneInv(j)'
  PROVE  SnapshotInv'
<1>1. \A i \in Jobs \ {j} :
        JobInv(i)' /\ (i \in Snaps => SnapInv(i)') /\ (i \in Clones => CloneInv(i)')
  BY OtherJob DEF Alone
<1> QED BY <1>1 DEF SnapshotInv, Jobs

----------------------------------------------------------------------------
(* The Secret with the password *)

\* A job copies the password of an Application, of one that it needs.
LEMMA UsingType ==
  ASSUME TypeOK, NEW j \in Jobs, JobInv(j)
  PROVE  Using(j) \subseteq Apps /\ Copied(j) \subseteq Using(j)
<1>1. wf[j] # None => wf[j].app \in Apps
  BY JobFacts DEF Workflow
<1> QED BY <1>1 DEF Using, Copied, Has, JobInv, Busy

\* No job needs, or has had copied, another password than before.
LEMMA PassKept ==
  ASSUME PassInv, dbpass' = dbpass, contested \subseteq contested',
         \A i \in Jobs : Using(i)' \subseteq Using(i) /\ Copied(i)' \subseteq Copied(i),
         \A i \in Jobs : wf'[i] # None /\ wf'[i].phase = "Failed" =>
            \/ wf'[i] = wf[i]
            \/ NsOf[wf'[i].app] \in contested'
  PROVE  PassInv'
<1>1. \A i, j \in Jobs : \A a \in Using(i)', b \in Using(j)' :
         NsOf[a] = NsOf[b] => a = b \/ NsOf[a] \in contested'
  BY DEF PassInv
<1>2. \A i \in Jobs : \A a \in Copied(i)' : dbpass'[NsOf[a]] = a \/ NsOf[a] \in contested'
  BY DEF PassInv
<1>3. FailedMeansContested'
  BY DEF PassInv, FailedMeansContested
<1> QED BY <1>1, <1>2, <1>3 DEF PassInv

\* A job that has a password copied that it was going to need.
LEMMA PassCopied ==
  ASSUME TypeOK, PassInv, NEW j \in Jobs, NEW a \in Apps, a \in Using(j),
         dbpass' = [dbpass EXCEPT ![NsOf[a]] = a], UNCHANGED <<wf, contested>>,
         \A i \in Jobs : Using(i)' \subseteq Using(i),
         \A i \in Jobs : Copied(i)' \subseteq Copied(i) \cup {a},
         \A i \in Jobs : Copied(i) \subseteq Using(i)
  PROVE  PassInv'
<1>1. \A i, k \in Jobs : \A b \in Using(i)', c \in Using(k)' :
         NsOf[b] = NsOf[c] => b = c \/ NsOf[b] \in contested'
  BY DEF PassInv
<1>2. ASSUME NEW i \in Jobs, NEW b \in Copied(i)'
      PROVE  dbpass'[NsOf[b]] = b \/ NsOf[b] \in contested'
  <2>1. NsOf[a] \in Namespaces
    BY DEF Namespaces
  <2>2. CASE NsOf[b] # NsOf[a]
    <3>1. b \in Copied(i)
      BY <1>2, <2>2
    <3> QED BY <2>2, <3>1 DEF PassInv
  <2>3. CASE NsOf[b] = NsOf[a]
    <3>1. b = a \/ NsOf[b] \in contested
      BY <1>2, <2>3 DEF PassInv
    <3> QED BY <2>1, <2>3, <3>1 DEF TypeOK
  <2> QED BY <2>2, <2>3
<1>3. FailedMeansContested'
  BY DEF PassInv, FailedMeansContested
<1> QED BY <1>1, <1>2, <1>3 DEF PassInv

\* A job that begins to need a password: those that it meets are recorded.
LEMMA PassBegun ==
  ASSUME PassInv, NEW j \in Jobs, NEW a \in Apps, UNCHANGED <<wf, dbpass>>,
         contested' = IF Meets(a) THEN contested \cup {NsOf[a]} ELSE contested,
         \A i \in Jobs : Using(i)' \subseteq Using(i) \cup {a},
         \A i \in Jobs : Copied(i)' \subseteq Copied(i)
  PROVE  PassInv'
<1>1. ASSUME NEW i \in Jobs, NEW b \in Using(i), NsOf[a] = NsOf[b]
      PROVE  a = b \/ NsOf[a] \in contested'
  BY <1>1 DEF Meets
<1>2. ASSUME NEW i \in Jobs, NEW k \in Jobs, NEW b \in Using(i)', NEW c \in Using(k)',
             NsOf[b] = NsOf[c]
      PROVE  b = c \/ NsOf[b] \in contested'
  <2>1. contested \subseteq contested'
    OBVIOUS
  <2>2. CASE b \in Using(i) /\ c \in Using(k)
    BY <1>2, <2>1, <2>2 DEF PassInv
  <2>3. CASE b \notin Using(i) /\ c \in Using(k)
    <3>1. b = a
      BY <2>3
    <3> QED BY <1>1, <1>2, <2>3, <3>1
  <2>4. CASE c \notin Using(k) /\ b \in Using(i)
    <3>1. c = a
      BY <2>4
    <3> QED BY <1>1, <1>2, <2>4, <3>1
  <2>5. CASE b \notin Using(i) /\ c \notin Using(k)
    BY <2>5
  <2> QED BY <2>2, <2>3, <2>4, <2>5
<1>3. contested \subseteq contested'
  OBVIOUS
<1>4. \A i \in Jobs : \A b \in Copied(i)' : dbpass'[NsOf[b]] = b \/ NsOf[b] \in contested'
  BY <1>3 DEF PassInv
<1>5. FailedMeansContested'
  BY <1>3 DEF PassInv, FailedMeansContested
<1> QED BY <1>2, <1>4, <1>5 DEF PassInv

----------------------------------------------------------------------------
(* The handlers *)

\* A handler that is called ends at once or goes on with a new frame.
LEMMA BeginCases ==
  ASSUME TypeOK, NEW j \in Jobs, Begin(j)
  PROVE  /\ handler[j].pc = "idle" /\ (j \in Snaps => Exists(j)) /\ due' \in [Jobs -> BOOLEAN]
         /\ UNCHANGED <<snap, births, connected, dbpass, wf, s3, loaded, stale, ops, faults>>
         /\ \/ /\ UNCHANGED <<handler, contested>>
               /\ \E st \in Status : /\ status' = [status EXCEPT ![j] = st]
                                     /\ st.phase = status[j].phase /\ st.source = status[j].source
            \/ /\ UNCHANGED status
               /\ \E h \in Frame :
                    /\ handler' = [handler EXCEPT ![j] = h]
                    /\ h.pc = "secrets" /\ h.out = status[j] /\ h.app \in Apps
                    /\ contested' = IF Meets(h.app) THEN contested \cup {NsOf[h.app]}
                                    ELSE contested
                    /\ j \in Snaps => h.app = snap[j].app /\ h.birth = snap[j].birth
                    /\ j \in Clones => /\ h.app = j /\ Usable(From[j])
                                       /\ h.birth = snap[From[j]].birth
                    /\ h.birth \in 1 .. MaxOps
<1> DEFINE f == [pc |-> "secrets", app |-> IF j \in Snaps THEN snap[j].app ELSE j,
                 birth |-> IF j \in Snaps THEN snap[j].birth ELSE 0, out |-> status[j]]
           done == j \in Clones /\ status[j].phase = "Completed"
           lacking == f.app \notin connected \/ (j \in Clones /\ ~done /\ ~Usable(From[j]))
<1>1. /\ handler[j].pc = "idle" /\ (j \in Snaps => Exists(j))
      /\ UNCHANGED <<snap, births, connected, dbpass, wf, s3, loaded, stale, ops, faults>>
      /\ IF lacking \/ done
         THEN /\ status' = [status EXCEPT ![j] = IF lacking THEN NotReady(f) ELSE Ready(f)]
              /\ UNCHANGED handler
         ELSE /\ handler' = [handler EXCEPT ![j] =
                   IF j \in Clones THEN [f EXCEPT !.birth = snap[From[j]].birth] ELSE f]
              /\ UNCHANGED status
      /\ due' = [due EXCEPT ![j] = lacking /\ CalledAgain("Failed")]
      /\ contested' = IF ~lacking /\ ~done /\ Meets(f.app)
                      THEN contested \cup {NsOf[f.app]} ELSE contested
  BY DEF Begin
<1>2. /\ j \in Snaps => snap[j].app \in Apps /\ snap[j].birth \in 1 .. MaxOps
      /\ j \in Clones => j \in Apps /\ From[j] \in Snaps
      /\ j \in Snaps <=> j \notin Clones
      /\ status[j] \in Status /\ MaxOps \in Nat
  BY <1>1, JobFacts, Bounds DEF Exists, Snapshot
<1>3. /\ f.pc = "secrets" /\ f.out = status[j] /\ f \in Frame
      /\ j \in Snaps => f.app = snap[j].app /\ f.birth = snap[j].birth
      /\ j \in Clones => f.app = j
  <2>1. /\ j \in Snaps => snap[j].app \in Apps /\ snap[j].birth \in 0 .. MaxOps
        /\ j \in Clones => j \in Apps
        /\ 0 \in 0 .. MaxOps
    BY <1>2
  <2> QED BY <1>2, <2>1 DEF Frame, Jobs
<1>4. due' \in [Jobs -> BOOLEAN]
  <2>1. PICK again : again = (lacking /\ CalledAgain("Failed"))
    OBVIOUS
  <2>2. again \in BOOLEAN
    BY <2>1, Zenon
  <2>3. due' = [due EXCEPT ![j] = again]
    BY <1>1, <2>1
  <2> QED BY <2>2, <2>3 DEF TypeOK
<1> HIDE DEF f
<1>5. CASE lacking \/ done
  <2>1. PICK st : st = IF lacking THEN NotReady(f) ELSE Ready(f)
    OBVIOUS
  <2>2. st \in Status /\ st.phase = status[j].phase /\ st.source = status[j].source
    BY <1>3, <2>1, ReadyFacts
  <2> QED BY <1>1, <1>4, <1>5, <2>1, <2>2
<1>6. CASE ~(lacking \/ done)
  <2>1. PICK h : h = IF j \in Clones THEN [f EXCEPT !.birth = snap[From[j]].birth] ELSE f
    OBVIOUS
  <2>2. j \in Clones => Usable(From[j]) /\ snap[From[j]].birth \in 1 .. MaxOps
    BY <1>2, <1>6, JobFacts DEF Usable, Snapshot, Jobs
  <2>3. h \in Frame
    BY <1>2, <1>3, <2>1, <2>2 DEF Frame
  <2>4. /\ h.pc = "secrets" /\ h.out = status[j] /\ h.app = f.app
        /\ j \in Clones => h.birth = snap[From[j]].birth
        /\ j \in Snaps => h.birth = f.birth
    BY <1>2, <1>3, <2>1 DEF Frame
  <2>5. h.app \in Apps /\ h.birth \in 1 .. MaxOps
    BY <1>2, <1>3, <2>2, <2>4 DEF Jobs
  <2> QED BY <1>1, <1>2, <1>3, <1>4, <1>6, <2>1, <2>2, <2>3, <2>4, <2>5
<1> QED BY <1>5, <1>6

\* A Snapshot that can be used has its dump in the store, of its own birth.
LEMMA UsableDump ==
  ASSUME SnapshotInv, NEW c \in Clones, Usable(From[c])
  PROVE  Since(c, snap[From[c]].birth, s3[From[c]])
<1>1. From[c] \in Snaps /\ From[c] \in Jobs /\ TypeOK
  BY JobFacts DEF SnapshotInv, Jobs
<1>2. Has(From[c], {"Succeeded"})
  BY <1>1 DEF Usable, SnapshotInv, JobInv, Reported
<1>3. /\ s3[From[c]] = [app |-> wf[From[c]].app, birth |-> wf[From[c]].birth]
      /\ From[c] \notin stale => wf[From[c]].birth = births[From[c]]
      /\ snap[From[c]].birth = births[From[c]]
  BY <1>1, <1>2 DEF SnapshotInv, SnapInv, Has, Usable, Exists
<1>4. wf[From[c]] \in Workflow
  BY <1>1, <1>2, JobFacts DEF Has
<1>5. s3[From[c]] \in Dump /\ s3[From[c]].birth = wf[From[c]].birth
  BY <1>3, <1>4 DEF Dump, Workflow
<1>6. births[From[c]] \in Nat /\ s3[From[c]].birth \in Nat
  BY <1>1, <1>5, JobFacts, Bounds DEF Dump
<1> QED BY <1>3, <1>5, <1>6, SnapshotAssumption DEF Since, SnapshotAssumption

\* The passwords that a job needs are in its frame and its Workflow.
LEMMA UsingSame ==
  ASSUME NEW i \in Jobs, handler'[i] = handler[i], wf'[i] = wf[i]
  PROVE  Using(i)' = Using(i) /\ Copied(i)' = Copied(i)
  BY DEF Using, Copied, Has

\* The Secret is as it was where a job ends or goes on alone.
LEMMA PassAlone ==
  ASSUME PassInv, NEW j \in Jobs, dbpass' = dbpass, contested \subseteq contested', Alone(j),
         Using(j)' \subseteq Using(j), Copied(j)' \subseteq Copied(j),
         wf'[j] # None /\ wf'[j].phase = "Failed" =>
            wf'[j] = wf[j] \/ NsOf[wf'[j].app] \in contested'
  PROVE  PassInv'
<1>1. \A i \in Jobs \ {j} : Using(i)' = Using(i) /\ Copied(i)' = Copied(i) /\ wf'[i] = wf[i]
  BY UsingSame DEF Alone, Same
<1>2. \A i \in Jobs : Using(i)' \subseteq Using(i) /\ Copied(i)' \subseteq Copied(i)
  BY <1>1
<1>3. \A i \in Jobs : wf'[i] # None /\ wf'[i].phase = "Failed" =>
            wf'[i] = wf[i] \/ NsOf[wf'[i].app] \in contested'
  BY <1>1
<1> QED BY <1>2, <1>3, PassKept

\* Begin: what is found is of the present birth, and Usable has a dump.
LEMMA BeginKeeps ==
  ASSUME SnapshotInv, NEW j \in Jobs, Begin(j)
  PROVE  SnapshotInv'
<1>1. TypeOK /\ PassInv /\ JobInv(j) /\ (j \in Snaps => SnapInv(j)) /\ (j \in Clones => CloneInv(j))
  BY DEF SnapshotInv
<1>2. /\ handler[j].pc = "idle" /\ (j \in Snaps => Exists(j)) /\ due' \in [Jobs -> BOOLEAN]
      /\ UNCHANGED <<snap, births, connected, dbpass, wf, s3, loaded, stale, ops, faults>>
  BY <1>1, BeginCases
<1>3. Grows <=> contested \subseteq contested'
  <2>1. ops <= ops' /\ \A n \in Snaps : s3[n] # None => s3[n].birth <= s3[n].birth
    BY <1>1, <1>2, Bounds, SnapshotAssumption DEF TypeOK, Dump, SnapshotAssumption
  <2> QED BY <1>2, <2>1 DEF Grows
<1>4. ASSUME UNCHANGED <<handler, contested>>, NEW st \in Status,
             status' = [status EXCEPT ![j] = st],
             st.phase = status[j].phase, st.source = status[j].source
      PROVE  SnapshotInv'
  <2>1. status' \in [Jobs -> Status] /\ status'[j] = st
    BY <1>1, <1>4 DEF TypeOK
  <2>2. TypeOK'
    BY <1>1, <1>2, <1>4, <2>1 DEF TypeOK
  <2>3. Grows /\ Alone(j)
    BY <1>1, <1>2, <1>3, <1>4 DEF Alone, Same, TypeOK
  <2>4. PassInv'
    <3>1. Using(j)' = Using(j) /\ Copied(j)' = Copied(j) /\ wf'[j] = wf[j]
      BY <1>2, <1>4, UsingSame
    <3> QED BY <1>1, <1>2, <1>4, <2>3, <3>1, PassAlone
  <2>5. JobInv(j)'
    BY <1>1, <1>2, <1>4, <2>1 DEF JobInv, Busy, Reported, Has
  <2>6. ASSUME j \in Snaps PROVE SnapInv(j)'
    BY <1>1, <1>2, <1>4, <2>6 DEF SnapInv, Busy, Exists, Has
  <2>7. ASSUME j \in Clones PROVE CloneInv(j)'
    BY <1>1, <1>2, <1>4, <2>7 DEF CloneInv, Busy, Preparing, Has, Since
  <2> QED BY <2>2, <2>3, <2>4, <2>5, <2>6, <2>7, JobStep
<1>5. ASSUME UNCHANGED status, NEW h \in Frame, handler' = [handler EXCEPT ![j] = h],
             h.pc = "secrets", h.out = status[j], h.app \in Apps, h.birth \in 1 .. MaxOps,
             contested' = IF Meets(h.app) THEN contested \cup {NsOf[h.app]} ELSE contested,
             j \in Snaps => h.app = snap[j].app /\ h.birth = snap[j].birth,
             j \in Clones => /\ h.app = j /\ Usable(From[j])
                             /\ h.birth = snap[From[j]].birth
      PROVE  SnapshotInv'
  <2>1. Framed(j, h) /\ NsOf[h.app] \in Namespaces
    BY <1>1, <1>5, HandlerStep DEF Namespaces
  <2>2. TypeOK'
    <3>1. contested' \subseteq Namespaces
      BY <1>1, <1>5, <2>1 DEF TypeOK
    <3> QED BY <1>1, <1>2, <1>5, <2>1, <3>1 DEF TypeOK, Framed
  <2>3. Grows /\ Alone(j)
    BY <1>1, <1>2, <1>3, <1>5, <2>1 DEF Alone, Same, Framed
  <2>4. PassInv'
    <3>1. \A i \in Jobs \ {j} : Using(i)' = Using(i) /\ Copied(i)' = Copied(i)
      BY <2>3, UsingSame DEF Alone, Same
    <3>2. Using(j)' \subseteq Using(j) \cup {h.app} /\ Copied(j)' \subseteq Copied(j)
      BY <1>2, <1>5, <2>1 DEF Using, Copied, Has, Framed
    <3>3. \A i \in Jobs : Using(i)' \subseteq Using(i) \cup {h.app}
                          /\ Copied(i)' \subseteq Copied(i)
      BY <3>1, <3>2
    <3> QED BY <1>1, <1>2, <1>5, <3>3, PassBegun
  <2>5. JobInv(j)'
    BY <1>1, <1>2, <1>5, <2>1 DEF JobInv, Busy, Reported, Has, Framed
  <2>6. ASSUME j \in Snaps PROVE SnapInv(j)'
    <3>1. Exists(j) /\ h.app = snap[j].app /\ h.birth = births[j]
      BY <1>1, <1>2, <1>5, <2>6 DEF SnapInv
    <3> QED BY <1>1, <1>2, <1>5, <2>1, <2>6, <3>1 DEF SnapInv, Busy, Exists, Has, Framed
  <2>7. ASSUME j \in Clones PROVE CloneInv(j)'
    <3>1. Since(j, h.birth, s3[From[j]])
      BY <1>5, <2>7, UsableDump
    <3> QED BY <1>1, <1>2, <1>5, <2>1, <2>7, <3>1 DEF CloneInv, Busy, Preparing, Has, Since, Framed
  <2> QED BY <2>2, <2>3, <2>4, <2>5, <2>6, <2>7, JobStep
<1> QED BY <1>1, <1>4, <1>5, BeginCases

\* A Workflow is left alone or is new, of what the handler has seen.
LEMMA SubmittedFacts ==
  ASSUME TypeOK, NEW j \in Jobs, JobInv(j), Busy(j),
         NEW w, w = Submitted(wf[j], New(handler[j]))
  PROVE  /\ w \in Workflow /\ w # None
         /\ wf[j] # None => w = wf[j]
         /\ wf[j] = None => /\ w.app = handler[j].app /\ w.birth = handler[j].birth
                            /\ w.phase = "Pending"
<1>1. handler[j].app \in Apps /\ handler[j].birth \in 1 .. MaxOps
  BY DEF JobInv
<1>2. PICK new : new = New(handler[j])
  OBVIOUS
<1>3. /\ new \in Workflow /\ new.app = handler[j].app /\ new.birth = handler[j].birth
      /\ new.phase = "Pending"
  BY <1>1, <1>2 DEF New, Workflow
<1>4. None \notin Workflow
  BY SnapshotAssumption DEF SnapshotAssumption
<1> QED BY <1>2, <1>3, <1>4, JobFacts DEF Submitted

\* A handler that has found its objects copies the password, submits, or fails.
LEMMA HandlerGoesOn ==
  ASSUME SnapshotInv, NEW j \in Jobs, Preparing(j), NEW h \in Frame, Framed(j, h),
         h.app = handler[j].app, h.birth = handler[j].birth, h.pc \in {"submit", "write"},
         Reported(j, h.out)', due' \in [Jobs -> BOOLEAN], faults' \in 0 .. MaxFaults,
         UNCHANGED <<snap, births, connected, status, s3, loaded, contested, stale, ops>>,
         \/ wf' = wf /\ dbpass' = dbpass /\ h.pc = "write"
         \/ wf' = wf /\ dbpass' = [dbpass EXCEPT ![NsOf[handler[j].app]] = handler[j].app]
         \/ /\ wf' = [wf EXCEPT ![j] = Submitted(wf[j], New(handler[j]))]
            /\ dbpass' = dbpass /\ handler[j].pc = "submit" /\ h.pc = "write"
  PROVE  SnapshotInv'
<1>1. /\ TypeOK /\ PassInv /\ JobInv(j) /\ Busy(j)
      /\ (j \in Snaps => SnapInv(j)) /\ (j \in Clones => CloneInv(j))
  BY DEF SnapshotInv, Preparing, Busy
<1>2. PICK a \in Apps : a = handler[j].app
  BY <1>1 DEF JobInv
<1>3. PICK w : w = wf'[j]
  OBVIOUS
<1>4. /\ wf' \in [Jobs -> Workflow \cup {None}] /\ \A i \in Jobs \ {j} : wf'[i] = wf[i]
      /\ wf[j] # None => w = wf[j]
      /\ wf[j] = None /\ w # None =>
            /\ w.app = a /\ w.birth = handler[j].birth /\ w.phase = "Pending"
            /\ handler[j].pc = "submit"
  <2>1. CASE wf' = wf
    BY <1>1, <1>3, <2>1 DEF TypeOK
  <2>2. CASE /\ wf' = [wf EXCEPT ![j] = Submitted(wf[j], New(handler[j]))]
             /\ handler[j].pc = "submit"
    BY <1>1, <1>2, <1>3, <2>2, SubmittedFacts DEF TypeOK
  <2> QED BY <2>1, <2>2
<1>5. dbpass' \in [Namespaces -> Apps \cup {None}] /\ NsOf[a] \in Namespaces
  BY <1>1, <1>2 DEF TypeOK, Namespaces
<1>6. TypeOK'
  BY <1>1, <1>4, <1>5 DEF TypeOK, Framed
<1>7. Grows /\ Alone(j)
  <2>1. ops <= ops' /\ \A n \in Snaps : s3[n] # None => s3[n].birth <= s3[n].birth
    BY <1>1, Bounds, SnapshotAssumption DEF TypeOK, Dump, SnapshotAssumption
  <2> QED BY <1>4, <2>1 DEF Grows, Alone, Same, Framed
<1>8. PassInv'
  <2>1. Using(j)' \subseteq Using(j) /\ a \in Using(j)
    BY <1>2, <1>3, <1>4 DEF Using, Preparing, Framed
  <2>2. /\ h.pc = "write" => Copied(j)' \subseteq Copied(j)
        /\ wf' = wf => Copied(j)' \subseteq Copied(j) \cup {a}
    BY <1>2, <1>3, <1>4 DEF Copied, Has, Framed
  <2>3. CASE dbpass' = dbpass /\ h.pc = "write"
    <3>1. wf'[j] # None /\ wf'[j].phase = "Failed" => wf'[j] = wf[j]
      BY <1>3, <1>4
    <3> QED BY <1>1, <1>7, <2>1, <2>2, <2>3, <3>1, PassAlone
  <2>4. CASE wf' = wf /\ dbpass' = [dbpass EXCEPT ![NsOf[a]] = a]
    <3>1. \A i \in Jobs \ {j} : Using(i)' = Using(i) /\ Copied(i)' = Copied(i)
      BY <1>7, UsingSame DEF Alone, Same
    <3>2. \A i \in Jobs : Using(i)' \subseteq Using(i) /\ Copied(i)' \subseteq Copied(i) \cup {a}
      BY <2>1, <2>2, <2>4, <3>1
    <3>3. \A i \in Jobs : Copied(i) \subseteq Using(i)
      BY <1>1, UsingType DEF SnapshotInv
    <3> QED BY <1>1, <2>1, <2>4, <3>2, <3>3, PassCopied
  <2> QED BY <1>2, <2>3, <2>4
<1>9. JobInv(j)'
  <2>1. Reported(j, status[j])'
    BY <1>1, <1>3, <1>4 DEF JobInv, Reported, Has
  <2> QED BY <1>1, <2>1 DEF JobInv, Busy, Framed
<1>10. ASSUME j \in Snaps PROVE SnapInv(j)'
  <2>1. /\ Exists(j) /\ handler[j].birth = births[j]
        /\ j \notin stale => a = snap[j].app
    BY <1>1, <1>2, <1>10 DEF SnapInv
  <2>2. w # None => /\ w.birth <= births[j]
                    /\ j \notin stale => w.app = snap[j].app /\ w.birth = births[j]
    <3>1. births[j] \in Nat
      BY <1>1, <1>10, JobFacts, Bounds
    <3> QED BY <1>1, <1>4, <1>10, <2>1, <3>1 DEF SnapInv
  <2>3. Has(j, {"Started", "Succeeded"})' => w = wf[j] /\ Has(j, {"Started", "Succeeded"})
    BY <1>3, <1>4 DEF Has
  <2>4. Has(j, {"Succeeded"})' => Has(j, {"Succeeded"})
    BY <1>3, <1>4 DEF Has
  <2>5. /\ Has(j, {"Started", "Succeeded"})' =>
              wf'[j].work = [app |-> wf'[j].app, birth |-> wf'[j].birth]
        /\ Has(j, {"Succeeded"})' => s3'[j] = wf'[j].work
    BY <1>1, <1>3, <1>4, <1>10, <2>3, <2>4 DEF SnapInv, Has
  <2>6. Busy(j)' => h.birth = births[j] /\ (j \notin stale => h.app = snap[j].app)
    BY <1>2, <2>1
  <2>7. handler'[j] = h
    BY DEF Framed
  <2> QED BY <1>1, <1>3, <1>10, <2>1, <2>2, <2>5, <2>6, <2>7 DEF SnapInv, Exists
<1>11. ASSUME j \in Clones PROVE CloneInv(j)'
  <2>1. a = j /\ Since(j, handler[j].birth, s3[From[j]])
    BY <1>1, <1>2, <1>11 DEF CloneInv
  <2>2. w # None => w.app = j /\ Since(j, w.birth, s3[From[j]])
    BY <1>1, <1>4, <1>11, <2>1 DEF CloneInv
  <2>3. Has(j, {"Started", "Succeeded"})' => w = wf[j] /\ Has(j, {"Started", "Succeeded"})
    BY <1>3, <1>4 DEF Has
  <2>4. Has(j, {"Succeeded"})' => Has(j, {"Succeeded"})
    BY <1>3, <1>4 DEF Has
  <2>5. /\ Has(j, {"Started", "Succeeded"})' => Since(j, wf[j].birth, wf[j].work)
        /\ Has(j, {"Succeeded"})' => loaded'[j] = wf'[j].work
    BY <1>1, <1>3, <1>11, <2>3, <2>4 DEF CloneInv, Has
  <2>6. handler'[j] = h /\ h.app = j /\ Since(j, h.birth, s3[From[j]])
    BY <1>2, <2>1 DEF Framed
  <2>7. Since(j, h.birth, s3[From[j]])' /\ (w # None => Since(j, w.birth, s3[From[j]])')
    BY <2>2, <2>6 DEF Since
  <2>8. Has(j, {"Started", "Succeeded"})' => Since(j, wf[j].birth, wf[j].work)'
    BY <1>3, <2>3, <2>5 DEF Since
  <2> QED BY <1>3, <2>2, <2>5, <2>6, <2>7, <2>8 DEF CloneInv
<1> QED BY <1>6, <1>7, <1>8, <1>9, <1>10, <1>11, JobStep

\* ensure_secrets: those who need the Secret are on record as having met.
LEMMA EnsureSecretsKeeps ==
  ASSUME SnapshotInv, NEW j \in Jobs, EnsureSecrets(j)
  PROVE  SnapshotInv'
<1>1. TypeOK /\ JobInv(j) /\ Preparing(j)
  BY DEF SnapshotInv, EnsureSecrets, Preparing
<1>2. PICK f \in Frame : f = handler[j]
  BY <1>1, JobFacts
<1>3. PICK h : h = [f EXCEPT !.pc = "submit"]
  OBVIOUS
<1>4. /\ h \in Frame /\ h.pc = "submit" /\ h.app = f.app /\ h.birth = f.birth /\ h.out = f.out
  BY <1>3 DEF Frame
<1>5. Framed(j, h)
  <2>1. handler' = [handler EXCEPT ![j] = h]
    BY <1>2, <1>3 DEF EnsureSecrets
  <2> QED BY <1>1, <1>4, <2>1, HandlerStep
<1>6. /\ UNCHANGED <<snap, births, connected, status, due, wf, s3, loaded, contested, stale, ops, faults>>
      /\ dbpass' = [dbpass EXCEPT ![NsOf[handler[j].app]] = handler[j].app]
  BY DEF EnsureSecrets, SecretOf
<1>7. Reported(j, h.out)'
  BY <1>1, <1>2, <1>4, <1>6 DEF JobInv, Busy, Preparing, Reported, Has
<1>8. due' \in [Jobs -> BOOLEAN] /\ faults' \in 0 .. MaxFaults
  BY <1>1, <1>6 DEF TypeOK
<1> QED BY <1>1, <1>2, <1>4, <1>5, <1>6, <1>7, <1>8, HandlerGoesOn

\* Workflow.apply and the first poll: Completed only if it has succeeded.
LEMMA SubmitKeeps ==
  ASSUME SnapshotInv, NEW j \in Jobs, Submit(j)
  PROVE  SnapshotInv'
<1>1. TypeOK /\ JobInv(j) /\ Preparing(j) /\ Busy(j) /\ (j \in Snaps => SnapInv(j))
  BY DEF SnapshotInv, Submit, Preparing, Busy
<1>2. PICK f \in Frame : f = handler[j]
  BY <1>1, JobFacts
<1>3. PICK w : w = Submitted(wf[j], New(f))
  OBVIOUS
<1>4. PICK phase \in {"Running", "Completed", "Failed"} : phase = PhaseOf(w)
  BY DEF PhaseOf
<1>5. PICK out \in Status : out = IF phase = "Completed" THEN Ready(f) ELSE NotReady(f)
  BY ReadyFacts
<1>6. PICK o : o = [out EXCEPT !.source = f.app, !.phase = phase]
  OBVIOUS
<1>7. o \in Status /\ o.phase = phase /\ o.source = f.app
  BY <1>1, <1>2, <1>6 DEF Status, JobInv
<1>8. PICK h : h = [f EXCEPT !.pc = "write", !.out = o]
  OBVIOUS
<1>9. /\ h \in Frame /\ h.pc = "write" /\ h.app = f.app /\ h.birth = f.birth /\ h.out = o
  BY <1>7, <1>8 DEF Frame
<1>10. /\ f.pc = "submit" /\ wf' = [wf EXCEPT ![j] = w]
       /\ UNCHANGED <<snap, births, connected, status, dbpass, s3, loaded, contested, stale, ops, faults>>
       /\ due' = [due EXCEPT ![j] = @ \/ CalledAgain(phase)]
       /\ handler' = [handler EXCEPT ![j] = h]
  BY <1>2, <1>3, <1>4, <1>5, <1>6, <1>8 DEF Submit
<1>11. Framed(j, h)
  BY <1>1, <1>9, <1>10, HandlerStep
<1>12. Reported(j, h.out)'
  <2>1. wf'[j] = w /\ w # None
    BY <1>1, <1>2, <1>3, <1>10, SubmittedFacts DEF TypeOK
  <2>2. ASSUME phase = "Completed"
        PROVE  w.phase = "Succeeded" /\ (j \notin stale' => f.app = w.app)
    <3>1. w.phase = "Succeeded"
      BY <1>4, <2>2 DEF PhaseOf
    <3>2. wf[j] # None /\ w = wf[j]
      BY <1>1, <1>2, <1>3, <3>1, SubmittedFacts
    <3>3. CASE j \in Snaps
      BY <1>1, <1>2, <1>10, <3>1, <3>2, <3>3 DEF SnapInv, Busy
    <3>4. CASE j \in Clones
      BY <1>1, <1>2, <1>10, <3>1, <3>2, <3>4 DEF SnapshotInv, CloneInv, Busy
    <3> QED BY <3>1, <3>3, <3>4 DEF Jobs
  <2> QED BY <1>7, <1>9, <2>1, <2>2 DEF Reported, Has
<1>13. due' \in [Jobs -> BOOLEAN] /\ faults' \in 0 .. MaxFaults
  BY <1>1, <1>10 DEF TypeOK, CalledAgain
<1> QED BY <1>1, <1>2, <1>3, <1>9, <1>10, <1>11, <1>12, <1>13, HandlerGoesOn

\* A failed call, whether it had its effect or not.
LEMMA CallFailsKeeps ==
  ASSUME SnapshotInv, NEW j \in Jobs, CallFails(j), faults' \in 0 .. MaxFaults
  PROVE  SnapshotInv'
<1>1. TypeOK /\ JobInv(j) /\ Preparing(j)
  BY DEF SnapshotInv, CallFails, Preparing
<1>2. PICK h \in Frame : /\ Framed(j, h) /\ h.pc = "write" /\ h.app = handler[j].app
                         /\ h.birth = handler[j].birth /\ h.out = NotReady(handler[j])
  BY <1>1, FailStep DEF CallFails
<1>3. due' \in [Jobs -> BOOLEAN]
  BY <1>1, FailStep DEF CallFails
<1>4. UNCHANGED <<snap, births, connected, status, s3, loaded, contested, stale, ops>>
  BY DEF CallFails
<1>5. \/ wf' = wf /\ dbpass' = dbpass
      \/ wf' = wf /\ dbpass' = [dbpass EXCEPT ![NsOf[handler[j].app]] = handler[j].app]
      \/ /\ wf' = [wf EXCEPT ![j] = Submitted(wf[j], New(handler[j]))]
         /\ dbpass' = dbpass /\ handler[j].pc = "submit"
  BY DEF CallFails, SecretOf
<1>6. Reported(j, h.out)'
  <2>1. PICK out \in Status : out = h.out
    BY <1>2 DEF Frame
  <2>2. out.phase = handler[j].out.phase /\ out.source = handler[j].out.source
    BY <1>1, <1>2, <2>1, JobFacts, ReadyFacts
  <2>3. Has(j, {"Succeeded"}) => wf'[j] = wf[j]
    BY <1>1, <1>5 DEF TypeOK, Has, Submitted
  <2> QED BY <1>1, <1>4, <2>1, <2>2, <2>3 DEF JobInv, Busy, Preparing, Reported, Has
<1> QED BY <1>1, <1>2, <1>3, <1>4, <1>5, <1>6, HandlerGoesOn

\* The patch: the Workflow it reports is still there.
LEMMA WritePatchKeeps ==
  ASSUME SnapshotInv, NEW j \in Jobs, WritePatch(j)
  PROVE  SnapshotInv'
<1>1. /\ TypeOK /\ PassInv /\ JobInv(j) /\ Busy(j)
      /\ (j \in Snaps => SnapInv(j)) /\ (j \in Clones => CloneInv(j))
  BY DEF SnapshotInv, WritePatch, Busy
<1>2. PICK out \in Status : out = handler[j].out
  BY <1>1, JobFacts
<1>3. /\ UNCHANGED <<snap, births, connected, due, dbpass, wf, s3, loaded, contested, stale, ops, faults>>
      /\ handler' = [handler EXCEPT ![j] = Idle] /\ status' = [status EXCEPT ![j] = out]
  BY <1>2 DEF WritePatch
<1>4. Framed(j, Idle) /\ Idle.pc = "idle" /\ Idle.out.phase # "Completed"
  BY <1>1, <1>3, HandlerStep, IdleFacts
<1>5. status' \in [Jobs -> Status] /\ status'[j] = out /\ \A i \in Jobs \ {j} : status'[i] = status[i]
  BY <1>1, <1>3 DEF TypeOK
<1>6. TypeOK'
  BY <1>1, <1>3, <1>4, <1>5 DEF TypeOK, Framed
<1>7. Grows /\ Alone(j)
  <2>1. ops <= ops' /\ \A n \in Snaps : s3[n] # None => s3[n].birth <= s3[n].birth
    BY <1>1, <1>3, Bounds, SnapshotAssumption DEF TypeOK, Dump, SnapshotAssumption
  <2> QED BY <1>3, <1>4, <1>5, <2>1 DEF Grows, Alone, Same, Framed
<1>8. PassInv'
  <2>1. Using(j)' \subseteq Using(j) /\ Copied(j)' \subseteq Copied(j)
    BY <1>3, <1>4 DEF Using, Copied, Has, Framed
  <2> QED BY <1>1, <1>3, <1>7, <2>1, PassAlone
<1>9. JobInv(j)'
  BY <1>1, <1>2, <1>3, <1>4, <1>5 DEF JobInv, Busy, Reported, Has, Framed
<1>10. ASSUME j \in Snaps PROVE SnapInv(j)'
  <2>1. Exists(j)
    BY <1>1, <1>10 DEF SnapInv
  <2> QED BY <1>1, <1>3, <1>4, <1>10, <2>1 DEF SnapInv, Busy, Exists, Has, Framed
<1>11. ASSUME j \in Clones PROVE CloneInv(j)'
  BY <1>1, <1>3, <1>4, <1>11 DEF CloneInv, Busy, Preparing, Has, Since, Framed
<1> QED BY <1>6, <1>7, <1>8, <1>9, <1>10, <1>11, JobStep

\* A restart: nothing is said of a frame that is lost.
LEMMA RestartKeeps ==
  ASSUME SnapshotInv, Restart, faults' \in 0 .. MaxFaults
  PROVE  SnapshotInv'
<1>1. /\ TypeOK /\ PassInv /\ \A j \in Jobs : JobInv(j)
      /\ \A n \in Snaps : SnapInv(n)
      /\ \A c \in Clones : CloneInv(c)
  BY DEF SnapshotInv
<1>2. /\ UNCHANGED <<snap, births, connected, status, dbpass, wf, s3, loaded, contested, stale, ops>>
      /\ handler' = [j \in Jobs |-> Idle] /\ due' = [j \in Jobs |-> TRUE]
  BY DEF Restart
<1>3. \A j \in Jobs : handler'[j] = Idle /\ ~Busy(j)' /\ ~Preparing(j)'
  BY <1>2, IdleFacts DEF Busy, Preparing
<1>4. TypeOK'
  BY <1>1, <1>2, <1>3, IdleFacts DEF TypeOK
<1>5. PassInv'
  <2>1. \A j \in Jobs : Using(j)' \subseteq Using(j) /\ Copied(j)' \subseteq Copied(j)
    BY <1>2, <1>3, IdleFacts DEF Using, Copied, Has
  <2> QED BY <1>1, <1>2, <2>1, PassKept
<1>6. ASSUME NEW j \in Jobs PROVE JobInv(j)'
  BY <1>1, <1>2, <1>3 DEF JobInv, Reported, Has
<1>7. ASSUME NEW n \in Snaps PROVE SnapInv(n)'
  BY <1>1, <1>2, <1>3 DEF SnapInv, Exists, Has, Jobs
<1>8. ASSUME NEW c \in Clones PROVE CloneInv(c)'
  <2>1. ~Busy(c)' /\ ~Preparing(c)'
    BY <1>3 DEF Jobs
  <2>2. CloneInv(c)
    BY <1>1
  <2>3. wf' = wf /\ s3' = s3 /\ loaded' = loaded /\ stale' = stale
    BY <1>2
  <2> QED BY <2>1, <2>2, <2>3 DEF CloneInv, Since, Has
<1> QED BY <1>4, <1>5, <1>6, <1>7, <1>8 DEF SnapshotInv

\* A Snapshot goes, and its Workflow with it or not.
LEMMA GoneKeeps ==
  ASSUME SnapshotInv, NEW n \in Snaps, CanFinalize(n), Gone(n), faults' \in 0 .. MaxFaults,
         \/ wf' = [wf EXCEPT ![n] = None] /\ stale' = stale
         \/ wf' = wf /\ stale' = stale \cup {n}
  PROVE  SnapshotInv'
<1>1. TypeOK /\ PassInv /\ JobInv(n) /\ SnapInv(n) /\ n \in Jobs /\ n \notin Clones
  <2>1. n \in Jobs
    BY DEF Jobs
  <2> QED BY <2>1, JobFacts DEF SnapshotInv
<1>2. /\ UNCHANGED <<births, connected, due, handler, dbpass, s3, loaded, contested, ops>>
      /\ snap' = [snap EXCEPT ![n] = None] /\ status' = [status EXCEPT ![n] = NoStatus]
  BY DEF Gone
<1>3. /\ snap' \in [Snaps -> Snapshot \cup {None}] /\ snap'[n] = None
      /\ status' \in [Jobs -> Status] /\ status'[n] = NoStatus
      /\ \A m \in Snaps \ {n} : snap'[m] = snap[m]
      /\ \A i \in Jobs \ {n} : status'[i] = status[i]
  BY <1>1, <1>2, IdleFacts DEF TypeOK
<1>4. /\ wf' \in [Jobs -> Workflow \cup {None}] /\ wf'[n] \in {wf[n], None}
      /\ n \in stale' \/ wf'[n] = None
      /\ \A i \in Jobs \ {n} : wf'[i] = wf[i]
      /\ stale \subseteq stale' /\ stale' \subseteq Snaps
  BY <1>1 DEF TypeOK
<1>5. TypeOK'
  BY <1>1, <1>2, <1>3, <1>4 DEF TypeOK
<1>6. Grows /\ Alone(n)
  <2>1. ops <= ops' /\ \A m \in Snaps : s3[m] # None => s3[m].birth <= s3[m].birth
    BY <1>1, <1>2, Bounds, SnapshotAssumption DEF TypeOK, Dump, SnapshotAssumption
  <2> QED BY <1>2, <1>3, <1>4, <2>1 DEF Grows, Alone, Same
<1>7. PassInv'
  <2>1. Using(n)' \subseteq Using(n) /\ Copied(n)' \subseteq Copied(n)
    BY <1>2, <1>4 DEF Using, Copied, Has
  <2>2. wf'[n] # None /\ wf'[n].phase = "Failed" => wf'[n] = wf[n]
    BY <1>4
  <2> QED BY <1>1, <1>2, <1>6, <2>1, <2>2, PassAlone
<1>8. ~Busy(n) /\ ~Busy(n)'
  BY <1>2 DEF CanFinalize, Busy
<1>9. JobInv(n)'
  BY <1>3, <1>8, IdleFacts DEF JobInv, Reported
<1>10. SnapInv(n)'
  BY <1>1, <1>2, <1>3, <1>4, <1>8 DEF SnapInv, Exists, Has
<1> QED BY <1>1, <1>5, <1>6, <1>7, <1>9, <1>10, JobStep

\* finalize: the Workflow goes with the Snapshot.
LEMMA FinalizeKeeps ==
  ASSUME SnapshotInv, NEW n \in Snaps, Finalize(n)
  PROVE  SnapshotInv'
<1>1. faults' \in 0 .. MaxFaults
  BY DEF Finalize, SnapshotInv, TypeOK
<1>2. wf' = [wf EXCEPT ![n] = None] /\ stale' = stale
  BY DEF Finalize, AfterDeletion
<1> QED BY <1>1, <1>2, GoneKeeps DEF Finalize

\* finalize that leaves the Workflow, which is on record.
LEMMA FinalizeFailsKeeps ==
  ASSUME SnapshotInv, NEW n \in Snaps, FinalizeFails(n), faults' \in 0 .. MaxFaults
  PROVE  SnapshotInv'
  BY GoneKeeps DEF FinalizeFails

----------------------------------------------------------------------------
(* Pods and users *)

\* A Pod ends: the phase, and what was written or loaded, are of one dump.
LEMMA PodStep ==
  ASSUME SnapshotInv, NEW j \in Jobs, Has(j, {"Pending", "Started"}), NEW v \in Workflow,
         wf' = [wf EXCEPT ![j] = v], v.app = wf[j].app, v.birth = wf[j].birth,
         UNCHANGED <<snap, births, connected, status, due, handler, dbpass, contested, stale, ops>>,
         faults' \in 0 .. MaxFaults, v.phase \in {"Started", "Succeeded", "Failed", "Error"},
         s3' \in [Snaps -> Dump \cup {None}], \A n \in Snaps \ {j} : s3'[n] = s3[n],
         j \in Snaps => s3'[j] \in {s3[j], [app |-> v.app, birth |-> v.birth]},
         loaded' \in [Clones -> Dump \cup {None}], \A c \in Clones \ {j} : loaded'[c] = loaded[c],
         v.phase = "Started" => wf[j].phase = "Pending",
         v.phase = "Failed" => dbpass[NsOf[v.app]] # v.app,
         v.phase \in {"Started", "Succeeded"} =>
            /\ j \in Snaps => v.work = [app |-> v.app, birth |-> v.birth]
            /\ j \in Clones => Since(j, v.birth, v.work),
         v.phase = "Succeeded" => /\ j \in Snaps => s3'[j] = v.work
                                  /\ j \in Clones => loaded'[j] = v.work
  PROVE  SnapshotInv'
<1>1. /\ TypeOK /\ PassInv /\ JobInv(j) /\ v # None /\ wf[j] # None
      /\ (j \in Snaps => SnapInv(j)) /\ (j \in Clones => CloneInv(j))
  BY SnapshotAssumption DEF SnapshotInv, SnapshotAssumption, Has
<1>2. /\ wf' \in [Jobs -> Workflow \cup {None}] /\ wf'[j] = v
      /\ \A i \in Jobs \ {j} : wf'[i] = wf[i]
  BY <1>1 DEF TypeOK
<1>3. TypeOK'
  BY <1>1, <1>2 DEF TypeOK
<1>4. Grows /\ Alone(j)
  <2>1. ops <= ops' /\ \A n \in Snaps : s3[n] # None => s3[n].birth <= s3[n].birth
    BY <1>1, Bounds, SnapshotAssumption DEF TypeOK, Dump, SnapshotAssumption
  <2>2. j \in Snaps /\ s3[j] # None =>
           s3'[j] # None /\ (j \notin stale => s3[j].birth <= s3'[j].birth)
    <3>1. ASSUME j \in Snaps, s3[j] # None, s3'[j] = [app |-> v.app, birth |-> v.birth]
          PROVE  s3'[j] # None /\ (j \notin stale => s3[j].birth <= s3'[j].birth)
      <4>1. v.app \in Apps /\ v.birth \in 1 .. MaxOps
        BY DEF Workflow
      <4>2. s3'[j] \in Dump
        BY <3>1, <4>1 DEF Dump
      <4>3. s3'[j].birth = v.birth
        BY <3>1
      <4>4. s3[j].birth <= births[j] /\ (j \notin stale => v.birth = births[j])
        BY <1>1, <3>1 DEF SnapInv
      <4> QED BY <4>2, <4>3, <4>4, SnapshotAssumption DEF SnapshotAssumption
    <3>2. j \in Snaps /\ s3[j] # None => s3[j].birth <= s3[j].birth
      BY <2>1
    <3> QED BY <3>1, <3>2
  <2> QED BY <1>2, <2>1, <2>2 DEF Grows, Alone, Same
<1>5. PassInv'
  <2>1. v.app \in Copied(j) /\ Using(j)' \subseteq Using(j) /\ Copied(j)' \subseteq Copied(j)
    BY <1>1, <1>2 DEF Using, Copied, Has
  <2>2. v.phase = "Failed" => NsOf[v.app] \in contested
    BY <1>1, <2>1 DEF PassInv
  <2> QED BY <1>1, <1>2, <1>4, <2>1, <2>2, PassAlone
<1>6. JobInv(j)'
  <2>1. ~Has(j, {"Succeeded"})
    BY DEF Has
  <2> QED BY <1>1, <2>1 DEF JobInv, Busy, Reported
<1>7. ASSUME j \in Snaps PROVE SnapInv(j)'
  <2>1. s3'[j] # None => s3'[j].birth <= births[j]
    BY <1>1, <1>7 DEF SnapInv
  <2> QED BY <1>1, <1>2, <1>7, <2>1 DEF SnapInv, Busy, Exists, Has
<1>8. ASSUME j \in Clones PROVE CloneInv(j)'
  <2>1. From[j] \in Snaps /\ From[j] # j
    BY <1>1, <1>8, JobFacts
  <2>2. s3'[From[j]] = s3[From[j]]
    BY <2>1
  <2> QED BY <1>1, <1>2, <1>8, <2>2 DEF CloneInv, Busy, Preparing, Has, Since
<1> QED BY <1>3, <1>4, <1>5, <1>6, <1>7, <1>8, JobStep

\* pg_dump, or the download: the dump a restore has found can be had.
LEMMA FirstStepKeeps ==
  ASSUME SnapshotInv, NEW j \in Jobs, FirstStep(j)
  PROVE  SnapshotInv'
<1> DEFINE w == wf[j]
           dump == IF j \in Snaps THEN [app |-> w.app, birth |-> w.birth] ELSE s3[From[j]]
           works == IF j \in Snaps THEN dbpass[NsOf[w.app]] = w.app ELSE dump # None
<1>1. /\ w # None /\ w.phase = "Pending"
      /\ wf' = [wf EXCEPT ![j] = IF works THEN [w EXCEPT !.phase = "Started", !.work = dump]
                                          ELSE [w EXCEPT !.phase = "Failed"]]
      /\ UNCHANGED <<snap, births, connected, status, due, handler, dbpass, s3, loaded, contested, stale, ops, faults>>
  BY DEF FirstStep
<1>2. TypeOK /\ w \in Workflow /\ w.app \in Apps /\ w.birth \in 1 .. MaxOps
  BY <1>1, JobFacts DEF SnapshotInv, Workflow
<1>3. j \in Clones => /\ j \notin Snaps /\ s3[From[j]] # None /\ s3[From[j]] \in Dump
                      /\ Since(j, w.birth, s3[From[j]])
  <2>1. j \in Clones => j \notin Snaps /\ From[j] \in Snaps
    BY <1>2, JobFacts
  <2>2. j \in Clones => Since(j, w.birth, s3[From[j]])
    BY <1>1 DEF SnapshotInv, CloneInv
  <2> QED BY <1>2, <2>1, <2>2 DEF Since, TypeOK
<1>4. dump \in Dump
  BY <1>2, <1>3 DEF Dump, Jobs
<1>5. PICK v : v = IF works THEN [w EXCEPT !.phase = "Started", !.work = dump]
                            ELSE [w EXCEPT !.phase = "Failed"]
  OBVIOUS
<1>6. /\ v \in Workflow /\ v.app = w.app /\ v.birth = w.birth
      /\ works => v.phase = "Started" /\ v.work = dump
      /\ ~works => v.phase = "Failed"
  <2> HIDE DEF w, dump, works
  <2>1. CASE works
    <3>1. v = [w EXCEPT !.phase = "Started", !.work = dump]
      BY <1>5, <2>1
    <3> QED BY <1>2, <1>4, <2>1, <3>1 DEF Workflow
  <2>2. CASE ~works
    <3>1. v = [w EXCEPT !.phase = "Failed"]
      BY <1>5, <2>2
    <3> QED BY <1>2, <2>2, <3>1 DEF Workflow
  <2> QED BY <2>1, <2>2
<1>7. works <=> (j \in Snaps => dbpass[NsOf[w.app]] = w.app)
  BY <1>3 DEF Jobs
<1>8. /\ wf' = [wf EXCEPT ![j] = v] /\ v.phase \in {"Started", "Failed"}
      /\ v.phase = "Failed" => dbpass[NsOf[v.app]] # v.app
      /\ v.phase = "Started" => v.work = dump
  <2> HIDE DEF w, dump, works
  <2> QED BY <1>1, <1>5, <1>6, <1>7
<1>9. /\ j \in Snaps => dump = [app |-> v.app, birth |-> v.birth]
      /\ j \in Clones => Since(j, v.birth, dump)
  BY <1>3, <1>6 DEF Since
<1>10. Has(j, {"Pending", "Started"}) /\ w = wf[j]
  BY <1>1 DEF Has
<1>11. s3 \in [Snaps -> Dump \cup {None}] /\ loaded \in [Clones -> Dump \cup {None}]
       /\ faults \in 0 .. MaxFaults
  BY <1>2 DEF TypeOK
<1>12. /\ v.app = wf[j].app /\ v.birth = wf[j].birth /\ wf[j].phase = "Pending"
       /\ UNCHANGED <<snap, births, connected, status, due, handler, dbpass, s3, loaded, contested, stale, ops, faults>>
  BY <1>1, <1>6
<1>13. v.phase = "Started" => /\ j \in Snaps => v.work = [app |-> v.app, birth |-> v.birth]
                              /\ j \in Clones => Since(j, v.birth, v.work)
  BY <1>8, <1>9
<1> HIDE DEF w, dump, works
<1> QED BY <1>6, <1>8, <1>10, <1>11, <1>12, <1>13, PodStep

\* The upload, or pg_restore.
LEMMA SecondStepKeeps ==
  ASSUME SnapshotInv, NEW j \in Jobs, SecondStep(j)
  PROVE  SnapshotInv'
<1> DEFINE w == wf[j]
           works == j \in Snaps \/ dbpass[NsOf[w.app]] = w.app
<1>1. /\ w # None /\ w.phase = "Started"
      /\ wf' = [wf EXCEPT ![j].phase = IF works THEN "Succeeded" ELSE "Failed"]
      /\ s3' = IF j \in Snaps THEN [s3 EXCEPT ![j] = w.work] ELSE s3
      /\ loaded' = IF j \in Clones /\ works THEN [loaded EXCEPT ![j] = w.work] ELSE loaded
      /\ UNCHANGED <<snap, births, connected, status, due, handler, dbpass, contested, stale, ops, faults>>
  BY DEF SecondStep
<1>2. TypeOK /\ w \in Workflow /\ (j \in Snaps <=> j \notin Clones)
  BY <1>1, JobFacts DEF SnapshotInv
<1>3. PICK phase \in {"Succeeded", "Failed"} : phase = IF works THEN "Succeeded" ELSE "Failed"
  OBVIOUS
<1>4. PICK v : v = [w EXCEPT !.phase = phase]
  OBVIOUS
<1>5. /\ v \in Workflow /\ v.app = w.app /\ v.birth = w.birth /\ v.work = w.work
      /\ v.phase = phase
  BY <1>2, <1>4 DEF Workflow
<1>6. wf' = [wf EXCEPT ![j] = v]
  BY <1>1, <1>3, <1>4
<1>7. Has(j, {"Started", "Succeeded"}) /\ Has(j, {"Pending", "Started"})
  BY <1>1 DEF Has
<1>8. /\ j \in Snaps => v.work = [app |-> v.app, birth |-> v.birth]
      /\ j \in Clones => Since(j, v.birth, v.work)
  BY <1>5, <1>7 DEF SnapshotInv, SnapInv, CloneInv
<1>9. v.work \in Dump
  <2>1. w.work \in Dump \cup {None} /\ w.app \in Apps /\ w.birth \in 1 .. MaxOps
    BY <1>2 DEF Workflow
  <2> QED BY <1>5, <1>8, <2>1 DEF Since, Dump, Jobs
<1>10. /\ s3' \in [Snaps -> Dump \cup {None}] /\ \A n \in Snaps \ {j} : s3'[n] = s3[n]
       /\ j \in Snaps => s3'[j] = v.work
  BY <1>1, <1>2, <1>5, <1>9 DEF TypeOK
<1>11. /\ loaded' \in [Clones -> Dump \cup {None}] /\ \A c \in Clones \ {j} : loaded'[c] = loaded[c]
       /\ phase = "Succeeded" /\ j \in Clones => loaded'[j] = v.work
  BY <1>1, <1>2, <1>3, <1>5, <1>9 DEF TypeOK
<1>12. phase = "Failed" => dbpass[NsOf[v.app]] # v.app
  BY <1>3, <1>5
<1>13. faults' \in 0 .. MaxFaults
  BY <1>1, <1>2 DEF TypeOK
<1>14. UNCHANGED <<snap, births, connected, status, due, handler, dbpass, contested, stale, ops>>
  BY <1>1
<1>15. v.app = wf[j].app /\ v.birth = wf[j].birth
  BY <1>5
<1>16. /\ v.phase \in {"Succeeded", "Failed"}
       /\ v.phase = "Failed" => dbpass[NsOf[v.app]] # v.app
       /\ v.phase = "Succeeded" => /\ j \in Snaps => s3'[j] = v.work
                                   /\ j \in Clones => loaded'[j] = v.work
       /\ j \in Snaps => s3'[j] = [app |-> v.app, birth |-> v.birth]
  BY <1>5, <1>8, <1>10, <1>11, <1>12
<1> HIDE DEF w, works
<1> QED BY <1>5, <1>6, <1>7, <1>8, <1>10, <1>11, <1>13, <1>14, <1>15, <1>16, PodStep

\* A Pod that fails for another reason than the password.
LEMMA PodFailsKeeps ==
  ASSUME SnapshotInv, NEW j \in Jobs, PodFails(j), faults' \in 0 .. MaxFaults
  PROVE  SnapshotInv'
<1>1. Has(j, {"Pending", "Started"}) /\ TypeOK
  BY DEF PodFails, Has, SnapshotInv
<1>2. PICK w \in Workflow : w = wf[j]
  BY <1>1, JobFacts DEF Has
<1>3. PICK v : v = [w EXCEPT !.phase = "Error"]
  OBVIOUS
<1>4. v \in Workflow /\ v.app = w.app /\ v.birth = w.birth /\ v.phase = "Error"
  BY <1>3 DEF Workflow
<1>5. wf' = [wf EXCEPT ![j] = v]
  BY <1>2, <1>3 DEF PodFails
<1>6. UNCHANGED <<snap, births, connected, status, due, handler, dbpass, s3, loaded, contested, stale, ops>>
  BY DEF PodFails
<1>7. s3 \in [Snaps -> Dump \cup {None}] /\ loaded \in [Clones -> Dump \cup {None}]
  BY <1>1 DEF TypeOK
<1> QED BY <1>1, <1>2, <1>4, <1>5, <1>6, <1>7, PodStep

\* A user creates, edits or deletes a Snapshot.
LEMMA UserStep ==
  ASSUME SnapshotInv, NEW n \in Snaps, NEW s \in Snapshot, snap' = [snap EXCEPT ![n] = s],
         UNCHANGED <<connected, status, handler, dbpass, wf, s3, loaded, contested, faults>>,
         due' \in [Jobs -> BOOLEAN], stale \subseteq stale', stale' \subseteq Snaps,
         births' \in [Snaps -> 0 .. MaxOps], \A m \in Snaps \ {n} : births'[m] = births[m],
         ops' = ops + 1, ops < MaxOps,
         births'[n] <= ops', births[n] <= births'[n], s.birth = births'[n],
         \/ ~Exists(n)
         \/ Exists(n) /\ births' = births /\ (n \in stale' \/ s.app = snap[n].app)
  PROVE  SnapshotInv'
<1>1. /\ TypeOK /\ PassInv /\ JobInv(n) /\ SnapInv(n) /\ n \in Jobs /\ n \notin Clones
      /\ s # None
  <2>1. n \in Jobs
    BY DEF Jobs
  <2> QED BY <2>1, JobFacts, SnapshotAssumption DEF SnapshotInv, SnapshotAssumption
<1>2. /\ snap' \in [Snaps -> Snapshot \cup {None}] /\ snap'[n] = s
      /\ \A m \in Snaps \ {n} : snap'[m] = snap[m]
  BY <1>1 DEF TypeOK
<1>3. ops \in Nat /\ ops' \in 0 .. MaxOps /\ ops <= ops'
  BY <1>1, Bounds
<1>4. TypeOK'
  BY <1>1, <1>2, <1>3 DEF TypeOK
<1>5. Grows /\ Alone(n)
  <2>1. \A m \in Snaps : s3[m] # None => s3[m].birth <= s3[m].birth
    BY <1>1, Bounds, SnapshotAssumption DEF TypeOK, Dump, SnapshotAssumption
  <2> QED BY <1>2, <1>3, <2>1 DEF Grows, Alone, Same
<1>6. PassInv'
  <2>1. Using(n)' = Using(n) /\ Copied(n)' = Copied(n)
    BY <1>1, UsingSame
  <2> QED BY <1>1, <1>5, <2>1, PassAlone
<1>7. JobInv(n)'
  BY <1>1 DEF JobInv, Busy, Reported, Has
<1>8. SnapInv(n)'
  <2>1. Exists(n)'
    BY <1>1, <1>2 DEF Exists
  <2>2. /\ Busy(n) => births' = births /\ (n \notin stale' => s.app = snap[n].app)
        /\ n \notin stale' /\ wf[n] # None => births' = births /\ s.app = snap[n].app
    BY <1>1 DEF SnapInv
  <2>3. /\ s3[n] # None => s3[n].birth <= births'[n]
        /\ wf[n] # None => wf[n].birth <= births'[n]
    <3>1. /\ births[n] \in Nat /\ births'[n] \in Nat
          /\ s3[n] # None => s3[n].birth \in Nat
          /\ wf[n] # None => wf[n].birth \in Nat
      BY <1>1, Bounds DEF TypeOK, Dump, Workflow
    <3> QED BY <1>1, <3>1 DEF SnapInv
  <2> QED BY <1>1, <1>2, <2>1, <2>2, <2>3 DEF SnapInv, Busy, Has
<1> QED BY <1>1, <1>4, <1>5, <1>6, <1>7, <1>8, JobStep

\* What the invariant says of the births of a Snapshot.
LEMMA SnapFacts ==
  ASSUME SnapshotInv, NEW n \in Snaps
  PROVE  /\ TypeOK /\ n \in Jobs /\ births[n] \in Nat /\ births[n] <= ops /\ ops \in Nat
         /\ Exists(n) => snap[n] \in Snapshot /\ snap[n].birth = births[n]
<1>1. TypeOK /\ SnapInv(n) /\ n \in Jobs
  BY DEF SnapshotInv, Jobs
<1>2. births[n] \in Nat /\ ops \in Nat /\ (Exists(n) => snap[n] \in Snapshot)
  BY <1>1, JobFacts, Bounds DEF Exists
<1> QED BY <1>1, <1>2 DEF SnapInv

\* A Snapshot that is created anew is of a later birth than all there was.
LEMMA CreateKeeps ==
  ASSUME SnapshotInv, NEW n \in Snaps, NEW a \in Sources, Create(n, a), ops < MaxOps, ops' = ops + 1
  PROVE  SnapshotInv'
<1>1. TypeOK /\ n \in Jobs /\ births[n] \in Nat /\ births[n] <= ops /\ ops \in Nat /\ a \in Apps
  BY SnapFacts, SnapshotAssumption DEF SnapshotAssumption
<1>2. /\ ~Exists(n) /\ births' = [births EXCEPT ![n] = @ + 1]
      /\ UNCHANGED <<connected, status, handler, dbpass, wf, s3, loaded, contested, stale, faults>>
  BY DEF Create
<1>3. /\ births' \in [Snaps -> 0 .. MaxOps] /\ births'[n] = births[n] + 1
      /\ \A m \in Snaps \ {n} : births'[m] = births[m]
  <2>1. births[n] + 1 \in 0 .. MaxOps
    BY <1>1, SnapshotAssumption DEF SnapshotAssumption
  <2> QED BY <1>1, <1>2, <2>1 DEF TypeOK
<1>4. PICK s : s = [app |-> a, birth |-> births'[n], deleting |-> FALSE]
  OBVIOUS
<1>5. s \in Snapshot /\ s.birth = births'[n]
  BY <1>1, <1>3, <1>4 DEF Snapshot
<1>6. snap' = [snap EXCEPT ![n] = s] /\ due' = [due EXCEPT ![n] = TRUE]
  BY <1>4 DEF Create
<1>7. /\ births'[n] <= ops' /\ births[n] <= births'[n] /\ stale' \subseteq Snaps
      /\ stale \subseteq stale' /\ due' \in [Jobs -> BOOLEAN]
  BY <1>1, <1>2, <1>3, <1>6 DEF TypeOK
<1> QED BY <1>2, <1>3, <1>5, <1>6, <1>7, UserStep

\* An edit of applicationRef is on record.
LEMMA EditKeeps ==
  ASSUME SnapshotInv, NEW n \in Changing, NEW a \in Sources, Edit(n, a),
         ops < MaxOps, ops' = ops + 1
  PROVE  SnapshotInv'
<1>1. /\ TypeOK /\ n \in Snaps /\ n \in Jobs /\ births[n] \in Nat /\ births[n] <= ops
      /\ ops \in Nat /\ a \in Apps /\ Exists(n) /\ snap[n].birth = births[n]
  BY SnapFacts, SnapshotAssumption DEF SnapshotAssumption, Edit
<1>2. UNCHANGED <<births, connected, status, handler, dbpass, wf, s3, loaded, contested, faults>>
  BY DEF Edit
<1>3. PICK z \in Snapshot : z = snap[n]
  BY <1>1 DEF TypeOK, Exists
<1>4. PICK s : s = [z EXCEPT !.app = a]
  OBVIOUS
<1>5. s \in Snapshot /\ s.birth = births[n]
  BY <1>1, <1>3, <1>4 DEF Snapshot
<1>6. /\ snap' = [snap EXCEPT ![n] = s] /\ due' = [due EXCEPT ![n] = TRUE]
      /\ stale' = stale \cup {n}
  BY <1>3, <1>4 DEF Edit
<1>7. /\ births'[n] <= ops' /\ births[n] <= births'[n] /\ births' \in [Snaps -> 0 .. MaxOps]
      /\ stale' \subseteq Snaps /\ due' \in [Jobs -> BOOLEAN]
  BY <1>1, <1>2, <1>6 DEF TypeOK
<1> QED BY <1>1, <1>2, <1>5, <1>6, <1>7, UserStep

\* A deletion only marks the Snapshot.
LEMMA DeleteKeeps ==
  ASSUME SnapshotInv, NEW n \in Changing, Delete(n), ops < MaxOps, ops' = ops + 1
  PROVE  SnapshotInv'
<1>1. /\ TypeOK /\ n \in Snaps /\ n \in Jobs /\ births[n] \in Nat /\ births[n] <= ops
      /\ ops \in Nat /\ Exists(n) /\ snap[n].birth = births[n]
  BY SnapFacts, SnapshotAssumption DEF SnapshotAssumption, Delete
<1>2. UNCHANGED <<births, connected, status, due, handler, dbpass, wf, s3, loaded, contested, stale, faults>>
  BY DEF Delete
<1>3. PICK z \in Snapshot : z = snap[n]
  BY <1>1 DEF TypeOK, Exists
<1>4. PICK s : s = [z EXCEPT !.deleting = TRUE]
  OBVIOUS
<1>5. s \in Snapshot /\ s.birth = births[n] /\ s.app = snap[n].app
  BY <1>1, <1>3, <1>4 DEF Snapshot
<1>6. snap' = [snap EXCEPT ![n] = s]
  BY <1>3, <1>4 DEF Delete
<1>7. /\ births'[n] <= ops' /\ births[n] <= births'[n] /\ births' \in [Snaps -> 0 .. MaxOps]
      /\ stale' \subseteq Snaps /\ due' \in [Jobs -> BOOLEAN]
  BY <1>1, <1>2 DEF TypeOK
<1> QED BY <1>1, <1>2, <1>5, <1>6, <1>7, UserStep

\* A database server comes or goes.
LEMMA ConnectKeeps ==
  ASSUME SnapshotInv, NEW a \in Moving, Connect(a), ops < MaxOps, ops' = ops + 1
  PROVE  SnapshotInv'
<1>1. /\ UNCHANGED <<snap, births, status, due, handler, dbpass, wf, s3, loaded, contested, stale, faults>>
      /\ connected' \subseteq connected \cup {a}
  BY DEF Connect
<1>2. TypeOK /\ PassInv /\ ops \in Nat /\ ops' \in 0 .. MaxOps /\ ops <= ops'
  <2>1. TypeOK /\ PassInv /\ ops \in Nat
    BY Bounds DEF SnapshotInv
  <2> QED BY <2>1, SnapshotAssumption DEF SnapshotAssumption
<1>3. TypeOK'
  BY <1>1, <1>2, SnapshotAssumption DEF TypeOK, SnapshotAssumption
<1>4. Grows /\ \A i \in Jobs : Same(i)
  <2>1. \A n \in Snaps : s3[n] # None => s3[n].birth <= s3[n].birth
    BY <1>2, SnapshotAssumption DEF TypeOK, Dump, SnapshotAssumption
  <2> QED BY <1>1, <1>2, <2>1 DEF Grows, Same
<1>5. \A i \in Jobs : JobInv(i)' /\ (i \in Snaps => SnapInv(i)') /\ (i \in Clones => CloneInv(i)')
  BY <1>1, <1>3, <1>4, OtherJob
<1>6. PassInv'
  <2>1. \A i \in Jobs : Using(i)' = Using(i) /\ Copied(i)' = Copied(i)
    BY <1>1, UsingSame
  <2> QED BY <1>1, <1>2, <2>1, PassKept
<1> QED BY <1>3, <1>5, <1>6 DEF SnapshotInv, Jobs

----------------------------------------------------------------------------
(* The invariant *)

\* At first there are no jobs.
LEMMA InitKeeps ==
  ASSUME Init
  PROVE  SnapshotInv
<1>1. 0 \in 0 .. MaxOps /\ 0 \in 0 .. MaxFaults
  BY SnapshotAssumption DEF SnapshotAssumption
<1>2. TypeOK
  BY <1>1, IdleFacts DEF Init, TypeOK
<1>3. \A j \in Jobs : /\ handler[j] = Idle /\ status[j] = NoStatus /\ wf[j] = None
                      /\ ~Busy(j) /\ ~Preparing(j) /\ Using(j) = {} /\ Copied(j) = {}
  BY IdleFacts DEF Init, Busy, Preparing, Using, Copied, Has
<1>4. PassInv
  BY <1>3 DEF PassInv, FailedMeansContested
<1>5. \A j \in Jobs : JobInv(j)
  BY <1>3, IdleFacts DEF JobInv, Reported
<1>6. ASSUME NEW n \in Snaps PROVE SnapInv(n)
  <2>1. births[n] <= ops /\ snap[n] = None /\ s3[n] = None
    BY DEF Init
  <2>2. status[n] = NoStatus /\ ~Busy(n) /\ wf[n] = None
    BY <1>3 DEF Jobs
  <2> QED BY <2>1, <2>2 DEF SnapInv, Exists, Has
<1>7. \A c \in Clones : CloneInv(c)
  BY <1>3 DEF CloneInv, Has, Jobs
<1> QED BY <1>2, <1>4, <1>5, <1>6, <1>7 DEF SnapshotInv

\* Every step keeps the invariant.
LEMMA StepKeeps ==
  ASSUME SnapshotInv, [Next]_snapshotVars
  PROVE  SnapshotInv'
<1>1. CASE User
  <2>1. ops < MaxOps /\ ops' = ops + 1
    BY <1>1 DEF User
  <2> QED BY <1>1, <2>1, CreateKeeps, EditKeeps, DeleteKeeps, ConnectKeeps DEF User
<1>2. CASE Fault
  <2>1. faults' \in 0 .. MaxFaults
    BY <1>2, Bounds DEF Fault, SnapshotInv
  <2> QED BY <1>2, <2>1, RestartKeeps, CallFailsKeeps, PodFailsKeeps, FinalizeFailsKeeps DEF Fault
<1>3. CASE \E j \in Jobs : Handle(j) \/ Pod(j)
  BY <1>3, BeginKeeps, EnsureSecretsKeeps, SubmitKeeps, WritePatchKeeps, FinalizeKeeps,
     FirstStepKeeps, SecondStepKeeps DEF Handle, Pod
<1>4. CASE UNCHANGED snapshotVars
  BY <1>4 DEF snapshotVars, SnapshotInv, TypeOK, PassInv, FailedMeansContested, Using, Copied,
              Has, JobInv, Reported, Busy, SnapInv, Exists, CloneInv, Preparing, Since
<1> QED BY <1>1, <1>2, <1>3, <1>4 DEF Next

\* The inductive invariant.
THEOREM SnapshotInvariant == Spec => []SnapshotInv
<1> QED BY InitKeeps, StepKeeps, PTL DEF Spec

\* A Snapshot that is Completed has its dump in the object store: its Workflow
\* succeeded, is of this birth, and leaves what it wrote.
THEOREM SnapshotCompletedMeansDumped == Spec => []CompletedMeansDumped
<1>1. SnapshotInv => CompletedMeansDumped
  <2> SUFFICES ASSUME SnapshotInv, NEW n \in Snaps,
                      Exists(n), status[n].phase = "Completed", n \notin stale
               PROVE  s3[n] = [app |-> status[n].source, birth |-> snap[n].birth]
    BY DEF CompletedMeansDumped, SnapshotInv
  <2>1. JobInv(n) /\ SnapInv(n)
    BY DEF SnapshotInv, Jobs
  <2>2. Has(n, {"Succeeded"}) /\ status[n].source = wf[n].app
    BY <2>1 DEF JobInv, Reported
  <2>3. wf[n].birth = births[n] /\ snap[n].birth = births[n] /\ s3[n] = wf[n].work
        /\ wf[n].work = [app |-> wf[n].app, birth |-> wf[n].birth]
    BY <2>1, <2>2 DEF SnapInv, Has
  <2> QED BY <2>2, <2>3
<1> QED BY <1>1, SnapshotInvariant, PTL

\* A restore that is recorded as done loaded a dump, and not one older than the
\* Snapshot it looked at.
THEOREM SnapshotRestoredMeansLoaded == Spec => []RestoredMeansLoaded
<1>1. SnapshotInv => RestoredMeansLoaded
  <2> SUFFICES ASSUME SnapshotInv, NEW c \in Clones, status[c].phase = "Completed"
               PROVE  loaded[c] # None /\ (From[c] \in stale \/ loaded[c].birth >= wf[c].birth)
    BY DEF RestoredMeansLoaded
  <2>1. TypeOK /\ JobInv(c) /\ CloneInv(c) /\ c \in Jobs
    BY DEF SnapshotInv, Jobs
  <2>2. Has(c, {"Succeeded"})
    BY <2>1 DEF JobInv, Reported
  <2>3. loaded[c] = wf[c].work /\ Since(c, wf[c].birth, wf[c].work) /\ wf[c] \in Workflow
    BY <2>1, <2>2, JobFacts DEF CloneInv, Has
  <2>4. loaded[c] # None /\ (From[c] \notin stale => wf[c].birth <= loaded[c].birth)
    BY <2>3 DEF Since
  <2>5. loaded[c] \in Dump
    BY <2>1, <2>4 DEF TypeOK
  <2>6. wf[c].birth \in Nat /\ loaded[c].birth \in Nat
    BY <2>3, <2>5, SnapshotAssumption DEF Workflow, Dump, SnapshotAssumption
  <2> QED BY <2>4, <2>6
<1> QED BY <1>1, SnapshotInvariant, PTL

\* A job fails for a wrong password only where the jobs of two applications of
\* one namespace met.
THEOREM SnapshotFailedMeansContested == Spec => []FailedMeansContested
<1>1. SnapshotInv => FailedMeansContested
  BY DEF SnapshotInv, PassInv
<1> QED BY <1>1, SnapshotInvariant, PTL

----------------------------------------------------------------------------
(* What a step does to the dump of a Completed Snapshot *)

\* Steps of j write no other job's Workflow and no other Snapshot's dump.
LEMMA DumpOfOther ==
  ASSUME TypeOK, NEW n \in Snaps, NEW j \in Jobs, j # n, Handle(j) \/ Pod(j)
  PROVE  s3'[n] = s3[n] /\ wf'[n] = wf[n]
<1>1. n \in Jobs
  BY DEF Jobs
<1>2. CASE Begin(j) \/ EnsureSecrets(j) \/ WritePatch(j)
  BY <1>2 DEF Begin, EnsureSecrets, WritePatch
<1>3. CASE Submit(j)
  BY <1>1, <1>3 DEF Submit, TypeOK
<1>4. CASE Finalize(j)
  BY <1>1, <1>4 DEF Finalize, Gone, TypeOK
<1>5. CASE FirstStep(j)
  BY <1>1, <1>5 DEF FirstStep, TypeOK
<1>6. CASE SecondStep(j)
  BY <1>1, <1>6 DEF SecondStep, TypeOK
<1> QED BY <1>2, <1>3, <1>4, <1>5, <1>6 DEF Handle, Pod

\* A Snapshot's dump stays as it is, and is not made again, once the Snapshot
\* is Completed: its Workflow has succeeded, a submission finds it, and no Pod
\* of it runs.
THEOREM SnapshotDumpStays == Spec => DumpStays
<1>1. ASSUME SnapshotInv, [Next]_snapshotVars, NEW n \in Snaps,
             Exists(n), status[n].phase = "Completed"
      PROVE  s3'[n] = s3[n] /\ wf'[n] \in {wf[n], None}
  <2>1. TypeOK /\ JobInv(n) /\ n \in Jobs
    BY <1>1 DEF SnapshotInv, Jobs
  <2>2. Has(n, {"Succeeded"}) /\ ~Has(n, {"Pending", "Started"})
    BY <1>1, <2>1 DEF JobInv, Reported, Has
  <2>3. CASE User
    BY <2>3 DEF User, Create, Edit, Delete, Connect
  <2>4. CASE Fault
    <3>1. CASE Restart
      BY <3>1 DEF Restart
    <3>2. ASSUME NEW j \in Jobs, CallFails(j)
          PROVE  s3'[n] = s3[n] /\ wf'[n] = wf[n]
      BY <2>1, <2>2, <3>2 DEF CallFails, Submitted, Has, TypeOK
    <3>3. ASSUME NEW j \in Jobs, PodFails(j)
          PROVE  s3'[n] = s3[n] /\ wf'[n] = wf[n]
      <4>1. j # n
        BY <2>2, <3>3 DEF PodFails, Has
      <4> QED BY <2>1, <3>3, <4>1 DEF PodFails, TypeOK
    <3>4. ASSUME NEW m \in Snaps, FinalizeFails(m)
          PROVE  s3'[n] = s3[n] /\ wf'[n] = wf[n]
      BY <3>4 DEF FinalizeFails, Gone
    <3> QED BY <2>4, <3>1, <3>2, <3>3, <3>4 DEF Fault
  <2>5. ASSUME NEW j \in Jobs, Handle(j) \/ Pod(j)
        PROVE  s3'[n] = s3[n] /\ wf'[n] \in {wf[n], None}
    <3>1. CASE j # n
      BY <2>1, <2>5, <3>1, DumpOfOther
    <3>2. CASE j = n
      <4>1. CASE Begin(n) \/ EnsureSecrets(n) \/ WritePatch(n)
        BY <4>1 DEF Begin, EnsureSecrets, WritePatch
      <4>2. CASE Submit(n)
        BY <2>1, <2>2, <4>2 DEF Submit, Submitted, Has, TypeOK
      <4>3. CASE Finalize(n)
        BY <2>1, <4>3 DEF Finalize, Gone, AfterDeletion, TypeOK
      <4>4. CASE Pod(n)
        BY <2>2, <4>4 DEF Pod, FirstStep, SecondStep, Has
      <4> QED BY <2>5, <3>2, <4>1, <4>2, <4>3, <4>4 DEF Handle
    <3> QED BY <3>1, <3>2
  <2>6. CASE UNCHANGED snapshotVars
    BY <2>6 DEF snapshotVars
  <2> QED BY <1>1, <2>3, <2>4, <2>5, <2>6 DEF Next
<1>2. SnapshotInv /\ [Next]_snapshotVars =>
        [\A n \in Snaps : Exists(n) /\ status[n].phase = "Completed"
           => s3'[n] = s3[n] /\ wf'[n] \in {wf[n], None}]_snapshotVars
  BY <1>1
<1> QED BY <1>2, SnapshotInvariant, PTL DEF Spec, DumpStays
=============================================================================
