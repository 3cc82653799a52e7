---------------------- MODULE DatabaseProvisionProofs ----------------------
(***************************************************************************)
(* Proofs about DatabaseProvision, for every set of Databases, servers,    *)
(* roles and specs and every bound.                                        *)
(*                                                                         *)
(* Type correctness holds of every instance.  The rest holds of those in   *)
(* which users keep to some condition on the specs they write, Mine[d]     *)
(* being all that Database d may ever have:                                *)
(*   PrivateCredentials  no two Databases keep the password at one place   *)
(*                       in OpenBao.  A handler that found nothing there   *)
(*                       writes later, and only its own writes can be      *)
(*                       excluded in between;                              *)
(*   OwnPlace            the server is never edited, and names differ, so  *)
(*                       that each Database has one place for its Job,     *)
(*                       Secret and ConfigMap, and has it alone (PlaceInv);*)
(*   NeverBack           with it, no script returns once it was replaced;  *)
(*   OwnRole             with OwnPlace, edits change initSql alone, and    *)
(*                       roles, databases and credentials are not shared.  *)
(***************************************************************************)
EXTENDS DatabaseProvision, TLAPS

----------------------------------------------------------------------------
(* Type correctness *)

LEMMA LocationType ==
  ASSUME NEW s \in Specs PROVE Location(s) \in Locations
  BY DEF Specs, Location, Locations

LEMMA KeyType ==
  ASSUME NEW d \in Dbs, NEW s \in Specs PROVE Key(d, s) \in Keys
  BY DatabaseAssumption DEF DatabaseAssumption, Specs, Key, Keys

LEMMA ScriptType ==
  ASSUME NEW s \in Specs PROVE Script(s) \in Scripts
  BY DEF Specs, Script, Scripts

LEMMA FrameType ==
  ASSUME TypeOK, NEW d \in Dbs
  PROVE  /\ run[d] \in Frame /\ Want(d) \in Specs /\ run[d].gen \in Nat
         /\ run[d].pass \in Passwords /\ run[d].out \in Status
         /\ spec[d] \in Specs /\ status[d] \in Status /\ gen[d] \in Nat
  BY DEF TypeOK, Frame, Want

\* Changes of a single field keep the frames frames.
Pcs == {"idle", "vault", "generate", "owner", "sql", "job", "check", "patch"}

LEMMA FrameFields ==
  ASSUME NEW f \in [Dbs -> Frame], NEW d \in Dbs
  PROVE  /\ \A pc \in Pcs : [f EXCEPT ![d].pc = pc] \in [Dbs -> Frame]
         /\ \A pass \in Passwords : [f EXCEPT ![d].pass = pass] \in [Dbs -> Frame]
         /\ \A out \in Status : [f EXCEPT ![d].out = out] \in [Dbs -> Frame]
         /\ \A b \in BOOLEAN : [f EXCEPT ![d].again = b] \in [Dbs -> Frame]
<1>1. ASSUME NEW r \in Frame
      PROVE  /\ \A pc \in Pcs : [r EXCEPT !.pc = pc] \in Frame
             /\ \A pass \in Passwords : [r EXCEPT !.pass = pass] \in Frame
             /\ \A out \in Status : [r EXCEPT !.out = out] \in Frame
             /\ \A b \in BOOLEAN : [r EXCEPT !.again = b] \in Frame
  BY DEF Frame, Pcs
<1>2. f[d] \in Frame
  OBVIOUS
<1>3. ASSUME NEW pc \in Pcs
      PROVE  [f EXCEPT ![d].pc = pc] \in [Dbs -> Frame]
  <2> DEFINE r == [f[d] EXCEPT !.pc = pc]
  <2>1. r \in Frame /\ [f EXCEPT ![d].pc = pc] = [f EXCEPT ![d] = r]
    BY <1>1, <1>2
  <2> HIDE DEF r
  <2> QED BY <2>1
<1>4. ASSUME NEW pass \in Passwords
      PROVE  [f EXCEPT ![d].pass = pass] \in [Dbs -> Frame]
  <2> DEFINE r == [f[d] EXCEPT !.pass = pass]
  <2>1. r \in Frame /\ [f EXCEPT ![d].pass = pass] = [f EXCEPT ![d] = r]
    BY <1>1, <1>2
  <2> HIDE DEF r
  <2> QED BY <2>1
<1>5. ASSUME NEW out \in Status
      PROVE  [f EXCEPT ![d].out = out] \in [Dbs -> Frame]
  <2> DEFINE r == [f[d] EXCEPT !.out = out]
  <2>1. r \in Frame /\ [f EXCEPT ![d].out = out] = [f EXCEPT ![d] = r]
    BY <1>1, <1>2
  <2> HIDE DEF r
  <2> QED BY <2>1
<1>6. ASSUME NEW b \in BOOLEAN
      PROVE  [f EXCEPT ![d].again = b] \in [Dbs -> Frame]
  <2> DEFINE r == [f[d] EXCEPT !.again = b]
  <2>1. r \in Frame /\ [f EXCEPT ![d].again = b] = [f EXCEPT ![d] = r]
    BY <1>1, <1>2
  <2> HIDE DEF r
  <2> QED BY <2>1
<1> QED BY <1>3, <1>4, <1>5, <1>6

\* Moving on, and ending with a status.
LEMMA GotoType ==
  ASSUME TypeOK, NEW d \in Dbs, NEW pc \in Pcs, Goto(d, pc)
  PROVE  run' \in [Dbs -> Frame]
  BY FrameFields DEF TypeOK, Goto

LEMMA EndType ==
  ASSUME TypeOK, NEW d \in Dbs, NEW out \in Status, NEW again \in BOOLEAN,
         End(d, out, again)
  PROVE  run' \in [Dbs -> Frame]
<1> DEFINE f == [run EXCEPT ![d].pc = "patch"]
           g == [f EXCEPT ![d].out = out]
<1>1. f \in [Dbs -> Frame]
  BY FrameFields DEF TypeOK, Pcs
<1>2. g \in [Dbs -> Frame]
  BY <1>1, FrameFields
<1>3. run' = [g EXCEPT ![d].again = again]
  BY DEF End
<1> QED BY <1>2, <1>3, FrameFields

LEMMA FailType ==
  ASSUME TypeOK, NEW d \in Dbs, NEW out \in Status, Fail(d, out)
  PROVE  run' \in [Dbs -> Frame]
<1>1. [out EXCEPT !.ready = FALSE, !.observed = run[d].gen] \in Status
  BY FrameType DEF Status
<1> QED BY <1>1, EndType DEF Fail

LEMMA PlacedType ==
  ASSUME NEW out \in Status, NEW s \in Specs, NEW done \in BOOLEAN
  PROVE  Placed(out, s, done) \in Status
  BY DatabaseAssumption DEF DatabaseAssumption, Placed, Status, Specs

LEMMA InitType == Init => TypeOK
<1> SUFFICES ASSUME Init PROVE TypeOK
  OBVIOUS
<1> USE DatabaseAssumption DEF DatabaseAssumption, Init
<1>1. spec \in [Dbs -> Specs]
  OBVIOUS
<1>2. NoStatus \in Status
  BY DEF NoStatus, Status
<1>3. run \in [Dbs -> Frame]
  BY <1>1, <1>2 DEF Frame, Passwords
<1>4. gen \in [Dbs -> Nat] /\ life \in [Dbs -> {"live", "deleting", "gone"}]
      /\ due \in SUBSET Dbs /\ status \in [Dbs -> Status]
  BY <1>2
<1>5. published \in [Servers -> BOOLEAN] /\ issued \in Nat
      /\ vault \in [Locations -> Passwords]
  BY DEF Passwords
<1>6. owner \in [Keys -> Passwords] /\ script \in [Keys -> Scripts \cup {None}]
      /\ job \in [Keys -> Jobs]
  BY DEF Passwords, Jobs
<1>7. password \in [Servers \X Users -> Passwords]
      /\ ownerOf \in [Servers \X Databases -> Users \cup {None}]
      /\ ran \in SUBSET (Servers \X Scripts)
  BY DEF Passwords
<1>8. faults \in 0 .. MaxFaults /\ crashes \in 0 .. MaxCrashes
  OBVIOUS
<1> QED BY <1>1, <1>2, <1>3, <1>4, <1>5, <1>6, <1>7, <1>8 DEF TypeOK

\* The steps of the handler, each with the parts of TypeOK it changes.
LEMMA CallType ==
  ASSUME TypeOK, NEW d \in Dbs, Call(d) PROVE TypeOK'
<1> DEFINE ok == published[spec[d].server]
           out == IF ok THEN status[d]
                  ELSE [status[d] EXCEPT !.ready = FALSE, !.observed = gen[d]]
           frame == [pc |-> IF ok THEN "vault" ELSE "patch", want |-> spec[d],
                     gen |-> gen[d], pass |-> None, out |-> out,
                     again |-> ~ok]
<1>1. run' = [run EXCEPT ![d] = frame]
  BY DEF Call
<1>2. status[d] \in Status /\ gen[d] \in Nat /\ spec[d] \in Specs
  BY FrameType
<1>3. [status[d] EXCEPT !.ready = FALSE, !.observed = gen[d]] \in Status
  BY <1>2 DEF Status
<1>4. out \in Status
  BY <1>2, <1>3
<1>5. ok \in BOOLEAN
  BY <1>2 DEF TypeOK, Specs
<1> HIDE DEF out, ok
<1>6. frame \in Frame
  BY <1>2, <1>4, <1>5 DEF Frame, Passwords
<1> HIDE DEF frame
<1>7. run' \in [Dbs -> Frame]
  BY <1>1, <1>6 DEF TypeOK
<1> QED BY <1>7 DEF TypeOK, Call, resource, cluster, postgres

LEMMA ReadVaultType ==
  ASSUME TypeOK, NEW d \in Dbs, ReadVault(d) PROVE TypeOK'
<1> DEFINE p == Location(Want(d))
<1>1. p \in Locations
  BY FrameType, LocationType
<1>2. vault[p] \in Passwords /\ issued + 1 \in Nat
  BY <1>1 DEF TypeOK
<1>3. ASSUME NEW pc \in {"owner", "generate"}, NEW pass \in Passwords,
             run' = [run EXCEPT ![d].pc = pc, ![d].pass = pass]
      PROVE  run' \in [Dbs -> Frame]
  <2> DEFINE f == [run EXCEPT ![d].pc = pc]
  <2>1. f \in [Dbs -> Frame]
    BY FrameFields DEF TypeOK, Pcs
  <2>2. run' = [f EXCEPT ![d].pass = pass]
    BY <1>3
  <2> QED BY <2>1, <2>2, FrameFields
<1>4. CASE Present(p)
  <2>1. run' = [run EXCEPT ![d].pc = "owner", ![d].pass = vault[p]]
        /\ issued' = issued
    BY <1>4 DEF ReadVault
  <2> QED BY <2>1, <1>2, <1>3 DEF TypeOK, ReadVault, resource, cluster, postgres
<1>5. CASE ~Present(p)
  <2>1. run' = [run EXCEPT ![d].pc = "generate", ![d].pass = issued + 1]
        /\ issued' = issued + 1
    BY <1>5 DEF ReadVault
  <2>2. issued + 1 \in Passwords
    BY <1>2 DEF Passwords
  <2> QED BY <2>1, <2>2, <1>2, <1>3
          DEF TypeOK, ReadVault, resource, cluster, postgres
<1> QED BY <1>4, <1>5

LEMMA WriteVaultType ==
  ASSUME TypeOK, NEW d \in Dbs, WriteVault(d) PROVE TypeOK'
<1>1. run' \in [Dbs -> Frame]
  BY GotoType DEF WriteVault, Pcs
<1>2. vault' \in [Locations -> Passwords]
  BY FrameType DEF TypeOK, WriteVault
<1> QED BY <1>1, <1>2 DEF TypeOK, WriteVault, resource, cluster, postgres

LEMMA ApplyOwnerType ==
  ASSUME TypeOK, NEW d \in Dbs, ApplyOwner(d) PROVE TypeOK'
<1>1. run' \in [Dbs -> Frame]
  BY GotoType DEF ApplyOwner, Pcs
<1>2. owner' \in [Keys -> Passwords]
  BY FrameType DEF TypeOK, ApplyOwner
<1> QED BY <1>1, <1>2 DEF TypeOK, ApplyOwner, resource, postgres

LEMMA ApplySqlType ==
  ASSUME TypeOK, NEW d \in Dbs, ApplySql(d) PROVE TypeOK'
<1>1. run' \in [Dbs -> Frame]
  BY GotoType DEF ApplySql, Pcs
<1>2. Script(Want(d)) \in Scripts
  BY FrameType, ScriptType
<1>3. script' \in [Keys -> Scripts \cup {None}]
  BY <1>2 DEF TypeOK, ApplySql
<1> QED BY <1>1, <1>3 DEF TypeOK, ApplySql, resource, postgres

LEMMA ApplyJobType ==
  ASSUME TypeOK, NEW d \in Dbs, ApplyJob(d) PROVE TypeOK'
<1> DEFINE k == Key(d, Want(d))
           new == [phase |-> "Running", server |-> Want(d).server,
                   script |-> Script(Want(d))]
<1>1. run' \in [Dbs -> Frame]
  BY GotoType DEF ApplyJob, Pcs
<1>2. Want(d).server \in Servers /\ Script(Want(d)) \in Scripts
  BY FrameType, ScriptType DEF Specs
<1>3. new \in Jobs /\ NoJob \in Jobs
  BY <1>2 DEF Jobs
<1>4. job' = [job EXCEPT ![k] = new] \/ job' = [job EXCEPT ![k] = NoJob]
      \/ job' = job
  BY DEF ApplyJob, TypeOK
<1> HIDE DEF new, k
<1>5. job' \in [Keys -> Jobs]
  BY <1>3, <1>4 DEF TypeOK
<1> QED BY <1>1, <1>5 DEF TypeOK, ApplyJob, resource, postgres

LEMMA CheckJobType ==
  ASSUME TypeOK, NEW d \in Dbs, CheckJob(d) PROVE TypeOK'
<1> DEFINE done == Provisioned(job[Key(d, Want(d))])
           out == Placed(run[d].out, Want(d), done)
           end == [out EXCEPT !.ready = TRUE, !.observed = run[d].gen,
                              !.connection = Want(d)]
<1>1. done \in BOOLEAN
  BY DEF Provisioned
<1>2. out \in Status
  BY <1>1, FrameType, PlacedType
<1>3. Fail(d, out) \/ End(d, end, FALSE)
  BY DEF CheckJob
<1> HIDE DEF out, done
<1>4. end \in Status
  BY <1>2, FrameType DEF Status
<1> HIDE DEF end
<1>5. run' \in [Dbs -> Frame]
  BY <1>2, <1>3, <1>4, FailType, EndType
<1> QED BY <1>5 DEF TypeOK, CheckJob, resource, cluster, postgres

LEMMA BackendErrorType ==
  ASSUME TypeOK, NEW d \in Dbs, BackendError(d) PROVE TypeOK'
<1>1. Placed(run[d].out, Want(d), FALSE) \in Status
  BY FrameType, PlacedType
<1>2. run' \in [Dbs -> Frame]
  BY <1>1, FrameType, FailType, EndType DEF BackendError
<1>3. faults' \in 0 .. MaxFaults
  BY DatabaseAssumption DEF DatabaseAssumption, TypeOK, BackendError
<1> QED BY <1>2, <1>3 DEF TypeOK, BackendError, resource, cluster, postgres

LEMMA WritePatchType ==
  ASSUME TypeOK, NEW d \in Dbs, WritePatch(d) PROVE TypeOK'
<1>1. run' \in [Dbs -> Frame]
  BY GotoType DEF WritePatch, Pcs
<1>2. status' \in [Dbs -> Status]
  BY FrameType DEF TypeOK, WritePatch
<1>3. due' \in SUBSET Dbs
  BY DEF TypeOK, WritePatch
<1> QED BY <1>1, <1>2, <1>3 DEF TypeOK, WritePatch, resource, cluster, postgres

LEMMA FinalizeType ==
  ASSUME TypeOK, NEW d \in Dbs, Finalize(d) PROVE TypeOK'
<1> DEFINE k == <<NameOf[d], status[d].space>>
<1>1. life' \in [Dbs -> {"live", "deleting", "gone"}]
  BY DEF TypeOK, Finalize
<1>2. faults' \in 0 .. MaxFaults
  BY DatabaseAssumption DEF DatabaseAssumption, TypeOK, Finalize
<1>3. /\ job' = job \/ job' = [job EXCEPT ![k] = NoJob]
      /\ owner' = owner \/ owner' = [owner EXCEPT ![k] = None]
      /\ script' = script \/ script' = [script EXCEPT ![k] = None]
  BY DEF Finalize
<1> HIDE DEF k
<1>4. job' \in [Keys -> Jobs]
  BY <1>3 DEF TypeOK, Jobs
<1>5. owner' \in [Keys -> Passwords]
  BY <1>3 DEF TypeOK, Passwords
<1>6. script' \in [Keys -> Scripts \cup {None}]
  BY <1>3 DEF TypeOK
<1> QED BY <1>1, <1>2, <1>4, <1>5, <1>6 DEF TypeOK, Finalize, postgres

\* Users, the cluster and restarts.
LEMMA EditType ==
  ASSUME TypeOK, NEW d \in Dbs, Edit(d) PROVE TypeOK'
<1>1. PICK s \in Specs : spec' = [spec EXCEPT ![d] = s]
  BY DEF Edit
<1>2. spec' \in [Dbs -> Specs]
  BY <1>1 DEF TypeOK
<1>3. gen' \in [Dbs -> Nat] /\ due' \in SUBSET Dbs
  BY DEF TypeOK, Edit
<1> QED BY <1>2, <1>3 DEF TypeOK, Edit, cluster, postgres

LEMMA RestartType ==
  ASSUME TypeOK, Restart PROVE TypeOK'
<1>1. ASSUME NEW d \in Dbs PROVE run'[d] \in Frame
  <2>1. run'[d] = [pc |-> "idle", want |-> run[d].want, gen |-> run[d].gen,
                   pass |-> run[d].pass, out |-> run[d].out,
                   again |-> run[d].again]
    BY FrameType DEF Restart, Frame
  <2> QED BY <2>1, FrameType DEF Frame, Want
<1>2. run' \in [Dbs -> Frame]
  BY <1>1 DEF Restart
<1>3. crashes' \in 0 .. MaxCrashes /\ due' \in SUBSET Dbs
  BY DatabaseAssumption DEF DatabaseAssumption, TypeOK, Restart
<1> QED BY <1>2, <1>3 DEF TypeOK, Restart, resource, cluster, postgres

LEMMA ProvisionType ==
  ASSUME TypeOK, NEW k \in Keys, Ready(k)
  PROVE  /\ job[k].server \in Servers /\ script[k] \in Scripts
         /\ job[k].script \in Scripts
         /\ Provision(k) => /\ password' \in [Servers \X Users -> Passwords]
                            /\ ownerOf' \in [Servers \X Databases
                                               -> Users \cup {None}]
<1>1. job[k] \in Jobs /\ script[k] \in Scripts \cup {None}
      /\ owner[k] \in Passwords
  BY DEF TypeOK
<1>2. job[k].server \in Servers /\ job[k].script \in Scripts
  BY <1>1 DEF Ready, Jobs, NoJob
<1>3. script[k] \in Scripts
  BY <1>1 DEF Ready
<1>4. script[k][2] \in Users
  BY <1>3 DEF Scripts
<1> QED BY <1>1, <1>2, <1>3, <1>4 DEF TypeOK, Provision

LEMMA FinishedType ==
  ASSUME TypeOK, NEW k \in Keys, Ready(k),
         NEW phase \in {"Succeeded", "Failed"},
         job' = [job EXCEPT ![k].phase = phase]
  PROVE  job' \in [Keys -> Jobs]
<1>1. job[k] \in [phase : {"Running", "Succeeded", "Failed"},
                  server : Servers, script : Scripts]
  BY DEF TypeOK, Ready, Jobs, NoJob
<1>2. [job[k] EXCEPT !.phase = phase] \in Jobs
  BY <1>1 DEF Jobs
<1>3. job' = [job EXCEPT ![k] = [job[k] EXCEPT !.phase = phase]]
  BY DEF TypeOK
<1> QED BY <1>2, <1>3 DEF TypeOK

LEMMA PodType ==
  ASSUME TypeOK, NEW k \in Keys, PodRuns(k) \/ PodFails(k) PROVE TypeOK'
<1>1. CASE PodRuns(k)
  <2>1. Ready(k) /\ Provision(k) /\ job' = [job EXCEPT ![k].phase = "Succeeded"]
    BY <1>1 DEF PodRuns
  <2>2. job' \in [Keys -> Jobs]
    BY <2>1, FinishedType
  <2>3. ran' \in SUBSET (Servers \X Scripts)
    BY <1>1, <2>1, ProvisionType DEF TypeOK, PodRuns
  <2> QED BY <1>1, <2>1, <2>2, <2>3, ProvisionType DEF TypeOK, PodRuns, resource
<1>2. CASE PodFails(k)
  <2>1. Ready(k) /\ (Provision(k) \/ UNCHANGED <<password, ownerOf>>)
        /\ job' = [job EXCEPT ![k].phase = "Failed"]
    BY <1>2 DEF PodFails
  <2>2. job' \in [Keys -> Jobs]
    BY <2>1, FinishedType
  <2>3. faults' \in 0 .. MaxFaults
    BY <1>2, DatabaseAssumption DEF DatabaseAssumption, TypeOK, PodFails
  <2>4. /\ password' \in [Servers \X Users -> Passwords]
        /\ ownerOf' \in [Servers \X Databases -> Users \cup {None}]
    BY <2>1, ProvisionType DEF TypeOK
  <2> QED BY <1>2, <2>2, <2>3, <2>4 DEF TypeOK, PodFails, resource
<1> QED BY <1>1, <1>2

LEMMA StepType == TypeOK /\ [Next]_vars => TypeOK'
<1> SUFFICES ASSUME TypeOK, [Next]_vars PROVE TypeOK'
  OBVIOUS
<1>1. ASSUME NEW d \in Dbs, Handler(d) PROVE TypeOK'
  BY <1>1, CallType, ReadVaultType, WriteVaultType, ApplyOwnerType,
     ApplySqlType, ApplyJobType, CheckJobType, WritePatchType, FinalizeType
     DEF Handler
<1>2. ASSUME NEW d \in Dbs, BackendError(d) \/ Edit(d) PROVE TypeOK'
  BY <1>2, BackendErrorType, EditType
<1>3. ASSUME NEW d \in Dbs, Delete(d) PROVE TypeOK'
  BY <1>3 DEF TypeOK, Delete, cluster, postgres
<1>4. ASSUME NEW s \in Servers, Publish(s) PROVE TypeOK'
  BY <1>4 DEF TypeOK, Publish, resource, cluster, postgres
<1>5. ASSUME NEW k \in Keys, PodRuns(k) \/ PodFails(k) PROVE TypeOK'
  BY <1>5, PodType
<1>6. CASE UNCHANGED vars
  BY <1>6 DEF TypeOK, vars, resource, cluster, postgres
<1> QED BY <1>1, <1>2, <1>3, <1>4, <1>5, <1>6, RestartType DEF Next

\* Every variable keeps its type: in particular a Pod only ever runs for a Job
\* that names a server, with SQL that some spec asked for.
THEOREM DatabaseTypeCorrect == Spec => []TypeOK
<1>1. Init => TypeOK
  BY InitType
<1>2. TypeOK /\ [Next]_vars => TypeOK'
  BY StepType
<1> QED BY <1>1, <1>2, PTL DEF Spec

----------------------------------------------------------------------------
(* What a step makes of a frame *)

\* Nobody else's resource, status or frame changes.
Alone(d) ==
    \A e \in Dbs \ {d} :
        /\ spec'[e] = spec[e] /\ gen'[e] = gen[e] /\ life'[e] = life[e]
        /\ status'[e] = status[e] /\ run'[e] = run[e]

LEMMA GotoFrame ==
  ASSUME TypeOK, NEW d \in Dbs, NEW pc \in Pcs, Goto(d, pc)
  PROVE  /\ run'[d].pc = pc /\ run'[d].want = run[d].want /\ run'[d].gen = run[d].gen
         /\ run'[d].pass = run[d].pass /\ run'[d].out = run[d].out
         /\ \A e \in Dbs \ {d} : run'[e] = run[e]
  BY DEF TypeOK, Goto, Frame

LEMMA EndFrame ==
  ASSUME TypeOK, NEW d \in Dbs, NEW out, NEW again, End(d, out, again)
  PROVE  /\ run'[d].pc = "patch" /\ run'[d].want = run[d].want /\ run'[d].out = out
         /\ \A e \in Dbs \ {d} : run'[e] = run[e]
  BY DEF TypeOK, End, Frame

LEMMA CallFrame ==
  ASSUME TypeOK, NEW d \in Dbs, Call(d)
  PROVE  /\ run'[d].want = spec[d] /\ run'[d].gen = gen[d]
         /\ run'[d].out.space = status[d].space
         /\ \A e \in Dbs \ {d} : run'[e] = run[e]
         /\ \/ run'[d].pc = "vault" /\ run'[d].out = status[d]
            \/ /\ run'[d].pc = "patch" /\ run'[d].out.ready = FALSE
               /\ run'[d].out.observed = gen[d]
<1>1. PICK st \in Status : st = status[d]
  BY FrameType
<1>2. CASE published[spec[d].server]
  <2>1. run' = [run EXCEPT ![d] = [pc |-> "vault", want |-> spec[d], gen |-> gen[d],
                                   pass |-> None, out |-> st, again |-> FALSE]]
    BY <1>1, <1>2 DEF Call
  <2> QED BY <1>1, <2>1 DEF TypeOK
<1>3. CASE ~published[spec[d].server]
  <2>1. PICK out : out = [st EXCEPT !.ready = FALSE, !.observed = gen[d]]
    OBVIOUS
  <2>2. out.ready = FALSE /\ out.observed = gen[d] /\ out.space = st.space
    BY <2>1 DEF Status
  <2>3. run' = [run EXCEPT ![d] = [pc |-> "patch", want |-> spec[d], gen |-> gen[d],
                                   pass |-> None, out |-> out, again |-> TRUE]]
    BY <1>1, <1>3, <2>1 DEF Call
  <2> QED BY <1>1, <2>2, <2>3 DEF TypeOK
<1> QED BY <1>2, <1>3

LEMMA ReadVaultFrame ==
  ASSUME TypeOK, NEW d \in Dbs, ReadVault(d)
  PROVE  /\ run'[d].want = run[d].want /\ run'[d].gen = run[d].gen
         /\ run'[d].out = run[d].out
         /\ \A e \in Dbs \ {d} : run'[e] = run[e]
         /\ \/ /\ run'[d].pc = "owner" /\ vault[Location(Want(d))] # None
               /\ run'[d].pass = vault[Location(Want(d))]
            \/ /\ run'[d].pc = "generate" /\ vault[Location(Want(d))] = None
               /\ run'[d].pass = issued + 1
  BY DEF TypeOK, ReadVault, Present, Frame

\* A status that says that the handler failed.
LEMMA FailFrame ==
  ASSUME TypeOK, NEW d \in Dbs, NEW out \in Status, Fail(d, out)
  PROVE  /\ run'[d].pc = "patch" /\ run'[d].want = run[d].want
         /\ run'[d].out.ready = FALSE /\ run'[d].out.observed = run[d].gen
         /\ run'[d].out.space = out.space
         /\ \A e \in Dbs \ {d} : run'[e] = run[e]
<1>1. PICK o : o = [out EXCEPT !.ready = FALSE, !.observed = run[d].gen]
  OBVIOUS
<1>2. o.ready = FALSE /\ o.observed = run[d].gen /\ o.space = out.space
  BY <1>1 DEF Status
<1>3. End(d, o, TRUE)
  BY <1>1 DEF Fail
<1> QED BY <1>2, <1>3, EndFrame

\* A status that has the namespace, and no other news.
LEMMA PlacedFields ==
  ASSUME NEW out \in Status, NEW s \in Specs, NEW done
  PROVE  /\ Placed(out, s, done) \in Status
         /\ Placed(out, s, done).space = SpaceOf[s.server]
         /\ SpaceOf[s.server] # None
         /\ Placed(out, s, done).ready = out.ready
         /\ Placed(out, s, done).observed = out.observed
         /\ Placed(out, s, done).connection = out.connection
  BY DatabaseAssumption DEF DatabaseAssumption, Placed, Status, Specs

\* CheckJob and BackendError leave a status that is not Ready for the
\* generation of the handler, or is as it was, or says what the Job has done.
LEMMA CheckJobFrame ==
  ASSUME TypeOK, NEW d \in Dbs, CheckJob(d)
  PROVE  /\ run'[d].pc = "patch" /\ run'[d].want = run[d].want
         /\ run'[d].out.space = SpaceOf[Want(d).server] /\ SpaceOf[Want(d).server] # None
         /\ run'[d].out.observed = run[d].gen
         /\ \A e \in Dbs \ {d} : run'[e] = run[e]
         /\ \/ run'[d].out.ready = FALSE
            \/ /\ job[Key(d, Want(d))].phase = "Succeeded"
               /\ run'[d].out.connection = Want(d)
<1>1. PICK o \in Status, w \in Specs : o = run[d].out /\ w = Want(d)
  BY FrameType
<1>2. PICK done : done = Provisioned(job[Key(d, w)])
  OBVIOUS
<1>3. PICK out \in Status : out = Placed(o, w, done) /\ out.space = SpaceOf[w.server]
  BY PlacedFields
<1>4. SpaceOf[w.server] # None
  BY <1>1, PlacedFields
<1>5. CASE ~done /\ Fail(d, out)
  BY <1>1, <1>3, <1>4, <1>5, FailFrame
<1>6. CASE done /\ End(d, [out EXCEPT !.ready = TRUE, !.observed = run[d].gen,
                                      !.connection = w], FALSE)
  <2>1. PICK new : new = [out EXCEPT !.ready = TRUE, !.observed = run[d].gen,
                                     !.connection = w]
    OBVIOUS
  <2>2. new.observed = run[d].gen /\ new.connection = w /\ new.space = out.space
    BY <2>1 DEF Status
  <2>3. End(d, new, FALSE)
    BY <1>6, <2>1
  <2> QED BY <1>1, <1>2, <1>3, <1>4, <1>6, <2>2, <2>3, EndFrame DEF Provisioned
<1>7. (~done /\ Fail(d, out)) \/
      (done /\ End(d, [out EXCEPT !.ready = TRUE, !.observed = run[d].gen,
                                  !.connection = w], FALSE))
  BY <1>1, <1>2, <1>3 DEF CheckJob
<1> QED BY <1>5, <1>6, <1>7

LEMMA BackendErrorFrame ==
  ASSUME TypeOK, NEW d \in Dbs, BackendError(d)
  PROVE  /\ run[d].pc \notin {"idle", "patch"}
         /\ run'[d].pc = "patch" /\ run'[d].want = run[d].want
         /\ \A e \in Dbs \ {d} : run'[e] = run[e]
         /\ \/ run'[d].out.space = run[d].out.space
            \/ run'[d].out.space = SpaceOf[Want(d).server]
         /\ \/ run'[d].out.ready = FALSE /\ run'[d].out.observed = run[d].gen
            \/ /\ run'[d].out.ready = run[d].out.ready
               /\ run'[d].out.observed = run[d].out.observed
               /\ run'[d].out.connection = run[d].out.connection
<1>1. PICK o \in Status, w \in Specs : o = run[d].out /\ w = Want(d)
  BY FrameType
<1>2. CASE Fail(d, o)
  BY <1>1, <1>2, FailFrame DEF BackendError
<1>3. CASE End(d, Placed(o, w, FALSE), TRUE)
  <2>1. PICK out : out = Placed(o, w, FALSE)
    OBVIOUS
  <2>2. /\ out.space = SpaceOf[w.server] /\ out.ready = o.ready
        /\ out.observed = o.observed /\ out.connection = o.connection
    BY <2>1, PlacedFields
  <2>3. End(d, out, TRUE)
    BY <1>3, <2>1
  <2>4. /\ run'[d].pc = "patch" /\ run'[d].want = run[d].want /\ run'[d].out = out
        /\ \A e \in Dbs \ {d} : run'[e] = run[e]
    BY <2>3, EndFrame
  <2> QED BY <1>1, <2>2, <2>4 DEF BackendError
<1>4. Fail(d, o) \/ End(d, Placed(o, w, FALSE), TRUE)
  BY <1>1 DEF BackendError
<1> QED BY <1>2, <1>3, <1>4

----------------------------------------------------------------------------
(* A password is generated once *)

\* Mine[d] are the specs that d may ever have; those of two Databases never
\* keep their password at the same place.
PrivateCredentials(Mine) ==
    /\ \A d \in Dbs : First[d] \subseteq Mine[d]
    /\ \A d \in Dbs, e \in Edits : e[1] \in Mine[d] => e[2] \in Mine[d]
    /\ \A d, e \in Dbs : d # e => \A s \in Mine[d], t \in Mine[e] :
         Location(s) # Location(t)

\* What the handler read is still so when it writes: there is nothing at the
\* place it generated a password for.
NothingThere(Mine) ==
    \A d \in Dbs :
      /\ spec[d] \in Mine[d] /\ Want(d) \in Mine[d]
      /\ At(d, "generate") => vault[Location(Want(d))] = None

\* A step of the frame of d alone that neither generates nor writes.
LEMMA NothingThereKept ==
  ASSUME NEW Mine, NothingThere(Mine), NEW d \in Dbs,
         run'[d].want = run[d].want, run'[d].pc # "generate",
         \A e \in Dbs \ {d} : run'[e] = run[e],
         UNCHANGED <<spec, vault>>
  PROVE  NothingThere(Mine)'
  BY DEF NothingThere, Want, At

LEMMA NothingThereStep ==
  ASSUME NEW Mine \in [Dbs -> SUBSET Specs], PrivateCredentials(Mine),
         TypeOK, NothingThere(Mine), [Next]_vars
  PROVE  NothingThere(Mine)'
<1>1. ASSUME NEW d \in Dbs, Call(d) PROVE NothingThere(Mine)'
  <2>1. run'[d].want = spec[d] /\ run'[d].pc \in {"vault", "patch"}
    BY <1>1 DEF TypeOK, Call
  <2>2. \A e \in Dbs \ {d} : run'[e] = run[e]
    BY <1>1 DEF TypeOK, Call
  <2>3. UNCHANGED <<spec, vault>>
    BY <1>1 DEF Call, resource
  <2> QED BY <2>1, <2>2, <2>3 DEF NothingThere, Want, At
<1>2. ASSUME NEW d \in Dbs, ReadVault(d) PROVE NothingThere(Mine)'
  <2>1. UNCHANGED <<spec, vault>>
    BY <1>2 DEF ReadVault, resource
  <2>2. run'[d].want = run[d].want
        /\ (run'[d].pc = "generate" => vault[Location(Want(d))] = None)
    BY <1>2 DEF TypeOK, ReadVault, Present, Frame
  <2>3. \A e \in Dbs \ {d} : run'[e] = run[e]
    BY <1>2 DEF TypeOK, ReadVault
  <2> QED BY <2>1, <2>2, <2>3 DEF NothingThere, Want, At
<1>3. ASSUME NEW d \in Dbs, WriteVault(d) PROVE NothingThere(Mine)'
  <2>1. /\ run'[d].want = run[d].want /\ run'[d].pc = "owner"
        /\ \A e \in Dbs \ {d} : run'[e] = run[e]
    BY <1>3, GotoFrame DEF WriteVault, Pcs
  <2>2. spec' = spec
    BY <1>3 DEF WriteVault, resource
  <2>3. ASSUME NEW e \in Dbs \ {d}, At(e, "generate")
        PROVE  vault'[Location(Want(e))] = vault[Location(Want(e))]
    <3>1. Location(Want(e)) # Location(Want(d))
      BY DEF PrivateCredentials, NothingThere
    <3> QED BY <3>1, <1>3, FrameType, LocationType DEF WriteVault, TypeOK
  <2> QED BY <2>1, <2>2, <2>3 DEF NothingThere, Want, At
<1>4. ASSUME NEW d \in Dbs,
             ApplyOwner(d) \/ ApplySql(d) \/ ApplyJob(d) \/ WritePatch(d)
      PROVE  NothingThere(Mine)'
  <2>1. PICK pc \in Pcs \ {"generate"} : Goto(d, pc)
    BY <1>4 DEF ApplyOwner, ApplySql, ApplyJob, WritePatch, Pcs
  <2>2. UNCHANGED <<spec, vault>>
    BY <1>4 DEF ApplyOwner, ApplySql, ApplyJob, WritePatch, resource
  <2> QED BY <2>1, <2>2, GotoFrame, NothingThereKept
<1>5. ASSUME NEW d \in Dbs, CheckJob(d) \/ BackendError(d)
      PROVE  NothingThere(Mine)'
  <2>1. PICK out, again : End(d, out, again)
    BY <1>5 DEF CheckJob, BackendError, Fail
  <2>2. UNCHANGED <<spec, vault>>
    BY <1>5 DEF CheckJob, BackendError, resource
  <2> QED BY <2>1, <2>2, EndFrame, NothingThereKept
<1>6. ASSUME NEW d \in Dbs, Edit(d) PROVE NothingThere(Mine)'
  <2>1. PICK s \in Specs : <<spec[d], s>> \in Edits
                           /\ spec' = [spec EXCEPT ![d] = s]
    BY <1>6 DEF Edit
  <2>2. s \in Mine[d]
    BY <2>1 DEF PrivateCredentials, NothingThere
  <2>3. UNCHANGED <<run, vault>>
    BY <1>6 DEF Edit
  <2> QED BY <2>1, <2>2, <2>3 DEF TypeOK, NothingThere, Want, At
<1>7. ASSUME Restart PROVE NothingThere(Mine)'
  <2>1. \A d \in Dbs : run'[d].want = run[d].want /\ run'[d].pc = "idle"
    BY <1>7 DEF TypeOK, Restart, Frame
  <2>2. UNCHANGED <<spec, vault>>
    BY <1>7 DEF Restart, resource
  <2> QED BY <2>1, <2>2 DEF NothingThere, Want, At
<1>8. ASSUME UNCHANGED <<spec, run, vault>> PROVE NothingThere(Mine)'
  BY <1>8 DEF NothingThere, Want, At
<1>9. ASSUME NEW d \in Dbs, Finalize(d) \/ Delete(d) PROVE NothingThere(Mine)'
  BY <1>9, <1>8 DEF Finalize, Delete
<1>10. ASSUME NEW s \in Servers, Publish(s) PROVE NothingThere(Mine)'
  BY <1>10, <1>8 DEF Publish, resource
<1>11. ASSUME NEW k \in Keys, PodRuns(k) \/ PodFails(k)
       PROVE  NothingThere(Mine)'
  BY <1>11, <1>8 DEF PodRuns, PodFails, resource
<1>12. CASE UNCHANGED vars
  BY <1>12, <1>8 DEF vars, resource
<1> QED BY <1>1, <1>2, <1>3, <1>4, <1>5, <1>6, <1>7, <1>9, <1>10, <1>11, <1>12
        DEF Next, Handler

LEMMA NothingThereInit ==
  ASSUME NEW Mine \in [Dbs -> SUBSET Specs], PrivateCredentials(Mine), Init
  PROVE  NothingThere(Mine)
<1>1. \A d \in Dbs : spec[d] \in First[d]
  BY DEF Init
<1>2. \A d \in Dbs : run[d].want = spec[d] /\ run[d].pc = "idle"
  BY DEF Init
<1> QED BY <1>1, <1>2 DEF PrivateCredentials, NothingThere, Want, At

LEMMA VaultStep ==
  ASSUME NEW Mine \in [Dbs -> SUBSET Specs], TypeOK, NothingThere(Mine),
         [Next]_vars, NEW p \in Locations, vault[p] # None
  PROVE  vault'[p] = vault[p]
<1>1. ASSUME NEW d \in Dbs, WriteVault(d) PROVE vault'[p] = vault[p]
  <2>1. Location(Want(d)) # p
    BY <1>1 DEF WriteVault, NothingThere
  <2> QED BY <1>1, <2>1 DEF TypeOK, WriteVault
<1>2. ASSUME NEW d \in Dbs,
             Call(d) \/ ReadVault(d) \/ ApplyOwner(d) \/ ApplySql(d)
             \/ ApplyJob(d) \/ CheckJob(d) \/ WritePatch(d) \/ Finalize(d)
             \/ BackendError(d) \/ Edit(d) \/ Delete(d)
      PROVE  vault' = vault
  BY <1>2 DEF Call, ReadVault, ApplyOwner, ApplySql, ApplyJob, CheckJob,
              WritePatch, Finalize, BackendError, Edit, Delete
<1>3. ASSUME \/ \E s \in Servers : Publish(s)
             \/ \E k \in Keys : PodRuns(k) \/ PodFails(k)
             \/ Restart
             \/ UNCHANGED vars
      PROVE  vault' = vault
  BY <1>3 DEF Publish, PodRuns, PodFails, Restart, vars
<1> QED BY <1>1, <1>2, <1>3 DEF Next, Handler

\* openbao.ensure_keys never overwrites a password (openbao.py:101) as long as
\* no two Databases keep theirs at one place, however calls fail, are retried
\* or cut short by a restart, and whatever users edit.  DatabaseShared shows
\* that the condition is needed.
THEOREM PasswordsAreGeneratedOnce ==
  ASSUME NEW Mine \in [Dbs -> SUBSET Specs], PrivateCredentials(Mine)
  PROVE  Spec => GenerateOnce
<1>1. Init => TypeOK /\ NothingThere(Mine)
  BY InitType, NothingThereInit
<1>2. TypeOK /\ NothingThere(Mine) /\ [Next]_vars
        => TypeOK' /\ NothingThere(Mine)'
  BY StepType, NothingThereStep
<1>3. TypeOK /\ NothingThere(Mine) /\ [Next]_vars
        => [\A p \in Locations : vault[p] # None => vault'[p] = vault[p]]_vars
  BY VaultStep
<1> QED BY <1>1, <1>2, <1>3, PTL DEF Spec, GenerateOnce

----------------------------------------------------------------------------
(* Each Database has a place of its own *)

Steps(d) == Handler(d) \/ BackendError(d) \/ Edit(d) \/ Delete(d)

LEMMA Places ==
  ASSUME NEW Mine \in [Dbs -> SUBSET Specs], OwnPlace(Mine), TypeOK, PlaceInv(Mine),
         NEW d \in Dbs
  PROVE  /\ AtPlace(Mine, d) /\ Place(d) \in Keys /\ Key(d, Want(d)) = Place(d)
         /\ Place(d) = <<NameOf[d], SpaceOf[spec[d].server]>>
         /\ \A e \in Dbs : e # d => Place(e) # Place(d)
         /\ status[d].space # None => <<NameOf[d], status[d].space>> = Place(d)
<1>1. AtPlace(Mine, d) /\ Place(d) \in Keys
  BY FrameType, KeyType DEF PlaceInv, Place
<1>2. \A e \in Dbs : Place(e) = <<NameOf[e], SpaceOf[spec[e].server]>>
  BY DEF Place, Key
<1>3. Key(d, Want(d)) = Place(d)
  BY <1>1 DEF AtPlace, Place, Key
<1>4. \A e \in Dbs : e # d => Place(e) # Place(d)
  BY <1>2 DEF OwnPlace
<1> QED BY <1>1, <1>2, <1>3, <1>4 DEF AtPlace, Placing

\* What is in the cluster at k changes at the hands of the handler of d alone.
LEMMA PlaceStep ==
  ASSUME NEW Mine \in [Dbs -> SUBSET Specs], OwnPlace(Mine), TypeOK, PlaceInv(Mine),
         NEW d \in Dbs, Steps(d)
  PROVE  /\ Alone(d)
         /\ \A k \in Keys : k # Place(d) =>
              job'[k] = job[k] /\ owner'[k] = owner[k] /\ script'[k] = script[k]
         /\ ran' = ran /\ password' = password /\ ownerOf' = ownerOf
         /\ faults <= faults' /\ crashes' = crashes
<1>1. faults \in Nat /\ crashes \in Nat
  BY DatabaseAssumption DEF TypeOK, DatabaseAssumption
<1>2. CASE Call(d)
  <2>1. \A e \in Dbs \ {d} : run'[e] = run[e]
    BY <1>2, CallFrame
  <2> QED BY <1>1, <1>2, <2>1 DEF Call, Alone, resource, cluster, postgres
<1>3. CASE ReadVault(d)
  BY <1>1, <1>3, ReadVaultFrame DEF ReadVault, Alone, resource, cluster, postgres
<1>4. CASE WriteVault(d)
  BY <1>1, <1>4, GotoFrame DEF WriteVault, Alone, resource, cluster, postgres, Pcs
<1>5. CASE ApplyOwner(d)
  BY <1>1, <1>5, Places, GotoFrame DEF ApplyOwner, Alone, resource, postgres, Pcs, TypeOK
<1>6. CASE ApplySql(d)
  BY <1>1, <1>6, Places, GotoFrame DEF ApplySql, Alone, resource, postgres, Pcs, TypeOK
<1>7. CASE ApplyJob(d)
  BY <1>1, <1>7, Places, GotoFrame DEF ApplyJob, Alone, resource, postgres, Pcs, TypeOK
<1>8. CASE CheckJob(d)
  <2>1. \A e \in Dbs \ {d} : run'[e] = run[e]
    BY <1>8, CheckJobFrame
  <2> QED BY <1>1, <1>8, <2>1 DEF CheckJob, Alone, resource, cluster, postgres
<1>9. CASE WritePatch(d)
  BY <1>1, <1>9, GotoFrame DEF WritePatch, Alone, resource, cluster, postgres, Pcs, TypeOK
<1>10. CASE Finalize(d)
  <2>1. PICK kept \in SUBSET {"job", "owner", "sql"} :
          LET k == <<NameOf[d], status[d].space>>
              Deleted(f, what, none) ==
                 IF status[d].space = None \/ what \in kept THEN f
                 ELSE [f EXCEPT ![k] = none]
          IN /\ faults' = IF kept = {} THEN faults ELSE faults + 1
             /\ job' = Deleted(job, "job", NoJob)
             /\ owner' = Deleted(owner, "owner", None)
             /\ script' = Deleted(script, "sql", None)
    BY <1>10 DEF Finalize
  <2>2. \A k \in Keys : k # Place(d) =>
              job'[k] = job[k] /\ owner'[k] = owner[k] /\ script'[k] = script[k]
    BY <2>1, Places DEF TypeOK
  <2>3. /\ Alone(d) /\ ran' = ran /\ password' = password /\ ownerOf' = ownerOf
        /\ crashes' = crashes
    BY <1>10 DEF Finalize, Alone, TypeOK, postgres
  <2> QED BY <1>1, <2>1, <2>2, <2>3
<1>11. CASE BackendError(d)
  <2>1. \A e \in Dbs \ {d} : run'[e] = run[e]
    BY <1>11, BackendErrorFrame
  <2> QED BY <1>1, <1>11, <2>1 DEF BackendError, Alone, resource, cluster, postgres
<1>12. CASE Edit(d)
  BY <1>1, <1>12 DEF Edit, Alone, cluster, postgres, TypeOK
<1>13. CASE Delete(d)
  BY <1>1, <1>13 DEF Delete, Alone, cluster, postgres, TypeOK
<1> QED BY <1>2, <1>3, <1>4, <1>5, <1>6, <1>7, <1>8, <1>9, <1>10, <1>11, <1>12, <1>13
        DEF Steps, Handler

\* The finalizer deletes what is at the place of its Database.
LEMMA FinalizePlace ==
  ASSUME NEW Mine \in [Dbs -> SUBSET Specs], OwnPlace(Mine), TypeOK, PlaceInv(Mine),
         NEW d \in Dbs, Finalize(d)
  PROVE  /\ UNCHANGED <<spec, gen, status, run, vault>> /\ life'[d] = "gone" /\ At(d, "idle")
         /\ job'[Place(d)] \in {job[Place(d)], NoJob}
         /\ owner'[Place(d)] \in {owner[Place(d)], None}
         /\ script'[Place(d)] \in {script[Place(d)], None}
         /\ status[d].space # None /\ faults' = faults =>
              job'[Place(d)] = NoJob /\ owner'[Place(d)] = None /\ script'[Place(d)] = None
<1>1. faults \in Nat
  BY DatabaseAssumption DEF TypeOK, DatabaseAssumption
<1>2. PICK kept \in SUBSET {"job", "owner", "sql"} :
          LET k == <<NameOf[d], status[d].space>>
              Deleted(f, what, none) ==
                 IF status[d].space = None \/ what \in kept THEN f
                 ELSE [f EXCEPT ![k] = none]
          IN /\ faults' = IF kept = {} THEN faults ELSE faults + 1
             /\ job' = Deleted(job, "job", NoJob)
             /\ owner' = Deleted(owner, "owner", None)
             /\ script' = Deleted(script, "sql", None)
  BY DEF Finalize
<1>3. /\ Place(d) \in Keys
      /\ status[d].space # None => <<NameOf[d], status[d].space>> = Place(d)
  BY Places
<1>4. /\ job'[Place(d)] \in {job[Place(d)], NoJob}
      /\ owner'[Place(d)] \in {owner[Place(d)], None}
      /\ script'[Place(d)] \in {script[Place(d)], None}
  BY <1>2, <1>3 DEF TypeOK
<1>5. status[d].space # None /\ kept = {} =>
         job'[Place(d)] = NoJob /\ owner'[Place(d)] = None /\ script'[Place(d)] = None
  BY <1>2, <1>3 DEF TypeOK
<1>6. faults' = faults => kept = {}
  BY <1>1, <1>2
<1>7. /\ UNCHANGED <<spec, gen, status, run, vault>> /\ life'[d] = "gone" /\ At(d, "idle")
  BY DEF Finalize, TypeOK
<1> QED BY <1>4, <1>5, <1>6, <1>7

\* A Pod runs for the Job of a Database.
LEMMA PodStep ==
  ASSUME NEW Mine \in [Dbs -> SUBSET Specs], OwnPlace(Mine), TypeOK, PlaceInv(Mine),
         NEW k \in Keys, PodRuns(k) \/ PodFails(k)
  PROVE  /\ UNCHANGED <<spec, gen, life, status, run, vault, owner, script, crashes>>
         /\ faults <= faults' /\ ran \subseteq ran'
         /\ \A l \in Keys : l # k => job'[l] = job[l]
         /\ job[k] # NoJob /\ owner[k] # None /\ script[k] # None
         /\ job'[k].server = job[k].server /\ job'[k].script = job[k].script
         /\ job'[k].phase = "Succeeded" => <<job[k].server, script[k]>> \in ran'
         /\ job'[k].phase \in {"Succeeded", "Failed"}
         /\ job'[k].phase = "Succeeded" => Provision(k)
         /\ Provision(k) \/ UNCHANGED <<password, ownerOf>>
         /\ \E d \in Dbs : k = Place(d)
<1>1. /\ job[k].phase = "Running" /\ owner[k] # None /\ script[k] # None
  BY DEF PodRuns, PodFails, Ready
<1>2. job[k] # NoJob /\ ~Empty(k)
  BY <1>1 DEF NoJob, Empty
<1>3. job[k] \in [phase : {"Running", "Succeeded", "Failed"}, server : Servers, script : Scripts]
  BY <1>2 DEF TypeOK, Jobs
<1>4. PICK phase \in {"Succeeded", "Failed"} :
         /\ job' = [job EXCEPT ![k].phase = phase]
         /\ phase = "Succeeded" => PodRuns(k)
  BY DEF PodRuns, PodFails
<1>5. /\ job'[k] = [job[k] EXCEPT !.phase = phase]
      /\ \A l \in Keys : l # k => job'[l] = job[l]
  BY <1>4 DEF TypeOK
<1>6. job'[k].phase = phase /\ job'[k].server = job[k].server /\ job'[k].script = job[k].script
  BY <1>3, <1>5
<1>7. /\ UNCHANGED <<spec, gen, life, status, run, vault, owner, script, crashes>>
      /\ faults <= faults' /\ ran \subseteq ran'
  BY DatabaseAssumption DEF PodRuns, PodFails, resource, TypeOK, DatabaseAssumption
<1>8. phase = "Succeeded" => Provision(k) /\ <<job[k].server, script[k]>> \in ran'
  BY <1>4 DEF PodRuns
<1>9. Provision(k) \/ UNCHANGED <<password, ownerOf>>
  BY DEF PodRuns, PodFails
<1>10. \E d \in Dbs : k = Place(d)
  BY <1>2 DEF PlaceInv
<1> QED BY <1>1, <1>2, <1>5, <1>6, <1>7, <1>8, <1>9, <1>10

LEMMA AtPlaceKept ==
  ASSUME NEW Mine \in [Dbs -> SUBSET Specs], OwnPlace(Mine), TypeOK, PlaceInv(Mine),
         NEW d \in Dbs, Steps(d)
  PROVE  AtPlace(Mine, d)' /\ spec'[d].server = spec[d].server
<1>1. /\ AtPlace(Mine, d) /\ Key(d, Want(d)) = Place(d) /\ Place(d) \in Keys
      /\ SpaceOf[Want(d).server] = SpaceOf[spec[d].server]
  BY Places DEF AtPlace
<1>2. CASE Call(d)
  <2>1. /\ run'[d].want = spec[d] /\ run'[d].out.space = status[d].space /\ life[d] # "gone"
        /\ UNCHANGED <<spec, life, status, job>>
    BY <1>2, CallFrame DEF Call, resource, cluster
  <2> QED BY <1>1, <2>1 DEF AtPlace, Want, At, Placing, Place, Key
<1>3. CASE ReadVault(d) \/ WriteVault(d) \/ ApplyOwner(d) \/ ApplySql(d)
  <2>1. /\ run'[d].want = run[d].want /\ run'[d].out = run[d].out /\ ~At(d, "idle")
        /\ UNCHANGED <<spec, life, status, job>>
    BY <1>3, ReadVaultFrame, GotoFrame
    DEF ReadVault, WriteVault, ApplyOwner, ApplySql, resource, cluster, Pcs, At
  <2> QED BY <1>1, <2>1 DEF AtPlace, Want, At, Placing, Place, Key
<1>4. CASE ApplyJob(d)
  <2>1. /\ run'[d].want = run[d].want /\ run'[d].out = run[d].out /\ ~At(d, "idle")
        /\ UNCHANGED <<spec, life, status>>
    BY <1>4, GotoFrame DEF ApplyJob, resource, Pcs, At
  <2>2. job'[Place(d)] # NoJob => job'[Place(d)].server = spec[d].server
    <3>1. job' = [job EXCEPT ![Place(d)] =
                    IF @.phase = "none"
                    THEN [phase |-> "Running", server |-> spec[d].server,
                          script |-> Script(Want(d))]
                    ELSE IF Stale(@, Want(d)) THEN NoJob ELSE @]
      BY <1>1, <1>4 DEF ApplyJob, AtPlace
    <3>2. \/ job'[Place(d)] = [phase |-> "Running", server |-> spec[d].server,
                               script |-> Script(Want(d))]
          \/ job'[Place(d)] = NoJob \/ job'[Place(d)] = job[Place(d)]
      BY <1>1, <3>1 DEF TypeOK
    <3> QED BY <1>1, <3>2 DEF AtPlace
  <2> QED BY <1>1, <2>1, <2>2 DEF AtPlace, Want, At, Placing, Place, Key
<1>5. CASE CheckJob(d) \/ BackendError(d)
  <2>1. /\ run'[d].want = run[d].want /\ ~At(d, "idle")
        /\ \/ run'[d].out.space = run[d].out.space
           \/ run'[d].out.space = SpaceOf[spec[d].server]
    BY <1>1, <1>5, CheckJobFrame, BackendErrorFrame DEF CheckJob, At
  <2>2. UNCHANGED <<spec, life, status, job>>
    BY <1>5 DEF CheckJob, BackendError, resource, cluster
  <2> QED BY <1>1, <2>1, <2>2 DEF AtPlace, Want, At, Placing, Place, Key
<1>6. CASE WritePatch(d)
  <2>1. /\ run'[d].want = run[d].want /\ run'[d].out = run[d].out /\ ~At(d, "idle")
        /\ status'[d] = run[d].out /\ UNCHANGED <<spec, life, job>>
    BY <1>6, GotoFrame DEF WritePatch, resource, cluster, Pcs, At, TypeOK
  <2> QED BY <1>1, <2>1 DEF AtPlace, Want, At, Placing, Place, Key
<1>7. CASE Finalize(d)
  <2>1. /\ UNCHANGED <<spec, gen, status, run, vault>> /\ At(d, "idle")
        /\ job'[Place(d)] \in {job[Place(d)], NoJob}
    BY <1>7, FinalizePlace
  <2> QED BY <1>1, <2>1 DEF AtPlace, Want, At, Placing, Place, Key
<1>8. CASE Edit(d)
  <2>1. PICK s \in Specs : <<spec[d], s>> \in Edits /\ spec' = [spec EXCEPT ![d] = s]
    BY <1>8 DEF Edit
  <2>2. s \in Mine[d] /\ s.server = spec[d].server /\ spec'[d] = s
    BY <1>1, <2>1 DEF OwnPlace, AtPlace, TypeOK
  <2>3. UNCHANGED <<life, status, run, job>>
    BY <1>8 DEF Edit, cluster
  <2> QED BY <1>1, <2>2, <2>3 DEF AtPlace, Want, At, Placing, Place, Key
<1>9. CASE Delete(d)
  <2>1. UNCHANGED <<spec, status, run, job>> /\ life'[d] = "deleting"
    BY <1>9 DEF Delete, cluster, TypeOK
  <2> QED BY <1>1, <2>1 DEF AtPlace, Want, At, Placing, Place, Key
<1> QED BY <1>2, <1>3, <1>4, <1>5, <1>6, <1>7, <1>8, <1>9 DEF Steps, Handler

LEMMA PlaceKeeps ==
  ASSUME NEW Mine \in [Dbs -> SUBSET Specs], OwnPlace(Mine), TypeOK, PlaceInv(Mine), [Next]_vars
  PROVE  PlaceInv(Mine)'
<1>1. ASSUME NEW d \in Dbs, Steps(d) PROVE PlaceInv(Mine)'
  <2>1. /\ Alone(d)
        /\ \A k \in Keys : k # Place(d) =>
              job'[k] = job[k] /\ owner'[k] = owner[k] /\ script'[k] = script[k]
    BY <1>1, PlaceStep
  <2>2. AtPlace(Mine, d)' /\ spec'[d].server = spec[d].server
    BY <1>1, AtPlaceKept
  <2>3. ASSUME NEW e \in Dbs, e # d PROVE AtPlace(Mine, e)' /\ Place(e)' = Place(e)
    <3>1. AtPlace(Mine, e) /\ Place(e) \in Keys /\ Place(e) # Place(d)
      BY <2>3, Places
    <3>2. spec'[e] = spec[e] /\ life'[e] = life[e] /\ status'[e] = status[e] /\ run'[e] = run[e]
      BY <2>1, <2>3 DEF Alone
    <3>3. Place(e)' = Place(e)
      BY <3>2 DEF Place, Key
    <3>4. job'[Place(e)] = job[Place(e)]
      BY <2>1, <3>1
    <3> QED BY <3>1, <3>2, <3>3, <3>4 DEF AtPlace, Want, At, Placing
  <2>4. Place(d)' = Place(d)
    BY <2>2 DEF Place, Key
  <2>5. ASSUME NEW k \in Keys, ~Empty(k)' PROVE \E e \in Dbs : k = Place(e)'
    <3>1. CASE k = Place(d)
      BY <2>4, <3>1
    <3>2. CASE k # Place(d)
      <4>1. ~Empty(k)
        BY <2>1, <2>5, <3>2 DEF Empty
      <4>2. PICK e \in Dbs : k = Place(e)
        BY <4>1 DEF PlaceInv
      <4> QED BY <2>3, <3>2, <4>2
    <3> QED BY <3>1, <3>2
  <2> QED BY <2>2, <2>3, <2>5 DEF PlaceInv
<1>2. ASSUME NEW k \in Keys, PodRuns(k) \/ PodFails(k) PROVE PlaceInv(Mine)'
  <2>1. /\ UNCHANGED <<spec, life, status, run, owner, script>>
        /\ \A l \in Keys : l # k => job'[l] = job[l]
        /\ job[k] # NoJob /\ job'[k].server = job[k].server
    BY <1>2, PodStep
  <2>2. \A d \in Dbs : Place(d)' = Place(d) /\ Place(d) \in Keys /\ AtPlace(Mine, d)
    BY <2>1, Places DEF Place, Key
  <2>3. ASSUME NEW d \in Dbs PROVE AtPlace(Mine, d)'
    BY <2>1, <2>2 DEF AtPlace, Want, At, Placing
  <2>4. ASSUME NEW l \in Keys, ~Empty(l)' PROVE \E d \in Dbs : l = Place(d)
    BY <2>1, <2>4 DEF Empty, PlaceInv
  <2> QED BY <2>2, <2>3, <2>4 DEF PlaceInv
<1>3. CASE Restart
  <2>1. /\ \A d \in Dbs : /\ run'[d].want = run[d].want /\ run'[d].pc = "idle"
                          /\ run'[d].out = run[d].out
        /\ UNCHANGED <<spec, life, status, job, owner, script>>
    BY <1>3 DEF Restart, TypeOK, Frame, resource, cluster
  <2>2. \A d \in Dbs : Place(d)' = Place(d)
    BY <2>1 DEF Place, Key
  <2> QED BY <2>1, <2>2 DEF PlaceInv, AtPlace, Want, At, Placing, Empty
<1>4. CASE UNCHANGED <<spec, life, status, run, job, owner, script>>
  <2>1. \A d \in Dbs : Place(d)' = Place(d)
    BY <1>4 DEF Place, Key
  <2> QED BY <1>4, <2>1 DEF PlaceInv, AtPlace, Want, At, Placing, Empty
<1>5. ASSUME (\E s \in Servers : Publish(s)) \/ UNCHANGED vars PROVE PlaceInv(Mine)'
  BY <1>4, <1>5 DEF Publish, vars, resource, cluster
<1> QED BY <1>1, <1>2, <1>3, <1>5 DEF Next, Steps

LEMMA PlaceInit ==
  ASSUME NEW Mine \in [Dbs -> SUBSET Specs], OwnPlace(Mine), Init
  PROVE  PlaceInv(Mine)
<1>1. \A d \in Dbs : /\ spec[d] \in First[d] /\ Want(d) = spec[d]
                     /\ life[d] = "live" /\ At(d, "idle")
                     /\ status[d] = NoStatus /\ run[d].out = NoStatus
  BY DEF Init, Want, At
<1>2. \A k \in Keys : Empty(k)
  BY DEF Init, Empty
<1>3. NoStatus.space = None
  BY DEF NoStatus
<1>4. ASSUME NEW d \in Dbs PROVE AtPlace(Mine, d)
  <2>1. spec[d] \in Mine[d]
    BY <1>1 DEF OwnPlace
  <2>2. Place(d) \in Keys
    BY <2>1, KeyType DEF Place
  <2> QED BY <1>1, <1>2, <1>3, <2>1, <2>2 DEF AtPlace, Placing, Empty
<1> QED BY <1>2, <1>4 DEF PlaceInv

\* What is d's is left alone by the steps of others ...
LEMMA OthersKept ==
  ASSUME NEW Mine \in [Dbs -> SUBSET Specs], OwnPlace(Mine), TypeOK, PlaceInv(Mine),
         NEW e \in Dbs, Steps(e), NEW d \in Dbs, d # e
  PROVE  /\ spec'[d] = spec[d] /\ gen'[d] = gen[d] /\ life'[d] = life[d]
         /\ status'[d] = status[d] /\ run'[d] = run[d]
         /\ Place(d)' = Place(d) /\ job'[Place(d)] = job[Place(d)]
         /\ owner'[Place(d)] = owner[Place(d)] /\ script'[Place(d)] = script[Place(d)]
         /\ ran' = ran /\ password' = password /\ ownerOf' = ownerOf
         /\ faults <= faults' /\ crashes' = crashes
<1>1. Place(d) \in Keys /\ Place(d) # Place(e)
  BY Places
<1>2. /\ Alone(e)
      /\ \A k \in Keys : k # Place(e) =>
           job'[k] = job[k] /\ owner'[k] = owner[k] /\ script'[k] = script[k]
      /\ ran' = ran /\ password' = password /\ ownerOf' = ownerOf
      /\ faults <= faults' /\ crashes' = crashes
  BY PlaceStep
<1>3. /\ spec'[d] = spec[d] /\ gen'[d] = gen[d] /\ life'[d] = life[d]
      /\ status'[d] = status[d] /\ run'[d] = run[d]
  BY <1>2 DEF Alone
<1> QED BY <1>1, <1>2, <1>3 DEF Place, Key

\* ... and of a Pod there is only the Job that it changes.
LEMMA PodKept ==
  ASSUME NEW Mine \in [Dbs -> SUBSET Specs], OwnPlace(Mine), TypeOK, PlaceInv(Mine),
         NEW k \in Keys, PodRuns(k) \/ PodFails(k), NEW d \in Dbs
  PROVE  /\ UNCHANGED <<spec, gen, life, status, run, vault, owner, script, crashes>>
         /\ faults <= faults' /\ ran \subseteq ran'
         /\ Place(d)' = Place(d) /\ Place(d) \in Keys
         /\ job'[Place(d)] # job[Place(d)] => k = Place(d)
<1>1. /\ UNCHANGED <<spec, gen, life, status, run, vault, owner, script, crashes>>
      /\ faults <= faults' /\ ran \subseteq ran'
      /\ \A l \in Keys : l # k => job'[l] = job[l]
  BY PodStep
<1>2. Place(d)' = Place(d) /\ Place(d) \in Keys
  BY <1>1, Places DEF Place, Key
<1> QED BY <1>1, <1>2

LEMMA RestartFrame ==
  ASSUME TypeOK, Restart, NEW d \in Dbs
  PROVE  /\ run'[d].want = run[d].want /\ run'[d].pc = "idle"
         /\ run'[d].gen = run[d].gen /\ run'[d].out = run[d].out
         /\ UNCHANGED <<spec, gen, life, status, vault, owner, script, job,
                        password, ownerOf, ran>>
         /\ Place(d)' = Place(d)
         /\ crashes' = crashes + 1 /\ crashes \in Nat
<1>1. crashes \in Nat
  BY DatabaseAssumption DEF TypeOK, DatabaseAssumption
<1>2. /\ run'[d].want = run[d].want /\ run'[d].pc = "idle"
      /\ run'[d].gen = run[d].gen /\ run'[d].out = run[d].out
  BY DEF Restart, TypeOK, Frame
<1>3. /\ UNCHANGED <<spec, gen, life, status, vault, owner, script, job,
                     password, ownerOf, ran>>
      /\ crashes' = crashes + 1
  BY DEF Restart, resource, cluster, postgres
<1> QED BY <1>1, <1>2, <1>3 DEF Place, Key

\* The steps that change nothing of a Database or what it has.
Still == UNCHANGED <<spec, gen, life, status, run, vault, owner, script, job,
                     password, ownerOf, ran, faults, crashes>>

LEMMA StillStep ==
  ASSUME (\E s \in Servers : Publish(s)) \/ UNCHANGED vars
  PROVE  Still /\ \A d \in Dbs : Place(d)' = Place(d)
  BY DEF Still, Publish, vars, resource, cluster, postgres, Place, Key

LEMMA NextCases ==
  ASSUME [Next]_vars
  PROVE  \/ \E d \in Dbs : Steps(d)
         \/ \E k \in Keys : PodRuns(k) \/ PodFails(k)
         \/ Restart
         \/ (\E s \in Servers : Publish(s)) \/ UNCHANGED vars
  BY DEF Next, Steps

----------------------------------------------------------------------------
(* Nothing is left behind *)

LEMMA LeftKept ==
  ASSUME NEW Mine \in [Dbs -> SUBSET Specs], OwnPlace(Mine), TypeOK, PlaceInv(Mine),
         NEW d \in Dbs, LeftInv(d), Steps(d)
  PROVE  LeftInv(d)'
<1>1. /\ AtPlace(Mine, d) /\ Place(d) \in Keys /\ Key(d, Want(d)) = Place(d)
      /\ Place(d)' = Place(d)
  BY Places, AtPlaceKept DEF Place, Key
<1>2. faults <= faults' /\ crashes' = crashes /\ faults \in Nat
  BY PlaceStep, DatabaseAssumption DEF TypeOK, DatabaseAssumption
<1> SUFFICES ASSUME faults' = 0, crashes' = 0
             PROVE  /\ ~At(d, "idle")' /\ status'[d].space # None
                         => run'[d].out.space # None
                    /\ ~Empty(Place(d))' =>
                         /\ life'[d] # "gone"
                         /\ \/ At(d, "sql")' \/ At(d, "job")' \/ At(d, "check")'
                            \/ status'[d].space # None
                            \/ At(d, "patch")' /\ run'[d].out.space # None
  BY DEF LeftInv
<1>3. faults = 0 /\ crashes = 0 /\ faults' = faults
  BY <1>2
<1>4. /\ ~At(d, "idle") /\ status[d].space # None => run[d].out.space # None
      /\ ~Empty(Place(d)) =>
             /\ life[d] # "gone"
             /\ \/ At(d, "sql") \/ At(d, "job") \/ At(d, "check")
                \/ status[d].space # None
                \/ At(d, "patch") /\ run[d].out.space # None
      /\ life[d] = "gone" => At(d, "idle")
  BY <1>1, <1>3 DEF LeftInv, AtPlace
<1>5. CASE Call(d)
  <2>1. /\ run'[d].out.space = status[d].space /\ run'[d].pc \in {"vault", "patch"}
        /\ At(d, "idle") /\ UNCHANGED <<life, status, job, owner, script>>
    BY <1>5, CallFrame DEF Call, resource, cluster
  <2> QED BY <1>1, <1>4, <2>1 DEF At, Empty
<1>6. CASE ReadVault(d) \/ WriteVault(d)
  <2>1. /\ run'[d].out = run[d].out /\ (At(d, "vault") \/ At(d, "generate"))
        /\ UNCHANGED <<life, status, job, owner, script>>
    BY <1>6, ReadVaultFrame, GotoFrame DEF ReadVault, WriteVault, resource, cluster, Pcs
  <2> QED BY <1>1, <1>4, <2>1 DEF At, Empty
<1>7. CASE ApplyOwner(d) \/ ApplySql(d) \/ ApplyJob(d)
  <2>1. /\ run'[d].out = run[d].out /\ run'[d].pc \in {"sql", "job", "check"}
        /\ ~At(d, "idle") /\ UNCHANGED <<life, status>>
    BY <1>7, GotoFrame DEF ApplyOwner, ApplySql, ApplyJob, resource, Pcs, At
  <2> QED BY <1>4, <2>1 DEF At
<1>8. CASE CheckJob(d)
  <2>1. /\ run'[d].out.space # None /\ run'[d].pc = "patch"
        /\ ~At(d, "idle") /\ UNCHANGED <<life, status>>
    BY <1>8, CheckJobFrame DEF CheckJob, resource, At
  <2> QED BY <1>4, <2>1 DEF At
<1>9. CASE WritePatch(d)
  <2>1. /\ run'[d].pc = "idle" /\ At(d, "patch") /\ status'[d] = run[d].out
        /\ UNCHANGED <<life, job, owner, script>>
    BY <1>9, GotoFrame DEF WritePatch, resource, cluster, Pcs, TypeOK
  <2> QED BY <1>1, <1>4, <2>1 DEF At, Empty
<1>10. CASE Finalize(d)
  <2>1. /\ UNCHANGED <<status, run>> /\ At(d, "idle")
        /\ job'[Place(d)] \in {job[Place(d)], NoJob}
        /\ owner'[Place(d)] \in {owner[Place(d)], None}
        /\ script'[Place(d)] \in {script[Place(d)], None}
        /\ status[d].space # None =>
              job'[Place(d)] = NoJob /\ owner'[Place(d)] = None /\ script'[Place(d)] = None
    BY <1>3, <1>10, FinalizePlace
  <2>2. Empty(Place(d)) \/ status[d].space # None
    BY <1>4, <2>1 DEF At
  <2>3. Empty(Place(d))'
    BY <1>1, <2>1, <2>2 DEF Empty
  <2> QED BY <2>1, <2>3 DEF At
<1>11. CASE BackendError(d)
  BY <1>2, <1>3, <1>11 DEF BackendError
<1>12. CASE Edit(d)
  <2>1. UNCHANGED <<life, status, run, job, owner, script>>
    BY <1>12 DEF Edit, cluster
  <2> QED BY <1>1, <1>4, <2>1 DEF At, Empty
<1>13. CASE Delete(d)
  <2>1. UNCHANGED <<status, run, job, owner, script>> /\ life'[d] = "deleting"
    BY <1>13 DEF Delete, cluster, TypeOK
  <2> QED BY <1>1, <1>4, <2>1 DEF At, Empty
<1> QED BY <1>5, <1>6, <1>7, <1>8, <1>9, <1>10, <1>11, <1>12, <1>13 DEF Steps, Handler

LEMMA LeftStep ==
  ASSUME NEW Mine \in [Dbs -> SUBSET Specs], OwnPlace(Mine), TypeOK, PlaceInv(Mine),
         \A d \in Dbs : LeftInv(d), [Next]_vars, NEW d \in Dbs
  PROVE  LeftInv(d)'
<1>1. faults \in Nat /\ LeftInv(d)
  BY DatabaseAssumption DEF TypeOK, DatabaseAssumption
<1>2. ASSUME NEW e \in Dbs, Steps(e) PROVE LeftInv(d)'
  <2>1. CASE e = d
    BY <1>1, <1>2, <2>1, LeftKept
  <2>2. CASE e # d
    <3>1. /\ life'[d] = life[d] /\ status'[d] = status[d] /\ run'[d] = run[d]
          /\ Place(d)' = Place(d) /\ job'[Place(d)] = job[Place(d)]
          /\ owner'[Place(d)] = owner[Place(d)] /\ script'[Place(d)] = script[Place(d)]
          /\ faults <= faults' /\ crashes' = crashes /\ faults' \in Nat
      BY <1>2, <2>2, OthersKept, StepType, DatabaseAssumption DEF TypeOK, DatabaseAssumption
    <3>2. faults' = 0 => faults = 0
      BY <1>1, <3>1
    <3> QED BY <1>1, <3>1, <3>2 DEF LeftInv, Empty, At
  <2> QED BY <2>1, <2>2
<1>3. ASSUME NEW k \in Keys, PodRuns(k) \/ PodFails(k) PROVE LeftInv(d)'
  <2>1. /\ UNCHANGED <<life, status, run, owner, script, crashes>>
        /\ faults <= faults' /\ Place(d)' = Place(d)
        /\ job'[Place(d)] # job[Place(d)] => k = Place(d)
    BY <1>3, PodKept
  <2>2. job[k] # NoJob
    BY <1>3, PodStep
  <2>3. Empty(Place(d)) => Empty(Place(d))'
    BY <2>1, <2>2 DEF Empty
  <2>4. faults' \in Nat
    BY StepType, DatabaseAssumption DEF TypeOK, DatabaseAssumption
  <2>5. faults' = 0 => faults = 0
    BY <1>1, <2>1, <2>4
  <2> QED BY <1>1, <2>1, <2>3, <2>5 DEF LeftInv, At
<1>4. CASE Restart
  <2>1. crashes' # 0
    BY <1>4, RestartFrame
  <2> QED BY <2>1 DEF LeftInv
<1>5. CASE (\E s \in Servers : Publish(s)) \/ UNCHANGED vars
  BY <1>1, <1>5, StillStep DEF Still, LeftInv, Empty, At
<1> QED BY <1>2, <1>3, <1>4, <1>5, NextCases

LEMMA LeftInit ==
  ASSUME Init, TypeOK, NEW d \in Dbs PROVE LeftInv(d)
<1>1. \A k \in Keys : Empty(k)
  BY DEF Init, Empty
<1>2. Place(d) \in Keys
  BY FrameType, KeyType DEF Place
<1>3. At(d, "idle")
  BY DEF Init, At
<1> QED BY <1>1, <1>2, <1>3 DEF LeftInv

\* With no failed call and no restart, nothing of a deleted Database is left
\* in any namespace: what the handler (handlers/database.py) made is in the
\* one namespace that status.serverNamespace has told its finalizer of.
THEOREM DatabaseNothingLeftBehind ==
  ASSUME NEW Mine \in [Dbs -> SUBSET Specs], OwnPlace(Mine)
  PROVE  Spec => []NothingLeftBehind
<1> DEFINE Left == \A d \in Dbs : LeftInv(d)
<1>1. Init => TypeOK /\ PlaceInv(Mine) /\ Left
  BY InitType, PlaceInit, LeftInit
<1>2. TypeOK /\ PlaceInv(Mine) /\ Left /\ [Next]_vars
        => TypeOK' /\ PlaceInv(Mine)' /\ Left'
  BY StepType, PlaceKeeps, LeftStep
<1>3. TypeOK /\ PlaceInv(Mine) /\ Left => NothingLeftBehind
  <2> SUFFICES ASSUME TypeOK, PlaceInv(Mine), Left, NEW d \in Dbs, life[d] = "gone",
                      faults = 0, crashes = 0, NEW s \in Spaces
               PROVE  Empty(<<NameOf[d], s>>)
    BY DEF NothingLeftBehind, Empty
  <2>1. <<NameOf[d], s>> \in Keys
    BY DatabaseAssumption DEF DatabaseAssumption, Keys
  <2>2. Empty(Place(d))
    BY DEF LeftInv
  <2>3. ASSUME NEW e \in Dbs, <<NameOf[d], s>> = Place(e) PROVE e = d
    BY <2>3 DEF OwnPlace, Place, Key
  <2> QED BY <2>1, <2>2, <2>3 DEF PlaceInv
<1> HIDE DEF Left
<1> QED BY <1>1, <1>2, <1>3, PTL DEF Spec

----------------------------------------------------------------------------
(* A Ready Database was provisioned *)

LEMMA UpToTransitive ==
  ASSUME NEW Version \in [Scripts -> Nat], NEW x \in Scripts, NEW y \in Scripts, NEW z \in Scripts,
         UpTo(Version, x, y), UpTo(Version, y, z)
  PROVE  /\ UpTo(Version, x, z)
         /\ x = z => x = y
  BY DEF UpTo

LEMMA TurnKept ==
  ASSUME NEW Mine \in [Dbs -> SUBSET Specs], TypeOK, NEW d \in Dbs,
         AtPlace(Mine, d), TurnInv(d), Steps(d)
  PROVE  TurnInv(d)'
<1>1. /\ gen[d] \in Nat /\ run[d].gen \in Nat
      /\ status[d].observed \in Nat /\ run[d].out.observed \in Nat
  BY FrameType DEF Status
<1>2. CASE Call(d)
  <2>1. /\ run'[d].want = spec[d] /\ run'[d].gen = gen[d] /\ life[d] = "live"
        /\ UNCHANGED <<spec, gen, life, status>>
        /\ run'[d].out.observed \in {status[d].observed, gen[d]}
    BY <1>2, CallFrame DEF Call, resource
  <2> QED BY <1>1, <2>1 DEF TurnInv, Working, Want
<1>3. CASE ReadVault(d) \/ WriteVault(d) \/ ApplyOwner(d) \/ ApplySql(d) \/ ApplyJob(d)
  <2>1. /\ run'[d].want = run[d].want /\ run'[d].gen = run[d].gen /\ run'[d].out = run[d].out
        /\ Working(d) /\ UNCHANGED <<spec, gen, life, status>>
    BY <1>3, ReadVaultFrame, GotoFrame
    DEF ReadVault, WriteVault, ApplyOwner, ApplySql, ApplyJob, resource, Pcs, Working, At
  <2> QED BY <2>1 DEF TurnInv, Want
<1>4. CASE CheckJob(d) \/ BackendError(d)
  <2>1. /\ run'[d].pc = "patch" /\ Working(d)
        /\ run'[d].out.observed \in {run[d].gen, run[d].out.observed}
        /\ UNCHANGED <<spec, gen, life, status>>
    BY <1>4, CheckJobFrame, BackendErrorFrame
    DEF CheckJob, BackendError, resource, Working, At
  <2> QED BY <2>1 DEF TurnInv, Working
<1>5. CASE WritePatch(d)
  <2>1. /\ run'[d].pc = "idle" /\ run'[d].out = run[d].out /\ status'[d] = run[d].out
        /\ UNCHANGED <<spec, gen, life>>
    BY <1>5, GotoFrame DEF WritePatch, resource, Pcs, TypeOK
  <2> QED BY <2>1 DEF TurnInv, Working
<1>6. CASE Finalize(d)
  <2>1. run[d].pc = "idle" /\ UNCHANGED <<spec, gen, status, run>>
    BY <1>6 DEF Finalize, At
  <2> QED BY <2>1 DEF TurnInv, Working
<1>7. CASE Edit(d)
  <2>1. gen'[d] = gen[d] + 1 /\ UNCHANGED <<life, status, run>>
    BY <1>7 DEF Edit, TypeOK
  <2> QED BY <1>1, <2>1 DEF TurnInv, Working
<1>8. CASE Delete(d)
  <2>1. life'[d] = "deleting" /\ UNCHANGED <<spec, gen, status, run>>
    BY <1>8 DEF Delete, TypeOK
  <2> QED BY <2>1 DEF TurnInv, Working, Want
<1> QED BY <1>2, <1>3, <1>4, <1>5, <1>6, <1>7, <1>8 DEF Steps, Handler

\* What a Succeeded Job was for has run, so that CheckJob is right.
LEMMA RanKept ==
  ASSUME NEW Mine \in [Dbs -> SUBSET Specs], OwnPlace(Mine), TypeOK, PlaceInv(Mine),
         NEW Version, NEW d \in Dbs, ProvisionInv(Version, d), Steps(d)
  PROVE  RanInv(d, status[d])' /\ RanInv(d, run[d].out)'
<1>1. ran' = ran
  BY PlaceStep
<1>2. TurnInv(d) /\ RanInv(d, status[d]) /\ RanInv(d, run[d].out)
  BY DEF ProvisionInv
<1>3. ASSUME \/ run'[d].out = run[d].out \/ run'[d].out = status[d]
             \/ run'[d].out.ready = FALSE
             \/ /\ run'[d].out.ready = run[d].out.ready
                /\ run'[d].out.observed = run[d].out.observed,
             status'[d] \in {status[d], run[d].out}, UNCHANGED <<spec, gen>>
      PROVE  RanInv(d, status[d])' /\ RanInv(d, run[d].out)'
  BY <1>1, <1>2, <1>3 DEF RanInv
<1>4. CASE Call(d)
  <2>1. run'[d].out = status[d] \/ run'[d].out.ready = FALSE
    BY <1>4, CallFrame
  <2> QED BY <1>3, <1>4, <2>1 DEF Call, resource
<1>5. CASE ReadVault(d)
  BY <1>3, <1>5, ReadVaultFrame DEF ReadVault, resource
<1>6. CASE WriteVault(d) \/ ApplyOwner(d) \/ ApplySql(d) \/ ApplyJob(d)
  <2>1. run'[d].out = run[d].out /\ UNCHANGED <<spec, gen, status>>
    BY <1>6, GotoFrame DEF WriteVault, ApplyOwner, ApplySql, ApplyJob, resource, Pcs
  <2> QED BY <1>3, <2>1
<1>7. CASE CheckJob(d)
  <2>1. /\ run'[d].out.observed = run[d].gen /\ UNCHANGED <<spec, gen, life, status>>
        /\ run'[d].out.ready = FALSE \/ job[Key(d, Want(d))].phase = "Succeeded"
    BY <1>7, CheckJobFrame DEF CheckJob, resource
  <2>2. /\ Working(d) /\ At(d, "check") /\ life[d] # "gone"
        /\ run[d].gen = gen[d] => Want(d) = spec[d]
    BY <1>2, <1>7 DEF CheckJob, Working, At, TurnInv
  <2>3. Key(d, Want(d)) = Place(d) /\ AtPlace(Mine, d)
    BY Places
  <2>4. ASSUME job[Place(d)].phase = "Succeeded"
        PROVE  <<spec[d].server, Script(Want(d))>> \in ran
    <3>1. job[Place(d)] # NoJob
      BY <2>4 DEF NoJob
    <3>2. job[Place(d)].server = spec[d].server
      BY <2>3, <3>1 DEF AtPlace
    <3> QED BY <2>2, <2>4, <3>1, <3>2 DEF ProvisionInv, ScriptInv
  <2>5. RanInv(d, run[d].out)'
    BY <1>1, <2>1, <2>2, <2>3, <2>4 DEF RanInv
  <2>6. RanInv(d, status[d])'
    BY <1>1, <1>2, <2>1 DEF RanInv
  <2> QED BY <2>5, <2>6
<1>8. CASE BackendError(d)
  <2>1. UNCHANGED <<spec, gen, status>>
    BY <1>8 DEF BackendError, resource
  <2> QED BY <1>3, <1>8, <2>1, BackendErrorFrame
<1>9. CASE WritePatch(d)
  <2>1. run'[d].out = run[d].out /\ status'[d] = run[d].out /\ UNCHANGED <<spec, gen>>
    BY <1>9, GotoFrame DEF WritePatch, resource, Pcs, TypeOK
  <2> QED BY <1>3, <2>1
<1>10. CASE Finalize(d) \/ Delete(d)
  <2>1. UNCHANGED <<spec, gen, status, run>>
    BY <1>10 DEF Finalize, Delete
  <2> QED BY <1>3, <2>1
<1>11. CASE Edit(d)
  <2>1. gen'[d] = gen[d] + 1 /\ UNCHANGED <<status, run>>
    BY <1>11 DEF Edit, TypeOK
  <2>2. gen[d] \in Nat /\ status[d].observed \in Nat /\ run[d].out.observed \in Nat
    BY FrameType DEF Status
  <2> QED BY <1>2, <2>1, <2>2 DEF RanInv, TurnInv
<1> QED BY <1>4, <1>5, <1>6, <1>7, <1>8, <1>9, <1>10, <1>11 DEF Steps, Handler

LEMMA ScriptKept ==
  ASSUME NEW Mine \in [Dbs -> SUBSET Specs], OwnPlace(Mine),
         NEW Version \in [Scripts -> Nat], NeverBack(Mine, Version),
         TypeOK, PlaceInv(Mine), NEW d \in Dbs, ProvisionInv(Version, d), Steps(d)
  PROVE  ScriptInv(Version, d)'
<1> DEFINE j == job[Place(d)]
           there == script[Place(d)]
           wanted == Script(Want(d))
           now == Script(spec[d])
<1>1. /\ AtPlace(Mine, d) /\ Place(d) \in Keys /\ Key(d, Want(d)) = Place(d)
      /\ Place(d)' = Place(d) /\ ran' = ran
  BY Places, AtPlaceKept, PlaceStep DEF Place, Key
<1>2. /\ wanted \in Scripts /\ now \in Scripts /\ there \in Scripts \cup {None}
      /\ j # NoJob => j.script \in Scripts
      /\ None \notin Scripts /\ Want(d) \in Specs
  BY <1>1, FrameType, ScriptType, DatabaseAssumption DEF TypeOK, Jobs, DatabaseAssumption
<1>3. /\ life[d] = "gone" => ~Working(d)
      /\ ScriptInv(Version, d)
  BY DEF ProvisionInv, TurnInv
<1>4. CASE life'[d] = "gone"
  BY <1>4 DEF ScriptInv
<1>5. CASE Call(d)
  <2>1. /\ run'[d].want = spec[d] /\ run'[d].pc \in {"vault", "patch"} /\ life[d] # "gone"
        /\ UNCHANGED <<spec, script, job>>
    BY <1>5, CallFrame DEF Call, resource, cluster
  <2> QED BY <1>1, <1>2, <1>3, <2>1 DEF ScriptInv, Working, At, Want, UpTo
<1>6. CASE ReadVault(d) \/ WriteVault(d) \/ ApplyOwner(d)
  <2>1. /\ run'[d].want = run[d].want /\ run'[d].pc \in {"owner", "generate", "sql"}
        /\ Working(d) /\ UNCHANGED <<spec, life, script, job>>
    BY <1>6, ReadVaultFrame, GotoFrame
    DEF ReadVault, WriteVault, ApplyOwner, resource, cluster, Pcs, Working, At
  <2> QED BY <1>1, <1>3, <2>1 DEF ScriptInv, Working, At, Want
<1>7. CASE ApplySql(d)
  <2>1. /\ run'[d].want = run[d].want /\ run'[d].pc = "job"
        /\ Working(d) /\ UNCHANGED <<spec, life, job>> /\ script'[Place(d)] = wanted
    BY <1>1, <1>7, GotoFrame DEF ApplySql, resource, Pcs, Working, At, TypeOK
  <2>2. UpTo(Version, wanted, now) /\ UpTo(Version, wanted, wanted)
    BY <1>3, <2>1 DEF ScriptInv, UpTo
  <2>3. ASSUME j # NoJob
        PROVE  /\ UpTo(Version, j.script, wanted)
               /\ j.phase = "Succeeded" /\ j.script = wanted => <<j.server, j.script>> \in ran
    <3>1. /\ there # None /\ UpTo(Version, j.script, there) /\ UpTo(Version, there, wanted)
          /\ j.phase = "Succeeded" /\ j.script = there => <<j.server, j.script>> \in ran
      BY <1>3, <2>1, <2>3 DEF ScriptInv
    <3>2. /\ UpTo(Version, j.script, wanted)
          /\ j.script = wanted => j.script = there
      BY <1>2, <2>3, <3>1, UpToTransitive
    <3> QED BY <3>1, <3>2
  <2> HIDE DEF wanted
  <2> QED BY <1>1, <1>2, <2>1, <2>2, <2>3 DEF ScriptInv, Working, At, Want, wanted
<1>8. CASE ApplyJob(d)
  <2>1. /\ run'[d].want = run[d].want /\ run'[d].pc = "check"
        /\ Working(d) /\ UNCHANGED <<spec, life, script>>
    BY <1>8, GotoFrame DEF ApplyJob, resource, Pcs, Working, At
  <2>2. /\ UpTo(Version, wanted, now) /\ UpTo(Version, wanted, wanted) /\ there = wanted
    BY <1>3, <1>8, <2>1 DEF ScriptInv, UpTo, ApplyJob, At
  <2>3. \/ job'[Place(d)] = [phase |-> "Running", server |-> Want(d).server,
                             script |-> wanted]
        \/ job'[Place(d)] = NoJob
        \/ job'[Place(d)] = j /\ j.script = wanted
    <3>1. job' = [job EXCEPT ![Place(d)] =
                    IF @.phase = "none"
                    THEN [phase |-> "Running", server |-> Want(d).server, script |-> wanted]
                    ELSE IF Stale(@, Want(d)) THEN NoJob ELSE @]
      BY <1>1, <1>8 DEF ApplyJob
    <3> HIDE DEF wanted
    <3>2. \/ job'[Place(d)] = [phase |-> "Running", server |-> Want(d).server,
                               script |-> wanted]
          \/ job'[Place(d)] = NoJob
          \/ job'[Place(d)] = j /\ ~Stale(j, Want(d))
      BY <1>1, <3>1 DEF TypeOK
    <3> QED BY <3>2 DEF Stale, wanted
  <2>4. job'[Place(d)] # NoJob =>
           /\ job'[Place(d)].script = wanted
           /\ job'[Place(d)].phase = "Succeeded" =>
                 <<job'[Place(d)].server, wanted>> \in ran
    <3>1. CASE job'[Place(d)] = [phase |-> "Running", server |-> Want(d).server,
                                 script |-> wanted]
      BY <3>1
    <3>2. CASE job'[Place(d)] = j /\ j.script = wanted
      BY <1>3, <2>1, <2>2, <3>2 DEF ScriptInv
    <3> QED BY <2>3, <3>1, <3>2
  <2> HIDE DEF wanted
  <2> QED BY <1>1, <1>2, <2>1, <2>2, <2>4 DEF ScriptInv, Working, At, Want, wanted
<1>9. CASE CheckJob(d) \/ BackendError(d)
  <2>1. /\ run'[d].want = run[d].want /\ run'[d].pc = "patch"
        /\ UNCHANGED <<spec, life, script, job>>
    BY <1>9, CheckJobFrame, BackendErrorFrame DEF CheckJob, BackendError, resource, cluster
  <2> QED BY <1>1, <1>3, <2>1 DEF ScriptInv, Working, At, Want
<1>10. CASE WritePatch(d)
  <2>1. run'[d].pc = "idle" /\ UNCHANGED <<spec, life, script, job>>
    BY <1>10, GotoFrame DEF WritePatch, resource, cluster, Pcs
  <2> QED BY <1>1, <1>3, <2>1 DEF ScriptInv, Working, At
<1>11. CASE Finalize(d)
  BY <1>4, <1>11, FinalizePlace
<1>12. CASE Edit(d)
  <2>1. PICK s \in Specs : <<spec[d], s>> \in Edits /\ spec' = [spec EXCEPT ![d] = s]
    BY <1>12 DEF Edit
  <2>2. spec'[d] = s /\ life[d] # "gone" /\ UNCHANGED <<life, run, script, job>>
    BY <1>12, <2>1 DEF Edit, cluster, TypeOK
  <2>3. UpTo(Version, now, Script(s)) /\ Script(s) \in Scripts
    BY <1>1, <2>1, ScriptType DEF NeverBack, AtPlace, UpTo
  <2>4. \A x \in Scripts : UpTo(Version, x, now) => UpTo(Version, x, Script(s))
    BY <1>2, <2>3, UpToTransitive
  <2> HIDE DEF now
  <2>5. there # None => UpTo(Version, there, now) /\ there \in Scripts
    BY <1>2, <1>3, <2>2 DEF ScriptInv, now
  <2>6. Working(d) => UpTo(Version, wanted, now)
    BY <1>3, <2>2 DEF ScriptInv, now
  <2>7. /\ there # None => UpTo(Version, there, Script(s))
        /\ Working(d) => UpTo(Version, wanted, Script(s))
    BY <1>2, <2>4, <2>5, <2>6
  <2> QED BY <1>1, <1>3, <2>2, <2>7 DEF ScriptInv, Working, At, Want
<1>13. CASE Delete(d)
  <2>1. life[d] # "gone" /\ UNCHANGED <<spec, run, script, job>>
    BY <1>13 DEF Delete, cluster
  <2> QED BY <1>1, <1>3, <2>1 DEF ScriptInv, Working, At, Want
<1> QED BY <1>5, <1>6, <1>7, <1>8, <1>9, <1>10, <1>11, <1>12, <1>13 DEF Steps, Handler

LEMMA ProvisionStep ==
  ASSUME NEW Mine \in [Dbs -> SUBSET Specs], OwnPlace(Mine),
         NEW Version \in [Scripts -> Nat], NeverBack(Mine, Version),
         TypeOK, PlaceInv(Mine), \A d \in Dbs : ProvisionInv(Version, d),
         [Next]_vars, NEW d \in Dbs
  PROVE  ProvisionInv(Version, d)'
<1>1. ProvisionInv(Version, d) /\ AtPlace(Mine, d)
  BY DEF PlaceInv
<1>2. ASSUME NEW e \in Dbs, Steps(e) PROVE ProvisionInv(Version, d)'
  <2>1. CASE e = d
    BY <1>1, <1>2, <2>1, TurnKept, ScriptKept, RanKept DEF ProvisionInv
  <2>2. CASE e # d
    <3>1. /\ spec'[d] = spec[d] /\ gen'[d] = gen[d] /\ life'[d] = life[d]
          /\ status'[d] = status[d] /\ run'[d] = run[d]
          /\ Place(d)' = Place(d) /\ job'[Place(d)] = job[Place(d)]
          /\ script'[Place(d)] = script[Place(d)] /\ ran' = ran
      BY <1>2, <2>2, OthersKept
    <3>2. TurnInv(d)' /\ RanInv(d, status[d])' /\ RanInv(d, run[d].out)'
      BY <1>1, <3>1 DEF ProvisionInv, TurnInv, RanInv, Working, Want
    <3>3. ScriptInv(Version, d)'
      BY <1>1, <3>1 DEF ProvisionInv, ScriptInv, Working, Want, At
    <3> QED BY <3>2, <3>3 DEF ProvisionInv
  <2> QED BY <2>1, <2>2
<1>3. ASSUME NEW k \in Keys, PodRuns(k) \/ PodFails(k) PROVE ProvisionInv(Version, d)'
  <2>1. /\ UNCHANGED <<spec, gen, life, status, run, script>>
        /\ ran \subseteq ran' /\ Place(d)' = Place(d)
        /\ job'[Place(d)] # job[Place(d)] => k = Place(d)
    BY <1>3, PodKept
  <2>2. TurnInv(d)' /\ RanInv(d, status[d])' /\ RanInv(d, run[d].out)'
    BY <1>1, <2>1 DEF ProvisionInv, TurnInv, RanInv, Working, Want
  <2>3. CASE k # Place(d)
    BY <1>1, <2>1, <2>2, <2>3 DEF ProvisionInv, ScriptInv, Working, Want, At
  <2>4. CASE k = Place(d)
    <3>1. /\ job[Place(d)] # NoJob
          /\ job'[Place(d)].server = job[Place(d)].server
          /\ job'[Place(d)].script = job[Place(d)].script
          /\ job'[Place(d)].phase = "Succeeded" =>
               <<job[Place(d)].server, script[Place(d)]>> \in ran'
      BY <1>3, <2>4, PodStep
    <3> QED BY <1>1, <2>1, <2>2, <3>1 DEF ProvisionInv, ScriptInv, Working, Want, At
  <2> QED BY <2>3, <2>4
<1>4. CASE Restart
  <2>1. /\ run'[d].pc = "idle" /\ run'[d].out = run[d].out /\ Place(d)' = Place(d)
        /\ UNCHANGED <<spec, gen, life, status, script, job, ran>>
    BY <1>4, RestartFrame
  <2>2. TurnInv(d)' /\ RanInv(d, status[d])' /\ RanInv(d, run[d].out)'
    BY <1>1, <2>1 DEF ProvisionInv, TurnInv, RanInv, Working
  <2> QED BY <1>1, <2>1, <2>2 DEF ProvisionInv, ScriptInv, Working, At
<1>5. CASE (\E s \in Servers : Publish(s)) \/ UNCHANGED vars
  <2>1. Still /\ Place(d)' = Place(d)
    BY <1>5, StillStep
  <2> QED BY <1>1, <2>1
          DEF Still, ProvisionInv, TurnInv, ScriptInv, RanInv, Working, Want, At
<1> QED BY <1>2, <1>3, <1>4, <1>5, NextCases

LEMMA ProvisionInit ==
  ASSUME NEW Version, Init, TypeOK, NEW d \in Dbs
  PROVE  ProvisionInv(Version, d)
<1>1. Place(d) \in Keys
  BY FrameType, KeyType DEF Place
<1>2. /\ At(d, "idle") /\ gen[d] = 1 /\ run[d].out = NoStatus /\ status[d] = NoStatus
      /\ job[Place(d)] = NoJob /\ script[Place(d)] = None
  BY <1>1 DEF Init, At
<1>3. NoStatus.observed = 0 /\ NoStatus.ready = FALSE
  BY DEF NoStatus
<1> QED BY <1>2, <1>3 DEF ProvisionInv, TurnInv, ScriptInv, RanInv, Working, At

\* A Database that is Ready for its present spec had all of the SQL of that
\* spec run on its server (ProvisionJob.apply and .succeeded, dbprovision.py),
\* although the Job's Pod reads the ConfigMap only when it starts: no script
\* that an edit has replaced may come again (NeverBack), for then a Job
\* made for it the first time, whose Pod read the script that replaced it,
\* would be taken for one that has run it.
THEOREM DatabaseReadyMeansProvisioned ==
  ASSUME NEW Mine \in [Dbs -> SUBSET Specs], OwnPlace(Mine),
         NEW Version \in [Scripts -> Nat], NeverBack(Mine, Version)
  PROVE  Spec => []ReadyMeansProvisioned
<1> DEFINE Provided == \A d \in Dbs : ProvisionInv(Version, d)
<1>1. Init => TypeOK /\ PlaceInv(Mine) /\ Provided
  BY InitType, PlaceInit, ProvisionInit
<1>2. TypeOK /\ PlaceInv(Mine) /\ Provided /\ [Next]_vars
        => TypeOK' /\ PlaceInv(Mine)' /\ Provided'
  BY StepType, PlaceKeeps, ProvisionStep
<1>3. Provided => ReadyMeansProvisioned
  BY DEF ProvisionInv, RanInv, ReadyMeansProvisioned
<1> HIDE DEF Provided
<1> QED BY <1>1, <1>2, <1>3, PTL DEF Spec

----------------------------------------------------------------------------
(* A Ready Database can be connected to *)

LEMMA SameLocation ==
  ASSUME NEW s, NEW t, s.server = t.server, SameRole(s, t)
  PROVE  Location(s) = Location(t)
  BY DEF SameRole, Location

\* The edits leave the role where it is.
LEMMA RoleKept ==
  ASSUME NEW Mine \in [Dbs -> SUBSET Specs], OwnRole(Mine), TypeOK, PlaceInv(Mine),
         NEW d \in Dbs, Steps(d)
  PROVE  /\ spec'[d].server = spec[d].server /\ SameRole(spec'[d], spec[d])
         /\ Location(spec'[d]) = Location(spec[d])
<1>1. OwnPlace(Mine) /\ AtPlace(Mine, d)
  BY DEF OwnRole, PlaceInv
<1>2. spec'[d].server = spec[d].server
  BY <1>1, AtPlaceKept
<1>3. CASE Edit(d)
  <2>1. PICK s \in Specs : <<spec[d], s>> \in Edits /\ spec' = [spec EXCEPT ![d] = s]
    BY <1>3 DEF Edit
  <2>2. SameRole(spec[d], s) /\ spec'[d] = s
    BY <1>1, <2>1 DEF OwnRole, AtPlace, TypeOK
  <2>3. SameRole(spec'[d], spec[d])
    BY <2>2 DEF SameRole
  <2> QED BY <1>2, <2>3, SameLocation
<1>4. CASE ~Edit(d)
  <2>1. spec' = spec
    BY <1>4 DEF Steps, Handler, Call, ReadVault, WriteVault, ApplyOwner, ApplySql, ApplyJob,
               CheckJob, WritePatch, Finalize, BackendError, Delete, resource
  <2> QED BY <2>1 DEF SameRole
<1> QED BY <1>3, <1>4

\* What is at the place of d in OpenBao only the handler of d changes, and
\* only when it has found nothing there.
LEMMA HeldKept ==
  ASSUME NEW Mine \in [Dbs -> SUBSET Specs], OwnRole(Mine), TypeOK, PlaceInv(Mine),
         NEW e \in Dbs, Steps(e), NEW d \in Dbs, ConnectInv(d)
  PROVE  LET l == Location(spec[d])
         IN /\ l \in Locations /\ Location(Want(d)) = l
            /\ \/ vault'[l] = vault[l]
               \/ e = d /\ At(d, "generate") /\ WriteVault(d) /\ vault'[l] = run[d].pass
<1>1. /\ AtPlace(Mine, d) /\ AtPlace(Mine, e) /\ Want(e) \in Specs /\ spec[d] \in Specs
  BY FrameType DEF PlaceInv
<1>2. Location(spec[d]) \in Locations /\ Location(Want(e)) \in Locations
      /\ Location(Want(d)) = Location(spec[d])
  BY <1>1, LocationType, SameLocation DEF ConnectInv, AtPlace
<1>3. CASE WriteVault(e)
  <2>1. vault' = [vault EXCEPT ![Location(Want(e))] = run[e].pass] /\ At(e, "generate")
    BY <1>3 DEF WriteVault
  <2>2. CASE e = d
    BY <1>2, <1>3, <2>1, <2>2 DEF TypeOK
  <2>3. CASE e # d
    <3>1. Location(Want(e)) # Location(spec[d])
      BY <1>1, <2>3 DEF OwnRole, AtPlace
    <3> QED BY <1>2, <2>1, <3>1 DEF TypeOK
  <2> QED BY <2>2, <2>3
<1>4. CASE ~WriteVault(e)
  <2>1. vault' = vault
    BY <1>4 DEF Steps, Handler, Call, ReadVault, ApplyOwner, ApplySql, ApplyJob,
               CheckJob, WritePatch, Finalize, BackendError, Edit, Delete
  <2> QED BY <1>2, <2>1
<1> QED BY <1>3, <1>4

\* A password that a role has been given stays the one in OpenBao.
LEMMA ConnectedKept ==
  ASSUME NEW Mine \in [Dbs -> SUBSET Specs], OwnRole(Mine), TypeOK, PlaceInv(Mine),
         NEW e \in Dbs, Steps(e), NEW d \in Dbs, ConnectInv(d), Connected(d)
  PROVE  Connected(d)'
<1>1. OwnPlace(Mine)
  BY DEF OwnRole
<1>2. /\ spec'[d].server = spec[d].server /\ SameRole(spec'[d], spec[d])
      /\ Location(spec'[d]) = Location(spec[d])
  <2>1. CASE e = d
    BY <2>1, RoleKept
  <2>2. CASE e # d
    BY <1>1, <2>2, OthersKept DEF SameRole
  <2> QED BY <2>1, <2>2
<1>3. password' = password /\ ownerOf' = ownerOf
  BY <1>1, PlaceStep
<1>4. vault'[Location(spec[d])] = vault[Location(spec[d])]
  BY HeldKept DEF ConnectInv, Connected
<1> QED BY <1>2, <1>3, <1>4 DEF Connected, SameRole

LEMMA ConnectKept ==
  ASSUME NEW Mine \in [Dbs -> SUBSET Specs], OwnRole(Mine), TypeOK, PlaceInv(Mine),
         NEW d \in Dbs, ConnectInv(d), Steps(d)
  PROVE  ConnectInv(d)'
<1> DEFINE l == Location(spec[d])
           k == Place(d)
<1>1. OwnPlace(Mine)
  BY DEF OwnRole
<1>2. /\ AtPlace(Mine, d) /\ k \in Keys /\ Key(d, Want(d)) = k /\ k' = k
      /\ SameRole(Want(d), spec[d]) /\ Want(d) \in Specs
  BY <1>1, Places, AtPlaceKept, FrameType DEF Place, Key, ConnectInv
<1>3. /\ spec'[d].server = spec[d].server /\ SameRole(spec'[d], spec[d])
      /\ l' = l /\ l \in Locations /\ Location(Want(d)) = l
      /\ Connected(d) => Connected(d)'
  BY RoleKept, HeldKept, ConnectedKept
<1>4. \/ vault'[l] = vault[l]
      \/ At(d, "generate") /\ WriteVault(d) /\ vault'[l] = run[d].pass
  BY HeldKept
<1>5. /\ vault[l] # None => vault'[l] = vault[l]
      /\ owner[k] # None => owner[k] = vault[l]
      /\ At(d, "owner") => vault[l] # None /\ run[d].pass = vault[l]
      /\ At(d, "generate") => vault[l] = None /\ run[d].pass # None
  BY <1>4 DEF ConnectInv
<1> DEFINE Scripted(x) == x # None => x[1] = spec[d].database /\ x[2] = spec[d].user
           Told(st) == \/ st.ready = FALSE \/ st = status[d] \/ st = run[d].out
                       \/ /\ st.ready = run[d].out.ready
                          /\ st.connection = run[d].out.connection
<1>6. /\ Scripted(script[k]) /\ Connecting(d, status[d]) /\ Connecting(d, run[d].out)
      /\ job[k].phase = "Succeeded" => Connected(d)
  BY DEF ConnectInv
<1>7. ASSUME NEW st, Told(st) \/ (Connected(d) /\ st.connection = Want(d))
      PROVE  st.ready =>
               /\ st.connection # None /\ st.connection.server = spec'[d].server
               /\ SameRole(st.connection, spec'[d]) /\ Connected(d)'
  <2>1. Want(d) # None /\ Want(d).server = spec[d].server
    BY <1>2, DatabaseAssumption DEF AtPlace, DatabaseAssumption
  <2>2. CASE Connected(d) /\ st.connection = Want(d)
    BY <1>2, <1>3, <2>1, <2>2 DEF SameRole
  <2>3. CASE Told(st)
    BY <1>3, <1>6, <2>3 DEF Connecting, SameRole
  <2> QED BY <1>7, <2>2, <2>3
\* What is left to show of a step.
<1>8. ASSUME SameRole(run'[d].want, spec'[d]),
             run'[d].pc = "generate" => vault'[l] = None /\ run'[d].pass # None,
             run'[d].pc = "owner" => vault'[l] # None /\ run'[d].pass = vault'[l],
             owner'[k] # None => owner'[k] = vault'[l],
             Scripted(script'[k]),
             job'[k].phase = "Succeeded" => job[k].phase = "Succeeded",
             Told(status'[d]),
             Told(run'[d].out) \/ (Connected(d) /\ run'[d].out.connection = Want(d))
      PROVE  ConnectInv(d)'
  <2>1. job'[k].phase = "Succeeded" => Connected(d)'
    BY <1>3, <1>6, <1>8
  <2>2. Connecting(d, status[d])' /\ Connecting(d, run[d].out)'
    BY <1>7, <1>8 DEF Connecting
  <2>3. script'[k] # None =>
            script'[k][1] = spec'[d].database /\ script'[k][2] = spec'[d].user
    BY <1>3, <1>8 DEF SameRole
  <2> HIDE DEF k, l, Told, Scripted
  <2> QED BY <1>2, <1>3, <1>8, <2>1, <2>2, <2>3 DEF ConnectInv, At, Want, k, l
<1> HIDE DEF k, l
<1>9. CASE Call(d)
  <2>1. /\ run'[d].want = spec[d] /\ run'[d].pc \in {"vault", "patch"} /\ spec' = spec
        /\ run'[d].out = status[d] \/ run'[d].out.ready = FALSE
        /\ UNCHANGED <<status, owner, script, job, vault>>
    BY <1>9, CallFrame DEF Call, resource, cluster
  <2> QED BY <1>5, <1>6, <1>8, <2>1 DEF SameRole
<1>10. CASE ReadVault(d)
  <2>1. /\ run'[d].want = run[d].want /\ spec' = spec /\ run'[d].out = run[d].out
        /\ \/ run'[d].pc = "owner" /\ vault[l] # None /\ run'[d].pass = vault[l]
           \/ run'[d].pc = "generate" /\ vault[l] = None /\ run'[d].pass = issued + 1
        /\ UNCHANGED <<status, owner, script, job, vault>>
    BY <1>3, <1>10, ReadVaultFrame DEF ReadVault, resource, cluster
  <2>2. issued + 1 # None
    BY DatabaseAssumption DEF TypeOK, DatabaseAssumption
  <2> QED BY <1>2, <1>5, <1>6, <1>8, <2>1, <2>2 DEF Want
<1>11. CASE WriteVault(d)
  <2>1. /\ run'[d].want = run[d].want /\ run'[d].pc = "owner" /\ run'[d].pass = run[d].pass
        /\ run'[d].out = run[d].out /\ At(d, "generate") /\ spec' = spec
        /\ UNCHANGED <<status, owner, script, job>>
    BY <1>11, GotoFrame DEF WriteVault, resource, cluster, Pcs
  <2>2. vault'[l] = run[d].pass
    BY <1>3, <1>11 DEF WriteVault, TypeOK
  <2> QED BY <1>2, <1>5, <1>6, <1>8, <2>1, <2>2 DEF Want
<1>12. CASE ApplyOwner(d)
  <2>1. /\ run'[d].want = run[d].want /\ run'[d].pc = "sql" /\ At(d, "owner")
        /\ run'[d].out = run[d].out /\ spec' = spec
        /\ UNCHANGED <<status, vault, script, job>>
    BY <1>12, GotoFrame DEF ApplyOwner, resource, Pcs
  <2>2. owner'[k] \in {owner[k], run[d].pass}
    BY <1>2, <1>12 DEF ApplyOwner, TypeOK
  <2> QED BY <1>2, <1>5, <1>6, <1>8, <2>1, <2>2 DEF Want
<1>13. CASE ApplySql(d)
  <2>1. /\ run'[d].want = run[d].want /\ run'[d].pc = "job"
        /\ run'[d].out = run[d].out /\ spec' = spec
        /\ UNCHANGED <<status, vault, owner, job>>
    BY <1>13, GotoFrame DEF ApplySql, resource, Pcs
  <2>2. script'[k] = Script(Want(d))
    BY <1>2, <1>13 DEF ApplySql, TypeOK
  <2>3. Scripted(script'[k])
    BY <1>2, <2>2 DEF Script, SameRole
  <2> QED BY <1>2, <1>5, <1>6, <1>8, <2>1, <2>3 DEF Want
<1>14. CASE ApplyJob(d)
  <2>1. /\ run'[d].want = run[d].want /\ run'[d].pc = "check"
        /\ run'[d].out = run[d].out /\ spec' = spec
        /\ UNCHANGED <<status, vault, owner, script>>
    BY <1>14, GotoFrame DEF ApplyJob, resource, Pcs
  <2> DEFINE new == [phase |-> "Running", server |-> Want(d).server,
                     script |-> Script(Want(d))]
  <2>2. new.phase = "Running" /\ NoJob.phase = "none"
    BY DEF NoJob
  <2>3. job'[k] \in {job[k], new, NoJob}
    BY <1>2, <1>14 DEF ApplyJob, TypeOK
  <2> HIDE DEF new
  <2>4. job'[k].phase = "Succeeded" => job[k].phase = "Succeeded"
    BY <2>2, <2>3
  <2> QED BY <1>2, <1>5, <1>6, <1>8, <2>1, <2>4 DEF Want
<1>15. CASE CheckJob(d)
  <2>1. /\ run'[d].want = run[d].want /\ run'[d].pc = "patch" /\ spec' = spec
        /\ \/ run'[d].out.ready = FALSE
           \/ job[k].phase = "Succeeded" /\ run'[d].out.connection = Want(d)
        /\ UNCHANGED <<status, vault, owner, script, job>>
    BY <1>2, <1>15, CheckJobFrame DEF CheckJob, resource, cluster
  <2> QED BY <1>2, <1>5, <1>6, <1>8, <2>1 DEF Want
<1>16. CASE BackendError(d)
  <2>1. /\ run'[d].want = run[d].want /\ run'[d].pc = "patch" /\ spec' = spec
        /\ Told(run'[d].out)
        /\ UNCHANGED <<status, vault, owner, script, job>>
    BY <1>16, BackendErrorFrame DEF BackendError, resource, cluster
  <2> QED BY <1>2, <1>5, <1>6, <1>8, <2>1 DEF Want
<1>17. CASE WritePatch(d)
  <2>1. /\ run'[d].want = run[d].want /\ run'[d].pc = "idle" /\ spec' = spec
        /\ run'[d].out = run[d].out /\ status'[d] = run[d].out
        /\ UNCHANGED <<vault, owner, script, job>>
    BY <1>17, GotoFrame DEF WritePatch, resource, cluster, Pcs, TypeOK
  <2> QED BY <1>2, <1>5, <1>6, <1>8, <2>1 DEF Want
<1>18. CASE Finalize(d)
  <2>1. /\ UNCHANGED <<spec, status, run, vault>> /\ At(d, "idle")
        /\ job'[k] \in {job[k], NoJob} /\ owner'[k] \in {owner[k], None}
        /\ script'[k] \in {script[k], None}
    BY <1>1, <1>18, FinalizePlace DEF k
  <2>2. NoJob.phase = "none"
    BY DEF NoJob
  <2> QED BY <1>2, <1>5, <1>6, <1>8, <2>1, <2>2 DEF Want, At
<1>19. CASE Edit(d)
  <2>1. UNCHANGED <<status, run, vault, owner, script, job>>
    BY <1>19 DEF Edit, cluster
  <2>2. SameRole(run'[d].want, spec'[d])
    BY <1>2, <1>3, <2>1 DEF SameRole, Want
  <2> QED BY <1>5, <1>6, <1>8, <2>1, <2>2 DEF At
<1>20. CASE Delete(d)
  <2>1. UNCHANGED <<spec, status, run, vault, owner, script, job>>
    BY <1>20 DEF Delete, cluster
  <2> QED BY <1>2, <1>5, <1>6, <1>8, <2>1 DEF Want, At
<1> QED BY <1>9, <1>10, <1>11, <1>12, <1>13, <1>14, <1>15, <1>16, <1>17, <1>18, <1>19, <1>20
        DEF Steps, Handler

\* A Pod gives a role the password of the Secret, and no two Databases have
\* the same role or the same database.
LEMMA PodConnects ==
  ASSUME NEW Mine \in [Dbs -> SUBSET Specs], OwnRole(Mine), TypeOK, PlaceInv(Mine),
         \A d \in Dbs : ConnectInv(d),
         NEW k \in Keys, PodRuns(k) \/ PodFails(k), NEW d \in Dbs
  PROVE  ConnectInv(d)'
<1>1. OwnPlace(Mine) /\ ConnectInv(d)
  BY DEF OwnRole
<1>2. /\ UNCHANGED <<spec, status, run, vault, owner, script>>
      /\ Place(d)' = Place(d) /\ Place(d) \in Keys
      /\ job'[Place(d)] # job[Place(d)] => k = Place(d)
  BY <1>1, PodKept
<1>3. /\ job[k] # NoJob /\ owner[k] # None /\ script[k] # None
      /\ job'[k].phase = "Succeeded" => Provision(k)
      /\ Provision(k) \/ UNCHANGED <<password, ownerOf>>
  BY <1>1, PodStep
<1>4. PICK e \in Dbs : k = Place(e)
  BY <1>1, PodStep
<1>5. /\ job[k].server = spec[e].server /\ script[k][2] = spec[e].user
      /\ script[k][1] = spec[e].database /\ owner[k] = vault[Location(spec[e])]
  BY <1>3, <1>4 DEF PlaceInv, AtPlace, ConnectInv
<1>6. /\ spec[d] \in Mine[d] /\ spec[e] \in Mine[e]
      /\ spec[d] \in Specs /\ spec[e] \in Specs
  BY FrameType DEF PlaceInv, AtPlace
<1>7. /\ <<spec[d].server, spec[d].user>> \in Servers \X Users
      /\ <<spec[d].server, spec[d].database>> \in Servers \X Databases
  BY <1>6 DEF Specs
<1>8. ASSUME Provision(k)
      PROVE  /\ password' = [password EXCEPT ![<<spec[e].server, spec[e].user>>] = owner[k]]
             /\ ownerOf' = [ownerOf EXCEPT ![<<spec[e].server, spec[e].database>>]
                              = spec[e].user]
  BY <1>5, <1>8 DEF Provision
<1>9. ASSUME e = d, Provision(k) PROVE Connected(d)'
  BY <1>2, <1>3, <1>5, <1>7, <1>8, <1>9 DEF Connected, TypeOK
<1>10. ASSUME e # d, Provision(k), Connected(d) PROVE Connected(d)'
  <2>1. spec[d].server = spec[e].server =>
           spec[d].user # spec[e].user /\ spec[d].database # spec[e].database
    BY <1>6, <1>10 DEF OwnRole
  <2>2. /\ password'[<<spec[d].server, spec[d].user>>]
             = password[<<spec[d].server, spec[d].user>>]
        /\ ownerOf'[<<spec[d].server, spec[d].database>>]
             = ownerOf[<<spec[d].server, spec[d].database>>]
    BY <1>7, <1>8, <1>10, <2>1 DEF TypeOK
  <2> QED BY <1>2, <1>10, <2>2 DEF Connected
<1>11. Connected(d) => Connected(d)'
  BY <1>2, <1>3, <1>9, <1>10 DEF Connected
<1>12. job'[Place(d)].phase = "Succeeded" => Connected(d)'
  <2>1. CASE k = Place(d)
    <3>1. e = d
      BY <1>1, <1>4, <2>1, Places
    <3> QED BY <1>3, <1>9, <2>1, <3>1
  <2>2. CASE k # Place(d)
    BY <1>1, <1>2, <1>11, <2>2 DEF ConnectInv
  <2> QED BY <2>1, <2>2
<1> QED BY <1>1, <1>2, <1>11, <1>12 DEF ConnectInv, Connecting, At, Want

LEMMA ConnectStep ==
  ASSUME NEW Mine \in [Dbs -> SUBSET Specs], OwnRole(Mine), TypeOK, PlaceInv(Mine),
         \A d \in Dbs : ConnectInv(d), [Next]_vars, NEW d \in Dbs
  PROVE  ConnectInv(d)'
<1>1. OwnPlace(Mine) /\ ConnectInv(d)
  BY DEF OwnRole
<1>2. ASSUME NEW e \in Dbs, Steps(e) PROVE ConnectInv(d)'
  <2>1. CASE e = d
    BY <1>1, <1>2, <2>1, ConnectKept
  <2>2. CASE e # d
    <3>1. /\ spec'[d] = spec[d] /\ status'[d] = status[d] /\ run'[d] = run[d]
          /\ Place(d)' = Place(d) /\ job'[Place(d)] = job[Place(d)]
          /\ owner'[Place(d)] = owner[Place(d)] /\ script'[Place(d)] = script[Place(d)]
      BY <1>1, <1>2, <2>2, OthersKept
    <3>2. vault'[Location(spec[d])] = vault[Location(spec[d])]
      BY <1>1, <1>2, <2>2, HeldKept
    <3>3. Connected(d) => Connected(d)'
      BY <1>1, <1>2, ConnectedKept
    <3> QED BY <1>1, <3>1, <3>2, <3>3 DEF ConnectInv, Connecting, At, Want
  <2> QED BY <2>1, <2>2
<1>3. ASSUME NEW k \in Keys, PodRuns(k) \/ PodFails(k) PROVE ConnectInv(d)'
  BY <1>3, PodConnects
<1>4. CASE Restart
  <2>1. /\ run'[d].want = run[d].want /\ run'[d].pc = "idle" /\ run'[d].out = run[d].out
        /\ UNCHANGED <<spec, status, vault, owner, script, job, password, ownerOf>>
        /\ Place(d)' = Place(d)
    BY <1>4, RestartFrame
  <2> QED BY <1>1, <2>1 DEF ConnectInv, Connecting, Connected, At, Want
<1>5. CASE (\E s \in Servers : Publish(s)) \/ UNCHANGED vars
  <2>1. Still /\ Place(d)' = Place(d)
    BY <1>5, StillStep
  <2> QED BY <1>1, <2>1 DEF Still, ConnectInv, Connecting, Connected, At, Want
<1> QED BY <1>2, <1>3, <1>4, <1>5, NextCases

LEMMA ConnectInit ==
  ASSUME Init, TypeOK, NEW d \in Dbs PROVE ConnectInv(d)
<1>1. Place(d) \in Keys
  BY FrameType, KeyType DEF Place
<1>2. /\ At(d, "idle") /\ Want(d) = spec[d]
      /\ run[d].out = NoStatus /\ status[d] = NoStatus
      /\ job[Place(d)] = NoJob /\ script[Place(d)] = None /\ owner[Place(d)] = None
  BY <1>1 DEF Init, At, Want
<1>3. NoStatus.ready = FALSE /\ NoJob.phase = "none"
  BY DEF NoStatus, NoJob
<1> QED BY <1>2, <1>3 DEF ConnectInv, Connecting, SameRole, At

\* Whoever reads the connection of a Ready Database can log in with it
\* (handlers/database.py publishes it, the Job of dbprovision.py makes it
\* true), as long as no two Databases have the same role, database or
\* credentials and edits change initSql alone: DatabaseShared and
\* DatabaseRename show what happens otherwise.
THEOREM DatabaseReadyMeansConnects ==
  ASSUME NEW Mine \in [Dbs -> SUBSET Specs], OwnRole(Mine)
  PROVE  Spec => []ReadyMeansConnects
<1> DEFINE Wired == \A d \in Dbs : ConnectInv(d)
<1>1. OwnPlace(Mine)
  BY DEF OwnRole
<1>2. Init => TypeOK /\ PlaceInv(Mine) /\ Wired
  BY <1>1, InitType, PlaceInit, ConnectInit
<1>3. TypeOK /\ PlaceInv(Mine) /\ Wired /\ [Next]_vars
        => TypeOK' /\ PlaceInv(Mine)' /\ Wired'
  BY <1>1, StepType, PlaceKeeps, ConnectStep
<1>4. Wired => ReadyMeansConnects
  <2> SUFFICES ASSUME Wired, NEW d \in Dbs, status[d].ready
               PROVE  LET c == status[d].connection
                      IN /\ c # None /\ vault[Location(c)] # None
                         /\ password[<<c.server, c.user>>] = vault[Location(c)]
                         /\ ownerOf[<<c.server, c.database>>] = c.user
    BY DEF ReadyMeansConnects
  <2>1. Connecting(d, status[d])
    BY DEF ConnectInv
  <2>2. Location(status[d].connection) = Location(spec[d])
    BY <2>1, SameLocation DEF Connecting
  <2> QED BY <2>1, <2>2 DEF Connecting, Connected, SameRole
<1> HIDE DEF Wired
<1> QED BY <1>2, <1>3, <1>4, PTL DEF Spec
=============================================================================
