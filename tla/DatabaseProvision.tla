-------------------------- MODULE DatabaseProvision --------------------------
(***************************************************************************)
(* The Database reconciler (handlers/database.py): it takes the role's     *)
(* password from OpenBao, generating it once; puts it, and the             *)
(* provisioning SQL, into the server's namespace; runs a Job there; and    *)
(* publishes the connection once the Job has succeeded.                    *)
(*                                                                         *)
(* Handlers of different Databases interleave at every remote call, Pods   *)
(* read the Secret and the ConfigMap when they start and not when the Job  *)
(* is created, and a handler's status is written only after it returned.   *)
(***************************************************************************)
EXTENDS Naturals

CONSTANTS
    Dbs,        \* the Database resources
    NameOf,     \* their names, of which those of the Job, Secret and
    Names,      \*   ConfigMap are made
    Servers,    \* the DatabaseServers
    SpaceOf,    \* the namespace each has its Jobs in
    Spaces,
    Users,      \* roles
    Databases,  \* logical databases
    Paths,      \* explicit credentials.openbaoPath values
    Sqls,       \* initSql values
    First,      \* the specs each Database may be created with
    Edits,      \* pairs of a spec and one a user may change it to
    Seeded,     \* OpenBao paths that hold a password from the start
    None,
    MaxGen,     \* bound: generations of a spec
    MaxFaults,  \* bound: failed calls and failed Jobs
    MaxCrashes  \* bound: restarts of the controller

Specs == [server : Servers, user : Users, database : Databases,
          path : Paths \cup {None}, sql : Sqls]

\* Where a role's password is kept; what provisions a Database; the names of
\* the objects it needs in a namespace.
Locations == Paths \cup (Servers \X Users)
Scripts   == Databases \X Users \X Sqls
Keys      == Names \X Spaces

ASSUME DatabaseAssumption ==
    /\ NameOf \in [Dbs -> Names] /\ SpaceOf \in [Servers -> Spaces]
    /\ First \in [Dbs -> SUBSET Specs] /\ Edits \subseteq Specs \X Specs
    /\ Seeded \subseteq Locations
    /\ None \notin Nat \cup Paths \cup Scripts \cup Spaces \cup Users \cup Specs
    /\ MaxGen \in Nat \ {0} /\ MaxFaults \in Nat /\ MaxCrashes \in Nat

VARIABLES
    spec, gen, life,  \* each Database: spec, generation, deletion
    due,              \* the Databases Kopf has a reason to call
    status,           \* each Database's status
    run,              \* the frames of the reconcile handlers
    published,        \* the servers whose status has host and admin Secret
    vault,            \* OpenBao: the password at each location
    issued,           \* how many passwords were generated
    owner,            \* owner Secrets: the password in them
    script,           \* ConfigMaps: the SQL in them
    job,              \* provisioning Jobs
    password,         \* Postgres: each server's roles
    ownerOf,          \* Postgres: each server's databases
    ran,              \* (history) what was run to its end, and where
    faults, crashes

resource == <<spec, gen, life>>
cluster  == <<owner, script, job>>
postgres == <<password, ownerOf, ran>>
vars == <<resource, due, status, run, published, vault, issued, cluster,
          postgres, faults, crashes>>

Passwords == Nat \cup {None}

\* status.connection is identified with the spec it was made from, space is
\* status.serverNamespace.
Status == [ready : BOOLEAN, observed : Nat, space : Spaces \cup {None},
           connection : Specs \cup {None}]
NoStatus == [ready |-> FALSE, observed |-> 0, space |-> None,
             connection |-> None]

Frame == [pc : {"idle", "vault", "generate", "owner", "sql", "job", "check",
                "patch"},
          want : Specs, gen : Nat, pass : Passwords, out : Status,
          again : BOOLEAN]

NoJob == [phase |-> "none", server |-> None, script |-> None]
Jobs  == [phase : {"Running", "Succeeded", "Failed"}, server : Servers,
          script : Scripts] \cup {NoJob}

----------------------------------------------------------------------------
(* What the handler computes from a spec, and its decisions, each after     *)
(* its mutant (see ApplicationEngine)                                       *)

Location(s) == IF s.path # None THEN s.path ELSE <<s.server, s.user>>
Key(d, s)   == <<NameOf[d], SpaceOf[s.server]>>

\* dbprovision.build_sql.
Script(s) == <<s.database, s.user, s.sql>>

\* Generated whether there is one or not.
Present_Mutant(p) == FALSE
\* openbao.ensure_keys leaves a key alone that has a value.
Present(p) == vault[p] # None

\* A Job, once there, is never replaced.
Stale_Mutant(j, s) == FALSE
\* ProvisionJob.apply: its hash annotation is not that of the wanted SQL.
Stale(j, s) == j.script # Script(s)

\* Everything but a failure counts.
Provisioned_Mutant(j) == j.phase # "Failed"
\* ProvisionJob.succeeded.
Provisioned(j) == j.phase = "Succeeded"

\* serverNamespace goes with the connection and is missing until then.
Placed_Mutant(out, s, done) ==
    [out EXCEPT !.space = IF done THEN SpaceOf[s.server] ELSE @]
\* patch.status["serverNamespace"], set as soon as the Job is submitted.
Placed(out, s, done) == [out EXCEPT !.space = SpaceOf[s.server]]

\* The exception ends it.
Retried_Mutant(again) == FALSE
\* Kopf calls a handler that raised again.
Retried(again) == again

----------------------------------------------------------------------------
Init ==
    /\ spec \in {f \in [Dbs -> UNION {First[d] : d \in Dbs}] :
                    \A d \in Dbs : f[d] \in First[d]}
    /\ gen = [d \in Dbs |-> 1] /\ life = [d \in Dbs |-> "live"]
    /\ due = Dbs
    /\ status = [d \in Dbs |-> NoStatus]
    /\ run = [d \in Dbs |-> [pc |-> "idle", want |-> spec[d], gen |-> 0,
                             pass |-> None, out |-> NoStatus, again |-> FALSE]]
    /\ published \in [Servers -> BOOLEAN]
    /\ vault = [p \in Locations |-> IF p \in Seeded THEN 0 ELSE None]
    /\ issued = 0
    /\ owner = [k \in Keys |-> None] /\ script = [k \in Keys |-> None]
    /\ job = [k \in Keys |-> NoJob]
    /\ password = [r \in Servers \X Users |-> None]
    /\ ownerOf = [b \in Servers \X Databases |-> None]
    /\ ran = {}
    /\ faults = 0 /\ crashes = 0

----------------------------------------------------------------------------
(* The reconcile handler, one action per remote call                       *)

At(d, pc) == run[d].pc = pc
Goto(d, pc) == run' = [run EXCEPT ![d].pc = pc]
Want(d) == run[d].want

\* The handler ends and leaves out as its status.
End(d, out, again) ==
    run' = [run EXCEPT ![d].pc = "patch", ![d].out = out, ![d].again = again]

\* fail: Ready=False for the generation the handler was called with, retry.
Fail(d, out) ==
    End(d, [out EXCEPT !.ready = FALSE, !.observed = run[d].gen], TRUE)

\* Kopf calls the handler; the server must have published its host.
Call(d) ==
    /\ life[d] = "live" /\ d \in due /\ At(d, "idle")
    /\ due' = due \ {d}
    /\ LET ok == published[spec[d].server]
           out == IF ok THEN status[d]
                  ELSE [status[d] EXCEPT !.ready = FALSE, !.observed = gen[d]]
       IN run' = [run EXCEPT ![d] =
                    [pc |-> IF ok THEN "vault" ELSE "patch", want |-> spec[d],
                     gen |-> gen[d], pass |-> None, out |-> out,
                     again |-> ~ok]]
    /\ UNCHANGED <<resource, status, published, vault, issued, cluster,
                   postgres, faults, crashes>>

\* ensure_keys reads the password, or makes one up ...
ReadVault(d) ==
    /\ At(d, "vault")
    /\ LET p == Location(Want(d))
       IN IF Present(p)
          THEN /\ run' = [run EXCEPT ![d].pc = "owner", ![d].pass = vault[p]]
               /\ UNCHANGED issued
          ELSE /\ run' = [run EXCEPT ![d].pc = "generate",
                                     ![d].pass = issued + 1]
               /\ issued' = issued + 1
    /\ UNCHANGED <<resource, due, status, published, vault, cluster, postgres,
                   faults, crashes>>

\* ... and writes what it read with the new value added.
WriteVault(d) ==
    /\ At(d, "generate") /\ Goto(d, "owner")
    /\ vault' = [vault EXCEPT ![Location(Want(d))] = run[d].pass]
    /\ UNCHANGED <<resource, due, status, published, issued, cluster, postgres,
                   faults, crashes>>

\* The owner Secret is create-only: one that is there keeps its password.
ApplyOwner(d) ==
    /\ At(d, "owner") /\ Goto(d, "sql")
    /\ owner' = [owner EXCEPT ![Key(d, Want(d))] =
                    IF @ = None THEN run[d].pass ELSE @]
    /\ UNCHANGED <<resource, due, status, published, vault, issued, script,
                   job, postgres, faults, crashes>>

\* The ConfigMap is updated in place.
ApplySql(d) ==
    /\ At(d, "sql") /\ Goto(d, "job")
    /\ script' = [script EXCEPT ![Key(d, Want(d))] = Script(Want(d))]
    /\ UNCHANGED <<resource, due, status, published, vault, issued, owner, job,
                   postgres, faults, crashes>>

\* ProvisionJob.apply creates the Job, or deletes one for other SQL (the next
\* call creates it), or leaves it alone.
ApplyJob(d) ==
    /\ At(d, "job") /\ Goto(d, "check")
    /\ LET k == Key(d, Want(d))
       IN job' = [job EXCEPT ![k] =
                    IF @.phase = "none"
                    THEN [phase |-> "Running", server |-> Want(d).server,
                          script |-> Script(Want(d))]
                    ELSE IF Stale(@, Want(d)) THEN NoJob ELSE @]
    /\ UNCHANGED <<resource, due, status, published, vault, issued, owner,
                   script, postgres, faults, crashes>>

\* It reads the Job back.  Failed or not yet done: the call ends in a retry.
\* Succeeded: the ExternalSecret for the workload is applied, and the same
\* connection published.
CheckJob(d) ==
    /\ At(d, "check")
    /\ LET j    == job[Key(d, Want(d))]
           done == Provisioned(j)
           out  == Placed(run[d].out, Want(d), done)
       IN \/ /\ ~done /\ Fail(d, out)
          \/ /\ done
             /\ End(d, [out EXCEPT !.ready = TRUE, !.observed = run[d].gen,
                                   !.connection = Want(d)], FALSE)
    /\ UNCHANGED <<resource, due, status, published, vault, issued, cluster,
                   postgres, faults, crashes>>

\* A remote call fails.  The reading of the Job is outside every try block:
\* its exception leaves the conditions as they were.
BackendError(d) ==
    /\ faults < MaxFaults /\ faults' = faults + 1
    /\ run[d].pc \notin {"idle", "patch"}
    /\ \/ Fail(d, run[d].out)
       \/ /\ At(d, "check")
          /\ End(d, Placed(run[d].out, Want(d), FALSE), TRUE)
    /\ UNCHANGED <<resource, due, status, published, vault, issued, cluster,
                   postgres, crashes>>

\* Kopf writes the status, and calls a handler that raised again.
WritePatch(d) ==
    /\ At(d, "patch") /\ Goto(d, "idle")
    /\ status' = [status EXCEPT ![d] = run[d].out]
    /\ due' = IF Retried(run[d].again) THEN due \cup {d} ELSE due
    /\ UNCHANGED <<resource, published, vault, issued, cluster, postgres,
                   faults, crashes>>

\* finalize deletes the three objects from status.serverNamespace; a delete
\* that fails is logged and the resource goes all the same.  The database
\* and the role stay.
Finalize(d) ==
    /\ life[d] = "deleting" /\ At(d, "idle")
    /\ life' = [life EXCEPT ![d] = "gone"]
    /\ \E kept \in SUBSET {"job", "owner", "sql"} :
         LET k == <<NameOf[d], status[d].space>>
             Deleted(f, what, none) ==
                 IF status[d].space = None \/ what \in kept THEN f
                 ELSE [f EXCEPT ![k] = none]
         IN /\ kept # {} => faults < MaxFaults
            /\ faults' = IF kept = {} THEN faults ELSE faults + 1
            /\ job' = Deleted(job, "job", NoJob)
            /\ owner' = Deleted(owner, "owner", None)
            /\ script' = Deleted(script, "sql", None)
    /\ UNCHANGED <<spec, gen, due, status, run, published, vault, issued,
                   postgres, crashes>>

----------------------------------------------------------------------------
(* Users, the cluster, and restarts of the controller *)

Edit(d) ==
    /\ life[d] = "live" /\ gen[d] < MaxGen
    /\ \E s \in Specs : <<spec[d], s>> \in Edits /\ spec' = [spec EXCEPT ![d] = s]
    /\ gen' = [gen EXCEPT ![d] = @ + 1]
    /\ due' = due \cup {d}
    /\ UNCHANGED <<life, status, run, published, vault, issued, cluster,
                   postgres, faults, crashes>>

Delete(d) ==
    /\ life[d] = "live" /\ life' = [life EXCEPT ![d] = "deleting"]
    /\ UNCHANGED <<spec, gen, due, status, run, published, vault, issued,
                   cluster, postgres, faults, crashes>>

\* The DatabaseServer reconciler publishes the host and the admin Secret.
Publish(s) ==
    /\ ~published[s] /\ published' = [published EXCEPT ![s] = TRUE]
    /\ UNCHANGED <<resource, due, status, run, vault, issued, cluster,
                   postgres, faults, crashes>>

Restart ==
    /\ crashes < MaxCrashes /\ crashes' = crashes + 1
    /\ run' = [d \in Dbs |-> [run[d] EXCEPT !.pc = "idle"]]
    /\ due' = {d \in Dbs : life[d] = "live"}
    /\ UNCHANGED <<resource, status, published, vault, issued, cluster,
                   postgres, faults>>

Ready(k) ==
    job[k].phase = "Running" /\ owner[k] # None /\ script[k] # None

\* A Pod of the Job reads the Secret and the ConfigMap and runs the SQL:
\* CREATE DATABASE, ALTER ROLE, ALTER DATABASE OWNER, and last initSql.
Provision(k) ==
    LET s == job[k].server
        db == script[k][1]
        user == script[k][2]
    IN /\ password' = [password EXCEPT ![<<s, user>>] = owner[k]]
       /\ ownerOf' = [ownerOf EXCEPT ![<<s, db>>] = user]

PodRuns(k) ==
    /\ Ready(k) /\ Provision(k)
    /\ ran' = ran \cup {<<job[k].server, script[k]>>}
    /\ job' = [job EXCEPT ![k].phase = "Succeeded"]
    /\ UNCHANGED <<resource, due, status, run, published, vault, issued, owner,
                   script, faults, crashes>>

\* psql stops at an error, in the last try before its initSql is through or
\* before anything is done, and the Job has failed for good.
PodFails(k) ==
    /\ Ready(k) /\ faults < MaxFaults /\ faults' = faults + 1
    /\ Provision(k) \/ UNCHANGED <<password, ownerOf>>
    /\ job' = [job EXCEPT ![k].phase = "Failed"]
    /\ UNCHANGED <<resource, due, status, run, published, vault, issued, owner,
                   script, ran, crashes>>

Handler(d) == Call(d) \/ ReadVault(d) \/ WriteVault(d) \/ ApplyOwner(d)
              \/ ApplySql(d) \/ ApplyJob(d) \/ CheckJob(d) \/ WritePatch(d)
              \/ Finalize(d)

Next == \/ \E d \in Dbs : Handler(d) \/ BackendError(d) \/ Edit(d) \/ Delete(d)
        \/ \E s \in Servers : Publish(s)
        \/ \E k \in Keys : PodRuns(k) \/ PodFails(k)
        \/ Restart

Spec == Init /\ [][Next]_vars

\* A handler that was called goes on and a due one is called; a server that
\* is being reconciled gets ready; Kubernetes runs a Job's Pods.
FairSpec == /\ Spec
            /\ \A d \in Dbs : WF_vars(Handler(d))
            /\ \A s \in Servers : WF_vars(Publish(s))
            /\ \A k \in Keys : WF_vars(PodRuns(k) \/ PodFails(k))

----------------------------------------------------------------------------
(* Properties *)

TypeOK ==
    /\ spec \in [Dbs -> Specs] /\ gen \in [Dbs -> Nat]
    /\ life \in [Dbs -> {"live", "deleting", "gone"}]
    /\ due \in SUBSET Dbs
    /\ status \in [Dbs -> Status] /\ run \in [Dbs -> Frame]
    /\ published \in [Servers -> BOOLEAN]
    /\ vault \in [Locations -> Passwords] /\ issued \in Nat
    /\ owner \in [Keys -> Passwords]
    /\ script \in [Keys -> Scripts \cup {None}]
    /\ job \in [Keys -> Jobs]
    /\ password \in [Servers \X Users -> Passwords]
    /\ ownerOf \in [Servers \X Databases -> Users \cup {None}]
    /\ ran \in SUBSET (Servers \X Scripts)
    /\ faults \in 0 .. MaxFaults /\ crashes \in 0 .. MaxCrashes

\* openbao.py:101, "Existing keys are never overwritten": no password in
\* OpenBao ever changes, whatever calls are retried and whichever Databases
\* share it.
GenerateOnce ==
    [][\A p \in Locations : vault[p] # None => vault'[p] = vault[p]]_vars

\* Whoever reads status.connection of a Ready Database can log in: the role
\* has the password found in OpenBao at the published path, and owns the
\* database, on the published server.
ReadyMeansConnects ==
    \A d \in Dbs : status[d].ready =>
        LET c == status[d].connection
        IN /\ c # None
           /\ vault[Location(c)] # None
           /\ password[<<c.server, c.user>>] = vault[Location(c)]
           /\ ownerOf[<<c.server, c.database>>] = c.user

\* A Database that is Ready for its present spec had all of that spec's SQL,
\* initSql included, run on its server: a Job left from an earlier spec is
\* never taken for it.
ReadyMeansProvisioned ==
    \A d \in Dbs : status[d].ready /\ status[d].observed = gen[d] =>
        <<spec[d].server, Script(spec[d])>> \in ran

\* With no failed call and no restart, a deleted Database leaves no Job, no
\* Secret with its password and no ConfigMap behind, whenever it is deleted.
NothingLeftBehind ==
    \A d \in Dbs : life[d] = "gone" /\ faults = 0 /\ crashes = 0 =>
        \A k \in {<<NameOf[d], s>> : s \in Spaces} :
            job[k] = NoJob /\ owner[k] = None /\ script[k] = None

\* Every Database that is not deleted gets Ready for its last spec, unless
\* its Job has failed for good.
EventuallyReady ==
    <>[](\A d \in Dbs :
            life[d] = "live" /\ job[Key(d, spec[d])].phase # "Failed" =>
                status[d].ready /\ status[d].observed = gen[d])

----------------------------------------------------------------------------
(* Why they hold: invariants that are proved in DatabaseProvisionProofs    *)

\* Mine[d] are the specs that d may ever have.  No edit changes the server,
\* and no two Databases have the same name.
OwnPlace(Mine) ==
    /\ \A d, e \in Dbs : d # e => NameOf[d] # NameOf[e]
    /\ \A d \in Dbs : First[d] \subseteq Mine[d]
    /\ \A d \in Dbs, e \in Edits :
         e[1] \in Mine[d] => e[2] \in Mine[d] /\ e[1].server = e[2].server

Place(d) == Key(d, spec[d])
Empty(k) == job[k] = NoJob /\ owner[k] = None /\ script[k] = None

Placing(d, st) == st.space # None => st.space = SpaceOf[spec[d].server]

\* A Database, its handler and its Job are about one place ...
AtPlace(Mine, d) ==
    /\ spec[d] \in Mine[d] /\ Want(d) \in Mine[d]
    /\ Want(d).server = spec[d].server
    /\ life[d] = "gone" => At(d, "idle")
    /\ Placing(d, status[d]) /\ Placing(d, run[d].out)
    /\ job[Place(d)] # NoJob => job[Place(d)].server = spec[d].server

\* ... and nothing is anywhere else.
PlaceInv(Mine) ==
    /\ \A d \in Dbs : AtPlace(Mine, d)
    /\ \A k \in Keys : ~Empty(k) => \E d \in Dbs : k = Place(d)

\* While no call failed: what there is, the finalizer is going to be told of.
LeftInv(d) ==
    faults = 0 /\ crashes = 0 =>
        /\ ~At(d, "idle") /\ status[d].space # None => run[d].out.space # None
        /\ ~Empty(Place(d)) =>
             /\ life[d] # "gone"
             /\ \/ At(d, "sql") \/ At(d, "job") \/ At(d, "check")
                \/ status[d].space # None
                \/ At(d, "patch") /\ run[d].out.space # None

\* The scripts of a Database never come again once they are replaced.
NeverBack(Mine, Version) ==
    \A d \in Dbs, e \in Edits :
        e[1] \in Mine[d] => \/ Script(e[1]) = Script(e[2])
                            \/ Version[Script(e[1])] < Version[Script(e[2])]

UpTo(Version, x, y) == x = y \/ Version[x] < Version[y]

Working(d) == run[d].pc \notin {"idle", "patch"}

\* A handler works for a generation, not older than the one the status is of.
TurnInv(d) ==
    /\ status[d].observed <= gen[d] /\ run[d].out.observed <= gen[d]
    /\ Working(d) => /\ run[d].gen <= gen[d] /\ life[d] # "gone"
                     /\ run[d].gen = gen[d] => Want(d) = spec[d]

RanInv(d, st) ==
    st.ready /\ st.observed = gen[d] => <<spec[d].server, Script(spec[d])>> \in ran

\* What the Pod read is what the Job is for, or newer, until the handler that
\* works for the newer replaces the Job.
ScriptInv(Version, d) ==
    LET j == job[Place(d)]
        there == script[Place(d)]
    IN life[d] # "gone" =>
         /\ there # None =>
              /\ UpTo(Version, there, Script(spec[d]))
              /\ Working(d) => UpTo(Version, there, Script(Want(d)))
         /\ Working(d) => UpTo(Version, Script(Want(d)), Script(spec[d]))
         /\ At(d, "job") \/ At(d, "check") => there = Script(Want(d))
         /\ At(d, "check") => j = NoJob \/ j.script = Script(Want(d))
         /\ j # NoJob => /\ there # None /\ UpTo(Version, j.script, there)
                         /\ j.phase = "Succeeded" /\ j.script = there =>
                              <<j.server, j.script>> \in ran

ProvisionInv(Version, d) ==
    /\ TurnInv(d) /\ ScriptInv(Version, d) /\ RanInv(d, status[d]) /\ RanInv(d, run[d].out)

SameRole(s, t) == s.user = t.user /\ s.database = t.database /\ s.path = t.path

\* No edit changes anything but initSql, and no two Databases have the same
\* role, the same database or the same place in OpenBao.
OwnRole(Mine) ==
    /\ OwnPlace(Mine)
    /\ \A d \in Dbs, e \in Edits : e[1] \in Mine[d] => SameRole(e[1], e[2])
    /\ \A d, e \in Dbs : d # e => \A s \in Mine[d], t \in Mine[e] :
         /\ Location(s) # Location(t)
         /\ s.server = t.server => s.user # t.user /\ s.database # t.database

Connected(d) ==
    LET s == spec[d]
    IN /\ vault[Location(s)] # None
       /\ password[<<s.server, s.user>>] = vault[Location(s)]
       /\ ownerOf[<<s.server, s.database>>] = s.user

Connecting(d, st) ==
    st.ready =>
        /\ st.connection # None /\ st.connection.server = spec[d].server
        /\ SameRole(st.connection, spec[d]) /\ Connected(d)

\* The password is on its way from OpenBao to the role, and is the same
\* everywhere it has come to.
ConnectInv(d) ==
    LET held == vault[Location(spec[d])]
        k == Place(d)
    IN /\ SameRole(Want(d), spec[d])
       /\ At(d, "generate") => held = None /\ run[d].pass # None
       /\ At(d, "owner") => held # None /\ run[d].pass = held
       /\ owner[k] # None => owner[k] = held
       /\ script[k] # None =>
            script[k][1] = spec[d].database /\ script[k][2] = spec[d].user
       /\ job[k].phase = "Succeeded" => Connected(d)
       /\ Connecting(d, status[d]) /\ Connecting(d, run[d].out)
=============================================================================
