----------------------------- MODULE SsoReconcile -----------------------------
(***************************************************************************)
(* The SSOApplication reconciler (handlers/ssoapplication.py) and the      *)
(* Authentik objects it keeps (authentik.py): a provider found by its      *)
(* name, an application found by its slug, the provider's place in an      *)
(* outpost's list, the OAuth2 credentials in OpenBao and the ExternalSecret *)
(* that delivers them.                                                     *)
(*                                                                         *)
(* Handlers of different SSOApplications interleave between their remote   *)
(* calls; a look-up and the write that follows it are one step except      *)
(* where the write is made from what was read (OpenBao's map, the          *)
(* outpost's list).                                                        *)
(***************************************************************************)
EXTENDS Naturals

CONSTANTS
    Apps,       \* the SSOApplication resources
    Slugs,
    Paths,      \* explicit credentials.openbaoPath values
    Outposts,   \* outpost names a spec may give
    Installed,  \* the ones Authentik has
    First,      \* the specs each SSOApplication may be created with
    Edits,      \* pairs of a spec and one a user may change it to
    None,
    MaxGen,     \* bound: generations of a spec
    MaxOps,     \* bound: deletions and re-creations of SSOApplications
    MaxFaults   \* bound: failed calls and restarts of the controller

Protocols == {"oauth2", "proxy"}

\* valid: redirectUris for oauth2; externalHost and a known mode for proxy.
Specs == [protocol : Protocols, slug : Slugs, path : Paths \cup {None},
          outpost : Outposts, valid : BOOLEAN, target : BOOLEAN]

Locations == Paths \cup Slugs

ASSUME SsoAssumption ==
    /\ First \in [Apps -> SUBSET Specs] /\ Edits \subseteq Specs \X Specs
    /\ Installed \subseteq Outposts
    /\ None \notin Nat \cup Paths \cup Slugs \cup Specs \cup Protocols
    /\ MaxGen \in Nat \ {0} /\ MaxOps \in Nat
    /\ MaxFaults \in Nat

VARIABLES
    spec, gen, life,  \* each SSOApplication: spec, generation, deletion
    due,              \* the ones Kopf has a reason to call
    status,
    run,              \* the frames of the handlers
    flows,            \* Authentik has the flows every provider refers to
    vault,            \* OpenBao: the credentials at each location
    issued,           \* how many credentials were generated
    providers,        \* Authentik's providers
    created,          \* how many were created: the last one's pk
    application,      \* Authentik's applications, by slug: their provider
    outpost,          \* the providers each outpost serves
    published,        \* the location each ExternalSecret reads, None: no such
    registered,       \* (history) credentials given to a slug's provider
    overlapped,       \* (history) outposts written between another handler's
                      \*   reading and writing of them
    swallowed,        \* (history) finalizers that logged a failed call
    ops, faults

resource == <<spec, gen, life>>
authentik == <<providers, created, application, outpost>>
secrets == <<vault, issued, published>>
history == <<registered, overlapped, swallowed>>
vars == <<resource, due, status, run, flows, secrets, authentik, history,
          ops, faults>>

Status == [ready : BOOLEAN, observed : Nat, slug : Slugs \cup {None},
           protocol : Protocols \cup {None}, provider : Nat \cup {None},
           path : Locations \cup {None}]
NoStatus == [ready |-> FALSE, observed |-> 0, slug |-> None,
             protocol |-> None, provider |-> None, path |-> None]

Provider == [pk : Nat, name : Slugs, kind : Protocols,
             cred : Nat \cup {None}]

Frame == [pc : {"idle", "vault", "generate", "provider", "outpost", "attach",
                "application", "publish", "patch", "detach", "destroy"},
          want : Specs \cup {None}, gen : Nat, cred : Nat \cup {None},
          pk : Nat \cup {None}, list : SUBSET Nat, out : Status,
          again : BOOLEAN]
Idle == [pc |-> "idle", want |-> None, gen |-> 0, cred |-> None, pk |-> None,
         list |-> {}, out |-> NoStatus, again |-> FALSE]

----------------------------------------------------------------------------
(* The handler's decisions, each after its mutant (see ApplicationEngine)  *)

Location(s) == IF s.path # None THEN s.path ELSE s.slug

\* The slug is the location whatever the spec says.
Source_Mutant(s) == s.slug
\* The path the credentials are taken from.
Source(s) == Location(s)

\* Providers are not looked up before one is created.
Found_Mutant(ps, name, kind) == {}
\* ensure_oauth2_provider, ensure_proxy_provider: by exact name.
Found(ps, name, kind) == {p \in ps : p.name = name /\ p.kind = kind}

\* A provider that is there keeps its credentials.
Matched_Mutant(p, cred) == p
\* An existing provider is patched to match OpenBao.
Matched(p, cred) == [p EXCEPT !.cred = cred]

\* provider.pk, created.pk: what later calls and the status refer to it by.
Answered(p) == p.pk

\* The outpost is given this provider alone.
Merged_Mutant(list, pk) == {pk}
\* ensure_outpost_provider merges.
Merged(list, pk) == list \cup {pk}

\* The credentials go with the SSOApplication.
Retained_Mutant(v, loc) == [v EXCEPT ![loc] = None]
\* finalize leaves them in OpenBao.
Retained(v, loc) == v

\* The exception ends it.
Retried_Mutant(again) == FALSE
\* Kopf calls a handler that raised again.
Retried(again) == again

----------------------------------------------------------------------------
Init ==
    /\ spec \in {f \in [Apps -> UNION {First[a] : a \in Apps}] :
                    \A a \in Apps : f[a] \in First[a]}
    /\ gen = [a \in Apps |-> 1] /\ life = [a \in Apps |-> "live"]
    /\ due = Apps
    /\ status = [a \in Apps |-> NoStatus] /\ run = [a \in Apps |-> Idle]
    /\ flows \in BOOLEAN
    /\ vault = [p \in Locations |-> None] /\ issued = 0
    /\ providers = {} /\ created = 0 /\ application = [s \in Slugs |-> None]
    /\ outpost = [o \in Outposts |-> {}]
    /\ published = [a \in Apps |-> None]
    /\ registered = {} /\ overlapped = {} /\ swallowed = {}
    /\ ops = 0 /\ faults = 0

At(a, pc) == run[a].pc = pc
Goto(a, pc) == run' = [run EXCEPT ![a].pc = pc]
Want(a) == run[a].want

\* What the frame knew is no longer needed.
End(a, out, again) ==
    run' = [run EXCEPT ![a] =
              [Idle EXCEPT !.pc = "patch", !.out = out, !.again = again]]

\* fail: Ready=False for the generation the handler was called with, retry.
Fail(a) ==
    End(a, [run[a].out EXCEPT !.ready = FALSE, !.observed = run[a].gen], TRUE)

Pks == {p.pk : p \in providers}

----------------------------------------------------------------------------
(* The reconcile handler                                                   *)

\* Kopf calls the handler.  The shared references are looked up first, then
\* the spec is checked; neither check has touched Authentik's providers.
Call(a) ==
    /\ life[a] = "live" /\ a \in due /\ At(a, "idle")
    /\ due' = due \ {a}
    /\ LET s == spec[a]
           ok == flows /\ s.valid
           failed == [status[a] EXCEPT !.ready = FALSE, !.observed = gen[a]]
       IN run' = [run EXCEPT ![a] =
                    [pc |-> IF ~ok THEN "patch"
                            ELSE IF s.protocol = "proxy" THEN "provider" ELSE "vault",
                     want |-> s, gen |-> gen[a], cred |-> None, pk |-> None, list |-> {},
                     out |-> IF ok THEN status[a] ELSE failed, again |-> ~ok]]
    /\ UNCHANGED <<resource, status, flows, secrets, authentik, history,
                   ops, faults>>

\* ensure_keys reads the map, and makes up client-id and client-secret ...
ReadVault(a) ==
    /\ At(a, "vault")
    /\ LET held == vault[Source(Want(a))]
       IN IF held # None
          THEN /\ run' = [run EXCEPT ![a].pc = "provider", ![a].cred = held]
               /\ UNCHANGED issued
          ELSE /\ run' = [run EXCEPT ![a].pc = "generate",
                                     ![a].cred = issued + 1]
               /\ issued' = issued + 1
    /\ UNCHANGED <<resource, due, status, flows, vault, published, authentik,
                   history, ops, faults>>

\* ... and writes it with them.
WriteVault(a) ==
    /\ At(a, "generate") /\ Goto(a, "provider")
    /\ vault' = [vault EXCEPT ![Source(Want(a))] = run[a].cred]
    /\ UNCHANGED <<resource, due, status, flows, issued, published, authentik,
                   history, ops, faults>>

\* ensure_oauth2_provider, ensure_proxy_provider: patched if there is one of
\* this name, else created.
EnsureProvider(a) ==
    /\ At(a, "provider")
    /\ LET s == Want(a)
           there == Found(providers, s.slug, s.protocol)
           new == [pk |-> created + 1, name |-> s.slug, kind |-> s.protocol,
                   cred |-> run[a].cred]
           Return(p) ==
               run' = [run EXCEPT
                         ![a].pk = Answered(p), ![a].cred = None,
                         ![a].pc = IF s.protocol = "proxy" THEN "outpost"
                                   ELSE "application"]
       IN /\ \/ \E p \in there :
                   /\ providers' = (providers \ {p})
                                   \cup {Matched(p, run[a].cred)}
                   /\ Return(p) /\ UNCHANGED created
             \/ /\ there = {} /\ providers' = providers \cup {new}
                /\ Return(new) /\ created' = new.pk
          /\ registered' = IF s.protocol = "oauth2"
                           THEN registered \cup
                                {<<s.slug, Location(s), run[a].cred>>}
                           ELSE registered
    /\ UNCHANGED <<resource, due, status, flows, secrets, application, outpost,
                   overlapped, swallowed, ops, faults>>

\* ensure_outpost_provider reads the outpost's list; it is there already, or
\* the outpost is not ...
ReadOutpost(a) ==
    /\ At(a, "outpost")
    /\ LET o == Want(a).outpost
           list == Merged(outpost[o], run[a].pk)
       IN IF o \notin Installed THEN Fail(a)
          ELSE IF list = outpost[o] THEN Goto(a, "application")
          ELSE run' = [run EXCEPT ![a].pc = "attach", ![a].list = list]
    /\ UNCHANGED <<resource, due, status, flows, secrets, authentik, history,
                   ops, faults>>

\* The outpost whose list the handler has read and is about to write.
Writing(a, o) ==
    \/ At(a, "attach") /\ Want(a).outpost = o
    \/ At(a, "detach") /\ spec[a].outpost = o

\* A list that names a provider which is gone is refused.
Replace(a, o) ==
    /\ outpost' = [outpost EXCEPT ![o] = run[a].list]
    /\ overlapped' = IF \E b \in Apps \ {a} : Writing(b, o)
                     THEN overlapped \cup {o} ELSE overlapped

\* ... and writes what it read with the provider added.
Attach(a) ==
    /\ At(a, "attach")
    /\ IF run[a].list \subseteq Pks
       THEN /\ Replace(a, Want(a).outpost)
            /\ run' = [run EXCEPT ![a].pc = "application", ![a].list = {}]
       ELSE Fail(a) /\ UNCHANGED <<outpost, overlapped>>
    /\ UNCHANGED <<resource, due, status, flows, secrets, providers, created,
                   application, registered, swallowed, ops, faults>>

Done(a) ==
    LET s == Want(a)
    IN End(a, [run[a].out EXCEPT
                 !.ready = TRUE, !.observed = run[a].gen, !.slug = s.slug,
                 !.protocol = s.protocol, !.provider = run[a].pk,
                 !.path = IF s.protocol = "oauth2" THEN Location(s) ELSE @],
           FALSE)

\* ensure_application: created or updated, bound to the provider.
EnsureApplication(a) ==
    /\ At(a, "application")
    /\ LET s == Want(a)
       IN IF run[a].pk \in Pks
          THEN /\ application' = [application EXCEPT ![s.slug] = run[a].pk]
               /\ IF s.protocol = "oauth2" /\ s.target THEN Goto(a, "publish")
                  ELSE Done(a)
          ELSE Fail(a) /\ UNCHANGED application
    /\ UNCHANGED <<resource, due, status, flows, secrets, providers, created,
                   outpost, history, ops, faults>>

\* _publish_credentials applies the ExternalSecret; what is in the status is
\* set last.
Publish(a) ==
    /\ At(a, "publish") /\ Done(a)
    /\ published' = [published EXCEPT ![a] = Source(Want(a))]
    /\ UNCHANGED <<resource, due, status, flows, vault, issued, authentik,
                   history, ops, faults>>

\* A remote call fails: every one is in a try block that calls fail.
BackendError(a) ==
    /\ faults < MaxFaults /\ faults' = faults + 1
    /\ run[a].pc \notin {"idle", "patch", "detach", "destroy"}
    /\ Fail(a)
    /\ UNCHANGED <<resource, due, status, flows, secrets, authentik, history,
                   ops>>

WritePatch(a) ==
    /\ At(a, "patch") /\ run' = [run EXCEPT ![a] = Idle]
    /\ status' = [status EXCEPT ![a] = run[a].out]
    /\ due' = IF Retried(run[a].again) /\ life[a] = "live" THEN due \cup {a} ELSE due
    /\ UNCHANGED <<resource, flows, secrets, authentik, history, ops,
                   faults>>

----------------------------------------------------------------------------
(* finalize: every failed call is logged, and the next one made            *)

\* One of its calls fails.
Swallow(a) ==
    /\ faults < MaxFaults /\ faults' = faults + 1
    /\ swallowed' = swallowed \cup {a}

\* The resource goes, and the ExternalSecret it owns with it.
Gone(a) ==
    /\ life' = [life EXCEPT ![a] = "gone"] /\ run' = [run EXCEPT ![a] = Idle]
    /\ published' = [published EXCEPT ![a] = None]
    /\ vault' = Retained(vault, Location(spec[a]))

\* The application is deleted by the slug of the status, and for a proxy the
\* outpost of the spec read; the rest needs status.providerID.
Finalize(a) ==
    /\ life[a] = "deleting" /\ At(a, "idle")
    /\ LET st == status[a]
           slug == IF st.slug # None THEN st.slug ELSE spec[a].slug
           list == outpost[spec[a].outpost]
           proxy == st.protocol = "proxy" /\ spec[a].outpost \in Installed
                    /\ st.provider \in list
           Destroyed == [Idle EXCEPT !.pc = "destroy"]
           Detaching == [Idle EXCEPT !.pc = "detach",
                                     !.list = list \ {st.provider}]
       IN /\ \/ /\ application' = [application EXCEPT ![slug] = None]
                /\ UNCHANGED <<faults, swallowed>>
             \/ Swallow(a) /\ UNCHANGED application
          /\ IF st.provider = None
             THEN Gone(a)
             ELSE /\ run' = [run EXCEPT ![a] =
                               IF proxy THEN Detaching ELSE Destroyed]
                  /\ UNCHANGED <<life, published, vault>>
    /\ UNCHANGED <<spec, gen, due, status, flows, issued, providers, created,
                   outpost, registered, overlapped, ops>>

\* No backend at all: everything is left behind.
Unavailable(a) ==
    /\ life[a] = "deleting" /\ At(a, "idle") /\ Swallow(a) /\ Gone(a)
    /\ UNCHANGED <<spec, gen, due, status, flows, issued, authentik,
                   registered, overlapped, ops>>

Detach(a) ==
    /\ At(a, "detach") /\ run' = [run EXCEPT ![a].pc = "destroy", ![a].list = {}]
    /\ \/ /\ run[a].list \subseteq Pks /\ Replace(a, spec[a].outpost)
          /\ UNCHANGED <<faults, swallowed>>
       \/ /\ ~(run[a].list \subseteq Pks)
          /\ UNCHANGED <<outpost, overlapped, faults, swallowed>>
       \/ Swallow(a) /\ UNCHANGED <<outpost, overlapped>>
    /\ UNCHANGED <<resource, due, status, flows, secrets, providers, created,
                   application, registered, ops>>

\* A provider that goes is taken out of every outpost and application.
Destroy(a) ==
    /\ At(a, "destroy") /\ Gone(a)
    /\ LET dead == {p \in providers : p.pk = status[a].provider
                                      /\ p.kind = status[a].protocol}
           pks == {p.pk : p \in dead}
       IN \/ /\ providers' = providers \ dead
             /\ outpost' = [o \in Outposts |-> outpost[o] \ pks]
             /\ application' = [s \in Slugs |-> IF application[s] \in pks THEN 0
                                                ELSE application[s]]
             /\ UNCHANGED <<faults, swallowed>>
          \/ Swallow(a) /\ UNCHANGED <<providers, outpost, application>>
    /\ UNCHANGED <<spec, gen, due, status, flows, issued, created, registered,
                   overlapped, ops>>

----------------------------------------------------------------------------
(* Users, Authentik, and restarts of the controller *)

Edit(a) ==
    /\ life[a] = "live" /\ gen[a] < MaxGen
    /\ \E s \in Specs : <<spec[a], s>> \in Edits /\ spec' = [spec EXCEPT ![a] = s]
    /\ gen' = [gen EXCEPT ![a] = @ + 1] /\ due' = due \cup {a}
    /\ UNCHANGED <<life, status, run, flows, secrets, authentik, history,
                   ops, faults>>

\* From here on Kopf calls finalize.
Delete(a) ==
    /\ life[a] = "live" /\ life' = [life EXCEPT ![a] = "deleting"]
    /\ due' = due \ {a}
    /\ ops < MaxOps /\ ops' = ops + 1
    /\ UNCHANGED <<spec, gen, status, run, flows, secrets, authentik,
                   history, faults>>

Recreate(a) ==
    /\ life[a] = "gone" /\ ops < MaxOps /\ ops' = ops + 1
    /\ life' = [life EXCEPT ![a] = "live"] /\ gen' = [gen EXCEPT ![a] = 1]
    /\ \E s \in First[a] : spec' = [spec EXCEPT ![a] = s]
    /\ status' = [status EXCEPT ![a] = NoStatus] /\ due' = due \cup {a}
    /\ UNCHANGED <<run, flows, secrets, authentik, history, faults>>

\* The blueprints of a new Authentik are applied.
InstallFlows ==
    /\ ~flows /\ flows' = TRUE
    /\ UNCHANGED <<resource, due, status, run, secrets, authentik, history,
                   ops, faults>>

Restart ==
    /\ faults < MaxFaults /\ faults' = faults + 1
    /\ run' = [a \in Apps |-> Idle]
    /\ due' = {a \in Apps : life[a] = "live"}
    /\ UNCHANGED <<resource, status, flows, secrets, authentik, history,
                   ops>>

Handler(a) == Call(a) \/ ReadVault(a) \/ WriteVault(a) \/ EnsureProvider(a)
              \/ ReadOutpost(a) \/ Attach(a) \/ EnsureApplication(a)
              \/ Publish(a) \/ WritePatch(a)
              \/ Finalize(a) \/ Detach(a) \/ Destroy(a)

Next == \/ \E a \in Apps : Handler(a) \/ BackendError(a) \/ Unavailable(a)
                           \/ Edit(a) \/ Delete(a) \/ Recreate(a)
        \/ InstallFlows \/ Restart

Spec == Init /\ [][Next]_vars

\* A handler that was called goes on and a due one is called; the flows
\* come with Authentik's start.
FairSpec == Spec /\ WF_vars(InstallFlows)
                 /\ \A a \in Apps : WF_vars(Handler(a))

----------------------------------------------------------------------------
(* Properties *)

TypeOK ==
    /\ spec \in [Apps -> Specs] /\ gen \in [Apps -> Nat]
    /\ life \in [Apps -> {"live", "deleting", "gone"}]
    /\ due \in SUBSET Apps /\ flows \in BOOLEAN
    /\ status \in [Apps -> Status] /\ run \in [Apps -> Frame]
    /\ vault \in [Locations -> Nat \cup {None}] /\ issued \in Nat
    /\ providers \in SUBSET Provider /\ created \in Nat
    /\ application \in [Slugs -> Nat \cup {None}]
    /\ outpost \in [Outposts -> SUBSET Nat]
    /\ published \in [Apps -> Locations \cup {None}]
    /\ registered \in SUBSET (Slugs \X Locations \X (Nat \cup {None}))
    /\ overlapped \in SUBSET Outposts /\ swallowed \in SUBSET Apps
    /\ ops \in 0 .. MaxOps /\ faults \in 0 .. MaxFaults

Settled(a) == /\ life[a] = "live" /\ status[a].ready
              /\ status[a].observed = gen[a]

\* Who signs in to an application of a Ready SSOApplication is let in:
\* Authentik's application is bound to the provider in the status, and the
\* credentials that provider accepts are the ones the app gets from the
\* path its ExternalSecret reads.
SignIn(a) ==
    /\ application[spec[a].slug] = status[a].provider
    /\ \E p \in providers :
         /\ p.pk = status[a].provider /\ p.kind = spec[a].protocol
         /\ p.kind = "oauth2" =>
              /\ p.cred = vault[Location(spec[a])] /\ p.cred # None
              /\ spec[a].target => published[a] = Location(spec[a])
ReadyMeansSignIn == TypeOK /\ \A a \in Apps : Settled(a) => SignIn(a)

\* authentik.py:264, "Attach a provider to an outpost (merge)": the provider
\* of a Ready proxy application stays in its outpost, whatever else is
\* attached or detached there, unless two handlers wrote the outpost's list
\* from readings that overlapped.
ReadyMeansServed ==
    \A a \in Apps :
        /\ Settled(a) /\ spec[a].protocol = "proxy"
        /\ spec[a].outpost \notin overlapped
        => status[a].provider \in outpost[spec[a].outpost]

\* ssoapplication.py:13, "a recreated application reuses the same client
\* id/secret": a slug's provider never gets other credentials, over deletion
\* and re-creation, for as long as they come from the same path.
SameCredentials ==
    \A r, q \in registered : r[1] = q[1] /\ r[2] = q[2] => r[3] = q[3]

\* However often a reconcile is retried or cut short, a deleted SSOApplication
\* that was Ready once, with no failed call in its finalizer, leaves neither
\* an application nor any provider of its slug and protocol.
NothingLeftBehind ==
    \A a \in Apps :
        /\ life[a] = "gone" /\ status[a].provider # None /\ a \notin swallowed
        => /\ application[status[a].slug] = None
           /\ \A p \in providers : <<p.name, p.kind>> #
                                     <<status[a].slug, status[a].protocol>>

\* ssoapplication.py:12, "On deletion a finalizer best-effort deletes the
\* Authentik application and provider": so, with no failed call and no
\* restart, also if it was never Ready.
FinalizeDeletes ==
    \A a \in Apps :
        life[a] = "gone" /\ faults = 0 =>
            \A p \in providers : p.name # spec[a].slug

\* Every SSOApplication that stays gets Ready for its last spec, if the spec
\* is valid and its outpost exists.
EventuallyReady ==
    <>[](\A a \in Apps :
            /\ life[a] = "live" /\ spec[a].valid
            /\ spec[a].protocol = "proxy" => spec[a].outpost \in Installed
            => status[a].ready /\ status[a].observed = gen[a])

----------------------------------------------------------------------------
(* Why they hold: an inductive invariant, proved in SsoReconcileProofs     *)

\* Mine[a] are the specs a may ever have; those of two SSOApplications share
\* neither a slug nor the place of the credentials.
PrivateSlugs(Mine) ==
    /\ \A a \in Apps : First[a] \subseteq Mine[a]
    /\ \A a \in Apps, e \in Edits : e[1] \in Mine[a] => e[2] \in Mine[a]
    /\ \A a, b \in Apps : a # b => \A s \in Mine[a], t \in Mine[b] :
         s.slug # t.slug /\ Location(s) # Location(t)

Belongs(Mine, a, slug) == \E s \in Mine[a] : s.slug = slug

\* Authentik has one provider of a name and kind, and no application is bound
\* to one of another name.
ProvidersInv ==
    /\ \A p \in providers :
         /\ p.pk \in 1 .. created
         /\ \A q \in providers :
              p.pk = q.pk \/ (p.name = q.name /\ p.kind = q.kind) => p = q
    /\ \A s \in Slugs :
         application[s] # None =>
            /\ application[s] \in 0 .. created
            /\ \A p \in providers : p.pk = application[s] => p.name = s

\* What was registered once is still there.
RegisteredInv == \A r \in registered : vault[r[2]] = r[3] /\ r[3] # None

Working(a) ==
    run[a].pc \in {"vault", "generate", "provider", "outpost", "attach", "application",
                   "publish"}
Finalizing(a) == run[a].pc \in {"detach", "destroy"}

\* A handler works for a generation of its own SSOApplication, not older than
\* the one the status is of.
JobInv(Mine, a) ==
    /\ spec[a] \in Mine[a]
    /\ life[a] = "gone" => At(a, "idle")
    /\ At(a, "idle") => run[a] = Idle
    /\ Finalizing(a) => life[a] = "deleting" /\ status[a].provider # None
    /\ status[a].observed <= gen[a] /\ run[a].out.observed <= gen[a]
    /\ Working(a) =>
         /\ Want(a) \in Mine[a] /\ run[a].gen <= gen[a]
         /\ status[a].observed <= run[a].gen /\ run[a].out.observed <= run[a].gen
         /\ run[a].gen = gen[a] => Want(a) = spec[a]

\* The provider pk is there, for this slug and protocol.
Provided(pk, slug, protocol) ==
    \E p \in providers : p.pk = pk /\ p.name = slug /\ p.kind = protocol

\* It accepts the credentials the spec takes from OpenBao.
Accepts(pk, s) ==
    s.protocol = "oauth2" =>
        /\ vault[Location(s)] # None
        /\ \A p \in providers : p.pk = pk => p.cred = vault[Location(s)]

\* What the frame has done so far.
DoneInv(a) ==
    LET f == run[a] IN
    Working(a) =>
        /\ f.pc = "generate" => vault[Location(f.want)] = None /\ f.cred # None
        /\ f.pc = "provider" /\ f.want.protocol = "oauth2" =>
             f.cred = vault[Location(f.want)] /\ f.cred # None
        /\ f.pc \in {"outpost", "attach", "application", "publish"} =>
             Provided(f.pk, f.want.slug, f.want.protocol) /\ Accepts(f.pk, f.want)
        /\ f.pc \in {"application", "publish"} /\ f.want.protocol = "proxy"
             /\ f.want.outpost \notin overlapped => f.pk \in outpost[f.want.outpost]
        /\ f.pc = "publish" => application[f.want.slug] = f.pk

\* What the status names, or is going to name, is there.
NamedInv(Mine, a, st) ==
    /\ st.slug # None => Belongs(Mine, a, st.slug)
    /\ st.provider # None =>
         st.slug # None /\ (life[a] # "gone" => Provided(st.provider, st.slug, st.protocol))

\* What a status that is Ready says, or is going to say.
SettledInv(a, st) ==
    /\ life[a] = "live" /\ st.ready /\ st.observed = gen[a]
    => /\ Provided(st.provider, spec[a].slug, spec[a].protocol) /\ Accepts(st.provider, spec[a])
       /\ application[spec[a].slug] = st.provider
       /\ spec[a].protocol = "oauth2" /\ spec[a].target => published[a] = Location(spec[a])
       /\ spec[a].protocol = "proxy" /\ spec[a].outpost \notin overlapped =>
            st.provider \in outpost[spec[a].outpost]

\* The list that is about to be written holds all there is to keep.
ListInv(a) ==
    /\ At(a, "attach") =>
         /\ run[a].pk \in run[a].list
         /\ Want(a).outpost \notin overlapped => outpost[Want(a).outpost] \subseteq run[a].list
    /\ At(a, "detach") /\ spec[a].outpost \notin overlapped =>
         outpost[spec[a].outpost] \ {status[a].provider} \subseteq run[a].list

\* What a finalizer has deleted stays away.
DeletedInv(a) ==
    status[a].provider # None /\ a \notin swallowed =>
        /\ life[a] = "gone" \/ Finalizing(a) => application[status[a].slug] = None
        /\ life[a] = "gone" => \A p \in providers :
             <<p.name, p.kind>> # <<status[a].slug, status[a].protocol>>

AppInv(Mine, a) ==
    /\ JobInv(Mine, a) /\ DoneInv(a) /\ ListInv(a) /\ DeletedInv(a)
    /\ NamedInv(Mine, a, status[a]) /\ NamedInv(Mine, a, run[a].out)
    /\ SettledInv(a, status[a]) /\ SettledInv(a, run[a].out)

SsoInv(Mine) ==
    TypeOK /\ ProvidersInv /\ RegisteredInv /\ \A a \in Apps : AppInv(Mine, a)
=============================================================================
