--------------------------- MODULE PreviewPipeline ---------------------------
(***************************************************************************)
(* What the controller keeps for the previews of a GitHub repository: the  *)
(* Secrets with the token and the webhook's key, the Argo Events           *)
(* EventSource and Sensor, and the webhook's Ingress, each named after the  *)
(* repository's owner and name.                                            *)
(*                                                                         *)
(* GitRepositoryReconciler runs for one GitRepository at a time and makes  *)
(* one call after the other; those of two GitRepositories interleave.      *)
(***************************************************************************)
EXTENDS Naturals

CONSTANTS
    Repos,     \* names of GitRepositories
    Urls,      \* owner/repo
    None,
    MaxOps,    \* bound: what users do
    MaxFaults  \* bound: failed calls and restarts

\* Previews are off, on, or on with something missing (spec.preview.clientRef,
\* the webhook's host).
Configs == {"off", "on", "incomplete"}
Desired == [gen : 1 .. MaxOps + 1, url : Urls, config : Configs, deleting : BOOLEAN]

ASSUME PipelineAssumption ==
    /\ None \notin Repos \cup Urls \cup Desired
    /\ MaxOps \in Nat /\ MaxFaults \in Nat

VARIABLES
    spec,     \* the GitRepositories
    status,   \* their status
    secret,   \* the Secret with a GitRepository's token exists
    due,      \* a GitRepository's handler is to be called
    handler,  \* the handlers' frames
    pipe,     \* the objects in the argo namespace
    shared,   \* (history) repositories that two GitRepositories named at a time
    left,     \* (history) repositories a GitRepository was pointed from or to by
              \* an edit, or whose objects could not be deleted
    ops, faults

pipelineVars ==
    <<spec, status, secret, due, handler, pipe, shared, left, ops, faults>>

\* url stands for owner, repo and url; source for previewEventSource and what
\* goes with it.
Status == [url : Urls \cup {None}, source : Urls \cup {None},
           ready : BOOLEAN, observed : 0 .. MaxOps + 1]
NoStatus == [url |-> None, source |-> None, ready |-> FALSE, observed |-> 0]

\* key is the value of the webhook's HMAC secret, 0: there is none.
Pipe == [token : BOOLEAN, key : 0 .. 2, source : BOOLEAN,
         sensor : Repos \cup {None}, ingress : BOOLEAN]
NoPipe == [token |-> FALSE, key |-> 0, source |-> FALSE, sensor |-> None,
           ingress |-> FALSE]

Creating == {"token", "key", "source", "sensor", "ingress"}
Deleting == {"del sensor", "del source", "del ingress", "del token", "del key"}
Frame == [pc : {"idle", "check", "write"} \cup Creating \cup Deleting,
          final : BOOLEAN, want : Desired \cup {None},
          url : Urls \cup {None}, out : Status]
Idle == [pc |-> "idle", final |-> FALSE, want |-> None, url |-> None, out |-> NoStatus]

----------------------------------------------------------------------------
(* Decisions, each after its mutant *)

\* The webhook's Secret is create_only.
KeyAfter(key) == IF key = 0 THEN 1 ELSE key

\* finalize: the repository the status names, or else the spec.
NamedUrl(r) == IF status[r].url # None THEN status[r].url ELSE spec[r].url

\* The mutant forgets the Ingress.
NextCall_Mutant(pc) ==
    CASE pc = "token" -> "key" [] pc = "key" -> "source"
      [] pc = "source" -> "sensor" [] pc = "sensor" -> "write"
      [] pc = "ingress" -> "write"
      [] pc = "del sensor" -> "del source" [] pc = "del source" -> "del ingress"
      [] pc = "del ingress" -> "del token" [] pc = "del token" -> "del key"
      [] pc = "del key" -> "write"

\* The mutant forgets the Ingress of what it deletes.
NextCall_Short(pc) ==
    CASE pc = "token" -> "key" [] pc = "key" -> "source"
      [] pc = "source" -> "sensor" [] pc = "sensor" -> "ingress"
      [] pc = "ingress" -> "write"
      [] pc = "del sensor" -> "del source" [] pc = "del source" -> "del token"
      [] pc = "del ingress" -> "del token" [] pc = "del token" -> "del key"
      [] pc = "del key" -> "write"

\* The order of the calls of _reconcile_preview and of _delete_preview.
NextCall(pc) ==
    CASE pc = "token" -> "key" [] pc = "key" -> "source"
      [] pc = "source" -> "sensor" [] pc = "sensor" -> "ingress"
      [] pc = "ingress" -> "write"
      [] pc = "del sensor" -> "del source" [] pc = "del source" -> "del ingress"
      [] pc = "del ingress" -> "del token" [] pc = "del token" -> "del key"
      [] pc = "del key" -> "write"

\* Kopf calls a handler that raised again.
CalledAgain(failed) == failed

----------------------------------------------------------------------------
(* The handler *)

\* The objects _reconcile_preview applies ...
TokenSecret(p) == [p EXCEPT !.token = TRUE]
WebhookSecret(p) == [p EXCEPT !.key = KeyAfter(@)]
EventSource(p) == [p EXCEPT !.source = TRUE]
\* (its templates name the GitRepository: see Previews)
Sensor(p, r) == [p EXCEPT !.sensor = r]
Ingress(p) == [p EXCEPT !.ingress = TRUE]

\* ... and the ones _delete_preview deletes: no error if they are not there.
Without(p, pc) ==
    CASE pc = "del sensor"  -> [p EXCEPT !.sensor = None]
      [] pc = "del source"  -> [p EXCEPT !.source = FALSE]
      [] pc = "del ingress" -> [p EXCEPT !.ingress = FALSE]
      [] pc = "del token"   -> [p EXCEPT !.token = FALSE]
      [] pc = "del key"     -> [p EXCEPT !.key = 0]

\* What is there after a call.
After(r, p, pc) ==
    CASE pc = "token"   -> TokenSecret(p)
      [] pc = "key"     -> WebhookSecret(p)
      [] pc = "source"  -> EventSource(p)
      [] pc = "sensor"  -> Sensor(p, r)
      [] pc = "ingress" -> Ingress(p)
      [] OTHER          -> Without(p, pc)

Exists(r) == spec[r] # None

Begin(r) ==
    /\ handler[r].pc = "idle" /\ Exists(r) /\ ~spec[r].deleting /\ due[r]
    /\ handler' = [handler EXCEPT ![r] =
         [pc |-> "check", final |-> FALSE, want |-> spec[r], url |-> spec[r].url,
          out |-> status[r]]]
    /\ due' = [due EXCEPT ![r] = FALSE]
    /\ UNCHANGED <<spec, status, secret, pipe, left, ops, faults>>

NotReady(f, out) == [out EXCEPT !.ready = FALSE, !.observed = f.want.gen]

\* The frame after fail(...).
Failed(f, out) == [f EXCEPT !.pc = "write", !.out = NotReady(f, out)]

Check(r) ==
    LET f == handler[r]
        out == [f.out EXCEPT !.url = f.url] IN
    /\ f.pc = "check"
    /\ handler' = [handler EXCEPT ![r] =
         IF ~secret[r] THEN Failed(f, f.out)
         ELSE IF f.want.config = "incomplete" THEN Failed(f, out)
         ELSE [f EXCEPT !.out = out,
                        !.pc = IF f.want.config = "on" THEN "token" ELSE "del sensor"]]
    /\ due' = [due EXCEPT ![r] =
         @ \/ CalledAgain(~secret[r] \/ f.want.config = "incomplete")]
    /\ UNCHANGED <<spec, status, secret, pipe, left, ops, faults>>

Done(f) ==
    [f.out EXCEPT !.source = IF f.want.config = "on" THEN f.url ELSE None,
                  !.ready = TRUE, !.observed = f.want.gen]

\* The handler is through with the GitRepository: what is left is to write the
\* patch or, for finalize, to let the object go.
Advance(r, pc) ==
    LET f == handler[r] IN
    IF pc # "write"
    THEN /\ handler' = [handler EXCEPT ![r].pc = pc]
         /\ UNCHANGED <<spec, status>>
    ELSE IF f.final
    THEN /\ handler' = [handler EXCEPT ![r] = Idle]
         /\ spec' = [spec EXCEPT ![r] = None]
         /\ status' = [status EXCEPT ![r] = NoStatus]
    ELSE /\ handler' = [handler EXCEPT ![r].pc = "write", ![r].out = Done(f)]
         /\ UNCHANGED <<spec, status>>

\* One call that is answered.
Call(r) ==
    LET f == handler[r] IN
    /\ f.pc \in Creating \cup Deleting
    /\ f.pc = "token" => secret[r]
    /\ pipe' = [pipe EXCEPT ![f.url] = After(r, @, f.pc)]
    /\ Advance(r, NextCall(f.pc))
    /\ UNCHANGED <<secret, due, left, ops, faults>>

\* One call that fails, after its effect or before.  Provisioning makes it a
\* condition, the deletion for a repository without previews raises as it is,
\* and finalize logs it and goes on without the calls that are left.
FailedCall(r) ==
    LET f == handler[r] IN
    /\ f.pc \in Creating \cup Deleting
    /\ pipe' \in {pipe, [pipe EXCEPT ![f.url] = After(r, @, f.pc)]}
    /\ IF f.final
       THEN Advance(r, "write") /\ left' = left \cup {f.url}
       ELSE /\ handler' = [handler EXCEPT ![r] =
                 IF f.pc \in Creating THEN Failed(f, f.out) ELSE [f EXCEPT !.pc = "write"]]
            /\ UNCHANGED <<spec, status, left>>
    /\ due' = [due EXCEPT ![r] = @ \/ CalledAgain(~f.final)]
    /\ UNCHANGED <<secret, ops>>

CallFails(r) == faults < MaxFaults /\ faults' = faults + 1 /\ FailedCall(r)

\* The token's Secret went after the check.
TokenGone(r) ==
    /\ handler[r].pc = "token" /\ ~secret[r]
    /\ handler' = [handler EXCEPT ![r] = Failed(handler[r], handler[r].out)]
    /\ due' = [due EXCEPT ![r] = @ \/ CalledAgain(TRUE)]
    /\ UNCHANGED <<spec, status, secret, pipe, left, ops, faults>>

WritePatch(r) ==
    /\ handler[r].pc = "write"
    /\ status' = [status EXCEPT ![r] = handler[r].out]
    /\ handler' = [handler EXCEPT ![r] = Idle]
    /\ UNCHANGED <<spec, secret, due, pipe, left, ops, faults>>

Finalize(r) ==
    /\ handler[r].pc = "idle" /\ Exists(r) /\ spec[r].deleting
    /\ handler' = [handler EXCEPT ![r] =
         [pc |-> "del sensor", final |-> TRUE, want |-> spec[r], url |-> NamedUrl(r),
          out |-> status[r]]]
    /\ UNCHANGED <<spec, status, secret, due, pipe, left, ops, faults>>

\* Frames are lost; on.resume calls every handler.
Restart ==
    /\ faults < MaxFaults /\ faults' = faults + 1
    /\ handler' = [r \in Repos |-> Idle]
    /\ due' = [r \in Repos |-> TRUE]
    /\ UNCHANGED <<spec, status, secret, pipe, left, ops>>

----------------------------------------------------------------------------
(* Users *)

Create(r, u, c) ==
    /\ ~Exists(r)
    /\ spec' = [spec EXCEPT ![r] = [gen |-> 1, url |-> u, config |-> c, deleting |-> FALSE]]
    /\ due' = [due EXCEPT ![r] = TRUE]
    /\ UNCHANGED <<status, secret, handler, pipe, left, faults>>

Edit(r, u, c) ==
    /\ Exists(r) /\ ~spec[r].deleting
    /\ <<u, c>> # <<spec[r].url, spec[r].config>>
    /\ spec' = [spec EXCEPT ![r].gen = @ + 1, ![r].url = u, ![r].config = c]
    /\ due' = [due EXCEPT ![r] = TRUE]
    /\ left' = IF u # spec[r].url THEN left \cup {spec[r].url, u} ELSE left
    /\ UNCHANGED <<status, secret, handler, pipe, faults>>

Delete(r) ==
    /\ Exists(r) /\ ~spec[r].deleting
    /\ spec' = [spec EXCEPT ![r].deleting = TRUE]
    /\ UNCHANGED <<status, secret, due, handler, pipe, left, faults>>

\* The token's Secret is made, or deleted.
ChangeSecret(r) ==
    /\ secret' = [secret EXCEPT ![r] = ~@]
    /\ UNCHANGED <<spec, status, due, handler, pipe, left, faults>>

----------------------------------------------------------------------------
\* A GitRepository names a repository in its spec, its status or its handler.
Names(r) == {status[r].url, handler[r].url} \cup (IF Exists(r) THEN {spec[r].url} ELSE {})

Contested == {u \in Urls : \E r, q \in Repos : r # q /\ u \in Names(r) \cap Names(q)}

Handle(r) == Begin(r) \/ Check(r) \/ Call(r) \/ TokenGone(r) \/ WritePatch(r) \/ Finalize(r)

User(r) ==
    /\ ops < MaxOps /\ ops' = ops + 1
    /\ \/ \E u \in Urls, c \in Configs : Create(r, u, c) \/ Edit(r, u, c)
       \/ Delete(r) \/ ChangeSecret(r)

Share == shared' = shared \cup Contested'

RestartAll == Restart /\ Share
Work(r) == Handle(r) /\ Share
Other(r) == (CallFails(r) \/ User(r)) /\ Share

PipelineInit ==
    /\ spec = [r \in Repos |-> None] /\ status = [r \in Repos |-> NoStatus]
    /\ secret = [r \in Repos |-> TRUE] /\ due = [r \in Repos |-> FALSE]
    /\ handler = [r \in Repos |-> Idle] /\ pipe = [u \in Urls |-> NoPipe]
    /\ shared = {} /\ left = {} /\ ops = 0 /\ faults = 0

PipelineNext == RestartAll \/ \E r \in Repos : Work(r) \/ Other(r)

\* Kopf calls handlers, and calls are answered in the end.
PipelineSpec ==
    PipelineInit /\ [][PipelineNext]_pipelineVars /\ \A r \in Repos : WF_pipelineVars(Work(r))

----------------------------------------------------------------------------
\* Every variable has its type.
PipelineTypeOK ==
    /\ spec \in [Repos -> Desired \cup {None}] /\ status \in [Repos -> Status]
    /\ secret \in [Repos -> BOOLEAN] /\ due \in [Repos -> BOOLEAN]
    /\ handler \in [Repos -> Frame] /\ pipe \in [Urls -> Pipe]
    /\ shared \subseteq Urls /\ left \subseteq Urls
    /\ ops \in 0 .. MaxOps /\ faults \in 0 .. MaxFaults

Wired(r) ==
    pipe[spec[r].url] =
        [token |-> TRUE, key |-> pipe[spec[r].url].key, source |-> TRUE, sensor |-> r,
         ingress |-> TRUE]
    /\ pipe[spec[r].url].key # 0

Current(r) == Exists(r) /\ ~spec[r].deleting /\ status[r].ready /\ status[r].observed = spec[r].gen

\* A GitRepository that is Ready for its generation and has previews on has
\* its whole pipeline, with a Sensor that makes previews of this GitRepository;
\* another GitRepository of the same repository is the one thing that can take
\* it away.
ReadyMeansWired ==
    /\ PipelineTypeOK
    /\ \A r \in Repos :
          Current(r) /\ spec[r].config = "on" /\ spec[r].url \notin shared => Wired(r)

\* Nothing is left of a pipeline nobody names any more, unless its
\* GitRepository was pointed from one repository to another (finalize knows
\* one of them: the one the last status was written for), or a call of
\* finalize failed.
NothingLeftBehind ==
    \A u \in Urls :
        u \notin left /\ (\A r \in Repos : u \notin Names(r)) => pipe[u] = NoPipe

----------------------------------------------------------------------------
(* Why they hold: an inductive invariant, proved in PreviewPipelineProofs  *)

\* What a handler works for is its GitRepository, of the generation it was
\* called with; it deletes what previews are off for, or all of it at the end.
FrameInv(r) ==
    LET f == handler[r] IN
    /\ ~Exists(r) => f = Idle /\ status[r] = NoStatus
    /\ Exists(r) => status[r].observed <= spec[r].gen /\ spec[r].gen <= ops + 1
    /\ f.pc # "idle" => f.url \in Urls
    /\ f.pc # "idle" /\ f.final => f.pc \in Deleting /\ spec[r].deleting
    /\ f.pc # "idle" /\ ~f.final =>
         /\ f.want \in Desired /\ f.url = f.want.url
         /\ f.pc \in Creating => f.want.config = "on"
         /\ f.pc \in Deleting => f.want.config = "off"
         /\ status[r].observed <= f.want.gen /\ f.out.observed <= f.want.gen
         /\ f.want.gen <= spec[r].gen
         /\ f.want.gen = spec[r].gen =>
              f.want.url = spec[r].url /\ f.want.config = spec[r].config

\* A repository that is named, and is not what the spec names, was changed
\* for it.
UrlInv(r) ==
    Exists(r) =>
        \A u \in {status[r].url, handler[r].url, handler[r].out.url} \ {None, spec[r].url} :
            u \in left /\ spec[r].url \in left

\* What a status says, or is going to say, of the pipeline.
Holds(r, out) ==
    /\ Exists(r) /\ ~spec[r].deleting /\ spec[r].config = "on" /\ spec[r].url \notin shared
    /\ out.ready /\ out.observed = spec[r].gen
    => Wired(r)

\* What the calls so far have made.
Made(p, r, pc) ==
    /\ pc \in Creating \ {"token"} => p.token
    /\ pc \in Creating \ {"token", "key"} => p.key # 0
    /\ pc \in {"sensor", "ingress"} => p.source
    /\ pc = "ingress" => p.sensor = r

WiredInv(r) ==
    /\ Holds(r, status[r])
    /\ handler[r].pc # "idle" => Holds(r, handler[r].out)
    /\ handler[r].url \in Urls \ shared => Made(pipe[handler[r].url], r, handler[r].pc)

\* What there may be of a pipeline, and what of it a finalizer has deleted.
Parts == {"sensor", "source", "ingress", "token", "key"}
Has(p, x) ==
    \/ x = "sensor" /\ p.sensor # None
    \/ x = "source" /\ p.source
    \/ x = "ingress" /\ p.ingress
    \/ x = "token" /\ p.token
    \/ x = "key" /\ p.key # 0
Deleted(f) ==
    IF ~f.final THEN {}
    ELSE CASE f.pc = "del source"  -> {"sensor"}
           [] f.pc = "del ingress" -> {"sensor", "source"}
           [] f.pc = "del token"   -> {"sensor", "source", "ingress"}
           [] f.pc = "del key"     -> Parts \ {"key"}
           [] OTHER                -> {}

\* Whatever there is, somebody is going to delete.
Owned(u) ==
    \A x \in Parts : Has(pipe[u], x) =>
        \E r \in Repos : Exists(r) /\ spec[r].url = u /\ x \notin Deleted(handler[r])

PipelineInv ==
    /\ PipelineTypeOK
    /\ Contested \subseteq shared
    /\ \A r \in Repos : FrameInv(r) /\ UrlInv(r) /\ WiredInv(r)
    /\ \A u \in Urls \ left : Owned(u)
=============================================================================
