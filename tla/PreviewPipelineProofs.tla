------------------------ MODULE PreviewPipelineProofs ------------------------
(***************************************************************************)
(* Proofs about PreviewPipeline, for every set of GitRepositories and      *)
(* repositories and every bound.                                           *)
(*                                                                         *)
(* The argument: the objects of a repository change only at the hands of a *)
(* handler that works for it, so they belong to the one GitRepository that *)
(* names the repository, or two do and shared records it (OthersKept).     *)
(*   Ready: a handler carries the generation it was called for and writes  *)
(* no other; the calls before the last one have made the rest (Made), and  *)
(* a handler that deletes works for a generation without previews          *)
(* (FrameInv), which is not the one the status is Ready for.               *)
(*   Nothing left: what there is of a repository outside of left belongs   *)
(* to a GitRepository whose spec names it and whose finalizer, if it runs, *)
(* has not come to it yet (Owned); an edit of the repository, and a call   *)
(* of a finalizer that fails, put it in left (UrlInv).                     *)
(***************************************************************************)
EXTENDS PreviewPipeline, TLAPS

----------------------------------------------------------------------------
(* What a call makes of a pipeline *)

LEMMA AfterType ==
  ASSUME NEW r \in Repos, NEW p \in Pipe, NEW pc \in Creating \cup Deleting
  PROVE  After(r, p, pc) \in Pipe
<1> USE DEF Pipe, After, Without
<1>1. CASE pc = "token"
  BY <1>1 DEF TokenSecret
<1>2. CASE pc = "key"
  <2>1. KeyAfter(p.key) \in 0 .. 2
    BY DEF KeyAfter
  <2> QED BY <1>2, <2>1 DEF WebhookSecret
<1>3. CASE pc = "source"
  BY <1>3 DEF EventSource
<1>4. CASE pc = "sensor"
  BY <1>4 DEF Sensor
<1>5. CASE pc = "ingress"
  BY <1>5 DEF Ingress
<1>6. CASE pc \in {"del sensor", "del source", "del ingress", "del token"}
  BY <1>6
<1>7. CASE pc = "del key"
  <2>1. After(r, p, pc) = [p EXCEPT !.key = 0]
    BY <1>7
  <2>2. [p EXCEPT !.key = 0] \in Pipe
    OBVIOUS
  <2> QED BY <1>7, <2>1, <2>2
<1> QED BY <1>1, <1>2, <1>3, <1>4, <1>5, <1>6, <1>7 DEF Creating, Deleting

\* A call that creates takes nothing away, and adds its own.
LEMMA AfterCreating ==
  ASSUME NEW r \in Repos, NEW p \in Pipe, NEW pc \in Creating
  PROVE  /\ p.token \/ pc = "token" => After(r, p, pc).token
         /\ p.key # 0 \/ pc = "key" => After(r, p, pc).key # 0
         /\ p.source \/ pc = "source" => After(r, p, pc).source
         /\ p.sensor = r \/ pc = "sensor" => After(r, p, pc).sensor = r
         /\ p.ingress \/ pc = "ingress" => After(r, p, pc).ingress
<1> USE DEF Pipe, After
<1>1. CASE pc = "token"
  BY <1>1 DEF TokenSecret
<1>2. CASE pc = "key"
  BY <1>2 DEF WebhookSecret, KeyAfter
<1>3. CASE pc = "source"
  BY <1>3 DEF EventSource
<1>4. CASE pc = "sensor"
  BY <1>4 DEF Sensor
<1>5. CASE pc = "ingress"
  BY <1>5 DEF Ingress
<1> QED BY <1>1, <1>2, <1>3, <1>4, <1>5 DEF Creating

\* A call that deletes adds nothing, and takes its own.
LEMMA AfterDeleting ==
  ASSUME NEW r \in Repos, NEW p \in Pipe, NEW pc \in Deleting, NEW x \in Parts,
         Has(After(r, p, pc), x)
  PROVE  /\ Has(p, x)
         /\ pc = "del sensor" => x # "sensor"
         /\ pc = "del source" => x # "source"
         /\ pc = "del ingress" => x # "ingress"
         /\ pc = "del token" => x # "token"
         /\ pc = "del key" => x # "key"
<1> USE DEF Pipe, After, Without, Has, Parts
<1>1. CASE pc = "del sensor"
  BY <1>1
<1>2. CASE pc = "del source"
  BY <1>2
<1>3. CASE pc = "del ingress"
  BY <1>3
<1>4. CASE pc = "del token"
  BY <1>4
<1>5. CASE pc = "del key"
  BY <1>5
<1> QED BY <1>1, <1>2, <1>3, <1>4, <1>5 DEF Deleting

\* The calls in their order.
LEMMA NextCallType ==
  ASSUME NEW pc \in Creating \cup Deleting
  PROVE  /\ pc \in Creating => NextCall(pc) \in (Creating \ {"token"}) \cup {"write"}
         /\ pc \in Deleting => NextCall(pc) \in (Deleting \ {"del sensor"}) \cup {"write"}
         /\ NextCall(pc) = "write" <=> pc \in {"ingress", "del key"}
         /\ NextCall(pc) = "key" <=> pc = "token"
         /\ NextCall(pc) = "source" <=> pc = "key"
         /\ NextCall(pc) = "sensor" <=> pc = "source"
         /\ NextCall(pc) = "ingress" <=> pc = "sensor"
         /\ NextCall(pc) = "del source" <=> pc = "del sensor"
         /\ NextCall(pc) = "del ingress" <=> pc = "del source"
         /\ NextCall(pc) = "del token" <=> pc = "del ingress"
         /\ NextCall(pc) = "del key" <=> pc = "del token"
  BY DEF NextCall, Creating, Deleting

\* A call makes one thing more.
LEMMA MadeAfter ==
  ASSUME NEW r \in Repos, NEW p \in Pipe, NEW pc \in Creating, Made(p, r, pc)
  PROVE  Made(After(r, p, pc), r, NextCall(pc))
<1> DEFINE a == After(r, p, pc)
<1>1. /\ p.token \/ pc = "token" => a.token
      /\ p.key # 0 \/ pc = "key" => a.key # 0
      /\ p.source \/ pc = "source" => a.source
      /\ p.sensor = r \/ pc = "sensor" => a.sensor = r
  BY AfterCreating
<1> HIDE DEF a
<1>2. /\ pc # "token" => p.token
      /\ pc \notin {"token", "key"} => p.key # 0
      /\ pc \in {"sensor", "ingress"} => p.source
      /\ pc = "ingress" => p.sensor = r
  BY DEF Made, Creating
<1>3. /\ NextCall(pc) = "source" => pc = "key"
      /\ NextCall(pc) = "sensor" => pc = "source"
      /\ NextCall(pc) = "ingress" => pc = "sensor"
      /\ NextCall(pc) = "key" => pc = "token"
      /\ NextCall(pc) \in {"key", "source", "sensor", "ingress", "write"}
  BY DEF NextCall, Creating
<1>4. a.token
  BY <1>1, <1>2
<1>5. Made(a, r, NextCall(pc))
  BY <1>1, <1>2, <1>3, <1>4 DEF Made, Creating
<1> QED BY <1>5 DEF a

\* Making a part of a pipeline that is complete leaves it complete.
LEMMA CompleteAfter ==
  ASSUME NEW r \in Repos, NEW p \in Pipe, NEW pc \in Creating,
         p = [token |-> TRUE, key |-> p.key, source |-> TRUE, sensor |-> r,
              ingress |-> TRUE], p.key # 0
  PROVE  After(r, p, pc) = p
<1>1. CASE pc = "token"
  BY <1>1 DEF Pipe, After, TokenSecret
<1>2. CASE pc = "key"
  BY <1>2 DEF Pipe, After, WebhookSecret, KeyAfter
<1>3. CASE pc = "source"
  BY <1>3 DEF Pipe, After, EventSource
<1>4. CASE pc = "sensor"
  BY <1>4 DEF Pipe, After, Sensor
<1>5. CASE pc = "ingress"
  BY <1>5 DEF Pipe, After, Ingress
<1> QED BY <1>1, <1>2, <1>3, <1>4, <1>5 DEF Creating

\* The last call completes it.
LEMMA LastCall ==
  ASSUME NEW r \in Repos, NEW p \in Pipe, Made(p, r, "ingress")
  PROVE  /\ After(r, p, "ingress") =
              [token |-> TRUE, key |-> After(r, p, "ingress").key, source |-> TRUE,
               sensor |-> r, ingress |-> TRUE]
         /\ After(r, p, "ingress").key # 0
<1>1. p.token /\ p.key # 0 /\ p.source /\ p.sensor = r
  BY DEF Made, Creating
<1>2. After(r, p, "ingress") = [token |-> p.token, key |-> p.key, source |-> p.source,
                                sensor |-> p.sensor, ingress |-> TRUE]
  BY DEF Pipe, After, Ingress
<1>3. p.token = TRUE /\ p.source = TRUE
  BY <1>1 DEF Pipe
<1> QED BY <1>1, <1>2, <1>3

----------------------------------------------------------------------------
(* Steps *)

\* Only one GitRepository's spec, status and frame change.
Only(r) ==
  \A q \in Repos : q # r =>
     spec'[q] = spec[q] /\ status'[q] = status[q] /\ handler'[q] = handler[q]

\* Only the pipeline its handler works for changes.
OnlyItsPipe(r) == \A u \in Urls : u # handler[r].url => pipe'[u] = pipe[u]

LEMMA ShareType ==
  ASSUME PipelineInv, Share
  PROVE  shared' \subseteq Urls /\ shared \subseteq shared' /\ Contested' \subseteq shared'
  BY DEF PipelineInv, PipelineTypeOK, Share, Contested

\* The other GitRepositories do not notice: a repository they name, and which
\* the step changes, is one that two of them name.
LEMMA OthersKept ==
  ASSUME PipelineInv, PipelineTypeOK', Share, NEW r \in Repos, Only(r), OnlyItsPipe(r),
         left \subseteq left', ops <= ops', NEW q \in Repos, q # r
  PROVE  FrameInv(q)' /\ UrlInv(q)' /\ WiredInv(q)'
<1>1. /\ spec'[q] = spec[q] /\ status'[q] = status[q] /\ handler'[q] = handler[q]
      /\ FrameInv(q) /\ UrlInv(q) /\ WiredInv(q)
      /\ spec[q] \in Desired \cup {None} /\ handler[q] \in Frame
      /\ shared \subseteq shared' /\ Contested \subseteq shared
  BY ShareType DEF Only, PipelineInv, PipelineTypeOK
<1>2. FrameInv(q)'
  <2>1. Exists(q) => spec[q].gen <= ops' + 1
    <3>1. CASE Exists(q)
      <4>1. spec[q].gen \in Nat /\ spec[q].gen <= ops + 1 /\ ops \in Nat /\ ops' \in Nat
        BY <1>1, <3>1 DEF FrameInv, PipelineInv, PipelineTypeOK, Exists, Desired
      <4> QED BY <4>1
    <3> QED BY <3>1
  <2> QED BY <1>1, <2>1 DEF FrameInv, Exists
<1>3. UrlInv(q)'
  BY <1>1 DEF UrlInv, Exists
<1>4. \A u \in Urls : u \in Names(q) /\ u \notin shared => pipe'[u] = pipe[u]
  <2> SUFFICES ASSUME NEW u \in Urls, u \in Names(q), u \notin shared, u = handler[r].url
               PROVE  FALSE
    BY DEF OnlyItsPipe
  <2>1. u \in Names(r)
    BY DEF Names
  <2> QED BY <1>1, <2>1 DEF Contested
<1>5. Exists(q) /\ spec[q].url \notin shared /\ Wired(q) => Wired(q)'
  <2> SUFFICES ASSUME Exists(q), spec[q].url \notin shared
               PROVE  pipe'[spec[q].url] = pipe[spec[q].url]
    BY <1>1 DEF Wired
  <2>1. spec[q].url \in Urls /\ spec[q].url \in Names(q)
    BY <1>1 DEF Exists, Desired, Names
  <2> QED BY <1>4, <2>1
<1>6. \A out : Holds(q, out) => Holds(q, out)'
  BY <1>1, <1>5 DEF Holds, Exists
<1>7. ASSUME handler[q].url \in Urls \ shared'
      PROVE  Made(pipe'[handler[q].url], q, handler[q].pc)
  <2>1. handler[q].url \in Names(q)
    BY DEF Names
  <2>2. pipe'[handler[q].url] = pipe[handler[q].url]
    BY <1>1, <1>4, <1>7, <2>1
  <2> QED BY <1>1, <1>7, <2>2 DEF WiredInv
<1>8. WiredInv(q)'
  BY <1>1, <1>6, <1>7 DEF WiredInv
<1> QED BY <1>2, <1>3, <1>8

LEMMA Kept ==
  ASSUME PipelineInv, PipelineTypeOK', Share, NEW r \in Repos, Only(r), OnlyItsPipe(r),
         left \subseteq left', ops <= ops', FrameInv(r)', UrlInv(r)', WiredInv(r)',
         \A u \in Urls \ left' : Owned(u)'
  PROVE  PipelineInv'
<1>1. \A q \in Repos : FrameInv(q)' /\ UrlInv(q)' /\ WiredInv(q)'
  <2> TAKE q \in Repos
  <2>1. CASE q = r
    BY <2>1
  <2>2. CASE q # r
    BY <2>2, OthersKept
  <2> QED BY <2>1, <2>2
<1>2. Contested' \subseteq shared'
  BY ShareType
<1> QED BY <1>1, <1>2 DEF PipelineInv

\* What there is keeps its owner, if the step does not touch the pipelines.
LEMMA OwnedKept ==
  ASSUME PipelineInv, NEW r \in Repos, Only(r), pipe' = pipe, left \subseteq left',
         Exists(r) /\ spec[r].url \notin left' =>
            /\ Exists(r)' /\ spec'[r].url = spec[r].url
            /\ Deleted(handler'[r]) \subseteq Deleted(handler[r])
  PROVE  \A u \in Urls \ left' : Owned(u)'
<1> TAKE u \in Urls \ left'
<1> SUFFICES ASSUME NEW x \in Parts, Has(pipe[u], x)
             PROVE  \E q \in Repos : Exists(q)' /\ spec'[q].url = u /\ x \notin Deleted(handler'[q])
  BY DEF Owned
<1>1. PICK q \in Repos : Exists(q) /\ spec[q].url = u /\ x \notin Deleted(handler[q])
  BY DEF PipelineInv, Owned
<1>2. CASE q = r
  BY <1>1, <1>2
<1>3. CASE q # r
  BY <1>1, <1>3 DEF Only, Exists
<1> QED BY <1>2, <1>3

LEMMA Replaced ==
  ASSUME PipelineInv, NEW r \in Repos, NEW g \in Frame, handler' = [handler EXCEPT ![r] = g]
  PROVE  /\ handler' \in [Repos -> Frame] /\ handler'[r] = g
         /\ \A q \in Repos : q # r => handler'[q] = handler[q]
  BY DEF PipelineInv, PipelineTypeOK

LEMMA FrameFacts ==
  ASSUME PipelineInv, NEW r \in Repos
  PROVE  /\ FrameInv(r) /\ UrlInv(r) /\ WiredInv(r)
         /\ spec[r] \in Desired \cup {None} /\ status[r] \in Status /\ handler[r] \in Frame
         /\ None \notin Urls /\ None \notin Desired /\ ops \in Nat
         /\ Exists(r) => spec[r] \in Desired /\ spec[r].gen \in Nat
         /\ status[r].observed \in Nat /\ handler[r].out.observed \in Nat
  BY PipelineAssumption DEF PipelineInv, PipelineTypeOK, Exists, Desired, Status, Frame

LEMMA BeginKeeps ==
  ASSUME PipelineInv, NEW r \in Repos, Begin(r), Share
  PROVE  PipelineInv'
<1> DEFINE g == [pc |-> "check", final |-> FALSE, want |-> spec[r], url |-> spec[r].url,
                 out |-> status[r]]
<1>1. /\ spec[r] \in Desired /\ Exists(r) /\ ~spec[r].deleting /\ status[r] \in Status
      /\ spec[r].gen \in Nat /\ FrameInv(r) /\ UrlInv(r) /\ WiredInv(r)
  BY FrameFacts DEF Begin
<1>2. g \in Frame
  BY <1>1 DEF Frame, Desired
<1>3. /\ handler' = [handler EXCEPT ![r] = g] /\ due' = [due EXCEPT ![r] = FALSE]
      /\ UNCHANGED <<spec, status, secret, pipe, left, ops, faults>>
  BY DEF Begin
<1>4. /\ g.pc = "check" /\ g.final = FALSE /\ g.want = spec[r] /\ g.url = spec[r].url
      /\ g.out = status[r]
  OBVIOUS
<1> HIDE DEF g
<1>5. /\ handler' \in [Repos -> Frame] /\ handler'[r] = g
      /\ \A q \in Repos : q # r => handler'[q] = handler[q]
  BY <1>2, <1>3, Replaced
<1>6. PipelineTypeOK'
  BY <1>3, <1>5, ShareType DEF PipelineInv, PipelineTypeOK
<1>7. Only(r) /\ OnlyItsPipe(r)
  BY <1>3, <1>5 DEF Only, OnlyItsPipe
<1>8. FrameInv(r)'
  <2>1. Exists(r)' /\ spec'[r] = spec[r] /\ status'[r] = status[r] /\ ops' = ops
    BY <1>1, <1>3 DEF Exists
  <2>2. status[r].observed <= spec[r].gen /\ spec[r].gen <= ops + 1
    BY <1>1 DEF FrameInv
  <2>3. g.url \in Urls /\ ~g.final /\ g.pc \notin Creating \cup Deleting
    BY <1>1, <1>4 DEF Desired, Creating, Deleting
  <2> QED BY <1>1, <1>4, <1>5, <2>1, <2>2, <2>3 DEF FrameInv
<1>9. UrlInv(r)'
  BY <1>1, <1>3, <1>4, <1>5 DEF UrlInv, Exists
<1>10. WiredInv(r)'
  <2>1. shared \subseteq shared'
    BY ShareType
  <2> QED BY <1>1, <1>3, <1>4, <1>5, <2>1 DEF WiredInv, Holds, Wired, Exists, Made, Creating
<1>11. Deleted(handler'[r]) \subseteq Deleted(handler[r])
  BY <1>4, <1>5 DEF Deleted
<1>12. \A u \in Urls \ left' : Owned(u)'
  BY <1>1, <1>3, <1>7, <1>11, OwnedKept DEF Exists
<1>13. left \subseteq left' /\ ops <= ops'
  BY <1>3, FrameFacts
<1> QED BY <1>6, <1>7, <1>8, <1>9, <1>10, <1>12, <1>13, Kept

\* A handler that is not a finalizer goes on with what it was called for.
LEMMA SameJob ==
  ASSUME PipelineInv, Share, NEW r \in Repos, NEW g \in Frame,
         handler[r].pc # "idle", ~handler[r].final,
         handler' = [handler EXCEPT ![r] = g],
         UNCHANGED <<spec, status, secret, left, ops>>, faults' \in 0 .. MaxFaults,
         due' \in [Repos -> BOOLEAN], pipe' \in [Urls -> Pipe], OnlyItsPipe(r),
         handler[r].want.config = "on" /\ Wired(r) => Wired(r)',
         g.pc # "idle", ~g.final, g.want = handler[r].want, g.url = handler[r].url,
         g.pc \in Creating => handler[r].want.config = "on",
         g.pc \in Deleting => handler[r].want.config = "off",
         g.out.observed <= handler[r].want.gen,
         g.out.url \in {handler[r].out.url, handler[r].url},
         \/ g.out.ready => handler[r].out.ready /\ g.out.observed = handler[r].out.observed
         \/ Holds(r, g.out)',
         g.url \notin shared => Made(pipe'[g.url], r, g.pc)
  PROVE  PipelineInv'
<1> DEFINE f == handler[r]
<1>1. /\ FrameInv(r) /\ UrlInv(r) /\ WiredInv(r) /\ ops \in Nat
      /\ shared \subseteq shared'
  BY FrameFacts, ShareType
<1>2. Exists(r) /\ spec[r] \in Desired /\ spec[r].gen \in Nat
      /\ f.want \in Desired /\ f.want.gen \in Nat
  <2>1. Exists(r)
    BY <1>1 DEF FrameInv, Idle
  <2> QED BY <1>1, <2>1, FrameFacts, PipelineAssumption DEF FrameInv, Desired
<1>3. /\ handler' \in [Repos -> Frame] /\ handler'[r] = g
      /\ \A q \in Repos : q # r => handler'[q] = handler[q]
  BY Replaced
<1>4. PipelineTypeOK'
  BY <1>3, ShareType DEF PipelineInv, PipelineTypeOK
<1>5. Only(r)
  BY <1>3 DEF Only
<1>6. Exists(r)' /\ spec'[r] = spec[r] /\ status'[r] = status[r] /\ ops' = ops
  BY <1>2 DEF Exists
<1>7. FrameInv(r)'
  BY <1>1, <1>2, <1>3, <1>6 DEF FrameInv
<1>8. UrlInv(r)'
  BY <1>1, <1>2, <1>3, <1>6 DEF UrlInv
<1>9. ASSUME NEW out, out.observed <= f.want.gen, out.observed \in Nat, Holds(r, out)
      PROVE  Holds(r, out)'
  <2> SUFFICES ASSUME ~spec[r].deleting, spec[r].config = "on", spec[r].url \notin shared',
                      out.ready, out.observed = spec[r].gen
               PROVE  Wired(r)'
    BY <1>6 DEF Holds
  <2>1. Wired(r)
    BY <1>1, <1>2, <1>9 DEF Holds
  <2>2. f.want.gen = spec[r].gen
    BY <1>1, <1>2, <1>9 DEF FrameInv
  <2>3. f.want.config = "on"
    BY <1>1, <2>2 DEF FrameInv
  <2> QED BY <2>1, <2>3
<1>10. WiredInv(r)'
  <2>1. PICK st, out : st = status[r] /\ out = f.out
    OBVIOUS
  <2>2. Holds(r, st)' /\ Holds(r, out)'
    <3>1. /\ Holds(r, st) /\ Holds(r, out)
          /\ st.observed <= f.want.gen /\ out.observed <= f.want.gen
          /\ st.observed \in Nat /\ out.observed \in Nat
      BY <1>1, <2>1, FrameFacts DEF WiredInv, FrameInv
    <3> QED BY <1>9, <3>1
  <2>3. Holds(r, g.out)'
    <3>1. CASE g.out.ready => f.out.ready /\ g.out.observed = f.out.observed
      BY <2>1, <2>2, <3>1 DEF Holds
    <3> QED BY <3>1
  <2>4. g.url \in Urls \ shared' => Made(pipe'[g.url], r, g.pc)
    BY <1>1
  <2>5. st = status'[r]
    BY <1>6, <2>1
  <2> QED BY <1>3, <2>2, <2>3, <2>4, <2>5 DEF WiredInv
<1>11. ASSUME NEW u \in Urls \ left'
       PROVE  Owned(u)'
  <2> SUFFICES ASSUME NEW x \in Parts, Has(pipe'[u], x)
               PROVE  \E q \in Repos : Exists(q)' /\ spec'[q].url = u /\ x \notin Deleted(handler'[q])
    BY DEF Owned
  <2>1. x \notin Deleted(handler'[r])
    BY <1>3 DEF Deleted
  <2>2. CASE u = f.url
    <3>1. spec[r].url = u
      BY <1>1, <1>2, <2>2, PipelineAssumption DEF UrlInv
    <3> QED BY <1>6, <2>1, <3>1
  <2>3. CASE u # f.url
    <3>1. Has(pipe[u], x)
      BY <2>3 DEF OnlyItsPipe
    <3>2. PICK q \in Repos : Exists(q) /\ spec[q].url = u /\ x \notin Deleted(handler[q])
      BY <3>1 DEF PipelineInv, Owned
    <3>3. CASE q = r
      BY <1>6, <2>1, <3>2, <3>3
    <3>4. CASE q # r
      BY <1>3, <3>2, <3>4 DEF Exists
    <3> QED BY <3>3, <3>4
  <2> QED BY <2>2, <2>3
<1>12. left \subseteq left' /\ ops <= ops'
  BY <1>1
<1> QED BY <1>4, <1>5, <1>7, <1>8, <1>10, <1>11, <1>12, Kept

LEMMA NotReadyType ==
  ASSUME NEW f \in Frame, NEW out \in Status, f.want \in Desired
  PROVE  /\ NotReady(f, out) \in Status /\ Failed(f, out) \in Frame
         /\ NotReady(f, out).ready = FALSE /\ NotReady(f, out).observed = f.want.gen
         /\ NotReady(f, out).url = out.url
         /\ Failed(f, out).pc = "write" /\ Failed(f, out).final = f.final
         /\ Failed(f, out).want = f.want /\ Failed(f, out).url = f.url
         /\ Failed(f, out).out = NotReady(f, out)
<1>1. f.want.gen \in 0 .. MaxOps + 1
  BY PipelineAssumption DEF Desired
<1>2. /\ NotReady(f, out) \in Status
      /\ NotReady(f, out).ready = FALSE /\ NotReady(f, out).observed = f.want.gen
      /\ NotReady(f, out).url = out.url
  BY <1>1 DEF NotReady, Status
<1>3. \A s \in Status : [f EXCEPT !.pc = "write", !.out = s] \in Frame
  BY DEF Frame
<1> QED BY <1>2, <1>3 DEF Failed, Frame

\* The frame after a failure.
LEMMA FailedFrame ==
  ASSUME NEW f \in Frame, NEW out \in Status, f.want \in Desired, NEW g, g = Failed(f, out)
  PROVE  /\ g \in Frame /\ g.pc = "write" /\ g.final = f.final
         /\ g.want = f.want /\ g.url = f.url
         /\ g.out.observed = f.want.gen /\ g.out.url = out.url /\ ~g.out.ready
<1>1. /\ NotReady(f, out).ready = FALSE /\ NotReady(f, out).observed = f.want.gen
      /\ NotReady(f, out).url = out.url
  BY NotReadyType
<1>2. /\ g \in Frame /\ g.pc = "write" /\ g.final = f.final
      /\ g.want = f.want /\ g.url = f.url /\ g.out = NotReady(f, out)
  BY NotReadyType
<1> QED BY <1>1, <1>2

LEMMA CheckKeeps ==
  ASSUME PipelineInv, NEW r \in Repos, Check(r), Share
  PROVE  PipelineInv'
<1>1. PICK f \in Frame : f = handler[r] /\ f.pc = "check" /\ f.out \in Status
  BY FrameFacts DEF Check, Frame
<1>2. PICK out : out = [f.out EXCEPT !.url = f.url]
  OBVIOUS
<1>3. ~f.final /\ f.want \in Desired /\ f.url = f.want.url /\ f.url \in Urls
      /\ f.out.observed <= f.want.gen /\ f.want.gen \in Nat
  <2>1. ~f.final
    BY <1>1, FrameFacts DEF FrameInv, Deleting
  <2> QED BY <1>1, <2>1, FrameFacts, PipelineAssumption DEF FrameInv, Desired
<1>4. /\ out \in Status /\ out.url = f.url /\ out.ready = f.out.ready
      /\ out.observed = f.out.observed
  BY <1>1, <1>2, <1>3 DEF Status
<1>5. PICK g : /\ handler' = [handler EXCEPT ![r] = g]
               /\ g = IF ~secret[r] THEN Failed(f, f.out)
                      ELSE IF f.want.config = "incomplete" THEN Failed(f, out)
                      ELSE [f EXCEPT !.out = out,
                                 !.pc = IF f.want.config = "on" THEN "token" ELSE "del sensor"]
  BY <1>1, <1>2 DEF Check
<1>6. /\ UNCHANGED <<spec, status, secret, pipe, left, ops, faults>>
      /\ due' = [due EXCEPT ![r] =
            @ \/ CalledAgain(~secret[r] \/ f.want.config = "incomplete")]
  BY <1>1 DEF Check
<1>7. /\ due' \in [Repos -> BOOLEAN] /\ pipe' \in [Urls -> Pipe] /\ OnlyItsPipe(r)
      /\ faults' \in 0 .. MaxFaults
      /\ UNCHANGED <<spec, status, secret, left, ops>> /\ (Wired(r) => Wired(r)')
  <2>1. /\ due \in [Repos -> BOOLEAN] /\ pipe' \in [Urls -> Pipe] /\ faults' \in 0 .. MaxFaults
    BY <1>6 DEF PipelineInv, PipelineTypeOK
  <2>2. due' \in [Repos -> BOOLEAN]
    BY <1>6, <2>1, Zenon
  <2> QED BY <1>6, <2>1, <2>2 DEF OnlyItsPipe, Wired
<1>8. /\ g \in Frame /\ g.pc # "idle" /\ ~g.final /\ g.want = f.want /\ g.url = f.url
      /\ (g.pc \in Creating => f.want.config = "on" /\ g.pc = "token")
      /\ (g.pc \in Deleting => f.want.config = "off")
      /\ g.out.observed <= f.want.gen
      /\ g.out.url \in {f.out.url, f.url}
      /\ (g.out.ready => f.out.ready /\ g.out.observed = f.out.observed)
  <2>1. CASE ~secret[r]
    <3>1. PICK o \in Status : o = f.out /\ g = Failed(f, o)
      BY <1>1, <1>5, <2>1
    <3>2. /\ g \in Frame /\ g.pc = "write" /\ g.final = f.final
          /\ g.want = f.want /\ g.url = f.url
          /\ g.out.observed = f.want.gen /\ g.out.url = o.url /\ ~g.out.ready
      BY <1>3, <3>1, FailedFrame
    <3> QED BY <1>1, <1>3, <3>1, <3>2 DEF Creating, Deleting
  <2>2. CASE secret[r] /\ f.want.config = "incomplete"
    <3>1. g = Failed(f, out)
      BY <1>5, <2>2
    <3>2. /\ g \in Frame /\ g.pc = "write" /\ g.final = f.final
          /\ g.want = f.want /\ g.url = f.url
          /\ g.out.observed = f.want.gen /\ g.out.url = out.url /\ ~g.out.ready
      BY <1>3, <1>4, <3>1, FailedFrame
    <3> QED BY <1>1, <1>3, <1>4, <3>1, <3>2 DEF Creating, Deleting
  <2>3. CASE secret[r] /\ f.want.config # "incomplete"
    <3>1. PICK pc : pc = IF f.want.config = "on" THEN "token" ELSE "del sensor"
      OBVIOUS
    <3>2. g = [f EXCEPT !.out = out, !.pc = pc]
      BY <1>5, <2>3, <3>1
    <3>3. \/ pc = "token" /\ f.want.config = "on"
          \/ pc = "del sensor" /\ f.want.config = "off"
      BY <1>3, <2>3, <3>1 DEF Desired, Configs
    <3>4. g \in Frame /\ g.pc = pc /\ g.out = out /\ g.final = f.final /\ g.want = f.want
          /\ g.url = f.url
      BY <1>4, <3>2, <3>3 DEF Frame, Creating, Deleting
    <3> QED BY <1>3, <1>4, <3>3, <3>4 DEF Creating, Deleting
  <2> QED BY <2>1, <2>2, <2>3
<1>9. Made(pipe'[g.url], r, g.pc)
  BY <1>8 DEF Made, Creating
<1> QED BY <1>1, <1>3, <1>5, <1>7, <1>8, <1>9, SameJob

LEMMA TokenGoneKeeps ==
  ASSUME PipelineInv, NEW r \in Repos, TokenGone(r), Share
  PROVE  PipelineInv'
<1>1. PICK f \in Frame : f = handler[r] /\ f.pc = "token" /\ f.out \in Status
  BY FrameFacts DEF TokenGone, Frame
<1>2. ~f.final /\ f.want \in Desired /\ f.out.observed <= f.want.gen /\ f.want.gen \in Nat
  <2>1. ~f.final
    BY <1>1, FrameFacts DEF FrameInv, Deleting
  <2> QED BY <1>1, <2>1, FrameFacts, PipelineAssumption DEF FrameInv, Desired
<1>3. PICK g, o : o = f.out /\ g = Failed(f, o)
  OBVIOUS
<1>4. /\ handler' = [handler EXCEPT ![r] = g]
      /\ UNCHANGED <<spec, status, secret, pipe, left, ops, faults>>
      /\ due' = [due EXCEPT ![r] = @ \/ CalledAgain(TRUE)]
  BY <1>1, <1>3 DEF TokenGone
<1>5. /\ due' \in [Repos -> BOOLEAN] /\ pipe' \in [Urls -> Pipe] /\ OnlyItsPipe(r)
      /\ faults' \in 0 .. MaxFaults
      /\ UNCHANGED <<spec, status, secret, left, ops>> /\ (Wired(r) => Wired(r)')
  <2>1. /\ due \in [Repos -> BOOLEAN] /\ pipe' \in [Urls -> Pipe] /\ faults' \in 0 .. MaxFaults
    BY <1>4 DEF PipelineInv, PipelineTypeOK
  <2>2. due' \in [Repos -> BOOLEAN]
    BY <1>4, <2>1, Zenon
  <2> QED BY <1>4, <2>1, <2>2 DEF OnlyItsPipe, Wired
<1>6. /\ g \in Frame /\ g.pc = "write" /\ ~g.final /\ g.want = f.want /\ g.url = f.url
      /\ g.out.observed <= f.want.gen /\ g.out.url = f.out.url /\ ~g.out.ready
  <2>1. /\ g \in Frame /\ g.pc = "write" /\ g.final = f.final
        /\ g.want = f.want /\ g.url = f.url
        /\ g.out.observed = f.want.gen /\ g.out.url = o.url /\ ~g.out.ready
    BY <1>1, <1>2, <1>3, FailedFrame
  <2> QED BY <1>2, <1>3, <2>1
<1>7. Made(pipe'[g.url], r, g.pc)
  BY <1>6 DEF Made, Creating
<1> QED BY <1>1, <1>2, <1>4, <1>5, <1>6, <1>7, SameJob DEF Creating, Deleting

LEMMA IdleType == Idle \in Frame /\ NoStatus \in Status
  BY PipelineAssumption DEF Idle, Frame, NoStatus, Status

LEMMA WritePatchKeeps ==
  ASSUME PipelineInv, NEW r \in Repos, WritePatch(r), Share
  PROVE  PipelineInv'
<1>1. PICK f \in Frame, out \in Status : f = handler[r] /\ f.pc = "write" /\ out = f.out
  BY FrameFacts DEF WritePatch, Frame
<1>2. /\ ~f.final /\ FrameInv(r) /\ UrlInv(r) /\ WiredInv(r) /\ Exists(r)
      /\ out.observed <= f.want.gen /\ f.want.gen <= spec[r].gen /\ spec[r].gen <= ops + 1
      /\ f.want.gen \in Nat /\ spec[r].gen \in Nat /\ out.observed \in Nat
  <2>1. ~f.final
    BY <1>1, FrameFacts DEF FrameInv, Deleting
  <2>2. Exists(r)
    BY <1>1, FrameFacts DEF FrameInv, Idle
  <2> QED BY <1>1, <2>1, <2>2, FrameFacts, PipelineAssumption DEF FrameInv, Desired
<1>3. /\ status' = [status EXCEPT ![r] = out] /\ handler' = [handler EXCEPT ![r] = Idle]
      /\ UNCHANGED <<spec, secret, due, pipe, left, ops, faults>>
  BY <1>1 DEF WritePatch
<1>4. /\ handler' \in [Repos -> Frame] /\ handler'[r] = Idle
      /\ \A q \in Repos : q # r => handler'[q] = handler[q]
  BY <1>3, Replaced, IdleType
<1>5. /\ status' \in [Repos -> Status] /\ status'[r] = out
      /\ \A q \in Repos : q # r => status'[q] = status[q]
  BY <1>3 DEF PipelineInv, PipelineTypeOK
<1>6. PipelineTypeOK'
  BY <1>3, <1>4, <1>5, ShareType DEF PipelineInv, PipelineTypeOK
<1>7. Only(r) /\ OnlyItsPipe(r)
  BY <1>3, <1>4, <1>5 DEF Only, OnlyItsPipe
<1>8. Idle.pc = "idle" /\ Idle.final = FALSE /\ Idle.url = None /\ Idle.out.url = None
  BY DEF Idle, NoStatus
<1>9. FrameInv(r)'
  BY <1>2, <1>3, <1>4, <1>5, <1>8 DEF FrameInv, Exists
<1>10. UrlInv(r)'
  BY <1>1, <1>2, <1>3, <1>4, <1>5, <1>8 DEF UrlInv, Exists
<1>11. WiredInv(r)'
  <2>1. Holds(r, out)
    BY <1>1, <1>2 DEF WiredInv
  <2>2. Holds(r, out)'
    BY <1>3, <2>1, ShareType DEF Holds, Exists, Wired
  <2> QED BY <1>4, <1>5, <1>8, <2>2, FrameFacts DEF WiredInv
<1>12. \A u \in Urls \ left' : Owned(u)'
  BY <1>2, <1>3, <1>4, <1>7, <1>8, OwnedKept DEF Exists, Deleted
<1>13. left \subseteq left' /\ ops <= ops'
  BY <1>3, FrameFacts
<1> QED BY <1>6, <1>7, <1>9, <1>10, <1>11, <1>12, <1>13, Kept

LEMMA FinalizeKeeps ==
  ASSUME PipelineInv, NEW r \in Repos, Finalize(r), Share
  PROVE  PipelineInv'
<1> DEFINE g == [pc |-> "del sensor", final |-> TRUE, want |-> spec[r], url |-> NamedUrl(r),
                 out |-> status[r]]
<1>1. /\ spec[r] \in Desired /\ Exists(r) /\ spec[r].deleting /\ status[r] \in Status
      /\ spec[r].gen \in Nat /\ FrameInv(r) /\ UrlInv(r) /\ WiredInv(r)
  BY FrameFacts DEF Finalize
<1>2. NamedUrl(r) \in Urls /\ NamedUrl(r) \in {status[r].url, spec[r].url}
  BY <1>1 DEF NamedUrl, Desired, Status
<1>3. g \in Frame
  BY <1>1, <1>2 DEF Frame, Deleting
<1>4. /\ handler' = [handler EXCEPT ![r] = g]
      /\ UNCHANGED <<spec, status, secret, due, pipe, left, ops, faults>>
  BY DEF Finalize
<1>5. /\ g.pc = "del sensor" /\ g.final = TRUE /\ g.url \in Urls
      /\ g.url \in {status[r].url, spec[r].url} /\ g.out = status[r]
  BY <1>2
<1> HIDE DEF g
<1>6. /\ handler' \in [Repos -> Frame] /\ handler'[r] = g
      /\ \A q \in Repos : q # r => handler'[q] = handler[q]
  BY <1>3, <1>4, Replaced
<1>7. PipelineTypeOK'
  BY <1>4, <1>6, ShareType DEF PipelineInv, PipelineTypeOK
<1>8. Only(r) /\ OnlyItsPipe(r)
  BY <1>4, <1>6 DEF Only, OnlyItsPipe
<1>9. FrameInv(r)'
  <2>1. Exists(r)' /\ spec'[r] = spec[r] /\ status'[r] = status[r] /\ ops' = ops
    BY <1>1, <1>4 DEF Exists
  <2>2. status[r].observed <= spec[r].gen /\ spec[r].gen <= ops + 1
    BY <1>1 DEF FrameInv
  <2> QED BY <1>1, <1>5, <1>6, <2>1, <2>2 DEF FrameInv, Deleting
<1>10. UrlInv(r)'
  BY <1>1, <1>4, <1>5, <1>6 DEF UrlInv, Exists
<1>11. WiredInv(r)'
  <2>1. Made(pipe'[g.url], r, g.pc)
    BY <1>5 DEF Made, Creating
  <2> QED BY <1>1, <1>4, <1>5, <1>6, <2>1 DEF WiredInv, Holds, Exists
<1>12. \A u \in Urls \ left' : Owned(u)'
  BY <1>1, <1>4, <1>5, <1>6, <1>8, OwnedKept DEF Exists, Deleted
<1>13. left \subseteq left' /\ ops <= ops'
  BY <1>4, FrameFacts
<1> QED BY <1>7, <1>8, <1>9, <1>10, <1>11, <1>12, <1>13, Kept

----------------------------------------------------------------------------
(* Calls *)

\* What a call of r, answered or not, makes of the pipelines.
LEMMA CallPipe ==
  ASSUME PipelineInv, NEW r \in Repos, handler[r].pc \in Creating \cup Deleting,
         pipe' \in {pipe, [pipe EXCEPT ![handler[r].url] = After(r, @, handler[r].pc)]}
  PROVE  /\ pipe' \in [Urls -> Pipe] /\ OnlyItsPipe(r)
         /\ handler[r].url \in Urls /\ pipe[handler[r].url] \in Pipe
         /\ pipe'[handler[r].url] \in
              {pipe[handler[r].url], After(r, pipe[handler[r].url], handler[r].pc)}
<1>1. PICK f \in Frame : f = handler[r]
  BY FrameFacts
<1>2. f.pc \in Creating \cup Deleting /\ f.url \in Urls /\ pipe \in [Urls -> Pipe]
  BY <1>1, FrameFacts DEF FrameInv, PipelineInv, PipelineTypeOK, Creating, Deleting
<1>3. PICK pc, a : pc = f.pc /\ a = After(r, pipe[f.url], pc)
  OBVIOUS
<1>4. a \in Pipe
  BY <1>2, <1>3, AfterType
<1>5. pipe' \in {pipe, [pipe EXCEPT ![f.url] = a]}
  BY <1>1, <1>3
<1> QED BY <1>1, <1>2, <1>3, <1>4, <1>5 DEF OnlyItsPipe

\* A call that creates does not take apart what is complete.
LEMMA CreatingKeepsWired ==
  ASSUME PipelineInv, NEW r \in Repos, handler[r].pc \in Creating, spec' = spec, Exists(r),
         pipe' \in {pipe, [pipe EXCEPT ![handler[r].url] = After(r, @, handler[r].pc)]},
         Wired(r)
  PROVE  Wired(r)'
<1>1. PICK f, pc, p : f = handler[r] /\ pc = f.pc /\ p = pipe[spec[r].url]
  OBVIOUS
<1>2. /\ p \in Pipe /\ p.key # 0
      /\ p = [token |-> TRUE, key |-> p.key, source |-> TRUE, sensor |-> r, ingress |-> TRUE]
  BY <1>1, FrameFacts DEF Wired, PipelineInv, PipelineTypeOK, Desired
<1>3. After(r, p, pc) = p
  BY <1>1, <1>2, CompleteAfter
<1>4. pipe'[spec[r].url] = p
  <2>1. CASE f.url = spec[r].url
    BY <1>1, <1>3, <2>1, CallPipe
  <2>2. CASE f.url # spec[r].url
    BY <1>1, <2>2, CallPipe, FrameFacts DEF OnlyItsPipe, Desired
  <2> QED BY <2>1, <2>2
<1> QED BY <1>1, <1>2, <1>4 DEF Wired

LEMMA DoneType ==
  ASSUME NEW f \in Frame, f.want \in Desired
  PROVE  /\ Done(f) \in Status /\ Done(f).ready = TRUE /\ Done(f).observed = f.want.gen
         /\ Done(f).url = f.out.url
<1>1. /\ f.want.gen \in 0 .. MaxOps + 1 /\ f.out \in Status /\ f.url \in Urls \cup {None}
  BY PipelineAssumption DEF Desired, Frame
<1>2. PICK s : s = IF f.want.config = "on" THEN f.url ELSE None
  OBVIOUS
<1>3. s \in Urls \cup {None}
  BY <1>1, <1>2
<1>4. Done(f) = [f.out EXCEPT !.source = s, !.ready = TRUE, !.observed = f.want.gen]
  BY <1>2 DEF Done
<1> QED BY <1>1, <1>3, <1>4 DEF Status

\* A handler that is not a finalizer works for a GitRepository that is there.
LEMMA WorkingFacts ==
  ASSUME PipelineInv, NEW r \in Repos, handler[r].pc # "idle", ~handler[r].final
  PROVE  /\ Exists(r) /\ handler[r].want \in Desired /\ handler[r].want.gen \in Nat
         /\ handler[r].url = handler[r].want.url /\ handler[r].url \in Urls
         /\ handler[r].out.observed <= handler[r].want.gen
         /\ handler[r].pc \in Creating => handler[r].want.config = "on"
         /\ handler[r].pc \in Deleting => handler[r].want.config = "off"
         /\ handler[r].url \notin shared => Made(pipe[handler[r].url], r, handler[r].pc)
<1>1. Exists(r)
  BY FrameFacts DEF FrameInv, Idle
<1> QED BY <1>1, FrameFacts, PipelineAssumption DEF FrameInv, WiredInv, Desired

\* A call of a handler that is not a finalizer.
LEMMA WorkingCallKeeps ==
  ASSUME PipelineInv, NEW r \in Repos, Call(r), ~handler[r].final, Share
  PROVE  PipelineInv'
<1>1. PICK f \in Frame, pc \in Creating \cup Deleting : f = handler[r] /\ pc = f.pc
  BY FrameFacts DEF Call
<1>2. /\ f.pc # "idle" /\ Exists(r) /\ f.want \in Desired /\ f.want.gen \in Nat
      /\ f.url = f.want.url /\ f.url \in Urls /\ f.out.observed <= f.want.gen
      /\ pc \in Creating => f.want.config = "on"
      /\ pc \in Deleting => f.want.config = "off"
      /\ f.url \notin shared => Made(pipe[f.url], r, pc)
  <2>1. f.pc # "idle"
    BY <1>1 DEF Creating, Deleting
  <2> QED BY <1>1, <2>1, WorkingFacts
<1>3. PICK next : next = NextCall(pc)
  OBVIOUS
<1>4. /\ pc \in Creating => next \in (Creating \ {"token"}) \cup {"write"}
      /\ pc \in Deleting => next \in (Deleting \ {"del sensor"}) \cup {"write"}
      /\ next = "write" <=> pc \in {"ingress", "del key"}
  BY <1>1, <1>3, NextCallType
<1>5. PICK g : /\ handler' = [handler EXCEPT ![r] = g]
               /\ g = IF next # "write" THEN [f EXCEPT !.pc = next]
                      ELSE [f EXCEPT !.pc = "write", !.out = Done(f)]
  <2>1. CASE next # "write"
    <3>1. handler' = [handler EXCEPT ![r].pc = next]
      BY <1>1, <1>3, <2>1 DEF Call, Advance
    <3> QED BY <1>1, <2>1, <3>1
  <2>2. CASE next = "write"
    <3>1. handler' = [handler EXCEPT ![r].pc = "write", ![r].out = Done(f)]
      BY <1>1, <1>3, <2>2 DEF Call, Advance
    <3>2. handler' = [handler EXCEPT ![r] = [f EXCEPT !.pc = "write", !.out = Done(f)]]
      BY <1>1, <3>1, FrameFacts DEF PipelineInv, PipelineTypeOK, Frame
    <3> QED BY <1>1, <2>2, <3>2
  <2> QED BY <2>1, <2>2
<1>6. /\ UNCHANGED <<spec, status, secret, due, left, ops, faults>>
      /\ pipe' = [pipe EXCEPT ![f.url] = After(r, @, pc)]
  BY <1>1 DEF Call, Advance
<1>7. /\ pipe' \in [Urls -> Pipe] /\ OnlyItsPipe(r)
      /\ pipe[f.url] \in Pipe /\ pipe'[f.url] = After(r, pipe[f.url], pc)
  BY <1>1, <1>2, <1>6, CallPipe DEF PipelineInv, PipelineTypeOK
<1>8. f.want.config = "on" /\ Wired(r) => Wired(r)'
  <2>1. ASSUME f.want.config = "on" PROVE pc \in Creating
    BY <1>1, <1>2, <2>1
  <2> QED BY <1>1, <1>2, <1>6, <2>1, CreatingKeepsWired
<1>9. /\ g \in Frame /\ g.pc = next /\ g.final = f.final /\ g.want = f.want /\ g.url = f.url
      /\ (next # "write" => g.out = f.out) /\ (next = "write" => g.out = Done(f))
  <2>1. CASE next # "write"
    BY <1>4, <1>1, <1>5, <2>1 DEF Frame
  <2>2. CASE next = "write"
    <3>1. PICK d \in Status : d = Done(f)
      BY <1>2, DoneType
    <3>2. g = [f EXCEPT !.pc = "write", !.out = d]
      BY <1>5, <2>2, <3>1
    <3> QED BY <2>2, <3>1, <3>2 DEF Frame
  <2> QED BY <2>1, <2>2
<1>10. g.url \notin shared => Made(pipe'[g.url], r, next)
  <2>1. CASE pc \in Creating
    <3> SUFFICES ASSUME f.url \notin shared
                 PROVE  Made(After(r, pipe[f.url], pc), r, NextCall(pc))
      BY <1>3, <1>7, <1>9
    <3>1. PICK p \in Pipe : p = pipe[f.url]
      BY <1>7
    <3>2. Made(p, r, pc)
      BY <1>2, <3>1
    <3> QED BY <2>1, <3>1, <3>2, MadeAfter
  <2>2. CASE pc \in Deleting
    BY <1>4, <2>2 DEF Made, Creating, Deleting
  <2> QED BY <1>1, <2>1, <2>2
<1>11. \/ g.out.ready => f.out.ready /\ g.out.observed = f.out.observed
       \/ Holds(r, g.out)'
  <2>1. CASE next # "write"
    BY <1>9, <2>1
  <2>2. CASE next = "write"
    <3> SUFFICES ASSUME ~spec[r].deleting, spec[r].config = "on", spec[r].url \notin shared',
                        g.out.observed = spec[r].gen
                 PROVE  Wired(r)'
      BY <1>6 DEF Holds, Exists
    <3>1. f.want.gen = spec[r].gen
      BY <1>2, <1>9, <2>2, DoneType
    <3>2. f.want.config = "on" /\ f.url = spec[r].url
      BY <1>1, <1>2, <3>1, FrameFacts DEF FrameInv
    <3>3. pc = "ingress"
      BY <1>1, <1>2, <1>4, <2>2, <3>2 DEF Deleting
    <3>4. f.url \notin shared
      BY <3>2, ShareType
    <3>5. PICK p \in Pipe : p = pipe[f.url]
      BY <1>7
    <3>6. Made(p, r, "ingress")
      BY <1>2, <3>3, <3>4, <3>5
    <3>7. /\ After(r, p, "ingress") =
               [token |-> TRUE, key |-> After(r, p, "ingress").key, source |-> TRUE,
                sensor |-> r, ingress |-> TRUE]
          /\ After(r, p, "ingress").key # 0
      BY <3>6, LastCall
    <3>8. pipe'[spec[r].url] = After(r, p, "ingress")
      BY <1>7, <3>2, <3>3, <3>5
    <3>9. spec'[r].url = spec[r].url
      BY <1>6
    <3> QED BY <3>7, <3>8, <3>9 DEF Wired
  <2> QED BY <2>1, <2>2
<1>12. g.out.observed <= f.want.gen /\ g.out.url = f.out.url
  <2>1. CASE next # "write"
    BY <1>2, <1>9, <2>1
  <2>2. CASE next = "write"
    <3>1. Done(f).observed = f.want.gen /\ Done(f).url = f.out.url
      BY <1>2, DoneType
    <3> QED BY <1>2, <1>9, <2>2, <3>1
  <2> QED BY <2>1, <2>2
<1>13. /\ due' \in [Repos -> BOOLEAN] /\ faults' \in 0 .. MaxFaults
  BY <1>6 DEF PipelineInv, PipelineTypeOK
<1>14. /\ g.pc # "idle" /\ ~g.final
       /\ g.pc \in Creating => f.want.config = "on"
       /\ g.pc \in Deleting => f.want.config = "off"
  BY <1>1, <1>2, <1>4, <1>9 DEF Creating, Deleting
<1> QED BY <1>1, <1>2, <1>5, <1>6, <1>7, <1>8, <1>9, <1>10, <1>11, <1>12, <1>13, <1>14, SameJob

\* A call of it that fails.
LEMMA WorkingFailureKeeps ==
  ASSUME PipelineInv, NEW r \in Repos, CallFails(r), ~handler[r].final, Share
  PROVE  PipelineInv'
<1>1. PICK f \in Frame, pc \in Creating \cup Deleting : f = handler[r] /\ pc = f.pc
  BY FrameFacts DEF CallFails, FailedCall
<1>2. /\ f.pc # "idle" /\ ~f.final /\ Exists(r) /\ f.want \in Desired /\ f.want.gen \in Nat
      /\ f.url \in Urls /\ f.out.observed <= f.want.gen
      /\ pc \in Creating => f.want.config = "on"
      /\ pc \in Deleting => f.want.config = "off"
  <2>1. f.pc # "idle"
    BY <1>1 DEF Creating, Deleting
  <2> QED BY <1>1, <2>1, WorkingFacts
<1>3. PICK g : /\ handler' = [handler EXCEPT ![r] = g]
               /\ g = IF pc \in Creating THEN Failed(f, f.out) ELSE [f EXCEPT !.pc = "write"]
  BY <1>1, <1>2 DEF CallFails, FailedCall
<1>4. /\ UNCHANGED <<spec, status, secret, left, ops>>
      /\ pipe' \in {pipe, [pipe EXCEPT ![f.url] = After(r, @, pc)]}
      /\ due' = [due EXCEPT ![r] = @ \/ CalledAgain(~f.final)]
      /\ faults < MaxFaults /\ faults' = faults + 1
  BY <1>1, <1>2 DEF CallFails, FailedCall
<1>5. pipe' \in [Urls -> Pipe] /\ OnlyItsPipe(r)
  BY <1>1, <1>4, CallPipe
<1>6. f.want.config = "on" /\ Wired(r) => Wired(r)'
  <2>1. ASSUME f.want.config = "on" PROVE pc \in Creating
    BY <1>1, <1>2, <2>1
  <2> QED BY <1>1, <1>2, <1>4, <2>1, CreatingKeepsWired
<1>7. /\ g \in Frame /\ g.pc = "write" /\ ~g.final /\ g.want = f.want /\ g.url = f.url
      /\ g.out.observed <= f.want.gen /\ g.out.url = f.out.url
      /\ (g.out.ready => f.out.ready /\ g.out.observed = f.out.observed)
  <2>1. CASE pc \in Creating
    <3>1. PICK o \in Status : o = f.out /\ g = Failed(f, o)
      BY <1>3, <2>1 DEF Frame
    <3>2. /\ g \in Frame /\ g.pc = "write" /\ g.final = f.final
          /\ g.want = f.want /\ g.url = f.url
          /\ g.out.observed = f.want.gen /\ g.out.url = o.url /\ ~g.out.ready
      BY <1>2, <3>1, FailedFrame
    <3> QED BY <1>2, <3>1, <3>2
  <2>2. CASE pc \notin Creating
    <3>1. g = [f EXCEPT !.pc = "write"]
      BY <1>3, <2>2
    <3>2. /\ g \in Frame /\ g.pc = "write" /\ g.final = f.final /\ g.want = f.want
          /\ g.url = f.url /\ g.out = f.out
      BY <3>1 DEF Frame
    <3> QED BY <1>2, <3>2
  <2> QED BY <2>1, <2>2
<1>8. /\ due' \in [Repos -> BOOLEAN] /\ faults' \in 0 .. MaxFaults
  <2>1. due \in [Repos -> BOOLEAN] /\ faults \in 0 .. MaxFaults
    BY DEF PipelineInv, PipelineTypeOK
  <2>2. due' \in [Repos -> BOOLEAN]
    BY <1>4, <2>1, Zenon
  <2> QED BY <1>4, <2>1, <2>2, PipelineAssumption
<1>9. /\ g.pc # "idle" /\ g.pc \notin Creating \cup Deleting
      /\ Made(pipe'[g.url], r, g.pc)
  BY <1>7 DEF Made, Creating, Deleting
<1> QED BY <1>1, <1>2, <1>3, <1>4, <1>5, <1>6, <1>7, <1>8, <1>9, SameJob

----------------------------------------------------------------------------
(* Finalizers *)

LEMMA FinalFacts ==
  ASSUME PipelineInv, NEW r \in Repos, handler[r].pc \in Creating \cup Deleting,
         handler[r].final
  PROVE  /\ Exists(r) /\ spec[r].deleting /\ handler[r].pc \in Deleting
         /\ handler[r].url \in Urls
<1>1. handler[r].pc # "idle"
  BY DEF Creating, Deleting
<1>2. Exists(r)
  BY <1>1, FrameFacts DEF FrameInv, Idle
<1> QED BY <1>1, <1>2, FrameFacts DEF FrameInv

\* What a finalizer has not come to yet has its owner, in it or in another
\* GitRepository.
LEMMA StillOwned ==
  ASSUME PipelineInv, NEW r \in Repos, Only(r), left \subseteq left',
         NEW u \in Urls \ left', NEW x \in Parts, Has(pipe[u], x),
         Exists(r) /\ spec[r].url = u /\ x \notin Deleted(handler[r]) =>
            Exists(r)' /\ spec'[r].url = u /\ x \notin Deleted(handler'[r])
  PROVE  \E q \in Repos : Exists(q)' /\ spec'[q].url = u /\ x \notin Deleted(handler'[q])
<1>1. PICK q \in Repos : Exists(q) /\ spec[q].url = u /\ x \notin Deleted(handler[q])
  BY DEF PipelineInv, Owned
<1>2. CASE q = r
  BY <1>1, <1>2
<1>3. CASE q # r
  BY <1>1, <1>3 DEF Only, Exists
<1> QED BY <1>2, <1>3

\* A call of a finalizer that is not its last one.
LEMMA FinalCallKeeps ==
  ASSUME PipelineInv, NEW r \in Repos, Call(r), handler[r].final,
         NextCall(handler[r].pc) # "write", Share
  PROVE  PipelineInv'
<1>1. PICK f \in Frame, pc \in Deleting, next \in {NextCall(handler[r].pc)} :
         f = handler[r] /\ pc = f.pc /\ next = NextCall(pc) /\ f.final
         /\ Exists(r) /\ spec[r].deleting /\ f.url \in Urls
  BY FrameFacts, FinalFacts DEF Call
<1>2. next \in Deleting \ {"del sensor"}
  BY <1>1, NextCallType
<1>3. PICK g : g = [f EXCEPT !.pc = next] /\ handler' = [handler EXCEPT ![r] = g]
  BY <1>1 DEF Call, Advance
<1>4. /\ g \in Frame /\ g.pc = next /\ g.final = f.final /\ g.want = f.want
      /\ g.url = f.url /\ g.out = f.out
  BY <1>2, <1>3 DEF Frame
<1>5. /\ UNCHANGED <<spec, status, secret, due, left, ops, faults>>
      /\ pipe' = [pipe EXCEPT ![f.url] = After(r, @, pc)]
  BY <1>1 DEF Call, Advance
<1>6. /\ pipe' \in [Urls -> Pipe] /\ OnlyItsPipe(r)
      /\ pipe[f.url] \in Pipe /\ pipe'[f.url] = After(r, pipe[f.url], pc)
  BY <1>1, <1>5, CallPipe DEF PipelineInv, PipelineTypeOK
<1>7. /\ handler' \in [Repos -> Frame] /\ handler'[r] = g
      /\ \A q \in Repos : q # r => handler'[q] = handler[q]
  BY <1>3, <1>4, Replaced
<1>8. PipelineTypeOK'
  BY <1>5, <1>6, <1>7, ShareType DEF PipelineInv, PipelineTypeOK
<1>9. Only(r)
  BY <1>5, <1>7 DEF Only
<1>10. Exists(r)' /\ spec'[r] = spec[r] /\ status'[r] = status[r] /\ ops' = ops
  BY <1>1, <1>5 DEF Exists
<1>11. FrameInv(r)'
  BY <1>1, <1>2, <1>4, <1>7, <1>10, FrameFacts DEF FrameInv
<1>12. UrlInv(r)'
  BY <1>1, <1>4, <1>5, <1>7, <1>10, FrameFacts DEF UrlInv
<1>13. WiredInv(r)'
  <2>1. Made(pipe'[g.url], r, g.pc)
    BY <1>2, <1>4 DEF Made, Creating, Deleting
  <2> QED BY <1>1, <1>4, <1>7, <1>10, <2>1 DEF WiredInv, Holds
<1>14. ASSUME NEW u \in Urls \ left'
       PROVE  Owned(u)'
  <2> SUFFICES ASSUME NEW x \in Parts, Has(pipe'[u], x)
               PROVE  \E q \in Repos : Exists(q)' /\ spec'[q].url = u /\ x \notin Deleted(handler'[q])
    BY DEF Owned
  <2>1. CASE u = f.url
    <3>1. PICK p \in Pipe : p = pipe[f.url] /\ Has(After(r, p, pc), x)
      BY <1>6, <2>1
    <3>2. /\ Has(p, x)
          /\ pc = "del sensor" => x # "sensor"
          /\ pc = "del source" => x # "source"
          /\ pc = "del ingress" => x # "ingress"
          /\ pc = "del token" => x # "token"
          /\ pc = "del key" => x # "key"
      BY <1>1, <3>1, AfterDeleting
    <3>3. x \notin Deleted(f) => x \notin Deleted(g)
      BY <1>1, <1>2, <1>4, <3>2, NextCallType DEF Deleted, Deleting, Parts
    <3>4. Has(pipe[u], x) /\ left \subseteq left'
      BY <1>5, <2>1, <3>1, <3>2
    <3>5. Exists(r) /\ spec[r].url = u /\ x \notin Deleted(handler[r]) =>
            Exists(r)' /\ spec'[r].url = u /\ x \notin Deleted(handler'[r])
      BY <1>1, <1>7, <1>10, <3>3
    <3> QED BY <1>9, <3>4, <3>5, StillOwned
  <2>2. CASE u # f.url
    <3>1. Has(pipe[u], x)
      BY <1>1, <1>6, <2>2 DEF OnlyItsPipe
    <3>2. spec[r].url # u
      BY <1>1, <1>5, <2>2, FrameFacts DEF UrlInv
    <3> QED BY <1>5, <1>9, <3>1, <3>2, StillOwned
  <2> QED BY <2>1, <2>2
<1>15. left \subseteq left' /\ ops <= ops'
  BY <1>5, FrameFacts
<1> QED BY <1>6, <1>8, <1>9, <1>11, <1>12, <1>13, <1>14, <1>15, Kept

\* The finalizer lets its GitRepository go: nothing of the repository the spec
\* names is left, or that repository is in left.
LEMMA ReleaseKeeps ==
  ASSUME PipelineInv, PipelineTypeOK', Share, NEW r \in Repos, OnlyItsPipe(r),
         handler' = [handler EXCEPT ![r] = Idle], spec' = [spec EXCEPT ![r] = None],
         status' = [status EXCEPT ![r] = NoStatus], left \subseteq left', ops' = ops,
         \A u \in Urls \ left', x \in Parts :
            Has(pipe'[u], x) =>
               /\ Has(pipe[u], x)
               /\ Exists(r) /\ spec[r].url = u => x \in Deleted(handler[r])
  PROVE  PipelineInv'
<1>1. /\ handler' \in [Repos -> Frame] /\ handler'[r] = Idle
      /\ \A q \in Repos : q # r => handler'[q] = handler[q]
  BY Replaced, IdleType
<1>2. /\ spec'[r] = None /\ status'[r] = NoStatus /\ ~Exists(r)'
      /\ \A q \in Repos : q # r => spec'[q] = spec[q] /\ status'[q] = status[q]
  BY DEF PipelineInv, PipelineTypeOK, Exists
<1>3. Only(r)
  BY <1>1, <1>2 DEF Only
<1>4. Idle.pc = "idle" /\ Idle.url = None
  BY DEF Idle
<1>5. FrameInv(r)' /\ UrlInv(r)' /\ WiredInv(r)'
  BY <1>1, <1>2, <1>4, FrameFacts DEF FrameInv, UrlInv, WiredInv, Holds
<1>6. ASSUME NEW u \in Urls \ left'
      PROVE  Owned(u)'
  <2> SUFFICES ASSUME NEW x \in Parts, Has(pipe'[u], x)
               PROVE  \E q \in Repos : Exists(q)' /\ spec'[q].url = u /\ x \notin Deleted(handler'[q])
    BY DEF Owned
  <2> QED BY <1>3, StillOwned
<1> QED BY <1>3, <1>5, <1>6, FrameFacts, Kept

\* Its last call.
LEMMA LastCallKeeps ==
  ASSUME PipelineInv, NEW r \in Repos, Call(r), handler[r].final,
         NextCall(handler[r].pc) = "write", Share
  PROVE  PipelineInv'
<1>1. PICK f \in Frame : f = handler[r] /\ f.final /\ Exists(r) /\ f.url \in Urls
                         /\ f.pc = "del key"
  <2>1. handler[r].pc \in Deleting
    BY FinalFacts DEF Call
  <2>2. handler[r].pc = "del key"
    BY <2>1, NextCallType DEF Deleting
  <2> QED BY <2>1, <2>2, FrameFacts, FinalFacts
<1>2. /\ handler' = [handler EXCEPT ![r] = Idle] /\ spec' = [spec EXCEPT ![r] = None]
      /\ status' = [status EXCEPT ![r] = NoStatus]
      /\ UNCHANGED <<secret, due, left, ops, faults>>
      /\ pipe' = [pipe EXCEPT ![f.url] = After(r, @, "del key")]
  BY <1>1 DEF Call, Advance
<1>3. /\ pipe' \in [Urls -> Pipe] /\ OnlyItsPipe(r)
      /\ pipe[f.url] \in Pipe /\ pipe'[f.url] = After(r, pipe[f.url], "del key")
  BY <1>1, <1>2, CallPipe DEF PipelineInv, PipelineTypeOK, Deleting
<1>4. PipelineTypeOK'
  BY <1>2, <1>3, ShareType, IdleType DEF PipelineInv, PipelineTypeOK
<1>5. ASSUME NEW u \in Urls \ left', NEW x \in Parts, Has(pipe'[u], x)
      PROVE  /\ Has(pipe[u], x)
             /\ Exists(r) /\ spec[r].url = u => x \in Deleted(handler[r])
  <2>1. CASE u = f.url
    <3>1. PICK p \in Pipe : p = pipe[f.url] /\ Has(After(r, p, "del key"), x)
      BY <1>3, <1>5, <2>1
    <3>2. Has(p, x) /\ x # "key"
      BY <3>1, AfterDeleting DEF Deleting
    <3>3. x \in Deleted(f)
      BY <1>1, <3>2 DEF Deleted
    <3> QED BY <1>1, <2>1, <3>1, <3>2, <3>3
  <2>2. CASE u # f.url
    <3>1. Has(pipe[u], x)
      BY <1>1, <1>3, <1>5, <2>2 DEF OnlyItsPipe
    <3>2. spec[r].url # u
      BY <1>1, <1>2, <2>2, FrameFacts DEF UrlInv
    <3> QED BY <3>1, <3>2
  <2> QED BY <2>1, <2>2
<1> QED BY <1>2, <1>3, <1>4, <1>5, ReleaseKeeps

\* A call of it that fails.
LEMMA FinalFailureKeeps ==
  ASSUME PipelineInv, NEW r \in Repos, CallFails(r), handler[r].final, Share
  PROVE  PipelineInv'
<1>1. PICK f \in Frame : f = handler[r] /\ f.final /\ Exists(r) /\ f.url \in Urls
                         /\ f.pc \in Deleting
  BY FrameFacts, FinalFacts DEF CallFails, FailedCall
<1>2. /\ handler' = [handler EXCEPT ![r] = Idle] /\ spec' = [spec EXCEPT ![r] = None]
      /\ status' = [status EXCEPT ![r] = NoStatus]
      /\ left' = left \cup {f.url} /\ UNCHANGED <<secret, ops>>
      /\ faults < MaxFaults /\ faults' = faults + 1
      /\ due' = [due EXCEPT ![r] = @ \/ CalledAgain(~f.final)]
      /\ pipe' \in {pipe, [pipe EXCEPT ![f.url] = After(r, @, f.pc)]}
  BY <1>1 DEF CallFails, FailedCall, Advance
<1>3. pipe' \in [Urls -> Pipe] /\ OnlyItsPipe(r)
  BY <1>1, <1>2, CallPipe
<1>4. PipelineTypeOK'
  <2>1. due \in [Repos -> BOOLEAN] /\ faults \in 0 .. MaxFaults
    BY DEF PipelineInv, PipelineTypeOK
  <2>2. due' \in [Repos -> BOOLEAN]
    BY <1>2, <2>1, Zenon
  <2>3. faults' \in 0 .. MaxFaults
    BY <1>2, <2>1, PipelineAssumption
  <2> QED BY <1>1, <1>2, <1>3, <2>2, <2>3, ShareType, IdleType DEF PipelineInv, PipelineTypeOK
<1>5. ASSUME NEW u \in Urls \ left', NEW x \in Parts, Has(pipe'[u], x)
      PROVE  /\ Has(pipe[u], x)
             /\ Exists(r) /\ spec[r].url = u => x \in Deleted(handler[r])
  <2>1. u # f.url /\ u \notin left
    BY <1>2
  <2>2. Has(pipe[u], x)
    BY <1>1, <1>3, <1>5, <2>1 DEF OnlyItsPipe
  <2>3. spec[r].url # u
    BY <1>1, <2>1, FrameFacts DEF UrlInv
  <2> QED BY <2>2, <2>3
<1>6. left \subseteq left' /\ ops' = ops
  BY <1>2
<1> QED BY <1>2, <1>3, <1>4, <1>5, <1>6, ReleaseKeeps

----------------------------------------------------------------------------
(* Restarts and users *)

LEMMA RestartKeeps ==
  ASSUME PipelineInv, RestartAll
  PROVE  PipelineInv'
<1>1. /\ faults < MaxFaults /\ faults' = faults + 1
      /\ handler' = [r \in Repos |-> Idle] /\ due' = [r \in Repos |-> TRUE]
      /\ UNCHANGED <<spec, status, secret, pipe, left, ops>> /\ Share
  BY DEF RestartAll, Restart
<1>2. \A r \in Repos : handler'[r] = Idle
  BY <1>1
<1>3. PipelineTypeOK'
  <2>1. handler' \in [Repos -> Frame] /\ due' \in [Repos -> BOOLEAN]
    BY <1>1, IdleType
  <2>2. faults' \in 0 .. MaxFaults
    BY <1>1, PipelineAssumption DEF PipelineInv, PipelineTypeOK
  <2> QED BY <1>1, <2>1, <2>2, ShareType DEF PipelineInv, PipelineTypeOK
<1>4. /\ Idle.pc = "idle" /\ Idle.final = FALSE /\ Idle.url = None /\ Idle.out = NoStatus
      /\ NoStatus.url = None
  BY DEF Idle, NoStatus
<1>5. ASSUME NEW r \in Repos
      PROVE  FrameInv(r)' /\ UrlInv(r)' /\ WiredInv(r)'
  <2>1. FrameInv(r)'
    BY <1>1, <1>2, <1>4, FrameFacts DEF FrameInv, Exists
  <2>2. UrlInv(r)'
    BY <1>1, <1>2, <1>4, FrameFacts DEF UrlInv, Exists
  <2>3. WiredInv(r)'
    BY <1>1, <1>2, <1>4, FrameFacts, ShareType DEF WiredInv, Holds, Exists, Wired
  <2> QED BY <2>1, <2>2, <2>3
<1>6. ASSUME NEW u \in Urls \ left'
      PROVE  Owned(u)'
  <2> SUFFICES ASSUME NEW x \in Parts, Has(pipe[u], x)
               PROVE  \E q \in Repos : Exists(q)' /\ spec'[q].url = u /\ x \notin Deleted(handler'[q])
    BY <1>1 DEF Owned
  <2>1. PICK q \in Repos : Exists(q) /\ spec[q].url = u /\ x \notin Deleted(handler[q])
    BY <1>1 DEF PipelineInv, Owned
  <2> QED BY <1>1, <1>2, <1>4, <2>1 DEF Exists, Deleted
<1>7. Contested' \subseteq shared'
  BY <1>1, ShareType
<1> QED BY <1>3, <1>5, <1>6, <1>7 DEF PipelineInv

LEMMA CreateKeeps ==
  ASSUME PipelineInv, NEW r \in Repos, NEW u \in Urls, NEW c \in Configs, Create(r, u, c),
         ops < MaxOps, ops' = ops + 1, Share
  PROVE  PipelineInv'
<1> DEFINE d == [gen |-> 1, url |-> u, config |-> c, deleting |-> FALSE]
<1>1. d \in Desired /\ d.gen = 1 /\ ops \in Nat
  BY PipelineAssumption, FrameFacts DEF Desired
<1>2. ~Exists(r) /\ handler[r] = Idle /\ status[r] = NoStatus
  BY FrameFacts DEF Create, FrameInv
<1>3. /\ spec' = [spec EXCEPT ![r] = d] /\ due' = [due EXCEPT ![r] = TRUE]
      /\ UNCHANGED <<status, secret, handler, pipe, left, faults>>
  BY DEF Create
<1> HIDE DEF d
<1>4. /\ spec' \in [Repos -> Desired \cup {None}] /\ spec'[r] = d
      /\ \A q \in Repos : q # r => spec'[q] = spec[q]
  BY <1>1, <1>3 DEF PipelineInv, PipelineTypeOK
<1>5. PipelineTypeOK'
  <2>1. ops' \in 0 .. MaxOps
    BY PipelineAssumption DEF PipelineInv, PipelineTypeOK
  <2> QED BY <1>3, <1>4, <2>1, ShareType DEF PipelineInv, PipelineTypeOK
<1>6. Only(r) /\ OnlyItsPipe(r)
  BY <1>3, <1>4 DEF Only, OnlyItsPipe
<1>7. /\ Idle.pc = "idle" /\ Idle.final = FALSE /\ Idle.url = None /\ Idle.out = NoStatus
      /\ NoStatus.url = None /\ NoStatus.observed = 0 /\ NoStatus.ready = FALSE
  BY DEF Idle, NoStatus
<1>8. FrameInv(r)' /\ UrlInv(r)' /\ WiredInv(r)'
  <2>1. FrameInv(r)'
    BY <1>1, <1>2, <1>3, <1>4, <1>7 DEF FrameInv
  <2>2. UrlInv(r)'
    BY <1>2, <1>3, <1>7 DEF UrlInv
  <2>3. WiredInv(r)'
    BY <1>2, <1>3, <1>7, FrameFacts DEF WiredInv, Holds
  <2> QED BY <2>1, <2>2, <2>3
<1>9. \A v \in Urls \ left' : Owned(v)'
  BY <1>2, <1>3, <1>6, OwnedKept
<1>10. left \subseteq left' /\ ops <= ops'
  BY <1>1, <1>3
<1> QED BY <1>5, <1>6, <1>8, <1>9, <1>10, Kept

LEMMA EditKeeps ==
  ASSUME PipelineInv, NEW r \in Repos, NEW u \in Urls, NEW c \in Configs, Edit(r, u, c),
         ops < MaxOps, ops' = ops + 1, Share
  PROVE  PipelineInv'
<1>1. PICK s \in Desired : s = spec[r] /\ Exists(r) /\ ~s.deleting
  BY FrameFacts DEF Edit
<1>2. /\ s.gen \in Nat /\ s.gen <= ops + 1 /\ status[r].observed <= s.gen /\ ops \in Nat
      /\ FrameInv(r) /\ UrlInv(r) /\ status[r].observed \in Nat
      /\ handler[r].out.observed \in Nat
  BY <1>1, FrameFacts DEF FrameInv
<1>3. PICK d : d = [s EXCEPT !.gen = s.gen + 1, !.url = u, !.config = c]
  OBVIOUS
<1>4. /\ d \in Desired /\ d.gen = s.gen + 1 /\ d.url = u /\ d.config = c
      /\ d.deleting = s.deleting
  <2>1. s.gen + 1 \in 1 .. MaxOps + 1
    BY <1>2, PipelineAssumption
  <2> QED BY <1>3, <2>1 DEF Desired
<1>5. /\ due' = [due EXCEPT ![r] = TRUE]
      /\ UNCHANGED <<status, secret, handler, pipe, faults>>
      /\ left' = IF u # s.url THEN left \cup {s.url, u} ELSE left
  BY <1>1 DEF Edit
<1>6. spec' = [spec EXCEPT ![r] = d]
  <2>1. spec' = [spec EXCEPT ![r].gen = @ + 1, ![r].url = u, ![r].config = c]
    BY DEF Edit
  <2> QED BY <1>1, <1>3, <2>1, FrameFacts DEF PipelineInv, PipelineTypeOK, Desired
<1>7. /\ spec' \in [Repos -> Desired \cup {None}] /\ spec'[r] = d /\ Exists(r)'
      /\ \A q \in Repos : q # r => spec'[q] = spec[q]
  BY <1>4, <1>6, PipelineAssumption DEF PipelineInv, PipelineTypeOK, Exists
<1>8. left \subseteq left' /\ left' \subseteq Urls /\ (u # s.url => u \in left' /\ s.url \in left')
  BY <1>1, <1>5 DEF PipelineInv, PipelineTypeOK, Desired
<1>9. PipelineTypeOK'
  <2>1. ops' \in 0 .. MaxOps
    BY PipelineAssumption DEF PipelineInv, PipelineTypeOK
  <2> QED BY <1>5, <1>7, <1>8, <2>1, ShareType DEF PipelineInv, PipelineTypeOK
<1>10. Only(r) /\ OnlyItsPipe(r)
  BY <1>5, <1>7 DEF Only, OnlyItsPipe
<1>11. PICK f \in Frame : f = handler[r] /\ f = handler'[r]
  BY <1>5, FrameFacts
<1>12. /\ f.pc # "idle" => /\ f.url \in Urls /\ ~f.final
                           /\ f.want \in Desired /\ f.url = f.want.url
                           /\ (f.pc \in Creating => f.want.config = "on")
                           /\ (f.pc \in Deleting => f.want.config = "off")
                           /\ status[r].observed <= f.want.gen
                           /\ f.out.observed <= f.want.gen
                           /\ f.want.gen <= s.gen /\ f.want.gen \in Nat
  BY <1>1, <1>2, <1>11, PipelineAssumption DEF FrameInv, Desired
<1>13. FrameInv(r)'
  <2>1. status'[r] = status[r] /\ d.gen <= ops' + 1 /\ status[r].observed <= d.gen
    BY <1>2, <1>4, <1>5
  <2>2. f.pc # "idle" => f.want.gen < d.gen
    BY <1>2, <1>4, <1>12
  <2>3. f.pc # "idle" => f.want.gen <= d.gen /\ f.want.gen # d.gen
    BY <1>2, <1>4, <1>12
  <2> QED BY <1>7, <1>11, <1>12, <2>1, <2>2, <2>3 DEF FrameInv
<1>14. UrlInv(r)'
  BY <1>1, <1>2, <1>4, <1>5, <1>7, <1>8 DEF UrlInv
<1>15. WiredInv(r)'
  <2>1. status'[r].observed # d.gen
    BY <1>2, <1>4, <1>5
  <2>2. f.pc # "idle" => f.out.observed # d.gen
    BY <1>2, <1>4, <1>11, <1>12
  <2>3. f.url \in Urls \ shared' => Made(pipe'[f.url], r, f.pc)
    BY <1>5, <1>11, FrameFacts, ShareType DEF WiredInv
  <2> QED BY <1>7, <1>11, <2>1, <2>2, <2>3 DEF WiredInv, Holds
<1>16. \A v \in Urls \ left' : Owned(v)'
  <2>1. spec[r].url \notin left' => spec'[r].url = spec[r].url
    BY <1>1, <1>4, <1>7, <1>8
  <2> QED BY <1>5, <1>7, <1>8, <1>10, <2>1, OwnedKept
<1>17. ops <= ops'
  BY <1>2
<1> QED BY <1>8, <1>9, <1>10, <1>13, <1>14, <1>15, <1>16, <1>17, Kept

LEMMA DeleteKeeps ==
  ASSUME PipelineInv, NEW r \in Repos, Delete(r), ops < MaxOps, ops' = ops + 1, Share
  PROVE  PipelineInv'
<1>1. PICK s \in Desired : s = spec[r] /\ Exists(r) /\ ~s.deleting
  BY FrameFacts DEF Delete
<1>2. PICK d : d = [s EXCEPT !.deleting = TRUE]
  OBVIOUS
<1>3. /\ d \in Desired /\ d.gen = s.gen /\ d.url = s.url /\ d.config = s.config
      /\ d.deleting = TRUE
  BY <1>2 DEF Desired
<1>4. /\ spec' = [spec EXCEPT ![r] = d]
      /\ UNCHANGED <<status, secret, due, handler, pipe, left, faults>>
  BY <1>1, <1>2 DEF Delete
<1>5. /\ spec' \in [Repos -> Desired \cup {None}] /\ spec'[r] = d /\ Exists(r)'
      /\ \A q \in Repos : q # r => spec'[q] = spec[q]
  BY <1>3, <1>4, PipelineAssumption DEF PipelineInv, PipelineTypeOK, Exists
<1>6. PipelineTypeOK'
  <2>1. ops' \in 0 .. MaxOps
    BY PipelineAssumption DEF PipelineInv, PipelineTypeOK
  <2> QED BY <1>4, <1>5, <2>1, ShareType DEF PipelineInv, PipelineTypeOK
<1>7. Only(r) /\ OnlyItsPipe(r)
  BY <1>4, <1>5 DEF Only, OnlyItsPipe
<1>8. FrameInv(r)'
  <2>1. s.gen <= ops' + 1
    <3>1. s.gen <= ops + 1 /\ s.gen \in Nat /\ ops \in Nat
      BY <1>1, FrameFacts DEF FrameInv
    <3> QED BY <3>1
  <2> QED BY <1>1, <1>3, <1>4, <1>5, <2>1, FrameFacts DEF FrameInv
<1>9. UrlInv(r)'
  BY <1>1, <1>3, <1>4, <1>5, FrameFacts DEF UrlInv
<1>10. WiredInv(r)'
  BY <1>3, <1>4, <1>5, FrameFacts, ShareType DEF WiredInv, Holds
<1>11. \A v \in Urls \ left' : Owned(v)'
  BY <1>1, <1>3, <1>4, <1>5, <1>7, OwnedKept
<1>12. left \subseteq left' /\ ops <= ops'
  BY <1>4, FrameFacts
<1> QED BY <1>6, <1>7, <1>8, <1>9, <1>10, <1>11, <1>12, Kept

LEMMA ChangeSecretKeeps ==
  ASSUME PipelineInv, NEW r \in Repos, ChangeSecret(r), ops < MaxOps, ops' = ops + 1, Share
  PROVE  PipelineInv'
<1>1. /\ secret' = [secret EXCEPT ![r] = ~@]
      /\ UNCHANGED <<spec, status, due, handler, pipe, left, faults>>
  BY DEF ChangeSecret
<1>2. PipelineTypeOK'
  <2>1. secret' \in [Repos -> BOOLEAN]
    BY <1>1 DEF PipelineInv, PipelineTypeOK
  <2>2. ops' \in 0 .. MaxOps
    BY PipelineAssumption DEF PipelineInv, PipelineTypeOK
  <2> QED BY <1>1, <2>1, <2>2, ShareType DEF PipelineInv, PipelineTypeOK
<1>3. Only(r) /\ OnlyItsPipe(r)
  BY <1>1 DEF Only, OnlyItsPipe
<1>4. FrameInv(r)'
  <2>1. Exists(r) => spec[r].gen <= ops' + 1
    <3>1. Exists(r) => spec[r].gen <= ops + 1 /\ spec[r].gen \in Nat
      BY FrameFacts DEF FrameInv
    <3> QED BY <3>1, FrameFacts
  <2> QED BY <1>1, <2>1, FrameFacts DEF FrameInv, Exists
<1>5. UrlInv(r)'
  BY <1>1, FrameFacts DEF UrlInv, Exists
<1>6. WiredInv(r)'
  BY <1>1, FrameFacts, ShareType DEF WiredInv, Holds, Exists, Wired
<1>7. \A v \in Urls \ left' : Owned(v)'
  BY <1>1, <1>3, OwnedKept DEF Exists
<1>8. left \subseteq left' /\ ops <= ops'
  BY <1>1, FrameFacts
<1> QED BY <1>2, <1>3, <1>4, <1>5, <1>6, <1>7, <1>8, Kept

----------------------------------------------------------------------------
(* Theorems *)

LEMMA InitHolds == PipelineInit => PipelineInv
<1> SUFFICES ASSUME PipelineInit PROVE PipelineInv
  OBVIOUS
<1>1. /\ Idle.pc = "idle" /\ Idle.url = None /\ Idle.out = NoStatus /\ NoStatus.url = None
      /\ NoStatus.ready = FALSE
  BY DEF Idle, NoStatus
<1>2. NoPipe \in Pipe /\ \A x \in Parts : ~Has(NoPipe, x)
  BY DEF NoPipe, Pipe, Has, Parts
<1>3. PipelineTypeOK
  BY <1>2, IdleType, PipelineAssumption DEF PipelineInit, PipelineTypeOK
<1>4. \A r \in Repos : FrameInv(r) /\ UrlInv(r) /\ WiredInv(r)
  BY <1>1, PipelineAssumption
  DEF PipelineInit, FrameInv, UrlInv, WiredInv, Holds, Made, Exists, Creating
<1>5. Contested \subseteq shared
  BY <1>1, PipelineAssumption DEF PipelineInit, Contested, Names, Exists
<1>6. \A u \in Urls \ left : Owned(u)
  BY <1>2 DEF PipelineInit, Owned
<1> QED BY <1>3, <1>4, <1>5, <1>6 DEF PipelineInv

LEMMA StutterKeeps == PipelineInv /\ UNCHANGED pipelineVars => PipelineInv'
  BY DEF pipelineVars, PipelineInv, PipelineTypeOK, Contested, Names, Exists, FrameInv, UrlInv,
         WiredInv, Holds, Wired, Owned

LEMMA NextKeeps ==
  ASSUME PipelineInv, PipelineNext
  PROVE  PipelineInv'
<1>1. CASE RestartAll
  BY <1>1, RestartKeeps
<1>2. ASSUME NEW r \in Repos, Work(r)
      PROVE  PipelineInv'
  <2>1. CASE Begin(r)
    BY <1>2, <2>1, BeginKeeps DEF Work
  <2>2. CASE Check(r)
    BY <1>2, <2>2, CheckKeeps DEF Work
  <2>3. CASE Call(r)
    BY <1>2, <2>3, WorkingCallKeeps, FinalCallKeeps, LastCallKeeps DEF Work
  <2>4. CASE TokenGone(r)
    BY <1>2, <2>4, TokenGoneKeeps DEF Work
  <2>5. CASE WritePatch(r)
    BY <1>2, <2>5, WritePatchKeeps DEF Work
  <2>6. CASE Finalize(r)
    BY <1>2, <2>6, FinalizeKeeps DEF Work
  <2> QED BY <1>2, <2>1, <2>2, <2>3, <2>4, <2>5, <2>6 DEF Work, Handle
<1>3. ASSUME NEW r \in Repos, Other(r)
      PROVE  PipelineInv'
  <2>1. CASE CallFails(r)
    BY <1>3, <2>1, WorkingFailureKeeps, FinalFailureKeeps DEF Other
  <2>2. CASE User(r)
    <3>1. ops < MaxOps /\ ops' = ops + 1 /\ Share
      BY <1>3, <2>2 DEF Other, User
    <3>2. CASE \E u \in Urls, c \in Configs : Create(r, u, c)
      BY <3>1, <3>2, CreateKeeps
    <3>3. CASE \E u \in Urls, c \in Configs : Edit(r, u, c)
      BY <3>1, <3>3, EditKeeps
    <3>4. CASE Delete(r)
      BY <3>1, <3>4, DeleteKeeps
    <3>5. CASE ChangeSecret(r)
      BY <3>1, <3>5, ChangeSecretKeeps
    <3> QED BY <2>2, <3>2, <3>3, <3>4, <3>5 DEF User
  <2> QED BY <1>3, <2>1, <2>2 DEF Other
<1> QED BY <1>1, <1>2, <1>3 DEF PipelineNext

\* The pipelines and what is known of them stay consistent, whatever handlers,
\* users, failures and restarts do: the invariant the others follow from.
THEOREM PipelineSafe == PipelineSpec => []PipelineInv
<1>1. PipelineInit => PipelineInv
  BY InitHolds
<1>2. PipelineInv /\ [PipelineNext]_pipelineVars => PipelineInv'
  BY NextKeeps, StutterKeeps
<1> QED BY <1>1, <1>2, PTL DEF PipelineSpec

\* Every variable keeps its type.
THEOREM PipelineTypes == PipelineSpec => []PipelineTypeOK
<1>1. PipelineInv => PipelineTypeOK
  BY DEF PipelineInv
<1> QED BY <1>1, PipelineSafe, PTL

\* A GitRepository that is Ready for its generation has its whole pipeline,
\* unless another GitRepository is, or was, of the same repository.
THEOREM PipelineReadyMeansWired == PipelineSpec => []ReadyMeansWired
<1>1. PipelineInv => ReadyMeansWired
  BY DEF PipelineInv, ReadyMeansWired, WiredInv, Holds, Current
<1> QED BY <1>1, PipelineSafe, PTL

\* When the last GitRepository that names a repository is gone, nothing is left
\* of its pipeline, unless it was edited to another repository or a call of the
\* finalizer failed.
THEOREM PipelineNothingLeftBehind == PipelineSpec => []NothingLeftBehind
<1>1. ASSUME PipelineInv PROVE NothingLeftBehind
  <2> SUFFICES ASSUME NEW u \in Urls, u \notin left, \A r \in Repos : u \notin Names(r)
               PROVE  pipe[u] = NoPipe
    BY DEF NothingLeftBehind
  <2>1. ASSUME NEW x \in Parts PROVE ~Has(pipe[u], x)
    BY <1>1 DEF PipelineInv, Owned, Names
  <2>2. pipe[u] \in Pipe
    BY <1>1 DEF PipelineInv, PipelineTypeOK
  <2>3. /\ pipe[u].token = FALSE /\ pipe[u].key = 0 /\ pipe[u].source = FALSE
        /\ pipe[u].sensor = None /\ pipe[u].ingress = FALSE
    BY <2>1, <2>2 DEF Has, Parts, Pipe
  <2> QED BY <2>2, <2>3 DEF Pipe, NoPipe
<1> QED BY <1>1, PipelineSafe, PTL
=============================================================================
