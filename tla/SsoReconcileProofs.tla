-------------------------- MODULE SsoReconcileProofs --------------------------
(***************************************************************************)
(* Proofs about SsoReconcile, for every set of SSOApplications, specs,     *)
(* outposts and every bound, where no two SSOApplications may have the     *)
(* same slug or take their credentials from the same place (PrivateSlugs:  *)
(* Authentik's objects and OpenBao's map are found by nothing else).       *)
(*                                                                         *)
(* The argument: a step of one SSOApplication leaves all that is another's *)
(* (Untouched, AppKept), except for the list of an outpost they share,     *)
(* which loses nothing unless two writes of it overlap (ListInv).          *)
(*   Ready: a handler works for the generation it was called with, and the *)
(* status names none that is newer (JobInv); what it has ensured before    *)
(* the last call still stands (DoneInv); and another run for the same      *)
(* generation finds the same provider and the same credentials (WriteVault *)
(* is not reached, EnsureProvider returns the same pk).                    *)
(*   Nothing left: Authentik never has two providers of a name and kind    *)
(* (ProvidersInv), so the one whose pk the status has is the one to be     *)
(* deleted, and nobody else creates one of that name.                      *)
(***************************************************************************)
EXTENDS SsoReconcile, TLAPS

----------------------------------------------------------------------------
(* Frames *)

Pcs == {"idle", "vault", "generate", "provider", "outpost", "attach", "application",
        "publish", "patch", "detach", "destroy"}

LEMMA IdleType ==
  /\ Idle \in Frame /\ NoStatus \in Status
  /\ Idle.pc = "idle" /\ Idle.out = NoStatus
  /\ NoStatus.observed = 0 /\ NoStatus.ready = FALSE /\ NoStatus.slug = None
  /\ NoStatus.provider = None
  BY DEF Idle, Frame, NoStatus, Status

LEMMA LocationType ==
  ASSUME NEW s \in Specs
  PROVE  Location(s) \in Locations
  BY DEF Location, Locations, Specs

\* A step that is about the frame of a.
FrameStep(a) == \A b \in Apps : b # a => run'[b] = run[b]

LEMMA Framed ==
  ASSUME TypeOK, NEW a \in Apps, NEW g \in Frame, run' = [run EXCEPT ![a] = g]
  PROVE  run' \in [Apps -> Frame] /\ run'[a] = g /\ FrameStep(a)
  BY DEF TypeOK, FrameStep

LEMMA GotoFrame ==
  ASSUME TypeOK, NEW a \in Apps, NEW pc \in Pcs, Goto(a, pc)
  PROVE  /\ run' \in [Apps -> Frame] /\ FrameStep(a)
         /\ run'[a].pc = pc /\ run'[a].want = run[a].want /\ run'[a].gen = run[a].gen
         /\ run'[a].cred = run[a].cred /\ run'[a].pk = run[a].pk
         /\ run'[a].list = run[a].list /\ run'[a].out = run[a].out
<1>1. PICK f \in Frame : f = run[a]
  BY DEF TypeOK
<1>2. PICK g : g = [f EXCEPT !.pc = pc]
  OBVIOUS
<1>3. /\ g \in Frame /\ g.pc = pc /\ g.want = f.want /\ g.gen = f.gen /\ g.cred = f.cred
      /\ g.pk = f.pk /\ g.list = f.list /\ g.out = f.out
  BY <1>2 DEF Frame, Pcs
<1>4. run' = [run EXCEPT ![a] = g]
  BY <1>1, <1>2 DEF Goto
<1> QED BY <1>1, <1>3, <1>4, Framed

LEMMA EndFrame ==
  ASSUME TypeOK, NEW a \in Apps, NEW out \in Status, NEW again \in BOOLEAN,
         End(a, out, again)
  PROVE  /\ run' \in [Apps -> Frame] /\ FrameStep(a)
         /\ run'[a].pc = "patch" /\ run'[a].out = out
<1>1. PICK g : g = [Idle EXCEPT !.pc = "patch", !.out = out, !.again = again]
  OBVIOUS
<1>2. g = [pc |-> "patch", want |-> None, gen |-> 0, cred |-> None, pk |-> None,
           list |-> {}, out |-> out, again |-> again]
  BY <1>1 DEF Idle
<1>3. g \in Frame /\ g.pc = "patch" /\ g.out = out
  BY <1>2 DEF Frame
<1>4. run' = [run EXCEPT ![a] = g]
  BY <1>1 DEF End
<1> QED BY <1>3, <1>4, Framed

LEMMA FailFrame ==
  ASSUME TypeOK, NEW a \in Apps, Fail(a)
  PROVE  /\ run' \in [Apps -> Frame] /\ FrameStep(a)
         /\ run'[a].pc = "patch" /\ run'[a].out \in Status
         /\ run'[a].out.ready = FALSE /\ run'[a].out.observed = run[a].gen
         /\ run'[a].out.slug = run[a].out.slug
         /\ run'[a].out.provider = run[a].out.provider
         /\ run'[a].out.protocol = run[a].out.protocol
<1>1. PICK o \in Status, n \in Nat : o = run[a].out /\ n = run[a].gen
  BY DEF TypeOK, Frame
<1>2. PICK out : out = [o EXCEPT !.ready = FALSE, !.observed = n]
  OBVIOUS
<1>3. /\ out \in Status /\ out.ready = FALSE /\ out.observed = n /\ out.slug = o.slug
      /\ out.provider = o.provider /\ out.protocol = o.protocol
  BY <1>2 DEF Status
<1>4. End(a, out, TRUE)
  BY <1>1, <1>2 DEF Fail
<1>5. run' \in [Apps -> Frame] /\ FrameStep(a) /\ run'[a].pc = "patch" /\ run'[a].out = out
  BY <1>3, <1>4, EndFrame
<1> QED BY <1>1, <1>3, <1>5

LEMMA DoneFrame ==
  ASSUME TypeOK, NEW a \in Apps, Done(a), Want(a) \in Specs
  PROVE  /\ run' \in [Apps -> Frame] /\ FrameStep(a)
         /\ run'[a].pc = "patch" /\ run'[a].out \in Status
         /\ run'[a].out.ready = TRUE /\ run'[a].out.observed = run[a].gen
         /\ run'[a].out.slug = Want(a).slug
         /\ run'[a].out.provider = run[a].pk
         /\ run'[a].out.protocol = Want(a).protocol
<1>1. PICK o \in Status, n \in Nat, s \in Specs, k \in Nat \cup {None} :
         o = run[a].out /\ n = run[a].gen /\ s = Want(a) /\ k = run[a].pk
  BY DEF TypeOK, Frame
<1>2. PICK path : path = IF s.protocol = "oauth2" THEN Location(s) ELSE o.path
  OBVIOUS
<1>3. PICK out : out = [o EXCEPT !.ready = TRUE, !.observed = n, !.slug = s.slug,
                        !.protocol = s.protocol, !.provider = k, !.path = path]
  OBVIOUS
<1>4. path \in Locations \cup {None}
  BY <1>2, LocationType DEF Status
<1>5. /\ out \in Status /\ out.ready = TRUE /\ out.observed = n /\ out.slug = s.slug
      /\ out.provider = k /\ out.protocol = s.protocol
  BY <1>3, <1>4 DEF Status, Specs
<1>6. End(a, out, FALSE)
  BY <1>1, <1>2, <1>3 DEF Done
<1>7. run' \in [Apps -> Frame] /\ FrameStep(a) /\ run'[a].pc = "patch" /\ run'[a].out = out
  BY <1>5, <1>6, EndFrame
<1> QED BY <1>1, <1>5, <1>7

----------------------------------------------------------------------------
(* Steps of others *)

\* Nothing that is b's changes: its resource, its frame, the credentials, the
\* application and the providers of the slugs it may have.  An outpost keeps
\* its providers, and gets no other while it writes there, or it is overlapped.
Untouched(Mine, b) ==
    /\ spec'[b] = spec[b] /\ gen'[b] = gen[b] /\ life'[b] = life[b]
    /\ status'[b] = status[b] /\ run'[b] = run[b] /\ published'[b] = published[b]
    /\ overlapped \subseteq overlapped' /\ (b \in swallowed' <=> b \in swallowed)
    /\ \A s \in Mine[b] : /\ vault'[Location(s)] = vault[Location(s)]
                          /\ application'[s.slug] = application[s.slug]
    /\ \A p : Belongs(Mine, b, p.name) => (p \in providers' <=> p \in providers)
    /\ \A o \in Outposts \ overlapped' :
         /\ \A p \in providers :
              Belongs(Mine, b, p.name) /\ p.pk \in outpost[o] => p.pk \in outpost'[o]
         /\ Writing(b, o) => outpost'[o] \subseteq outpost[o]

LEMMA AppFacts ==
  ASSUME NEW Mine \in [Apps -> SUBSET Specs], SsoInv(Mine), NEW a \in Apps
  PROVE  /\ AppInv(Mine, a) /\ TypeOK /\ ProvidersInv /\ RegisteredInv
         /\ spec[a] \in Specs /\ spec[a] \in Mine[a] /\ status[a] \in Status
         /\ run[a] \in Frame /\ run[a].out \in Status
         /\ gen[a] \in Nat /\ run[a].gen \in Nat /\ status[a].observed \in Nat
         /\ run[a].out.observed \in Nat
         /\ Working(a) => Want(a) \in Specs /\ Want(a) \in Mine[a]
  BY DEF SsoInv, AppInv, JobInv, TypeOK, Frame, Status

LEMMA ProvidedKept ==
  ASSUME NEW Mine, NEW b, Untouched(Mine, b), NEW pk, NEW slug, NEW protocol,
         Belongs(Mine, b, slug), Provided(pk, slug, protocol)
  PROVE  Provided(pk, slug, protocol)'
  BY DEF Provided, Untouched

LEMMA AcceptsKept ==
  ASSUME NEW Mine, NEW b, Untouched(Mine, b), ProvidersInv, ProvidersInv', NEW pk, NEW s \in Mine[b],
         Provided(pk, s.slug, s.protocol), Accepts(pk, s)
  PROVE  Accepts(pk, s)'
<1>1. PICK p \in providers : p.pk = pk /\ p.name = s.slug /\ p.kind = s.protocol
  BY DEF Provided
<1>2. Belongs(Mine, b, p.name)
  BY <1>1 DEF Belongs
<1>3. p \in providers'
  BY <1>2 DEF Untouched
<1>4. \A q \in providers' : q.pk = pk => q = p
  BY <1>1, <1>3 DEF ProvidersInv
<1>5. vault'[Location(s)] = vault[Location(s)]
  BY DEF Untouched
<1> QED BY <1>1, <1>4, <1>5 DEF Accepts

LEMMA NamedKept ==
  ASSUME NEW Mine, NEW b, Untouched(Mine, b), NEW st, NamedInv(Mine, b, st)
  PROVE  NamedInv(Mine, b, st)'
<1>1. Belongs(Mine, b, st.slug)' <=> Belongs(Mine, b, st.slug)
  BY DEF Belongs
<1>2. life'[b] = life[b]
  BY DEF Untouched
<1>3. Belongs(Mine, b, st.slug) /\ Provided(st.provider, st.slug, st.protocol)
      => Provided(st.provider, st.slug, st.protocol)'
  BY ProvidedKept
<1> QED BY <1>1, <1>2, <1>3 DEF NamedInv

LEMMA SettledKept ==
  ASSUME NEW Mine \in [Apps -> SUBSET Specs], SsoInv(Mine), NEW b \in Apps,
         Untouched(Mine, b), ProvidersInv', NEW st, SettledInv(b, st)
  PROVE  SettledInv(b, st)'
<1> DEFINE s == spec[b]
<1>1. /\ spec'[b] = s /\ gen'[b] = gen[b] /\ life'[b] = life[b]
      /\ published'[b] = published[b] /\ overlapped \subseteq overlapped'
      /\ s \in Mine[b] /\ s \in Specs /\ ProvidersInv
  BY AppFacts DEF Untouched
<1>2. /\ application'[s.slug] = application[s.slug]
  BY <1>1 DEF Untouched
<1>3. Belongs(Mine, b, s.slug)
  BY <1>1 DEF Belongs
<1> SUFFICES ASSUME life[b] = "live", st.ready, st.observed = gen[b]
             PROVE  /\ Provided(st.provider, s.slug, s.protocol)'
                    /\ Accepts(st.provider, s)'
                    /\ application'[s.slug] = st.provider
                    /\ s.protocol = "oauth2" /\ s.target => published'[b] = Location(s)
                    /\ s.protocol = "proxy" /\ s.outpost \notin overlapped' =>
                         st.provider \in outpost'[s.outpost]
  BY <1>1 DEF SettledInv
<1>4. /\ Provided(st.provider, s.slug, s.protocol) /\ Accepts(st.provider, s)
      /\ application[s.slug] = st.provider
      /\ s.protocol = "oauth2" /\ s.target => published[b] = Location(s)
      /\ s.protocol = "proxy" /\ s.outpost \notin overlapped =>
           st.provider \in outpost[s.outpost]
  BY DEF SettledInv
<1>5. PICK t : t = s
  OBVIOUS
<1>6. Provided(st.provider, t.slug, t.protocol)' /\ Accepts(st.provider, t)'
  BY <1>1, <1>3, <1>4, <1>5, ProvidedKept, AcceptsKept
<1>7. ASSUME s.protocol = "proxy", s.outpost \notin overlapped'
      PROVE  st.provider \in outpost'[s.outpost]
  <2>1. PICK p \in providers : p.pk = st.provider /\ p.name = s.slug
    BY <1>4 DEF Provided
  <2>2. p.pk \in outpost[s.outpost] /\ s.outpost \in Outposts
    BY <1>1, <1>4, <1>7, <2>1 DEF Specs
  <2> QED BY <1>3, <1>7, <2>1, <2>2 DEF Untouched
<1> QED BY <1>1, <1>2, <1>4, <1>5, <1>6, <1>7

LEMMA AppKept ==
  ASSUME NEW Mine \in [Apps -> SUBSET Specs], SsoInv(Mine), NEW b \in Apps,
         Untouched(Mine, b), ProvidersInv'
  PROVE  AppInv(Mine, b)'
<1>1. PICK st, f, o : st = status[b] /\ f = run[b] /\ o = f.out
  OBVIOUS
<1>2. /\ spec'[b] = spec[b] /\ gen'[b] = gen[b] /\ life'[b] = life[b]
      /\ status'[b] = st /\ run'[b] = f /\ run'[b].out = o
      /\ overlapped \subseteq overlapped' /\ (b \in swallowed' <=> b \in swallowed)
  BY <1>1 DEF Untouched
<1>3. /\ JobInv(Mine, b) /\ DoneInv(b) /\ ListInv(b) /\ DeletedInv(b)
      /\ NamedInv(Mine, b, st) /\ NamedInv(Mine, b, o)
      /\ SettledInv(b, st) /\ SettledInv(b, o) /\ ProvidersInv
  BY <1>1, AppFacts DEF AppInv
<1>4. JobInv(Mine, b)'
  BY <1>1, <1>2, <1>3 DEF JobInv, At, Finalizing, Working, Want
<1>5. NamedInv(Mine, b, st)' /\ NamedInv(Mine, b, o)'
  BY <1>3, NamedKept
<1>6. SettledInv(b, st)' /\ SettledInv(b, o)'
  BY <1>3, SettledKept
<1>7. DoneInv(b)'
  <2> SUFFICES ASSUME Working(b)
               PROVE  DoneInv(b)'
    BY <1>1, <1>2 DEF DoneInv, Working
  <2>1. PICK w : w = f.want /\ w \in Mine[b] /\ w \in Specs
    BY <1>1, AppFacts DEF Want
  <2>2. vault'[Location(w)] = vault[Location(w)] /\ application'[w.slug] = application[w.slug]
    BY <2>1 DEF Untouched
  <2>3. Provided(f.pk, w.slug, w.protocol) /\ Accepts(f.pk, w)
        => Provided(f.pk, w.slug, w.protocol)' /\ Accepts(f.pk, w)'
    BY <1>3, <2>1, ProvidedKept, AcceptsKept DEF Belongs
  <2>4. ASSUME f.pc \in {"application", "publish"}, w.protocol = "proxy",
               w.outpost \notin overlapped'
        PROVE  f.pk \in outpost'[w.outpost]
    <3>1. Provided(f.pk, w.slug, w.protocol) /\ f.pk \in outpost[w.outpost]
      BY <1>1, <1>2, <1>3, <2>1, <2>4 DEF DoneInv
    <3>2. PICK p \in providers : p.pk = f.pk /\ p.name = w.slug
      BY <3>1 DEF Provided
    <3>3. Belongs(Mine, b, p.name)
      BY <2>1, <3>2 DEF Belongs
    <3> QED BY <2>1, <2>4, <3>1, <3>2, <3>3 DEF Untouched, Specs
  <2> QED BY <1>1, <1>2, <1>3, <2>1, <2>2, <2>3, <2>4 DEF DoneInv
<1>8. ListInv(b)'
  <2>1. At(b, "attach") => Want(b) \in Specs
    BY AppFacts DEF At, Working
  <2>2. ASSUME At(b, "attach"), Want(b).outpost \notin overlapped'
        PROVE  outpost'[Want(b).outpost] \subseteq run[b].list
    <3>1. Want(b).outpost \in Outposts \ overlapped'
      BY <2>1, <2>2 DEF Specs
    <3>2. outpost'[Want(b).outpost] \subseteq outpost[Want(b).outpost]
      BY <2>2, <3>1 DEF Untouched, Writing
    <3> QED BY <1>2, <1>3, <2>2, <3>2 DEF ListInv
  <2>3. ASSUME At(b, "detach"), spec[b].outpost \notin overlapped'
        PROVE  outpost'[spec[b].outpost] \ {status[b].provider} \subseteq run[b].list
    <3>1. spec[b].outpost \in Outposts \ overlapped'
      BY <2>3, AppFacts DEF Specs
    <3>2. outpost'[spec[b].outpost] \subseteq outpost[spec[b].outpost]
      BY <2>3, <3>1 DEF Untouched, Writing
    <3> QED BY <1>2, <1>3, <2>3, <3>2 DEF ListInv
  <2> QED BY <1>1, <1>2, <1>3, <2>2, <2>3 DEF ListInv, At, Want
<1>9. DeletedInv(b)'
  <2> SUFFICES ASSUME st.provider # None, b \notin swallowed
               PROVE  DeletedInv(b)'
    BY <1>1, <1>2 DEF DeletedInv
  <2>1. Belongs(Mine, b, st.slug)
    BY <1>3 DEF NamedInv
  <2>2. application'[st.slug] = application[st.slug]
    BY <2>1 DEF Belongs, Untouched
  <2>3. \A p \in providers' : p.name = st.slug => p \in providers
    BY <2>1 DEF Untouched
  <2> QED BY <1>1, <1>2, <1>3, <2>2, <2>3 DEF DeletedInv, Finalizing
<1> QED BY <1>2, <1>4, <1>5, <1>6, <1>7, <1>8, <1>9 DEF AppInv

LEMMA Assemble ==
  ASSUME NEW Mine \in [Apps -> SUBSET Specs], SsoInv(Mine), NEW a \in Apps,
         TypeOK', ProvidersInv', RegisteredInv', AppInv(Mine, a)',
         \A b \in Apps : b # a => Untouched(Mine, b)
  PROVE  SsoInv(Mine)'
<1>1. ASSUME NEW b \in Apps PROVE AppInv(Mine, b)'
  <2>1. CASE b = a
    BY <2>1
  <2>2. CASE b # a
    BY <2>2, AppKept
  <2> QED BY <2>1, <2>2
<1> QED BY <1>1 DEF SsoInv

----------------------------------------------------------------------------
(* Steps that change nothing in OpenBao, Authentik and the cluster         *)

shared == <<vault, published, authentik, registered, overlapped>>

LEMMA QuietUntouched ==
  ASSUME NEW Mine, NEW b \in Apps, UNCHANGED shared,
         spec'[b] = spec[b], gen'[b] = gen[b], life'[b] = life[b], status'[b] = status[b],
         run'[b] = run[b], b \in swallowed' <=> b \in swallowed
  PROVE  Untouched(Mine, b)
  BY DEF Untouched, shared, authentik

LEMMA QuietShared ==
  ASSUME ProvidersInv, RegisteredInv, UNCHANGED shared
  PROVE  ProvidersInv' /\ RegisteredInv'
  BY DEF ProvidersInv, RegisteredInv, shared, authentik

LEMMA QuietNamed ==
  ASSUME NEW Mine, NEW a, UNCHANGED shared, life'[a] # "gone" => life[a] # "gone",
         NEW st, NamedInv(Mine, a, st)
  PROVE  NamedInv(Mine, a, st)'
  BY DEF NamedInv, Belongs, Provided, shared, authentik

LEMMA QuietSettled ==
  ASSUME NEW a, UNCHANGED shared, NEW st, SettledInv(a, st),
         life'[a] = "live" /\ st.ready /\ st.observed = gen'[a] =>
            life[a] = "live" /\ gen'[a] = gen[a] /\ spec'[a] = spec[a]
  PROVE  SettledInv(a, st)'
  BY DEF SettledInv, Provided, Accepts, shared, authentik

\* Only the frame of a changes.
LEMMA FrameKeeps ==
  ASSUME NEW Mine \in [Apps -> SUBSET Specs], SsoInv(Mine), NEW a \in Apps,
         UNCHANGED <<shared, resource, status, swallowed>>,
         run' \in [Apps -> Frame], FrameStep(a), due' \subseteq Apps, flows' \in BOOLEAN,
         issued' \in Nat, ops' \in 0 .. MaxOps, faults' \in 0 .. MaxFaults,
         JobInv(Mine, a)', DoneInv(a)', ListInv(a)', Finalizing(a)' => Finalizing(a),
         NEW out, run'[a].out = out, NamedInv(Mine, a, out), SettledInv(a, out)
  PROVE  SsoInv(Mine)'
<1>1. /\ ProvidersInv' /\ RegisteredInv' /\ TypeOK'
  BY QuietShared, AppFacts DEF TypeOK, shared, authentik, resource
<1>2. ASSUME NEW b \in Apps, b # a PROVE Untouched(Mine, b)
  BY <1>2, QuietUntouched DEF FrameStep, resource
<1>3. PICK st : st = status[a]
  OBVIOUS
<1>4. /\ NamedInv(Mine, a, st) /\ SettledInv(a, st) /\ DeletedInv(a)
      /\ status'[a] = st /\ life'[a] = life[a] /\ gen'[a] = gen[a] /\ spec'[a] = spec[a]
  BY <1>3, AppFacts DEF AppInv, resource
<1>5. /\ NamedInv(Mine, a, st)' /\ NamedInv(Mine, a, out)'
      /\ SettledInv(a, st)' /\ SettledInv(a, out)'
  BY <1>4, QuietNamed, QuietSettled
<1>6. DeletedInv(a)'
  BY <1>3, <1>4 DEF DeletedInv, shared, authentik
<1>7. AppInv(Mine, a)'
  BY <1>4, <1>5, <1>6 DEF AppInv
<1> QED BY <1>1, <1>2, <1>7, Assemble

\* A failed call: what it leaves in the frame is the status, not Ready.
LEMMA FailKeeps ==
  ASSUME NEW Mine \in [Apps -> SUBSET Specs], SsoInv(Mine), NEW a \in Apps, Working(a),
         UNCHANGED <<shared, resource, status, swallowed, due, flows, issued, ops>>,
         faults' \in 0 .. MaxFaults, Fail(a)
  PROVE  SsoInv(Mine)'
<1>1. PICK out \in Status : out = run'[a].out
  BY FailFrame, AppFacts
<1>2. /\ run' \in [Apps -> Frame] /\ FrameStep(a) /\ run'[a].pc = "patch"
      /\ out.ready = FALSE /\ out.observed = run[a].gen
      /\ out.slug = run[a].out.slug
      /\ out.provider = run[a].out.provider
      /\ out.protocol = run[a].out.protocol
  BY <1>1, FailFrame, AppFacts
<1>3. NamedInv(Mine, a, out) /\ SettledInv(a, out)
  BY <1>2, AppFacts DEF AppInv, NamedInv, SettledInv
<1>4. JobInv(Mine, a)'
  <2>1. JobInv(Mine, a) /\ out.observed <= gen[a] /\ life[a] # "gone"
    BY <1>2, AppFacts DEF AppInv, JobInv, Working, At
  <2> QED BY <1>1, <1>2, <2>1 DEF JobInv, At, Finalizing, Working, resource
<1>5. DoneInv(a)' /\ ListInv(a)' /\ ~Finalizing(a)'
  BY <1>2 DEF DoneInv, Working, ListInv, At, Finalizing
<1>6. /\ due' \subseteq Apps /\ flows' \in BOOLEAN /\ issued' \in Nat /\ ops' \in 0 .. MaxOps
  BY AppFacts DEF TypeOK
<1> QED BY <1>1, <1>2, <1>3, <1>4, <1>5, <1>6, FrameKeeps

LEMMA BackendErrorKeeps ==
  ASSUME NEW Mine \in [Apps -> SUBSET Specs], SsoInv(Mine), NEW a \in Apps, BackendError(a)
  PROVE  SsoInv(Mine)'
<1>1. Working(a)
  BY AppFacts DEF BackendError, Working, Frame
<1>2. faults' \in 0 .. MaxFaults
  BY AppFacts, SsoAssumption DEF BackendError, TypeOK
<1>3. UNCHANGED <<shared, resource, status, swallowed, due, flows, issued, ops>>
  BY DEF BackendError, shared, secrets, history
<1> QED BY <1>1, <1>2, <1>3, FailKeeps DEF BackendError

LEMMA CallKeeps ==
  ASSUME NEW Mine \in [Apps -> SUBSET Specs], SsoInv(Mine), NEW a \in Apps, Call(a)
  PROVE  SsoInv(Mine)'
<1>1. PICK s \in Specs, n \in Nat, st \in Status :
         s = spec[a] /\ n = gen[a] /\ st = status[a] /\ s \in Mine[a] /\ st.observed \in Nat
  BY AppFacts
<1>2. PICK failed : failed = [st EXCEPT !.ready = FALSE, !.observed = n]
  OBVIOUS
<1>3. /\ failed \in Status /\ failed.ready = FALSE /\ failed.observed = n
      /\ failed.slug = st.slug /\ failed.provider = st.provider /\ failed.protocol = st.protocol
  BY <1>2 DEF Status
<1>4. PICK ok : ok = (flows /\ s.valid)
  OBVIOUS
<1>5. PICK again : again = ~(flows /\ s.valid)
  OBVIOUS
<1>6. again \in BOOLEAN
  BY <1>5, Zenon
<1>7. PICK pc : pc = IF ~ok THEN "patch"
                    ELSE IF s.protocol = "proxy" THEN "provider" ELSE "vault"
  OBVIOUS
<1>8. PICK out : out = IF ok THEN st ELSE failed
  OBVIOUS
<1>9. PICK g : g = [pc |-> pc, want |-> s, gen |-> n, cred |-> None, pk |-> None,
                    list |-> {}, out |-> out, again |-> again]
  OBVIOUS
<1>10. run' = [run EXCEPT ![a] =
        [pc |-> IF ~(flows /\ s.valid) THEN "patch"
                ELSE IF s.protocol = "proxy" THEN "provider" ELSE "vault",
         want |-> s, gen |-> n, cred |-> None, pk |-> None, list |-> {},
         out |-> IF flows /\ s.valid THEN st ELSE failed, again |-> ~(flows /\ s.valid)]]
  BY <1>1, <1>2, Zenon DEF Call
<1>11. run' = [run EXCEPT ![a] = g]
  BY <1>4, <1>5, <1>7, <1>8, <1>9, <1>10, Zenon
<1>12. out \in Status /\ out.slug = st.slug /\ out.provider = st.provider
      /\ out.protocol = st.protocol /\ out.observed \in Nat
      /\ (out.ready => out = st) /\ (pc # "patch" => out = st) /\ (out = st \/ out.observed = n)
  BY <1>1, <1>3, <1>7, <1>8
<1>13. pc \in {"patch", "provider", "vault"} /\ (pc = "provider" => s.protocol # "oauth2")
  BY <1>7
<1>14. g \in Frame
  BY <1>1, <1>6, <1>9, <1>12, <1>13 DEF Frame
<1>15. /\ g.pc = pc /\ g.want = s /\ g.gen = n /\ g.out = out
  BY <1>9
<1>16. run' \in [Apps -> Frame] /\ run'[a] = g /\ FrameStep(a)
  BY <1>11, <1>14, Framed, AppFacts
<1>17. UNCHANGED <<shared, resource, status, swallowed, flows, issued, ops, faults>>
       /\ due' \subseteq Apps
  BY AppFacts DEF Call, shared, secrets, history, TypeOK
<1>18. NamedInv(Mine, a, out) /\ SettledInv(a, out)
  BY <1>1, <1>12, AppFacts DEF AppInv, NamedInv, SettledInv
<1>19. JobInv(Mine, a)'
  <2>1. JobInv(Mine, a) /\ st.observed <= n /\ life[a] = "live"
    BY <1>1, AppFacts DEF AppInv, JobInv, Call
  <2>2. spec'[a] = s /\ gen'[a] = n /\ status'[a] = st /\ life'[a] = "live"
    BY <1>1, <1>17, <2>1 DEF resource
  <2>3. out.observed <= n
    BY <1>1, <1>12, <2>1
  <2> QED BY <1>1, <1>13, <1>15, <1>16, <2>1, <2>2, <2>3
      DEF JobInv, At, Finalizing, Working, Want
<1>20. DoneInv(a)' /\ ListInv(a)' /\ ~Finalizing(a)'
  BY <1>13, <1>15, <1>16 DEF DoneInv, ListInv, At, Finalizing
<1>21. flows' \in BOOLEAN /\ issued' \in Nat /\ ops' \in 0 .. MaxOps /\ faults' \in 0 .. MaxFaults
  BY <1>17, AppFacts DEF TypeOK
<1> QED BY <1>15, <1>16, <1>17, <1>18, <1>19, <1>20, <1>21, FrameKeeps

\* A handler goes on, and the status that it is going to write stays.
LEMMA JobKept ==
  ASSUME NEW Mine \in [Apps -> SUBSET Specs], SsoInv(Mine), NEW a \in Apps, Working(a),
         UNCHANGED <<resource, status>>, Working(a)',
         run'[a].want = run[a].want, run'[a].gen = run[a].gen, run'[a].out = run[a].out
  PROVE  JobInv(Mine, a)'
<1>1. JobInv(Mine, a) /\ life[a] # "gone"
  BY AppFacts DEF AppInv, JobInv, Working, At
<1>2. ~At(a, "idle")' /\ ~Finalizing(a)'
  BY DEF Working, At, Finalizing
<1> QED BY <1>1, <1>2 DEF JobInv, Want, resource

\* A step of a working handler that writes nothing: its status is as before.
LEMMA WorkKeeps ==
  ASSUME NEW Mine \in [Apps -> SUBSET Specs], SsoInv(Mine), NEW a \in Apps, Working(a),
         UNCHANGED <<shared, resource, status, swallowed, due, flows, ops, faults>>,
         issued' \in Nat, run' \in [Apps -> Frame], FrameStep(a), Working(a)',
         run'[a].want = run[a].want, run'[a].gen = run[a].gen, run'[a].out = run[a].out,
         DoneInv(a)', ListInv(a)'
  PROVE  SsoInv(Mine)'
<1>1. PICK out : out = run[a].out
  OBVIOUS
<1>2. NamedInv(Mine, a, out) /\ SettledInv(a, out)
  BY <1>1, AppFacts DEF AppInv
<1>3. /\ due' \subseteq Apps /\ flows' \in BOOLEAN /\ ops' \in 0 .. MaxOps
      /\ faults' \in 0 .. MaxFaults
  BY AppFacts DEF TypeOK
<1>4. ~Finalizing(a)'
  BY DEF Working, Finalizing
<1> QED BY <1>1, <1>2, <1>3, <1>4, JobKept, FrameKeeps

LEMMA ReadVaultKeeps ==
  ASSUME NEW Mine \in [Apps -> SUBSET Specs], SsoInv(Mine), NEW a \in Apps, ReadVault(a)
  PROVE  SsoInv(Mine)'
<1>1. Working(a)
  BY DEF ReadVault, Working, At
<1>2. PICK f \in Frame, w \in Specs : f = run[a] /\ w = f.want
  BY <1>1, AppFacts DEF Want
<1>3. PICK held : held = vault[Location(w)]
  OBVIOUS
<1>4. held \in Nat \cup {None} /\ issued \in Nat
  BY <1>3, AppFacts, LocationType DEF TypeOK
<1>5. PICK pc, cred :
        /\ run' = [run EXCEPT ![a] = [f EXCEPT !.pc = pc, !.cred = cred]]
        /\ \/ held # None /\ pc = "provider" /\ cred = held /\ issued' = issued
           \/ held = None /\ pc = "generate" /\ cred = issued + 1 /\ issued' = issued + 1
  <2>1. CASE held # None
    <3>1. run' = [run EXCEPT ![a].pc = "provider", ![a].cred = held] /\ issued' = issued
      BY <1>2, <1>3, <2>1 DEF ReadVault, Source, Want
    <3>2. run' = [run EXCEPT ![a] = [f EXCEPT !.pc = "provider", !.cred = held]]
      BY <1>2, <3>1, AppFacts DEF TypeOK, Frame
    <3> QED BY <2>1, <3>1, <3>2
  <2>2. CASE held = None
    <3>1. /\ run' = [run EXCEPT ![a].pc = "generate", ![a].cred = issued + 1]
          /\ issued' = issued + 1
      BY <1>2, <1>3, <2>2 DEF ReadVault, Source, Want
    <3>2. run' = [run EXCEPT ![a] = [f EXCEPT !.pc = "generate", !.cred = issued + 1]]
      BY <1>2, <3>1, AppFacts DEF TypeOK, Frame
    <3> QED BY <2>2, <3>1, <3>2
  <2> QED BY <2>1, <2>2
<1>6. PICK g : g = [f EXCEPT !.pc = pc, !.cred = cred]
  OBVIOUS
<1>7. /\ g \in Frame /\ g.pc = pc /\ g.cred = cred /\ g.want = f.want /\ g.gen = f.gen
      /\ g.out = f.out
  <2>1. cred \in Nat \cup {None} /\ pc \in {"provider", "generate"}
    BY <1>4, <1>5
  <2> QED BY <1>6, <2>1 DEF Frame
<1>8. run' \in [Apps -> Frame] /\ run'[a] = g /\ FrameStep(a)
  BY <1>5, <1>6, <1>7, Framed, AppFacts
<1>9. UNCHANGED <<shared, resource, status, swallowed, due, flows, ops, faults>>
  BY DEF ReadVault, shared, history
<1>10. cred # None /\ issued' \in Nat
  BY <1>4, <1>5, SsoAssumption
<1>11. DoneInv(a)'
  BY <1>2, <1>3, <1>5, <1>7, <1>8, <1>9, <1>10 DEF DoneInv, shared
<1>12. ListInv(a)' /\ Working(a)'
  BY <1>5, <1>7, <1>8 DEF ListInv, At, Working
<1> QED BY <1>1, <1>2, <1>7, <1>8, <1>9, <1>10, <1>11, <1>12, WorkKeeps

LEMMA ReadOutpostKeeps ==
  ASSUME NEW Mine \in [Apps -> SUBSET Specs], SsoInv(Mine), NEW a \in Apps, ReadOutpost(a)
  PROVE  SsoInv(Mine)'
<1>1. Working(a) /\ run[a].pc = "outpost"
  BY DEF ReadOutpost, Working, At
<1>2. PICK f \in Frame, w \in Specs : f = run[a] /\ w = f.want
  BY <1>1, AppFacts DEF Want
<1>3. PICK list : list = outpost[w.outpost] \cup {f.pk}
  OBVIOUS
<1>4. /\ UNCHANGED <<shared, resource, status, swallowed, due, flows, issued, ops, faults>>
      /\ faults' \in 0 .. MaxFaults /\ issued' \in Nat
  BY AppFacts DEF ReadOutpost, shared, secrets, history, TypeOK
<1>5. /\ Provided(f.pk, w.slug, w.protocol) /\ Accepts(f.pk, w)
      /\ list \in SUBSET Nat
  <2>1. Provided(f.pk, w.slug, w.protocol) /\ Accepts(f.pk, w)
    BY <1>1, <1>2, AppFacts DEF AppInv, DoneInv
  <2>2. f.pk \in Nat
    BY <2>1, AppFacts DEF Provided, TypeOK, Provider
  <2>3. outpost[w.outpost] \in SUBSET Nat
    BY <1>2, AppFacts DEF TypeOK, Specs
  <2> QED BY <1>3, <2>1, <2>2, <2>3
<1>6. CASE w.outpost \notin Installed
  <2>1. Fail(a)
    BY <1>2, <1>6 DEF ReadOutpost, Want
  <2> QED BY <1>1, <1>4, <2>1, FailKeeps
<1>7. CASE w.outpost \in Installed /\ list = outpost[w.outpost]
  <2>1. Goto(a, "application")
    BY <1>2, <1>3, <1>7 DEF ReadOutpost, Want, Merged
  <2>2. /\ run' \in [Apps -> Frame] /\ FrameStep(a) /\ run'[a].pc = "application"
        /\ run'[a].want = f.want /\ run'[a].gen = f.gen /\ run'[a].pk = f.pk
        /\ run'[a].out = f.out
    BY <1>2, <2>1, GotoFrame, AppFacts DEF Pcs
  <2>3. DoneInv(a)'
    <3>1. f.pk \in outpost[w.outpost]
      BY <1>3, <1>7
    <3>2. Provided(f.pk, w.slug, w.protocol)' /\ Accepts(f.pk, w)'
          /\ w.slug = run'[a].want.slug /\ run'[a].want = w /\ run'[a].pk = f.pk
      <4>1. PICK pk, s : pk = f.pk /\ s = w
        OBVIOUS
      <4>2. Provided(pk, s.slug, s.protocol)' /\ Accepts(pk, s)'
        BY <1>4, <1>5, <4>1 DEF Provided, Accepts, shared, authentik
      <4> QED BY <1>2, <2>2, <4>1, <4>2
    <3>3. outpost' = outpost
      BY <1>4 DEF shared, authentik
    <3> QED BY <2>2, <3>1, <3>2, <3>3 DEF DoneInv
  <2>4. ListInv(a)' /\ Working(a)'
    BY <2>2 DEF ListInv, At, Working
  <2> QED BY <1>1, <1>2, <1>4, <2>2, <2>3, <2>4, WorkKeeps
<1>8. CASE w.outpost \in Installed /\ list # outpost[w.outpost]
  <2>1. run' = [run EXCEPT ![a].pc = "attach", ![a].list = list]
    BY <1>2, <1>3, <1>8 DEF ReadOutpost, Want, Merged
  <2>2. PICK g : g = [f EXCEPT !.pc = "attach", !.list = list]
    OBVIOUS
  <2>3. run' = [run EXCEPT ![a] = g]
    BY <1>2, <2>1, <2>2, AppFacts DEF TypeOK, Frame
  <2>4. /\ g \in Frame /\ g.pc = "attach" /\ g.list = list /\ g.want = f.want
        /\ g.gen = f.gen /\ g.pk = f.pk /\ g.out = f.out
    BY <1>5, <2>2 DEF Frame
  <2>5. run' \in [Apps -> Frame] /\ run'[a] = g /\ FrameStep(a)
    BY <2>3, <2>4, Framed, AppFacts
  <2>6. DoneInv(a)'
    <3>1. PICK pk, s : pk = f.pk /\ s = w
      OBVIOUS
    <3>2. Provided(pk, s.slug, s.protocol)' /\ Accepts(pk, s)'
      BY <1>4, <1>5, <3>1 DEF Provided, Accepts, shared, authentik
    <3> QED BY <1>2, <2>4, <2>5, <3>1, <3>2 DEF DoneInv
  <2>7. ListInv(a)' /\ Working(a)'
    BY <1>2, <1>3, <1>4, <2>4, <2>5 DEF ListInv, At, Working, Want, shared, authentik
  <2> QED BY <1>1, <1>2, <1>4, <2>4, <2>5, <2>6, <2>7, WorkKeeps
<1> QED BY <1>6, <1>7, <1>8

LEMMA WritePatchKeeps ==
  ASSUME NEW Mine \in [Apps -> SUBSET Specs], SsoInv(Mine), NEW a \in Apps, WritePatch(a)
  PROVE  SsoInv(Mine)'
<1>1. PICK out \in Status : out = run[a].out /\ run[a].pc = "patch"
  BY AppFacts DEF WritePatch, At
<1>2. /\ run' = [run EXCEPT ![a] = Idle] /\ status' = [status EXCEPT ![a] = out]
      /\ due' \subseteq Apps
      /\ UNCHANGED <<shared, resource, swallowed, flows, issued, ops, faults>>
  BY <1>1, AppFacts DEF WritePatch, shared, secrets, history, TypeOK
<1>3. run' \in [Apps -> Frame] /\ run'[a] = Idle /\ FrameStep(a)
  BY <1>2, Framed, IdleType, AppFacts
<1>4. /\ status' \in [Apps -> Status] /\ status'[a] = out
      /\ \A b \in Apps : b # a => status'[b] = status[b]
  BY <1>2, AppFacts DEF TypeOK
<1>5. TypeOK' /\ ProvidersInv' /\ RegisteredInv'
  BY <1>2, <1>3, <1>4, AppFacts, QuietShared DEF TypeOK, shared, authentik, resource
<1>6. \A b \in Apps : b # a => Untouched(Mine, b)
  BY <1>2, <1>3, <1>4, QuietUntouched DEF FrameStep, resource
<1>7. PICK none : none = NoStatus
  OBVIOUS
<1>8. NamedInv(Mine, a, none) /\ SettledInv(a, none)
  BY <1>7, IdleType DEF NamedInv, SettledInv
<1>9. NamedInv(Mine, a, out) /\ SettledInv(a, out) /\ JobInv(Mine, a) /\ life[a] # "gone"
      /\ out.observed <= gen[a]
  BY <1>1, AppFacts DEF AppInv, JobInv, At
<1>10. /\ NamedInv(Mine, a, out)' /\ SettledInv(a, out)'
       /\ NamedInv(Mine, a, none)' /\ SettledInv(a, none)'
  BY <1>2, <1>8, <1>9, QuietNamed, QuietSettled DEF resource
<1>11. JobInv(Mine, a)'
  BY <1>2, <1>3, <1>4, <1>9, IdleType, AppFacts
  DEF JobInv, At, Finalizing, Working, resource
<1>12. DoneInv(a)' /\ ListInv(a)' /\ DeletedInv(a)'
  BY <1>2, <1>3, <1>9, IdleType
  DEF DoneInv, Working, ListInv, At, DeletedInv, Finalizing, resource
<1>13. AppInv(Mine, a)'
  BY <1>3, <1>4, <1>7, <1>10, <1>11, <1>12, IdleType DEF AppInv
<1> QED BY <1>5, <1>6, <1>13, Assemble

\* The resource changes, and its frame and status stay.
LEMMA ResourceKeeps ==
  ASSUME NEW Mine \in [Apps -> SUBSET Specs], SsoInv(Mine), NEW a \in Apps,
         UNCHANGED <<shared, swallowed, flows, issued, faults>>,
         UNCHANGED <<status, run>>, due' \subseteq Apps, ops' \in 0 .. MaxOps,
         spec' \in [Apps -> Specs], gen' \in [Apps -> Nat],
         life' \in [Apps -> {"live", "deleting", "gone"}],
         life[a] = "live", life'[a] \in {"live", "deleting"}, spec'[a] \in Mine[a],
         \/ gen'[a] = gen[a] /\ spec'[a] = spec[a]
         \/ gen'[a] = gen[a] + 1 /\ life'[a] = "live",
         \A b \in Apps : b # a => spec'[b] = spec[b] /\ gen'[b] = gen[b] /\ life'[b] = life[b]
  PROVE  SsoInv(Mine)'
<1>1. TypeOK' /\ ProvidersInv' /\ RegisteredInv'
  BY AppFacts, QuietShared DEF TypeOK, shared, authentik
<1>2. \A b \in Apps : b # a => Untouched(Mine, b)
  BY QuietUntouched
<1>3. PICK st, out : st = status[a] /\ out = run[a].out
  OBVIOUS
<1>4. /\ NamedInv(Mine, a, st) /\ SettledInv(a, st) /\ NamedInv(Mine, a, out)
      /\ SettledInv(a, out) /\ JobInv(Mine, a) /\ DoneInv(a) /\ ListInv(a)
      /\ ~Finalizing(a) /\ gen[a] \in Nat /\ run[a].gen \in Nat
      /\ st.observed <= gen[a] /\ out.observed <= gen[a]
      /\ st.observed \in Nat /\ out.observed \in Nat
  BY <1>3, AppFacts DEF AppInv, JobInv
<1>5. NamedInv(Mine, a, st)' /\ NamedInv(Mine, a, out)'
  BY <1>4, QuietNamed
<1>6. SettledInv(a, st)' /\ SettledInv(a, out)'
  BY <1>4, QuietSettled
<1>7. JobInv(Mine, a)'
  BY <1>3, <1>4 DEF JobInv, At, Finalizing, Working, Want
<1>8. DoneInv(a)' /\ ListInv(a)' /\ DeletedInv(a)'
  BY <1>4 DEF DoneInv, Working, ListInv, At, DeletedInv, Finalizing, shared, authentik,
              Provided, Accepts, Want
<1>9. AppInv(Mine, a)'
  BY <1>3, <1>5, <1>6, <1>7, <1>8 DEF AppInv
<1> QED BY <1>1, <1>2, <1>9, Assemble

LEMMA EditKeeps ==
  ASSUME NEW Mine \in [Apps -> SUBSET Specs], PrivateSlugs(Mine), SsoInv(Mine),
         NEW a \in Apps, Edit(a)
  PROVE  SsoInv(Mine)'
<1>1. PICK s \in Specs : <<spec[a], s>> \in Edits /\ spec' = [spec EXCEPT ![a] = s]
  BY DEF Edit
<1>2. s \in Mine[a]
  BY <1>1, AppFacts DEF PrivateSlugs
<1>3. /\ life[a] = "live" /\ gen' = [gen EXCEPT ![a] = @ + 1] /\ due' = due \cup {a}
      /\ UNCHANGED <<life, status, run, flows, secrets, authentik, history, ops, faults>>
  BY DEF Edit
<1>4. /\ spec' \in [Apps -> Specs] /\ spec'[a] = s /\ gen' \in [Apps -> Nat]
      /\ gen'[a] = gen[a] + 1
      /\ \A b \in Apps : b # a => spec'[b] = spec[b] /\ gen'[b] = gen[b]
  BY <1>1, <1>3, AppFacts DEF TypeOK
<1>5. /\ UNCHANGED <<shared, swallowed, flows, issued, faults>> /\ due' \subseteq Apps
      /\ ops' \in 0 .. MaxOps /\ life' \in [Apps -> {"live", "deleting", "gone"}]
  BY <1>3, AppFacts DEF shared, secrets, history, TypeOK
<1> QED BY <1>2, <1>3, <1>4, <1>5, ResourceKeeps

LEMMA DeleteKeeps ==
  ASSUME NEW Mine \in [Apps -> SUBSET Specs], SsoInv(Mine), NEW a \in Apps, Delete(a)
  PROVE  SsoInv(Mine)'
<1>1. /\ life[a] = "live" /\ life' = [life EXCEPT ![a] = "deleting"] /\ due' = due \ {a}
      /\ ops < MaxOps /\ ops' = ops + 1
      /\ UNCHANGED <<spec, gen, status, run, flows, secrets, authentik, history, faults>>
  BY DEF Delete
<1>2. /\ life' \in [Apps -> {"live", "deleting", "gone"}] /\ life'[a] = "deleting"
      /\ \A b \in Apps : b # a => life'[b] = life[b]
  BY <1>1, AppFacts DEF TypeOK
<1>3. /\ UNCHANGED <<shared, swallowed, flows, issued, faults>> /\ due' \subseteq Apps
      /\ ops' \in 0 .. MaxOps /\ spec' \in [Apps -> Specs] /\ gen' \in [Apps -> Nat]
  BY <1>1, AppFacts, SsoAssumption DEF shared, secrets, history, TypeOK
<1> QED BY <1>1, <1>2, <1>3, AppFacts, ResourceKeeps

LEMMA RecreateKeeps ==
  ASSUME NEW Mine \in [Apps -> SUBSET Specs], PrivateSlugs(Mine), SsoInv(Mine),
         NEW a \in Apps, Recreate(a)
  PROVE  SsoInv(Mine)'
<1>1. PICK s \in First[a] : spec' = [spec EXCEPT ![a] = s]
  BY DEF Recreate
<1>2. s \in Mine[a] /\ s \in Specs
  BY <1>1, SsoAssumption DEF PrivateSlugs
<1>3. /\ life[a] = "gone" /\ ops < MaxOps /\ ops' = ops + 1
      /\ life' = [life EXCEPT ![a] = "live"] /\ gen' = [gen EXCEPT ![a] = 1]
      /\ status' = [status EXCEPT ![a] = NoStatus] /\ due' = due \cup {a}
      /\ UNCHANGED <<run, flows, secrets, authentik, history, faults>>
  BY DEF Recreate
<1>4. /\ spec' \in [Apps -> Specs] /\ spec'[a] = s /\ gen' \in [Apps -> Nat] /\ gen'[a] = 1
      /\ life' \in [Apps -> {"live", "deleting", "gone"}] /\ life'[a] = "live"
      /\ status' \in [Apps -> Status] /\ status'[a] = NoStatus
      /\ \A b \in Apps : b # a => /\ spec'[b] = spec[b] /\ gen'[b] = gen[b]
                                  /\ life'[b] = life[b] /\ status'[b] = status[b]
  BY <1>1, <1>2, <1>3, AppFacts, IdleType DEF TypeOK
<1>5. UNCHANGED <<shared, swallowed>>
  BY <1>3 DEF shared, secrets, history
<1>6. TypeOK' /\ ProvidersInv' /\ RegisteredInv'
  <2>1. ops' \in 0 .. MaxOps /\ due' \in SUBSET Apps
    BY <1>3, AppFacts, SsoAssumption DEF TypeOK
  <2> QED BY <1>3, <1>4, <1>5, <2>1, AppFacts, QuietShared
      DEF TypeOK, secrets, authentik, history
<1>7. \A b \in Apps : b # a => Untouched(Mine, b)
  BY <1>3, <1>4, <1>5, QuietUntouched
<1>8. run[a] = Idle /\ run' = run
  BY <1>3, AppFacts DEF AppInv, JobInv
<1>9. PICK none : none = NoStatus
  OBVIOUS
<1>10. NamedInv(Mine, a, none)' /\ SettledInv(a, none)'
  BY <1>9, IdleType DEF NamedInv, SettledInv
<1>11. JobInv(Mine, a)'
  BY <1>2, <1>4, <1>8, IdleType DEF JobInv, At, Finalizing, Working
<1>12. DoneInv(a)' /\ ListInv(a)' /\ DeletedInv(a)'
  BY <1>4, <1>8, IdleType DEF DoneInv, Working, ListInv, At, DeletedInv
<1>13. AppInv(Mine, a)'
  BY <1>4, <1>8, <1>9, <1>10, <1>11, <1>12, IdleType DEF AppInv
<1> QED BY <1>6, <1>7, <1>13, Assemble

LEMMA RestartKeeps ==
  ASSUME NEW Mine \in [Apps -> SUBSET Specs], SsoInv(Mine), Restart
  PROVE  SsoInv(Mine)'
<1>1. /\ faults < MaxFaults /\ faults' = faults + 1 /\ run' = [a \in Apps |-> Idle]
      /\ due' \subseteq Apps
      /\ UNCHANGED <<shared, resource, status, swallowed, flows, issued, ops>>
  BY DEF Restart, shared, secrets, history
<1>2. TypeOK' /\ ProvidersInv' /\ RegisteredInv'
  <2>1. faults' \in 0 .. MaxFaults
    BY <1>1, SsoAssumption DEF SsoInv, TypeOK
  <2>2. run' \in [Apps -> Frame]
    BY <1>1, IdleType
  <2> QED BY <1>1, <2>1, <2>2, QuietShared DEF SsoInv, TypeOK, shared, authentik, resource
<1>3. ASSUME NEW a \in Apps PROVE AppInv(Mine, a)'
  <2>1. PICK st, none : st = status[a] /\ none = NoStatus
    OBVIOUS
  <2>2. run'[a] = Idle /\ status'[a] = st /\ life'[a] = life[a] /\ gen'[a] = gen[a]
        /\ spec'[a] = spec[a]
    BY <1>1, <2>1 DEF resource
  <2>3. /\ NamedInv(Mine, a, st) /\ NamedInv(Mine, a, none)
        /\ SettledInv(a, st) /\ SettledInv(a, none) /\ JobInv(Mine, a) /\ DeletedInv(a)
    BY <2>1, IdleType, AppFacts DEF AppInv, NamedInv, SettledInv
  <2>4. /\ NamedInv(Mine, a, st)' /\ NamedInv(Mine, a, none)'
        /\ SettledInv(a, st)' /\ SettledInv(a, none)'
    BY <1>1, <2>2, <2>3, QuietNamed, QuietSettled
  <2>5. JobInv(Mine, a)'
    BY <2>1, <2>2, <2>3, IdleType, AppFacts DEF JobInv, At, Finalizing, Working
  <2>6. DoneInv(a)' /\ ListInv(a)' /\ DeletedInv(a)'
    BY <1>1, <2>1, <2>2, <2>3, IdleType
    DEF DoneInv, Working, ListInv, At, DeletedInv, Finalizing, shared, authentik
  <2> QED BY <2>1, <2>2, <2>4, <2>5, <2>6, IdleType DEF AppInv
<1> QED BY <1>2, <1>3 DEF SsoInv

LEMMA InstallFlowsKeeps ==
  ASSUME NEW Mine \in [Apps -> SUBSET Specs], SsoInv(Mine), InstallFlows
  PROVE  SsoInv(Mine)'
<1>1. /\ flows' = TRUE
      /\ UNCHANGED <<shared, resource, due, status, run, swallowed, issued, ops, faults>>
  BY DEF InstallFlows, shared, secrets, history
<1>2. TypeOK' /\ ProvidersInv' /\ RegisteredInv'
  BY <1>1, QuietShared DEF SsoInv, TypeOK, shared, authentik, resource
<1>3. ASSUME NEW a \in Apps PROVE AppInv(Mine, a)'
  <2>1. Untouched(Mine, a)
    BY <1>1, QuietUntouched DEF resource
  <2> QED BY <1>2, <2>1, AppKept
<1> QED BY <1>2, <1>3 DEF SsoInv

----------------------------------------------------------------------------
(* Steps of a reconcile that write *)

\* A status that is Ready for the present generation is for what the handler
\* works for.
LEMMA SettledWant ==
  ASSUME NEW Mine \in [Apps -> SUBSET Specs], SsoInv(Mine), NEW a \in Apps, Working(a),
         NEW st, st = status[a] \/ st = run[a].out, st.observed = gen[a]
  PROVE  Want(a) = spec[a] /\ run[a].gen = gen[a]
<1>1. run[a].gen <= gen[a] /\ st.observed <= run[a].gen
  BY AppFacts DEF AppInv, JobInv
<1>2. run[a].gen = gen[a]
  BY <1>1, AppFacts
<1> QED BY <1>2, AppFacts DEF AppInv, JobInv

\* The other SSOApplications keep their slugs and locations to themselves.
LEMMA Private ==
  ASSUME NEW Mine \in [Apps -> SUBSET Specs], PrivateSlugs(Mine), NEW a \in Apps,
         NEW b \in Apps, a # b, NEW s \in Mine[a]
  PROVE  /\ ~Belongs(Mine, b, s.slug)
         /\ \A t \in Mine[b] : Location(t) # Location(s) /\ t.slug # s.slug
  BY DEF PrivateSlugs, Belongs

LEMMA WriteVaultKeeps ==
  ASSUME NEW Mine \in [Apps -> SUBSET Specs], PrivateSlugs(Mine), SsoInv(Mine),
         NEW a \in Apps, WriteVault(a)
  PROVE  SsoInv(Mine)'
<1>1. Working(a) /\ run[a].pc = "generate"
  BY DEF WriteVault, Working, At
<1>2. PICK f \in Frame, w \in Specs : f = run[a] /\ w = f.want /\ w \in Mine[a]
  BY <1>1, AppFacts DEF Want
<1>3. vault[Location(w)] = None /\ f.cred # None /\ f.cred \in Nat \cup {None}
  BY <1>1, <1>2, AppFacts DEF AppInv, DoneInv, Frame
<1>4. /\ run' \in [Apps -> Frame] /\ FrameStep(a) /\ run'[a].pc = "provider"
      /\ run'[a].want = w /\ run'[a].gen = f.gen /\ run'[a].cred = f.cred /\ run'[a].out = f.out
  BY <1>2, GotoFrame, AppFacts DEF WriteVault, Pcs
<1>5. /\ vault' = [vault EXCEPT ![Location(w)] = f.cred]
      /\ UNCHANGED <<resource, due, status, flows, issued, published, authentik, history, ops,
                     faults>>
  BY <1>2 DEF WriteVault, Source, Want
<1>6. /\ vault' \in [Locations -> Nat \cup {None}] /\ vault'[Location(w)] = f.cred
      /\ \A l \in Locations : l # Location(w) => vault'[l] = vault[l]
  BY <1>3, <1>5, AppFacts, LocationType DEF TypeOK
<1>7. TypeOK' /\ ProvidersInv'
  BY <1>4, <1>5, <1>6, AppFacts DEF TypeOK, ProvidersInv, resource, authentik, history
<1>8. RegisteredInv'
  <2>1. \A r \in registered : r[2] # Location(w) /\ r[2] \in Locations
    BY <1>3, AppFacts DEF RegisteredInv, TypeOK
  <2> QED BY <1>5, <1>6, <2>1, AppFacts DEF RegisteredInv, history
<1>9. ASSUME NEW b \in Apps, b # a PROVE Untouched(Mine, b)
  <2>1. ASSUME NEW s \in Mine[b] PROVE vault'[Location(s)] = vault[Location(s)]
    <3>1. Location(s) # Location(w) /\ s \in Specs
      BY <1>2, <1>9, Private
    <3> QED BY <1>6, <3>1, LocationType
  <2> QED BY <1>4, <1>5, <1>9, <2>1 DEF Untouched, FrameStep, resource, authentik, history
<1>10. PICK st, out : st = status[a] /\ out = f.out
  OBVIOUS
<1>11. /\ spec'[a] = spec[a] /\ gen'[a] = gen[a] /\ life'[a] = life[a]
       /\ application' = application /\ outpost' = outpost /\ providers' = providers
       /\ published' = published /\ overlapped' = overlapped /\ swallowed' = swallowed
  BY <1>5 DEF resource, authentik, history
<1>12. ASSUME NEW s, s \in {st, out}
       PROVE  NamedInv(Mine, a, s)' /\ SettledInv(a, s)'
  <2>1. NamedInv(Mine, a, s) /\ SettledInv(a, s) /\ (s = status[a] \/ s = run[a].out)
    BY <1>2, <1>10, <1>12, AppFacts DEF AppInv
  <2>2. NamedInv(Mine, a, s)'
    BY <1>11, <2>1 DEF NamedInv, Belongs, Provided
  <2>3. SettledInv(a, s)'
    <3> SUFFICES ASSUME life[a] = "live", s.ready, s.observed = gen[a]
                 PROVE  SettledInv(a, s)'
      BY <1>11 DEF SettledInv
    <3>1. spec[a] = w
      BY <1>1, <1>2, <2>1, SettledWant DEF Want
    <3>2. spec[a].protocol # "oauth2"
      BY <1>3, <2>1, <3>1 DEF SettledInv, Accepts
    <3> QED BY <1>11, <2>1, <3>2 DEF SettledInv, Accepts, Provided
  <2> QED BY <2>2, <2>3
<1>13. JobInv(Mine, a)' /\ ListInv(a)'
  BY <1>1, <1>2, <1>4, <1>5, JobKept DEF Working, ListInv, At
<1>14. DoneInv(a)'
  BY <1>2, <1>3, <1>4, <1>6 DEF DoneInv
<1>15. DeletedInv(a)'
  BY <1>1, <1>4, <1>5, <1>11, AppFacts DEF AppInv, JobInv, DeletedInv, Working, At, Finalizing
<1>16. AppInv(Mine, a)'
  BY <1>4, <1>5, <1>10, <1>12, <1>13, <1>14, <1>15 DEF AppInv
<1> QED BY <1>7, <1>8, <1>9, <1>16, Assemble

\* The provider of the slug and protocol is there afterwards, one of them, and
\* the handler has its pk.
LEMMA EnsureProviderStep ==
  ASSUME NEW Mine \in [Apps -> SUBSET Specs], SsoInv(Mine), NEW a \in Apps, EnsureProvider(a),
         NEW f \in Frame, f = run[a], NEW w \in Specs, w = f.want,
         NEW D, D = Found(providers, w.slug, w.protocol)
  PROVE  /\ run' \in [Apps -> Frame] /\ FrameStep(a)
         /\ run'[a].pc = IF w.protocol = "proxy" THEN "outpost" ELSE "application"
         /\ run'[a].want = w /\ run'[a].gen = f.gen /\ run'[a].out = f.out
         /\ run'[a].pk \in 1 .. created' /\ created' \in Nat /\ created <= created'
         /\ \A q \in D : q.pk = run'[a].pk
         /\ D = {} => created < run'[a].pk
         /\ \A q \in providers \ D : q.pk # run'[a].pk
         /\ providers' = (providers \ D) \cup
              {[pk |-> run'[a].pk, name |-> w.slug, kind |-> w.protocol, cred |-> f.cred]}
<1>1. /\ providers \in SUBSET Provider /\ created \in Nat /\ ProvidersInv
      /\ \A q \in providers : q.pk \in 1 .. created
  BY AppFacts DEF TypeOK, ProvidersInv
<1>2. D = {q \in providers : q.name = w.slug /\ q.kind = w.protocol}
  BY DEF Found
<1>3. PICK pc : pc = IF w.protocol = "proxy" THEN "outpost" ELSE "application"
  OBVIOUS
<1>4. ASSUME NEW k \in Nat,
             run' = [run EXCEPT ![a].pk = k, ![a].cred = None, ![a].pc = pc]
      PROVE  /\ run' \in [Apps -> Frame] /\ FrameStep(a) /\ run'[a].pc = pc
             /\ run'[a].pk = k /\ run'[a].want = w /\ run'[a].gen = f.gen /\ run'[a].out = f.out
  <2>1. PICK g : g = [f EXCEPT !.pk = k, !.cred = None, !.pc = pc]
    OBVIOUS
  <2>2. run' = [run EXCEPT ![a] = g]
    BY <1>4, <2>1, AppFacts DEF TypeOK, Frame
  <2>3. /\ g \in Frame /\ g.pc = pc /\ g.pk = k /\ g.want = f.want /\ g.gen = f.gen
        /\ g.out = f.out
    BY <1>3, <2>1 DEF Frame
  <2> QED BY <2>2, <2>3, Framed, AppFacts
<1>5. ASSUME NEW p \in D, providers' = (providers \ {p}) \cup {Matched(p, f.cred)},
             run' = [run EXCEPT ![a].pk = p.pk, ![a].cred = None, ![a].pc = pc],
             created' = created
      PROVE  /\ run'[a].pk = p.pk /\ D = {p} /\ p.pk \in Nat /\ p \in providers
             /\ providers' = (providers \ D) \cup
              {[pk |-> p.pk, name |-> w.slug, kind |-> w.protocol, cred |-> f.cred]}
  <2>1. p \in providers /\ p \in Provider /\ p.name = w.slug /\ p.kind = w.protocol /\ p.pk \in Nat
    BY <1>1, <1>2, <1>5 DEF Provider
  <2>2. D = {p}
    BY <1>1, <1>2, <2>1 DEF ProvidersInv
  <2>3. Matched(p, f.cred) = [pk |-> p.pk, name |-> w.slug, kind |-> w.protocol, cred |-> f.cred]
    BY <2>1 DEF Matched, Provider
  <2>4. run'[a].pk = p.pk
    BY <1>4, <1>5, <2>1
  <2> QED BY <1>5, <2>1, <2>2, <2>3, <2>4
<1>6. CASE D # {}
  <2>1. PICK p \in D : /\ providers' = (providers \ {p}) \cup {Matched(p, f.cred)}
                       /\ run' = [run EXCEPT ![a].pk = p.pk, ![a].cred = None, ![a].pc = pc]
                       /\ created' = created
    BY <1>3, <1>6 DEF EnsureProvider, Want, Answered
  <2>2. /\ run'[a].pk = p.pk /\ D = {p} /\ p.pk \in Nat /\ p \in providers
        /\ providers' = (providers \ D) \cup
            {[pk |-> p.pk, name |-> w.slug, kind |-> w.protocol, cred |-> f.cred]}
    BY <1>5, <2>1
  <2>3. \A q \in providers \ D : q.pk # p.pk
    BY <1>1, <2>2 DEF ProvidersInv
  <2>4. /\ run' \in [Apps -> Frame] /\ FrameStep(a) /\ run'[a].pc = pc
        /\ run'[a].want = w /\ run'[a].gen = f.gen /\ run'[a].out = f.out
    BY <1>4, <2>1, <2>2
  <2>5. p.pk \in 1 .. created' /\ created' \in Nat /\ created <= created'
    BY <1>1, <2>1, <2>2
  <2>6. \A q \in D : q.pk = p.pk
    BY <2>2
  <2> QED BY <1>3, <1>6, <2>2, <2>3, <2>4, <2>5, <2>6
<1>7. CASE D = {}
  <2>1. PICK new : new = [pk |-> created + 1, name |-> w.slug, kind |-> w.protocol,
                          cred |-> f.cred]
    OBVIOUS
  <2>2. /\ providers' = providers \cup {new} /\ created' = new.pk
        /\ run' = [run EXCEPT ![a].pk = new.pk, ![a].cred = None, ![a].pc = pc]
    BY <1>3, <1>7, <2>1 DEF EnsureProvider, Want, Answered
  <2>3. new.pk = created + 1 /\ new.pk \in Nat
    BY <1>1, <2>1
  <2>4. \A q \in providers : q.pk # new.pk
    BY <1>1, <2>3
  <2>5. /\ run' \in [Apps -> Frame] /\ FrameStep(a) /\ run'[a].pc = pc /\ run'[a].pk = new.pk
        /\ run'[a].want = w /\ run'[a].gen = f.gen /\ run'[a].out = f.out
    BY <1>4, <2>2, <2>3
  <2>6. new.pk \in 1 .. created' /\ created' \in Nat /\ created <= created' /\ created < new.pk
    BY <1>1, <2>2, <2>3
  <2>7. new = [pk |-> new.pk, name |-> w.slug, kind |-> w.protocol, cred |-> f.cred]
    BY <2>1
  <2> QED BY <1>3, <1>7, <2>2, <2>4, <2>5, <2>6, <2>7
<1> QED BY <1>6, <1>7

LEMMA EnsureProviderKeeps ==
  ASSUME NEW Mine \in [Apps -> SUBSET Specs], PrivateSlugs(Mine), SsoInv(Mine),
         NEW a \in Apps, EnsureProvider(a)
  PROVE  SsoInv(Mine)'
<1>1. Working(a) /\ run[a].pc = "provider"
  BY DEF EnsureProvider, Working, At
<1>2. PICK f \in Frame, w \in Specs : f = run[a] /\ w = f.want /\ w \in Mine[a]
  BY <1>1, AppFacts DEF Want
<1>3. PICK D : D = Found(providers, w.slug, w.protocol)
  OBVIOUS
<1>4. D = {q \in providers : q.name = w.slug /\ q.kind = w.protocol}
  BY <1>3 DEF Found
<1>5. PICK pk : pk = run'[a].pk
  OBVIOUS
<1>6. PICK m : m = [pk |-> pk, name |-> w.slug, kind |-> w.protocol, cred |-> f.cred]
  OBVIOUS
<1>7. /\ run' \in [Apps -> Frame] /\ FrameStep(a)
      /\ run'[a].pc = IF w.protocol = "proxy" THEN "outpost" ELSE "application"
      /\ run'[a].want = w /\ run'[a].gen = f.gen /\ run'[a].out = f.out /\ run'[a].pk = pk
      /\ pk \in 1 .. created' /\ created' \in Nat /\ created <= created'
      /\ \A q \in D : q.pk = pk
      /\ D = {} => created < pk
      /\ \A q \in providers \ D : q.pk # pk
      /\ providers' = (providers \ D) \cup {m}
  BY <1>2, <1>3, <1>5, <1>6, EnsureProviderStep
<1>8. m.pk = pk /\ m.name = w.slug /\ m.kind = w.protocol /\ m.cred = f.cred /\ m \in Provider
  BY <1>6, <1>7 DEF Provider, Frame, Specs
<1>9. w.protocol = "oauth2" => f.cred = vault[Location(w)] /\ f.cred # None
  BY <1>1, <1>2, AppFacts DEF AppInv, DoneInv
<1>10. /\ UNCHANGED <<resource, due, status, flows, secrets, application, outpost, overlapped,
                      swallowed, ops, faults>>
       /\ registered' = IF w.protocol = "oauth2"
                        THEN registered \cup {<<w.slug, Location(w), f.cred>>} ELSE registered
  BY <1>2 DEF EnsureProvider, Want
<1>11. TypeOK'
  <2>1. registered' \in SUBSET (Slugs \X Locations \X (Nat \cup {None}))
    BY <1>2, <1>10, AppFacts, LocationType DEF TypeOK, Specs, Frame
  <2>2. providers' \in SUBSET Provider
    BY <1>7, <1>8, AppFacts DEF TypeOK
  <2> QED BY <1>7, <1>10, <2>1, <2>2, AppFacts DEF TypeOK, resource, secrets
<1>12. ProvidersInv'
  <2>1. /\ ProvidersInv /\ created \in Nat
    BY AppFacts DEF TypeOK
  <2>2. ASSUME NEW p \in providers' PROVE p.pk \in 1 .. created'
    BY <1>7, <1>8, <2>1 DEF ProvidersInv
  <2>3. ASSUME NEW p \in providers', NEW q \in providers',
               p.pk = q.pk \/ (p.name = q.name /\ p.kind = q.kind)
        PROVE  p = q
    <3>1. CASE p = m \/ q = m
      BY <1>4, <1>7, <1>8, <2>3, <3>1
    <3>2. CASE p # m /\ q # m
      BY <1>7, <2>1, <2>3, <3>2 DEF ProvidersInv
    <3> QED BY <3>1, <3>2
  <2>4. ASSUME NEW s \in Slugs, application[s] # None
        PROVE  /\ application[s] \in 0 .. created'
               /\ \A p \in providers' : p.pk = application[s] => p.name = s
    <3>1. /\ application[s] \in 0 .. created
          /\ \A p \in providers : p.pk = application[s] => p.name = s
      BY <2>1, <2>4 DEF ProvidersInv
    <3>2. application[s] \in 0 .. created'
      BY <1>7, <2>1, <3>1
    <3>3. m.pk = application[s] => m.name = s
      <4>1. CASE D = {}
        BY <1>7, <1>8, <2>1, <3>1, <4>1
      <4>2. CASE D # {}
        BY <1>4, <1>7, <1>8, <3>1, <4>2
      <4> QED BY <4>1, <4>2
    <3> QED BY <1>7, <3>1, <3>2, <3>3
  <2> QED BY <1>10, <2>2, <2>3, <2>4 DEF ProvidersInv
<1>13. RegisteredInv'
  <2>1. RegisteredInv /\ vault' = vault
    BY <1>10, AppFacts DEF secrets
  <2> QED BY <1>9, <1>10, <2>1 DEF RegisteredInv
<1>14. ASSUME NEW b \in Apps, b # a PROVE Untouched(Mine, b)
  <2>1. ~Belongs(Mine, b, w.slug)
    BY <1>2, <1>14, Private
  <2>2. ASSUME NEW p, Belongs(Mine, b, p.name) PROVE p \in providers' <=> p \in providers
    BY <1>4, <1>7, <1>8, <2>1, <2>2
  <2> QED BY <1>7, <1>10, <1>14, <2>2 DEF Untouched, FrameStep, resource, secrets
<1>15. PICK st, out : st = status[a] /\ out = f.out
  OBVIOUS
<1>16. /\ spec'[a] = spec[a] /\ gen'[a] = gen[a] /\ life'[a] = life[a] /\ status' = status
       /\ application' = application /\ outpost' = outpost /\ vault' = vault
       /\ published' = published /\ overlapped' = overlapped /\ swallowed' = swallowed
  BY <1>10 DEF resource, secrets
<1>17. ASSUME NEW k, NEW slug, NEW protocol, Provided(k, slug, protocol)
       PROVE  Provided(k, slug, protocol)'
  <2>1. PICK p \in providers : p.pk = k /\ p.name = slug /\ p.kind = protocol
    BY <1>17 DEF Provided
  <2>2. CASE p \in D
    BY <1>4, <1>7, <1>8, <2>1, <2>2 DEF Provided
  <2>3. CASE p \notin D
    BY <1>7, <2>1, <2>3 DEF Provided
  <2> QED BY <2>2, <2>3
<1>18. ASSUME NEW k, Provided(k, w.slug, w.protocol)'
       PROVE  Accepts(k, w)'
  <2>1. PICK p \in providers' : p.pk = k /\ p.name = w.slug /\ p.kind = w.protocol
    BY <1>18 DEF Provided
  <2>2. p = m
    BY <1>8, <1>7, <1>12, <2>1 DEF ProvidersInv
  <2>3. \A q \in providers' : q.pk = k => q = m
    BY <1>12, <2>1, <2>2 DEF ProvidersInv
  <2> QED BY <1>8, <1>9, <1>16, <2>3 DEF Accepts
<1>19. ASSUME NEW s, s \in {st, out}
       PROVE  NamedInv(Mine, a, s)' /\ SettledInv(a, s)'
  <2>1. NamedInv(Mine, a, s) /\ SettledInv(a, s) /\ (s = status[a] \/ s = run[a].out)
    BY <1>2, <1>15, <1>19, AppFacts DEF AppInv
  <2>2. NamedInv(Mine, a, s)'
    BY <1>16, <1>17, <2>1 DEF NamedInv, Belongs
  <2>3. SettledInv(a, s)'
    <3> SUFFICES ASSUME life[a] = "live", s.ready, s.observed = gen[a]
                 PROVE  SettledInv(a, s)'
      BY <1>16 DEF SettledInv
    <3>1. spec[a] = w
      BY <1>1, <1>2, <2>1, SettledWant DEF Want
    <3>2. Provided(s.provider, w.slug, w.protocol)
      BY <2>1, <3>1 DEF SettledInv
    <3>3. PICK k : k = s.provider
      OBVIOUS
    <3>4. Provided(k, w.slug, w.protocol)' /\ Accepts(k, w)'
      BY <1>17, <1>18, <3>2, <3>3
    <3> QED BY <1>16, <2>1, <3>1, <3>3, <3>4 DEF SettledInv
  <2> QED BY <2>2, <2>3
<1>20. Working(a)' /\ ListInv(a)'
  BY <1>7 DEF Working, ListInv, At
<1>21. JobInv(Mine, a)'
  BY <1>1, <1>2, <1>7, <1>10, <1>20, JobKept
<1>22. DoneInv(a)'
  <2>1. Provided(pk, w.slug, w.protocol)'
    BY <1>7, <1>8 DEF Provided
  <2>2. Accepts(pk, w)'
    BY <1>18, <2>1
  <2>3. w.protocol = "proxy" => run'[a].pc = "outpost"
    BY <1>7
  <2>4. run'[a].pc \in {"outpost", "application"}
    BY <1>7
  <2> QED BY <1>7, <2>1, <2>2, <2>3, <2>4 DEF DoneInv
<1>23. DeletedInv(a)'
  BY <1>1, <1>16, <1>20, AppFacts DEF AppInv, JobInv, DeletedInv, Working, At, Finalizing
<1>24. AppInv(Mine, a)'
  BY <1>7, <1>15, <1>16, <1>19, <1>20, <1>21, <1>22, <1>23 DEF AppInv
<1> QED BY <1>11, <1>12, <1>13, <1>14, <1>24, Assemble

\* Another handler's list is written to an outpost: it is overlapped, or all
\* that was there is in the list, but for what the handler takes out.
LEMMA ReplaceFacts ==
  ASSUME NEW Mine \in [Apps -> SUBSET Specs], SsoInv(Mine), NEW a \in Apps,
         NEW o \in Outposts, Replace(a, o), NEW gone,
         o \notin overlapped => outpost[o] \ {gone} \subseteq run[a].list
  PROVE  /\ outpost' \in [Outposts -> SUBSET Nat] /\ outpost'[o] = run[a].list
         /\ overlapped' \in SUBSET Outposts /\ overlapped \subseteq overlapped'
         /\ \A n \in Outposts : n # o => outpost'[n] = outpost[n]
         /\ \A n \in Outposts \ overlapped' :
              /\ \A k \in outpost[n] : k # gone => k \in outpost'[n]
              /\ \A b \in Apps : b # a /\ Writing(b, n) => outpost'[n] \subseteq outpost[n]
<1>1. PICK list \in SUBSET Nat : list = run[a].list
  BY AppFacts DEF Frame
<1>2. /\ outpost' = [outpost EXCEPT ![o] = list]
      /\ overlapped' = IF \E b \in Apps \ {a} : Writing(b, o)
                       THEN overlapped \cup {o} ELSE overlapped
  BY <1>1 DEF Replace
<1>3. outpost \in [Outposts -> SUBSET Nat] /\ overlapped \in SUBSET Outposts
  BY AppFacts DEF TypeOK
<1>4. /\ outpost' \in [Outposts -> SUBSET Nat] /\ outpost'[o] = list
      /\ \A n \in Outposts : n # o => outpost'[n] = outpost[n]
  BY <1>2, <1>3
<1>5. overlapped' \in SUBSET Outposts /\ overlapped \subseteq overlapped'
  BY <1>2, <1>3
<1>6. ASSUME NEW n \in Outposts \ overlapped'
      PROVE  /\ \A k \in outpost[n] : k # gone => k \in outpost'[n]
             /\ \A b \in Apps : b # a /\ Writing(b, n) => outpost'[n] \subseteq outpost[n]
  <2>1. CASE n = o
    BY <1>1, <1>2, <1>4, <1>5, <2>1
  <2>2. CASE n # o
    BY <1>4, <2>2
  <2> QED BY <2>1, <2>2
<1> QED BY <1>1, <1>4, <1>5, <1>6

LEMMA AttachKeeps ==
  ASSUME NEW Mine \in [Apps -> SUBSET Specs], PrivateSlugs(Mine), SsoInv(Mine),
         NEW a \in Apps, Attach(a)
  PROVE  SsoInv(Mine)'
<1>1. Working(a) /\ run[a].pc = "attach"
  BY DEF Attach, Working, At
<1>2. PICK f \in Frame, w \in Specs : f = run[a] /\ w = f.want /\ w \in Mine[a]
  BY <1>1, AppFacts DEF Want
<1>3. UNCHANGED <<resource, due, status, flows, secrets, providers, created, application,
                  registered, swallowed, ops, faults>>
  BY DEF Attach
<1>4. CASE ~(f.list \subseteq Pks)
  <2>1. Fail(a) /\ UNCHANGED <<outpost, overlapped>>
    BY <1>2, <1>4 DEF Attach
  <2>2. UNCHANGED <<shared, resource, status, swallowed, due, flows, issued, ops>>
    BY <1>3, <2>1 DEF shared, secrets, authentik
  <2>3. faults' \in 0 .. MaxFaults
    BY <1>3, AppFacts DEF TypeOK
  <2> QED BY <1>1, <2>1, <2>2, <2>3, FailKeeps
<1>5. CASE f.list \subseteq Pks
  <2> PICK o : o = w.outpost
    OBVIOUS
  <2>1. Replace(a, o) /\ o \in Outposts
    BY <1>2, <1>5 DEF Attach, Want, Specs
  <2>2. run' = [run EXCEPT ![a].pc = "application", ![a].list = {}]
    BY <1>2, <1>5 DEF Attach
  <2>3. PICK g : g = [f EXCEPT !.pc = "application", !.list = {}]
    OBVIOUS
  <2>4. run' = [run EXCEPT ![a] = g]
    BY <1>2, <2>2, <2>3, AppFacts DEF TypeOK, Frame
  <2>5. /\ g \in Frame /\ g.pc = "application" /\ g.want = w /\ g.gen = f.gen /\ g.pk = f.pk
        /\ g.out = f.out
    BY <1>2, <2>3 DEF Frame
  <2>6. run' \in [Apps -> Frame] /\ run'[a] = g /\ FrameStep(a)
    BY <2>4, <2>5, Framed, AppFacts
  <2>7. f.pk \in f.list /\ (o \notin overlapped => outpost[o] \ {None} \subseteq f.list)
    BY <1>1, <1>2, AppFacts DEF AppInv, ListInv, At, Want
  <2>8. /\ outpost' \in [Outposts -> SUBSET Nat] /\ outpost'[o] = f.list
        /\ overlapped' \in SUBSET Outposts /\ overlapped \subseteq overlapped'
        /\ \A n \in Outposts \ overlapped' :
             /\ \A k \in outpost[n] : k # None => k \in outpost'[n]
             /\ \A b \in Apps : b # a /\ Writing(b, n) => outpost'[n] \subseteq outpost[n]
    BY <1>2, <2>1, <2>7, ReplaceFacts
  <2>9. \A n \in Outposts \ overlapped' : outpost[n] \subseteq outpost'[n]
    BY <2>8, AppFacts, SsoAssumption DEF TypeOK
  <2>10. TypeOK' /\ ProvidersInv' /\ RegisteredInv'
    BY <1>3, <2>6, <2>8, AppFacts DEF TypeOK, ProvidersInv, RegisteredInv, resource, secrets
  <2>11. ASSUME NEW b \in Apps, b # a PROVE Untouched(Mine, b)
    BY <1>3, <2>6, <2>8, <2>9, <2>11 DEF Untouched, FrameStep, resource, secrets
  <2>12. PICK st, out : st = status[a] /\ out = f.out
    OBVIOUS
  <2>13. /\ spec'[a] = spec[a] /\ gen'[a] = gen[a] /\ life'[a] = life[a] /\ status' = status
         /\ application' = application /\ vault' = vault /\ providers' = providers
         /\ published' = published /\ swallowed' = swallowed
    BY <1>3 DEF resource, secrets
  <2>14. ASSUME NEW s, s \in {st, out}
         PROVE  NamedInv(Mine, a, s)' /\ SettledInv(a, s)'
    <3>1. NamedInv(Mine, a, s) /\ SettledInv(a, s) /\ spec[a].outpost \in Outposts
      BY <1>2, <2>12, <2>14, AppFacts DEF AppInv, Specs
    <3>2. NamedInv(Mine, a, s)'
      BY <2>13, <3>1 DEF NamedInv, Belongs, Provided
    <3>3. SettledInv(a, s)'
      BY <2>8, <2>9, <2>13, <3>1 DEF SettledInv, Provided, Accepts
    <3> QED BY <3>2, <3>3
  <2>15. Working(a)' /\ ListInv(a)'
    BY <2>5, <2>6 DEF Working, ListInv, At
  <2>16. JobInv(Mine, a)'
    BY <1>1, <1>2, <1>3, <2>5, <2>6, <2>15, JobKept
  <2>17. DoneInv(a)'
    <3>1. Provided(f.pk, w.slug, w.protocol) /\ Accepts(f.pk, w)
      BY <1>1, <1>2, AppFacts DEF AppInv, DoneInv
    <3>2. PICK k : k = f.pk
      OBVIOUS
    <3>3. Provided(k, w.slug, w.protocol)' /\ Accepts(k, w)'
      BY <2>13, <3>1, <3>2 DEF Provided, Accepts
    <3> QED BY <2>5, <2>6, <2>7, <2>8, <3>2, <3>3 DEF DoneInv
  <2>18. DeletedInv(a)'
    BY <1>1, <2>13, <2>15, AppFacts DEF AppInv, JobInv, DeletedInv, Working, At, Finalizing
  <2>19. AppInv(Mine, a)'
    BY <2>5, <2>6, <2>12, <2>13, <2>14, <2>15, <2>16, <2>17, <2>18 DEF AppInv
  <2> QED BY <2>10, <2>11, <2>19, Assemble
<1> QED BY <1>4, <1>5

\* The status that says Ready: all it says has been done.
LEMMA DoneKeeps ==
  ASSUME NEW Mine \in [Apps -> SUBSET Specs], SsoInv(Mine), NEW a \in Apps, Working(a),
         Done(a), UNCHANGED <<resource, status>>, NEW pk, pk = run[a].pk,
         NEW w, w = Want(a),
         Provided(pk, w.slug, w.protocol)', Accepts(pk, w)', application'[w.slug] = pk,
         w.protocol = "oauth2" /\ w.target => published'[a] = Location(w),
         w.protocol = "proxy" /\ w.outpost \notin overlapped' => pk \in outpost'[w.outpost],
         NEW out, out = run'[a].out
  PROVE  /\ run' \in [Apps -> Frame] /\ FrameStep(a)
         /\ JobInv(Mine, a)' /\ DoneInv(a)' /\ ListInv(a)' /\ ~Finalizing(a)'
         /\ NamedInv(Mine, a, out)' /\ SettledInv(a, out)'
<1>1. /\ run' \in [Apps -> Frame] /\ FrameStep(a) /\ run'[a].pc = "patch"
      /\ out.ready = TRUE /\ out.observed = run[a].gen /\ out.slug = w.slug
      /\ out.provider = pk /\ out.protocol = w.protocol
  BY DoneFrame, AppFacts
<1>2. /\ JobInv(Mine, a) /\ life[a] # "gone" /\ run[a].gen <= gen[a] /\ w \in Mine[a]
      /\ (run[a].gen = gen[a] => w = spec[a])
  BY AppFacts DEF AppInv, JobInv, Working, At
<1>3. /\ spec'[a] = spec[a] /\ gen'[a] = gen[a] /\ life'[a] = life[a] /\ status'[a] = status[a]
  BY DEF resource
<1>4. JobInv(Mine, a)'
  BY <1>1, <1>2, <1>3 DEF JobInv, At, Finalizing, Working
<1>5. DoneInv(a)' /\ ListInv(a)' /\ ~Finalizing(a)'
  BY <1>1 DEF DoneInv, Working, ListInv, At, Finalizing
<1>6. NamedInv(Mine, a, out)'
  <2>1. Belongs(Mine, a, out.slug)'
    BY <1>1, <1>2 DEF Belongs
  <2>2. out.slug # None
    BY <1>1, AppFacts, SsoAssumption DEF Specs
  <2> QED BY <1>1, <2>1, <2>2 DEF NamedInv
<1>7. SettledInv(a, out)'
  <2> SUFFICES ASSUME out.observed = gen[a]
               PROVE  SettledInv(a, out)'
    BY <1>3 DEF SettledInv
  <2>1. spec[a] = w
    BY <1>1, <1>2
  <2> QED BY <1>1, <1>3, <2>1 DEF SettledInv
<1> QED BY <1>1, <1>4, <1>5, <1>6, <1>7

LEMMA EnsureApplicationKeeps ==
  ASSUME NEW Mine \in [Apps -> SUBSET Specs], PrivateSlugs(Mine), SsoInv(Mine),
         NEW a \in Apps, EnsureApplication(a)
  PROVE  SsoInv(Mine)'
<1>1. Working(a) /\ run[a].pc = "application"
  BY DEF EnsureApplication, Working, At
<1>2. PICK f \in Frame, w \in Specs, pk \in {run[a].pk} :
         f = run[a] /\ w = f.want /\ w \in Mine[a] /\ pk = f.pk
  BY <1>1, AppFacts DEF Want
<1>3. /\ Provided(pk, w.slug, w.protocol) /\ Accepts(pk, w)
      /\ (w.protocol = "proxy" /\ w.outpost \notin overlapped => pk \in outpost[w.outpost])
  BY <1>1, <1>2, AppFacts DEF AppInv, DoneInv
<1>4. pk \in Pks /\ pk \in Nat
  BY <1>3, AppFacts DEF Provided, Pks, TypeOK, Provider
<1>5. /\ application' = [application EXCEPT ![w.slug] = pk]
      /\ IF w.protocol = "oauth2" /\ w.target THEN Goto(a, "publish") ELSE Done(a)
      /\ UNCHANGED <<resource, due, status, flows, secrets, providers, created, outpost,
                     history, ops, faults>>
  BY <1>2, <1>4 DEF EnsureApplication, Want
<1>6. /\ application' \in [Slugs -> Nat \cup {None}] /\ application'[w.slug] = pk
      /\ \A s \in Slugs : s # w.slug => application'[s] = application[s]
  BY <1>4, <1>5, AppFacts DEF TypeOK, Specs
<1>7. /\ spec'[a] = spec[a] /\ gen'[a] = gen[a] /\ life'[a] = life[a] /\ status' = status
      /\ outpost' = outpost /\ vault' = vault /\ providers' = providers
      /\ published' = published /\ overlapped' = overlapped /\ swallowed' = swallowed
  BY <1>5 DEF resource, secrets, history
<1>8. PICK st, out, new : st = status[a] /\ out = f.out /\ new = run'[a].out
  OBVIOUS
<1>9. Provided(pk, w.slug, w.protocol)' /\ Accepts(pk, w)'
  BY <1>3, <1>7 DEF Provided, Accepts
<1>10. /\ run' \in [Apps -> Frame] /\ FrameStep(a)
       /\ JobInv(Mine, a)' /\ DoneInv(a)' /\ ListInv(a)' /\ ~Finalizing(a)'
       /\ (new # out => NamedInv(Mine, a, new)' /\ SettledInv(a, new)')
  <2>1. CASE w.protocol = "oauth2" /\ w.target
    <3>1. /\ run' \in [Apps -> Frame] /\ FrameStep(a) /\ run'[a].pc = "publish"
          /\ run'[a].want = w /\ run'[a].gen = f.gen /\ run'[a].out = f.out /\ run'[a].pk = pk
      BY <1>2, <1>5, <2>1, GotoFrame, AppFacts DEF Pcs
    <3>2. Working(a)' /\ ListInv(a)' /\ ~Finalizing(a)'
      BY <3>1 DEF Working, ListInv, At, Finalizing
    <3>3. JobInv(Mine, a)'
      BY <1>1, <1>2, <1>5, <3>1, <3>2, JobKept
    <3>4. DoneInv(a)'
      BY <1>6, <1>9, <2>1, <3>1 DEF DoneInv
    <3> QED BY <1>8, <3>1, <3>2, <3>3, <3>4
  <2>2. CASE ~(w.protocol = "oauth2" /\ w.target)
    <3>1. Done(a) /\ UNCHANGED <<resource, status>> /\ w = Want(a) /\ pk = run[a].pk
      BY <1>2, <1>5, <2>2 DEF Want
    <3>2. /\ w.protocol = "oauth2" /\ w.target => published'[a] = Location(w)
          /\ w.protocol = "proxy" /\ w.outpost \notin overlapped' => pk \in outpost'[w.outpost]
      BY <1>3, <1>7, <2>2
    <3>3. application'[w.slug] = pk /\ new = run'[a].out
      BY <1>6, <1>8
    <3>4. /\ run' \in [Apps -> Frame] /\ FrameStep(a)
          /\ JobInv(Mine, a)' /\ DoneInv(a)' /\ ListInv(a)' /\ ~Finalizing(a)'
          /\ NamedInv(Mine, a, new)' /\ SettledInv(a, new)'
      BY <1>1, <1>9, <3>1, <3>2, <3>3, DoneKeeps
    <3> QED BY <3>4
  <2> QED BY <2>1, <2>2
<1>11. ASSUME NEW s, s \in {st, out}
       PROVE  NamedInv(Mine, a, s)' /\ SettledInv(a, s)'
  <2>1. NamedInv(Mine, a, s) /\ SettledInv(a, s) /\ (s = status[a] \/ s = run[a].out)
    BY <1>2, <1>8, <1>11, AppFacts DEF AppInv
  <2>2. NamedInv(Mine, a, s)'
    BY <1>7, <2>1 DEF NamedInv, Belongs, Provided
  <2>3. SettledInv(a, s)'
    <3> SUFFICES ASSUME life[a] = "live", s.ready, s.observed = gen[a]
                 PROVE  SettledInv(a, s)'
      BY <1>7 DEF SettledInv
    <3>1. spec[a] = w
      BY <1>1, <1>2, <2>1, SettledWant DEF Want
    <3>2. Provided(s.provider, w.slug, w.protocol)
      BY <2>1, <3>1 DEF SettledInv
    <3>3. s.provider = pk
      BY <1>3, <3>2, AppFacts DEF Provided, ProvidersInv
    <3> QED BY <1>6, <1>7, <2>1, <3>1, <3>3 DEF SettledInv, Provided, Accepts
  <2> QED BY <2>2, <2>3
<1>12. DeletedInv(a)'
  BY <1>1, <1>7, <1>10, AppFacts DEF AppInv, JobInv, DeletedInv, Working, At, Finalizing
<1>13. AppInv(Mine, a)'
  <2>1. run'[a].out = new /\ status'[a] = st
    BY <1>7, <1>8
  <2> QED BY <1>10, <1>11, <1>12, <2>1 DEF AppInv
<1>14. ASSUME NEW b \in Apps, b # a PROVE Untouched(Mine, b)
  <2>1. ASSUME NEW s \in Mine[b] PROVE application'[s.slug] = application[s.slug]
    <3>1. s.slug # w.slug /\ s.slug \in Slugs
      BY <1>2, <1>14, Private DEF Specs
    <3> QED BY <1>6, <3>1
  <2> QED BY <1>5, <1>7, <1>10, <1>14, <2>1
      DEF Untouched, FrameStep, resource, secrets, history
<1>15. TypeOK' /\ RegisteredInv'
  BY <1>5, <1>6, <1>7, <1>10, AppFacts DEF TypeOK, RegisteredInv, resource, secrets, history
<1>16. ProvidersInv'
  <2>1. ProvidersInv
    BY AppFacts
  <2>2. \A p \in providers : p.pk = pk => p.name = w.slug
    BY <1>3, <2>1 DEF Provided, ProvidersInv
  <2>3. pk \in 0 .. created
    BY <1>3, <2>1, AppFacts DEF Provided, ProvidersInv, TypeOK
  <2>4. ASSUME NEW s \in Slugs, application'[s] # None
        PROVE  /\ application'[s] \in 0 .. created
               /\ \A p \in providers : p.pk = application'[s] => p.name = s
    BY <1>6, <2>1, <2>2, <2>3, <2>4 DEF ProvidersInv
  <2> QED BY <1>5, <2>1, <2>4 DEF ProvidersInv
<1> QED BY <1>13, <1>14, <1>15, <1>16, Assemble

LEMMA PublishKeeps ==
  ASSUME NEW Mine \in [Apps -> SUBSET Specs], SsoInv(Mine), NEW a \in Apps, Publish(a)
  PROVE  SsoInv(Mine)'
<1>1. Working(a) /\ run[a].pc = "publish"
  BY DEF Publish, Working, At
<1>2. PICK f \in Frame, w \in Specs, pk \in {run[a].pk} :
         f = run[a] /\ w = f.want /\ w \in Mine[a] /\ pk = f.pk
  BY <1>1, AppFacts DEF Want
<1>3. /\ Provided(pk, w.slug, w.protocol) /\ Accepts(pk, w) /\ application[w.slug] = pk
      /\ (w.protocol = "proxy" /\ w.outpost \notin overlapped => pk \in outpost[w.outpost])
  BY <1>1, <1>2, AppFacts DEF AppInv, DoneInv
<1>4. /\ published' = [published EXCEPT ![a] = Location(w)] /\ Done(a)
      /\ UNCHANGED <<resource, due, status, flows, vault, issued, authentik, history, ops, faults>>
  BY <1>2 DEF Publish, Source, Want
<1>5. /\ published' \in [Apps -> Locations \cup {None}] /\ published'[a] = Location(w)
      /\ \A b \in Apps : b # a => published'[b] = published[b]
  BY <1>2, <1>4, AppFacts, LocationType DEF TypeOK
<1>6. /\ spec'[a] = spec[a] /\ gen'[a] = gen[a] /\ life'[a] = life[a] /\ status' = status
      /\ outpost' = outpost /\ vault' = vault /\ providers' = providers
      /\ application' = application /\ overlapped' = overlapped /\ swallowed' = swallowed
  BY <1>4 DEF resource, authentik, history
<1>7. PICK st, new : st = status[a] /\ new = run'[a].out
  OBVIOUS
<1>8. Provided(pk, w.slug, w.protocol)' /\ Accepts(pk, w)'
  BY <1>3, <1>6 DEF Provided, Accepts
<1>9. /\ run' \in [Apps -> Frame] /\ FrameStep(a)
      /\ JobInv(Mine, a)' /\ DoneInv(a)' /\ ListInv(a)' /\ ~Finalizing(a)'
      /\ NamedInv(Mine, a, new)' /\ SettledInv(a, new)'
  <2>1. Done(a) /\ UNCHANGED <<resource, status>> /\ w = Want(a) /\ pk = run[a].pk
    BY <1>2, <1>4 DEF Want
  <2> QED BY <1>1, <1>3, <1>5, <1>6, <1>7, <1>8, <2>1, DoneKeeps
<1>10. NamedInv(Mine, a, st)' /\ SettledInv(a, st)'
  <2>1. NamedInv(Mine, a, st) /\ SettledInv(a, st)
    BY <1>7, AppFacts DEF AppInv
  <2>2. NamedInv(Mine, a, st)'
    BY <1>6, <2>1 DEF NamedInv, Belongs, Provided
  <2>3. SettledInv(a, st)'
    <3> SUFFICES ASSUME life[a] = "live", st.ready, st.observed = gen[a]
                 PROVE  SettledInv(a, st)'
      BY <1>6 DEF SettledInv
    <3>1. spec[a] = w
      BY <1>1, <1>2, <1>7, SettledWant DEF Want
    <3> QED BY <1>5, <1>6, <2>1, <3>1 DEF SettledInv, Provided, Accepts
  <2> QED BY <2>2, <2>3
<1>11. DeletedInv(a)'
  BY <1>1, <1>6, <1>9, AppFacts DEF AppInv, JobInv, DeletedInv, Working, At, Finalizing
<1>12. AppInv(Mine, a)'
  <2>1. run'[a].out = new /\ status'[a] = st
    BY <1>6, <1>7
  <2> QED BY <1>9, <1>10, <1>11, <2>1 DEF AppInv
<1>13. ASSUME NEW b \in Apps, b # a PROVE Untouched(Mine, b)
  BY <1>4, <1>5, <1>6, <1>9, <1>13 DEF Untouched, FrameStep, resource
<1>14. TypeOK' /\ ProvidersInv' /\ RegisteredInv'
  BY <1>4, <1>5, <1>6, <1>9, AppFacts
  DEF TypeOK, ProvidersInv, RegisteredInv, resource, authentik, history
<1> QED BY <1>12, <1>13, <1>14, Assemble

----------------------------------------------------------------------------
(* Steps of a finalizer *)

LEMMA FinalizerKeeps ==
  ASSUME NEW Mine \in [Apps -> SUBSET Specs], SsoInv(Mine), NEW a \in Apps,
         spec'[a] = spec[a], gen'[a] = gen[a], status'[a] = status[a],
         NEW st, st = status[a], NEW out, out = run'[a].out, out.observed <= gen[a],
         NamedInv(Mine, a, st)', NamedInv(Mine, a, out)', ListInv(a)', DeletedInv(a)',
         \/ life'[a] = "gone" /\ run'[a] = Idle
         \/ life'[a] = "deleting" /\ run'[a].pc \in {"detach", "destroy"} /\ st.provider # None
  PROVE  AppInv(Mine, a)'
<1>1. JobInv(Mine, a) /\ life'[a] # "live"
  BY AppFacts DEF AppInv
<1>2. SettledInv(a, st)' /\ SettledInv(a, out)'
  BY <1>1 DEF SettledInv
<1>3. JobInv(Mine, a)'
  BY <1>1, IdleType DEF JobInv, At, Finalizing, Working
<1>4. DoneInv(a)'
  BY IdleType DEF DoneInv, Working
<1> QED BY <1>2, <1>3, <1>4 DEF AppInv

LEMMA SwallowFacts ==
  ASSUME TypeOK, NEW a \in Apps, Swallow(a)
  PROVE  /\ faults' \in 0 .. MaxFaults /\ swallowed' \in SUBSET Apps /\ a \in swallowed'
         /\ \A b \in Apps : b # a => (b \in swallowed' <=> b \in swallowed)
  BY SsoAssumption DEF Swallow, TypeOK

LEMMA GoneFacts ==
  ASSUME TypeOK, NEW a \in Apps, Gone(a)
  PROVE  /\ life' \in [Apps -> {"live", "deleting", "gone"}] /\ life'[a] = "gone"
         /\ run' \in [Apps -> Frame] /\ run'[a] = Idle /\ FrameStep(a)
         /\ published' \in [Apps -> Locations \cup {None}] /\ vault' = vault
         /\ \A b \in Apps : b # a => life'[b] = life[b] /\ published'[b] = published[b]
<1>1. /\ life' = [life EXCEPT ![a] = "gone"] /\ run' = [run EXCEPT ![a] = Idle]
      /\ published' = [published EXCEPT ![a] = None] /\ vault' = vault
  BY DEF Gone, Retained
<1>2. run' \in [Apps -> Frame] /\ run'[a] = Idle /\ FrameStep(a)
  BY <1>1, Framed, IdleType
<1> QED BY <1>1, <1>2 DEF TypeOK

LEMMA UnavailableKeeps ==
  ASSUME NEW Mine \in [Apps -> SUBSET Specs], SsoInv(Mine), NEW a \in Apps, Unavailable(a)
  PROVE  SsoInv(Mine)'
<1>1. /\ Swallow(a) /\ Gone(a)
      /\ UNCHANGED <<spec, gen, due, status, flows, issued, authentik, registered, overlapped, ops>>
  BY DEF Unavailable
<1>2. /\ faults' \in 0 .. MaxFaults /\ swallowed' \in SUBSET Apps /\ a \in swallowed'
      /\ \A b \in Apps : b # a => (b \in swallowed' <=> b \in swallowed)
  BY <1>1, SwallowFacts, AppFacts
<1>3. /\ life' \in [Apps -> {"live", "deleting", "gone"}] /\ life'[a] = "gone"
      /\ run' \in [Apps -> Frame] /\ run'[a] = Idle /\ FrameStep(a)
      /\ published' \in [Apps -> Locations \cup {None}] /\ vault' = vault
      /\ \A b \in Apps : b # a => life'[b] = life[b] /\ published'[b] = published[b]
  BY <1>1, GoneFacts, AppFacts
<1>4. TypeOK' /\ ProvidersInv' /\ RegisteredInv'
  BY <1>1, <1>2, <1>3, AppFacts DEF TypeOK, ProvidersInv, RegisteredInv, authentik
<1>5. ASSUME NEW b \in Apps, b # a PROVE Untouched(Mine, b)
  BY <1>1, <1>2, <1>3, <1>5 DEF Untouched, FrameStep, authentik
<1>6. PICK st, none : st = status[a] /\ none = NoStatus
  OBVIOUS
<1>7. NamedInv(Mine, a, st)' /\ NamedInv(Mine, a, none)'
  <2>1. NamedInv(Mine, a, st)
    BY <1>6, AppFacts DEF AppInv
  <2> QED BY <1>3, <1>6, <2>1, IdleType DEF NamedInv, Belongs
<1>8. ListInv(a)' /\ DeletedInv(a)'
  BY <1>2, <1>3, IdleType DEF ListInv, At, DeletedInv
<1>9. none = run'[a].out /\ none.observed <= gen[a] /\ status'[a] = st
      /\ spec'[a] = spec[a] /\ gen'[a] = gen[a]
  BY <1>1, <1>3, <1>6, IdleType, AppFacts
<1>10. AppInv(Mine, a)'
  BY <1>3, <1>6, <1>7, <1>8, <1>9, FinalizerKeeps
<1> QED BY <1>4, <1>5, <1>10, Assemble

\* The application is deleted, or that failed.
LEMMA FinalizeKeeps ==
  ASSUME NEW Mine \in [Apps -> SUBSET Specs], PrivateSlugs(Mine), SsoInv(Mine),
         NEW a \in Apps, Finalize(a)
  PROVE  SsoInv(Mine)'
<1>1. PICK st \in Status, none \in {NoStatus} : st = status[a] /\ none = NoStatus
  BY AppFacts
<1>2. PICK slug : slug = IF st.slug # None THEN st.slug ELSE spec[a].slug
  OBVIOUS
<1>3. NamedInv(Mine, a, st) /\ DeletedInv(a) /\ SettledInv(a, st) /\ JobInv(Mine, a)
      /\ life[a] = "deleting" /\ run[a] = Idle
  BY <1>1, AppFacts DEF AppInv, JobInv, Finalize
<1>4. Belongs(Mine, a, slug) /\ slug \in Slugs
  <2>1. Belongs(Mine, a, slug)
    BY <1>2, <1>3, AppFacts DEF NamedInv, Belongs
  <2> QED BY <2>1 DEF Belongs, Specs
<1>5. PICK o, list : o = spec[a].outpost /\ list = outpost[o] \ {st.provider}
  OBVIOUS
<1>6. list \in SUBSET Nat
  BY <1>5, AppFacts DEF TypeOK, Specs
<1>7. UNCHANGED <<spec, gen, due, status, flows, issued, providers, created, outpost, registered,
                  overlapped, ops>>
  BY DEF Finalize
<1>8. \/ application' = [application EXCEPT ![slug] = None] /\ UNCHANGED <<faults, swallowed>>
      \/ Swallow(a) /\ UNCHANGED application
  BY <1>1, <1>2 DEF Finalize
<1>9. /\ application' \in [Slugs -> Nat \cup {None}]
      /\ \A s \in Slugs : application'[s] # None => application'[s] = application[s]
      /\ \A s \in Slugs : s # slug => application'[s] = application[s]
      /\ a \notin swallowed' => application'[slug] = None
      /\ faults' \in 0 .. MaxFaults /\ swallowed' \in SUBSET Apps
      /\ \A b \in Apps : b # a => (b \in swallowed' <=> b \in swallowed)
  <2>1. CASE application' = [application EXCEPT ![slug] = None] /\ UNCHANGED <<faults, swallowed>>
    BY <1>4, <2>1, AppFacts DEF TypeOK
  <2>2. CASE Swallow(a) /\ UNCHANGED application
    BY <2>2, SwallowFacts, AppFacts DEF TypeOK
  <2> QED BY <1>8, <2>1, <2>2
<1>10. /\ life' \in [Apps -> {"live", "deleting", "gone"}]
       /\ run' \in [Apps -> Frame] /\ FrameStep(a) /\ run'[a].out = none
       /\ published' \in [Apps -> Locations \cup {None}] /\ vault' = vault
       /\ \A b \in Apps : b # a => life'[b] = life[b] /\ published'[b] = published[b]
       /\ \/ life'[a] = "gone" /\ run'[a] = Idle /\ st.provider = None
          \/ /\ life'[a] = "deleting" /\ run'[a].pc \in {"detach", "destroy"}
             /\ st.provider # None
             /\ run'[a].pc = "detach" => run'[a].list = list
  <2>1. CASE st.provider = None
    <3>1. Gone(a)
      BY <1>1, <2>1 DEF Finalize
    <3> QED BY <1>1, <2>1, <3>1, GoneFacts, IdleType, AppFacts
  <2>2. CASE st.provider # None
    <3>1. UNCHANGED <<life, published, vault>>
      BY <1>1, <2>2 DEF Finalize
    <3>2. PICK detach, destroy :
             /\ detach = [Idle EXCEPT !.pc = "detach", !.list = list]
             /\ destroy = [Idle EXCEPT !.pc = "destroy"]
      OBVIOUS
    <3>3. run' = [run EXCEPT ![a] = detach] \/ run' = [run EXCEPT ![a] = destroy]
      BY <1>1, <1>5, <2>2, <3>2 DEF Finalize
    <3>4. /\ detach \in Frame /\ detach.pc = "detach" /\ detach.list = list /\ detach.out = NoStatus
          /\ destroy \in Frame /\ destroy.pc = "destroy" /\ destroy.out = NoStatus
      BY <1>6, <3>2, IdleType DEF Idle, Frame
    <3>5. /\ run' \in [Apps -> Frame] /\ FrameStep(a)
          /\ run'[a] = detach \/ run'[a] = destroy
      BY <3>3, <3>4, Framed, AppFacts
    <3> QED BY <1>1, <1>3, <2>2, <3>1, <3>4, <3>5, AppFacts DEF TypeOK
  <2> QED BY <2>1, <2>2
<1>11. TypeOK' /\ ProvidersInv' /\ RegisteredInv'
  <2>1. TypeOK' /\ RegisteredInv'
    BY <1>7, <1>9, <1>10, AppFacts DEF TypeOK, RegisteredInv
  <2>2. ProvidersInv'
    BY <1>7, <1>9, AppFacts DEF ProvidersInv
  <2> QED BY <2>1, <2>2
<1>12. ASSUME NEW b \in Apps, b # a PROVE Untouched(Mine, b)
  <2>1. ASSUME NEW s \in Mine[b] PROVE application'[s.slug] = application[s.slug]
    <3>1. s.slug # slug /\ s.slug \in Slugs
      BY <1>4, <1>12, Private DEF Specs, Belongs
    <3> QED BY <1>9, <3>1
  <2> QED BY <1>7, <1>9, <1>10, <1>12, <2>1 DEF Untouched, FrameStep
<1>13. NamedInv(Mine, a, st)' /\ NamedInv(Mine, a, none)'
  BY <1>1, <1>3, <1>7, IdleType DEF NamedInv, Belongs, Provided
<1>14. status'[a] = st /\ spec'[a] = spec[a] /\ gen'[a] = gen[a] /\ none.observed <= gen[a]
  BY <1>1, <1>7, IdleType, AppFacts
<1>15. ListInv(a)'
  BY <1>1, <1>5, <1>7, <1>10, IdleType DEF ListInv, At
<1>16. DeletedInv(a)'
  <2>1. st.provider # None => slug = st.slug
    BY <1>2, <1>3 DEF NamedInv
  <2> QED BY <1>9, <1>10, <1>14, <2>1 DEF DeletedInv
<1>17. AppInv(Mine, a)'
  BY <1>1, <1>10, <1>13, <1>14, <1>15, <1>16, FinalizerKeeps
<1> QED BY <1>11, <1>12, <1>17, Assemble

\* What the finalizer removes by its pk has its own slug.
LEMMA OwnProvider ==
  ASSUME NEW Mine \in [Apps -> SUBSET Specs], SsoInv(Mine), NEW a \in Apps, Finalizing(a),
         NEW st, st = status[a]
  PROVE  /\ NamedInv(Mine, a, st) /\ Belongs(Mine, a, st.slug) /\ life[a] = "deleting"
         /\ st.provider # None /\ st.slug # None
         /\ Provided(st.provider, st.slug, st.protocol)
         /\ \A p \in providers : p.pk = st.provider => p.name = st.slug /\ p.kind = st.protocol
<1>1. /\ NamedInv(Mine, a, st) /\ life[a] = "deleting" /\ st.provider # None
  BY AppFacts DEF AppInv, JobInv
<1>2. /\ Belongs(Mine, a, st.slug) /\ Provided(st.provider, st.slug, st.protocol) /\ st.slug # None
  BY <1>1 DEF NamedInv
<1> QED BY <1>1, <1>2, AppFacts DEF Provided, ProvidersInv

LEMMA DetachKeeps ==
  ASSUME NEW Mine \in [Apps -> SUBSET Specs], PrivateSlugs(Mine), SsoInv(Mine),
         NEW a \in Apps, Detach(a)
  PROVE  SsoInv(Mine)'
<1>1. Finalizing(a) /\ run[a].pc = "detach"
  BY DEF Detach, Finalizing, At
<1>2. PICK st \in Status, f \in Frame, o \in Outposts :
         st = status[a] /\ f = run[a] /\ o = spec[a].outpost
  BY AppFacts DEF Specs
<1>3. /\ NamedInv(Mine, a, st) /\ Belongs(Mine, a, st.slug) /\ life[a] = "deleting"
      /\ st.provider # None
      /\ \A p \in providers : p.pk = st.provider => p.name = st.slug
  BY <1>1, <1>2, OwnProvider
<1>4. UNCHANGED <<resource, due, status, flows, secrets, providers, created, application,
                  registered, ops>>
  BY DEF Detach
<1>5. PICK out, g : out = f.out /\ g = [f EXCEPT !.pc = "destroy", !.list = {}]
  OBVIOUS
<1>6. g \in Frame /\ g.pc = "destroy" /\ g.out = out
  BY <1>5 DEF Frame
<1>7. run' = [run EXCEPT ![a] = g]
  BY <1>2, <1>5, AppFacts DEF Detach, TypeOK, Frame
<1>8. run' \in [Apps -> Frame] /\ run'[a] = g /\ FrameStep(a)
  BY <1>6, <1>7, Framed, AppFacts
<1>9. /\ outpost' \in [Outposts -> SUBSET Nat]
      /\ overlapped' \in SUBSET Outposts /\ overlapped \subseteq overlapped'
      /\ \A n \in Outposts \ overlapped' :
           /\ \A k \in outpost[n] : k # st.provider => k \in outpost'[n]
           /\ \A b \in Apps : b # a /\ Writing(b, n) => outpost'[n] \subseteq outpost[n]
      /\ faults' \in 0 .. MaxFaults /\ swallowed' \in SUBSET Apps
      /\ swallowed \subseteq swallowed'
      /\ \A b \in Apps : b # a => (b \in swallowed' <=> b \in swallowed)
  <2>1. outpost \in [Outposts -> SUBSET Nat] /\ overlapped \in SUBSET Outposts
        /\ faults \in 0 .. MaxFaults /\ swallowed \in SUBSET Apps /\ TypeOK
    BY AppFacts DEF TypeOK
  <2>2. CASE Replace(a, o) /\ UNCHANGED <<faults, swallowed>>
    <3>1. o \notin overlapped => outpost[o] \ {st.provider} \subseteq run[a].list
      BY <1>1, <1>2, AppFacts DEF AppInv, ListInv, At
    <3>2. PICK k : k = st.provider
      OBVIOUS
    <3> QED BY <2>1, <2>2, <3>1, <3>2, ReplaceFacts
  <2>3. CASE UNCHANGED <<outpost, overlapped, faults, swallowed>>
    BY <2>1, <2>3
  <2>4. CASE Swallow(a) /\ UNCHANGED <<outpost, overlapped>>
    BY <2>1, <2>4, SwallowFacts DEF Swallow
  <2> QED BY <1>2, <2>2, <2>3, <2>4 DEF Detach
<1>10. TypeOK' /\ ProvidersInv' /\ RegisteredInv'
  BY <1>4, <1>8, <1>9, AppFacts DEF TypeOK, ProvidersInv, RegisteredInv, resource, secrets
<1>11. ASSUME NEW b \in Apps, b # a PROVE Untouched(Mine, b)
  <2>1. ASSUME NEW p \in providers, Belongs(Mine, b, p.name) PROVE p.pk # st.provider
    BY <1>3, <1>11, <2>1, Private DEF Belongs
  <2> QED BY <1>4, <1>8, <1>9, <1>11, <2>1 DEF Untouched, FrameStep, resource, secrets
<1>12. /\ spec'[a] = spec[a] /\ gen'[a] = gen[a] /\ status'[a] = st /\ life'[a] = "deleting"
       /\ run'[a].out = out /\ run'[a].pc = "destroy" /\ application' = application
       /\ providers' = providers
  BY <1>2, <1>3, <1>4, <1>6, <1>8 DEF resource
<1>13. NamedInv(Mine, a, out) /\ DeletedInv(a) /\ out.observed <= gen[a]
  BY <1>2, <1>5, AppFacts DEF AppInv, JobInv
<1>14. NamedInv(Mine, a, st)' /\ NamedInv(Mine, a, out)'
  BY <1>3, <1>12, <1>13 DEF NamedInv, Belongs, Provided
<1>15. ListInv(a)' /\ DeletedInv(a)'
  BY <1>1, <1>2, <1>3, <1>9, <1>12, <1>13 DEF ListInv, At, DeletedInv
<1>16. AppInv(Mine, a)'
  BY <1>2, <1>3, <1>12, <1>13, <1>14, <1>15, FinalizerKeeps
<1> QED BY <1>10, <1>11, <1>16, Assemble

LEMMA DestroyKeeps ==
  ASSUME NEW Mine \in [Apps -> SUBSET Specs], PrivateSlugs(Mine), SsoInv(Mine),
         NEW a \in Apps, Destroy(a)
  PROVE  SsoInv(Mine)'
<1>1. Finalizing(a) /\ run[a].pc = "destroy"
  BY DEF Destroy, Finalizing, At
<1>2. PICK st \in Status, none \in {NoStatus} : st = status[a] /\ none = NoStatus
  BY AppFacts
<1>3. /\ NamedInv(Mine, a, st) /\ Belongs(Mine, a, st.slug) /\ life[a] = "deleting"
      /\ st.provider # None /\ Provided(st.provider, st.slug, st.protocol)
      /\ \A p \in providers : p.pk = st.provider => p.name = st.slug /\ p.kind = st.protocol
  BY <1>1, <1>2, OwnProvider
<1>4. PICK dead, pks : /\ dead = {p \in providers : p.pk = st.provider /\ p.kind = st.protocol}
                       /\ pks = {p.pk : p \in dead}
  OBVIOUS
<1>5. /\ \A p \in dead : p.name = st.slug /\ p.pk = st.provider
      /\ pks = {st.provider}
      /\ \A p \in providers : p.name = st.slug /\ p.kind = st.protocol => p \in dead
      /\ \A p \in providers : p.pk = st.provider => p \in dead
  <2>1. PICK q \in providers : q.pk = st.provider /\ q.name = st.slug /\ q.kind = st.protocol
    BY <1>3 DEF Provided
  <2>2. \A p \in providers : p.name = st.slug /\ p.kind = st.protocol => p = q
    BY <2>1, AppFacts DEF ProvidersInv
  <2> QED BY <1>3, <1>4, <2>1, <2>2
<1>6. /\ Gone(a)
      /\ UNCHANGED <<spec, gen, due, status, flows, issued, created, registered, overlapped, ops>>
      /\ \/ /\ providers' = providers \ dead
            /\ outpost' = [o \in Outposts |-> outpost[o] \ pks]
            /\ application' = [s \in Slugs |-> IF application[s] \in pks THEN 0
                                               ELSE application[s]]
            /\ UNCHANGED <<faults, swallowed>>
         \/ Swallow(a) /\ UNCHANGED <<providers, outpost, application>>
  BY <1>2, <1>4 DEF Destroy
<1>7. /\ life' \in [Apps -> {"live", "deleting", "gone"}] /\ life'[a] = "gone"
      /\ run' \in [Apps -> Frame] /\ run'[a] = Idle /\ FrameStep(a)
      /\ published' \in [Apps -> Locations \cup {None}] /\ vault' = vault
      /\ \A b \in Apps : b # a => life'[b] = life[b] /\ published'[b] = published[b]
  BY <1>6, GoneFacts, AppFacts
<1>8. /\ providers' \subseteq providers /\ providers \ dead \subseteq providers'
      /\ outpost' \in [Outposts -> SUBSET Nat]
      /\ \A o \in Outposts : outpost'[o] \subseteq outpost[o] /\ outpost[o] \ pks \subseteq outpost'[o]
      /\ application' \in [Slugs -> Nat \cup {None}]
      /\ \A s \in Slugs : \/ application'[s] = application[s]
                          \/ application[s] \in pks /\ application'[s] = 0 /\ providers' = providers \ dead
      /\ a \notin swallowed' => providers' = providers \ dead /\ swallowed' = swallowed
      /\ faults' \in 0 .. MaxFaults /\ swallowed' \in SUBSET Apps
      /\ \A b \in Apps : b # a => (b \in swallowed' <=> b \in swallowed)
  <2>1. outpost \in [Outposts -> SUBSET Nat] /\ application \in [Slugs -> Nat \cup {None}]
        /\ faults \in 0 .. MaxFaults /\ swallowed \in SUBSET Apps /\ TypeOK
    BY AppFacts DEF TypeOK
  <2>2. CASE /\ providers' = providers \ dead
             /\ outpost' = [o \in Outposts |-> outpost[o] \ pks]
             /\ application' = [s \in Slugs |-> IF application[s] \in pks THEN 0
                                                ELSE application[s]]
             /\ UNCHANGED <<faults, swallowed>>
    BY <2>1, <2>2
  <2>3. CASE Swallow(a) /\ UNCHANGED <<providers, outpost, application>>
    BY <2>1, <2>3, SwallowFacts
  <2> QED BY <1>6, <2>2, <2>3
<1>9. TypeOK' /\ RegisteredInv'
  BY <1>6, <1>7, <1>8, AppFacts DEF TypeOK, RegisteredInv
<1>10. ProvidersInv'
  <2>1. ProvidersInv /\ created \in Nat /\ created' = created
    BY <1>6, AppFacts DEF TypeOK
  <2>2. ASSUME NEW p \in providers'
        PROVE  /\ p.pk \in 1 .. created
               /\ \A q \in providers' :
                    p.pk = q.pk \/ (p.name = q.name /\ p.kind = q.kind) => p = q
    BY <1>8, <2>1 DEF ProvidersInv
  <2>3. ASSUME NEW s \in Slugs, application'[s] # None
        PROVE  /\ application'[s] \in 0 .. created
               /\ \A p \in providers' : p.pk = application'[s] => p.name = s
    <3>1. CASE application'[s] = application[s]
      BY <1>8, <2>1, <2>3, <3>1 DEF ProvidersInv
    <3>2. CASE application'[s] = 0
      BY <2>1, <2>2, <3>2
    <3> QED BY <1>8, <3>1, <3>2
  <2> QED BY <2>1, <2>2, <2>3 DEF ProvidersInv
<1>11. ASSUME NEW b \in Apps, b # a PROVE Untouched(Mine, b)
  <2>1. ASSUME NEW s \in Mine[b]
        PROVE  s.slug # st.slug /\ s.slug \in Slugs
    BY <1>3, <1>11, <2>1, Private DEF Belongs, Specs
  <2>2. ASSUME NEW s \in Mine[b] PROVE application'[s.slug] = application[s.slug]
    <3>1. PICK q \in providers : q.pk = st.provider /\ q.name = st.slug
      BY <1>3 DEF Provided
    <3>2. st.provider # None
      BY <1>3
    <3>3. application[s.slug] # st.provider
      BY <2>1, <3>1, <3>2, AppFacts DEF ProvidersInv
    <3> QED BY <1>5, <1>8, <2>1, <3>3
  <2>3. ASSUME NEW p, Belongs(Mine, b, p.name) PROVE p \notin dead
    BY <1>5, <2>1, <2>3 DEF Belongs
  <2>4. ASSUME NEW p, Belongs(Mine, b, p.name)
        PROVE  p \in providers' <=> p \in providers
    BY <1>8, <2>3, <2>4
  <2>5. ASSUME NEW p \in providers, Belongs(Mine, b, p.name) PROVE p.pk \notin pks
    BY <1>5, <2>3, <2>5
  <2> QED BY <1>6, <1>7, <1>8, <1>11, <2>2, <2>4, <2>5 DEF Untouched, FrameStep
<1>12. NamedInv(Mine, a, st)' /\ NamedInv(Mine, a, none)'
  BY <1>2, <1>3, <1>7, IdleType DEF NamedInv, Belongs
<1>13. status'[a] = st /\ spec'[a] = spec[a] /\ gen'[a] = gen[a] /\ none.observed <= gen[a]
       /\ none = run'[a].out
  BY <1>2, <1>6, <1>7, IdleType, AppFacts
<1>14. ListInv(a)'
  BY <1>7, IdleType DEF ListInv, At
<1>15. DeletedInv(a)'
  <2> SUFFICES ASSUME a \notin swallowed'
               PROVE  DeletedInv(a)'
    BY DEF DeletedInv
  <2>1. application[st.slug] = None
    BY <1>1, <1>2, <1>3, <1>8, AppFacts DEF AppInv, DeletedInv
  <2>2. None \notin pks /\ st.slug \in Slugs
    BY <1>3, <1>5 DEF Belongs, Specs
  <2>3. application'[st.slug] = None
    BY <1>8, <2>1, <2>2
  <2>4. \A p \in providers' : ~(p.name = st.slug /\ p.kind = st.protocol)
    BY <1>5, <1>8
  <2> QED BY <1>13, <2>3, <2>4 DEF DeletedInv
<1>16. AppInv(Mine, a)'
  BY <1>2, <1>7, <1>12, <1>13, <1>14, <1>15, FinalizerKeeps
<1> QED BY <1>9, <1>10, <1>11, <1>16, Assemble

----------------------------------------------------------------------------
(* The invariant, and what follows from it *)

LEMMA InitHolds ==
  ASSUME NEW Mine \in [Apps -> SUBSET Specs], PrivateSlugs(Mine), Init
  PROVE  SsoInv(Mine)
<1>1. \A a \in Apps : spec[a] \in Mine[a] /\ spec[a] \in Specs
  BY SsoAssumption DEF Init, PrivateSlugs
<1>2. /\ gen = [a \in Apps |-> 1] /\ life = [a \in Apps |-> "live"]
      /\ status = [a \in Apps |-> NoStatus] /\ run = [a \in Apps |-> Idle]
      /\ providers = {} /\ registered = {} /\ application = [s \in Slugs |-> None]
  BY DEF Init
<1>3. TypeOK
  <2>1. spec \in [Apps -> Specs]
    BY <1>1 DEF Init
  <2>2. gen \in [Apps -> Nat] /\ life \in [Apps -> {"live", "deleting", "gone"}]
    BY <1>2
  <2>3. status \in [Apps -> Status] /\ run \in [Apps -> Frame]
    BY <1>2, IdleType
  <2>4. /\ vault \in [Locations -> Nat \cup {None}] /\ application \in [Slugs -> Nat \cup {None}]
        /\ outpost \in [Outposts -> SUBSET Nat] /\ published \in [Apps -> Locations \cup {None}]
    BY DEF Init
  <2>5. ops \in 0 .. MaxOps /\ faults \in 0 .. MaxFaults
    BY SsoAssumption DEF Init
  <2> QED BY <2>1, <2>2, <2>3, <2>4, <2>5 DEF Init, TypeOK
<1>4. ProvidersInv /\ RegisteredInv
  BY <1>2 DEF ProvidersInv, RegisteredInv
<1>5. ASSUME NEW a \in Apps PROVE AppInv(Mine, a)
  <2>1. PICK none : none = NoStatus
    OBVIOUS
  <2>2. /\ run[a] = Idle /\ status[a] = none /\ gen[a] = 1 /\ life[a] = "live" /\ run[a].out = none
    BY <1>2, <2>1, IdleType
  <2>3. NamedInv(Mine, a, none) /\ SettledInv(a, none)
    BY <2>1, IdleType DEF NamedInv, SettledInv
  <2>4. JobInv(Mine, a)
    BY <1>1, <2>1, <2>2, IdleType DEF JobInv, At, Finalizing, Working
  <2>5. DoneInv(a) /\ ListInv(a) /\ DeletedInv(a)
    BY <2>1, <2>2, IdleType DEF DoneInv, Working, ListInv, At, DeletedInv
  <2> QED BY <2>2, <2>3, <2>4, <2>5 DEF AppInv
<1> QED BY <1>3, <1>4, <1>5 DEF SsoInv

LEMMA StutterKeeps ==
  ASSUME NEW Mine \in [Apps -> SUBSET Specs], SsoInv(Mine), UNCHANGED vars
  PROVE  SsoInv(Mine)'
<1>1. UNCHANGED <<shared, resource, due, status, run, swallowed, flows, issued, ops, faults>>
  BY DEF vars, shared, secrets, history
<1>2. TypeOK' /\ ProvidersInv' /\ RegisteredInv'
  BY <1>1, QuietShared DEF SsoInv, TypeOK, shared, authentik, resource
<1>3. ASSUME NEW a \in Apps PROVE AppInv(Mine, a)'
  <2>1. Untouched(Mine, a)
    BY <1>1, QuietUntouched DEF resource
  <2> QED BY <1>2, <2>1, AppKept
<1> QED BY <1>2, <1>3 DEF SsoInv

LEMMA NextKeeps ==
  ASSUME NEW Mine \in [Apps -> SUBSET Specs], PrivateSlugs(Mine), SsoInv(Mine), Next
  PROVE  SsoInv(Mine)'
<1>1. CASE InstallFlows
  BY <1>1, InstallFlowsKeeps
<1>2. CASE Restart
  BY <1>2, RestartKeeps
<1>3. ASSUME NEW a \in Apps, Handler(a)
      PROVE  SsoInv(Mine)'
  <2>1. CASE Call(a)
    BY <2>1, CallKeeps
  <2>2. CASE ReadVault(a)
    BY <2>2, ReadVaultKeeps
  <2>3. CASE WriteVault(a)
    BY <2>3, WriteVaultKeeps
  <2>4. CASE EnsureProvider(a)
    BY <2>4, EnsureProviderKeeps
  <2>5. CASE ReadOutpost(a)
    BY <2>5, ReadOutpostKeeps
  <2>6. CASE Attach(a)
    BY <2>6, AttachKeeps
  <2>7. CASE EnsureApplication(a)
    BY <2>7, EnsureApplicationKeeps
  <2>8. CASE Publish(a)
    BY <2>8, PublishKeeps
  <2>9. CASE WritePatch(a)
    BY <2>9, WritePatchKeeps
  <2>10. CASE Finalize(a)
    BY <2>10, FinalizeKeeps
  <2>11. CASE Detach(a)
    BY <2>11, DetachKeeps
  <2>12. CASE Destroy(a)
    BY <2>12, DestroyKeeps
  <2> QED
    BY <1>3, <2>1, <2>2, <2>3, <2>4, <2>5, <2>6, <2>7, <2>8, <2>9, <2>10, <2>11, <2>12
    DEF Handler
<1>4. ASSUME NEW a \in Apps,
             \/ BackendError(a) \/ Unavailable(a) \/ Edit(a) \/ Delete(a) \/ Recreate(a)
      PROVE  SsoInv(Mine)'
  BY <1>4, BackendErrorKeeps, UnavailableKeeps, EditKeeps, DeleteKeeps, RecreateKeeps
<1> QED BY <1>1, <1>2, <1>3, <1>4 DEF Next

\* Every variable keeps its type, and the handlers, the statuses and Authentik
\* stay consistent, whatever handlers, users, failed calls and restarts do: the
\* invariant the others follow from.
THEOREM SsoInvariant ==
  ASSUME NEW Mine \in [Apps -> SUBSET Specs], PrivateSlugs(Mine)
  PROVE  Spec => []SsoInv(Mine)
<1>1. Init => SsoInv(Mine)
  BY InitHolds
<1>2. SsoInv(Mine) /\ [Next]_vars => SsoInv(Mine)'
  BY NextKeeps, StutterKeeps
<1> QED BY <1>1, <1>2, PTL DEF Spec

\* Who signs in to an application of a Ready SSOApplication is let in: the
\* application, the provider and the credentials handed out agree.
THEOREM SsoReadyMeansSignIn ==
  ASSUME NEW Mine \in [Apps -> SUBSET Specs], PrivateSlugs(Mine)
  PROVE  Spec => []ReadyMeansSignIn
<1>1. ASSUME SsoInv(Mine) PROVE ReadyMeansSignIn
  <2>1. ASSUME NEW a \in Apps, Settled(a) PROVE SignIn(a)
    <3>1. SettledInv(a, status[a])
      BY <1>1, AppFacts DEF AppInv
    <3>2. /\ Provided(status[a].provider, spec[a].slug, spec[a].protocol)
          /\ Accepts(status[a].provider, spec[a])
          /\ application[spec[a].slug] = status[a].provider
          /\ spec[a].protocol = "oauth2" /\ spec[a].target => published[a] = Location(spec[a])
      BY <2>1, <3>1 DEF Settled, SettledInv
    <3> QED BY <3>2 DEF SignIn, Provided, Accepts
  <2> QED BY <1>1, <2>1 DEF ReadyMeansSignIn, SsoInv
<1> QED BY <1>1, SsoInvariant, PTL

\* The provider of a Ready proxy application is in its outpost, unless two
\* handlers wrote the outpost's list from readings that overlapped.
THEOREM SsoReadyMeansServed ==
  ASSUME NEW Mine \in [Apps -> SUBSET Specs], PrivateSlugs(Mine)
  PROVE  Spec => []ReadyMeansServed
<1>1. SsoInv(Mine) => ReadyMeansServed
  BY DEF SsoInv, AppInv, SettledInv, ReadyMeansServed, Settled
<1> QED BY <1>1, SsoInvariant, PTL

\* The provider of a slug never gets other credentials, over deletion and
\* re-creation, for as long as they come from the same path.
THEOREM SsoSameCredentials ==
  ASSUME NEW Mine \in [Apps -> SUBSET Specs], PrivateSlugs(Mine)
  PROVE  Spec => []SameCredentials
<1>1. SsoInv(Mine) => SameCredentials
  BY DEF SsoInv, RegisteredInv, SameCredentials
<1> QED BY <1>1, SsoInvariant, PTL

\* A deleted SSOApplication that was Ready once, with no failed call in its
\* finalizer, leaves neither an application nor a provider.
THEOREM SsoNothingLeftBehind ==
  ASSUME NEW Mine \in [Apps -> SUBSET Specs], PrivateSlugs(Mine)
  PROVE  Spec => []NothingLeftBehind
<1>1. SsoInv(Mine) => NothingLeftBehind
  BY DEF SsoInv, AppInv, DeletedInv, NothingLeftBehind
<1> QED BY <1>1, SsoInvariant, PTL
=============================================================================
