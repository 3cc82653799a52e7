----------------------------- MODULE AccessGate -----------------------------
(***************************************************************************)
(* Who may open an application (routers/identity.py and identity.py of the *)
(* platform API).  Access is a group in Authentik: granting puts a user    *)
(* into it and binds it to the application's Authentik applications, which *)
(* from then on admit members only; revoking takes the user out and, when  *)
(* nobody is left, unbinds it.                                             *)
(*                                                                         *)
(* The API keeps no state and takes no lock: a request is a sequence of    *)
(* calls to Authentik, between which other requests make theirs, and stops *)
(* at the first that fails.  Meanwhile the controller registers and        *)
(* removes the Authentik applications.  One application of the platform.   *)
(***************************************************************************)
EXTENDS Naturals

CONSTANTS
    Requests,   \* threads that serve requests, one at a time each
    Users,
    Apps,       \* Authentik applications (their primary keys)
    Slugs,
    SlugOf,     \* the slug of each
    None,
    MaxFaults   \* bound: requests that end in an error

ASSUME AccessAssumption ==
    /\ SlugOf \in [Apps -> Slugs]
    /\ None \notin Users \cup Apps
    /\ MaxFaults \in Nat

VARIABLES
    group,      \* Authentik: whether the group exists
    members,    \*   its users
    bindings,   \*   its bindings, each by what it binds and who created it
    live, past, \*   the applications there are, and those that were removed
    emitted,    \* the slugs of the SSOApplication resources in the cluster
    frame,      \* the requests
    faults,
    solo,       \* history: the request that runs alone or, when none runs, the
                \*   last one if it ran alone to its end
    granted     \* history: the users granted and not revoked since

vars == <<group, members, bindings, live, past, emitted, frame, faults,
          solo, granted>>

Ops      == {"grant", "revoke"}
Bindings == Apps \X Requests

\* A request: the operation and its user; the slugs it listed and has still to
\* look up (todo); the applications it found (apps) and has still to bind
\* (left); the one it is at (app) and that one's bindings as listed (doomed);
\* and, as history, whether a grant is not contradicted by a revocation that
\* overlaps with it (firm).
StepsOf == [grant  |-> {"find", "create", "add", "bind", "post"},
            revoke |-> {"group", "remove", "reread", "unbind", "list",
                        "delete", "answer"}]
Steps   == {"idle"} \cup StepsOf["grant"] \cup StepsOf["revoke"]
Frame ==
    [pc : Steps, op : Ops, user : Users \cup {None}, todo : SUBSET Slugs,
     apps : SUBSET Apps, left : SUBSET Apps,
     app : Apps \cup {None}, doomed : SUBSET Bindings,
     firm : BOOLEAN]
Solo == [op : Ops, slugs : SUBSET Slugs, apps : SUBSET Apps]

Rest == [pc |-> "idle", op |-> "grant", user |-> None, todo |-> {},
         apps |-> {}, left |-> {}, app |-> None,
         doomed |-> {}, firm |-> TRUE]

authentik == <<group, members, bindings>>
cluster   == <<live, past, emitted>>

Busy(r) == frame[r].pc # "idle"
Serves(r, op, u) == Busy(r) /\ frame[r].op = op /\ frame[r].user = u

Gated(a)    == \E r \in Requests : <<a, r>> \in bindings
Admits(a, u) == Gated(a) => u \in members

Named(slug) == {a \in live : SlugOf[a] = slug}

Init ==
    /\ group = FALSE /\ members = {} /\ bindings = {}
    /\ live = {} /\ past = {} /\ emitted = {}
    /\ frame = [r \in Requests |-> Rest]
    /\ faults = 0 /\ solo = None /\ granted = {}

(***************************************************************************)
(* The beginning and the end of a request.                                 *)
(***************************************************************************)

Quiet == \A r \in Requests : ~Busy(r)

\* A new request of u.
Arriving(op, u) ==
    [pc |-> IF op = "grant" THEN "find" ELSE "group",
     op |-> op, user |-> u, todo |-> emitted, apps |-> {}, left |-> {},
     app |-> None, doomed |-> {},
     firm |-> \/ op = "revoke"
              \/ \A q \in Requests : ~Serves(q, "revoke", u)]

\* A request arrives and lists the SSOApplications.  One that finds none is
\* refused when it is a grant; a revocation goes on.
Begin(r) ==
    /\ ~Busy(r)
    /\ \E op \in Ops, u \in Users :
           /\ op = "grant" => emitted # {}
           /\ frame' = [q \in Requests |->
                 IF q = r THEN Arriving(op, u)
                 ELSE IF op = "revoke" /\ Serves(q, "grant", u)
                 THEN [frame[q] EXCEPT !.firm = FALSE]
                 ELSE frame[q]]
           /\ solo' = IF Quiet THEN [op |-> op, slugs |-> emitted, apps |-> {}]
                               ELSE None
           /\ granted' = IF op = "revoke" THEN granted \ {u} ELSE granted
    /\ UNCHANGED <<authentik, cluster, faults>>

\* Nothing is left to do but the closing get_access ...
Through(r) == \/ frame[r].pc = "answer"
              \/ frame[r].pc = "bind"   /\ frame[r].left = {}
              \/ frame[r].pc = "unbind" /\ frame[r].todo = {}

\* ... which succeeds: the answer is 200.
Answer(r) ==
    /\ Through(r)
    /\ frame' = [frame EXCEPT ![r] = Rest]
    /\ solo' = IF solo = None THEN None
               ELSE [solo EXCEPT !.apps = frame[r].apps]
    /\ granted' = IF frame[r].op = "grant" /\ frame[r].firm
                  THEN granted \cup {frame[r].user} ELSE granted
    /\ UNCHANGED <<authentik, cluster, faults>>

\* The request ends in an error, after what it has done so far.
Error(r) == frame' = [frame EXCEPT ![r] = Rest] /\ solo' = None

\* A call fails: the answer is 502.  A write that takes effect although its
\* call failed is that write, and then this.
BackendError(r) ==
    /\ Busy(r)
    /\ faults < MaxFaults
    /\ faults' = faults + 1
    /\ Error(r)
    /\ UNCHANGED <<authentik, cluster, granted>>

(***************************************************************************)
(* grant_access: application_by_slug for each slug, ensure_group,          *)
(* add_member, ensure_binding for each application that was found.         *)
(***************************************************************************)

FindApp(r) ==
    /\ frame[r].pc = "find"
    /\ \E slug \in frame[r].todo :
           frame' = [frame EXCEPT ![r].todo = @ \ {slug},
                                  ![r].apps = @ \cup Named(slug)]
    /\ UNCHANGED <<authentik, cluster, faults, solo, granted>>

\* None of the slugs is registered: 409, with nothing done.
Refuse(r) ==
    /\ frame[r].pc = "find" /\ frame[r].todo = {} /\ frame[r].apps = {}
    /\ Error(r)
    /\ UNCHANGED <<authentik, cluster, faults, granted>>

\* find_group.  A revocation has nothing to do when there is none.
WithGroup(r) ==
    CASE frame[r].op = "grant"  /\ group  -> "add"
      [] frame[r].op = "grant"  /\ ~group -> "create"
      [] frame[r].op = "revoke" /\ group  -> "remove"
      [] OTHER                            -> "answer"

FindGroup(r) ==
    /\ \/ frame[r].pc = "find" /\ frame[r].todo = {} /\ frame[r].apps # {}
       \/ frame[r].pc = "group"
    /\ frame' = [frame EXCEPT ![r].pc = WithGroup(r)]
    /\ UNCHANGED <<authentik, cluster, faults, solo, granted>>

\* Names of groups are unique: who comes second gets an error.
CreateGroup(r) ==
    /\ frame[r].pc = "create"
    /\ group' = TRUE
    /\ \/ group /\ Error(r)
       \/ ~group /\ frame' = [frame EXCEPT ![r].pc = "add"] /\ UNCHANGED solo
    /\ UNCHANGED <<members, bindings, cluster, faults, granted>>

\* (mutation: the group's users are replaced instead of added to)
MembersWith_Mutant(r) == {frame[r].user}
MembersWith(r) == members \cup {frame[r].user}

AddMember(r) ==
    /\ frame[r].pc = "add"
    /\ members' = MembersWith(r)
    /\ frame' = [frame EXCEPT ![r].pc = "bind", ![r].left = frame[r].apps]
    /\ UNCHANGED <<group, bindings, cluster, faults, solo, granted>>

\* ensure_binding: an application that is not bound yet ...
\* (mutation: whether it is bound anywhere, as get_access asks)
Missing_Mutant(a) == bindings = {}
Missing(a) == ~Gated(a)

ReadBindings(r) ==
    /\ frame[r].pc = "bind"
    /\ \E a \in frame[r].left :
           frame' = [frame EXCEPT
                         ![r].left = @ \ {a},
                         ![r].pc  = IF Missing(a) THEN "post" ELSE "bind",
                         ![r].app = IF Missing(a) THEN a ELSE None]
    /\ UNCHANGED <<authentik, cluster, faults, solo, granted>>

\* ... is bound, unless it was removed in the meantime, which is an error.
PostBinding(r) ==
    /\ frame[r].pc = "post"
    /\ \/ /\ frame[r].app \in live
          /\ bindings' = bindings \cup {<<frame[r].app, r>>}
          /\ frame' = [frame EXCEPT ![r].pc = "bind", ![r].app = None]
          /\ UNCHANGED solo
       \/ /\ frame[r].app \notin live
          /\ Error(r)
          /\ UNCHANGED bindings
    /\ UNCHANGED <<group, members, cluster, faults, granted>>

(***************************************************************************)
(* revoke_access: remove_member, find_group once more, and, if it is       *)
(* empty, application_by_slug and remove_binding for each slug.            *)
(***************************************************************************)

MembersWithout(r) == members \ {frame[r].user}

RemoveMember(r) ==
    /\ frame[r].pc = "remove"
    /\ members' = MembersWithout(r)
    /\ frame' = [frame EXCEPT ![r].pc = "reread"]
    /\ UNCHANGED <<group, bindings, cluster, faults, solo, granted>>

\* The users that decide whether the gate is dropped.
\* (mutation: as they were before the removal)
Remaining_Mutant(r) == members \cup {frame[r].user}
Remaining(r) == members

Reread(r) ==
    /\ frame[r].pc = "reread"
    /\ frame' = [frame EXCEPT
          ![r].pc = IF Remaining(r) = {} THEN "unbind" ELSE "answer"]
    /\ UNCHANGED <<authentik, cluster, faults, solo, granted>>

LookUp(r) ==
    /\ frame[r].pc = "unbind"
    /\ \E slug \in frame[r].todo :
           \/ /\ Named(slug) = {}
              /\ frame' = [frame EXCEPT ![r].todo = @ \ {slug}]
           \/ \E a \in Named(slug) :
                 frame' = [frame EXCEPT ![r].pc = "list", ![r].app = a,
                                        ![r].todo = @ \ {slug}]
    /\ UNCHANGED <<authentik, cluster, faults, solo, granted>>

BindingsOf(a) == {b \in bindings : b[1] = a}

ListBindings(r) ==
    /\ frame[r].pc = "list"
    /\ LET found == BindingsOf(frame[r].app)
       IN  frame' = [frame EXCEPT
                        ![r].pc = IF found = {} THEN "unbind" ELSE "delete",
                        ![r].app = None, ![r].doomed = found]
    /\ UNCHANGED <<authentik, cluster, faults, solo, granted>>

\* A binding that is gone already (404) is as good as deleted.
DeleteBinding(r) ==
    /\ frame[r].pc = "delete"
    /\ \E b \in frame[r].doomed :
           /\ bindings' = bindings \ {b}
           /\ frame' = [frame EXCEPT
                 ![r].pc = IF frame[r].doomed = {b} THEN "unbind" ELSE "delete",
                 ![r].doomed = @ \ {b}]
    /\ UNCHANGED <<group, members, cluster, faults, solo, granted>>

(***************************************************************************)
(* The chart emits SSOApplications, and their reconciler registers them in *)
(* Authentik under their slug, unless there is an application of that slug *)
(* already, and removes them when the resource is deleted.                 *)
(***************************************************************************)

Emit(slug) ==
    /\ slug \notin emitted
    /\ emitted' = emitted \cup {slug}
    /\ UNCHANGED <<authentik, live, past, frame, faults, solo, granted>>

Register(a) ==
    /\ a \notin live \cup past
    /\ SlugOf[a] \in emitted
    /\ Named(SlugOf[a]) = {}
    /\ live' = live \cup {a}
    /\ UNCHANGED <<authentik, past, emitted, frame, faults, solo, granted>>

\* The resource goes, and with it the application, which takes its bindings
\* along; a removal that fails is ignored, and the application stays.
Finalize(slug) ==
    /\ slug \in emitted
    /\ emitted' = emitted \ {slug}
    /\ \E gone \in {Named(slug), {}} :
           /\ live' = live \ gone
           /\ past' = past \cup gone
           /\ bindings' = {b \in bindings : b[1] \notin gone}
    /\ UNCHANGED <<group, members, frame, faults, solo, granted>>

Grant(r) == \/ FindApp(r) \/ Refuse(r) \/ CreateGroup(r) \/ AddMember(r)
            \/ ReadBindings(r) \/ PostBinding(r)

Revoke(r) == \/ RemoveMember(r) \/ Reread(r) \/ LookUp(r) \/ ListBindings(r)
             \/ DeleteBinding(r)

Next ==
    \/ \E r \in Requests : \/ Begin(r) \/ FindGroup(r) \/ Answer(r)
                           \/ BackendError(r) \/ Grant(r) \/ Revoke(r)
    \/ \E slug \in Slugs : Emit(slug) \/ Finalize(slug)
    \/ \E a \in Apps : Register(a)

Spec == Init /\ [][Next]_vars

-----------------------------------------------------------------------------
(***************************************************************************)
(* Properties.                                                             *)
(***************************************************************************)

TypeOK ==
    /\ group \in BOOLEAN /\ members \in SUBSET Users
    /\ bindings \in SUBSET Bindings
    /\ live \in SUBSET Apps /\ past \in SUBSET Apps
    /\ emitted \in SUBSET Slugs
    /\ frame \in [Requests -> Frame]
    /\ \A r \in Requests :
           Busy(r) => /\ frame[r].user \in Users
                      /\ frame[r].pc \in StepsOf[frame[r].op]
    /\ faults \in 0..MaxFaults
    /\ solo \in Solo \cup {None}
    /\ granted \in SUBSET Users

\* A user to whom access was granted, with an answer of 200, and from whom
\* nobody has started to revoke it since, gets through to every application,
\* whatever other requests do at the same time, fail to do, or leave half done
\* (routers/identity.py, grant_access and revoke_access).
GrantedGetThrough == \A u \in granted, a \in live : Admits(a, u)

\* A request that ran alone and was answered with 200 leaves none of the
\* application's slugs bound to an empty group, even if those before it failed
\* or raced: the last revocation opens them all again, and a grant has its user
\* inside (routers/identity.py:184, "an empty bound group would lock EVERYONE
\* out").
NoLockout ==
    Quiet /\ solo # None /\ members = {} =>
        \A a \in live : SlugOf[a] \in solo.slugs => ~Gated(a)

\* A grant that ran alone and was answered with 200 has closed every
\* application it found, and they stay closed until the next request: nobody
\* but the members gets through (routers/identity.py:154, ensure_binding).
GrantCloses ==
    Quiet /\ solo # None /\ solo.op = "grant" =>
        \A a \in solo.apps \cap live : Gated(a)

\* The comment at routers/identity.py:185 taken for the program: when all
\* requests are through, and none has failed, nobody is locked out.  Not so
\* when a grant and a revocation overlap.
NobodyLockedOut ==
    Quiet /\ faults = 0 /\ members = {} =>
        \A a \in live : SlugOf[a] \in emitted => ~Gated(a)

-----------------------------------------------------------------------------
(***************************************************************************)
(* The inductive invariant.                                                *)
(***************************************************************************)

\* What Authentik holds is consistent, and what a request found is not
\* something that is still to be registered.
AuthentikInv ==
    /\ \A b \in bindings : b[1] \in live
    /\ \A a, b \in live : SlugOf[a] = SlugOf[b] => a = b
    /\ ~group => members = {} /\ bindings = {}
    /\ \A r \in Requests :
           /\ frame[r].apps \subseteq live \cup past
           /\ frame[r].pc \in {"add", "bind", "post"} => group
           /\ frame[r].app # None => frame[r].pc \in {"post", "list"}
           /\ frame[r].doomed # {} => frame[r].pc = "delete"

\* A revocation under way has taken its user out of those granted, and out of
\* the reach of grants that overlap with it; a grant that nobody contradicts
\* keeps its user in the group.
GrantedInv ==
    /\ granted \subseteq members
    /\ \A r \in Requests :
           /\ Busy(r) /\ frame[r].op = "revoke" => frame[r].user \notin granted
           /\ frame[r].pc \in {"bind", "post"} /\ frame[r].firm =>
                  frame[r].user \in members
    /\ \A r, q \in Requests, u \in Users :
           Serves(r, "grant", u) /\ Serves(q, "revoke", u) => ~frame[r].firm

\* What the request that runs alone has done so far, and what it has left.
Bound(r) == \A a \in frame[r].apps \cap live :
                Gated(a) \/ a \in frame[r].left \/ a = frame[r].app
Open == members = {} => \A b \in bindings : SlugOf[b[1]] \notin solo.slugs
Opening(r) ==
    /\ members = {}
    /\ \A b \in bindings : SlugOf[b[1]] \in solo.slugs =>
           SlugOf[b[1]] \in frame[r].todo \/ b[1] = frame[r].app
               \/ b \in frame[r].doomed
SoloInv ==
    solo # None =>
        /\ solo.apps \subseteq live \cup past
        /\ \A r, q \in Requests : Busy(r) /\ Busy(q) => r = q
        /\ \A r \in Requests : Busy(r) =>
               /\ frame[r].op = solo.op
               /\ frame[r].pc \in {"bind", "post"} =>
                      frame[r].user \in members /\ Bound(r)
               /\ frame[r].pc \in {"group", "remove", "reread"} =>
                      frame[r].todo = solo.slugs
               /\ frame[r].pc \in {"unbind", "list", "delete"} => Opening(r)
               /\ frame[r].pc = "answer" => Open
        /\ Quiet => /\ Open
                    /\ solo.op = "grant" =>
                           \A a \in solo.apps \cap live : Gated(a)

AccessInv == TypeOK /\ AuthentikInv /\ GrantedInv /\ SoloInv
=============================================================================
