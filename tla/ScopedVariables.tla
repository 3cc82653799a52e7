--------------------------- MODULE ScopedVariables ---------------------------
(***************************************************************************)
(* The variables of one scope (a client, an environment, an application):  *)
(* the portal's records of them, the list spec.variables in the scope's    *)
(* manifest, which the platform API changes in the client's repo, and the  *)
(* way back from the custom resource (_adomi_sync_variables).              *)
(*                                                                         *)
(* The API reads the manifest, changes it, asks for the file's sha and     *)
(* puts the whole file; the repo refuses a put whose sha is not the file's *)
(* any more.  The manifest itself is put by the same means when the scope's *)
(* record is saved.  Requests run concurrently.                            *)
(*                                                                         *)
(* Two records of one name are taken as one here (see ScopedSecrets).      *)
(***************************************************************************)
EXTENDS PortalBounds

CONSTANTS
    Names, Values,
    Bodies,   \* what a manifest has but its variables
    Requests  \* names of requests

ASSUME VariablesAssumption ==
    /\ None \notin Values \cup Bodies
    /\ MaxOps \in Nat /\ MaxFaults \in Nat

VARIABLES
    owner,    \* the portal has the scope's record
    record,   \* its variables' records: value, and whether it was changed
              \* within the quiet period
    git,      \* the manifest, None: there is none
    cr,       \* the custom resource
    inbox,    \* an object pushed by the controller and not yet received
    request,  \* the requests
    known,    \* (history) the manifest as the answered requests asked for it
    unsure    \* (history) requests overlapped, or one failed half-way

vars == <<owner, record, git, cr, inbox, request, known, unsure, ops, faults>>

Content == [body : Bodies, vars : [Names -> Values \cup {None}]]
NoVars == [n \in Names |-> None]
Record == [value : Values, fresh : BOOLEAN]
Frame == [pc : {"idle", "read", "sha", "put", "commit"},
          op : {"set", "remove", "upsert", "delete"},
          arg : Names \cup Bodies \cup {None}, value : Values \cup {None},
          old : Names \cup {None},
          content : Content \cup {None}, sha : Content \cup {None}]
NoRequest == [pc |-> "idle", op |-> "set", arg |-> None, value |-> None, old |-> None,
              content |-> None, sha |-> None]

----------------------------------------------------------------------------
(* Decisions, each after its mutant *)

\* _mutate_variables: one entry replaced, added or, for None, removed.
WithVariable(m, n, v) == [m EXCEPT !.vars[n] = v]

\* The mutant's upsert wipes the variables.
CarriedOver_Mutant(b, m) == [body |-> b, vars |-> NoVars]

\* commit: a plain upsert carries the committed variables over.
CarriedOver(b, m) == [body |-> b, vars |-> IF m = None THEN NoVars ELSE m.vars]

\* The mutant leaves the variable that is gone from the object.
Mirrored_Mutant(r, d) ==
    CASE r = None /\ d = None -> None
      [] r = None /\ d # None -> [value |-> d, fresh |-> TRUE]
      [] r # None /\ (r.fresh \/ d \in {None, r.value}) -> r
      [] OTHER -> [value |-> d, fresh |-> TRUE]

\* _adomi_sync_variables of one name, for a record r and an object's value d:
\* what was changed within the quiet period stays as it is.
Mirrored(r, d) ==
    CASE r = None /\ d = None -> None
      [] r = None /\ d # None -> [value |-> d, fresh |-> TRUE]
      [] r # None /\ (r.fresh \/ d = r.value) -> r
      [] r # None /\ ~r.fresh /\ d = None -> None
      [] OTHER -> [value |-> d, fresh |-> TRUE]

\* A record's row is changed by one transaction at a time.
Busy(n) ==
    /\ record[n] # None
    /\ \E q \in Requests : request[q].pc # "idle" /\ n \in {request[q].arg, request[q].old}

----------------------------------------------------------------------------
(* The portal's requests *)

Begin(q, op, arg, v, old, pc) ==
    /\ request[q].pc = "idle"
    /\ ops < MaxOps /\ ops' = ops + 1
    /\ request' = [request EXCEPT ![q] =
         [pc |-> pc, op |-> op, arg |-> arg, value |-> v, old |-> old,
          content |-> None, sha |-> None]]
    /\ UNCHANGED <<owner, record, git, cr, inbox, known, unsure, faults>>

\* A variable's record is created or changed, or it is deleted.
SetVariable(q, n, v) == owner /\ ~Busy(n) /\ Begin(q, "set", n, v, None, "read")
RemoveVariable(q, n) ==
    owner /\ record[n] # None /\ ~Busy(n) /\ Begin(q, "remove", n, None, None, "read")

\* The entry of the old name stays in the manifest.
Rename(q, n, m) ==
    /\ owner /\ record[n] # None /\ record[m] = None /\ ~Busy(n)
    /\ Begin(q, "set", m, record[n].value, n, "read")

\* The scope's record is saved, or deleted.
Save(q, b) == Begin(q, "upsert", b, None, None, "read")
DeleteScope(q) == owner /\ Begin(q, "delete", None, None, None, "sha")

----------------------------------------------------------------------------
(* The platform API *)

\* A variable needs a manifest: NotFoundError, and the portal raises.
ReadManifest(q) ==
    LET f == request[q] IN
    /\ f.pc = "read"
    /\ request' = [request EXCEPT ![q] =
         IF f.op = "upsert"
         THEN [f EXCEPT !.pc = "sha", !.content = CarriedOver(f.arg, git)]
         ELSE IF git = None THEN NoRequest
         ELSE [f EXCEPT !.pc = "sha", !.content = WithVariable(git, f.arg, f.value)]]
    /\ UNCHANGED <<owner, record, git, cr, inbox, known, unsure, ops, faults>>

\* There may be nothing to delete.
FileSha(q) ==
    LET f == request[q] IN
    /\ f.pc = "sha"
    /\ request' = [request EXCEPT ![q] =
         [f EXCEPT !.pc = IF f.op = "delete" /\ git = None THEN "commit" ELSE "put",
                   !.sha = git]]
    /\ known' = IF f.op = "delete" /\ git = None THEN None ELSE known
    /\ UNCHANGED <<owner, record, git, cr, inbox, unsure, ops, faults>>

\* The portal has its answer; what the API read is no longer needed.
Committing(f) == [f EXCEPT !.pc = "commit", !.content = None, !.sha = None]

\* The portal's transaction rolls back for a variable; the save of the
\* scope's record and its deletion go on.
Refused(f) == IF f.op \in {"set", "remove"} THEN NoRequest ELSE Committing(f)

\* Has read the manifest and has yet to ask for the sha: it will overwrite what
\* is put in between.
Overlapping(q) == request[q].pc = "sha" /\ request[q].op # "delete"

\* (history) What request f asks for, of a manifest m.
AsAsked(f, m) ==
    CASE f.op = "delete" -> None
      [] f.op = "upsert" -> [body |-> f.arg, vars |-> IF m = None THEN NoVars ELSE m.vars]
      [] f.op \in {"set", "remove"} ->
            [body |-> IF m = None THEN f.content.body ELSE m.body,
             vars |-> [n \in Names |-> IF n = f.arg THEN f.value
                                       ELSE IF m = None THEN None ELSE m.vars[n]]]

PutFile(q) ==
    LET f == request[q] IN
    /\ f.pc = "put"
    /\ IF git = f.sha
       THEN /\ git' = f.content /\ known' = AsAsked(f, known)
            /\ unsure' = (unsure \/ \E other \in Requests \ {q} : Overlapping(other))
            /\ request' = [request EXCEPT ![q] = Committing(f)]
       ELSE /\ request' = [request EXCEPT ![q] = Refused(f)]
            /\ UNCHANGED <<git, known, unsure>>
    /\ UNCHANGED <<owner, record, cr, inbox, ops, faults>>

\* A call fails, before or after its effect.
FailRequest(q) ==
    LET f == request[q] IN
    /\ f.pc \in {"read", "sha", "put"}
    /\ faults < MaxFaults /\ faults' = faults + 1
    /\ request' = [request EXCEPT ![q] = Refused(f)]
    /\ IF f.pc = "put"
       THEN git' \in (IF git = f.sha THEN {git, f.content} ELSE {git}) /\ unsure' = TRUE
       ELSE UNCHANGED <<git, unsure>>
    /\ UNCHANGED <<owner, record, cr, inbox, known, ops>>

\* A scope's row is deleted once no other request works on a row of its
\* variables, which holds it (a key).
Commit(q) ==
    LET f == request[q] IN
    /\ f.pc = "commit"
    /\ f.op = "delete" =>
         \A other \in Requests \ {q} :
            request[other].pc # "idle" => request[other].op \notin {"set", "remove"}
    /\ owner' = CASE f.op = "upsert" -> TRUE [] f.op = "delete" -> FALSE [] OTHER -> owner
    /\ record' = CASE f.op = "set" ->
                        [n \in Names |-> IF n = f.arg THEN [value |-> f.value, fresh |-> TRUE]
                                         ELSE IF n = f.old THEN None ELSE record[n]]
                   [] f.op = "remove" -> [record EXCEPT ![f.arg] = None]
                   [] f.op = "delete" -> [n \in Names |-> None]
                   [] f.op = "upsert" -> record
    /\ request' = [request EXCEPT ![q] = NoRequest]
    /\ UNCHANGED <<git, cr, inbox, known, unsure, ops, faults>>

----------------------------------------------------------------------------
(* The way back *)

\* Someone edits the manifest in the repo itself.
GitEdit(n, v) ==
    /\ git # None /\ git.vars[n] # v
    /\ ops < MaxOps /\ ops' = ops + 1
    /\ git' = [git EXCEPT !.vars[n] = v] /\ known' = git'
    /\ unsure' = (unsure \/ \E q \in Requests : Overlapping(q))
    /\ UNCHANGED <<owner, record, cr, inbox, request, faults>>

\* Argo CD.
Apply ==
    /\ cr # git /\ cr' = git
    /\ UNCHANGED <<owner, record, git, inbox, request, known, unsure, ops, faults>>

\* The controller's status push has the object as it was then.
PushStatus ==
    /\ inbox = None /\ cr # None /\ inbox' = cr
    /\ UNCHANGED <<owner, record, git, cr, request, known, unsure, ops, faults>>

SyncVariables(m) ==
    /\ owner /\ m # None
    /\ \A n \in Names : ~Busy(n)
    /\ record' = [n \in Names |-> Mirrored(record[n], m.vars[n])]

Receive ==
    /\ inbox # None /\ inbox' = None
    /\ IF owner THEN SyncVariables(inbox) ELSE UNCHANGED record
    /\ UNCHANGED <<owner, git, cr, request, known, unsure, ops, faults>>

CronSync ==
    /\ SyncVariables(cr) /\ record' # record
    /\ UNCHANGED <<owner, git, cr, inbox, request, known, unsure, ops, faults>>

\* Ten minutes without a change.
Age(n) ==
    /\ record[n] # None /\ record[n].fresh
    /\ record' = [record EXCEPT ![n].fresh = FALSE]
    /\ UNCHANGED <<owner, git, cr, inbox, request, known, unsure, ops, faults>>

----------------------------------------------------------------------------
Init ==
    /\ git \in {None} \cup {[body |-> b, vars |-> NoVars] : b \in Bodies}
    /\ owner = (git # None) /\ known = git /\ cr = git
    /\ record = [n \in Names |-> None]
    /\ inbox = None /\ request = [q \in Requests |-> NoRequest]
    /\ unsure = FALSE /\ ops = 0 /\ faults = 0

Step(q) == ReadManifest(q) \/ FileSha(q) \/ PutFile(q) \/ Commit(q)

Next ==
    \/ \E q \in Requests :
        \/ \E n \in Names : RemoveVariable(q, n) \/ \E v \in Values : SetVariable(q, n, v)
        \/ \E n, m \in Names : Rename(q, n, m)
        \/ \E b \in Bodies : Save(q, b)
        \/ DeleteScope(q) \/ Step(q) \/ FailRequest(q)
    \/ Apply \/ PushStatus \/ Receive \/ CronSync
    \/ \E n \in Names : \E v \in Values \cup {None} : GitEdit(n, v)
    \/ \E n \in Names : Age(n)

\* Requests end, Argo CD polls, the cron job is hourly, time passes.  No
\* status push has to be made or to arrive.
Fairness ==
    /\ \A q \in Requests : WF_vars(Step(q))
    /\ WF_vars(Apply) /\ WF_vars(CronSync)
    /\ \A n \in Names : WF_vars(Age(n))

Spec == Init /\ [][Next]_vars /\ Fairness

----------------------------------------------------------------------------
\* Every variable has its type.
TypeOK ==
    /\ owner \in BOOLEAN
    /\ record \in [Names -> Record \cup {None}]
    /\ git \in Content \cup {None} /\ cr \in Content \cup {None}
    /\ inbox \in Content \cup {None} /\ known \in Content \cup {None}
    /\ request \in [Requests -> Frame]
    /\ unsure \in BOOLEAN
    /\ ops \in 0 .. MaxOps /\ faults \in 0 .. MaxFaults

\* The manifest is what the answered requests asked for, one after the
\* other: no save of the scope wipes a variable ("must carry them over, not
\* wipe them"), no variable another, and none brings a deleted scope back;
\* unless a request was answered while another one was between its read of
\* the manifest and its read of the sha, or failed half-way.
Acknowledged == TypeOK /\ (unsure \/ git = known)

\* In the end the portal's records and the manifest say the same, whatever
\* stale object was received ("any divergence self-heals on a later sync").
EventuallyMirrored ==
    <>[](owner /\ git # None =>
            \A n \in Names : IF git.vars[n] = None THEN record[n] = None
                             ELSE record[n] # None /\ record[n].value = git.vars[n])

----------------------------------------------------------------------------
(* Why Acknowledged holds: an inductive invariant, proved in PortalProofs  *)

\* A request that runs has what its kind of request needs.
Formed(f) ==
    /\ f.pc # "idle" =>
         /\ f.op \in {"set", "remove"} => f.arg \in Names
         /\ f.op = "set" => f.value \in Values
         /\ f.op = "upsert" => f.arg \in Bodies
    /\ f.op = "delete" => f.pc # "read"
    /\ f.op \in {"set", "remove"} /\ f.pc \in {"sha", "put"} => f.content \in Content

\* What a request has made of the manifest is what it asks for, of the
\* manifest m there is, and then of the one whose sha it holds.
Faithful(f, m) ==
    /\ f.pc = "sha" => f.content = AsAsked(f, m)
    /\ f.pc = "put" => f.content = AsAsked(f, f.sha)

VariablesInv ==
    /\ TypeOK
    /\ \A q \in Requests : Formed(request[q])
    /\ unsure \/ (git = known /\ \A q \in Requests : Faithful(request[q], git))
=============================================================================
