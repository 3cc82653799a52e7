---------------------------- MODULE ScopedSecrets ----------------------------
(***************************************************************************)
(* Secrets of the four scopes: the portal's records of their names, the    *)
(* platform API's maps of their values in OpenBao, one per scope, and the  *)
(* delivery of the merged maps to an Application's workload by an          *)
(* ExternalSecret.                                                         *)
(*                                                                         *)
(* A request of the portal is a database transaction that calls the API,   *)
(* which reads a scope's map, changes one key of it and writes it back;    *)
(* requests run concurrently.  The Application's handler looks which paths *)
(* hold a map and lists those; a changed secret does not call it.  The     *)
(* External Secrets operator reads the listed paths again and again.       *)
(***************************************************************************)
EXTENDS PortalBounds, FiniteSets

CONSTANTS
    Scopes,          \* organization, client, environment, application
    Rank,            \* their order, the least specific first
    Stores,          \* for each scope, the path the API keeps its map at
    Looks,           \* and the path the controller looks for it at
    SecretPaths,
    SecretNames, SecretValues,
    SecretRequests,  \* names of requests
    SecretMaps       \* the maps there may be at first

\* There are finitely many scopes: of some of them one is the nearest.
ASSUME SecretsAssumption ==
    /\ Scopes # {} /\ SecretNames # {} /\ Rank \in [Scopes -> Nat]
    /\ \A s, t \in Scopes : Rank[s] = Rank[t] => s = t
    /\ \A S \in SUBSET Scopes : S # {} => \E s \in S : \A t \in S : Rank[t] <= Rank[s]
    /\ Stores \in [Scopes -> SecretPaths] /\ Looks \in [Scopes -> SecretPaths]
    /\ \A s, t \in Scopes : Stores[s] = Stores[t] => s = t
    /\ SecretMaps \subseteq [SecretPaths -> [SecretNames -> SecretValues \cup {None}]]
    /\ None \notin SecretValues
    /\ MaxOps \in Nat /\ MaxFaults \in Nat

VARIABLES
    row,        \* how many records of a secret the portal has
    vault,      \* OpenBao: a map per path; there is no path with an empty one
    call,       \* the requests
    es,         \* the paths the ExternalSecret lists; {}: there is none
    secret,     \* the Secret it owns, None: there is none
    envFrom,    \* whether the workload's values refer to it
    app,        \* the Application's handler
    due,        \* Kopf has a reason to call it
    answered,   \* (history) what the last answered request set
    uncertain,  \* (history) secrets of which a request failed half-way, or
                \* whose map was changed by requests that overlapped
    moved       \* (history) secrets renamed or recorded twice

history == <<answered, uncertain, moved>>
delivery == <<es, secret, envFrom, app, due>>
secretsVars == <<row, vault, call, delivery, history, ops, faults>>

Map == [SecretNames -> SecretValues \cup {None}]
Empty == [n \in SecretNames |-> None]
SecretFrame == [pc : {"idle", "read", "write", "commit"},
                op : {"create", "write", "unlink"}, scope : Scopes,
                name : SecretNames, value : SecretValues \cup {None}, view : Map]
Handler == [pc : {"idle", "look", "apply", "argo"}, todo : SUBSET Scopes,
            found : SUBSET SecretPaths, deliver : BOOLEAN]
NoSecretRequest == [pc |-> "idle", op |-> "create", scope |-> CHOOSE s \in Scopes : TRUE,
                    name |-> CHOOSE n \in SecretNames : TRUE,
                    value |-> None, view |-> Empty]
HandlerResting == [pc |-> "idle", todo |-> {}, found |-> {}, deliver |-> FALSE]

Spend == faults < MaxFaults /\ faults' = faults + 1

----------------------------------------------------------------------------
(* Decisions, each after its mutant *)

\* OpenBaoClient.read, ScopedSecretsStore._read: something, or nothing.
Exists(p) == vault[p] # Empty

\* The mutant writes the one key that was given.
Changed_Mutant(f) == [Empty EXCEPT ![f.name] = f.value]

\* ScopedSecretsStore.set and remove: what they write for the map they read.
Changed(f) == [f.view EXCEPT ![f.name] = f.value]

\* remove writes only if the name was there; set always does.
Stored(f) == f.value # None \/ f.view[f.name] # None

\* The mutant's later paths do not override earlier ones.
Overrides_Mutant(s, t) == Rank[s] < Rank[t]

\* dataFrom merges in the order of scoped_secret_paths, later keys win.
Overrides(s, t) == Rank[s] > Rank[t]

\* The mutant returns the name although nothing is delivered.
Delivered_Mutant(found) == TRUE

\* _reconcile_scoped_secrets: a name if there is an ExternalSecret, else "".
Delivered(found) == found # {}

\* What the operator makes of the listed paths.
Merged(paths) ==
    [n \in SecretNames |->
        LET holders == {s \in Scopes : Looks[s] \in paths /\ vault[Looks[s]][n] # None}
            winner  == CHOOSE s \in holders : \A t \in holders \ {s} : Overrides(s, t) IN
        IF holders = {} THEN None ELSE vault[Looks[winner]][n]]

----------------------------------------------------------------------------
(* The portal's requests and the API's store *)

\* A record's row is changed by one transaction at a time.
SecretBusy(s, n) ==
    \E q \in SecretRequests : /\ call[q].pc # "idle" /\ call[q].op # "create"
                              /\ call[q].scope = s /\ call[q].name = n

Creating(s, n) ==
    \E q \in SecretRequests : /\ call[q].pc # "idle" /\ call[q].op = "create"
                              /\ call[q].scope = s /\ call[q].name = n

\* Nothing keeps a name from being recorded twice: the constraint's columns
\* are NULL but for one, and NULLs differ.
BeginSecret(q, op, s, n, v) ==
    /\ call[q].pc = "idle"
    /\ IF op = "create" THEN TRUE ELSE row[s][n] > 0 /\ ~SecretBusy(s, n)
    /\ ops < MaxOps /\ ops' = ops + 1
    /\ call' = [call EXCEPT ![q] =
         [pc |-> "read", op |-> op, scope |-> s, name |-> n, value |-> v,
          view |-> Empty]]
    /\ moved' = IF op = "create" /\ (row[s][n] > 0 \/ Creating(s, n))
                THEN moved \cup {<<s, n>>} ELSE moved
    /\ UNCHANGED <<row, vault, delivery, answered, uncertain, faults>>

CreateSecret(q, s, n, v) == BeginSecret(q, "create", s, n, v)
WriteSecret(q, s, n, v) == BeginSecret(q, "write", s, n, v)
UnlinkSecret(q, s, n) == BeginSecret(q, "unlink", s, n, None)

\* An edit without a value is no call: "the stored value stands".
RenameSecret(s, n, m) ==
    /\ row[s][n] > 0 /\ m # n /\ ops < MaxOps /\ ops' = ops + 1
    /\ ~SecretBusy(s, n)
    /\ row' = [row EXCEPT ![s][n] = @ - 1, ![s][m] = @ + 1]
    /\ moved' = moved \cup {<<s, n>>, <<s, m>>}
    /\ UNCHANGED <<vault, call, delivery, answered, uncertain, faults>>

\* Another request that has read the same map and not yet written it.
Overlaps(q, s) ==
    \E other \in SecretRequests \ {q} :
        call[other].pc = "write" /\ call[other].scope = s

ReadMap(q) ==
    LET s == call[q].scope IN
    /\ call[q].pc = "read"
    /\ call' = [call EXCEPT ![q].pc = "write", ![q].view = vault[Stores[s]]]
    /\ uncertain' = IF Overlaps(q, s) THEN uncertain \cup ({s} \X SecretNames)
                  ELSE uncertain
    /\ UNCHANGED <<row, vault, delivery, answered, moved, ops, faults>>

\* create_or_update_secret, or delete_metadata_and_all_versions of a path
\* with no key left.
StoreMap(f) ==
    vault' = IF Stored(f) THEN [vault EXCEPT ![Stores[f.scope]] = Changed(f)]
             ELSE vault

WriteMap(q) ==
    /\ call[q].pc = "write" /\ StoreMap(call[q])
    /\ call' = [call EXCEPT ![q].pc = "commit"]
    /\ answered' = [answered EXCEPT ![call[q].scope][call[q].name] = call[q].value]
    /\ UNCHANGED <<row, delivery, uncertain, moved, ops, faults>>

\* The call fails and the portal raises: the transaction is rolled back.  A
\* call that timed out may have written.
FailSecret(q) ==
    LET f == call[q] IN
    /\ f.pc \in {"read", "write"} /\ Spend
    /\ IF f.pc = "read" THEN UNCHANGED <<vault, uncertain>>
       ELSE /\ StoreMap(f) \/ UNCHANGED vault
            /\ uncertain' = uncertain \cup {<<f.scope, f.name>>}
    /\ call' = [call EXCEPT ![q] = NoSecretRequest]
    /\ UNCHANGED <<row, delivery, answered, moved, ops>>

CommitSecret(q) ==
    LET f == call[q] IN
    /\ f.pc = "commit"
    /\ row' = [row EXCEPT ![f.scope][f.name] =
         CASE f.op = "create" -> @ + 1 [] f.op = "unlink" -> @ - 1 [] f.op = "write" -> @]
    /\ moved' = IF f.op = "create" /\ row[f.scope][f.name] > 0
                THEN moved \cup {<<f.scope, f.name>>} ELSE moved
    /\ call' = [call EXCEPT ![q] = NoSecretRequest]
    /\ UNCHANGED <<vault, delivery, answered, uncertain, ops, faults>>

----------------------------------------------------------------------------
(* The Application's handler *)

Reconcile ==
    /\ due /\ app.pc = "idle"
    /\ due' = FALSE
    /\ app' = [HandlerResting EXCEPT !.pc = "look", !.todo = Scopes]
    /\ UNCHANGED <<row, vault, call, es, secret, envFrom, history, ops, faults>>

\* The next path, least specific first; an error ends the delivery, not the
\* reconcile.
Look ==
    /\ app.pc = "look"
    /\ \E s \in app.todo :
        /\ \A t \in app.todo : Rank[s] <= Rank[t]
        /\ \/ /\ app' = [app EXCEPT
                    !.todo = @ \ {s},
                    !.found = IF Exists(Looks[s]) THEN @ \cup {Looks[s]} ELSE @,
                    !.pc = IF app.todo = {s} THEN "apply" ELSE "look"]
              /\ UNCHANGED faults
           \/ Spend /\ app' = [app EXCEPT !.pc = "argo"]
    /\ UNCHANGED <<row, vault, call, es, secret, envFrom, due, history, ops>>

ApplyExternalSecret ==
    /\ app.pc = "apply"
    /\ \/ /\ es' = app.found
          /\ app' = [app EXCEPT !.pc = "argo", !.deliver = Delivered(app.found)]
          /\ UNCHANGED faults
       \/ Spend /\ app' = [app EXCEPT !.pc = "argo"] /\ UNCHANGED es
    /\ UNCHANGED <<row, vault, call, secret, envFrom, due, history, ops>>

\* A failure here does end the reconcile: Kopf calls the handler again.
ApplyArgo ==
    /\ app.pc = "argo"
    /\ \/ envFrom' = app.deliver /\ UNCHANGED <<due, faults>>
       \/ Spend /\ due' = TRUE /\ UNCHANGED envFrom
    /\ app' = HandlerResting
    /\ UNCHANGED <<row, vault, call, es, secret, history, ops>>

\* The Application or one of the objects it inherits from is changed.
OtherChange ==
    /\ ~due /\ ops < MaxOps /\ ops' = ops + 1 /\ due' = TRUE
    /\ UNCHANGED <<row, vault, call, es, secret, envFrom, app, history, faults>>

\* The controller stops; on.resume calls the handler.
Restart ==
    /\ Spend /\ due' = TRUE /\ app' = HandlerResting
    /\ UNCHANGED <<row, vault, call, es, secret, envFrom, history, ops>>

\* External Secrets, each minute: a path that is not there is an error, and
\* the Secret stays as it is; without its ExternalSecret it goes.
RefreshSecret ==
    /\ \A p \in es : Exists(p)
    /\ secret' = IF es = {} THEN None ELSE Merged(es)
    /\ secret' # secret
    /\ UNCHANGED <<row, vault, call, es, envFrom, app, due, history, ops, faults>>

----------------------------------------------------------------------------
SecretsInit ==
    /\ vault \in SecretMaps
    /\ row = [s \in Scopes |->
         [n \in SecretNames |-> IF vault[Stores[s]][n] = None THEN 0 ELSE 1]]
    /\ call = [q \in SecretRequests |-> NoSecretRequest]
    /\ es = {} /\ secret = None /\ envFrom = FALSE
    /\ app = HandlerResting /\ due = TRUE
    /\ answered = [s \in Scopes |-> vault[Stores[s]]]
    /\ uncertain = {} /\ moved = {}
    /\ ops = 0 /\ faults = 0

SecretStep(q) == ReadMap(q) \/ WriteMap(q) \/ CommitSecret(q)
HandlerStep == Look \/ ApplyExternalSecret \/ ApplyArgo

SecretsNext ==
    \/ \E q \in SecretRequests, s \in Scopes, n \in SecretNames :
        \/ \E v \in SecretValues : CreateSecret(q, s, n, v) \/ WriteSecret(q, s, n, v)
        \/ UnlinkSecret(q, s, n)
    \/ \E s \in Scopes, n, m \in SecretNames : RenameSecret(s, n, m)
    \/ \E q \in SecretRequests : SecretStep(q) \/ FailSecret(q)
    \/ Reconcile \/ HandlerStep
    \/ OtherChange \/ Restart \/ RefreshSecret

\* Requests end, Kopf calls a handler that is due and the handler ends, the
\* operator keeps refreshing.
SecretsFairness ==
    /\ \A q \in SecretRequests : WF_secretsVars(SecretStep(q))
    /\ WF_secretsVars(Reconcile) /\ WF_secretsVars(HandlerStep)
    /\ WF_secretsVars(RefreshSecret)

SecretsSpec == SecretsInit /\ [][SecretsNext]_secretsVars /\ SecretsFairness

----------------------------------------------------------------------------
\* Every variable has its type; records are not more than were created.
SecretsTypeOK ==
    /\ row \in [Scopes -> [SecretNames -> 0 .. MaxOps + 1]]
    /\ vault \in [SecretPaths -> Map]
    /\ call \in [SecretRequests -> SecretFrame]
    /\ es \subseteq SecretPaths /\ secret \in Map \cup {None}
    /\ envFrom \in BOOLEAN /\ app \in Handler /\ due \in BOOLEAN
    /\ answered \in [Scopes -> Map]
    /\ uncertain \subseteq Scopes \X SecretNames /\ moved \subseteq Scopes \X SecretNames
    /\ ops \in 0 .. MaxOps /\ faults \in 0 .. MaxFaults

\* A value that the API acknowledged is the one in OpenBao, whatever else was
\* set or removed at its scope, unless requests overlapped there or one of its
\* own failed: read-modify-write "per key" does not disturb the other keys.
\* "The secret's value is stored in the platform vault": a record at rest has
\* its value there, if it was not renamed and is the only one of its name.
SecretsAcknowledged ==
    /\ SecretsTypeOK
    /\ \A s \in Scopes, n \in SecretNames :
          <<s, n>> \notin uncertain =>
              /\ vault[Stores[s]][n] = answered[s][n]
              /\ row[s][n] > 0 /\ ~SecretBusy(s, n) /\ <<s, n>> \notin moved
                    => vault[Stores[s]][n] # None

\* The workload does not refer to an ExternalSecret that was removed, but
\* until the reconcile that removed it ends, or the one after a failure.
NoDangling == envFrom /\ es = {} => due \/ app.pc # "idle"

\* What the workload gets of a name is its value at the nearest scope.
NearestWins ==
    \A n \in SecretNames :
        LET held == {s \in Scopes : vault[Looks[s]][n] # None} IN
        IF held = {} THEN secret[n] = None
        ELSE \E s \in held : /\ \A t \in held : Rank[t] <= Rank[s]
                             /\ secret[n] = vault[Looks[s]][n]

\* Once the ExternalSecret lists the paths that there are, the workload's
\* Secret comes to have what the scopes hold, the nearest scope winning, with
\* every later change of a value ("ESO's merge makes later keys win").
EventuallyDelivered ==
    <>[](es = {p \in SecretPaths : vault[p] # Empty} =>
            IF es = {} THEN secret = None ELSE secret # None /\ NearestWins)

\* "the ExternalSecret is removed then, so a deleted last secret revokes
\* cleanly": what no scope holds any more does not stay with the workload.
Revoked ==
    <>[](secret # None => \A n \in SecretNames : secret[n] # None =>
            \E s \in Scopes : vault[Looks[s]][n] # None)

\* "they land at per-scope KV paths ...; the controller delivers the merged
\* result to workloads": what a scope holds comes to the workload.
Reaches ==
    <>[](\A s \in Scopes, n \in SecretNames :
            vault[Stores[s]][n] # None => secret # None /\ secret[n] # None)

----------------------------------------------------------------------------
(* Why they hold: an inductive invariant, proved in PortalProofs           *)

\* The request q is about the secret n of the scope s.
About(q, s, n) ==
    call[q].pc # "idle" /\ call[q].scope = s /\ call[q].name = n
Creators(s, n) == {q \in SecretRequests : About(q, s, n) /\ call[q].op = "create"}

\* A record that a request writes or deletes is there and stays until it
\* ends: it has the row for itself.  Records are not more than were created.
RowInv ==
    /\ \A q \in SecretRequests :
         /\ call[q].value = None <=> call[q].op = "unlink" \/ call[q].pc = "idle"
         /\ call[q].pc # "idle" /\ call[q].op # "create" =>
              /\ row[call[q].scope][call[q].name] > 0
              /\ \A p \in SecretRequests \ {q} :
                   About(p, call[q].scope, call[q].name) => call[p].op = "create"
    /\ \A s \in Scopes, n \in SecretNames :
         /\ IsFiniteSet(Creators(s, n))
         /\ row[s][n] + Cardinality(Creators(s, n)) <= ops + 1

\* A name that was not moved has one record or is about to get its first.
SettledInv ==
    \A s \in Scopes, n \in SecretNames : <<s, n>> \notin moved =>
        /\ row[s][n] <= 1
        /\ \A q \in Creators(s, n) : row[s][n] = 0 /\ Creators(s, n) = {q}

\* The map that a request has read is the one that is there until it writes,
\* unless requests overlapped.
MapInv ==
    \A q \in SecretRequests : call[q].pc = "write" =>
        \/ {call[q].scope} \X SecretNames \subseteq uncertain
        \/ /\ call[q].view = vault[Stores[call[q].scope]]
           /\ ~Overlaps(q, call[q].scope)

\* What is known is in the vault; an answer that is not yet committed is known.
KnownInv ==
    \A s \in Scopes, n \in SecretNames : <<s, n>> \notin uncertain =>
        /\ vault[Stores[s]][n] = answered[s][n]
        /\ <<s, n>> \notin moved =>
             /\ \A q \in SecretRequests : About(q, s, n) /\ call[q].pc = "commit" =>
                  answered[s][n] = call[q].value
             /\ row[s][n] > 0 /\ answered[s][n] = None =>
                  \E q \in SecretRequests : About(q, s, n) /\ call[q].pc = "commit"

\* A handler that will refer to the ExternalSecret has applied it.
DeliveryInv == app.deliver => app.pc = "argo" /\ es # {}

\* The parts about the portal, the API and OpenBao, and the handler's.
CoreInv == SecretsTypeOK /\ RowInv /\ SettledInv /\ MapInv /\ KnownInv
HandlerInv == DeliveryInv /\ NoDangling
SecretsInv == CoreInv /\ HandlerInv
=============================================================================
