--------------------------- MODULE ReleaseContract ---------------------------
(***************************************************************************)
(* What the app engine promises about one Application, with the handler,   *)
(* Kopf and every Workflow left out: only an artifact that was built is    *)
(* ever live, only a source that was loaded is ever reported as restored,  *)
(* and something that is live stays live until the Application is taken    *)
(* down.                                                                   *)
(***************************************************************************)
CONSTANTS
    Artifacts,   \* what can be deployed
    Stock,       \* the artifact that needs no build: the chart's own image
    Sources,     \* what a database can be restored from
    Off          \* nothing is live, nothing is reported

VARIABLES built, loaded, live, claim

contractVars == <<built, loaded, live, claim>>

Init ==
    /\ built = {Stock} /\ loaded = {}
    /\ live = Off /\ claim = Off

Produce(a) == built' = built \cup {a} /\ UNCHANGED <<loaded, live, claim>>

Load(s) == loaded' = loaded \cup {s} /\ UNCHANGED <<built, live, claim>>

Release(a) == a \in built /\ live' = a /\ UNCHANGED <<built, loaded, claim>>

Claim(s) == s \in loaded /\ claim' = s /\ UNCHANGED <<built, loaded, live>>

TakeDown ==
    /\ live' \in {live, Off} /\ claim' = Off
    /\ loaded' \subseteq loaded
    /\ UNCHANGED built

Next == \/ \E a \in Artifacts : Produce(a) \/ Release(a)
        \/ \E s \in Sources : Load(s) \/ Claim(s)
        \/ TakeDown

Spec == Init /\ [][Next]_contractVars
=============================================================================
