--------------------------- MODULE MCConfigFanout ---------------------------
(***************************************************************************)
(* Values for model-checking ConfigFanout: a Client, an Environment whose  *)
(* handler looks the Client up, a Domain; one Application under all three  *)
(* and one that may move out of the Domain.                                *)
(***************************************************************************)
EXTENDS ConfigFanout

CONSTANTS client, environment, domain, a1, a2

MCRequires == [p \in Parents |-> IF p = environment THEN {client} ELSE {}]

\* The Environment's and the Domain's spec are created and left alone in the
\* run over all kinds; the Client's is edited.
MCMaxGen == [p \in Parents |-> IF p = client THEN 2 ELSE 1]

\* An Application that may leave and join the Domain or Environment.
MCScopes == [a \in Apps |-> {Parents, Parents \ {environment, domain}}]

\* Every Application under every parent.
FixedScopes == [a \in Apps |-> {Parents}]
FixedMaxGen == [p \in Parents |-> 2]
=============================================================================
