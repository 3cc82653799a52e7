---------------------------- MODULE PortalProofs -----------------------------
(***************************************************************************)
(* Proofs about the three modules in which the portal writes through the   *)
(* platform API, for every value of their constants: the variables of a    *)
(* scope (ScopedVariables), the secrets of the scopes (ScopedSecrets) and  *)
(* the records with their manifests (PortalMirror).  They share nothing    *)
(* but what PortalBounds declares; each theorem is about one of them.      *)
(*                                                                         *)
(* Variables: a request computes the whole manifest from what it read and  *)
(* puts it under the sha of the manifest it was computed for (Faithful),   *)
(* so a put that is not refused does what the request asks for to what the *)
(* earlier ones asked for.  That is lost when the manifest changes between *)
(* the read and the sha, and then unsure records it.                       *)
(*                                                                         *)
(* Secrets: there is no sha; the map a request read is still the one that  *)
(* is there when it writes, unless requests overlapped (MapInv), so it     *)
(* changes its own key and no other (KnownInv).  That a record at rest has *)
(* a value follows from whose row it is: what writes or deletes it has it  *)
(* for itself (RowInv), what creates it is alone with its name or the name *)
(* is in moved (SettledInv).                                               *)
(*                                                                         *)
(* Records: a request counts on its row and on its parent's row (RunInv),  *)
(* the sync on parents it found before (CronInv), and a deletion takes     *)
(* what refers to the row with it, never the parent (DescendantsClosed).   *)
(* A push writes the manifest that the request will commit, and no other   *)
(* request writes that file (PushInv).                                     *)
(***************************************************************************)
EXTENDS ScopedVariables, ScopedSecrets, PortalMirror, FiniteSetTheorems, TLAPS

----------------------------------------------------------------------------
(* What a request makes of a manifest *)

LEMMA NoVarsType == NoVars \in [Names -> Values \cup {None}]
  BY DEF NoVars

LEMMA CarriedOverType ==
  ASSUME NEW b \in Bodies, NEW m \in Content \cup {None}
  PROVE  CarriedOver(b, m) \in Content
<1>1. (IF m = None THEN NoVars ELSE m.vars) \in [Names -> Values \cup {None}]
  <2>1. CASE m = None
    BY <2>1, NoVarsType
  <2>2. CASE m # None
    BY <2>2 DEF Content
  <2> QED BY <2>1, <2>2
<1> QED BY <1>1 DEF CarriedOver, Content

LEMMA WithVariableType ==
  ASSUME NEW m \in Content, NEW n \in Names, NEW v \in Values \cup {None}
  PROVE  /\ WithVariable(m, n, v) \in Content
         /\ WithVariable(m, n, v).body = m.body
         /\ WithVariable(m, n, v).vars =
              [k \in Names |-> IF k = n THEN v ELSE m.vars[k]]
<1>1. m = [body |-> m.body, vars |-> m.vars]
      /\ m.body \in Bodies /\ m.vars \in [Names -> Values \cup {None}]
  BY DEF Content
<1>2. [m.vars EXCEPT ![n] = v] = [k \in Names |-> IF k = n THEN v ELSE m.vars[k]]
  BY <1>1
<1>3. WithVariable(m, n, v) = [body |-> m.body, vars |-> [m.vars EXCEPT ![n] = v]]
  BY <1>1 DEF WithVariable
<1>4. [m.vars EXCEPT ![n] = v] \in [Names -> Values \cup {None}]
  BY <1>1
<1> QED BY <1>1, <1>2, <1>3, <1>4 DEF Content

LEMMA AsAskedType ==
  ASSUME NEW f, NEW m \in Content \cup {None},
         f.op \in {"set", "remove", "upsert", "delete"},
         f.op \in {"set", "remove"} =>
            f.arg \in Names /\ f.content \in Content /\ f.value \in Values \cup {None},
         f.op = "upsert" => f.arg \in Bodies
  PROVE  AsAsked(f, m) \in Content \cup {None}
<1>1. CASE f.op = "delete"
  BY <1>1 DEF AsAsked
<1>2. CASE f.op = "upsert"
  <2>1. AsAsked(f, m) = CarriedOver(f.arg, m)
    BY <1>2 DEF AsAsked, CarriedOver
  <2> QED BY <1>2, <2>1, CarriedOverType
<1>3. CASE f.op \in {"set", "remove"}
  <2> DEFINE b == IF m = None THEN f.content.body ELSE m.body
             w == [n \in Names |-> IF n = f.arg THEN f.value
                                   ELSE IF m = None THEN None ELSE m.vars[n]]
  <2>1. b \in Bodies
    BY <1>3 DEF Content
  <2>2. \A n \in Names : (IF m = None THEN None ELSE m.vars[n]) \in Values \cup {None}
    BY DEF Content
  <2>3. w \in [Names -> Values \cup {None}]
    BY <1>3, <2>2
  <2>4. AsAsked(f, m) = [body |-> b, vars |-> w]
    BY <1>3 DEF AsAsked
  <2> HIDE DEF b, w
  <2>5. [body |-> b, vars |-> w] \in Content
    BY <2>1, <2>3 DEF Content
  <2> QED BY <2>4, <2>5
<1> QED BY <1>1, <1>2, <1>3

\* What is asked depends on the request's kind, its arguments and the body.
LEMMA AsAskedSame ==
  ASSUME NEW f, NEW g, NEW m,
         f.op = g.op, f.arg = g.arg, f.value = g.value, f.content = g.content
  PROVE  AsAsked(f, m) = AsAsked(g, m)
  BY DEF AsAsked

\* The read of the manifest is the start of what the request asks for.
LEMMA AsAskedRead ==
  ASSUME NEW f, NEW m \in Content \cup {None},
         \/ f.op = "upsert" /\ f.content = CarriedOver(f.arg, m)
         \/ /\ f.op \in {"set", "remove"} /\ m # None
            /\ f.arg \in Names /\ f.value \in Values \cup {None}
            /\ f.content = WithVariable(m, f.arg, f.value)
  PROVE  f.content = AsAsked(f, m)
<1>1. CASE f.op = "upsert" /\ f.content = CarriedOver(f.arg, m)
  BY <1>1 DEF AsAsked, CarriedOver
<1>2. CASE /\ f.op \in {"set", "remove"} /\ m # None
           /\ f.arg \in Names /\ f.value \in Values \cup {None}
           /\ f.content = WithVariable(m, f.arg, f.value)
  <2>1. m \in Content
    BY <1>2
  <2>2. PICK n, v : /\ n \in Names /\ v \in Values \cup {None}
                   /\ n = f.arg /\ v = f.value
    BY <1>2
  <2>5. /\ WithVariable(m, n, v) \in Content
        /\ WithVariable(m, n, v).body = m.body
        /\ WithVariable(m, n, v).vars = [k \in Names |-> IF k = n THEN v ELSE m.vars[k]]
    BY <2>1, <2>2, WithVariableType
  <2>6. f.content = WithVariable(m, n, v)
    BY <1>2, <2>2
  <2>3. f.content = [body |-> f.content.body, vars |-> f.content.vars]
    BY <2>5, <2>6 DEF Content
  <2>4. AsAsked(f, m) =
          [body |-> m.body,
           vars |-> [k \in Names |-> IF k = f.arg THEN f.value ELSE m.vars[k]]]
    BY <1>2 DEF AsAsked
  <2> QED BY <2>2, <2>3, <2>4, <2>5, <2>6
<1> QED BY <1>1, <1>2

----------------------------------------------------------------------------
(* Steps *)

\* One request's frame is replaced.
LEMMA Replaced ==
  ASSUME VariablesInv, NEW q \in Requests, NEW g \in Frame, Formed(g),
         request' = [request EXCEPT ![q] = g]
  PROVE  /\ request' \in [Requests -> Frame]
         /\ \A r \in Requests : Formed(request'[r])
         /\ request'[q] = g
         /\ \A r \in Requests : r # q => request'[r] = request[r]
<1>1. request \in [Requests -> Frame] /\ \A r \in Requests : Formed(request[r])
  BY DEF VariablesInv, TypeOK
<1>2. /\ request' \in [Requests -> Frame] /\ request'[q] = g
      /\ \A r \in Requests : r # q => request'[r] = request[r]
  BY <1>1
<1> QED BY <1>1, <1>2

\* The manifest stays as it is, and so does what is asked of it.
LEMMA ReplacedExact ==
  ASSUME VariablesInv, NEW q \in Requests, NEW g \in Frame, Formed(g),
         request' = [request EXCEPT ![q] = g],
         UNCHANGED <<git, known, unsure>>,
         unsure \/ Faithful(g, git)
  PROVE  unsure' \/ (git' = known' /\ \A r \in Requests : Faithful(request'[r], git'))
<1>1. /\ request'[q] = g
      /\ \A r \in Requests : r # q => request'[r] = request[r]
  BY Replaced
<1>2. unsure \/ (git = known /\ \A r \in Requests : Faithful(request[r], git))
  BY DEF VariablesInv
<1>3. CASE unsure
  BY <1>3
<1>4. CASE ~unsure
  <2>1. git = known /\ \A r \in Requests : Faithful(request[r], git)
    BY <1>2, <1>4
  <2>2. Faithful(g, git)
    BY <1>4
  <2>3. \A r \in Requests : Faithful(request'[r], git)
    BY <1>1, <2>1, <2>2
  <2> QED BY <2>1, <2>3
<1> QED BY <1>3, <1>4

\* A request that is over.
LEMMA NoRequestFrame ==
  NoRequest \in Frame /\ Formed(NoRequest) /\ \A m : Faithful(NoRequest, m)
  BY DEF NoRequest, Frame, Formed, Faithful

\* Requests begin with nothing read; a deletion does not read.
LEMMA BeginInv ==
  ASSUME VariablesInv, NEW q \in Requests,
         NEW op \in {"set", "remove", "upsert", "delete"},
         NEW arg \in Names \cup Bodies \cup {None}, NEW v \in Values \cup {None},
         NEW old \in Names \cup {None}, NEW pc \in {"read", "sha"},
         op \in {"set", "remove"} => arg \in Names,
         op = "set" => v \in Values,
         op = "upsert" => arg \in Bodies,
         op = "delete" <=> pc = "sha",
         Begin(q, op, arg, v, old, pc)
  PROVE  VariablesInv'
<1>1. PICK g : g = [pc |-> pc, op |-> op, arg |-> arg, value |-> v, old |-> old,
                    content |-> None, sha |-> None]
  OBVIOUS
<1>2. request' = [request EXCEPT ![q] = g]
  BY <1>1 DEF Begin
<1>3. g \in Frame
  BY <1>1 DEF Frame
<1>4. Formed(g)
  BY <1>1 DEF Formed
<1>5. Faithful(g, git)
  BY <1>1 DEF Faithful, AsAsked
<1>6. UNCHANGED <<owner, record, git, cr, inbox, known, unsure, faults>>
  BY DEF Begin
<1>7. ops' \in 0 .. MaxOps
  BY VariablesAssumption DEF VariablesAssumption, Begin, VariablesInv, TypeOK
<1>8. request' \in [Requests -> Frame] /\ \A r \in Requests : Formed(request'[r])
  BY <1>2, <1>3, <1>4, Replaced
<1>9. TypeOK'
  BY <1>6, <1>7, <1>8 DEF VariablesInv, TypeOK
<1>10. unsure' \/ (git' = known' /\ \A r \in Requests : Faithful(request'[r], git'))
  BY <1>2, <1>3, <1>4, <1>5, <1>6, ReplacedExact
<1> QED BY <1>8, <1>9, <1>10 DEF VariablesInv

\* The users' requests.
LEMMA UserInv ==
  ASSUME VariablesInv, NEW q \in Requests,
         \/ \E n \in Names : RemoveVariable(q, n) \/ \E v \in Values : SetVariable(q, n, v)
         \/ \E n, m \in Names : Rename(q, n, m)
         \/ \E b \in Bodies : Save(q, b)
         \/ DeleteScope(q)
  PROVE  VariablesInv'
<1>1. ASSUME NEW n \in Names, RemoveVariable(q, n) PROVE VariablesInv'
  BY <1>1, BeginInv DEF RemoveVariable
<1>2. ASSUME NEW n \in Names, NEW v \in Values, SetVariable(q, n, v) PROVE VariablesInv'
  BY <1>2, BeginInv DEF SetVariable
<1>3. ASSUME NEW n \in Names, NEW m \in Names, Rename(q, n, m) PROVE VariablesInv'
  <2>1. record[n].value \in Values
    BY <1>3 DEF Rename, VariablesInv, TypeOK, Record
  <2> QED BY <1>3, <2>1, BeginInv DEF Rename
<1>4. ASSUME NEW b \in Bodies, Save(q, b) PROVE VariablesInv'
  BY <1>4, BeginInv DEF Save
<1>5. CASE DeleteScope(q)
  BY <1>5, BeginInv DEF DeleteScope
<1> QED BY <1>1, <1>2, <1>3, <1>4, <1>5

\* The frame of a request that goes on to its commit.
LEMMA CommitFrame ==
  ASSUME NEW f \in Frame, Formed(f), f.pc # "idle"
  PROVE  /\ Committing(f) \in Frame /\ Formed(Committing(f))
         /\ \A m : Faithful(Committing(f), m)
<1>1. PICK g : g = [f EXCEPT !.pc = "commit", !.content = None, !.sha = None]
  OBVIOUS
<1>2. g \in Frame
  BY <1>1 DEF Frame
<1>3. g.pc = "commit" /\ g.op = f.op /\ g.arg = f.arg /\ g.value = f.value
  BY <1>1 DEF Frame
<1>4. Formed(g) /\ \A m : Faithful(g, m)
  BY <1>3 DEF Formed, Faithful
<1> QED BY <1>1, <1>2, <1>4 DEF Committing

\* A request that is refused ends, or goes on to its commit.
LEMMA RefusedFrame ==
  ASSUME NEW f \in Frame, Formed(f), f.pc # "idle"
  PROVE  Refused(f) \in Frame /\ Formed(Refused(f)) /\ \A m : Faithful(Refused(f), m)
<1>1. CASE f.op \in {"set", "remove"}
  BY <1>1, NoRequestFrame DEF Refused
<1>2. CASE f.op \notin {"set", "remove"}
  BY <1>2, CommitFrame DEF Refused
<1> QED BY <1>1, <1>2

LEMMA ReadManifestInv ==
  ASSUME VariablesInv, NEW q \in Requests, ReadManifest(q) PROVE VariablesInv'
<1> DEFINE f == request[q]
<1>1. /\ f \in Frame /\ Formed(f) /\ f.pc = "read"
      /\ git \in Content \cup {None}
  BY DEF ReadManifest, VariablesInv, TypeOK
<1>2. UNCHANGED <<owner, record, git, cr, inbox, known, unsure, ops, faults>>
  BY DEF ReadManifest
<1>3. PICK g : /\ request' = [request EXCEPT ![q] = g]
               /\ g = IF f.op = "upsert"
                      THEN [f EXCEPT !.pc = "sha", !.content = CarriedOver(f.arg, git)]
                      ELSE IF git = None THEN NoRequest
                      ELSE [f EXCEPT !.pc = "sha", !.content = WithVariable(git, f.arg, f.value)]
  BY DEF ReadManifest
<1> HIDE DEF f
<1>4. g \in Frame /\ Formed(g) /\ Faithful(g, git)
  <2>1. CASE f.op = "upsert"
    <3>1. f.arg \in Bodies
      BY <1>1, <2>1 DEF Formed
    <3>2. CarriedOver(f.arg, git) \in Content
      BY <1>1, <3>1, CarriedOverType
    <3>3. /\ g \in Frame /\ g.pc = "sha" /\ g.content = CarriedOver(f.arg, git)
          /\ g.op = f.op /\ g.arg = f.arg /\ g.value = f.value
      <4>1. g = [f EXCEPT !.pc = "sha", !.content = CarriedOver(f.arg, git)]
        BY <1>3, <2>1, Zenon
      <4> QED BY <1>1, <3>2, <4>1 DEF Frame
    <3>4. g.content = AsAsked(g, git)
      BY <1>1, <2>1, <3>3, AsAskedRead
    <3> QED BY <2>1, <3>1, <3>3, <3>4 DEF Formed, Faithful
  <2>2. CASE f.op # "upsert" /\ git = None
    BY <1>3, <2>2, NoRequestFrame
  <2>3. CASE f.op # "upsert" /\ git # None
    <3>1. f.op \in {"set", "remove"}
      BY <1>1, <2>3 DEF Formed, Frame
    <3>2. f.arg \in Names /\ f.value \in Values \cup {None} /\ git \in Content
      BY <1>1, <2>3, <3>1 DEF Formed, Frame
    <3>3. WithVariable(git, f.arg, f.value) \in Content
      BY <3>2, WithVariableType
    <3>4. /\ g \in Frame /\ g.pc = "sha" /\ g.content = WithVariable(git, f.arg, f.value)
          /\ g.op = f.op /\ g.arg = f.arg /\ g.value = f.value
      <4>1. g = [f EXCEPT !.pc = "sha", !.content = WithVariable(git, f.arg, f.value)]
        BY <1>3, <2>3, Zenon
      <4> QED BY <1>1, <3>3, <4>1 DEF Frame
    <3>5. g.content = AsAsked(g, git)
      BY <1>1, <2>3, <3>1, <3>2, <3>4, AsAskedRead
    <3>6. f.op = "set" => f.value \in Values
      BY <1>1 DEF Formed
    <3> QED BY <3>1, <3>2, <3>3, <3>4, <3>5, <3>6 DEF Formed, Faithful
  <2> QED BY <2>1, <2>2, <2>3
<1>5. request' \in [Requests -> Frame] /\ \A r \in Requests : Formed(request'[r])
  BY <1>3, <1>4, Replaced
<1>6. TypeOK'
  BY <1>2, <1>5 DEF VariablesInv, TypeOK
<1>7. unsure' \/ (git' = known' /\ \A r \in Requests : Faithful(request'[r], git'))
  BY <1>2, <1>3, <1>4, ReplacedExact
<1> QED BY <1>5, <1>6, <1>7 DEF VariablesInv

LEMMA FileShaInv ==
  ASSUME VariablesInv, NEW q \in Requests, FileSha(q) PROVE VariablesInv'
<1> DEFINE f == request[q]
           nothing == f.op = "delete" /\ git = None
<1>1. /\ f \in Frame /\ Formed(f) /\ f.pc = "sha"
      /\ git \in Content \cup {None} /\ known \in Content \cup {None}
  BY DEF FileSha, VariablesInv, TypeOK
<1>2. UNCHANGED <<owner, record, git, cr, inbox, unsure, ops, faults>>
  BY DEF FileSha
<1>3. known' = IF nothing THEN None ELSE known
  BY DEF FileSha
<1>4. PICK pc : /\ pc = IF nothing THEN "commit" ELSE "put"
                /\ request' = [request EXCEPT ![q] = [f EXCEPT !.pc = pc, !.sha = git]]
  BY DEF FileSha
<1>5. unsure \/ (git = known /\ Faithful(f, git))
  BY DEF VariablesInv
<1> HIDE DEF f
<1>6. PICK g : g = [f EXCEPT !.pc = pc, !.sha = git]
  OBVIOUS
<1>7. /\ g \in Frame /\ g.pc = pc /\ g.sha = git /\ g.content = f.content
      /\ g.op = f.op /\ g.arg = f.arg /\ g.value = f.value
  <2>1. pc \in {"put", "commit"}
    BY <1>4
  <2> QED BY <1>1, <1>6, <2>1 DEF Frame
<1>8. Formed(g)
  BY <1>1, <1>4, <1>7 DEF Formed
<1>9. unsure \/ Faithful(g, git)
  <2>1. CASE Faithful(f, git)
    <3>1. f.content = AsAsked(f, git)
      BY <1>1, <2>1 DEF Faithful
    <3>2. AsAsked(f, git) = AsAsked(g, git)
      BY <1>7, AsAskedSame
    <3>3. g.content = AsAsked(g, g.sha)
      BY <1>7, <3>1, <3>2
    <3> QED BY <1>4, <1>7, <3>3 DEF Faithful
  <2> QED BY <1>5, <2>1
<1>10. unsure \/ known' = known
  BY <1>3, <1>5
<1>11. known' \in Content \cup {None}
  BY <1>1, <1>3
<1>12. request' \in [Requests -> Frame] /\ \A r \in Requests : Formed(request'[r])
  BY <1>4, <1>6, <1>7, <1>8, Replaced
<1>13. TypeOK'
  BY <1>2, <1>11, <1>12 DEF VariablesInv, TypeOK
<1>14. unsure' \/ (git' = known' /\ \A r \in Requests : Faithful(request'[r], git'))
  <2>1. CASE unsure
    BY <1>2, <2>1
  <2>2. CASE known' = known
    BY <1>2, <1>4, <1>6, <1>7, <1>8, <1>9, <2>2, ReplacedExact
  <2> QED BY <1>10, <2>1, <2>2
<1> QED BY <1>12, <1>13, <1>14 DEF VariablesInv

\* A manifest that changes concerns those that have read it and have yet to
\* ask for its sha, unless they delete it.
LEMMA FaithfulMoved ==
  ASSUME NEW f, NEW m, NEW n, Faithful(f, m), f.pc = "sha" => f.op = "delete"
  PROVE  Faithful(f, n)
<1>1. f.op = "delete" => AsAsked(f, n) = AsAsked(f, m)
  BY DEF AsAsked
<1> QED BY <1>1 DEF Faithful

LEMMA PutFileInv ==
  ASSUME VariablesInv, NEW q \in Requests, PutFile(q) PROVE VariablesInv'
<1> DEFINE f == request[q]
<1>1. /\ f \in Frame /\ Formed(f) /\ f.pc = "put" /\ f.pc # "idle"
      /\ git \in Content \cup {None} /\ known \in Content \cup {None}
      /\ unsure \in BOOLEAN /\ (unsure \/ git = known)
  BY DEF PutFile, VariablesInv, TypeOK
<1>2. UNCHANGED <<owner, record, cr, inbox, ops, faults>>
  BY DEF PutFile
<1>3. CASE git = f.sha
  <2>1. PICK g : g = Committing(f)
    OBVIOUS
  <2>2. /\ git' = f.content /\ known' = AsAsked(f, known)
        /\ unsure' = (unsure \/ \E other \in Requests \ {q} : Overlapping(other))
        /\ request' = [request EXCEPT ![q] = g]
    BY <1>3, <2>1 DEF PutFile
  <2>3. g \in Frame /\ Formed(g) /\ \A m : Faithful(g, m)
    BY <1>1, <2>1, CommitFrame
  <2>4. /\ request' \in [Requests -> Frame] /\ \A r \in Requests : Formed(request'[r])
        /\ request'[q] = g
        /\ \A r \in Requests : r # q => request'[r] = request[r]
    BY <2>2, <2>3, Replaced
  <2>5. git' \in Content \cup {None}
    BY <1>1, <2>2 DEF Frame
  <2>6. known' \in Content \cup {None}
    <3>1. /\ f.op \in {"set", "remove", "upsert", "delete"}
          /\ f.op \in {"set", "remove"} =>
               f.arg \in Names /\ f.content \in Content /\ f.value \in Values \cup {None}
          /\ f.op = "upsert" => f.arg \in Bodies
      BY <1>1 DEF Formed, Frame
    <3> QED BY <1>1, <2>2, <3>1, AsAskedType
  <2>7. unsure' \in BOOLEAN
    BY <1>1, <2>2
  <2>8. TypeOK'
    BY <1>2, <2>4, <2>5, <2>6, <2>7 DEF VariablesInv, TypeOK
  <2>9. ASSUME ~unsure'
        PROVE  git' = known' /\ \A r \in Requests : Faithful(request'[r], git')
    <3>1. ~unsure /\ \A r \in Requests \ {q} : ~Overlapping(r)
      BY <2>2, <2>9
    <3>2. git = known /\ \A r \in Requests : Faithful(request[r], git)
      BY <3>1 DEF VariablesInv
    <3>3. f.content = AsAsked(f, f.sha)
      BY <1>1, <3>2 DEF Faithful
    <3>4. git' = known'
      BY <1>3, <2>2, <3>2, <3>3
    <3>5. ASSUME NEW r \in Requests, r # q PROVE Faithful(request'[r], git')
      <4>1. request[r].pc = "sha" => request[r].op = "delete"
        BY <3>1, <3>5 DEF Overlapping
      <4>2. Faithful(request[r], git)
        BY <3>2
      <4>3. Faithful(request[r], git')
        BY <4>1, <4>2, FaithfulMoved
      <4> QED BY <2>4, <3>5, <4>3
    <3> QED BY <2>3, <2>4, <3>4, <3>5
  <2> QED BY <2>4, <2>8, <2>9 DEF VariablesInv
<1>4. CASE git # f.sha
  <2>1. request' = [request EXCEPT ![q] = Refused(f)] /\ UNCHANGED <<git, known, unsure>>
    BY <1>4 DEF PutFile
  <2>2. Refused(f) \in Frame /\ Formed(Refused(f)) /\ \A m : Faithful(Refused(f), m)
    BY <1>1, RefusedFrame
  <2>3. request' \in [Requests -> Frame] /\ \A r \in Requests : Formed(request'[r])
    BY <2>1, <2>2, Replaced
  <2>4. unsure' \/ (git' = known' /\ \A r \in Requests : Faithful(request'[r], git'))
    BY <2>1, <2>2, ReplacedExact
  <2>5. TypeOK'
    BY <1>2, <2>1, <2>3 DEF VariablesInv, TypeOK
  <2> QED BY <2>3, <2>4, <2>5 DEF VariablesInv
<1> QED BY <1>3, <1>4

LEMMA FailRequestInv ==
  ASSUME VariablesInv, NEW q \in Requests, FailRequest(q) PROVE VariablesInv'
<1> DEFINE f == request[q]
<1>1. /\ f \in Frame /\ Formed(f) /\ f.pc # "idle"
      /\ git \in Content \cup {None}
  BY DEF FailRequest, VariablesInv, TypeOK
<1>2. /\ request' = [request EXCEPT ![q] = Refused(f)]
      /\ UNCHANGED <<owner, record, cr, inbox, known, ops>>
  BY DEF FailRequest
<1>3. Refused(f) \in Frame /\ Formed(Refused(f)) /\ \A m : Faithful(Refused(f), m)
  BY <1>1, RefusedFrame
<1>4. request' \in [Requests -> Frame] /\ \A r \in Requests : Formed(request'[r])
  BY <1>2, <1>3, Replaced
<1>5. faults' \in 0 .. MaxFaults
  BY VariablesAssumption DEF VariablesAssumption, FailRequest, VariablesInv, TypeOK
<1>6. f.content \in Content \cup {None}
  BY <1>1 DEF Frame
<1>7. git' \in Content \cup {None} /\ unsure' \in BOOLEAN
  <2>1. CASE f.pc = "put"
    BY <1>1, <1>6, <2>1 DEF FailRequest
  <2>2. CASE f.pc # "put"
    BY <1>1, <2>2 DEF FailRequest, VariablesInv, TypeOK
  <2> QED BY <2>1, <2>2
<1>8. TypeOK'
  BY <1>2, <1>4, <1>5, <1>7 DEF VariablesInv, TypeOK
<1>9. unsure' \/ (git' = known' /\ \A r \in Requests : Faithful(request'[r], git'))
  <2>1. CASE f.pc = "put"
    BY <2>1 DEF FailRequest
  <2>2. CASE f.pc # "put"
    <3>1. UNCHANGED <<git, known, unsure>>
      BY <1>2, <2>2 DEF FailRequest
    <3> QED BY <1>2, <1>3, <3>1, ReplacedExact
  <2> QED BY <2>1, <2>2
<1> QED BY <1>4, <1>8, <1>9 DEF VariablesInv

LEMMA CommitInv ==
  ASSUME VariablesInv, NEW q \in Requests, Commit(q) PROVE VariablesInv'
<1> DEFINE f == request[q]
<1>1. f \in Frame /\ Formed(f) /\ f.pc = "commit"
  BY DEF Commit, VariablesInv, TypeOK
<1>2. /\ request' = [request EXCEPT ![q] = NoRequest]
      /\ UNCHANGED <<git, cr, inbox, known, unsure, ops, faults>>
  BY DEF Commit
<1>3. request' \in [Requests -> Frame] /\ \A r \in Requests : Formed(request'[r])
  BY <1>2, NoRequestFrame, Replaced
<1>4. owner' \in BOOLEAN
  BY DEF Commit, VariablesInv, TypeOK
<1>5. record' \in [Names -> Record \cup {None}]
  <2>1. record \in [Names -> Record \cup {None}]
    BY DEF VariablesInv, TypeOK
  <2>2. f.op \in {"set", "remove", "upsert", "delete"}
    BY <1>1 DEF Frame
  <2>3. CASE f.op = "set"
    <3>1. [value |-> f.value, fresh |-> TRUE] \in Record
      BY <1>1, <2>3 DEF Formed, Record
    <3>2. record' = [n \in Names |->
                       IF n = f.arg THEN [value |-> f.value, fresh |-> TRUE]
                       ELSE IF n = f.old THEN None ELSE record[n]]
      BY <2>3 DEF Commit
    <3> QED BY <2>1, <3>1, <3>2
  <2>4. CASE f.op = "remove"
    BY <2>1, <2>4 DEF Commit
  <2>5. CASE f.op = "delete"
    BY <2>5 DEF Commit
  <2>6. CASE f.op = "upsert"
    BY <2>1, <2>6 DEF Commit
  <2> QED BY <2>2, <2>3, <2>4, <2>5, <2>6
<1>6. TypeOK'
  BY <1>2, <1>3, <1>4, <1>5 DEF VariablesInv, TypeOK
<1>7. unsure' \/ (git' = known' /\ \A r \in Requests : Faithful(request'[r], git'))
  BY <1>2, NoRequestFrame, ReplacedExact
<1> QED BY <1>3, <1>6, <1>7 DEF VariablesInv

LEMMA GitEditInv ==
  ASSUME VariablesInv, NEW n \in Names, NEW v \in Values \cup {None}, GitEdit(n, v)
  PROVE  VariablesInv'
<1>1. /\ git \in Content /\ git' = [git EXCEPT !.vars[n] = v] /\ known' = git'
      /\ unsure \in BOOLEAN
      /\ unsure' = (unsure \/ \E q \in Requests : Overlapping(q))
      /\ UNCHANGED <<owner, record, cr, inbox, request, faults>>
  BY DEF GitEdit, VariablesInv, TypeOK
<1>2. git' \in Content
  BY <1>1, WithVariableType DEF WithVariable
<1>3. ops' \in 0 .. MaxOps
  BY VariablesAssumption DEF VariablesAssumption, GitEdit, VariablesInv, TypeOK
<1>4. TypeOK'
  BY <1>1, <1>2, <1>3 DEF VariablesInv, TypeOK
<1>5. ASSUME ~unsure', NEW q \in Requests PROVE Faithful(request'[q], git')
  <2>1. ~unsure /\ ~Overlapping(q)
    BY <1>1, <1>5
  <2>2. request[q].pc = "sha" => request[q].op = "delete"
    BY <2>1 DEF Overlapping
  <2>3. Faithful(request[q], git)
    BY <2>1 DEF VariablesInv
  <2>4. Faithful(request[q], git')
    BY <2>2, <2>3, FaithfulMoved
  <2> QED BY <1>1, <2>4
<1> QED BY <1>1, <1>4, <1>5 DEF VariablesInv

\* What does not touch manifest and requests.
LEMMA AsideInv ==
  ASSUME VariablesInv, TypeOK', UNCHANGED <<git, request, known, unsure>>
  PROVE  VariablesInv'
  BY DEF VariablesInv

LEMMA MirroredType ==
  ASSUME NEW r \in Record \cup {None}, NEW d \in Values \cup {None}
  PROVE  Mirrored(r, d) \in Record \cup {None}
<1>1. d # None => [value |-> d, fresh |-> TRUE] \in Record
  BY DEF Record
<1>2. r # None => r.fresh \in BOOLEAN
  BY DEF Record
<1>3. CASE r = None
  BY <1>1, <1>3 DEF Mirrored
<1>4. CASE r # None
  BY <1>1, <1>2, <1>4 DEF Mirrored
<1> QED BY <1>3, <1>4

LEMMA SyncVariablesType ==
  ASSUME VariablesInv, NEW m \in Content \cup {None}, SyncVariables(m)
  PROVE  record' \in [Names -> Record \cup {None}]
<1>1. m \in Content /\ record \in [Names -> Record \cup {None}]
  BY DEF SyncVariables, VariablesInv, TypeOK
<1>2. \A n \in Names : Mirrored(record[n], m.vars[n]) \in Record \cup {None}
  BY <1>1, MirroredType DEF Content
<1> QED BY <1>2 DEF SyncVariables

\* Argo CD, the pushes, the syncs and the time that passes.
LEMMA EnvironmentInv ==
  ASSUME VariablesInv,
         \/ Apply \/ PushStatus \/ Receive \/ CronSync
         \/ \E n \in Names : Age(n)
  PROVE  VariablesInv'
<1> USE DEF VariablesInv
<1>1. CASE Apply
  <2>1. TypeOK'
    BY <1>1 DEF Apply, TypeOK
  <2> QED BY <1>1, <2>1, AsideInv DEF Apply
<1>2. CASE PushStatus
  <2>1. TypeOK'
    BY <1>2 DEF PushStatus, TypeOK
  <2> QED BY <1>2, <2>1, AsideInv DEF PushStatus
<1>3. CASE Receive
  <2>1. record' \in [Names -> Record \cup {None}]
    BY <1>3, SyncVariablesType DEF Receive, TypeOK
  <2>2. TypeOK'
    BY <1>3, <2>1 DEF Receive, TypeOK
  <2> QED BY <1>3, <2>2, AsideInv DEF Receive
<1>4. CASE CronSync
  <2>1. record' \in [Names -> Record \cup {None}]
    BY <1>4, SyncVariablesType DEF CronSync, TypeOK
  <2>2. TypeOK'
    BY <1>4, <2>1 DEF CronSync, TypeOK
  <2> QED BY <1>4, <2>2, AsideInv DEF CronSync
<1>5. ASSUME NEW n \in Names, Age(n) PROVE VariablesInv'
  <2>1. [record[n] EXCEPT !.fresh = FALSE] \in Record
    BY <1>5 DEF Age, TypeOK, Record
  <2>2. record' \in [Names -> Record \cup {None}]
    BY <1>5, <2>1 DEF Age, TypeOK
  <2>3. TypeOK'
    BY <1>5, <2>2 DEF Age, TypeOK
  <2> QED BY <1>5, <2>3, AsideInv DEF Age
<1> QED BY <1>1, <1>2, <1>3, <1>4, <1>5

LEMMA StutterInv == ASSUME VariablesInv, UNCHANGED vars PROVE VariablesInv'
<1>1. TypeOK'
  BY DEF vars, VariablesInv, TypeOK
<1> QED BY <1>1, AsideInv DEF vars

LEMMA InitInv == Init => VariablesInv
<1> SUFFICES ASSUME Init PROVE VariablesInv
  OBVIOUS
<1>1. git \in Content \cup {None}
  BY NoVarsType DEF Init, Content
<1>2. request \in [Requests -> Frame] /\ \A q \in Requests : request[q] = NoRequest
  BY NoRequestFrame DEF Init
<1>3. ops \in 0 .. MaxOps /\ faults \in 0 .. MaxFaults
  BY VariablesAssumption DEF VariablesAssumption, Init
<1>4. TypeOK
  BY <1>1, <1>2, <1>3 DEF Init, TypeOK
<1>5. git = known
  BY DEF Init
<1> QED BY <1>2, <1>4, <1>5, NoRequestFrame DEF VariablesInv

----------------------------------------------------------------------------
(* The theorems *)

\* The invariant holds of every behaviour: what the requests under way have
\* made of the manifest is what they ask for (service.py, git/forgejo.py).
THEOREM VariablesInvariant == Spec => []VariablesInv
<1>1. Init => VariablesInv
  BY InitInv
<1>2. VariablesInv /\ [Next]_vars => VariablesInv'
  <2> SUFFICES ASSUME VariablesInv, [Next]_vars PROVE VariablesInv'
    OBVIOUS
  <2>1. ASSUME NEW q \in Requests,
               \/ \E n \in Names :
                    RemoveVariable(q, n) \/ \E v \in Values : SetVariable(q, n, v)
               \/ \E n, m \in Names : Rename(q, n, m)
               \/ \E b \in Bodies : Save(q, b)
               \/ DeleteScope(q)
        PROVE  VariablesInv'
    BY <2>1, UserInv
  <2>2. ASSUME NEW q \in Requests, Step(q) PROVE VariablesInv'
    BY <2>2, ReadManifestInv, FileShaInv, PutFileInv, CommitInv DEF Step
  <2>3. ASSUME NEW q \in Requests, FailRequest(q) PROVE VariablesInv'
    BY <2>3, FailRequestInv
  <2>4. CASE \/ Apply \/ PushStatus \/ Receive \/ CronSync
             \/ \E n \in Names : Age(n)
    BY <2>4, EnvironmentInv
  <2>5. ASSUME NEW n \in Names, NEW v \in Values \cup {None}, GitEdit(n, v)
        PROVE  VariablesInv'
    BY <2>5, GitEditInv
  <2>6. CASE UNCHANGED vars
    BY <2>6, StutterInv
  <2> QED BY <2>1, <2>2, <2>3, <2>4, <2>5, <2>6 DEF Next
<1> QED BY <1>1, <1>2, PTL DEF Spec

\* The manifest is what the answered requests asked for, one after the other:
\* commit carries the variables over, _mutate_variables changes one, and
\* neither loses what another request wrote, unless they overlapped.
THEOREM RequestsAreAcknowledged == Spec => []Acknowledged
<1>1. VariablesInv => Acknowledged
  BY DEF VariablesInv, Acknowledged
<1> QED BY <1>1, VariablesInvariant, PTL

----------------------------------------------------------------------------
(* Secrets: the portal's requests and the API's store                      *)

\* Numbers and the types of what a request and the handler hold.
LEMMA SecretsFacts ==
  ASSUME SecretsTypeOK
  PROVE  /\ MaxOps \in Nat /\ MaxFaults \in Nat /\ ops \in Nat /\ faults \in Nat
         /\ ops <= MaxOps /\ None \notin SecretValues
         /\ \A q \in SecretRequests : call[q] \in SecretFrame
         /\ \A s \in Scopes : Stores[s] \in SecretPaths /\ vault[Stores[s]] \in Map
         /\ \A s \in Scopes, n \in SecretNames : row[s][n] \in 0 .. MaxOps + 1
         /\ \A s, t \in Scopes : Stores[s] = Stores[t] => s = t
  BY SecretsAssumption DEF SecretsTypeOK

LEMMA NoRequestType ==
  /\ NoSecretRequest \in SecretFrame
  /\ NoSecretRequest.pc = "idle" /\ NoSecretRequest.value = None
  /\ Empty \in Map
<1>1. (CHOOSE s \in Scopes : TRUE) \in Scopes /\ (CHOOSE n \in SecretNames : TRUE) \in SecretNames
  BY SecretsAssumption
<1>2. Empty \in Map
  BY DEF Empty, Map
<1> QED BY <1>1, <1>2 DEF NoSecretRequest, SecretFrame

\* The request q is another one.
Requested(q, f) ==
    /\ call' \in [SecretRequests -> SecretFrame] /\ call'[q] = f
    /\ \A p \in SecretRequests \ {q} : call'[p] = call[p]

LEMMA RequestStep ==
  ASSUME SecretsTypeOK, NEW q \in SecretRequests, NEW f \in SecretFrame, call' = [call EXCEPT ![q] = f]
  PROVE  Requested(q, f)
  BY DEF SecretsTypeOK, Requested

\* The rows that a request, and those that are created, leave room for.
LEMMA RowFacts ==
  ASSUME SecretsTypeOK, RowInv, NEW s \in Scopes, NEW n \in SecretNames
  PROVE  /\ IsFiniteSet(Creators(s, n)) /\ Cardinality(Creators(s, n)) \in Nat
         /\ row[s][n] \in Nat /\ row[s][n] + Cardinality(Creators(s, n)) <= ops + 1
         /\ Creators(s, n) # {} => row[s][n] <= ops
<1>1. IsFiniteSet(Creators(s, n)) /\ row[s][n] + Cardinality(Creators(s, n)) <= ops + 1
  BY DEF RowInv
<1>2. Cardinality(Creators(s, n)) \in Nat
  BY <1>1, FS_CardinalityType
<1>3. Creators(s, n) # {} => Cardinality(Creators(s, n)) # 0
  BY <1>1, FS_EmptySet
<1>4. row[s][n] \in Nat /\ ops \in Nat
  BY SecretsFacts
<1> QED BY <1>1, <1>2, <1>3, <1>4

\* A request that ends is nobody's creator.
LEMMA CreatorsGone ==
  ASSUME NEW q \in SecretRequests, NEW f, Requested(q, f), f.pc = "idle",
         NEW s \in Scopes, NEW n \in SecretNames
  PROVE  Creators(s, n)' = Creators(s, n) \ {q}
  BY DEF Creators, Requested, About

LEMMA BeginKeepsSecrets ==
  ASSUME CoreInv, NEW q \in SecretRequests, NEW s \in Scopes, NEW n \in SecretNames,
         NEW op \in {"create", "write", "unlink"}, NEW v \in SecretValues \cup {None},
         v = None <=> op = "unlink", BeginSecret(q, op, s, n, v)
  PROVE  CoreInv'
<1>1. SecretsTypeOK /\ RowInv /\ SettledInv /\ MapInv /\ KnownInv
  BY DEF CoreInv
<1>2. PICK f : f = [pc |-> "read", op |-> op, scope |-> s, name |-> n, value |-> v,
                    view |-> Empty]
  OBVIOUS
<1>3. /\ f \in SecretFrame /\ f.pc = "read" /\ f.op = op /\ f.scope = s /\ f.name = n /\ f.value = v
  BY <1>2, NoRequestType DEF SecretFrame
<1>4. /\ call[q].pc = "idle" /\ ops < MaxOps /\ ops' = ops + 1
      /\ op # "create" => row[s][n] > 0 /\ ~SecretBusy(s, n)
      /\ call' = [call EXCEPT ![q] = f]
      /\ moved' = IF op = "create" /\ (row[s][n] > 0 \/ Creating(s, n))
                  THEN moved \cup {<<s, n>>} ELSE moved
      /\ UNCHANGED <<row, vault, delivery, answered, uncertain, faults>>
  BY <1>2 DEF BeginSecret
<1>5. Requested(q, f)
  BY <1>1, <1>3, <1>4, RequestStep
<1>6. SecretsTypeOK'
  BY <1>1, <1>4, <1>5, SecretsFacts DEF SecretsTypeOK, Requested, delivery
<1>7. /\ \A p \in SecretRequests \ {q} : call'[p] = call[p]
      /\ \A p \in SecretRequests \ {q}, t \in Scopes, m \in SecretNames :
           About(p, t, m)' <=> About(p, t, m)
      /\ call'[q] = f /\ ~About(q, s, n) /\ About(q, s, n)'
      /\ \A t \in Scopes, m \in SecretNames :
           <<t, m>> # <<s, n>> => ~About(q, t, m) /\ ~About(q, t, m)'
  BY <1>3, <1>4, <1>5 DEF Requested, About
<1>8. /\ q \notin Creators(s, n)
      /\ Creators(s, n)' = IF op = "create" THEN Creators(s, n) \cup {q} ELSE Creators(s, n)
      /\ \A t \in Scopes, m \in SecretNames : <<t, m>> # <<s, n>> => Creators(t, m)' = Creators(t, m)
  BY <1>3, <1>7 DEF Creators
<1>9. RowInv'
  <2>1. ASSUME NEW p \in SecretRequests
        PROVE  call'[p].value = None <=> call'[p].op = "unlink" \/ call'[p].pc = "idle"
    BY <1>1, <1>3, <1>7 DEF RowInv
  <2>2. ASSUME NEW p \in SecretRequests, call'[p].pc # "idle", call'[p].op # "create"
        PROVE  /\ row'[call'[p].scope][call'[p].name] > 0
               /\ \A o \in SecretRequests \ {p} :
                    About(o, call[p].scope, call[p].name)' => call'[o].op = "create"
    <3>1. CASE p = q
      <4>1. op # "create" /\ call'[p] = f
        BY <1>3, <1>7, <2>2, <3>1
      <4>2. \A o \in SecretRequests \ {p} : About(o, s, n)' => call'[o].op = "create"
        BY <1>4, <1>7, <3>1, <4>1 DEF SecretBusy, About
      <4> QED BY <1>3, <1>4, <4>1, <4>2
    <3>2. CASE p # q
      <4>1. call'[p] = call[p] /\ About(p, call[p].scope, call[p].name)
            /\ call[p].scope \in Scopes /\ call[p].name \in SecretNames
        BY <1>1, <1>7, <2>2, <3>2, SecretsFacts DEF About, SecretFrame
      <4>2. About(q, call[p].scope, call[p].name)' => op = "create"
        BY <1>4, <1>7, <2>2, <4>1 DEF SecretBusy, About
      <4>3. /\ row[call[p].scope][call[p].name] > 0
            /\ \A o \in SecretRequests \ {p} :
                   About(o, call[p].scope, call[p].name) => call[o].op = "create"
        BY <1>1, <2>2, <4>1 DEF RowInv
      <4> QED BY <1>3, <1>4, <1>7, <4>1, <4>2, <4>3
    <3> QED BY <3>1, <3>2
  <2>3. ASSUME NEW t \in Scopes, NEW m \in SecretNames
        PROVE  /\ IsFiniteSet(Creators(t, m)')
               /\ row'[t][m] + Cardinality(Creators(t, m)') <= ops' + 1
    <3>1. /\ IsFiniteSet(Creators(t, m)) /\ Cardinality(Creators(t, m)) \in Nat
          /\ row[t][m] \in Nat /\ row[t][m] + Cardinality(Creators(t, m)) <= ops + 1
      BY <1>1, RowFacts
    <3>2. /\ IsFiniteSet(Creators(t, m)')
          /\ Cardinality(Creators(t, m)') <= Cardinality(Creators(t, m)) + 1
          /\ Cardinality(Creators(t, m)') \in Nat
      <4>1. IsFiniteSet(Creators(t, m) \cup {q})
            /\ Cardinality(Creators(t, m) \cup {q})
                 = IF q \in Creators(t, m) THEN Cardinality(Creators(t, m))
                   ELSE Cardinality(Creators(t, m)) + 1
        BY <3>1, FS_AddElement
      <4>2. Creators(t, m)' = Creators(t, m) \/ Creators(t, m)' = Creators(t, m) \cup {q}
        BY <1>8
      <4>3. CASE Creators(t, m)' = Creators(t, m)
        BY <3>1, <4>3
      <4>4. CASE Creators(t, m)' = Creators(t, m) \cup {q}
        BY <3>1, <4>1, <4>4
      <4> QED BY <4>2, <4>3, <4>4
    <3>3. ops \in Nat /\ row' = row /\ ops' = ops + 1
      BY <1>1, <1>4, SecretsFacts
    <3> QED BY <3>1, <3>2, <3>3
  <2> QED BY <2>1, <2>2, <2>3 DEF RowInv
<1>10. SettledInv'
  <2> SUFFICES ASSUME NEW t \in Scopes, NEW m \in SecretNames, <<t, m>> \notin moved'
               PROVE  /\ row'[t][m] <= 1
                      /\ \A p \in Creators(t, m)' : row'[t][m] = 0 /\ Creators(t, m)' = {p}
    BY DEF SettledInv
  <2>1. /\ <<t, m>> \notin moved /\ row'[t][m] = row[t][m] /\ row[t][m] <= 1
        /\ \A p \in Creators(t, m) : row[t][m] = 0 /\ Creators(t, m) = {p}
    BY <1>1, <1>4 DEF SettledInv
  <2>2. CASE <<t, m>> = <<s, n>> /\ op = "create"
    <3>1. ~(row[s][n] > 0) /\ Creators(s, n) = {}
      BY <1>4, <2>2 DEF Creating, Creators, About
    <3>2. row[s][n] = 0
      BY <1>1, <3>1, SecretsFacts
    <3> QED BY <1>8, <2>1, <2>2, <3>1, <3>2
  <2>3. CASE ~(<<t, m>> = <<s, n>> /\ op = "create")
    BY <1>8, <2>1, <2>3
  <2> QED BY <2>2, <2>3
<1>11. MapInv'
  BY <1>1, <1>3, <1>4, <1>7 DEF MapInv, Overlaps
<1>12. KnownInv'
  <2>1. \A p \in SecretRequests, t \in Scopes, m \in SecretNames :
          About(p, t, m)' /\ call'[p].pc = "commit"
            <=> About(p, t, m) /\ call[p].pc = "commit"
    BY <1>3, <1>4, <1>7
  <2>2. moved \subseteq moved' /\ UNCHANGED <<row, vault, answered, uncertain>>
    BY <1>4
  <2>3. \A p \in SecretRequests : call'[p].pc = "commit" => call'[p].value = call[p].value
    BY <1>3, <1>7
  <2> QED BY <1>1, <2>1, <2>2, <2>3 DEF KnownInv
<1> QED BY <1>6, <1>9, <1>10, <1>11, <1>12 DEF CoreInv

LEMMA RenameKeepsSecrets ==
  ASSUME CoreInv, NEW s \in Scopes, NEW n \in SecretNames, NEW m \in SecretNames,
         RenameSecret(s, n, m)
  PROVE  CoreInv'
<1>1. SecretsTypeOK /\ RowInv /\ SettledInv /\ MapInv /\ KnownInv
  BY DEF CoreInv
<1>2. /\ row[s][n] > 0 /\ m # n /\ ops < MaxOps /\ ops' = ops + 1 /\ ~SecretBusy(s, n)
      /\ row' = [row EXCEPT ![s][n] = row[s][n] - 1, ![s][m] = row[s][m] + 1]
      /\ moved' = moved \cup {<<s, n>>, <<s, m>>}
      /\ UNCHANGED <<vault, call, delivery, answered, uncertain, faults>>
  BY DEF RenameSecret, SecretsTypeOK
<1>3. /\ row[s][m] \in Nat /\ row[s][m] + 1 \in 0 .. MaxOps + 1
      /\ row[s][n] \in Nat /\ row[s][n] - 1 \in 0 .. MaxOps + 1
  <2>1. /\ row[s][m] \in Nat /\ row[s][n] \in Nat
        /\ Cardinality(Creators(s, m)) \in Nat
        /\ row[s][m] + Cardinality(Creators(s, m)) <= ops + 1
        /\ row[s][n] \in 0 .. MaxOps + 1
    BY <1>1, RowFacts, SecretsFacts
  <2>2. MaxOps \in Nat /\ ops \in Nat
    BY <1>1, SecretsFacts
  <2>3. row[s][m] <= ops + 1
    BY <2>1, <2>2
  <2>4. row[s][m] + 1 <= MaxOps + 1
    BY <1>2, <2>1, <2>2, <2>3
  <2>5. row[s][n] - 1 \in 0 .. MaxOps + 1
    BY <1>2, <2>1, <2>2
  <2> QED BY <2>1, <2>2, <2>4, <2>5
<1>4. /\ row' \in [Scopes -> [SecretNames -> 0 .. MaxOps + 1]]
      /\ row'[s][n] = row[s][n] - 1 /\ row'[s][m] = row[s][m] + 1
      /\ \A t \in Scopes, k \in SecretNames :
           <<t, k>> \notin {<<s, n>>, <<s, m>>} => row'[t][k] = row[t][k]
  <2>1. row \in [Scopes -> [SecretNames -> 0 .. MaxOps + 1]]
    BY <1>1 DEF SecretsTypeOK
  <2> QED BY <1>2, <1>3, <2>1
<1>5. /\ ops \in Nat /\ call' = call
      /\ \A t \in Scopes, k \in SecretNames : Creators(t, k)' = Creators(t, k)
      /\ \A q \in SecretRequests, t \in Scopes, k \in SecretNames : About(q, t, k)' <=> About(q, t, k)
  BY <1>1, <1>2, SecretsFacts DEF Creators, About
<1>6. SecretsTypeOK'
  BY <1>1, <1>2, <1>4, SecretsFacts DEF SecretsTypeOK, delivery
<1>7. RowInv'
  <2>1. ASSUME NEW q \in SecretRequests, call[q].pc # "idle", call[q].op # "create"
        PROVE  row'[call[q].scope][call[q].name] > 0
    <3>1. call[q].scope \in Scopes /\ call[q].name \in SecretNames
      BY <1>1, SecretsFacts DEF SecretFrame
    <3>2. row[call[q].scope][call[q].name] > 0
      BY <1>1, <2>1 DEF RowInv
    <3>3. <<call[q].scope, call[q].name>> # <<s, n>>
      BY <1>2, <2>1 DEF SecretBusy
    <3>4. CASE <<call[q].scope, call[q].name>> = <<s, m>>
      BY <1>3, <1>4, <3>4
    <3>5. CASE <<call[q].scope, call[q].name>> # <<s, m>>
      BY <1>4, <3>1, <3>2, <3>3, <3>5
    <3> QED BY <3>4, <3>5
  <2>2. ASSUME NEW t \in Scopes, NEW k \in SecretNames
        PROVE  /\ IsFiniteSet(Creators(t, k))
               /\ row'[t][k] + Cardinality(Creators(t, k)) <= ops' + 1
    <3>1. /\ IsFiniteSet(Creators(t, k)) /\ Cardinality(Creators(t, k)) \in Nat
          /\ row[t][k] \in Nat /\ row[t][k] + Cardinality(Creators(t, k)) <= ops + 1
      BY <1>1, RowFacts
    <3>2. row'[t][k] \in {row[t][k], row[t][k] - 1, row[t][k] + 1}
      BY <1>4
    <3> QED BY <1>2, <1>5, <3>1, <3>2
  <2>3. ASSUME NEW q \in SecretRequests
        PROVE  /\ call[q].value = None <=> call[q].op = "unlink" \/ call[q].pc = "idle"
               /\ call[q].pc # "idle" /\ call[q].op # "create" =>
                    \A p \in SecretRequests \ {q} :
                      About(p, call[q].scope, call[q].name) => call[p].op = "create"
    BY <1>1 DEF RowInv
  <2>4. \A q, p \in SecretRequests :
          About(p, call[q].scope, call[q].name)' <=> About(p, call[q].scope, call[q].name)
    BY <1>2 DEF About
  <2> QED BY <1>5, <2>1, <2>2, <2>3, <2>4 DEF RowInv
<1>8. SettledInv'
  BY <1>1, <1>2, <1>4, <1>5 DEF SettledInv
<1>9. MapInv'
  BY <1>1, <1>2 DEF MapInv, Overlaps
<1>10. KnownInv'
  BY <1>1, <1>2, <1>4, <1>5 DEF KnownInv
<1> QED BY <1>6, <1>7, <1>8, <1>9, <1>10 DEF CoreInv

LEMMA ReadMapKeepsSecrets ==
  ASSUME CoreInv, NEW q \in SecretRequests, ReadMap(q)
  PROVE  CoreInv'
<1>1. SecretsTypeOK /\ RowInv /\ SettledInv /\ MapInv /\ KnownInv
  BY DEF CoreInv
<1>2. PICK s : s = call[q].scope
  OBVIOUS
<1>3. s \in Scopes /\ call[q] \in SecretFrame /\ vault[Stores[s]] \in Map
  BY <1>1, <1>2, SecretsFacts DEF SecretFrame
<1>4. PICK f : f = [call[q] EXCEPT !.pc = "write", !.view = vault[Stores[s]]]
  OBVIOUS
<1>5. /\ f \in SecretFrame /\ f.pc = "write" /\ f.op = call[q].op /\ f.scope = s
      /\ f.name = call[q].name /\ f.value = call[q].value /\ f.view = vault[Stores[s]]
  BY <1>2, <1>3, <1>4 DEF SecretFrame
<1>6. /\ call[q].pc = "read" /\ call' = [call EXCEPT ![q] = f]
      /\ uncertain' = IF Overlaps(q, s) THEN uncertain \cup ({s} \X SecretNames) ELSE uncertain
      /\ UNCHANGED <<row, vault, delivery, answered, moved, ops, faults>>
  <2>1. call' = [call EXCEPT ![q].pc = "write", ![q].view = vault[Stores[s]]]
    BY <1>2 DEF ReadMap
  <2>2. call' = [call EXCEPT ![q] = f]
    BY <1>1, <1>4, <2>1 DEF SecretsTypeOK
  <2> QED BY <1>2, <2>2 DEF ReadMap
<1>7. Requested(q, f)
  BY <1>1, <1>5, <1>6, RequestStep
<1>8. /\ call'[q] = f /\ \A p \in SecretRequests \ {q} : call'[p] = call[p]
      /\ \A p \in SecretRequests, t \in Scopes, m \in SecretNames : About(p, t, m)' <=> About(p, t, m)
      /\ \A p \in SecretRequests : /\ call'[p].op = call[p].op
                                   /\ call'[p].scope = call[p].scope
                                   /\ call'[p].name = call[p].name
                                   /\ call'[p].value = call[p].value
                                   /\ call'[p].pc = "idle" <=> call[p].pc = "idle"
                                   /\ call'[p].pc = "commit" <=> call[p].pc = "commit"
  BY <1>2, <1>5, <1>6, <1>7 DEF Requested, About
<1>9. \A t \in Scopes, m \in SecretNames : Creators(t, m)' = Creators(t, m)
  BY <1>8 DEF Creators
<1>10. SecretsTypeOK'
  BY <1>1, <1>3, <1>6, <1>7 DEF SecretsTypeOK, Requested, delivery
<1>11. RowInv'
  <2>1. \A p, o \in SecretRequests : About(o, call[p].scope, call[p].name)'
                                       <=> About(o, call[p].scope, call[p].name)
    BY <1>8 DEF About
  <2> QED BY <1>1, <1>6, <1>8, <1>9, <2>1 DEF RowInv
<1>12. SettledInv'
  BY <1>1, <1>6, <1>9 DEF SettledInv
<1>13. MapInv'
  <2> SUFFICES ASSUME NEW p \in SecretRequests, call'[p].pc = "write"
               PROVE  \/ {call'[p].scope} \X SecretNames \subseteq uncertain'
                      \/ /\ call'[p].view = vault'[Stores[call'[p].scope]]
                         /\ ~Overlaps(p, call[p].scope)'
    BY DEF MapInv
  <2>0. uncertain \subseteq uncertain' /\ vault' = vault
    BY <1>6
  <2>1. CASE p = q
    <3>1. CASE Overlaps(q, s)
      BY <1>5, <1>6, <1>8, <2>1, <3>1
    <3>2. CASE ~Overlaps(q, s)
      <4>1. ~Overlaps(q, s)' /\ call'[q].scope = s
        BY <1>5, <1>8, <3>2 DEF Overlaps
      <4>2. ~Overlaps(q, call[q].scope)'
        BY <4>1 DEF Overlaps
      <4> QED BY <1>5, <1>8, <2>0, <2>1, <4>1, <4>2
    <3> QED BY <3>1, <3>2
  <2>2. CASE p # q
    <3>1. /\ call'[p] = call[p] /\ call[p].pc = "write"
          /\ \/ {call[p].scope} \X SecretNames \subseteq uncertain
             \/ /\ call[p].view = vault[Stores[call[p].scope]]
                /\ ~Overlaps(p, call[p].scope)
      BY <1>1, <1>8, <2>2 DEF MapInv
    <3>2. CASE call[p].scope = s
      BY <1>6, <2>2, <3>1, <3>2 DEF Overlaps
    <3>3. CASE call[p].scope # s
      <4>1. Overlaps(p, call[p].scope)' => Overlaps(p, call[p].scope)
        BY <1>5, <1>8, <3>1, <3>3 DEF Overlaps
      <4> QED BY <2>0, <3>1, <4>1
    <3> QED BY <3>2, <3>3
  <2> QED BY <2>1, <2>2
<1>14. KnownInv'
  <2>1. uncertain \subseteq uncertain' /\ UNCHANGED <<vault, answered, moved, row>>
    BY <1>6
  <2> QED BY <1>1, <1>8, <2>1 DEF KnownInv
<1> QED BY <1>10, <1>11, <1>12, <1>13, <1>14 DEF CoreInv

\* A name that was not moved has at most one request.
LEMMA AloneUnlessMoved ==
  ASSUME SecretsTypeOK, RowInv, SettledInv, NEW s \in Scopes, NEW n \in SecretNames,
         <<s, n>> \notin moved,
         NEW p \in SecretRequests, NEW q \in SecretRequests, About(p, s, n), About(q, s, n)
  PROVE  p = q
<1>1. \A o \in SecretRequests : About(o, s, n) =>
        IF call[o].op = "create" THEN row[s][n] = 0 /\ Creators(s, n) = {o}
        ELSE row[s][n] > 0
  BY DEF RowInv, SettledInv, Creators, About
<1>2. \A o \in SecretRequests : About(o, s, n) /\ call[o].op # "create" =>
        \A r \in SecretRequests \ {o} : About(r, s, n) => call[r].op = "create"
  BY DEF RowInv, About
<1>3. CASE call[p].op = "create" /\ call[q].op = "create"
  <2>1. Creators(s, n) = {p} /\ Creators(s, n) = {q}
    BY <1>1, <1>3
  <2> QED BY <2>1
<1>4. CASE call[p].op = "create" /\ call[q].op # "create"
  <2>1. row[s][n] = 0 /\ row[s][n] > 0
    BY <1>1, <1>4
  <2> QED BY <2>1
<1>5. CASE call[p].op # "create" /\ call[q].op = "create"
  <2>1. row[s][n] = 0 /\ row[s][n] > 0
    BY <1>1, <1>5
  <2> QED BY <2>1
<1>6. CASE call[p].op # "create" /\ call[q].op # "create"
  BY <1>2, <1>6
<1> QED BY <1>3, <1>4, <1>5, <1>6

\* What a request writes for the map it has read.
LEMMA StoredMap ==
  ASSUME SecretsTypeOK, NEW f \in SecretFrame, StoreMap(f)
  PROVE  /\ vault' \in [SecretPaths -> Map]
         /\ \A t \in Scopes \ {f.scope} : vault'[Stores[t]] = vault[Stores[t]]
         /\ f.view = vault[Stores[f.scope]] =>
              /\ vault'[Stores[f.scope]][f.name] = f.value
              /\ \A m \in SecretNames \ {f.name} :
                   vault'[Stores[f.scope]][m] = vault[Stores[f.scope]][m]
<1>1. /\ f.scope \in Scopes /\ f.name \in SecretNames /\ f.value \in SecretValues \cup {None}
      /\ f.view \in Map /\ Stores[f.scope] \in SecretPaths /\ vault \in [SecretPaths -> Map]
      /\ \A t \in Scopes \ {f.scope} : Stores[t] # Stores[f.scope] /\ Stores[t] \in SecretPaths
  BY SecretsFacts DEF SecretFrame, SecretsTypeOK
<1>2. /\ Changed(f) \in Map /\ Changed(f)[f.name] = f.value
      /\ \A m \in SecretNames \ {f.name} : Changed(f)[m] = f.view[m]
  BY <1>1 DEF Changed, Map
<1>3. CASE Stored(f)
  <2>1. vault' = [vault EXCEPT ![Stores[f.scope]] = Changed(f)]
    BY <1>3 DEF StoreMap
  <2> QED BY <1>1, <1>2, <2>1
<1>4. CASE ~Stored(f)
  <2>1. vault' = vault /\ f.value = None /\ f.view[f.name] = None
    BY <1>4 DEF StoreMap, Stored
  <2> QED BY <1>1, <2>1
<1> QED BY <1>3, <1>4

LEMMA WriteMapKeepsSecrets ==
  ASSUME CoreInv, NEW q \in SecretRequests, WriteMap(q)
  PROVE  CoreInv'
<1>1. SecretsTypeOK /\ RowInv /\ SettledInv /\ MapInv /\ KnownInv
  BY DEF CoreInv
<1>2. PICK s, n, v : s = call[q].scope /\ n = call[q].name /\ v = call[q].value
  OBVIOUS
<1>3. s \in Scopes /\ n \in SecretNames /\ v \in SecretValues \cup {None} /\ call[q] \in SecretFrame
  BY <1>1, <1>2, SecretsFacts DEF SecretFrame
<1>4. PICK f : f = [call[q] EXCEPT !.pc = "commit"]
  OBVIOUS
<1>5. /\ f \in SecretFrame /\ f.pc = "commit" /\ f.op = call[q].op /\ f.scope = s
      /\ f.name = n /\ f.value = v
  BY <1>2, <1>3, <1>4 DEF SecretFrame
<1>6. /\ call[q].pc = "write" /\ StoreMap(call[q])
      /\ call' = [call EXCEPT ![q] = f]
      /\ answered' = [answered EXCEPT ![s][n] = v]
      /\ UNCHANGED <<row, delivery, uncertain, moved, ops, faults>>
  BY <1>1, <1>2, <1>4 DEF WriteMap, SecretsTypeOK
<1>7. Requested(q, f)
  BY <1>1, <1>5, <1>6, RequestStep
<1>8. /\ call'[q] = f /\ \A p \in SecretRequests \ {q} : call'[p] = call[p]
      /\ \A p \in SecretRequests, t \in Scopes, m \in SecretNames : About(p, t, m)' <=> About(p, t, m)
      /\ \A p \in SecretRequests : /\ call'[p].op = call[p].op
                                   /\ call'[p].scope = call[p].scope
                                   /\ call'[p].name = call[p].name
                                   /\ call'[p].value = call[p].value
                                   /\ call'[p].pc = "idle" <=> call[p].pc = "idle"
  BY <1>2, <1>5, <1>6, <1>7 DEF Requested, About
<1>9. \A t \in Scopes, m \in SecretNames : Creators(t, m)' = Creators(t, m)
  BY <1>8 DEF Creators
<1>10. /\ vault' \in [SecretPaths -> Map]
       /\ \A t \in Scopes \ {s} : vault'[Stores[t]] = vault[Stores[t]]
       /\ call[q].view = vault[Stores[s]] =>
            /\ vault'[Stores[s]][n] = v
            /\ \A m \in SecretNames \ {n} : vault'[Stores[s]][m] = vault[Stores[s]][m]
  BY <1>1, <1>2, <1>3, <1>6, StoredMap
<1>11. /\ answered' \in [Scopes -> Map] /\ answered'[s][n] = v
       /\ \A t \in Scopes, m \in SecretNames : <<t, m>> # <<s, n>> => answered'[t][m] = answered[t][m]
  BY <1>1, <1>3, <1>6 DEF SecretsTypeOK, Map
<1>12. SecretsTypeOK'
  BY <1>1, <1>6, <1>7, <1>10, <1>11 DEF SecretsTypeOK, Requested, delivery
<1>13. RowInv'
  <2>1. \A p, o \in SecretRequests : About(o, call[p].scope, call[p].name)'
                                       <=> About(o, call[p].scope, call[p].name)
    BY <1>8 DEF About
  <2> QED BY <1>1, <1>6, <1>8, <1>9, <2>1 DEF RowInv
<1>14. SettledInv'
  BY <1>1, <1>6, <1>9 DEF SettledInv
<1>15. \/ {s} \X SecretNames \subseteq uncertain
       \/ call[q].view = vault[Stores[s]] /\ ~Overlaps(q, s)
  BY <1>1, <1>2, <1>6 DEF MapInv
<1>16. MapInv'
  <2> SUFFICES ASSUME NEW p \in SecretRequests, call'[p].pc = "write"
               PROVE  \/ {call'[p].scope} \X SecretNames \subseteq uncertain'
                      \/ /\ call'[p].view = vault'[Stores[call'[p].scope]]
                         /\ ~Overlaps(p, call[p].scope)'
    BY DEF MapInv
  <2>1. /\ p # q /\ call'[p] = call[p] /\ call[p].pc = "write"
        /\ call[p].scope \in Scopes /\ uncertain' = uncertain
    BY <1>1, <1>5, <1>6, <1>8, SecretsFacts DEF SecretFrame
  <2>2. CASE call[p].scope = s
    BY <1>15, <2>1, <2>2 DEF Overlaps
  <2>3. CASE call[p].scope # s
    <3>1. \/ {call[p].scope} \X SecretNames \subseteq uncertain
          \/ /\ call[p].view = vault[Stores[call[p].scope]]
             /\ ~Overlaps(p, call[p].scope)
      BY <1>1, <2>1 DEF MapInv
    <3>2. Overlaps(p, call[p].scope)' => Overlaps(p, call[p].scope)
      BY <1>5, <1>8, <2>1 DEF Overlaps
    <3>3. vault'[Stores[call[p].scope]] = vault[Stores[call[p].scope]]
      BY <1>10, <2>1, <2>3
    <3> QED BY <2>1, <3>1, <3>2, <3>3
  <2> QED BY <2>2, <2>3
<1>17. KnownInv'
  <2> SUFFICES ASSUME NEW t \in Scopes, NEW m \in SecretNames, <<t, m>> \notin uncertain'
               PROVE  /\ vault'[Stores[t]][m] = answered'[t][m]
                      /\ <<t, m>> \notin moved' =>
                           /\ \A p \in SecretRequests : About(p, t, m)' /\ call'[p].pc = "commit" =>
                                answered'[t][m] = call'[p].value
                           /\ row'[t][m] > 0 /\ answered'[t][m] = None =>
                                \E p \in SecretRequests : About(p, t, m)' /\ call'[p].pc = "commit"
    BY DEF KnownInv
  <2>1. /\ <<t, m>> \notin uncertain /\ moved' = moved /\ row' = row
        /\ vault[Stores[t]][m] = answered[t][m]
        /\ <<t, m>> \notin moved =>
             /\ \A p \in SecretRequests : About(p, t, m) /\ call[p].pc = "commit" =>
                  answered[t][m] = call[p].value
             /\ row[t][m] > 0 /\ answered[t][m] = None =>
                  \E p \in SecretRequests : About(p, t, m) /\ call[p].pc = "commit"
    BY <1>1, <1>6 DEF KnownInv
  <2>2. About(q, s, n) /\ \A x \in Scopes, y \in SecretNames : About(q, x, y) => x = s /\ y = n
    BY <1>2, <1>6 DEF About
  <2>3. CASE t = s /\ m = n
    <3>1. vault'[Stores[t]][m] = v /\ answered'[t][m] = v
      BY <1>10, <1>11, <1>15, <2>1, <2>3
    <3>2. ASSUME <<t, m>> \notin moved, NEW p \in SecretRequests, About(p, t, m)
          PROVE  p = q
      BY <1>1, <1>3, <2>2, <2>3, <3>2, AloneUnlessMoved
    <3>3. About(q, t, m)' /\ call'[q].pc = "commit" /\ call'[q].value = v
      BY <1>5, <1>8, <2>2, <2>3
    <3> QED BY <1>8, <2>1, <3>1, <3>2, <3>3
  <2>4. CASE ~(t = s /\ m = n)
    <3>1. vault'[Stores[t]][m] = vault[Stores[t]][m]
      BY <1>10, <1>15, <2>1, <2>4
    <3>2. answered'[t][m] = answered[t][m] /\ ~About(q, t, m)
      BY <1>11, <2>2, <2>4
    <3> QED BY <1>8, <2>1, <3>1, <3>2
  <2> QED BY <2>3, <2>4
<1> QED BY <1>12, <1>13, <1>14, <1>16, <1>17 DEF CoreInv

\* What a request that ends leaves behind.
LEMMA RequestEnds ==
  ASSUME SecretsTypeOK, RowInv, NEW q \in SecretRequests,
         call' = [call EXCEPT ![q] = NoSecretRequest]
  PROVE  /\ call' \in [SecretRequests -> SecretFrame]
         /\ call'[q].pc = "idle" /\ call'[q].value = None
         /\ \A p \in SecretRequests \ {q} : call'[p] = call[p]
         /\ \A t \in Scopes, m \in SecretNames :
              /\ ~About(q, t, m)'
              /\ \A p \in SecretRequests \ {q} : About(p, t, m)' <=> About(p, t, m)
              /\ Creators(t, m)' = Creators(t, m) \ {q}
              /\ IsFiniteSet(Creators(t, m)') /\ Cardinality(Creators(t, m)') \in Nat
              /\ Cardinality(Creators(t, m)') <= Cardinality(Creators(t, m))
              /\ q \in Creators(t, m) =>
                   Cardinality(Creators(t, m)') + 1 = Cardinality(Creators(t, m))
<1>1. NoSecretRequest \in SecretFrame /\ NoSecretRequest.pc = "idle" /\ NoSecretRequest.value = None
  BY NoRequestType
<1>2. Requested(q, NoSecretRequest)
  BY <1>1, RequestStep
<1>3. /\ call' \in [SecretRequests -> SecretFrame]
      /\ call'[q].pc = "idle" /\ call'[q].value = None
      /\ \A p \in SecretRequests \ {q} : call'[p] = call[p]
  BY <1>1, <1>2 DEF Requested
<1>4. ASSUME NEW t \in Scopes, NEW m \in SecretNames
      PROVE  /\ ~About(q, t, m)'
             /\ \A p \in SecretRequests \ {q} : About(p, t, m)' <=> About(p, t, m)
  BY <1>3 DEF About
<1>5. ASSUME NEW t \in Scopes, NEW m \in SecretNames
      PROVE  /\ Creators(t, m)' = Creators(t, m) \ {q}
             /\ IsFiniteSet(Creators(t, m)') /\ Cardinality(Creators(t, m)') \in Nat
             /\ Cardinality(Creators(t, m)') <= Cardinality(Creators(t, m))
             /\ q \in Creators(t, m) =>
                  Cardinality(Creators(t, m)') + 1 = Cardinality(Creators(t, m))
  <2>1. Creators(t, m)' = Creators(t, m) \ {q}
    BY <1>1, <1>2, CreatorsGone
  <2>2. IsFiniteSet(Creators(t, m)) /\ Cardinality(Creators(t, m)) \in Nat
    BY RowFacts
  <2>3. /\ IsFiniteSet(Creators(t, m) \ {q})
        /\ Cardinality(Creators(t, m) \ {q})
             = IF q \in Creators(t, m) THEN Cardinality(Creators(t, m)) - 1
               ELSE Cardinality(Creators(t, m))
    BY <2>2, FS_RemoveElement
  <2>4. Cardinality(Creators(t, m) \ {q}) \in Nat
    BY <2>3, FS_CardinalityType
  <2>5. /\ Cardinality(Creators(t, m) \ {q}) <= Cardinality(Creators(t, m))
        /\ q \in Creators(t, m) =>
             Cardinality(Creators(t, m) \ {q}) + 1 = Cardinality(Creators(t, m))
    BY <2>2, <2>3, <2>4
  <2> QED BY <2>1, <2>3, <2>4, <2>5
<1> QED BY <1>3, <1>4, <1>5

\* Only the last of the requests that read a map can be sure of it.
LEMMA OverlappedUnsure ==
  ASSUME SecretsTypeOK, MapInv, NEW q \in SecretRequests, NEW p \in SecretRequests \ {q},
         call[q].pc = "write", call[p].pc = "write", call[p].scope = call[q].scope
  PROVE  {call[q].scope} \X SecretNames \subseteq uncertain
  BY DEF MapInv, Overlaps

LEMMA FailKeepsSecrets ==
  ASSUME CoreInv, NEW q \in SecretRequests, FailSecret(q)
  PROVE  CoreInv'
<1>1. SecretsTypeOK /\ RowInv /\ SettledInv /\ MapInv /\ KnownInv
  BY DEF CoreInv
<1>2. PICK s, n : s = call[q].scope /\ n = call[q].name
  OBVIOUS
<1>3. s \in Scopes /\ n \in SecretNames /\ call[q] \in SecretFrame
  BY <1>1, <1>2, SecretsFacts DEF SecretFrame
<1>4. /\ call[q].pc \in {"read", "write"} /\ Spend
      /\ \/ call[q].pc = "read" /\ UNCHANGED <<vault, uncertain>>
         \/ /\ call[q].pc = "write"
            /\ StoreMap(call[q]) \/ UNCHANGED vault
            /\ uncertain' = uncertain \cup {<<s, n>>}
      /\ call' = [call EXCEPT ![q] = NoSecretRequest]
      /\ UNCHANGED <<row, delivery, answered, moved, ops>>
  BY <1>2 DEF FailSecret
<1>5. /\ call' \in [SecretRequests -> SecretFrame] /\ call'[q].pc = "idle" /\ call'[q].value = None
      /\ \A p \in SecretRequests \ {q} : call'[p] = call[p]
      /\ \A t \in Scopes, m \in SecretNames :
           /\ ~About(q, t, m)'
           /\ \A p \in SecretRequests \ {q} : About(p, t, m)' <=> About(p, t, m)
           /\ Creators(t, m)' = Creators(t, m) \ {q}
           /\ IsFiniteSet(Creators(t, m)') /\ Cardinality(Creators(t, m)') \in Nat
           /\ Cardinality(Creators(t, m)') <= Cardinality(Creators(t, m))
  BY <1>1, <1>4, RequestEnds
<1>6. /\ vault' \in [SecretPaths -> Map] /\ uncertain \subseteq uncertain'
      /\ uncertain' \subseteq Scopes \X SecretNames
      /\ \A t \in Scopes \ {s} : vault'[Stores[t]] = vault[Stores[t]]
      /\ call[q].pc = "read" => vault' = vault
      /\ call[q].view = vault[Stores[s]] =>
           \A m \in SecretNames \ {n} : vault'[Stores[s]][m] = vault[Stores[s]][m]
      /\ call[q].pc = "write" => <<s, n>> \in uncertain'
  <2>0. vault \in [SecretPaths -> Map] /\ uncertain \subseteq Scopes \X SecretNames
    BY <1>1 DEF SecretsTypeOK
  <2>1. CASE UNCHANGED vault
    BY <1>3, <1>4, <2>0, <2>1
  <2>2. CASE call[q].pc = "write" /\ StoreMap(call[q])
    <3>1. /\ vault' \in [SecretPaths -> Map]
          /\ \A t \in Scopes \ {s} : vault'[Stores[t]] = vault[Stores[t]]
          /\ call[q].view = vault[Stores[s]] =>
               \A m \in SecretNames \ {n} : vault'[Stores[s]][m] = vault[Stores[s]][m]
      BY <1>1, <1>2, <1>3, <2>2, StoredMap
    <3>2. uncertain' = uncertain \cup {<<s, n>>}
      BY <1>4, <2>2
    <3> QED BY <1>3, <2>0, <2>2, <3>1, <3>2
  <2> QED BY <1>4, <2>1, <2>2
<1>7. SecretsTypeOK'
  <2>1. faults' \in 0 .. MaxFaults
    BY <1>1, <1>4, SecretsFacts DEF Spend
  <2> QED BY <1>1, <1>4, <1>5, <1>6, <2>1 DEF SecretsTypeOK, delivery
<1>8. RowInv'
  <2>1. ASSUME NEW p \in SecretRequests
        PROVE  /\ call'[p].value = None
                    <=> call'[p].op = "unlink" \/ call'[p].pc = "idle"
               /\ call'[p].pc # "idle" /\ call'[p].op # "create" =>
                    /\ row'[call'[p].scope][call'[p].name] > 0
                    /\ \A o \in SecretRequests \ {p} :
                         About(o, call[p].scope, call[p].name)' => call'[o].op = "create"
    <3>1. CASE p = q
      BY <1>5, <3>1
    <3>2. CASE p # q
      <4>1. call'[p] = call[p] /\ call[p].scope \in Scopes /\ call[p].name \in SecretNames
            /\ row' = row
        BY <1>1, <1>4, <1>5, <3>2, SecretsFacts DEF SecretFrame
      <4>2. \A o \in SecretRequests \ {p} : About(o, call[p].scope, call[p].name)' =>
               About(o, call[p].scope, call[p].name) /\ call'[o] = call[o]
        BY <1>5, <4>1 DEF About
      <4> QED BY <1>1, <4>1, <4>2 DEF RowInv
    <3> QED BY <3>1, <3>2
  <2>2. ASSUME NEW t \in Scopes, NEW m \in SecretNames
        PROVE  /\ IsFiniteSet(Creators(t, m)')
               /\ row'[t][m] + Cardinality(Creators(t, m)') <= ops' + 1
    <3>1. /\ Cardinality(Creators(t, m)) \in Nat /\ row[t][m] \in Nat /\ ops \in Nat
          /\ row[t][m] + Cardinality(Creators(t, m)) <= ops + 1
      BY <1>1, RowFacts, SecretsFacts
    <3>2. row' = row /\ ops' = ops
      BY <1>4
    <3>3. /\ IsFiniteSet(Creators(t, m)') /\ Cardinality(Creators(t, m)') \in Nat
          /\ Cardinality(Creators(t, m)') <= Cardinality(Creators(t, m))
      BY <1>5
    <3> QED BY <3>1, <3>2, <3>3
  <2> QED BY <2>1, <2>2 DEF RowInv
<1>9. SettledInv'
  BY <1>1, <1>4, <1>5 DEF SettledInv
<1>10. MapInv'
  <2> SUFFICES ASSUME NEW p \in SecretRequests, call'[p].pc = "write"
               PROVE  \/ {call'[p].scope} \X SecretNames \subseteq uncertain'
                      \/ /\ call'[p].view = vault'[Stores[call'[p].scope]]
                         /\ ~Overlaps(p, call[p].scope)'
    BY DEF MapInv
  <2>1. /\ p # q /\ call'[p] = call[p] /\ call[p].pc = "write"
        /\ call[p].scope \in Scopes
    BY <1>1, <1>5, SecretsFacts DEF SecretFrame
  <2>2. CASE call[p].scope = s /\ call[q].pc = "write"
    <3>1. p \in SecretRequests \ {q} /\ call[p].scope = call[q].scope
      BY <1>2, <2>1, <2>2
    <3>2. {call[q].scope} \X SecretNames \subseteq uncertain
      BY <1>1, <2>1, <2>2, <3>1, OverlappedUnsure
    <3> QED BY <1>6, <2>1, <3>1, <3>2
  <2>3. CASE ~(call[p].scope = s /\ call[q].pc = "write")
    <3>1. \/ {call[p].scope} \X SecretNames \subseteq uncertain
          \/ /\ call[p].view = vault[Stores[call[p].scope]]
             /\ ~Overlaps(p, call[p].scope)
      BY <1>1, <2>1 DEF MapInv
    <3>2. Overlaps(p, call[p].scope)' => Overlaps(p, call[p].scope)
      BY <1>5, <2>1 DEF Overlaps
    <3>3. vault'[Stores[call[p].scope]] = vault[Stores[call[p].scope]]
      BY <1>4, <1>6, <2>1, <2>3
    <3> QED BY <1>6, <2>1, <3>1, <3>2, <3>3
  <2> QED BY <2>2, <2>3
<1>11. KnownInv'
  <2> SUFFICES ASSUME NEW t \in Scopes, NEW m \in SecretNames, <<t, m>> \notin uncertain'
               PROVE  /\ vault'[Stores[t]][m] = answered'[t][m]
                      /\ <<t, m>> \notin moved' =>
                           /\ \A p \in SecretRequests : About(p, t, m)' /\ call'[p].pc = "commit" =>
                                answered'[t][m] = call'[p].value
                           /\ row'[t][m] > 0 /\ answered'[t][m] = None =>
                                \E p \in SecretRequests : About(p, t, m)' /\ call'[p].pc = "commit"
    BY DEF KnownInv
  <2>1. /\ moved' = moved /\ row' = row /\ answered' = answered
        /\ vault[Stores[t]][m] = answered[t][m]
        /\ <<t, m>> \notin moved =>
             /\ \A p \in SecretRequests : About(p, t, m) /\ call[p].pc = "commit" =>
                  answered[t][m] = call[p].value
             /\ row[t][m] > 0 /\ answered[t][m] = None =>
                  \E p \in SecretRequests : About(p, t, m) /\ call[p].pc = "commit"
    BY <1>1, <1>4, <1>6 DEF KnownInv
  <2>2. vault'[Stores[t]][m] = vault[Stores[t]][m]
    <3>1. CASE t # s \/ call[q].pc = "read"
      BY <1>6, <3>1
    <3>2. CASE t = s /\ call[q].pc = "write"
      <4>1. call[q].view = vault[Stores[s]] /\ m # n
        BY <1>1, <1>2, <1>6, <3>2 DEF MapInv
      <4> QED BY <1>6, <3>2, <4>1
    <3> QED BY <1>4, <3>1, <3>2
  <2>3. \A p \in SecretRequests : About(p, t, m) /\ call[p].pc = "commit"
                                    <=> About(p, t, m)' /\ call'[p].pc = "commit"
    BY <1>4, <1>5
  <2>4. \A p \in SecretRequests : call'[p].pc = "commit" => call'[p] = call[p]
    BY <1>5
  <2> QED BY <2>1, <2>2, <2>3, <2>4
<1> QED BY <1>7, <1>8, <1>9, <1>10, <1>11 DEF CoreInv

LEMMA CommitKeepsSecrets ==
  ASSUME CoreInv, NEW q \in SecretRequests, CommitSecret(q)
  PROVE  CoreInv'
<1>1. SecretsTypeOK /\ RowInv /\ SettledInv /\ MapInv /\ KnownInv
  BY DEF CoreInv
<1>2. PICK s, n, op : s = call[q].scope /\ n = call[q].name /\ op = call[q].op
  OBVIOUS
<1>3. /\ s \in Scopes /\ n \in SecretNames /\ op \in {"create", "write", "unlink"}
      /\ call[q] \in SecretFrame
  BY <1>1, <1>2, SecretsFacts DEF SecretFrame
<1>4. PICK k : k = IF op = "create" THEN row[s][n] + 1
                   ELSE IF op = "unlink" THEN row[s][n] - 1 ELSE row[s][n]
  OBVIOUS
<1>5. /\ call[q].pc = "commit"
      /\ row' = [row EXCEPT ![s][n] = k]
      /\ moved' = IF op = "create" /\ row[s][n] > 0 THEN moved \cup {<<s, n>>} ELSE moved
      /\ call' = [call EXCEPT ![q] = NoSecretRequest]
      /\ UNCHANGED <<vault, delivery, answered, uncertain, ops, faults>>
  <2>1. row' = [row EXCEPT ![s][n] =
           CASE op = "create" -> row[s][n] + 1 [] op = "unlink" -> row[s][n] - 1
             [] op = "write" -> row[s][n]]
    BY <1>1, <1>2 DEF CommitSecret, SecretsTypeOK
  <2>2. row' = [row EXCEPT ![s][n] = k]
    BY <1>3, <1>4, <2>1
  <2> QED BY <1>2, <2>2 DEF CommitSecret
<1>6. /\ call' \in [SecretRequests -> SecretFrame] /\ call'[q].pc = "idle" /\ call'[q].value = None
      /\ \A p \in SecretRequests \ {q} : call'[p] = call[p]
      /\ \A t \in Scopes, m \in SecretNames :
           /\ ~About(q, t, m)'
           /\ \A p \in SecretRequests \ {q} : About(p, t, m)' <=> About(p, t, m)
           /\ Creators(t, m)' = Creators(t, m) \ {q}
           /\ IsFiniteSet(Creators(t, m)') /\ Cardinality(Creators(t, m)') \in Nat
           /\ Cardinality(Creators(t, m)') <= Cardinality(Creators(t, m))
           /\ q \in Creators(t, m) =>
                Cardinality(Creators(t, m)') + 1 = Cardinality(Creators(t, m))
  BY <1>1, <1>5, RequestEnds
<1>7. /\ About(q, s, n) /\ \A t \in Scopes, m \in SecretNames : About(q, t, m) => t = s /\ m = n
      /\ op = "create" => q \in Creators(s, n)
      /\ op # "create" => /\ row[s][n] > 0
                          /\ \A p \in SecretRequests \ {q} : About(p, s, n) => call[p].op = "create"
      /\ call[q].value = None <=> op = "unlink"
  BY <1>1, <1>2, <1>5 DEF About, Creators, RowInv
<1>8. /\ row[s][n] \in 0 .. MaxOps + 1 /\ row[s][n] \in Nat
      /\ ops \in Nat /\ MaxOps \in Nat /\ ops <= MaxOps
      /\ op = "create" => row[s][n] <= ops
  BY <1>1, <1>3, <1>7, SecretsFacts, RowFacts
<1>9. k \in 0 .. MaxOps + 1
  BY <1>4, <1>7, <1>8
<1>10. /\ row' \in [Scopes -> [SecretNames -> 0 .. MaxOps + 1]] /\ row'[s][n] = k
       /\ \A t \in Scopes, m \in SecretNames : <<t, m>> # <<s, n>> => row'[t][m] = row[t][m]
  <2>1. row \in [Scopes -> [SecretNames -> 0 .. MaxOps + 1]]
    BY <1>1 DEF SecretsTypeOK
  <2> QED BY <1>3, <1>5, <1>9, <2>1
<1>11. SecretsTypeOK'
  BY <1>1, <1>3, <1>5, <1>6, <1>10 DEF SecretsTypeOK, delivery
<1>12. RowInv'
  <2>1. ASSUME NEW p \in SecretRequests
        PROVE  /\ call'[p].value = None
                    <=> call'[p].op = "unlink" \/ call'[p].pc = "idle"
               /\ call'[p].pc # "idle" /\ call'[p].op # "create" =>
                    /\ row'[call'[p].scope][call'[p].name] > 0
                    /\ \A o \in SecretRequests \ {p} :
                         About(o, call[p].scope, call[p].name)' => call'[o].op = "create"
    <3>1. CASE p = q
      BY <1>6, <3>1
    <3>2. CASE p # q
      <4>1. call'[p] = call[p] /\ call[p].scope \in Scopes /\ call[p].name \in SecretNames
        BY <1>1, <1>6, <3>2, SecretsFacts DEF SecretFrame
      <4>2. \A o \in SecretRequests \ {p} : About(o, call[p].scope, call[p].name)' =>
               About(o, call[p].scope, call[p].name) /\ call'[o] = call[o]
        BY <1>6, <4>1 DEF About
      <4>3. ASSUME call[p].pc # "idle", call[p].op # "create"
            PROVE  row'[call[p].scope][call[p].name] > 0
        <5>1. /\ row[call[p].scope][call[p].name] > 0
              /\ About(q, call[p].scope, call[p].name) => op = "create"
          BY <1>1, <1>2, <3>2, <4>3 DEF RowInv
        <5>2. CASE <<call[p].scope, call[p].name>> = <<s, n>>
          <6>1. k > 0
            BY <1>4, <1>7, <1>8, <5>1, <5>2
          <6> QED BY <1>10, <5>2, <6>1
        <5>3. CASE <<call[p].scope, call[p].name>> # <<s, n>>
          BY <1>10, <4>1, <5>1, <5>3
        <5> QED BY <5>2, <5>3
      <4> QED BY <1>1, <4>1, <4>2, <4>3 DEF RowInv
    <3> QED BY <3>1, <3>2
  <2>2. ASSUME NEW t \in Scopes, NEW m \in SecretNames
        PROVE  /\ IsFiniteSet(Creators(t, m)')
               /\ row'[t][m] + Cardinality(Creators(t, m)') <= ops' + 1
    <3>1. /\ Cardinality(Creators(t, m)) \in Nat /\ row[t][m] \in Nat /\ ops \in Nat
          /\ row[t][m] + Cardinality(Creators(t, m)) <= ops + 1
      BY <1>1, RowFacts, SecretsFacts
    <3>2. ops' = ops
      BY <1>5
    <3>3. PICK c, d : c = Cardinality(Creators(t, m)) /\ d = Cardinality(Creators(t, m)')
      OBVIOUS
    <3>4. /\ IsFiniteSet(Creators(t, m)') /\ c \in Nat /\ d \in Nat /\ d <= c
          /\ row[t][m] + c <= ops + 1
          /\ q \in Creators(t, m) => d + 1 = c
      BY <1>6, <3>1, <3>3
    <3>5. row'[t][m] + d <= ops + 1
      <4>1. CASE <<t, m>> = <<s, n>>
        <5>1. /\ row'[t][m] = k /\ k \in Nat /\ k <= row[t][m] + 1
              /\ k > row[t][m] => q \in Creators(t, m)
          BY <1>4, <1>7, <1>8, <1>10, <4>1
        <5> QED BY <3>1, <3>4, <5>1
      <4>2. CASE <<t, m>> # <<s, n>>
        <5>1. row'[t][m] = row[t][m]
          BY <1>10, <4>2
        <5> QED BY <3>1, <3>4, <5>1
      <4> QED BY <4>1, <4>2
    <3> QED BY <3>2, <3>3, <3>4, <3>5
  <2> QED BY <2>1, <2>2 DEF RowInv
<1>13. SettledInv'
  <2> SUFFICES ASSUME NEW t \in Scopes, NEW m \in SecretNames, <<t, m>> \notin moved'
               PROVE  /\ row'[t][m] <= 1
                      /\ \A p \in Creators(t, m)' : row'[t][m] = 0 /\ Creators(t, m)' = {p}
    BY DEF SettledInv
  <2>1. /\ <<t, m>> \notin moved /\ row[t][m] <= 1 /\ Creators(t, m)' = Creators(t, m) \ {q}
        /\ \A p \in Creators(t, m) : row[t][m] = 0 /\ Creators(t, m) = {p}
    BY <1>1, <1>5, <1>6 DEF SettledInv
  <2>2. CASE <<t, m>> # <<s, n>>
    BY <1>10, <2>1, <2>2
  <2>3. CASE <<t, m>> = <<s, n>>
    <3>1. Creators(t, m)' = {}
      BY <1>7, <2>1, <2>3
    <3>2. k <= 1
      BY <1>4, <1>7, <1>8, <2>1, <2>3
    <3> QED BY <1>10, <2>3, <3>1, <3>2
  <2> QED BY <2>2, <2>3
<1>14. MapInv'
  <2> SUFFICES ASSUME NEW p \in SecretRequests, call'[p].pc = "write"
               PROVE  \/ {call'[p].scope} \X SecretNames \subseteq uncertain'
                      \/ /\ call'[p].view = vault'[Stores[call'[p].scope]]
                         /\ ~Overlaps(p, call[p].scope)'
    BY DEF MapInv
  <2>1. /\ p # q /\ call'[p] = call[p] /\ call[p].pc = "write"
        /\ vault' = vault /\ uncertain' = uncertain
    BY <1>5, <1>6
  <2>2. Overlaps(p, call[p].scope)' => Overlaps(p, call[p].scope)
    BY <1>6, <2>1 DEF Overlaps
  <2> QED BY <1>1, <2>1, <2>2 DEF MapInv
<1>15. KnownInv'
  <2> SUFFICES ASSUME NEW t \in Scopes, NEW m \in SecretNames, <<t, m>> \notin uncertain'
               PROVE  /\ vault'[Stores[t]][m] = answered'[t][m]
                      /\ <<t, m>> \notin moved' =>
                           /\ \A p \in SecretRequests : About(p, t, m)' /\ call'[p].pc = "commit" =>
                                answered'[t][m] = call'[p].value
                           /\ row'[t][m] > 0 /\ answered'[t][m] = None =>
                                \E p \in SecretRequests : About(p, t, m)' /\ call'[p].pc = "commit"
    BY DEF KnownInv
  <2>1. /\ moved \subseteq moved' /\ vault' = vault /\ answered' = answered
        /\ vault[Stores[t]][m] = answered[t][m]
        /\ <<t, m>> \notin moved =>
             /\ \A p \in SecretRequests : About(p, t, m) /\ call[p].pc = "commit" =>
                  answered[t][m] = call[p].value
             /\ row[t][m] > 0 /\ answered[t][m] = None =>
                  \E p \in SecretRequests : About(p, t, m) /\ call[p].pc = "commit"
    BY <1>1, <1>5 DEF KnownInv
  <2>2. \A p \in SecretRequests : About(p, t, m)' => p # q /\ About(p, t, m) /\ call'[p] = call[p]
    BY <1>6
  <2>3. ASSUME <<t, m>> \notin moved', row'[t][m] > 0, answered[t][m] = None
        PROVE  \E p \in SecretRequests : About(p, t, m)' /\ call'[p].pc = "commit"
    <3>1. CASE <<t, m>> # <<s, n>>
      <4>1. PICK p \in SecretRequests : About(p, t, m) /\ call[p].pc = "commit"
        BY <1>10, <2>1, <2>3, <3>1
      <4>2. p # q
        BY <1>7, <3>1, <4>1
      <4> QED BY <1>6, <4>1, <4>2
    <3>2. CASE <<t, m>> = <<s, n>>
      <4>1. op = "unlink"
        BY <1>5, <1>7, <2>1, <2>3, <3>2
      <4>2. row[s][n] <= 1
        BY <1>1, <2>1, <2>3, <3>2 DEF SettledInv
      <4>3. k = 0
        BY <1>4, <1>7, <1>8, <4>1, <4>2
      <4> QED BY <1>10, <2>3, <3>2, <4>3
    <3> QED BY <3>1, <3>2
  <2> QED BY <2>1, <2>2, <2>3
<1> QED BY <1>11, <1>12, <1>13, <1>14, <1>15 DEF CoreInv

\* What the operator makes of listed paths: a map, for one of the scopes that
\* hold a name is the nearest.
LEMMA MergedType ==
  ASSUME SecretsTypeOK, NEW paths
  PROVE  Merged(paths) \in Map
<1> SUFFICES ASSUME NEW n \in SecretNames
             PROVE  LET holders == {s \in Scopes : Looks[s] \in paths /\ vault[Looks[s]][n] # None}
                        winner  == CHOOSE s \in holders :
                                     \A t \in holders \ {s} : Overrides(s, t) IN
                    (IF holders = {} THEN None ELSE vault[Looks[winner]][n])
                        \in SecretValues \cup {None}
  BY DEF Merged, Map
<1> DEFINE holders == {s \in Scopes : Looks[s] \in paths /\ vault[Looks[s]][n] # None}
           winner == CHOOSE s \in holders : \A t \in holders \ {s} : Overrides(s, t)
<1>1. CASE holders = {}
  BY <1>1
<1>2. CASE holders # {}
  <2>1. PICK s \in holders : \A t \in holders : Rank[t] <= Rank[s]
    BY <1>2, SecretsAssumption
  <2>2. ASSUME NEW t \in holders \ {s}
        PROVE  Overrides(s, t)
    <3>1. s \in Scopes /\ t \in Scopes /\ s # t /\ Rank[t] <= Rank[s]
      BY <2>1, <2>2
    <3>2. PICK a, b : a = Rank[s] /\ b = Rank[t]
      OBVIOUS
    <3>3. a \in Nat /\ b \in Nat /\ a # b /\ b <= a
      BY <3>1, <3>2, SecretsAssumption
    <3>4. a > b
      BY <3>3
    <3> QED BY <3>2, <3>4 DEF Overrides
  <2>3. winner \in holders
    BY <2>1, <2>2
  <2>4. vault[Looks[winner]][n] \in SecretValues \cup {None}
    BY <2>3, SecretsAssumption DEF SecretsTypeOK, Map
  <2> QED BY <1>2, <2>4
<1> QED BY <1>1, <1>2

\* The handler, the operator and what users change besides do not touch what
\* the portal and the API keep.
LEMMA CoreKept ==
  ASSUME CoreInv, SecretsTypeOK', ops' \in {ops, ops + 1},
         UNCHANGED <<row, vault, call, answered, uncertain, moved>>
  PROVE  CoreInv'
<1>1. SecretsTypeOK /\ RowInv /\ SettledInv /\ MapInv /\ KnownInv
  BY DEF CoreInv
<1>2. /\ \A q \in SecretRequests, s \in Scopes, n \in SecretNames : About(q, s, n)' <=> About(q, s, n)
      /\ \A s \in Scopes, n \in SecretNames : Creators(s, n)' = Creators(s, n)
  BY DEF About, Creators
<1>3. RowInv'
  <2>1. ASSUME NEW s \in Scopes, NEW n \in SecretNames
        PROVE  /\ IsFiniteSet(Creators(s, n)')
               /\ row'[s][n] + Cardinality(Creators(s, n)') <= ops' + 1
    <3>1. PICK c : c = Cardinality(Creators(s, n))
      OBVIOUS
    <3>2. /\ IsFiniteSet(Creators(s, n)) /\ c \in Nat /\ row[s][n] \in Nat /\ ops \in Nat
          /\ row[s][n] + c <= ops + 1 /\ row' = row
          /\ Creators(s, n)' = Creators(s, n)
      BY <1>1, <1>2, <3>1, RowFacts, SecretsFacts
    <3>3. row[s][n] + c <= ops' + 1
      BY <3>2
    <3> QED BY <3>1, <3>2, <3>3
  <2>2. \A q, p \in SecretRequests : About(p, call[q].scope, call[q].name)'
                                       <=> About(p, call[q].scope, call[q].name)
    BY DEF About
  <2> QED BY <1>1, <2>1, <2>2 DEF RowInv
<1>4. SettledInv' /\ KnownInv'
  BY <1>1, <1>2 DEF SettledInv, KnownInv
<1>5. MapInv'
  BY <1>1 DEF MapInv, Overlaps
<1> QED BY <1>1, <1>3, <1>4, <1>5 DEF CoreInv

\* The portal's steps do not touch the handler's part of the invariant.
LEMMA HandlerKept ==
  ASSUME HandlerInv, UNCHANGED delivery
  PROVE  HandlerInv'
  BY DEF HandlerInv, delivery, DeliveryInv, NoDangling

\* One step of the handler, of the operator or of those that trigger them.
DeliveryStep ==
    \/ Reconcile \/ Look \/ ApplyExternalSecret \/ ApplyArgo
    \/ OtherChange \/ Restart \/ RefreshSecret

LEMMA DeliveryStepType ==
  ASSUME SecretsTypeOK, DeliveryStep
  PROVE  /\ SecretsTypeOK' /\ ops' \in {ops, ops + 1}
         /\ UNCHANGED <<row, vault, call, answered, uncertain, moved>>
<1>1. /\ app \in Handler /\ es \subseteq SecretPaths /\ secret \in Map \cup {None}
      /\ envFrom \in BOOLEAN /\ due \in BOOLEAN
      /\ ops \in 0 .. MaxOps /\ faults \in 0 .. MaxFaults
      /\ MaxOps \in Nat /\ MaxFaults \in Nat
      /\ \A s \in Scopes : Looks[s] \in SecretPaths
  BY SecretsAssumption DEF SecretsTypeOK
<1>2. HandlerResting \in Handler /\ [HandlerResting EXCEPT !.pc = "look", !.todo = Scopes] \in Handler
  BY DEF HandlerResting, Handler
<1>3. Spend => faults' \in 0 .. MaxFaults
  BY <1>1 DEF Spend
<1>4. UNCHANGED <<row, vault, call, answered, uncertain, moved>>
  BY DEF DeliveryStep, Reconcile, Look, ApplyExternalSecret, ApplyArgo,
     OtherChange, Restart, RefreshSecret, history
<1>5. ops' \in 0 .. MaxOps /\ ops' \in {ops, ops + 1}
  <2>1. ops' = ops \/ (ops < MaxOps /\ ops' = ops + 1)
    BY DEF DeliveryStep, Reconcile, Look, ApplyExternalSecret, ApplyArgo,
       OtherChange, Restart, RefreshSecret
  <2> QED BY <1>1, <2>1
<1>6. faults' \in 0 .. MaxFaults
  BY <1>1, <1>3 DEF DeliveryStep, Reconcile, Look, ApplyExternalSecret, ApplyArgo,
     OtherChange, Restart, RefreshSecret
<1>7. es' \subseteq SecretPaths /\ envFrom' \in BOOLEAN /\ due' \in BOOLEAN
  <2>1. app.found \subseteq SecretPaths /\ app.deliver \in BOOLEAN
    BY <1>1 DEF Handler
  <2> QED BY <1>1, <2>1 DEF DeliveryStep, Reconcile, Look, ApplyExternalSecret,
             ApplyArgo, OtherChange, Restart, RefreshSecret
<1>8. app' \in Handler
  <2>1. ASSUME Look
        PROVE  app' \in Handler
    <3>1. PICK s \in app.todo :
            \/ app' = [app EXCEPT
                  !.todo = @ \ {s},
                  !.found = IF Exists(Looks[s]) THEN @ \cup {Looks[s]} ELSE @,
                  !.pc = IF app.todo = {s} THEN "apply" ELSE "look"]
            \/ app' = [app EXCEPT !.pc = "argo"]
      BY <2>1 DEF Look
    <3>2. s \in Scopes /\ Looks[s] \in SecretPaths
      BY <1>1, <3>1 DEF Handler
    <3>3. PICK todo, found, pc :
            /\ todo = app.todo \ {s}
            /\ found = IF Exists(Looks[s]) THEN app.found \cup {Looks[s]} ELSE app.found
            /\ pc = IF app.todo = {s} THEN "apply" ELSE "look"
      OBVIOUS
    <3>4. todo \in SUBSET Scopes /\ found \in SUBSET SecretPaths /\ pc \in {"look", "apply"}
      BY <1>1, <3>2, <3>3 DEF Handler
    <3>5. \/ app' = [app EXCEPT !.todo = todo, !.found = found, !.pc = pc]
          \/ app' = [app EXCEPT !.pc = "argo"]
      BY <1>1, <3>1, <3>3 DEF Handler
    <3> QED BY <1>1, <3>4, <3>5 DEF Handler
  <2>2. ASSUME ApplyExternalSecret
        PROVE  app' \in Handler
    BY <1>1, <2>2 DEF ApplyExternalSecret, Handler, Delivered
  <2> QED BY <1>1, <1>2, <2>1, <2>2 DEF DeliveryStep, Reconcile, ApplyArgo,
             OtherChange, Restart, RefreshSecret
<1>9. secret' \in Map \cup {None}
  <2>1. Merged(es) \in Map
    BY MergedType
  <2> QED BY <1>1, <2>1 DEF DeliveryStep, Reconcile, Look, ApplyExternalSecret,
             ApplyArgo, OtherChange, Restart, RefreshSecret
<1> QED BY <1>4, <1>5, <1>6, <1>7, <1>8, <1>9 DEF SecretsTypeOK

LEMMA DeliveryStepKeepsHandler ==
  ASSUME SecretsTypeOK, HandlerInv, DeliveryStep
  PROVE  HandlerInv'
<1>1. app \in Handler
  BY DEF SecretsTypeOK
<1>2. HandlerResting.pc = "idle" /\ HandlerResting.deliver = FALSE
  BY DEF HandlerResting
<1>3. CASE Reconcile
  <2>1. app' = [pc |-> "look", todo |-> Scopes, found |-> {}, deliver |-> FALSE]
    BY <1>3 DEF Reconcile, HandlerResting
  <2>2. app'.pc = "look" /\ app'.deliver = FALSE
    BY <2>1
  <2> QED BY <2>2 DEF HandlerInv, DeliveryInv, NoDangling
<1>4. CASE Look
  <2>1. app'.deliver = app.deliver /\ app'.pc # "idle" /\ ~app.deliver
    BY <1>1, <1>4 DEF Look, Handler, HandlerInv, DeliveryInv
  <2> QED BY <2>1 DEF HandlerInv, DeliveryInv, NoDangling
<1>5. CASE ApplyExternalSecret
  <2>1. /\ app'.pc = "argo" /\ envFrom' = envFrom
        /\ app'.deliver => es' # {}
    BY <1>1, <1>5 DEF ApplyExternalSecret, Handler, HandlerInv, DeliveryInv,
       Delivered
  <2> QED BY <2>1 DEF HandlerInv, DeliveryInv, NoDangling
<1>6. CASE ApplyArgo
  BY <1>2, <1>6 DEF ApplyArgo, HandlerInv, DeliveryInv, NoDangling
<1>7. CASE OtherChange
  BY <1>7 DEF OtherChange, HandlerInv, DeliveryInv, NoDangling
<1>8. CASE Restart
  BY <1>2, <1>8 DEF Restart, HandlerInv, DeliveryInv, NoDangling
<1>9. CASE RefreshSecret
  BY <1>9 DEF RefreshSecret, HandlerInv, DeliveryInv, NoDangling
<1> QED BY <1>3, <1>4, <1>5, <1>6, <1>7, <1>8, <1>9 DEF DeliveryStep

LEMMA SecretsInitially ==
  ASSUME SecretsInit
  PROVE  CoreInv /\ HandlerInv
<1>1. /\ NoSecretRequest \in SecretFrame /\ NoSecretRequest.pc = "idle" /\ NoSecretRequest.value = None
      /\ \A q \in SecretRequests : call[q] = NoSecretRequest
      /\ call \in [SecretRequests -> SecretFrame]
  BY NoRequestType DEF SecretsInit
<1>2. /\ vault \in [SecretPaths -> Map] /\ \A s \in Scopes : vault[Stores[s]] \in Map
      /\ \A s \in Scopes : answered[s] = vault[Stores[s]]
      /\ answered \in [Scopes -> Map]
  BY SecretsAssumption DEF SecretsInit, Map
<1>3. /\ MaxOps \in Nat /\ MaxFaults \in Nat /\ ops = 0 /\ faults = 0
      /\ uncertain = {} /\ moved = {}
  BY SecretsAssumption DEF SecretsInit
<1>4. /\ \A s \in Scopes, n \in SecretNames :
           row[s][n] = IF vault[Stores[s]][n] = None THEN 0 ELSE 1
      /\ row \in [Scopes -> [SecretNames -> {0, 1}]]
  BY DEF SecretsInit
<1>5. /\ app = HandlerResting /\ HandlerResting \in Handler /\ HandlerResting.deliver = FALSE
      /\ es = {} /\ secret = None /\ envFrom = FALSE /\ due = TRUE
  BY DEF SecretsInit, HandlerResting, Handler
<1>6. /\ \A q \in SecretRequests, s \in Scopes, n \in SecretNames : ~About(q, s, n)
      /\ \A s \in Scopes, n \in SecretNames : Creators(s, n) = {}
  BY <1>1 DEF About, Creators
<1>7. SecretsTypeOK
  <2>1. row \in [Scopes -> [SecretNames -> 0 .. MaxOps + 1]]
    <3>1. 0 \in 0 .. MaxOps + 1 /\ 1 \in 0 .. MaxOps + 1
      BY <1>3
    <3> QED BY <1>4, <3>1
  <2>2. 0 \in 0 .. MaxOps /\ 0 \in 0 .. MaxFaults
    BY <1>3
  <2> QED BY <1>1, <1>2, <1>3, <1>5, <2>1, <2>2 DEF SecretsTypeOK
<1>8. RowInv
  <2>1. IsFiniteSet({}) /\ Cardinality({}) = 0
    BY FS_EmptySet
  <2>2. ASSUME NEW s \in Scopes, NEW n \in SecretNames
        PROVE  /\ IsFiniteSet(Creators(s, n))
               /\ row[s][n] + Cardinality(Creators(s, n)) <= ops + 1
    <3>1. Creators(s, n) = {} /\ row[s][n] \in {0, 1} /\ ops = 0
      BY <1>3, <1>4, <1>6
    <3>2. row[s][n] + 0 <= ops + 1
      BY <3>1
    <3> QED BY <2>1, <3>1, <3>2
  <2> QED BY <1>1, <2>2 DEF RowInv
<1>9. SettledInv
  BY <1>4, <1>6 DEF SettledInv
<1>10. MapInv
  BY <1>1 DEF MapInv
<1>11. KnownInv
  BY <1>2, <1>4, <1>6 DEF KnownInv
<1>12. HandlerInv
  BY <1>5 DEF HandlerInv, DeliveryInv, NoDangling
<1> QED BY <1>7, <1>8, <1>9, <1>10, <1>11, <1>12 DEF CoreInv

LEMMA SecretsKept ==
  ASSUME CoreInv, HandlerInv, [SecretsNext]_secretsVars
  PROVE  CoreInv' /\ HandlerInv'
<1>0. SecretsTypeOK
  BY DEF CoreInv
<1>1. ASSUME NEW q \in SecretRequests, NEW s \in Scopes, NEW n \in SecretNames,
             \/ \E v \in SecretValues : CreateSecret(q, s, n, v) \/ WriteSecret(q, s, n, v)
             \/ UnlinkSecret(q, s, n)
      PROVE  CoreInv' /\ HandlerInv'
  <2>1. None \notin SecretValues
    BY SecretsAssumption
  <2>2. PICK op \in {"create", "write", "unlink"}, v \in SecretValues \cup {None} :
          (v = None <=> op = "unlink") /\ BeginSecret(q, op, s, n, v)
    BY <1>1, <2>1 DEF CreateSecret, WriteSecret, UnlinkSecret
  <2>3. CoreInv'
    BY <2>2, BeginKeepsSecrets
  <2>4. UNCHANGED delivery
    BY <2>2 DEF BeginSecret
  <2> QED BY <2>3, <2>4, HandlerKept
<1>2. ASSUME NEW s \in Scopes, NEW n \in SecretNames, NEW m \in SecretNames, RenameSecret(s, n, m)
      PROVE  CoreInv' /\ HandlerInv'
  <2>1. CoreInv'
    BY <1>2, RenameKeepsSecrets
  <2>2. UNCHANGED delivery
    BY <1>2 DEF RenameSecret
  <2> QED BY <2>1, <2>2, HandlerKept
<1>3. ASSUME NEW q \in SecretRequests, SecretStep(q) \/ FailSecret(q)
      PROVE  CoreInv' /\ HandlerInv'
  <2>1. CoreInv'
    BY <1>3, ReadMapKeepsSecrets, WriteMapKeepsSecrets, CommitKeepsSecrets, FailKeepsSecrets
       DEF SecretStep
  <2>2. UNCHANGED delivery
    BY <1>3 DEF SecretStep, ReadMap, WriteMap, CommitSecret, FailSecret
  <2> QED BY <2>1, <2>2, HandlerKept
<1>4. ASSUME DeliveryStep
      PROVE  CoreInv' /\ HandlerInv'
  <2>1. /\ SecretsTypeOK' /\ ops' \in {ops, ops + 1}
        /\ UNCHANGED <<row, vault, call, answered, uncertain, moved>>
    BY <1>0, <1>4, DeliveryStepType
  <2>2. CoreInv'
    BY <2>1, CoreKept
  <2>3. HandlerInv'
    BY <1>0, <1>4, DeliveryStepKeepsHandler
  <2> QED BY <2>2, <2>3
<1>5. ASSUME UNCHANGED secretsVars
      PROVE  CoreInv' /\ HandlerInv'
  <2>1. /\ SecretsTypeOK' /\ ops' \in {ops, ops + 1} /\ UNCHANGED delivery
        /\ UNCHANGED <<row, vault, call, answered, uncertain, moved>>
    BY <1>0, <1>5 DEF secretsVars, history, delivery, SecretsTypeOK
  <2> QED BY <2>1, CoreKept, HandlerKept
<1> QED BY <1>1, <1>2, <1>3, <1>4, <1>5 DEF SecretsNext, HandlerStep, DeliveryStep

\* The invariant is inductive: requests, failed calls, the handler, restarts
\* and the operator keep it.
THEOREM SecretsInvariant == SecretsSpec => []SecretsInv
<1>1. SecretsInit => CoreInv /\ HandlerInv
  BY SecretsInitially
<1>2. CoreInv /\ HandlerInv /\ [SecretsNext]_secretsVars => (CoreInv /\ HandlerInv)'
  BY SecretsKept
<1>3. CoreInv /\ HandlerInv => SecretsInv
  BY DEF SecretsInv
<1> QED BY <1>1, <1>2, <1>3, PTL DEF SecretsSpec

\* Every variable has its type; a name has no more records than were created.
THEOREM SecretsTypes == SecretsSpec => []SecretsTypeOK
<1>1. SecretsInv => SecretsTypeOK
  BY DEF SecretsInv, CoreInv
<1> QED BY <1>1, SecretsInvariant, PTL

\* ScopedSecretsStore reads a map, changes one key and writes the map back:
\* an acknowledged value is the one in OpenBao, unless requests overlapped at
\* its scope or one of its own failed; a record at rest has its value there.
THEOREM SecretsAreAcknowledged == SecretsSpec => []SecretsAcknowledged
<1>1. SecretsInv => SecretsAcknowledged
  <2> SUFFICES ASSUME SecretsInv, NEW s \in Scopes, NEW n \in SecretNames, <<s, n>> \notin uncertain
               PROVE  /\ vault[Stores[s]][n] = answered[s][n]
                      /\ row[s][n] > 0 /\ ~SecretBusy(s, n) /\ <<s, n>> \notin moved
                            => vault[Stores[s]][n] # None
    BY DEF SecretsAcknowledged, SecretsInv, CoreInv
  <2>1. SecretsTypeOK /\ RowInv /\ SettledInv /\ KnownInv
    BY DEF SecretsInv, CoreInv
  <2>2. vault[Stores[s]][n] = answered[s][n]
    BY <2>1 DEF KnownInv
  <2>3. ASSUME row[s][n] > 0, ~SecretBusy(s, n), <<s, n>> \notin moved, answered[s][n] = None
        PROVE  FALSE
    <3>1. PICK q \in SecretRequests : About(q, s, n) /\ call[q].pc = "commit"
      BY <2>1, <2>3 DEF KnownInv
    <3>2. call[q].op = "create"
      BY <2>3, <3>1 DEF About, SecretBusy
    <3>3. q \in Creators(s, n)
      BY <3>1, <3>2 DEF Creators
    <3>4. row[s][n] = 0
      BY <2>1, <2>3, <3>3 DEF SettledInv
    <3> QED BY <2>3, <3>4
  <2> QED BY <2>2, <2>3
<1> QED BY <1>1, SecretsInvariant, PTL

\* _reconcile_scoped_secrets removes the ExternalSecret before the Argo CD
\* Application that refers to it is applied: until it is, the handler runs or
\* is due, whatever fails and whenever the controller stops.
THEOREM SecretsNoDangling == SecretsSpec => []NoDangling
<1>1. SecretsInv => NoDangling
  BY DEF SecretsInv, HandlerInv
<1> QED BY <1>1, SecretsInvariant, PTL

----------------------------------------------------------------------------
(* Records and manifests: operators of the model                           *)

\* The types of what a resource's request, its file and its place hold.
LEMMA PortalFacts ==
  ASSUME PortalTypeOK
  PROVE  /\ MaxOps \in Nat /\ MaxFaults \in Nat /\ Levels \in Nat \ {0}
         /\ None \notin Resources /\ None \notin Payloads
         /\ \A r \in Resources : /\ PathOf[r] \in RepoPaths /\ run[r] \in PortalFrame
                                 /\ form[r] \in Payloads \cup {None}
                                 /\ LevelOf[r] \in 1 .. Levels
                                 /\ Parent[r] \in Resources \cup {None}
         /\ Recorded \subseteq Resources
  BY PortalAssumption DEF PortalTypeOK, Recorded

LEMMA IdleType ==
  /\ Idle \in PortalFrame /\ Idle.pc = "idle" /\ Idle.new = FALSE
  /\ \A f \in PortalFrame : f.pc # "idle" => f # Idle
<1>1. Idle.pc = "idle" /\ Idle.new = FALSE
  BY DEF Idle
<1>2. Idle \in PortalFrame
  BY DEF Idle, PortalFrame, Shown
<1> QED BY <1>1, <1>2

\* A resource's parent has a place before it.
LEMMA ParentBefore ==
  ASSUME NEW r \in Resources, Parent[r] # None
  PROVE  /\ Parent[r] \in Resources
         /\ LevelOf[Parent[r]] \in Nat /\ LevelOf[r] \in Nat
         /\ LevelOf[Parent[r]] < LevelOf[r]
  BY PortalAssumption

\* What the database deletes with a row: what refers to it, and not its
\* parent.
LEMMA DescendantsClosed ==
  ASSUME NEW r \in Resources
  PROVE  /\ r \in Descendants(r) /\ Descendants(r) \subseteq Resources
         /\ \A x \in Resources : Parent[x] \in Descendants(r) => x \in Descendants(r)
         /\ Parent[r] \notin Descendants(r)
<1>1. r \in Descendants(r) /\ Descendants(r) \subseteq Resources
  BY DEF Descendants
<1>2. \A x \in Resources : Parent[x] \in Descendants(r) => x \in Descendants(r)
  BY DEF Descendants, Closed
<1>3. Parent[r] \notin Descendants(r)
  <2> DEFINE T == {x \in Resources : x = r \/ LevelOf[x] > LevelOf[r]}
  <2>1. ASSUME NEW x \in Resources, Parent[x] \in T
        PROVE  x \in T
    <3>1. Parent[x] \in Resources /\ Parent[x] # None
      BY <2>1, PortalAssumption
    <3>2. PICK a, b, c : a = LevelOf[x] /\ b = LevelOf[Parent[x]] /\ c = LevelOf[r]
      OBVIOUS
    <3>3. a \in Nat /\ b \in Nat /\ b < a
      BY <3>1, <3>2, ParentBefore
    <3>4. c \in Nat /\ (b = c \/ b > c)
      BY <2>1, <3>2, PortalAssumption
    <3>5. a > c
      BY <3>3, <3>4
    <3> QED BY <3>2, <3>5
  <2>2. T \in SUBSET Resources /\ r \in T /\ Closed(T)
    BY <2>1 DEF Closed
  <2>3. Descendants(r) \subseteq T
    BY <2>2 DEF Descendants
  <2>4. ASSUME Parent[r] \in T
        PROVE  FALSE
    <3>1. Parent[r] \in Resources /\ Parent[r] # None
      BY <2>4, PortalAssumption
    <3>2. PICK a, b : a = LevelOf[r] /\ b = LevelOf[Parent[r]]
      OBVIOUS
    <3>3. a \in Nat /\ b \in Nat /\ b < a
      BY <3>1, <3>2, ParentBefore
    <3>4. b = a \/ b > a
      BY <2>4, <3>2
    <3> QED BY <3>3, <3>4
  <2> QED BY <2>3, <2>4
<1> QED BY <1>1, <1>2, <1>3

\* A step of the request that works on the record of r, which it does not
\* end and which only the request and its file tell from the one before.
LEMMA RequestGoesOn ==
  ASSUME PortalInv, NEW r \in Resources, NEW f \in PortalFrame,
         run' = [run EXCEPT ![r] = f], f.pc # "idle",
         UNCHANGED <<form, shown, twin, cluster, pushes, cron>>,
         repo' \in [RepoPaths -> Manifest \cup {None}],
         \A p \in RepoPaths \ {PathOf[r]} : repo'[p] = repo[p],
         pushed' \subseteq pushed \cup {r},
         ops' \in 0 .. MaxOps, faults' \in 0 .. MaxFaults,
         f.pc \in {"put", "refresh", "commit"} => f.body \in Payloads,
         ~f.new => r \in Recorded,
         f.new /\ Parent[r] # None => Parent[r] \in Recorded,
         Alone(r) /\ r \in pushed' /\ f.pc \in {"refresh", "commit"} =>
            repo'[PathOf[r]] = ManifestOf(r, f.body)
  PROVE  PortalInv'
<1>1. PortalTypeOK /\ NoOrphan /\ RunInv /\ CronInv /\ PushInv
  BY DEF PortalInv, NoOrphan
<1>2. /\ run' \in [Resources -> PortalFrame] /\ run'[r] = f
      /\ \A x \in Resources \ {r} : run'[x] = run[x]
  BY <1>1 DEF PortalTypeOK
<1>3. Recorded' = Recorded
  BY DEF Recorded
<1>4. PortalTypeOK'
  BY <1>1, <1>2, <1>3 DEF PortalTypeOK
<1>5. NoOrphan'
  BY <1>1, <1>3, <1>4 DEF NoOrphan
<1>6. RunInv'
  BY <1>1, <1>2, <1>3 DEF RunInv
<1>7. CronInv'
  BY <1>1 DEF CronInv, Importable, Known
<1>8. PushInv'
  <2> SUFFICES ASSUME NEW x \in pushed', Alone(x)
               PROVE  /\ run'[x] = Idle =>
                           /\ x \in Recorded
                           /\ x \notin twin => repo'[PathOf[x]] = ManifestOf(x, form[x])
                      /\ run'[x].pc \in {"refresh", "commit"} =>
                           repo'[PathOf[x]] = ManifestOf(x, run'[x].body)
    BY <1>3 DEF PushInv, Alone, ManifestOf
  <2>1. CASE x = r
    BY <1>2, <2>1, IdleType
  <2>2. CASE x # r
    <3>1. x \in pushed /\ x \in Resources /\ run'[x] = run[x]
      BY <1>1, <1>2, <2>2 DEF PortalTypeOK
    <3>2. PathOf[x] # PathOf[r] /\ PathOf[x] \in RepoPaths
      BY <1>1, <2>2, <3>1, PortalFacts DEF Alone
    <3> QED BY <1>1, <3>1, <3>2 DEF PushInv
  <2> QED BY <2>1, <2>2
<1> QED BY <1>5, <1>6, <1>7, <1>8 DEF PortalInv

\* A step outside of the requests: records are made, with their parents, and
\* none changes its form.
LEMMA RecordsGrow ==
  ASSUME PortalInv, PortalTypeOK', CronInv',
         \A r \in Recorded : form'[r] = form[r],
         \A r \in Resources : form'[r] # None /\ form[r] = None /\ Parent[r] # None =>
            Parent[r] \in Recorded',
         twin \subseteq twin', UNCHANGED <<run, repo, pushed>>
  PROVE  PortalInv'
<1>1. PortalTypeOK /\ NoOrphan /\ RunInv /\ PushInv
  BY DEF PortalInv, NoOrphan
<1>2. Recorded \subseteq Recorded'
  BY DEF Recorded
<1>3. NoOrphan'
  BY <1>1, <1>2 DEF NoOrphan, Recorded
<1>4. RunInv'
  BY <1>1, <1>2 DEF RunInv
<1>5. PushInv'
  <2>1. \A x \in pushed : Alone(x)' <=> Alone(x)
    BY DEF Alone
  <2> QED BY <1>1, <1>2, <2>1 DEF PushInv, ManifestOf
<1> QED BY <1>3, <1>4, <1>5 DEF PortalInv

----------------------------------------------------------------------------
(* Requests                                                                *)

LEMMA CreateKeeps ==
  ASSUME PortalInv, NEW r \in Resources, NEW b \in Forms[r], Create(r, b)
  PROVE  PortalInv'
<1>1. PortalTypeOK /\ RunInv /\ PushInv
  BY DEF PortalInv, NoOrphan
<1>2. PICK f : f = [Idle EXCEPT !.pc = "put", !.body = b, !.new = TRUE]
  OBVIOUS
<1>3. b \in Payloads
  BY PortalAssumption
<1>4. /\ f \in PortalFrame /\ f.pc = "put" /\ f.body = b /\ f.new = TRUE
  BY <1>2, <1>3, IdleType DEF PortalFrame
<1>5. /\ run' = [run EXCEPT ![r] = f]
      /\ Parent[r] # None => form[Parent[r]] # None
      /\ UNCHANGED <<form, shown, twin, repo, cluster, pushes, cron, pushed, faults>>
  BY <1>2 DEF Create
<1>6. Parent[r] # None => Parent[r] \in Recorded
  BY <1>5, ParentBefore DEF Recorded
<1>7. /\ ops' \in 0 .. MaxOps /\ faults' \in 0 .. MaxFaults
      /\ repo' \in [RepoPaths -> Manifest \cup {None}]
  BY <1>1, PortalFacts DEF Create, PortalTypeOK
<1>8. /\ f.pc # "idle" /\ UNCHANGED <<form, shown, twin, cluster, pushes, cron>>
      /\ \A p \in RepoPaths \ {PathOf[r]} : repo'[p] = repo[p]
      /\ pushed' \subseteq pushed \cup {r} /\ f.body \in Payloads
      /\ f.pc \notin {"refresh", "commit"}
  BY <1>3, <1>4, <1>5
<1> QED BY <1>4, <1>5, <1>6, <1>7, <1>8, RequestGoesOn

LEMMA WriteKeeps ==
  ASSUME PortalInv, NEW r \in Resources, NEW b \in Forms[r], Write(r, b)
  PROVE  PortalInv'
<1>1. PortalTypeOK /\ RunInv /\ PushInv
  BY DEF PortalInv, NoOrphan
<1>2. PICK f : f = [Idle EXCEPT !.pc = "put", !.body = b, !.out = shown[r]]
  OBVIOUS
<1>3. b \in Payloads /\ shown[r] \in Shown
  BY <1>1, PortalAssumption DEF PortalTypeOK
<1>4. /\ f \in PortalFrame /\ f.pc = "put" /\ f.body = b /\ f.new = FALSE
  BY <1>2, <1>3, IdleType DEF PortalFrame
<1>5. /\ run' = [run EXCEPT ![r] = f] /\ r \in Recorded
      /\ UNCHANGED <<form, shown, twin, repo, cluster, pushes, cron, pushed, faults>>
  BY <1>2 DEF Write, Recorded
<1>6. /\ ops' \in 0 .. MaxOps /\ faults' \in 0 .. MaxFaults
      /\ repo' \in [RepoPaths -> Manifest \cup {None}]
  BY <1>1, PortalFacts DEF Write, PortalTypeOK
<1>7. /\ f.pc # "idle" /\ UNCHANGED <<form, shown, twin, cluster, pushes, cron>>
      /\ \A p \in RepoPaths \ {PathOf[r]} : repo'[p] = repo[p]
      /\ pushed' \subseteq pushed \cup {r} /\ f.body \in Payloads
      /\ f.pc \notin {"refresh", "commit"}
  BY <1>3, <1>4, <1>5
<1> QED BY <1>4, <1>5, <1>6, <1>7, RequestGoesOn

LEMMA UnlinkKeeps ==
  ASSUME PortalInv, NEW r \in Resources, Unlink(r)
  PROVE  PortalInv'
<1>1. PortalTypeOK /\ RunInv /\ PushInv
  BY DEF PortalInv, NoOrphan
<1>2. PICK f : f = [Idle EXCEPT !.pc = "delete"]
  OBVIOUS
<1>3. /\ f \in PortalFrame /\ f.pc = "delete" /\ f.new = FALSE
  BY <1>2, IdleType DEF PortalFrame
<1>4. /\ run' = [run EXCEPT ![r] = f] /\ r \in Recorded
      /\ UNCHANGED <<form, shown, twin, repo, cluster, pushes, cron, pushed, faults>>
  BY <1>2 DEF Unlink, Recorded
<1>5. /\ ops' \in 0 .. MaxOps /\ faults' \in 0 .. MaxFaults
      /\ repo' \in [RepoPaths -> Manifest \cup {None}]
  BY <1>1, PortalFacts DEF Unlink, PortalTypeOK
<1> QED BY <1>3, <1>4, <1>5, RequestGoesOn

\* What an object shows is one of the states.
LEMMA ShownType ==
  ASSUME PortalTypeOK
  PROVE  /\ \A obj \in CR : ShownOf(obj) \in Shown
         /\ \A r \in Resources : Refreshed(r) \in Shown
<1>1. ASSUME NEW obj \in CR
      PROVE  ShownOf(obj) \in Shown
  BY DEF ShownOf, Shown, CR
<1>2. ASSUME NEW r \in Resources
      PROVE  Refreshed(r) \in Shown
  <2>1. At(r) \in CR \cup {None}
    BY PortalAssumption DEF At, PortalTypeOK
  <2> QED BY <1>1, <2>1 DEF Refreshed, Shown
<1> QED BY <1>1, <1>2

LEMMA PutKeeps ==
  ASSUME PortalInv, NEW r \in Resources, Put(r)
  PROVE  PortalInv'
<1>1. PortalTypeOK /\ RunInv /\ PushInv
  BY DEF PortalInv, NoOrphan
<1>2. run[r] \in PortalFrame /\ run[r].pc = "put" /\ run[r].body \in Payloads /\ run[r] # Idle
  BY <1>1, PortalFacts, IdleType DEF RunInv, Put
<1>3. PICK ok \in BOOLEAN, done \in BOOLEAN :
        /\ ok => done
        /\ IF ok THEN UNCHANGED faults
                 ELSE faults < MaxFaults /\ faults' = faults + 1
        /\ IF done THEN PutManifest(r, ManifestOf(r, run[r].body)) ELSE UNCHANGED repo
        /\ pushed' = IF ok THEN pushed \cup {r} ELSE pushed \ {r}
        /\ run' = [run EXCEPT
             ![r].pc = IF run[r].new THEN "refresh" ELSE "commit",
             ![r].out = IF ok THEN @ ELSE "unknown"]
  BY DEF Put, Written
<1>4. PICK pc, out : /\ pc = IF run[r].new THEN "refresh" ELSE "commit"
                     /\ out = IF ok THEN run[r].out ELSE "unknown"
  OBVIOUS
<1>5. PICK f : f = [run[r] EXCEPT !.pc = pc, !.out = out]
  OBVIOUS
<1>6. /\ f \in PortalFrame /\ f.pc \in {"refresh", "commit"} /\ f.body = run[r].body
      /\ f.new = run[r].new
  <2>1. pc \in {"refresh", "commit"} /\ out \in Shown
    BY <1>2, <1>4 DEF PortalFrame, Shown
  <2> QED BY <1>2, <1>5, <2>1 DEF PortalFrame
<1>7. run' = [run EXCEPT ![r] = f]
  <2>1. run' = [run EXCEPT ![r].pc = pc, ![r].out = out]
    BY <1>1, <1>2, <1>3, <1>4 DEF PortalTypeOK, PortalFrame
  <2> QED BY <1>1, <1>2, <1>5, <2>1 DEF PortalTypeOK, PortalFrame
<1>8. /\ repo' \in [RepoPaths -> Manifest \cup {None}]
      /\ \A p \in RepoPaths \ {PathOf[r]} : repo'[p] = repo[p]
      /\ ok => repo'[PathOf[r]] = ManifestOf(r, f.body)
  <2>1. repo \in [RepoPaths -> Manifest \cup {None}] /\ PathOf[r] \in RepoPaths
    BY <1>1, PortalFacts DEF PortalTypeOK
  <2>2. ManifestOf(r, run[r].body) \in Manifest
    BY <1>2 DEF ManifestOf, Manifest
  <2> QED BY <1>3, <1>6, <2>1, <2>2 DEF PutManifest
<1>9. pushed' \subseteq pushed \cup {r} /\ (r \in pushed' => ok)
  BY <1>3
<1>10. ops' \in 0 .. MaxOps /\ faults' \in 0 .. MaxFaults
  BY <1>1, <1>3, PortalFacts DEF Put, PortalTypeOK
<1>11. /\ ~f.new => r \in Recorded
       /\ f.new /\ Parent[r] # None => Parent[r] \in Recorded
  BY <1>1, <1>2, <1>6 DEF RunInv
<1>12. UNCHANGED <<form, shown, twin, cluster, pushes, cron>>
  BY DEF Put
<1>13. /\ f.pc # "idle" /\ f.pc \in {"put", "refresh", "commit"} => f.body \in Payloads
       /\ r \in pushed' /\ f.pc \in {"refresh", "commit"} =>
            repo'[PathOf[r]] = ManifestOf(r, f.body)
       /\ f.pc # "idle"
  BY <1>2, <1>6, <1>8, <1>9
<1> QED BY <1>6, <1>7, <1>8, <1>9, <1>10, <1>11, <1>12, <1>13, RequestGoesOn

LEMMA RefreshKeeps ==
  ASSUME PortalInv, NEW r \in Resources, Refresh(r)
  PROVE  PortalInv'
<1>1. PortalTypeOK /\ RunInv /\ PushInv
  BY DEF PortalInv, NoOrphan
<1>2. run[r] \in PortalFrame /\ run[r].pc = "refresh" /\ run[r].body \in Payloads /\ run[r] # Idle
  BY <1>1, PortalFacts, IdleType DEF RunInv, Refresh
<1>3. PICK out \in Shown : run' = [run EXCEPT ![r].pc = "commit", ![r].out = out]
  <2>1. CASE run' = [run EXCEPT ![r].pc = "commit", ![r].out = Refreshed(r)]
    BY <1>1, <2>1, ShownType
  <2>2. CASE run' = [run EXCEPT ![r].pc = "commit"]
    <3>1. run[r].out \in Shown
      BY <1>2 DEF PortalFrame
    <3>2. run' = [run EXCEPT ![r].pc = "commit", ![r].out = run[r].out]
      BY <1>1, <1>2, <2>2 DEF PortalTypeOK, PortalFrame
    <3> QED BY <3>1, <3>2
  <2> QED BY <2>1, <2>2 DEF Refresh
<1>4. PICK f : f = [run[r] EXCEPT !.pc = "commit", !.out = out]
  OBVIOUS
<1>5. /\ f \in PortalFrame /\ f.pc = "commit" /\ f.body = run[r].body /\ f.new = run[r].new
  BY <1>2, <1>4 DEF PortalFrame
<1>6. run' = [run EXCEPT ![r] = f]
  BY <1>1, <1>2, <1>3, <1>4 DEF PortalTypeOK, PortalFrame
<1>7. /\ ops' \in 0 .. MaxOps /\ faults' \in 0 .. MaxFaults
      /\ repo' \in [RepoPaths -> Manifest \cup {None}]
  BY <1>1, PortalFacts DEF Refresh, PortalTypeOK
<1>8. /\ ~f.new => r \in Recorded
      /\ f.new /\ Parent[r] # None => Parent[r] \in Recorded
  BY <1>1, <1>2, <1>5 DEF RunInv
<1>9. UNCHANGED <<form, shown, twin, repo, cluster, pushes, cron, pushed>>
  BY DEF Refresh
<1>10. Alone(r) /\ r \in pushed' => repo'[PathOf[r]] = ManifestOf(r, f.body)
  BY <1>1, <1>2, <1>5, <1>9 DEF PushInv
<1> QED BY <1>2, <1>5, <1>6, <1>7, <1>8, <1>9, <1>10, RequestGoesOn

LEMMA DeleteCallKeeps ==
  ASSUME PortalInv, NEW r \in Resources, DeleteCall(r)
  PROVE  PortalInv'
<1>1. PortalTypeOK /\ RunInv /\ PushInv
  BY DEF PortalInv, NoOrphan
<1>2. run[r] \in PortalFrame /\ run[r].pc = "delete" /\ run[r] # Idle
  BY <1>1, PortalFacts, IdleType DEF DeleteCall
<1>3. PICK f : f = [run[r] EXCEPT !.pc = "unlink"]
  OBVIOUS
<1>4. f \in PortalFrame /\ f.pc = "unlink" /\ f.new = run[r].new
  BY <1>2, <1>3 DEF PortalFrame
<1>5. run' = [run EXCEPT ![r] = f]
  BY <1>1, <1>2, <1>3 DEF DeleteCall, PortalTypeOK
<1>6. /\ repo' \in [RepoPaths -> Manifest \cup {None}]
      /\ \A p \in RepoPaths \ {PathOf[r]} : repo'[p] = repo[p]
  <2>1. repo \in [RepoPaths -> Manifest \cup {None}] /\ PathOf[r] \in RepoPaths
    BY <1>1, PortalFacts DEF PortalTypeOK
  <2> QED BY <2>1 DEF DeleteCall, DeleteFile
<1>7. ops' \in 0 .. MaxOps /\ faults' \in 0 .. MaxFaults
  BY <1>1, PortalFacts DEF DeleteCall, PortalTypeOK
<1>8. /\ ~f.new => r \in Recorded
      /\ f.new /\ Parent[r] # None => Parent[r] \in Recorded
  BY <1>1, <1>2, <1>4 DEF RunInv
<1>9. UNCHANGED <<form, shown, twin, cluster, pushes, cron, pushed>>
  BY DEF DeleteCall
<1> QED BY <1>2, <1>4, <1>5, <1>6, <1>7, <1>8, <1>9, RequestGoesOn

\* What the sync keeps when rows change under it.
LEMMA TouchKeeps ==
  ASSUME PortalTypeOK, CronInv, NEW T, cron' = Touch(T)
  PROVE  cron' \in Sync /\ CronInv'
<1>1. cron \in Sync
  BY DEF PortalTypeOK
<1>2. PICK D : D = cron.touched \cup (T \cap cron.before)
  OBVIOUS
<1>3. D \subseteq Resources /\ cron' = [cron EXCEPT !.touched = D]
  BY <1>1, <1>2 DEF Touch, Sync
<1>4. cron' \in Sync /\ cron'.before = cron.before /\ cron'.found = cron.found
  BY <1>1, <1>3 DEF Sync
<1>5. Known' = Known
  BY <1>4 DEF Known
<1> QED BY <1>4, <1>5 DEF CronInv, Importable

LEMMA CommitKeeps ==
  ASSUME PortalInv, NEW r \in Resources, CommitRecord(r)
  PROVE  PortalInv'
<1>1. PortalTypeOK /\ NoOrphan /\ RunInv /\ CronInv /\ PushInv
  BY DEF PortalInv, NoOrphan
<1>2. /\ run[r] \in PortalFrame /\ run[r].pc = "commit" /\ run[r].body \in Payloads /\ run[r] # Idle
      /\ run[r].out \in Shown
  <2>1. run[r] \in PortalFrame /\ run[r].pc = "commit"
    BY <1>1, PortalFacts DEF CommitRecord
  <2> QED BY <1>1, <2>1, IdleType DEF RunInv, PortalFrame
<1>3. /\ form' \in [Resources -> Payloads \cup {None}] /\ form'[r] = run[r].body
      /\ \A x \in Resources \ {r} : form'[x] = form[x]
  BY <1>1, <1>2 DEF CommitRecord, PortalTypeOK
<1>4. Recorded' = Recorded \cup {r}
  BY <1>2, <1>3, PortalFacts, <1>1 DEF Recorded
<1>5. /\ run' \in [Resources -> PortalFrame] /\ run'[r] = Idle
      /\ \A x \in Resources \ {r} : run'[x] = run[x]
  BY <1>1, IdleType DEF CommitRecord, PortalTypeOK
<1>6. twin \subseteq twin' /\ twin' \subseteq twin \cup {r}
  BY DEF CommitRecord
<1>7. cron' \in Sync /\ CronInv'
  BY <1>1, TouchKeeps DEF CommitRecord
<1>8. PortalTypeOK'
  <2>1. shown' \in [Resources -> Shown]
    BY <1>1, <1>2 DEF CommitRecord, PortalTypeOK
  <2>2. twin' \subseteq Recorded'
    BY <1>1, <1>4, <1>6 DEF PortalTypeOK
  <2> QED BY <1>1, <1>3, <1>5, <1>7, <2>1, <2>2 DEF CommitRecord, PortalTypeOK
<1>9. NoOrphan'
  <2>1. Parent[r] # None => Parent[r] \in Recorded
    BY <1>1, <1>2 DEF RunInv, NoOrphan
  <2> QED BY <1>1, <1>4, <1>8, <2>1 DEF NoOrphan
<1>10. RunInv'
  BY <1>1, <1>4, <1>5, IdleType DEF RunInv
<1>11. PushInv'
  <2> SUFFICES ASSUME NEW x \in pushed', Alone(x)
               PROVE  /\ run'[x] = Idle =>
                           /\ x \in Recorded'
                           /\ x \notin twin' => repo'[PathOf[x]] = ManifestOf(x, form'[x])
                      /\ run'[x].pc \in {"refresh", "commit"} =>
                           repo'[PathOf[x]] = ManifestOf(x, run'[x].body)
    BY DEF PushInv, Alone, ManifestOf
  <2>1. x \in pushed /\ x \in Resources /\ repo' = repo
    BY <1>1 DEF CommitRecord, PortalTypeOK
  <2>2. CASE x = r
    BY <1>1, <1>2, <1>3, <1>4, <1>5, <2>1, <2>2, IdleType DEF PushInv
  <2>3. CASE x # r
    BY <1>1, <1>3, <1>4, <1>5, <1>6, <2>1, <2>3 DEF PushInv
  <2> QED BY <2>2, <2>3
<1> QED BY <1>7, <1>9, <1>10, <1>11 DEF PortalInv

LEMMA DeleteRowKeeps ==
  ASSUME PortalInv, NEW r \in Resources, DeleteRow(r)
  PROVE  PortalInv'
<1>1. PortalTypeOK /\ NoOrphan /\ RunInv /\ CronInv /\ PushInv
  BY DEF PortalInv, NoOrphan
<1>2. PICK D, gone : D = Descendants(r) /\ gone = D \ (IF r \in twin THEN {r} ELSE {})
  OBVIOUS
<1>3. /\ r \in D /\ D \subseteq Resources /\ Parent[r] \notin D
      /\ \A x \in Resources : Parent[x] \in D => x \in D
      /\ gone \subseteq D /\ (r \in twin => gone = D \ {r}) /\ (r \notin twin => gone = D)
  BY <1>2, DescendantsClosed
<1>4. /\ run[r].pc = "unlink"
      /\ \A x \in D \ {r} : run[x] = Idle
      /\ form' = [x \in Resources |-> IF x \in gone THEN None ELSE form[x]]
      /\ shown' = [x \in Resources |-> IF x \in gone THEN "pending" ELSE shown[x]]
      /\ twin' = twin \ D /\ pushed' = pushed \ D
      /\ run' = [run EXCEPT ![r] = Idle]
      /\ cron' = Touch(D)
      /\ UNCHANGED <<repo, cluster, pushes, ops, faults>>
  BY <1>2 DEF DeleteRow
<1>5. Recorded' = Recorded \ gone
  BY <1>4 DEF Recorded
<1>6. /\ run' \in [Resources -> PortalFrame] /\ run'[r] = Idle
      /\ \A x \in Resources \ {r} : run'[x] = run[x]
  BY <1>1, <1>4, IdleType DEF PortalTypeOK
<1>7. cron' \in Sync /\ CronInv'
  BY <1>1, <1>4, TouchKeeps
<1>8. PortalTypeOK'
  <2>1. form' \in [Resources -> Payloads \cup {None}] /\ shown' \in [Resources -> Shown]
    BY <1>1, <1>4 DEF PortalTypeOK, Shown
  <2>2. twin' \subseteq Recorded' /\ pushed' \subseteq Resources
    BY <1>1, <1>3, <1>4, <1>5 DEF PortalTypeOK
  <2> QED BY <1>1, <1>4, <1>6, <1>7, <2>1, <2>2 DEF PortalTypeOK
<1>9. NoOrphan'
  <2>1. ASSUME NEW x \in Recorded', Parent[x] # None
        PROVE  Parent[x] \in Recorded'
    <3>1. x \in Recorded /\ x \in Resources /\ Parent[x] \in Recorded
      BY <1>1, <1>5, <2>1 DEF NoOrphan, Recorded
    <3>2. Parent[x] \notin gone
      <4>1. SUFFICES ASSUME Parent[x] \in D
                     PROVE  Parent[x] \notin gone
        BY <1>3
      <4>2. x \in D /\ x \notin gone
        BY <1>3, <1>5, <2>1, <3>1, <4>1
      <4>3. x = r
        BY <1>3, <4>2
      <4> QED BY <1>3, <4>1, <4>3
    <3> QED BY <1>5, <3>1, <3>2
  <2> QED BY <1>8, <2>1 DEF NoOrphan
<1>10. RunInv'
  <2> SUFFICES ASSUME NEW x \in Resources, x # r
               PROVE  /\ run[x].pc = "idle" => run[x] = Idle
                      /\ run[x].pc \in {"put", "refresh", "commit"} => run[x].body \in Payloads
                      /\ run[x] # Idle /\ ~run[x].new => x \in Recorded'
                      /\ run[x].new /\ Parent[x] # None => Parent[x] \in Recorded'
    BY <1>6, IdleType DEF RunInv
  <2>1. /\ run[x].pc = "idle" => run[x] = Idle
        /\ run[x].pc \in {"put", "refresh", "commit"} => run[x].body \in Payloads
        /\ run[x] # Idle /\ ~run[x].new => x \in Recorded
        /\ run[x].new /\ Parent[x] # None => Parent[x] \in Recorded
    BY <1>1 DEF RunInv
  <2>2. CASE x \in D
    BY <1>4, <2>1, <2>2, IdleType
  <2>3. CASE x \notin D
    BY <1>3, <1>5, <2>1, <2>3
  <2> QED BY <2>2, <2>3
<1>11. PushInv'
  <2> SUFFICES ASSUME NEW x \in pushed', Alone(x)
               PROVE  /\ run'[x] = Idle =>
                           /\ x \in Recorded'
                           /\ x \notin twin' => repo'[PathOf[x]] = ManifestOf(x, form'[x])
                      /\ run'[x].pc \in {"refresh", "commit"} =>
                           repo'[PathOf[x]] = ManifestOf(x, run'[x].body)
    BY DEF PushInv, Alone, ManifestOf
  <2>1. x \in pushed /\ x \in Resources /\ x \notin D /\ x # r /\ x \notin gone
    BY <1>1, <1>3, <1>4 DEF PortalTypeOK
  <2>2. run'[x] = run[x] /\ form'[x] = form[x] /\ (x \notin twin' => x \notin twin)
        /\ repo' = repo /\ (x \in Recorded => x \in Recorded')
    BY <1>4, <1>5, <1>6, <2>1
  <2> QED BY <1>1, <2>1, <2>2 DEF PushInv
<1> QED BY <1>7, <1>9, <1>10, <1>11 DEF PortalInv

----------------------------------------------------------------------------
(* The way back                                                            *)

LEMMA ShowKeeps ==
  ASSUME PortalTypeOK, CronInv, NEW r \in Resources, NEW s \in Shown,
         Show(r, s)
  PROVE  shown' \in [Resources -> Shown] /\ cron' \in Sync /\ CronInv'
<1>1. cron' = Touch({r}) /\ shown' = [shown EXCEPT ![r] = s]
  BY DEF Show
<1> QED BY <1>1, TouchKeeps DEF PortalTypeOK

LEMMA ActionSyncKeeps ==
  ASSUME PortalInv, NEW r \in Resources, ActionSync(r)
  PROVE  PortalInv'
<1>1. PortalTypeOK /\ CronInv
  BY DEF PortalInv, NoOrphan
<1>2. /\ Show(r, Refreshed(r)) /\ Refreshed(r) \in Shown /\ ops < MaxOps /\ ops' = ops + 1
      /\ UNCHANGED <<form, twin, run, repo, cluster, pushes, pushed, faults>>
  BY <1>1, ShownType DEF ActionSync
<1>3. shown' \in [Resources -> Shown] /\ cron' \in Sync /\ CronInv'
  BY <1>1, <1>2, ShowKeeps
<1>4. ops' \in 0 .. MaxOps
  BY <1>1, <1>2, PortalFacts DEF PortalTypeOK
<1>5. PortalTypeOK'
  BY <1>1, <1>2, <1>3, <1>4 DEF PortalTypeOK, Recorded
<1> QED BY <1>2, <1>3, <1>5, RecordsGrow

LEMMA IngestKeeps ==
  ASSUME PortalInv, NEW obj \in pushes, Ingest(obj)
  PROVE  PortalInv'
<1>1. PortalTypeOK /\ CronInv
  BY DEF PortalInv, NoOrphan
<1>2. PICK r : r = obj.of
  OBVIOUS
<1>3. obj \in CR /\ r \in Resources /\ obj.body \in Payloads /\ ShownOf(obj) \in Shown
  BY <1>1, <1>2, ShownType DEF PortalTypeOK, CR
<1>4. /\ pushes' = pushes \ {obj}
      /\ UNCHANGED <<twin, run, repo, cluster, pushed, ops, faults>>
      /\ \/ r \in Recorded /\ Show(r, ShownOf(obj)) /\ UNCHANGED form
         \/ /\ r \notin Recorded /\ Importable(r, Recorded) /\ Show(r, ShownOf(obj))
            /\ form' = [form EXCEPT ![r] = obj.body]
         \/ UNCHANGED <<form, shown, cron>>
  BY <1>2 DEF Ingest, Found, Imported
<1>5. shown' \in [Resources -> Shown] /\ cron' \in Sync /\ CronInv'
  <2>1. CASE Show(r, ShownOf(obj))
    BY <1>1, <1>3, <2>1, ShowKeeps
  <2>2. CASE UNCHANGED <<form, shown, cron>>
    BY <1>1, <2>2 DEF PortalTypeOK, CronInv, Known, Importable
  <2> QED BY <1>4, <2>1, <2>2
<1>6. /\ form' \in [Resources -> Payloads \cup {None}] /\ Recorded \subseteq Recorded'
      /\ \A x \in Recorded : form'[x] = form[x]
      /\ \A x \in Resources : form'[x] # None /\ form[x] = None /\ Parent[x] # None =>
           Parent[x] \in Recorded'
  <2>1. CASE UNCHANGED form
    BY <1>1, <2>1 DEF PortalTypeOK, Recorded
  <2>2. CASE /\ r \notin Recorded /\ Importable(r, Recorded)
             /\ form' = [form EXCEPT ![r] = obj.body]
    <3>1. /\ form' \in [Resources -> Payloads \cup {None}] /\ form'[r] = obj.body
          /\ \A x \in Resources \ {r} : form'[x] = form[x]
      BY <1>1, <1>3, <2>2 DEF PortalTypeOK
    <3>2. Recorded' = Recorded \cup {r}
      BY <1>3, <3>1, PortalFacts, <1>1 DEF Recorded
    <3> QED BY <2>2, <3>1, <3>2 DEF Importable, Recorded
  <2> QED BY <1>4, <2>1, <2>2
<1>7. PortalTypeOK'
  BY <1>1, <1>4, <1>5, <1>6 DEF PortalTypeOK
<1>8. twin \subseteq twin' /\ UNCHANGED <<run, repo, pushed>>
  BY <1>4
<1> QED BY <1>5, <1>6, <1>7, <1>8, RecordsGrow

LEMMA CronStartKeeps ==
  ASSUME PortalInv, CronStart
  PROVE  PortalInv'
<1>1. PortalTypeOK /\ CronInv
  BY DEF PortalInv, NoOrphan
<1>2. UNCHANGED <<form, shown, twin, run, repo, cluster, pushes, pushed, ops, faults>>
  BY DEF CronStart
<1>3. cron' \in Sync /\ cron'.found = {}
  <2>1. Recorded \subseteq Resources /\ 1 \in 0 .. Levels + 1
    BY <1>1, PortalFacts
  <2>2. cron' = [Resting EXCEPT !.level = 1, !.before = Recorded]
    BY DEF CronStart
  <2>3. cron' = [level |-> 1, before |-> Recorded, found |-> {}, touched |-> {}]
    BY <2>2 DEF Resting
  <2> QED BY <2>1, <2>3 DEF Sync
<1>4. PortalTypeOK' /\ CronInv'
  BY <1>1, <1>2, <1>3 DEF PortalTypeOK, CronInv, Recorded
<1> QED BY <1>2, <1>4, RecordsGrow

LEMMA CronListKeeps ==
  ASSUME PortalInv, CronList
  PROVE  PortalInv'
<1>1. PortalTypeOK /\ CronInv
  BY DEF PortalInv, NoOrphan
<1>2. UNCHANGED <<form, shown, twin, run, repo, cluster, pushes, pushed, ops>>
  BY DEF CronList
<1>3. PICK found :
        /\ found \in SUBSET {obj \in Listed : Found(obj, Known) \/ Importable(obj.of, Known)}
        /\ cron' = [cron EXCEPT !.level = @ + 1, !.found = @ \cup found]
  <2>1. \/ cron' = [cron EXCEPT !.level = @ + 1, !.found = @ \cup
                      {obj \in Listed : /\ LevelOf[obj.of] = cron.level
                                        /\ Found(obj, Known) \/ Importable(obj.of, Known)}]
        \/ cron' = [cron EXCEPT !.level = @ + 1]
    BY DEF CronList
  <2>2. CASE cron' = [cron EXCEPT !.level = @ + 1]
    <3>1. cron' = [cron EXCEPT !.level = @ + 1, !.found = @ \cup {}]
      BY <1>1, <2>2 DEF PortalTypeOK, Sync
    <3> QED BY <3>1
  <2> QED BY <2>1, <2>2
<1>4. PICK all : all = cron.found \cup found
  OBVIOUS
<1>5. /\ cron' \in Sync /\ cron'.before = cron.before /\ cron'.found = all
  <2>1. cron \in Sync /\ cron.level \in 1 .. Levels /\ Levels \in Nat
    BY <1>1, PortalFacts DEF CronList, PortalTypeOK
  <2>2. cron.level + 1 \in 0 .. Levels + 1
    BY <2>1
  <2>3. all \subseteq CR
    BY <1>1, <1>3, <1>4, <2>1 DEF Listed, PortalTypeOK, Sync
  <2>4. cron' = [cron EXCEPT !.level = cron.level + 1, !.found = all]
    BY <1>3, <1>4, <2>1 DEF Sync
  <2> QED BY <2>1, <2>2, <2>3, <2>4 DEF Sync
<1>6. CronInv'
  <2>1. Known \subseteq Known'
    BY <1>4, <1>5 DEF Known
  <2>2. ASSUME NEW obj \in cron'.found
        PROVE  obj.of \in cron'.before \/ Importable(obj.of, Known)
    <3>1. CASE obj \in cron.found
      BY <1>1, <1>5, <3>1 DEF CronInv
    <3>2. CASE obj \in found
      <4>1. obj.of \in Known \/ Importable(obj.of, Known)
        BY <1>3, <3>2 DEF Found
      <4>2. obj.of \in Known => obj.of \in cron.before \/ Importable(obj.of, Known)
        BY <1>1 DEF Known, CronInv
      <4> QED BY <1>5, <4>1, <4>2
    <3> QED BY <1>4, <1>5, <2>2, <3>1, <3>2
  <2> QED BY <2>1, <2>2 DEF CronInv, Importable
<1>7. PortalTypeOK'
  <2>1. faults' \in 0 .. MaxFaults
    BY <1>1, PortalFacts DEF CronList, PortalTypeOK
  <2> QED BY <1>1, <1>2, <1>5, <2>1 DEF PortalTypeOK, Recorded
<1> QED BY <1>2, <1>6, <1>7, RecordsGrow

LEMMA CronCommitKeeps ==
  ASSUME PortalInv, CronCommit
  PROVE  PortalInv'
<1>1. PortalTypeOK /\ CronInv
  BY DEF PortalInv, NoOrphan
<1>2. PICK made : made = {obj.of : obj \in cron.found} \ cron.before
  OBVIOUS
<1>3. UNCHANGED <<run, repo, cluster, pushes, pushed, ops, faults>> /\ cron' = Resting
  BY DEF CronCommit
<1>4. cron' \in Sync /\ CronInv'
  <2>1. Resting \in Sync /\ Resting.found = {}
    <3>1. 0 \in 0 .. Levels + 1
      BY <1>1, PortalFacts
    <3> QED BY <3>1 DEF Resting, Sync
  <2> QED BY <1>3, <2>1 DEF CronInv
<1>5. CASE UNCHANGED <<form, shown, twin>>
  <2>1. PortalTypeOK'
    BY <1>1, <1>3, <1>4, <1>5 DEF PortalTypeOK, Recorded
  <2> QED BY <1>3, <1>4, <1>5, <2>1, RecordsGrow
<1>6. CASE /\ \A r \in made : Parent[r] \in cron.before => Parent[r] \in Recorded
           /\ form' = [r \in Resources |->
                IF \E obj \in cron.found : obj.of = r /\ (obj.of \in made /\ obj.of \notin Recorded)
                THEN Imported(CHOOSE obj \in cron.found : obj.of = r) ELSE form[r]]
           /\ shown' = [r \in Resources |->
                IF \E obj \in cron.found :
                     obj.of = r /\ ((obj.of \in made /\ obj.of \notin Recorded) \/ r \notin made)
                THEN ShownOf(CHOOSE obj \in cron.found : obj.of = r) ELSE shown[r]]
           /\ twin' = twin \cup (made \cap Recorded)
  <2>1. ASSUME NEW r, \E obj \in cron.found : obj.of = r
        PROVE  /\ Imported(CHOOSE obj \in cron.found : obj.of = r) \in Payloads
               /\ ShownOf(CHOOSE obj \in cron.found : obj.of = r) \in Shown
    <3>1. PICK obj : obj = CHOOSE x \in cron.found : x.of = r
      OBVIOUS
    <3>2. obj \in CR
      BY <1>1, <2>1, <3>1 DEF PortalTypeOK, Sync
    <3> QED BY <1>1, <3>1, <3>2, ShownType DEF Imported, CR
  <2>2. made \subseteq Resources /\ \A r \in made : \E obj \in cron.found : obj.of = r
    <3>1. \A obj \in cron.found : obj.of \in Resources
      BY <1>1 DEF PortalTypeOK, Sync, CR
    <3> QED BY <1>2, <3>1
  <2>3. \A r \in Resources : form'[r] = IF r \in made /\ r \notin Recorded
                                THEN Imported(CHOOSE obj \in cron.found : obj.of = r)
                                ELSE form[r]
    BY <1>6, <2>2
  <2>4. form' \in [Resources -> Payloads \cup {None}]
    BY <1>1, <1>6, <2>1 DEF PortalTypeOK
  <2>5. shown' \in [Resources -> Shown]
    BY <1>1, <1>6, <2>1 DEF PortalTypeOK
  <2>6. Recorded' = Recorded \cup made
    <3>1. \A r \in made : Imported(CHOOSE obj \in cron.found : obj.of = r) # None
      BY <1>1, <2>1, <2>2, PortalFacts
    <3>2. \A r \in Resources :
            form'[r] # None <=> form[r] # None \/ (r \in made /\ r \notin Recorded)
      BY <2>3, <3>1 DEF Recorded
    <3> QED BY <2>2, <3>2 DEF Recorded
  <2>7. PortalTypeOK'
    BY <1>1, <1>3, <1>4, <1>6, <2>4, <2>5, <2>6 DEF PortalTypeOK
  <2>8. ASSUME NEW r \in Resources, form'[r] # None, form[r] = None, Parent[r] # None
        PROVE  Parent[r] \in Recorded'
    <3>1. r \in made
      BY <2>3, <2>8
    <3>2. Parent[r] \in Known
      BY <1>1, <1>2, <2>2, <2>8, <3>1 DEF CronInv, Importable
    <3> QED BY <1>2, <1>6, <2>6, <3>1, <3>2 DEF Known
  <2>9. \A r \in Recorded : form'[r] = form[r]
    BY <2>3 DEF Recorded
  <2>10. twin \subseteq twin'
    BY <1>6
  <2> QED BY <1>3, <1>4, <2>7, <2>8, <2>9, <2>10, RecordsGrow
<1>7. \/ UNCHANGED <<form, shown, twin>>
      \/ /\ \A r \in made : Parent[r] \in cron.before => Parent[r] \in Recorded
         /\ form' = [r \in Resources |->
              IF \E obj \in cron.found : obj.of = r /\ (obj.of \in made /\ obj.of \notin Recorded)
              THEN Imported(CHOOSE obj \in cron.found : obj.of = r) ELSE form[r]]
         /\ shown' = [r \in Resources |->
              IF \E obj \in cron.found :
                   obj.of = r /\ ((obj.of \in made /\ obj.of \notin Recorded) \/ r \notin made)
              THEN ShownOf(CHOOSE obj \in cron.found : obj.of = r) ELSE shown[r]]
         /\ twin' = twin \cup (made \cap Recorded)
  BY <1>2 DEF CronCommit
<1> QED BY <1>5, <1>6, <1>7

----------------------------------------------------------------------------
(* The cluster, and the specification                                      *)

LEMMA ClusterKeeps ==
  ASSUME PortalInv,
         cluster' \in [RepoPaths -> CR \cup {None}], pushes' \subseteq CR,
         faults' \in 0 .. MaxFaults,
         UNCHANGED <<form, shown, twin, run, repo, cron, pushed, ops>>
  PROVE  PortalInv'
<1>1. PortalTypeOK /\ CronInv
  BY DEF PortalInv, NoOrphan
<1>2. PortalTypeOK' /\ CronInv'
  BY <1>1 DEF PortalTypeOK, Recorded, CronInv, Known, Importable
<1> QED BY <1>2, RecordsGrow

LEMMA ApplyKeeps ==
  ASSUME PortalInv, NEW p \in RepoPaths, ApplyManifest(p)
  PROVE  PortalInv'
<1>1. PortalTypeOK
  BY DEF PortalInv, NoOrphan
<1>2. PICK ready : ready = IF cluster[p] = None THEN "" ELSE cluster[p].ready
  OBVIOUS
<1>3. /\ ready \in {"", "True", "False"} /\ repo[p] \in Manifest \cup {None}
      /\ cluster \in [RepoPaths -> CR \cup {None}]
  BY <1>1, <1>2 DEF PortalTypeOK, CR
<1>4. cluster' \in [RepoPaths -> CR \cup {None}]
  <2>1. cluster' = [cluster EXCEPT ![p] =
           IF repo[p] = None THEN None
           ELSE [path |-> p, of |-> repo[p].of, body |-> repo[p].body, ready |-> ready]]
    BY <1>2, <1>3 DEF ApplyManifest
  <2>2. repo[p] # None =>
           [path |-> p, of |-> repo[p].of, body |-> repo[p].body, ready |-> ready] \in CR
    BY <1>3 DEF Manifest, CR
  <2> QED BY <1>3, <2>1, <2>2
<1>5. pushes' \subseteq CR /\ faults' \in 0 .. MaxFaults
  BY <1>1 DEF ApplyManifest, PortalTypeOK
<1> QED BY <1>4, <1>5, ClusterKeeps DEF ApplyManifest

LEMMA ReconciledKeeps ==
  ASSUME PortalInv, NEW p \in RepoPaths, Reconciled(p)
  PROVE  PortalInv'
<1>1. PortalTypeOK
  BY DEF PortalInv, NoOrphan
<1>2. PICK s \in Outcomes[p] :
        /\ cluster' = [cluster EXCEPT ![p] = [cluster[p] EXCEPT !.ready = s]]
        /\ \/ pushes' = pushes \cup {[cluster[p] EXCEPT !.ready = s]} /\ UNCHANGED faults
           \/ /\ faults < MaxFaults /\ faults' = faults + 1
              /\ pushes' \in {pushes, pushes \cup {[cluster[p] EXCEPT !.ready = s]}}
  BY DEF Reconciled
<1>3. [cluster[p] EXCEPT !.ready = s] \in CR
  <2>1. s \in {"True", "False"} /\ cluster[p] \in CR
    BY <1>1, PortalAssumption DEF PortalTypeOK, Reconciled
  <2> QED BY <2>1 DEF CR
<1>4. cluster' \in [RepoPaths -> CR \cup {None}] /\ pushes' \subseteq CR
  BY <1>1, <1>2, <1>3 DEF PortalTypeOK
<1>5. faults' \in 0 .. MaxFaults
  BY <1>1, <1>2, PortalFacts DEF PortalTypeOK
<1> QED BY <1>4, <1>5, ClusterKeeps DEF Reconciled

LEMMA PortalInitially ==
  ASSUME PortalInit
  PROVE  PortalInv
<1>1. Recorded = {} /\ \A r \in Resources : run[r] = Idle
  BY DEF PortalInit, Recorded
<1>2. Resting \in Sync /\ Resting.found = {}
  <2>1. 0 \in 0 .. Levels + 1
    BY PortalAssumption
  <2> QED BY <2>1 DEF Resting, Sync
<1>3. PortalTypeOK
  <2>1. 0 \in 0 .. MaxOps /\ 0 \in 0 .. MaxFaults
    BY PortalAssumption
  <2>2. run \in [Resources -> PortalFrame]
    BY IdleType DEF PortalInit
  <2>3. repo \in [RepoPaths -> Manifest \cup {None}]
    BY PortalAssumption DEF PortalInit
  <2> QED BY <1>1, <1>2, <2>1, <2>2, <2>3 DEF PortalInit, PortalTypeOK, Shown
<1>4. NoOrphan
  BY <1>1, <1>3 DEF NoOrphan
<1>5. RunInv
  BY <1>1, IdleType DEF RunInv
<1>6. CronInv /\ PushInv
  BY <1>2 DEF PortalInit, CronInv, PushInv
<1> QED BY <1>4, <1>5, <1>6 DEF PortalInv

LEMMA PortalKept ==
  ASSUME PortalInv, [PortalNext]_portalVars
  PROVE  PortalInv'
<1>1. ASSUME NEW r \in Resources,
             \/ \E b \in Forms[r] : Create(r, b) \/ Write(r, b)
             \/ Unlink(r) \/ ActionSync(r) \/ Request(r)
      PROVE  PortalInv'
  BY <1>1, CreateKeeps, WriteKeeps, UnlinkKeeps, ActionSyncKeeps, PutKeeps, RefreshKeeps,
     CommitKeeps, DeleteCallKeeps, DeleteRowKeeps DEF Request
<1>2. ASSUME NEW obj \in pushes, Ingest(obj)
      PROVE  PortalInv'
  BY <1>2, IngestKeeps
<1>3. ASSUME CronStart \/ CronList \/ CronCommit
      PROVE  PortalInv'
  BY <1>3, CronStartKeeps, CronListKeeps, CronCommitKeeps
<1>4. ASSUME NEW p \in RepoPaths, ApplyManifest(p) \/ Reconciled(p)
      PROVE  PortalInv'
  BY <1>4, ApplyKeeps, ReconciledKeeps
<1>5. ASSUME UNCHANGED portalVars
      PROVE  PortalInv'
  <2>1. PortalTypeOK /\ UNCHANGED <<form, shown, twin, run, repo, cluster, pushes, cron, pushed,
                                    ops, faults>>
    BY <1>5 DEF portalVars, PortalInv, NoOrphan
  <2>2. /\ cluster' \in [RepoPaths -> CR \cup {None}] /\ pushes' \subseteq CR
        /\ faults' \in 0 .. MaxFaults
    BY <2>1 DEF PortalTypeOK
  <2> QED BY <2>1, <2>2, ClusterKeeps
<1> QED BY <1>1, <1>2, <1>3, <1>4, <1>5 DEF PortalNext

\* The invariant is inductive: users' requests, status pushes, the sync and the
\* cluster keep it.
THEOREM PortalInvariant == PortalSpec => []PortalInv
<1>1. PortalInit => PortalInv
  BY PortalInitially
<1>2. PortalInv /\ [PortalNext]_portalVars => PortalInv'
  BY PortalKept
<1> QED BY <1>1, <1>2, PTL DEF PortalSpec

\* No record refers to one that is not there, whether users made or deleted it,
\* a status push brought it or the sync did ("processed in dependency order").
THEOREM PortalNoOrphan == PortalSpec => []NoOrphan
<1>1. PortalInv => NoOrphan
  BY DEF PortalInv
<1> QED BY <1>1, PortalInvariant, PTL

\* OwnManifest of one resource.
OwnManifestOf(r) ==
    r \in (Recorded \cap pushed) \ twin /\ run[r] = Idle =>
        repo[PathOf[r]] = ManifestOf(r, form[r])

\* A resource that has its file for itself has, once it was pushed, its own
\* manifest there, whatever files others share.
THEOREM PortalOwnManifestAlone ==
  ASSUME NEW r \in Resources, Alone(r)
  PROVE  PortalSpec => []OwnManifestOf(r)
<1>1. PortalInv => OwnManifestOf(r)
  BY DEF PortalInv, PushInv, OwnManifestOf
<1> QED BY <1>1, PortalInvariant, PTL

\* So OwnManifest holds where no two resources have one file; where two have,
\* the later push overwrites the other's manifest.
THEOREM PortalOwnManifest ==
  ASSUME \A r, s \in Resources : PathOf[r] = PathOf[s] => r = s
  PROVE  PortalSpec => []OwnManifest
<1>1. PortalInv => OwnManifest
  BY DEF PortalInv, PushInv, OwnManifest, Alone, Recorded
<1> QED BY <1>1, PortalInvariant, PTL
=============================================================================
