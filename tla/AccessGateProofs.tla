-------------------------- MODULE AccessGateProofs --------------------------
(***************************************************************************)
(* Proofs about AccessGate, for any threads, users, applications and slugs *)
(* and any number of failed calls.                                         *)
(***************************************************************************)
EXTENDS AccessGate, TLAPS

USE DEF Ops, StepsOf, Steps

\* The frame of a request stays one whichever field is set.
LEMMA FrameFields ==
    ASSUME NEW f \in Frame
    PROVE  /\ \A x \in Steps : [f EXCEPT !.pc = x] \in Frame
           /\ \A x \in SUBSET Slugs : [f EXCEPT !.todo = x] \in Frame
           /\ \A x \in SUBSET Apps : [f EXCEPT !.apps = x] \in Frame
           /\ \A x \in SUBSET Apps : [f EXCEPT !.left = x] \in Frame
           /\ \A x \in Apps \cup {None} : [f EXCEPT !.app = x] \in Frame
           /\ \A x \in SUBSET Bindings : [f EXCEPT !.doomed = x] \in Frame
           /\ \A x \in BOOLEAN : [f EXCEPT !.firm = x] \in Frame
  <1>1. \A x \in Steps : [f EXCEPT !.pc = x] \in Frame
    BY DEF Frame
  <1>2. \A x \in SUBSET Slugs : [f EXCEPT !.todo = x] \in Frame
    BY DEF Frame
  <1>3. \A x \in SUBSET Apps : [f EXCEPT !.apps = x] \in Frame
    BY DEF Frame
  <1>4. \A x \in SUBSET Apps : [f EXCEPT !.left = x] \in Frame
    BY DEF Frame
  <1>5. \A x \in Apps \cup {None} : [f EXCEPT !.app = x] \in Frame
    BY DEF Frame
  <1>6. \A x \in SUBSET Bindings : [f EXCEPT !.doomed = x] \in Frame
    BY DEF Frame
  <1>7. \A x \in BOOLEAN : [f EXCEPT !.firm = x] \in Frame
    BY Zenon DEF Frame
  <1> QED  BY <1>1, <1>2, <1>3, <1>4, <1>5, <1>6, <1>7

LEMMA RestIsFrame == Rest \in Frame
  BY DEF Rest, Frame

LEMMA TypeInit == Init => TypeOK
  <1> SUFFICES ASSUME Init PROVE TypeOK
    OBVIOUS
  <1>1. frame \in [Requests -> Frame] /\ \A r \in Requests : ~Busy(r)
    BY RestIsFrame DEF Init, Busy, Rest
  <1>2. group \in BOOLEAN
    BY Zenon DEF Init
  <1>3. /\ members \in SUBSET Users /\ bindings \in SUBSET Bindings
        /\ live \in SUBSET Apps /\ past \in SUBSET Apps
        /\ emitted \in SUBSET Slugs
        /\ solo \in Solo \cup {None} /\ granted \in SUBSET Users
    BY DEF Init
  <1>4. faults \in 0..MaxFaults
    BY AccessAssumption DEF Init, AccessAssumption
  <1> QED  BY <1>1, <1>2, <1>3, <1>4 DEF TypeOK

\* A step of one request that leaves the frame of a request: the rest of the
\* type follows.
LEMMA FrameStep ==
    ASSUME TypeOK, NEW r \in Requests, NEW f \in Frame,
           frame' = [frame EXCEPT ![r] = f],
           f.pc # "idle" => f.user \in Users /\ f.pc \in StepsOf[f.op]
    PROVE  /\ frame' \in [Requests -> Frame]
           /\ frame'[r] = f
           /\ \A q \in Requests \ {r} : frame'[q] = frame[q]
           /\ \A q \in Requests :
                 Busy(q)' => /\ frame'[q].user \in Users
                             /\ frame'[q].pc \in StepsOf[frame'[q].op]
  <1>1. /\ frame' \in [Requests -> Frame] /\ frame'[r] = f
        /\ \A q \in Requests \ {r} : frame'[q] = frame[q]
    BY DEF TypeOK
  <1>2. \A q \in Requests : Busy(q)' => /\ frame'[q].user \in Users
                                        /\ frame'[q].pc \in StepsOf[frame'[q].op]
    <2> SUFFICES ASSUME NEW q \in Requests, Busy(q)'
                 PROVE  /\ frame'[q].user \in Users
                        /\ frame'[q].pc \in StepsOf[frame'[q].op]
      OBVIOUS
    <2>1. CASE q = r  BY <2>1, <1>1 DEF Busy
    <2>2. CASE q # r  BY <2>2, <1>1 DEF Busy, TypeOK
    <2> QED  BY <2>1, <2>2
  <1> QED  BY <1>1, <1>2

LEMMA RestStep ==
    ASSUME TypeOK, NEW r \in Requests, frame' = [frame EXCEPT ![r] = Rest]
    PROVE  /\ frame' \in [Requests -> Frame]
           /\ frame'[r] = Rest
           /\ \A q \in Requests \ {r} : frame'[q] = frame[q]
           /\ \A q \in Requests :
                 Busy(q)' => /\ frame'[q].user \in Users
                             /\ frame'[q].pc \in StepsOf[frame'[q].op]
  <1>1. Rest.pc = "idle"  BY DEF Rest
  <1> QED  BY <1>1, RestIsFrame, FrameStep

\* What the steps of one request do to its frame: SetPc and the like are
\* frames, with these fields.
LEMMA FieldValues ==
    ASSUME NEW f \in Frame
    PROVE  /\ \A x : LET g == [f EXCEPT !.pc = x] IN
                 /\ g.pc = x /\ g.op = f.op /\ g.user = f.user /\ g.todo = f.todo
                 /\ g.apps = f.apps /\ g.left = f.left /\ g.app = f.app
                 /\ g.doomed = f.doomed /\ g.firm = f.firm
           /\ \A x : LET g == [f EXCEPT !.todo = x] IN
                 /\ g.pc = f.pc /\ g.op = f.op /\ g.user = f.user /\ g.todo = x
                 /\ g.apps = f.apps /\ g.left = f.left /\ g.app = f.app
                 /\ g.doomed = f.doomed /\ g.firm = f.firm
           /\ \A x : LET g == [f EXCEPT !.apps = x] IN
                 /\ g.pc = f.pc /\ g.op = f.op /\ g.user = f.user /\ g.todo = f.todo
                 /\ g.apps = x /\ g.left = f.left /\ g.app = f.app
                 /\ g.doomed = f.doomed /\ g.firm = f.firm
           /\ \A x : LET g == [f EXCEPT !.left = x] IN
                 /\ g.pc = f.pc /\ g.op = f.op /\ g.user = f.user /\ g.todo = f.todo
                 /\ g.apps = f.apps /\ g.left = x /\ g.app = f.app
                 /\ g.doomed = f.doomed /\ g.firm = f.firm
           /\ \A x : LET g == [f EXCEPT !.app = x] IN
                 /\ g.pc = f.pc /\ g.op = f.op /\ g.user = f.user /\ g.todo = f.todo
                 /\ g.apps = f.apps /\ g.left = f.left /\ g.app = x
                 /\ g.doomed = f.doomed /\ g.firm = f.firm
           /\ \A x : LET g == [f EXCEPT !.doomed = x] IN
                 /\ g.pc = f.pc /\ g.op = f.op /\ g.user = f.user /\ g.todo = f.todo
                 /\ g.apps = f.apps /\ g.left = f.left /\ g.app = f.app
                 /\ g.doomed = x /\ g.firm = f.firm
           /\ \A x : LET g == [f EXCEPT !.firm = x] IN
                 /\ g.pc = f.pc /\ g.op = f.op /\ g.user = f.user /\ g.todo = f.todo
                 /\ g.apps = f.apps /\ g.left = f.left /\ g.app = f.app
                 /\ g.doomed = f.doomed /\ g.firm = x
  BY DEF Frame


\* The frame of r has these fields after the step, and no other has changed.
After(r, pc, todo, apps, left, app, doomed) ==
    /\ frame' \in [Requests -> Frame]
    /\ \A q \in Requests \ {r} : frame'[q] = frame[q]
    /\ \A q \in Requests : Busy(q)' => /\ frame'[q].user \in Users
                                       /\ frame'[q].pc \in StepsOf[frame'[q].op]
    /\ frame'[r].op = frame[r].op /\ frame'[r].user = frame[r].user
    /\ frame'[r].firm = frame[r].firm
    /\ frame'[r].pc = pc /\ frame'[r].todo = todo /\ frame'[r].apps = apps
    /\ frame'[r].left = left /\ frame'[r].app = app
    /\ frame'[r].doomed = doomed

LEMMA Moved ==
    ASSUME TypeOK, NEW r \in Requests, Busy(r), NEW f \in Frame,
           frame' = [frame EXCEPT ![r] = f],
           f.op = frame[r].op, f.user = frame[r].user, f.firm = frame[r].firm,
           f.pc \in StepsOf[frame[r].op]
    PROVE  After(r, f.pc, f.todo, f.apps, f.left, f.app, f.doomed)
  <1>1. f.user \in Users /\ f.pc \in StepsOf[f.op]
    BY DEF TypeOK
  <1>2. /\ frame' \in [Requests -> Frame]
        /\ frame'[r] = f
        /\ \A q \in Requests \ {r} : frame'[q] = frame[q]
        /\ \A q \in Requests : Busy(q)' => /\ frame'[q].user \in Users
                                           /\ frame'[q].pc \in StepsOf[frame'[q].op]
    BY <1>1, FrameStep
  <1> QED  BY <1>2 DEF After

LEMMA StepFacts ==
    ASSUME TypeOK, NEW r \in Requests
    PROVE  /\ frame[r].op \in Ops
           /\ Busy(r) => frame[r].user \in Users
           /\ frame[r].pc \in StepsOf["grant"] => frame[r].op = "grant"
           /\ frame[r].pc \in StepsOf["revoke"] => frame[r].op = "revoke"
  <1>1. frame[r] \in Frame  BY DEF TypeOK
  <1>2. frame[r].op \in Ops  BY <1>1 DEF Frame
  <1>3. /\ Busy(r) => frame[r].user \in Users
        /\ Busy(r) => frame[r].pc \in StepsOf[frame[r].op]
    BY DEF TypeOK
  <1>4. CASE frame[r].op = "grant"   BY <1>2, <1>3, <1>4 DEF Busy
  <1>5. CASE frame[r].op = "revoke"  BY <1>2, <1>3, <1>5 DEF Busy
  <1> QED  BY <1>2, <1>4, <1>5

LEMMA FindAppStep ==
    ASSUME TypeOK, NEW r \in Requests, FindApp(r)
    PROVE  \E slug \in frame[r].todo :
               After(r, frame[r].pc, frame[r].todo \ {slug},
                     frame[r].apps \cup Named(slug), frame[r].left,
                     frame[r].app, frame[r].doomed)
  <1>1. PICK slug \in frame[r].todo :
            frame' = [frame EXCEPT
                            ![r].todo = frame[r].todo \ {slug},
                            ![r].apps = frame[r].apps \cup Named(slug)]
    BY DEF FindApp
  <1> DEFINE f0 == frame[r]
             f1 == [f0 EXCEPT !.todo = frame[r].todo \ {slug}]
             f2 == [f1 EXCEPT !.apps = frame[r].apps \cup Named(slug)]
  <1>2. f0 \in Frame /\ Busy(r)
    BY DEF TypeOK, Busy, FindApp
  <1>3. f1 \in Frame
    <2>1. frame[r].todo \ {slug} \in SUBSET Slugs
      BY <1>1, <1>2 DEF TypeOK, Frame
    <2> QED  BY <2>1, <1>2, FrameFields
  <1>4. f2 \in Frame
    <2>1. frame[r].apps \cup Named(slug) \in SUBSET Apps
      BY <1>1, <1>2 DEF TypeOK, Frame, Named
    <2> QED  BY <2>1, <1>3, FrameFields
  <1>5. frame' = [frame EXCEPT ![r] = f2]
    BY <1>1, <1>2 DEF TypeOK
  <1>6. /\ f2.todo = frame[r].todo \ {slug}
        /\ f2.apps = frame[r].apps \cup Named(slug)
        /\ f2.pc = frame[r].pc /\ f2.left = frame[r].left
        /\ f2.app = frame[r].app /\ f2.doomed = frame[r].doomed
        /\ f2.op = frame[r].op /\ f2.user = frame[r].user
        /\ f2.firm = frame[r].firm
    BY <1>2, <1>3, <1>4, FieldValues
  <1>7. f2.pc \in StepsOf[frame[r].op]
    BY <1>1, <1>2, <1>6, StepFacts
       DEF FindApp
  <1> HIDE DEF f0, f1, f2
  <1> QED
    BY <1>1, <1>2, <1>4, <1>5, <1>6, <1>7, Moved

LEMMA FindGroupStep ==
    ASSUME TypeOK, NEW r \in Requests, FindGroup(r)
    PROVE  After(r, WithGroup(r), frame[r].todo, frame[r].apps, frame[r].left,
                 frame[r].app, frame[r].doomed)
  <1>1. frame' = [frame EXCEPT ![r].pc = WithGroup(r)]
    BY DEF FindGroup
  <1> DEFINE f0 == frame[r]
             f1 == [f0 EXCEPT !.pc = WithGroup(r)]
  <1>2. f0 \in Frame /\ Busy(r)
    BY DEF TypeOK, Busy, FindGroup
  <1>3. f1 \in Frame
    <2>1. WithGroup(r) \in Steps
      BY <1>1, <1>2 DEF TypeOK, Frame, FindGroup, WithGroup
    <2> QED  BY <2>1, <1>2, FrameFields
  <1>4. frame' = [frame EXCEPT ![r] = f1]
    BY <1>1, <1>2 DEF TypeOK
  <1>5. /\ f1.pc = WithGroup(r)
        /\ f1.todo = frame[r].todo /\ f1.apps = frame[r].apps
        /\ f1.left = frame[r].left /\ f1.app = frame[r].app
        /\ f1.doomed = frame[r].doomed /\ f1.op = frame[r].op
        /\ f1.user = frame[r].user /\ f1.firm = frame[r].firm
    BY <1>2, <1>3, FieldValues
  <1>6. f1.pc \in StepsOf[frame[r].op]
    BY <1>1, <1>2, <1>5, StepFacts
       DEF FindGroup, WithGroup
  <1> HIDE DEF f0, f1
  <1> QED
    BY <1>1, <1>2, <1>3, <1>4, <1>5, <1>6, Moved

LEMMA CreateGroupStep ==
    ASSUME TypeOK, NEW r \in Requests, CreateGroup(r), ~group
    PROVE  After(r, "add", frame[r].todo, frame[r].apps, frame[r].left,
                 frame[r].app, frame[r].doomed)
  <1>1. frame' = [frame EXCEPT ![r].pc = "add"]
    BY DEF CreateGroup
  <1> DEFINE f0 == frame[r]
             f1 == [f0 EXCEPT !.pc = "add"]
  <1>2. f0 \in Frame /\ Busy(r)
    BY DEF TypeOK, Busy, CreateGroup
  <1>3. f1 \in Frame
    <2>1. "add" \in Steps
      BY <1>1, <1>2 DEF TypeOK, Frame
    <2> QED  BY <2>1, <1>2, FrameFields
  <1>4. frame' = [frame EXCEPT ![r] = f1]
    BY <1>1, <1>2 DEF TypeOK
  <1>5. /\ f1.pc = "add"
        /\ f1.todo = frame[r].todo /\ f1.apps = frame[r].apps
        /\ f1.left = frame[r].left /\ f1.app = frame[r].app
        /\ f1.doomed = frame[r].doomed /\ f1.op = frame[r].op
        /\ f1.user = frame[r].user /\ f1.firm = frame[r].firm
    BY <1>2, <1>3, FieldValues
  <1>6. f1.pc \in StepsOf[frame[r].op]
    BY <1>1, <1>2, <1>5, StepFacts
       DEF CreateGroup
  <1> HIDE DEF f0, f1
  <1> QED
    BY <1>1, <1>2, <1>3, <1>4, <1>5, <1>6, Moved

LEMMA AddMemberStep ==
    ASSUME TypeOK, NEW r \in Requests, AddMember(r)
    PROVE  After(r, "bind", frame[r].todo, frame[r].apps, frame[r].apps,
                 frame[r].app, frame[r].doomed)
  <1>1. frame' = [frame EXCEPT ![r].pc = "bind", ![r].left = frame[r].apps]
    BY DEF AddMember
  <1> DEFINE f0 == frame[r]
             f1 == [f0 EXCEPT !.pc = "bind"]
             f2 == [f1 EXCEPT !.left = frame[r].apps]
  <1>2. f0 \in Frame /\ Busy(r)
    BY DEF TypeOK, Busy, AddMember
  <1>3. f1 \in Frame
    <2>1. "bind" \in Steps
      BY <1>1, <1>2 DEF TypeOK, Frame
    <2> QED  BY <2>1, <1>2, FrameFields
  <1>4. f2 \in Frame
    <2>1. frame[r].apps \in SUBSET Apps
      BY <1>1, <1>2 DEF TypeOK, Frame
    <2> QED  BY <2>1, <1>3, FrameFields
  <1>5. frame' = [frame EXCEPT ![r] = f2]
    BY <1>1, <1>2 DEF TypeOK
  <1>6. /\ f2.pc = "bind"
        /\ f2.left = frame[r].apps
        /\ f2.todo = frame[r].todo /\ f2.apps = frame[r].apps
        /\ f2.app = frame[r].app /\ f2.doomed = frame[r].doomed
        /\ f2.op = frame[r].op /\ f2.user = frame[r].user
        /\ f2.firm = frame[r].firm
    BY <1>2, <1>3, <1>4, FieldValues
  <1>7. f2.pc \in StepsOf[frame[r].op]
    BY <1>1, <1>2, <1>6, StepFacts
       DEF AddMember
  <1> HIDE DEF f0, f1, f2
  <1> QED
    BY <1>1, <1>2, <1>4, <1>5, <1>6, <1>7, Moved

LEMMA ReadBindingsStep ==
    ASSUME TypeOK, NEW r \in Requests, ReadBindings(r)
    PROVE  \E a \in frame[r].left :
               After(r, IF Missing(a) THEN "post" ELSE "bind", frame[r].todo,
                     frame[r].apps, frame[r].left \ {a},
                     IF Missing(a) THEN a ELSE None, frame[r].doomed)
  <1>1. PICK a \in frame[r].left :
            frame' = [frame EXCEPT
                            ![r].left = frame[r].left \ {a},
                            ![r].pc = IF Missing(a) THEN "post" ELSE "bind",
                            ![r].app = IF Missing(a) THEN a ELSE None]
    BY DEF ReadBindings
  <1> DEFINE f0 == frame[r]
             f1 == [f0 EXCEPT !.left = frame[r].left \ {a}]
             f2 == [f1 EXCEPT !.pc = IF Missing(a) THEN "post" ELSE "bind"]
             f3 == [f2 EXCEPT !.app = IF Missing(a) THEN a ELSE None]
  <1>2. f0 \in Frame /\ Busy(r)
    BY DEF TypeOK, Busy, ReadBindings
  <1>3. f1 \in Frame
    <2>1. frame[r].left \ {a} \in SUBSET Apps
      BY <1>1, <1>2 DEF TypeOK, Frame
    <2> QED  BY <2>1, <1>2, FrameFields
  <1>4. f2 \in Frame
    <2>1. (IF Missing(a) THEN "post" ELSE "bind") \in Steps
      BY <1>1, <1>2 DEF TypeOK, Frame
    <2> QED  BY <2>1, <1>3, FrameFields
  <1>5. f3 \in Frame
    <2>1. (IF Missing(a) THEN a ELSE None) \in Apps \cup {None}
      BY <1>1, <1>2 DEF TypeOK, Frame
    <2> QED  BY <2>1, <1>4, FrameFields
  <1>6. frame' = [frame EXCEPT ![r] = f3]
    BY <1>1, <1>2 DEF TypeOK
  <1>7. /\ f3.pc = (IF Missing(a) THEN "post" ELSE "bind")
        /\ f3.left = frame[r].left \ {a}
        /\ f3.app = (IF Missing(a) THEN a ELSE None)
        /\ f3.todo = frame[r].todo /\ f3.apps = frame[r].apps
        /\ f3.doomed = frame[r].doomed /\ f3.op = frame[r].op
        /\ f3.user = frame[r].user /\ f3.firm = frame[r].firm
    BY <1>2, <1>3, <1>4, <1>5, FieldValues
  <1>8. f3.pc \in StepsOf[frame[r].op]
    BY <1>1, <1>2, <1>7, StepFacts
       DEF ReadBindings
  <1> HIDE DEF f0, f1, f2, f3
  <1>9. After(r, f3.pc, f3.todo, f3.apps, f3.left, f3.app, f3.doomed)
    BY <1>2, <1>5, <1>6, <1>7, <1>8, Moved
  <1> QED
    BY <1>1, <1>7, <1>9 DEF After

LEMMA PostBindingStep ==
    ASSUME TypeOK, NEW r \in Requests, PostBinding(r), frame[r].app \in live
    PROVE  After(r, "bind", frame[r].todo, frame[r].apps, frame[r].left, None,
                 frame[r].doomed)
  <1>1. frame' = [frame EXCEPT ![r].pc = "bind", ![r].app = None]
    BY DEF PostBinding
  <1> DEFINE f0 == frame[r]
             f1 == [f0 EXCEPT !.pc = "bind"]
             f2 == [f1 EXCEPT !.app = None]
  <1>2. f0 \in Frame /\ Busy(r)
    BY DEF TypeOK, Busy, PostBinding
  <1>3. f1 \in Frame
    <2>1. "bind" \in Steps
      BY <1>1, <1>2 DEF TypeOK, Frame
    <2> QED  BY <2>1, <1>2, FrameFields
  <1>4. f2 \in Frame
    <2>1. None \in Apps \cup {None}
      BY <1>1, <1>2 DEF TypeOK, Frame
    <2> QED  BY <2>1, <1>3, FrameFields
  <1>5. frame' = [frame EXCEPT ![r] = f2]
    BY <1>1, <1>2 DEF TypeOK
  <1>6. /\ f2.pc = "bind"
        /\ f2.app = None
        /\ f2.todo = frame[r].todo /\ f2.apps = frame[r].apps
        /\ f2.left = frame[r].left /\ f2.doomed = frame[r].doomed
        /\ f2.op = frame[r].op /\ f2.user = frame[r].user
        /\ f2.firm = frame[r].firm
    BY <1>2, <1>3, <1>4, FieldValues
  <1>7. f2.pc \in StepsOf[frame[r].op]
    BY <1>1, <1>2, <1>6, StepFacts
       DEF PostBinding
  <1> HIDE DEF f0, f1, f2
  <1> QED
    BY <1>1, <1>2, <1>4, <1>5, <1>6, <1>7, Moved

LEMMA RemoveMemberStep ==
    ASSUME TypeOK, NEW r \in Requests, RemoveMember(r)
    PROVE  After(r, "reread", frame[r].todo, frame[r].apps, frame[r].left,
                 frame[r].app, frame[r].doomed)
  <1>1. frame' = [frame EXCEPT ![r].pc = "reread"]
    BY DEF RemoveMember
  <1> DEFINE f0 == frame[r]
             f1 == [f0 EXCEPT !.pc = "reread"]
  <1>2. f0 \in Frame /\ Busy(r)
    BY DEF TypeOK, Busy, RemoveMember
  <1>3. f1 \in Frame
    <2>1. "reread" \in Steps
      BY <1>1, <1>2 DEF TypeOK, Frame
    <2> QED  BY <2>1, <1>2, FrameFields
  <1>4. frame' = [frame EXCEPT ![r] = f1]
    BY <1>1, <1>2 DEF TypeOK
  <1>5. /\ f1.pc = "reread"
        /\ f1.todo = frame[r].todo /\ f1.apps = frame[r].apps
        /\ f1.left = frame[r].left /\ f1.app = frame[r].app
        /\ f1.doomed = frame[r].doomed /\ f1.op = frame[r].op
        /\ f1.user = frame[r].user /\ f1.firm = frame[r].firm
    BY <1>2, <1>3, FieldValues
  <1>6. f1.pc \in StepsOf[frame[r].op]
    BY <1>1, <1>2, <1>5, StepFacts
       DEF RemoveMember
  <1> HIDE DEF f0, f1
  <1> QED
    BY <1>1, <1>2, <1>3, <1>4, <1>5, <1>6, Moved

LEMMA RereadStep ==
    ASSUME TypeOK, NEW r \in Requests, Reread(r)
    PROVE  After(r, IF Remaining(r) = {} THEN "unbind" ELSE "answer",
                 frame[r].todo, frame[r].apps, frame[r].left, frame[r].app,
                 frame[r].doomed)
  <1>1. frame' = [frame EXCEPT
                            ![r].pc = IF Remaining(r) = {} THEN "unbind" ELSE "answer"]
    BY DEF Reread
  <1> DEFINE f0 == frame[r]
             f1 == [f0 EXCEPT !.pc = IF Remaining(r) = {} THEN "unbind" ELSE "answer"]
  <1>2. f0 \in Frame /\ Busy(r)
    BY DEF TypeOK, Busy, Reread
  <1>3. f1 \in Frame
    <2>1. (IF Remaining(r) = {} THEN "unbind" ELSE "answer") \in Steps
      BY <1>1, <1>2 DEF TypeOK, Frame
    <2> QED  BY <2>1, <1>2, FrameFields
  <1>4. frame' = [frame EXCEPT ![r] = f1]
    BY <1>1, <1>2 DEF TypeOK
  <1>5. /\ f1.pc = (IF Remaining(r) = {} THEN "unbind" ELSE "answer")
        /\ f1.todo = frame[r].todo /\ f1.apps = frame[r].apps
        /\ f1.left = frame[r].left /\ f1.app = frame[r].app
        /\ f1.doomed = frame[r].doomed /\ f1.op = frame[r].op
        /\ f1.user = frame[r].user /\ f1.firm = frame[r].firm
    BY <1>2, <1>3, FieldValues
  <1>6. f1.pc \in StepsOf[frame[r].op]
    BY <1>1, <1>2, <1>5, StepFacts
       DEF Reread
  <1> HIDE DEF f0, f1
  <1>7. After(r, f1.pc, f1.todo, f1.apps, f1.left, f1.app, f1.doomed)
    BY <1>2, <1>3, <1>4, <1>5, <1>6, Moved
  <1> QED
    BY <1>1, <1>5, <1>7 DEF After

LEMMA LookUpNoneStep ==
    ASSUME TypeOK, NEW r \in Requests, frame[r].pc = "unbind",
           NEW slug \in frame[r].todo,
           frame' = [frame EXCEPT ![r].todo = @ \ {slug}]
    PROVE  After(r, frame[r].pc, frame[r].todo \ {slug}, frame[r].apps,
                 frame[r].left, frame[r].app, frame[r].doomed)
  <1>1. frame' = [frame EXCEPT ![r].todo = frame[r].todo \ {slug}]
    OBVIOUS
  <1> DEFINE f0 == frame[r]
             f1 == [f0 EXCEPT !.todo = frame[r].todo \ {slug}]
  <1>2. f0 \in Frame /\ Busy(r)
    BY DEF TypeOK, Busy
  <1>3. f1 \in Frame
    <2>1. frame[r].todo \ {slug} \in SUBSET Slugs
      BY <1>1, <1>2 DEF TypeOK, Frame
    <2> QED  BY <2>1, <1>2, FrameFields
  <1>4. frame' = [frame EXCEPT ![r] = f1]
    BY <1>1, <1>2 DEF TypeOK
  <1>5. /\ f1.todo = frame[r].todo \ {slug}
        /\ f1.pc = frame[r].pc /\ f1.apps = frame[r].apps
        /\ f1.left = frame[r].left /\ f1.app = frame[r].app
        /\ f1.doomed = frame[r].doomed /\ f1.op = frame[r].op
        /\ f1.user = frame[r].user /\ f1.firm = frame[r].firm
    BY <1>2, <1>3, FieldValues
  <1>6. f1.pc \in StepsOf[frame[r].op]
    BY <1>1, <1>2, <1>5, StepFacts
  <1> HIDE DEF f0, f1
  <1> QED
    BY <1>1, <1>2, <1>3, <1>4, <1>5, <1>6, Moved

LEMMA LookUpAppStep ==
    ASSUME TypeOK, NEW r \in Requests, frame[r].pc = "unbind",
           NEW slug \in frame[r].todo, NEW a \in live,
           frame' = [frame EXCEPT ![r].pc = "list", ![r].app = a,
                                   ![r].todo = @ \ {slug}]
    PROVE  After(r, "list", frame[r].todo \ {slug}, frame[r].apps,
                 frame[r].left, a, frame[r].doomed)
  <1>1. frame' = [frame EXCEPT
                            ![r].pc = "list",
                            ![r].app = a,
                            ![r].todo = frame[r].todo \ {slug}]
    OBVIOUS
  <1> DEFINE f0 == frame[r]
             f1 == [f0 EXCEPT !.pc = "list"]
             f2 == [f1 EXCEPT !.app = a]
             f3 == [f2 EXCEPT !.todo = frame[r].todo \ {slug}]
  <1>2. f0 \in Frame /\ Busy(r)
    BY DEF TypeOK, Busy
  <1>3. f1 \in Frame
    <2>1. "list" \in Steps
      BY <1>1, <1>2 DEF TypeOK, Frame
    <2> QED  BY <2>1, <1>2, FrameFields
  <1>4. f2 \in Frame
    <2>1. a \in Apps \cup {None}
      BY <1>1, <1>2 DEF TypeOK, Frame
    <2> QED  BY <2>1, <1>3, FrameFields
  <1>5. f3 \in Frame
    <2>1. frame[r].todo \ {slug} \in SUBSET Slugs
      BY <1>1, <1>2 DEF TypeOK, Frame
    <2> QED  BY <2>1, <1>4, FrameFields
  <1>6. frame' = [frame EXCEPT ![r] = f3]
    BY <1>1, <1>2 DEF TypeOK
  <1>7. /\ f3.pc = "list"
        /\ f3.todo = frame[r].todo \ {slug}
        /\ f3.app = a
        /\ f3.apps = frame[r].apps /\ f3.left = frame[r].left
        /\ f3.doomed = frame[r].doomed /\ f3.op = frame[r].op
        /\ f3.user = frame[r].user /\ f3.firm = frame[r].firm
    BY <1>2, <1>3, <1>4, <1>5, FieldValues
  <1>8. f3.pc \in StepsOf[frame[r].op]
    BY <1>1, <1>2, <1>7, StepFacts
  <1> HIDE DEF f0, f1, f2, f3
  <1> QED
    BY <1>1, <1>2, <1>5, <1>6, <1>7, <1>8, Moved

LEMMA ListBindingsStep ==
    ASSUME TypeOK, NEW r \in Requests, ListBindings(r)
    PROVE  After(r, 
                 IF BindingsOf(frame[r].app) = {} THEN "unbind" ELSE "delete",
                 frame[r].todo, frame[r].apps, frame[r].left, None,
                 BindingsOf(frame[r].app))
  <1>1. frame' = [frame EXCEPT
                            ![r].pc = IF BindingsOf(frame[r].app) = {} THEN "unbind" ELSE "delete",
                            ![r].app = None,
                            ![r].doomed = BindingsOf(frame[r].app)]
    BY DEF ListBindings
  <1> DEFINE f0 == frame[r]
             f1 == [f0 EXCEPT !.pc = IF BindingsOf(frame[r].app) = {} THEN "unbind" ELSE "delete"]
             f2 == [f1 EXCEPT !.app = None]
             f3 == [f2 EXCEPT !.doomed = BindingsOf(frame[r].app)]
  <1>2. f0 \in Frame /\ Busy(r)
    BY DEF TypeOK, Busy, ListBindings
  <1>3. f1 \in Frame
    <2>1. (IF BindingsOf(frame[r].app) = {} THEN "unbind" ELSE "delete") \in Steps
      BY <1>1, <1>2 DEF TypeOK, Frame
    <2> QED  BY <2>1, <1>2, FrameFields
  <1>4. f2 \in Frame
    <2>1. None \in Apps \cup {None}
      BY <1>1, <1>2 DEF TypeOK, Frame
    <2> QED  BY <2>1, <1>3, FrameFields
  <1>5. f3 \in Frame
    <2>1. BindingsOf(frame[r].app) \in SUBSET Bindings
      BY <1>1, <1>2 DEF TypeOK, Frame, BindingsOf
    <2> QED  BY <2>1, <1>4, FrameFields
  <1>6. frame' = [frame EXCEPT ![r] = f3]
    BY <1>1, <1>2 DEF TypeOK
  <1>7. /\ f3.pc = (IF BindingsOf(frame[r].app) = {} THEN "unbind" ELSE "delete")
        /\ f3.app = None
        /\ f3.doomed = BindingsOf(frame[r].app)
        /\ f3.todo = frame[r].todo /\ f3.apps = frame[r].apps
        /\ f3.left = frame[r].left /\ f3.op = frame[r].op
        /\ f3.user = frame[r].user /\ f3.firm = frame[r].firm
    BY <1>2, <1>3, <1>4, <1>5, FieldValues
  <1>8. f3.pc \in StepsOf[frame[r].op]
    <2>1. f3.pc \in {"unbind", "delete"}
      BY <1>7
    <2>2. frame[r].op = "revoke"
      BY StepFacts DEF ListBindings
    <2> QED  BY <2>1, <2>2
  <1> HIDE DEF f0, f1, f2, f3
  <1>9. After(r, f3.pc, f3.todo, f3.apps, f3.left, f3.app, f3.doomed)
    BY <1>2, <1>5, <1>6, <1>7, <1>8, Moved
  <1> QED
    BY <1>1, <1>7, <1>9 DEF After

LEMMA DeleteBindingStep ==
    ASSUME TypeOK, NEW r \in Requests, DeleteBinding(r)
    PROVE  \E b \in frame[r].doomed :
               /\ bindings' = bindings \ {b}
               /\ After(r, 
                        IF frame[r].doomed = {b} THEN "unbind" ELSE "delete",
                        frame[r].todo, frame[r].apps, frame[r].left,
                        frame[r].app, frame[r].doomed \ {b})
  <1>1. PICK b \in frame[r].doomed :
            /\ bindings' = bindings \ {b}
            /\ frame' = [frame EXCEPT
                            ![r].pc = IF frame[r].doomed = {b} THEN "unbind" ELSE "delete",
                            ![r].doomed = frame[r].doomed \ {b}]
    BY DEF DeleteBinding
  <1> DEFINE f0 == frame[r]
             f1 == [f0 EXCEPT !.pc = IF frame[r].doomed = {b} THEN "unbind" ELSE "delete"]
             f2 == [f1 EXCEPT !.doomed = frame[r].doomed \ {b}]
  <1>2. f0 \in Frame /\ Busy(r)
    BY DEF TypeOK, Busy, DeleteBinding
  <1>3. f1 \in Frame
    <2>1. (IF frame[r].doomed = {b} THEN "unbind" ELSE "delete") \in Steps
      BY <1>1, <1>2 DEF TypeOK, Frame
    <2> QED  BY <2>1, <1>2, FrameFields
  <1>4. f2 \in Frame
    <2>1. frame[r].doomed \ {b} \in SUBSET Bindings
      BY <1>1, <1>2 DEF TypeOK, Frame
    <2> QED  BY <2>1, <1>3, FrameFields
  <1>5. frame' = [frame EXCEPT ![r] = f2]
    BY <1>1, <1>2 DEF TypeOK
  <1>6. /\ f2.pc = (IF frame[r].doomed = {b} THEN "unbind" ELSE "delete")
        /\ f2.doomed = frame[r].doomed \ {b}
        /\ f2.todo = frame[r].todo /\ f2.apps = frame[r].apps
        /\ f2.left = frame[r].left /\ f2.app = frame[r].app
        /\ f2.op = frame[r].op /\ f2.user = frame[r].user
        /\ f2.firm = frame[r].firm
    BY <1>2, <1>3, <1>4, FieldValues
  <1>7. f2.pc \in StepsOf[frame[r].op]
    BY <1>1, <1>2, <1>6, StepFacts
       DEF DeleteBinding
  <1> HIDE DEF f0, f1, f2
  <1>8. After(r, f2.pc, f2.todo, f2.apps, f2.left, f2.app, f2.doomed)
    BY <1>2, <1>4, <1>5, <1>6, <1>7, Moved
  <1> QED
    BY <1>1, <1>6, <1>8 DEF After


USE DEF authentik, cluster

LEMMA ArrivingFacts ==
    ASSUME TypeOK, NEW op \in Ops, NEW u \in Users
    PROVE  LET f == Arriving(op, u) IN
           /\ f \in Frame
           /\ f.pc \in StepsOf[f.op] /\ f.pc = IF op = "grant" THEN "find" ELSE "group"
           /\ f.op = op /\ f.user = u /\ f.todo = emitted
           /\ f.apps = {} /\ f.left = {} /\ f.app = None /\ f.doomed = {}
  <1> DEFINE f == Arriving(op, u)
             firm == \/ op = "revoke"
                     \/ \A q \in Requests : ~Serves(q, "revoke", u)
             pc == IF op = "grant" THEN "find" ELSE "group"
  <1>1. f = [pc |-> pc, op |-> op, user |-> u, todo |-> emitted, apps |-> {},
             left |-> {}, app |-> None, doomed |-> {}, firm |-> firm]
    BY DEF Arriving
  <1>2. pc \in Steps /\ pc \in StepsOf[op]
    OBVIOUS
  <1>3. firm \in BOOLEAN /\ emitted \in SUBSET Slugs
    BY Zenon DEF TypeOK
  <1> HIDE DEF firm, pc
  <1>4. f \in Frame
    <2> HIDE DEF f
    <2> QED  BY <1>1, <1>2, <1>3, Zenon DEF Frame
  <1>5. /\ f.pc = pc /\ f.op = op /\ f.user = u /\ f.todo = emitted
        /\ f.apps = {} /\ f.left = {} /\ f.app = None /\ f.doomed = {}
    <2> HIDE DEF f
    <2> QED  BY <1>1
  <1> QED  BY <1>2, <1>4, <1>5 DEF pc

\* What a new request does to the frames of the others.
LEMMA BeginStep ==
    ASSUME TypeOK, NEW r \in Requests, NEW op \in Ops, NEW u \in Users,
           frame' = [q \in Requests |->
                 IF q = r THEN Arriving(op, u)
                 ELSE IF op = "revoke" /\ Serves(q, "grant", u)
                 THEN [frame[q] EXCEPT !.firm = FALSE]
                 ELSE frame[q]]
    PROVE  /\ frame' \in [Requests -> Frame]
           /\ frame'[r] = Arriving(op, u)
           /\ \A q \in Requests \ {r} :
                 /\ frame'[q].pc = frame[q].pc /\ frame'[q].op = frame[q].op
                 /\ frame'[q].user = frame[q].user /\ frame'[q].todo = frame[q].todo
                 /\ frame'[q].apps = frame[q].apps /\ frame'[q].left = frame[q].left
                 /\ frame'[q].app = frame[q].app /\ frame'[q].doomed = frame[q].doomed
                 /\ op = "revoke" /\ Serves(q, "grant", u) => ~frame'[q].firm
                 /\ frame'[q].firm => frame[q].firm
           /\ \A q \in Requests :
                 Busy(q)' => /\ frame'[q].user \in Users
                             /\ frame'[q].pc \in StepsOf[frame'[q].op]
  <1>1. Arriving(op, u) \in Frame
    BY ArrivingFacts
  <1>2. ASSUME NEW q \in Requests
        PROVE  /\ [frame[q] EXCEPT !.firm = FALSE] \in Frame
               /\ ~[frame[q] EXCEPT !.firm = FALSE].firm
               /\ LET g == [frame[q] EXCEPT !.firm = FALSE] IN
                     /\ g.pc = frame[q].pc /\ g.op = frame[q].op
                     /\ g.user = frame[q].user /\ g.todo = frame[q].todo
                     /\ g.apps = frame[q].apps /\ g.left = frame[q].left
                     /\ g.app = frame[q].app /\ g.doomed = frame[q].doomed
    <2>1. frame[q] \in Frame  BY DEF TypeOK
    <2> DEFINE g == [frame[q] EXCEPT !.firm = FALSE]
    <2>2. g \in Frame  BY <2>1, FrameFields
    <2>3. /\ g.pc = frame[q].pc /\ g.op = frame[q].op
          /\ g.user = frame[q].user /\ g.todo = frame[q].todo
          /\ g.apps = frame[q].apps /\ g.left = frame[q].left
          /\ g.app = frame[q].app /\ g.doomed = frame[q].doomed
      BY <2>1, FieldValues
    <2>4. g.firm = FALSE  BY <2>1 DEF Frame
    <2> QED  BY <2>2, <2>3, <2>4
  <1>3. /\ frame' \in [Requests -> Frame] /\ frame'[r] = Arriving(op, u)
    BY <1>1, <1>2 DEF TypeOK
  <1>4. ASSUME NEW q \in Requests \ {r}
        PROVE  /\ frame'[q].pc = frame[q].pc /\ frame'[q].op = frame[q].op
               /\ frame'[q].user = frame[q].user /\ frame'[q].todo = frame[q].todo
               /\ frame'[q].apps = frame[q].apps /\ frame'[q].left = frame[q].left
               /\ frame'[q].app = frame[q].app /\ frame'[q].doomed = frame[q].doomed
               /\ op = "revoke" /\ Serves(q, "grant", u) => ~frame'[q].firm
               /\ frame'[q].firm => frame[q].firm
    <2>1. CASE op = "revoke" /\ Serves(q, "grant", u)
      <3>1. frame'[q] = [frame[q] EXCEPT !.firm = FALSE]
        BY <2>1
      <3> QED  BY <3>1, <1>2
    <2>2. CASE ~(op = "revoke" /\ Serves(q, "grant", u))
      <3>1. frame'[q] = frame[q]
        BY <2>2
      <3> QED  BY <3>1, <2>2
    <2> QED  BY <2>1, <2>2
  <1>5. ASSUME NEW q \in Requests, Busy(q)'
        PROVE  /\ frame'[q].user \in Users
               /\ frame'[q].pc \in StepsOf[frame'[q].op]
    <2>1. CASE q = r  BY <2>1, <1>3, ArrivingFacts
    <2>2. CASE q # r  BY <2>2, <1>4, <1>5 DEF Busy, TypeOK
    <2> QED  BY <2>1, <2>2
  <1> QED  BY <1>3, <1>4, <1>5

\* The part of the type that is about the frames.
Frames == /\ frame \in [Requests -> Frame]
          /\ \A r \in Requests :
                 Busy(r) => /\ frame[r].user \in Users
                            /\ frame[r].pc \in StepsOf[frame[r].op]

LEMMA AfterFrames ==
    ASSUME NEW r, NEW pc, NEW todo, NEW apps, NEW left, NEW app, NEW doomed,
           After(r, pc, todo, apps, left, app, doomed)
    PROVE  Frames'
  BY DEF After, Frames

LEMMA ErrorFrames ==
    ASSUME TypeOK, NEW r \in Requests, Error(r)
    PROVE  Frames' /\ solo' = None
  BY RestStep DEF Error, Frames

LEMMA TypeNext == ASSUME TypeOK, [Next]_vars PROVE TypeOK'
  <1>1. ASSUME NEW r \in Requests, Begin(r) PROVE TypeOK'
    <2>1. PICK op \in Ops, u \in Users :
            /\ frame' = [q \in Requests |->
                 IF q = r THEN Arriving(op, u)
                 ELSE IF op = "revoke" /\ Serves(q, "grant", u)
                 THEN [frame[q] EXCEPT !.firm = FALSE]
                 ELSE frame[q]]
            /\ solo' = IF Quiet THEN [op |-> op, slugs |-> emitted, apps |-> {}]
                                ELSE None
            /\ granted' = IF op = "revoke" THEN granted \ {u} ELSE granted
      BY <1>1 DEF Begin
    <2>2. Frames'
      BY <2>1, BeginStep DEF Frames
    <2>3. solo' \in Solo \cup {None} /\ granted' \in SUBSET Users
      BY <2>1 DEF TypeOK, Solo
    <2> QED
      BY <1>1, <2>2, <2>3 DEF Begin, TypeOK, Frames
  <1>2. ASSUME NEW r \in Requests, Answer(r) PROVE TypeOK'
    <2>1. Frames' /\ Busy(r)
      BY <1>2, RestStep DEF Answer, Frames, Through, Busy
    <2>2. solo' \in Solo \cup {None}
      <3>1. frame[r].apps \in SUBSET Apps
        BY DEF TypeOK, Frame
      <3> QED  BY <3>1, <1>2 DEF Answer, TypeOK, Solo
    <2>3. granted' \in SUBSET Users
      BY <1>2, <2>1, StepFacts DEF Answer, TypeOK
    <2> QED  BY <1>2, <2>1, <2>2, <2>3 DEF Answer, TypeOK, Frames
  <1>3. ASSUME NEW r \in Requests, BackendError(r) PROVE TypeOK'
    <2>1. faults' \in 0..MaxFaults
      BY <1>3, AccessAssumption DEF BackendError, TypeOK, AccessAssumption
    <2> QED  BY <1>3, <2>1, ErrorFrames DEF BackendError, TypeOK, Frames
  <1>4. ASSUME NEW r \in Requests, FindApp(r) PROVE TypeOK'
    <2>1. Frames'  BY <1>4, FindAppStep, AfterFrames
    <2> QED  BY <1>4, <2>1 DEF FindApp, TypeOK, Frames
  <1>5. ASSUME NEW r \in Requests, Refuse(r) PROVE TypeOK'
    BY <1>5, ErrorFrames DEF Refuse, TypeOK, Frames
  <1>6. ASSUME NEW r \in Requests, FindGroup(r) PROVE TypeOK'
    <2>1. Frames'  BY <1>6, FindGroupStep, AfterFrames
    <2> QED  BY <1>6, <2>1 DEF FindGroup, TypeOK, Frames
  <1>7. ASSUME NEW r \in Requests, CreateGroup(r) PROVE TypeOK'
    <2>1. Frames' /\ solo' \in Solo \cup {None}
      <3>1. CASE group
        BY <1>7, <3>1, ErrorFrames DEF CreateGroup
      <3>2. CASE ~group
        <4>1. Frames'  BY <1>7, <3>2, CreateGroupStep, AfterFrames
        <4> QED  BY <1>7, <3>2, <4>1 DEF CreateGroup, TypeOK
      <3> QED  BY <3>1, <3>2
    <2>2. group' \in BOOLEAN
      BY <1>7, Zenon DEF CreateGroup
    <2> QED  BY <1>7, <2>1, <2>2 DEF CreateGroup, TypeOK, Frames
  <1>8. ASSUME NEW r \in Requests, AddMember(r) PROVE TypeOK'
    <2>1. Frames'  BY <1>8, AddMemberStep, AfterFrames
    <2>2. members' \in SUBSET Users
      BY <1>8, StepFacts DEF AddMember, MembersWith, TypeOK, Busy
    <2> QED  BY <1>8, <2>1, <2>2 DEF AddMember, TypeOK, Frames
  <1>9. ASSUME NEW r \in Requests, ReadBindings(r) PROVE TypeOK'
    <2>1. Frames'  BY <1>9, ReadBindingsStep, AfterFrames
    <2> QED  BY <1>9, <2>1 DEF ReadBindings, TypeOK, Frames
  <1>10. ASSUME NEW r \in Requests, PostBinding(r) PROVE TypeOK'
    <2>1. CASE frame[r].app \in live
      <3>1. Frames'  BY <1>10, <2>1, PostBindingStep, AfterFrames
      <3>2. bindings' \in SUBSET Bindings
        BY <1>10, <2>1 DEF PostBinding, TypeOK, Bindings
      <3> QED  BY <1>10, <2>1, <3>1, <3>2 DEF PostBinding, TypeOK, Frames
    <2>2. CASE frame[r].app \notin live
      BY <1>10, <2>2, ErrorFrames DEF PostBinding, TypeOK, Frames
    <2> QED  BY <2>1, <2>2
  <1>11. ASSUME NEW r \in Requests, RemoveMember(r) PROVE TypeOK'
    <2>1. Frames'  BY <1>11, RemoveMemberStep, AfterFrames
    <2>2. members' \in SUBSET Users
      BY <1>11 DEF RemoveMember, MembersWithout, TypeOK
    <2> QED  BY <1>11, <2>1, <2>2 DEF RemoveMember, TypeOK, Frames
  <1>12. ASSUME NEW r \in Requests, Reread(r) PROVE TypeOK'
    <2>1. Frames'  BY <1>12, RereadStep, AfterFrames
    <2> QED  BY <1>12, <2>1 DEF Reread, TypeOK, Frames
  <1>13. ASSUME NEW r \in Requests, LookUp(r) PROVE TypeOK'
    <2>1. Frames'
      <3>1. PICK slug \in frame[r].todo :
               \/ frame' = [frame EXCEPT ![r].todo = @ \ {slug}]
               \/ \E a \in Named(slug) :
                     frame' = [frame EXCEPT ![r].pc = "list", ![r].app = a,
                                            ![r].todo = @ \ {slug}]
        BY <1>13 DEF LookUp
      <3>2. CASE frame' = [frame EXCEPT ![r].todo = @ \ {slug}]
        BY <1>13, <3>2, LookUpNoneStep, AfterFrames DEF LookUp
      <3>3. ASSUME NEW a \in Named(slug),
                   frame' = [frame EXCEPT ![r].pc = "list", ![r].app = a,
                                          ![r].todo = @ \ {slug}]
            PROVE  Frames'
        <4>1. a \in live  BY DEF Named
        <4> QED  BY <1>13, <3>3, <4>1, LookUpAppStep, AfterFrames DEF LookUp
      <3> QED  BY <3>1, <3>2, <3>3
    <2> QED  BY <1>13, <2>1 DEF LookUp, TypeOK, Frames
  <1>14. ASSUME NEW r \in Requests, ListBindings(r) PROVE TypeOK'
    <2>1. Frames'  BY <1>14, ListBindingsStep, AfterFrames
    <2> QED  BY <1>14, <2>1 DEF ListBindings, TypeOK, Frames
  <1>15. ASSUME NEW r \in Requests, DeleteBinding(r) PROVE TypeOK'
    <2>1. Frames'  BY <1>15, DeleteBindingStep, AfterFrames
    <2>2. bindings' \in SUBSET Bindings
      BY <1>15 DEF DeleteBinding, TypeOK
    <2> QED  BY <1>15, <2>1, <2>2 DEF DeleteBinding, TypeOK, Frames
  <1>16. ASSUME NEW slug \in Slugs, Emit(slug) PROVE TypeOK'
    BY <1>16 DEF Emit, TypeOK, Busy
  <1>17. ASSUME NEW slug \in Slugs, Finalize(slug) PROVE TypeOK'
    BY <1>17 DEF Finalize, TypeOK, Busy, Named
  <1>18. ASSUME NEW a \in Apps, Register(a) PROVE TypeOK'
    BY <1>18 DEF Register, TypeOK, Busy
  <1>19. CASE UNCHANGED vars
    BY <1>19 DEF vars, TypeOK, Busy
  <1> QED
    BY <1>1, <1>2, <1>3, <1>4, <1>5, <1>6, <1>7, <1>8, <1>9, <1>10, <1>11,
       <1>12, <1>13, <1>14, <1>15, <1>16, <1>17, <1>18, <1>19
       DEF Next, Grant, Revoke

\* Every variable of AccessGate keeps its type, and every request is at a step
\* of its own operation: a revocation never creates the group
\* (routers/identity.py, grant_access and revoke_access).
THEOREM AccessTypeCorrect == Spec => []TypeOK
  BY TypeInit, TypeNext, PTL DEF Spec

-----------------------------------------------------------------------------
(***************************************************************************)
(* The inductive invariant.                                                *)
(***************************************************************************)

\* The frame of a request that ended.
LEMMA RestFacts ==
    /\ Rest.pc = "idle" /\ Rest.op = "grant" /\ Rest.user = None
    /\ Rest.apps = {} /\ Rest.app = None /\ Rest.doomed = {}
  BY DEF Rest

LEMMA ErrorStep ==
    ASSUME TypeOK, NEW r \in Requests, Error(r)
    PROVE  /\ frame'[r] = Rest
           /\ \A q \in Requests \ {r} : frame'[q] = frame[q]
           /\ solo' = None
  BY RestStep DEF Error

\* The steps of requests that leave Authentik and the cluster alone.
AppsKept == UNCHANGED <<group, members, bindings, live, past>>
FrameAuthentik(r) ==
    /\ frame[r].apps \subseteq live \cup past
    /\ frame[r].pc \in {"add", "bind", "post"} => group
    /\ frame[r].app # None => frame[r].pc \in {"post", "list"}
    /\ frame[r].doomed # {} => frame[r].pc = "delete"

LEMMA AuthentikKept ==
    ASSUME AuthentikInv, AppsKept, NEW r \in Requests, FrameAuthentik(r)',
           \A q \in Requests \ {r} : FrameAuthentik(q)'
    PROVE  AuthentikInv'
  BY DEF AuthentikInv, AppsKept, FrameAuthentik

LEMMA AuthentikAfter ==
    ASSUME AuthentikInv, AppsKept, NEW r \in Requests,
           NEW pc, NEW todo, NEW apps, NEW left, NEW app, NEW doomed,
           After(r, pc, todo, apps, left, app, doomed),
           apps \subseteq live \cup past,
           pc \in {"add", "bind", "post"} => group,
           app # None => pc \in {"post", "list"},
           doomed # {} => pc = "delete"
    PROVE  AuthentikInv'
  <1>1. FrameAuthentik(r)'
    BY DEF FrameAuthentik, After, AppsKept
  <1>2. \A q \in Requests \ {r} : FrameAuthentik(q)'
    BY DEF FrameAuthentik, After, AppsKept, AuthentikInv
  <1> QED  BY <1>1, <1>2, AuthentikKept

LEMMA AuthentikFrame ==
    ASSUME AuthentikInv, NEW r \in Requests
    PROVE  FrameAuthentik(r)
  BY DEF AuthentikInv, FrameAuthentik

LEMMA AuthentikNext == ASSUME TypeOK, AuthentikInv, [Next]_vars PROVE AuthentikInv'
  <1> USE DEF FrameAuthentik, AppsKept
  <1>0. ASSUME NEW r \in Requests, Error(r), AppsKept PROVE AuthentikInv'
    BY <1>0, ErrorStep, RestFacts, AuthentikKept DEF AuthentikInv
  <1>1. ASSUME NEW r \in Requests, Begin(r) PROVE AuthentikInv'
    <2>1. PICK op \in Ops, u \in Users :
            frame' = [q \in Requests |->
                 IF q = r THEN Arriving(op, u)
                 ELSE IF op = "revoke" /\ Serves(q, "grant", u)
                 THEN [frame[q] EXCEPT !.firm = FALSE]
                 ELSE frame[q]]
      BY <1>1 DEF Begin
    <2>2. FrameAuthentik(r)'
      BY <2>1, BeginStep, ArrivingFacts
    <2>3. \A q \in Requests \ {r} : FrameAuthentik(q)'
      BY <1>1, <2>1, BeginStep DEF Begin, AuthentikInv
    <2> QED  BY <1>1, <2>2, <2>3, AuthentikKept DEF Begin
  <1>2. ASSUME NEW r \in Requests, Answer(r) PROVE AuthentikInv'
    BY <1>2, RestStep, RestFacts, AuthentikKept DEF Answer, AuthentikInv
  <1>3. ASSUME NEW r \in Requests, BackendError(r) PROVE AuthentikInv'
    BY <1>3, <1>0 DEF BackendError
  <1>4. ASSUME NEW r \in Requests, FindApp(r) PROVE AuthentikInv'
    <2>1. PICK slug \in frame[r].todo :
            After(r, frame[r].pc, frame[r].todo \ {slug},
                  frame[r].apps \cup Named(slug), frame[r].left,
                  frame[r].app, frame[r].doomed)
      BY <1>4, FindAppStep
    <2>2. frame[r].apps \cup Named(slug) \subseteq live \cup past
      BY DEF AuthentikInv, Named
    <2> QED  BY <1>4, <2>1, <2>2, AuthentikFrame, AuthentikAfter DEF FindApp
  <1>5. ASSUME NEW r \in Requests, Refuse(r) PROVE AuthentikInv'
    BY <1>5, <1>0 DEF Refuse
  <1>6. ASSUME NEW r \in Requests, FindGroup(r) PROVE AuthentikInv'
    BY <1>6, FindGroupStep, StepFacts, AuthentikKept
       DEF FindGroup, After, AuthentikInv, WithGroup
  <1>7. ASSUME NEW r \in Requests, CreateGroup(r) PROVE AuthentikInv'
    <2>1. CASE group
      BY <1>7, <2>1, <1>0 DEF CreateGroup
    <2>2. CASE ~group
      <3>1. group' /\ UNCHANGED <<members, bindings, live, past>>
        BY <1>7 DEF CreateGroup
      <3> QED  BY <1>7, <2>2, <3>1, CreateGroupStep DEF CreateGroup, After, AuthentikInv
    <2> QED  BY <2>1, <2>2
  <1>8. ASSUME NEW r \in Requests, AddMember(r) PROVE AuthentikInv'
    <2>1. group' /\ UNCHANGED <<bindings, live, past>>
      BY <1>8 DEF AddMember, AuthentikInv
    <2>2. After(r, "bind", frame[r].todo, frame[r].apps, frame[r].apps,
                frame[r].app, frame[r].doomed)
      BY <1>8, AddMemberStep
    <2>3. frame[r].app = None /\ frame[r].doomed = {}
      BY <1>8, AuthentikFrame DEF AddMember
    <2>4. FrameAuthentik(r)'
      BY <2>1, <2>2, <2>3, AuthentikFrame DEF After
    <2>5. ASSUME NEW q \in Requests \ {r} PROVE FrameAuthentik(q)'
      <3>1. frame'[q] = frame[q]  BY <2>2 DEF After
      <3> QED  BY <2>1, <3>1, AuthentikFrame
    <2> QED  BY <2>1, <2>4, <2>5 DEF AuthentikInv
  <1>9. ASSUME NEW r \in Requests, ReadBindings(r) PROVE AuthentikInv'
    <2>1. PICK a \in frame[r].left :
            After(r, IF Missing(a) THEN "post" ELSE "bind", frame[r].todo,
                  frame[r].apps, frame[r].left \ {a},
                  IF Missing(a) THEN a ELSE None, frame[r].doomed)
      BY <1>9, ReadBindingsStep
    <2>2. CASE Missing(a)
      BY <1>9, <2>1, <2>2, AuthentikFrame, AuthentikAfter
         DEF ReadBindings
    <2>3. CASE ~Missing(a)
      BY <1>9, <2>1, <2>3, AuthentikFrame, AuthentikAfter
         DEF ReadBindings
    <2> QED  BY <2>2, <2>3
  <1>10. ASSUME NEW r \in Requests, PostBinding(r) PROVE AuthentikInv'
    <2>1. CASE frame[r].app \in live
      BY <1>10, <2>1, PostBindingStep DEF PostBinding, After, AuthentikInv
    <2>2. CASE frame[r].app \notin live
      BY <1>10, <2>2, <1>0 DEF PostBinding
    <2> QED  BY <2>1, <2>2
  <1>11. ASSUME NEW r \in Requests, RemoveMember(r) PROVE AuthentikInv'
    BY <1>11, RemoveMemberStep DEF RemoveMember, After, AuthentikInv, MembersWithout
  <1>12. ASSUME NEW r \in Requests, Reread(r) PROVE AuthentikInv'
    BY <1>12, RereadStep, AuthentikKept DEF Reread, After, AuthentikInv
  <1>13. ASSUME NEW r \in Requests, LookUp(r) PROVE AuthentikInv'
    <2>1. PICK slug \in frame[r].todo :
               \/ frame' = [frame EXCEPT ![r].todo = @ \ {slug}]
               \/ \E a \in Named(slug) :
                     frame' = [frame EXCEPT ![r].pc = "list", ![r].app = a,
                                            ![r].todo = @ \ {slug}]
      BY <1>13 DEF LookUp
    <2>2. frame[r].pc = "unbind" /\ AppsKept
      BY <1>13 DEF LookUp
    <2>3. CASE frame' = [frame EXCEPT ![r].todo = @ \ {slug}]
      <3>1. After(r, frame[r].pc, frame[r].todo \ {slug}, frame[r].apps,
                  frame[r].left, frame[r].app, frame[r].doomed)
        BY <2>2, <2>3, LookUpNoneStep
      <3> QED  BY <2>2, <3>1, AuthentikFrame, AuthentikAfter
    <2>4. ASSUME NEW a \in Named(slug),
                 frame' = [frame EXCEPT ![r].pc = "list", ![r].app = a,
                                        ![r].todo = @ \ {slug}]
          PROVE  AuthentikInv'
      <3>1. a \in live  BY DEF Named
      <3>2. After(r, "list", frame[r].todo \ {slug}, frame[r].apps,
                  frame[r].left, a, frame[r].doomed)
        BY <2>2, <2>4, <3>1, LookUpAppStep
      <3> QED  BY <2>2, <3>2, AuthentikFrame, AuthentikAfter
    <2> QED  BY <2>1, <2>3, <2>4
  <1>14. ASSUME NEW r \in Requests, ListBindings(r) PROVE AuthentikInv'
    <2> DEFINE found == BindingsOf(frame[r].app)
    <2>1. After(r, IF found = {} THEN "unbind" ELSE "delete", frame[r].todo,
                frame[r].apps, frame[r].left, None, found)
      BY <1>14, ListBindingsStep
    <2> HIDE DEF found
    <2>2. CASE found = {}
      BY <1>14, <2>1, <2>2, AuthentikFrame, AuthentikAfter
         DEF ListBindings
    <2>3. CASE found # {}
      BY <1>14, <2>1, <2>3, AuthentikFrame, AuthentikAfter
         DEF ListBindings
    <2> QED  BY <2>2, <2>3
  <1>15. ASSUME NEW r \in Requests, DeleteBinding(r) PROVE AuthentikInv'
    <2>1. PICK b \in frame[r].doomed :
            /\ bindings' = bindings \ {b}
            /\ After(r, IF frame[r].doomed = {b} THEN "unbind" ELSE "delete",
                     frame[r].todo, frame[r].apps, frame[r].left,
                     frame[r].app, frame[r].doomed \ {b})
      BY <1>15, DeleteBindingStep
    <2>2. FrameAuthentik(r)'
      <3>1. UNCHANGED <<group, live, past>> /\ frame[r].pc = "delete"
        BY <1>15 DEF DeleteBinding
      <3>2. CASE frame[r].doomed = {b}
        BY <3>1, <3>2, <2>1 DEF After, AuthentikInv
      <3>3. CASE frame[r].doomed # {b}
        BY <3>1, <3>3, <2>1 DEF After, AuthentikInv
      <3> QED  BY <3>2, <3>3
    <2>3. ASSUME NEW q \in Requests \ {r} PROVE FrameAuthentik(q)'
      <3>1. frame'[q] = frame[q]  BY <2>1 DEF After
      <3> QED  BY <1>15, <3>1, AuthentikFrame DEF DeleteBinding
    <2> QED  BY <1>15, <2>1, <2>2, <2>3 DEF DeleteBinding, AuthentikInv
  <1>16. ASSUME NEW slug \in Slugs, Emit(slug) PROVE AuthentikInv'
    BY <1>16 DEF Emit, AuthentikInv
  <1>17. ASSUME NEW slug \in Slugs, Finalize(slug) PROVE AuthentikInv'
    BY <1>17 DEF Finalize, AuthentikInv, Named, TypeOK
  <1>18. ASSUME NEW a \in Apps, Register(a) PROVE AuthentikInv'
    BY <1>18 DEF Register, AuthentikInv, Named
  <1>19. CASE UNCHANGED vars
    BY <1>19 DEF vars, AuthentikInv
  <1> QED
    BY <1>1, <1>2, <1>3, <1>4, <1>5, <1>6, <1>7, <1>8, <1>9, <1>10, <1>11,
       <1>12, <1>13, <1>14, <1>15, <1>16, <1>17, <1>18, <1>19
       DEF Next, Grant, Revoke

\* The frame of a request, with what the group and the history are about.
FrameGranted(r) ==
    /\ Busy(r) /\ frame[r].op = "revoke" => frame[r].user \notin granted
    /\ frame[r].pc \in {"bind", "post"} /\ frame[r].firm =>
           frame[r].user \in members
Pairs == \A r, q \in Requests, u \in Users :
             Serves(r, "grant", u) /\ Serves(q, "revoke", u) => ~frame[r].firm

LEMMA GrantedParts ==
    GrantedInv <=> /\ granted \subseteq members
                   /\ \A r \in Requests : FrameGranted(r)
                   /\ Pairs
  BY DEF GrantedInv, FrameGranted, Pairs

\* A request that moves on serves whom it served.
LEMMA PairsAfter ==
    ASSUME Pairs, NEW r \in Requests, Busy(r),
           NEW pc, NEW todo, NEW apps, NEW left, NEW app, NEW doomed,
           After(r, pc, todo, apps, left, app, doomed)
    PROVE  Pairs'
  <1> SUFFICES ASSUME NEW p \in Requests, NEW q \in Requests, NEW u \in Users,
                      Serves(p, "grant", u)', Serves(q, "revoke", u)'
               PROVE  ~frame'[p].firm
    BY DEF Pairs
  <1>1. \A x \in Requests, op \in Ops : Serves(x, op, u)' => Serves(x, op, u)
    BY DEF After, Serves, Busy
  <1>2. Serves(p, "grant", u) /\ Serves(q, "revoke", u)
    BY <1>1
  <1>3. ~frame[p].firm
    BY <1>2 DEF Pairs
  <1>4. frame'[p].firm = frame[p].firm
    <2>1. CASE p = r  BY <2>1 DEF After
    <2>2. CASE p # r  BY <2>2 DEF After
    <2> QED  BY <2>1, <2>2
  <1> QED  BY <1>3, <1>4

LEMMA GrantedAfter ==
    ASSUME GrantedInv, NEW r \in Requests, Busy(r),
           NEW pc, NEW todo, NEW apps, NEW left, NEW app, NEW doomed,
           After(r, pc, todo, apps, left, app, doomed),
           UNCHANGED <<members, granted>>,
           pc \in {"bind", "post"} /\ frame[r].firm => frame[r].user \in members
    PROVE  GrantedInv'
  <1>1. Pairs'
    BY GrantedParts, PairsAfter
  <1>2. FrameGranted(r)'
    BY GrantedParts DEF FrameGranted, After, Busy
  <1>3. ASSUME NEW q \in Requests \ {r} PROVE FrameGranted(q)'
    <2>1. frame'[q] = frame[q]  BY DEF After
    <2> QED  BY <2>1, GrantedParts DEF FrameGranted, Busy
  <1>4. (granted \subseteq members)'
    BY GrantedParts
  <1> QED  BY <1>1, <1>2, <1>3, <1>4, GrantedParts DEF GrantedInv, FrameGranted, Pairs

\* A request that ends: only the history may change with it.
LEMMA GrantedRest ==
    ASSUME TypeOK, GrantedInv, NEW r \in Requests, frame' = [frame EXCEPT ![r] = Rest],
           members' = members, granted' \subseteq members,
           \A q \in Requests : Busy(q) /\ frame[q].op = "revoke" /\ q # r =>
                                   frame[q].user \notin granted'
    PROVE  GrantedInv'
  <1>1. frame'[r] = Rest /\ \A q \in Requests \ {r} : frame'[q] = frame[q]
    BY RestStep
  <1>2. FrameGranted(r)'
    BY <1>1, RestFacts DEF FrameGranted, Busy
  <1>3. ASSUME NEW q \in Requests \ {r} PROVE FrameGranted(q)'
    BY <1>1, GrantedParts DEF FrameGranted, Busy
  <1>4. Pairs'
    <2> SUFFICES ASSUME NEW p \in Requests, NEW q \in Requests, NEW u \in Users,
                        Serves(p, "grant", u)', Serves(q, "revoke", u)'
                 PROVE  ~frame'[p].firm
      BY DEF Pairs
    <2>1. p # r /\ q # r
      BY <1>1, RestFacts DEF Serves, Busy
    <2> QED  BY <2>1, <1>1, GrantedParts DEF Pairs, Serves, Busy
  <1> QED  BY <1>2, <1>3, <1>4 DEF GrantedInv, FrameGranted, Pairs

LEMMA GrantedNext == ASSUME TypeOK, GrantedInv, [Next]_vars PROVE GrantedInv'
  <1>0. ASSUME NEW r \in Requests, Error(r), UNCHANGED <<members, granted>>
        PROVE  GrantedInv'
    BY <1>0, GrantedRest DEF Error, GrantedInv
  <1>1. ASSUME NEW r \in Requests, Begin(r) PROVE GrantedInv'
    <2>1. PICK op \in Ops, u \in Users :
            /\ frame' = [q \in Requests |->
                 IF q = r THEN Arriving(op, u)
                 ELSE IF op = "revoke" /\ Serves(q, "grant", u)
                 THEN [frame[q] EXCEPT !.firm = FALSE]
                 ELSE frame[q]]
            /\ granted' = IF op = "revoke" THEN granted \ {u} ELSE granted
      BY <1>1 DEF Begin
    <2>2. /\ frame'[r] = Arriving(op, u)
          /\ \A q \in Requests \ {r} :
                 /\ frame'[q].pc = frame[q].pc /\ frame'[q].op = frame[q].op
                 /\ frame'[q].user = frame[q].user
                 /\ op = "revoke" /\ Serves(q, "grant", u) => ~frame'[q].firm
                 /\ frame'[q].firm => frame[q].firm
      BY <2>1, BeginStep
    <2>3. UNCHANGED members /\ granted' \subseteq granted
      BY <1>1, <2>1 DEF Begin
    <2>4. /\ frame'[r].pc \in {"find", "group"} /\ frame'[r].op = op
          /\ frame'[r].user = u
      BY <2>2, ArrivingFacts
    <2>5. FrameGranted(r)'
      BY <2>1, <2>3, <2>4 DEF FrameGranted
    <2>6. ASSUME NEW q \in Requests \ {r} PROVE FrameGranted(q)'
      BY <2>2, <2>3, GrantedParts DEF FrameGranted, Busy
    <2>7. Pairs'
      <3> SUFFICES ASSUME NEW p \in Requests, NEW q \in Requests, NEW v \in Users,
                          Serves(p, "grant", v)', Serves(q, "revoke", v)'
                   PROVE  ~frame'[p].firm
        BY DEF Pairs
      <3>1. p # q
        BY DEF Serves
      <3>2. CASE p = r
        <4>1. op = "grant" /\ v = u /\ Serves(q, "revoke", u)
          BY <3>1, <3>2, <2>2, <2>4 DEF Serves, Busy
        <4> QED  BY <4>1, <3>2, <2>2 DEF Arriving
      <3>3. CASE q = r
        <4>1. op = "revoke" /\ v = u /\ Serves(p, "grant", u)
          BY <3>1, <3>3, <2>2, <2>4 DEF Serves, Busy
        <4> QED  BY <4>1, <3>1, <3>3, <2>2
      <3>4. CASE p # r /\ q # r
        <4>1. Serves(p, "grant", v) /\ Serves(q, "revoke", v)
          BY <3>4, <2>2 DEF Serves, Busy
        <4> QED  BY <4>1, <3>4, <2>2, GrantedParts DEF Pairs
      <3> QED  BY <3>2, <3>3, <3>4
    <2> QED  BY <2>3, <2>5, <2>6, <2>7 DEF GrantedInv, FrameGranted, Pairs
  <1>2. ASSUME NEW r \in Requests, Answer(r) PROVE GrantedInv'
    <2>1. Busy(r) /\ UNCHANGED members /\ frame' = [frame EXCEPT ![r] = Rest]
      BY <1>2 DEF Answer, Through, Busy
    <2>2. CASE frame[r].op = "grant" /\ frame[r].firm
      <3>1. frame[r].user \in members /\ frame[r].user \in Users
        <4>1. frame[r].pc = "bind"
          BY <1>2, <2>2, StepFacts DEF Answer, Through
        <4> QED  BY <4>1, <2>1, <2>2, StepFacts, GrantedParts DEF FrameGranted
      <3>2. granted' = granted \cup {frame[r].user}
        BY <1>2, <2>2 DEF Answer
      <3>3. granted' \subseteq members
        BY <3>1, <3>2, GrantedParts
      <3>4. ASSUME NEW q \in Requests, Busy(q), frame[q].op = "revoke", q # r
            PROVE  frame[q].user \notin granted'
        <4>1. frame[q].user \notin granted
          BY <3>4, GrantedParts DEF FrameGranted
        <4>2. ASSUME frame[q].user = frame[r].user PROVE FALSE
          <5>1. /\ Serves(r, "grant", frame[r].user)
                /\ Serves(q, "revoke", frame[r].user)
            BY <2>1, <2>2, <3>4, <4>2 DEF Serves
          <5> QED  BY <5>1, <3>1, <2>2, GrantedParts DEF Pairs
        <4> QED  BY <4>1, <4>2, <3>2
      <3> QED  BY <2>1, <3>3, <3>4, GrantedRest
    <2>3. CASE ~(frame[r].op = "grant" /\ frame[r].firm)
      <3>1. granted' = granted
        BY <1>2, <2>3 DEF Answer
      <3> QED  BY <2>1, <3>1, GrantedRest DEF GrantedInv
    <2> QED  BY <2>2, <2>3
  <1>3. ASSUME NEW r \in Requests, BackendError(r) PROVE GrantedInv'
    BY <1>3, <1>0 DEF BackendError
  <1>4. ASSUME NEW r \in Requests, FindApp(r) PROVE GrantedInv'
    <2>1. PICK slug \in frame[r].todo :
            After(r, frame[r].pc, frame[r].todo \ {slug},
                  frame[r].apps \cup Named(slug), frame[r].left,
                  frame[r].app, frame[r].doomed)
      BY <1>4, FindAppStep
    <2>2. frame[r].pc = "find" /\ Busy(r) /\ UNCHANGED <<members, granted>>
      BY <1>4 DEF FindApp, Busy
    <2> QED  BY <2>1, <2>2, GrantedAfter
  <1>5. ASSUME NEW r \in Requests, Refuse(r) PROVE GrantedInv'
    BY <1>5, <1>0 DEF Refuse
  <1>6. ASSUME NEW r \in Requests, FindGroup(r) PROVE GrantedInv'
    <2>1. After(r, WithGroup(r), frame[r].todo, frame[r].apps, frame[r].left,
                frame[r].app, frame[r].doomed)
      BY <1>6, FindGroupStep
    <2>2. WithGroup(r) \notin {"bind", "post"}
      BY StepFacts DEF WithGroup
    <2>3. Busy(r) /\ UNCHANGED <<members, granted>>
      BY <1>6 DEF FindGroup, Busy
    <2> QED  BY <2>1, <2>2, <2>3, GrantedAfter
  <1>7. ASSUME NEW r \in Requests, CreateGroup(r) PROVE GrantedInv'
    <2>1. CASE group
      BY <1>7, <2>1, <1>0 DEF CreateGroup
    <2>2. CASE ~group
      <3>1. After(r, "add", frame[r].todo, frame[r].apps, frame[r].left,
                  frame[r].app, frame[r].doomed)
        BY <1>7, <2>2, CreateGroupStep
      <3>2. Busy(r) /\ UNCHANGED <<members, granted>>
        BY <1>7 DEF CreateGroup, Busy
      <3> QED  BY <3>1, <3>2, GrantedAfter
    <2> QED  BY <2>1, <2>2
  <1>8. ASSUME NEW r \in Requests, AddMember(r) PROVE GrantedInv'
    <2>1. After(r, "bind", frame[r].todo, frame[r].apps, frame[r].apps,
                frame[r].app, frame[r].doomed)
      BY <1>8, AddMemberStep
    <2>2. Busy(r) /\ members' = members \cup {frame[r].user} /\ UNCHANGED granted
      BY <1>8 DEF AddMember, MembersWith, Busy
    <2>3. frame[r].op = "grant"
      BY <1>8, StepFacts DEF AddMember
    <2>4. FrameGranted(r)'
      BY <2>1, <2>2, <2>3 DEF FrameGranted, After
    <2>5. ASSUME NEW q \in Requests \ {r} PROVE FrameGranted(q)'
      <3>1. frame'[q] = frame[q]  BY <2>1 DEF After
      <3> QED  BY <3>1, <2>2, GrantedParts DEF FrameGranted, Busy
    <2>6. Pairs' /\ (granted \subseteq members)'
      BY <2>1, <2>2, GrantedParts, PairsAfter
    <2> QED  BY <2>4, <2>5, <2>6 DEF GrantedInv, FrameGranted, Pairs
  <1>9. ASSUME NEW r \in Requests, ReadBindings(r) PROVE GrantedInv'
    <2>1. PICK a \in frame[r].left :
            After(r, IF Missing(a) THEN "post" ELSE "bind", frame[r].todo,
                  frame[r].apps, frame[r].left \ {a},
                  IF Missing(a) THEN a ELSE None, frame[r].doomed)
      BY <1>9, ReadBindingsStep
    <2>2. /\ frame[r].firm => frame[r].user \in members
          /\ Busy(r) /\ UNCHANGED <<members, granted>>
      BY <1>9, GrantedParts DEF ReadBindings, FrameGranted, Busy
    <2> QED  BY <2>1, <2>2, GrantedAfter
  <1>10. ASSUME NEW r \in Requests, PostBinding(r) PROVE GrantedInv'
    <2>1. CASE frame[r].app \in live
      <3>1. After(r, "bind", frame[r].todo, frame[r].apps, frame[r].left, None,
                  frame[r].doomed)
        BY <1>10, <2>1, PostBindingStep
      <3>2. /\ frame[r].firm => frame[r].user \in members
            /\ Busy(r) /\ UNCHANGED <<members, granted>>
        BY <1>10, GrantedParts DEF PostBinding, FrameGranted, Busy
      <3> QED  BY <3>1, <3>2, GrantedAfter
    <2>2. CASE frame[r].app \notin live
      BY <1>10, <2>2, <1>0 DEF PostBinding
    <2> QED  BY <2>1, <2>2
  <1>11. ASSUME NEW r \in Requests, RemoveMember(r) PROVE GrantedInv'
    <2>1. After(r, "reread", frame[r].todo, frame[r].apps, frame[r].left,
                frame[r].app, frame[r].doomed)
      BY <1>11, RemoveMemberStep
    <2>2. Busy(r) /\ members' = members \ {frame[r].user} /\ UNCHANGED granted
      BY <1>11 DEF RemoveMember, MembersWithout, Busy
    <2>3. frame[r].op = "revoke" /\ frame[r].user \in Users
      BY <1>11, <2>2, StepFacts DEF RemoveMember
    <2>4. (granted \subseteq members)'
      BY <2>2, <2>3, GrantedParts DEF FrameGranted
    <2>5. FrameGranted(r)'
      BY <2>1, <2>2, GrantedParts DEF FrameGranted, After, Busy
    <2>6. ASSUME NEW q \in Requests \ {r} PROVE FrameGranted(q)'
      <3>1. frame'[q] = frame[q]  BY <2>1 DEF After
      <3>2. ASSUME frame[q].pc \in {"bind", "post"}, frame[q].firm
            PROVE  frame[q].user # frame[r].user
        <4> SUFFICES ASSUME frame[q].user = frame[r].user PROVE FALSE
          OBVIOUS
        <4>1. /\ Serves(q, "grant", frame[r].user)
              /\ Serves(r, "revoke", frame[r].user)
          BY <2>2, <2>3, <3>2, StepFacts DEF Serves, Busy
        <4> QED  BY <4>1, <2>3, <3>2, GrantedParts DEF Pairs
      <3> QED  BY <3>1, <3>2, <2>2, GrantedParts DEF FrameGranted, Busy
    <2>7. Pairs'
      BY <2>1, <2>2, GrantedParts, PairsAfter
    <2> QED  BY <2>4, <2>5, <2>6, <2>7 DEF GrantedInv, FrameGranted, Pairs
  <1>12. ASSUME NEW r \in Requests, Reread(r) PROVE GrantedInv'
    <2>1. After(r, IF Remaining(r) = {} THEN "unbind" ELSE "answer",
                frame[r].todo, frame[r].apps, frame[r].left, frame[r].app,
                frame[r].doomed)
      BY <1>12, RereadStep
    <2>2. (IF Remaining(r) = {} THEN "unbind" ELSE "answer") \notin {"bind", "post"}
      OBVIOUS
    <2>3. Busy(r) /\ UNCHANGED <<members, granted>>
      BY <1>12 DEF Reread, Busy
    <2> QED  BY <2>1, <2>2, <2>3, GrantedAfter
  <1>13. ASSUME NEW r \in Requests, LookUp(r) PROVE GrantedInv'
    <2>1. PICK slug \in frame[r].todo :
               \/ frame' = [frame EXCEPT ![r].todo = @ \ {slug}]
               \/ \E a \in Named(slug) :
                     frame' = [frame EXCEPT ![r].pc = "list", ![r].app = a,
                                            ![r].todo = @ \ {slug}]
      BY <1>13 DEF LookUp
    <2>2. frame[r].pc = "unbind" /\ Busy(r) /\ UNCHANGED <<members, granted>>
      BY <1>13 DEF LookUp, Busy
    <2>3. CASE frame' = [frame EXCEPT ![r].todo = @ \ {slug}]
      <3>1. After(r, frame[r].pc, frame[r].todo \ {slug}, frame[r].apps,
                  frame[r].left, frame[r].app, frame[r].doomed)
        BY <2>2, <2>3, LookUpNoneStep
      <3> QED  BY <2>2, <3>1, GrantedAfter
    <2>4. ASSUME NEW a \in Named(slug),
                 frame' = [frame EXCEPT ![r].pc = "list", ![r].app = a,
                                        ![r].todo = @ \ {slug}]
          PROVE  GrantedInv'
      <3>1. a \in live  BY DEF Named
      <3>2. After(r, "list", frame[r].todo \ {slug}, frame[r].apps,
                  frame[r].left, a, frame[r].doomed)
        BY <2>2, <2>4, <3>1, LookUpAppStep
      <3> QED  BY <2>2, <3>2, GrantedAfter
    <2> QED  BY <2>1, <2>3, <2>4
  <1>14. ASSUME NEW r \in Requests, ListBindings(r) PROVE GrantedInv'
    <2> DEFINE found == BindingsOf(frame[r].app)
    <2>1. After(r, IF found = {} THEN "unbind" ELSE "delete", frame[r].todo,
                frame[r].apps, frame[r].left, None, found)
      BY <1>14, ListBindingsStep
    <2> HIDE DEF found
    <2>2. (IF found = {} THEN "unbind" ELSE "delete") \notin {"bind", "post"}
      OBVIOUS
    <2>3. Busy(r) /\ UNCHANGED <<members, granted>>
      BY <1>14 DEF ListBindings, Busy
    <2> QED  BY <2>1, <2>2, <2>3, GrantedAfter
  <1>15. ASSUME NEW r \in Requests, DeleteBinding(r) PROVE GrantedInv'
    <2>1. PICK b \in frame[r].doomed :
            After(r, IF frame[r].doomed = {b} THEN "unbind" ELSE "delete",
                  frame[r].todo, frame[r].apps, frame[r].left,
                  frame[r].app, frame[r].doomed \ {b})
      BY <1>15, DeleteBindingStep
    <2>2. (IF frame[r].doomed = {b} THEN "unbind" ELSE "delete")
              \notin {"bind", "post"}
      OBVIOUS
    <2>3. Busy(r) /\ UNCHANGED <<members, granted>>
      BY <1>15 DEF DeleteBinding, Busy
    <2> QED  BY <2>1, <2>2, <2>3, GrantedAfter
  <1>16. ASSUME NEW slug \in Slugs, Emit(slug) PROVE GrantedInv'
    BY <1>16 DEF Emit, GrantedInv, Serves, Busy
  <1>17. ASSUME NEW slug \in Slugs, Finalize(slug) PROVE GrantedInv'
    BY <1>17 DEF Finalize, GrantedInv, Serves, Busy
  <1>18. ASSUME NEW a \in Apps, Register(a) PROVE GrantedInv'
    BY <1>18 DEF Register, GrantedInv, Serves, Busy
  <1>19. CASE UNCHANGED vars
    BY <1>19 DEF vars, GrantedInv, Serves, Busy
  <1> QED
    BY <1>1, <1>2, <1>3, <1>4, <1>5, <1>6, <1>7, <1>8, <1>9, <1>10, <1>11,
       <1>12, <1>13, <1>14, <1>15, <1>16, <1>17, <1>18, <1>19
       DEF Next, Grant, Revoke

-----------------------------------------------------------------------------
(***************************************************************************)
(* The request that runs alone.                                            *)
(***************************************************************************)

\* The conjuncts of SoloInv, by name.
SoloFrame(r) ==
    /\ frame[r].op = solo.op
    /\ frame[r].pc \in {"bind", "post"} => frame[r].user \in members /\ Bound(r)
    /\ frame[r].pc \in {"group", "remove", "reread"} => frame[r].todo = solo.slugs
    /\ frame[r].pc \in {"unbind", "list", "delete"} => Opening(r)
    /\ frame[r].pc = "answer" => Open
Alone  == \A r, q \in Requests : Busy(r) /\ Busy(q) => r = q
Found  == solo.apps \subseteq live \cup past
Closed == solo.op = "grant" => \A a \in solo.apps \cap live : Gated(a)

LEMMA SoloParts ==
    SoloInv <=> (solo # None => /\ Found /\ Alone
                                /\ \A r \in Requests : Busy(r) => SoloFrame(r)
                                /\ Quiet => Open /\ Closed)
  BY DEF SoloInv, SoloFrame, Alone, Found, Closed

\* A request that moves on alone is still alone: what is left to show is its
\* own part of the invariant.
LEMMA SoloAfter ==
    ASSUME SoloInv, NEW r \in Requests, Busy(r), frame'[r].pc # "idle",
           \A q \in Requests \ {r} : frame'[q] = frame[q],
           UNCHANGED <<solo, live, past>>,
           solo # None => SoloFrame(r)'
    PROVE  SoloInv'
  <1> SUFFICES ASSUME solo # None
               PROVE  /\ Found' /\ Alone'
                      /\ \A q \in Requests : Busy(q)' => SoloFrame(q)'
                      /\ Quiet' => Open' /\ Closed'
    BY SoloParts DEF SoloFrame, Alone, Found, Closed, SoloInv
  <1>1. Found /\ \A q \in Requests \ {r} : ~Busy(q)
    BY SoloParts DEF Alone
  <1>2. Busy(r)' /\ \A q \in Requests \ {r} : ~Busy(q)'
    BY <1>1 DEF Busy
  <1> QED  BY <1>1, <1>2 DEF Found, Alone, Quiet

LEMMA SoloNext ==
    ASSUME TypeOK, AuthentikInv, SoloInv, [Next]_vars PROVE SoloInv'
  <1>0. ASSUME NEW r \in Requests, Error(r) PROVE SoloInv'
    BY <1>0 DEF Error, SoloInv
  <1>1. ASSUME NEW r \in Requests, Begin(r) PROVE SoloInv'
    <2>1. PICK op \in Ops, u \in Users :
            /\ frame' = [q \in Requests |->
                 IF q = r THEN Arriving(op, u)
                 ELSE IF op = "revoke" /\ Serves(q, "grant", u)
                 THEN [frame[q] EXCEPT !.firm = FALSE]
                 ELSE frame[q]]
            /\ solo' = IF Quiet THEN [op |-> op, slugs |-> emitted, apps |-> {}]
                                ELSE None
      BY <1>1 DEF Begin
    <2>2. CASE ~Quiet
      BY <2>1, <2>2 DEF SoloInv
    <2>3. CASE Quiet
      <3>1. /\ solo'.op = op /\ solo'.slugs = emitted /\ solo'.apps = {}
            /\ UNCHANGED <<live, past>>
        BY <1>1, <2>1, <2>3 DEF Begin
      <3>2. /\ frame'[r].pc = IF op = "grant" THEN "find" ELSE "group"
            /\ frame'[r].op = op /\ frame'[r].todo = emitted
        BY <2>1, BeginStep, ArrivingFacts
      <3>3. Busy(r)' /\ \A q \in Requests \ {r} : ~Busy(q)'
        <4>1. \A q \in Requests \ {r} : frame'[q].pc = frame[q].pc
          BY <2>1, BeginStep
        <4> QED  BY <4>1, <3>2, <2>3 DEF Quiet, Busy
      <3>4. SoloFrame(r)'
        BY <3>1, <3>2 DEF SoloFrame
      <3>5. Found' /\ Alone' /\ ~Quiet'
        BY <3>1, <3>3 DEF Found, Alone, Quiet
      <3> QED  BY <3>3, <3>4, <3>5 DEF SoloInv, SoloFrame, Alone, Found
    <2> QED  BY <2>2, <2>3
  <1>2. ASSUME NEW r \in Requests, Answer(r) PROVE SoloInv'
    <2>1. CASE solo = None
      BY <1>2, <2>1 DEF Answer, SoloInv
    <2>2. CASE solo # None
      <3>1. /\ solo'.op = solo.op /\ solo'.slugs = solo.slugs
            /\ solo'.apps = frame[r].apps
            /\ UNCHANGED <<members, bindings, live, past>>
        <4>1. solo \in Solo /\ solo' = [solo EXCEPT !.apps = frame[r].apps]
          BY <1>2, <2>2 DEF Answer, TypeOK
        <4> QED  BY <4>1, <1>2 DEF Solo, Answer
      <3>2. Busy(r) /\ SoloFrame(r) /\ \A q \in Requests \ {r} : ~Busy(q)
        BY <1>2, <2>2, SoloParts DEF Answer, Through, Busy, Alone
      <3>3. \A q \in Requests : ~Busy(q)'
        BY <1>2, <3>2, RestStep, RestFacts DEF Answer, Busy
      <3>4. Open
        <4>1. CASE frame[r].pc = "answer"
          BY <4>1, <3>2 DEF SoloFrame
        <4>2. CASE frame[r].pc = "bind"
          BY <4>2, <3>2 DEF SoloFrame, Open
        <4>3. CASE frame[r].pc = "unbind" /\ frame[r].todo = {}
          <5>1. frame[r].app = None /\ frame[r].doomed = {}
            BY <4>3, AuthentikFrame DEF FrameAuthentik
          <5>2. \A b \in bindings : b[1] # None
            BY AccessAssumption DEF TypeOK, Bindings
          <5> QED  BY <4>3, <5>1, <5>2, <3>2 DEF SoloFrame, Opening, Open
        <4> QED  BY <1>2, <4>1, <4>2, <4>3 DEF Answer, Through
      <3>5. solo.op = "grant" => \A a \in frame[r].apps \cap live : Gated(a)
        <4> SUFFICES ASSUME solo.op = "grant",
                            NEW a \in frame[r].apps \cap live
                     PROVE  Gated(a)
          OBVIOUS
        <4>1. frame[r].pc = "bind" /\ frame[r].left = {}
          BY <1>2, <3>2, StepFacts DEF Answer, Through, SoloFrame
        <4>2. frame[r].app = None /\ Bound(r)
          BY <4>1, <3>2, AuthentikFrame DEF FrameAuthentik, SoloFrame
        <4>3. a # None
          BY AccessAssumption DEF TypeOK
        <4> QED  BY <4>1, <4>2, <4>3 DEF Bound
      <3>6. Found'
        BY <3>1, AuthentikFrame DEF FrameAuthentik, Found
      <3>7. Open' /\ Closed'
        BY <3>1, <3>4, <3>5 DEF Open, Closed, Gated
      <3> QED  BY <3>3, <3>6, <3>7 DEF SoloInv, Found, Closed
    <2> QED  BY <2>1, <2>2
  <1>3. ASSUME NEW r \in Requests, BackendError(r) PROVE SoloInv'
    BY <1>3, <1>0 DEF BackendError
  <1>4. ASSUME NEW r \in Requests, FindApp(r) PROVE SoloInv'
    <2>1. PICK slug \in frame[r].todo :
            After(r, frame[r].pc, frame[r].todo \ {slug},
                  frame[r].apps \cup Named(slug), frame[r].left,
                  frame[r].app, frame[r].doomed)
      BY <1>4, FindAppStep
    <2>2. frame[r].pc = "find" /\ Busy(r) /\ UNCHANGED <<solo, live, past>>
      BY <1>4 DEF FindApp, Busy
    <2>3. ASSUME solo # None PROVE SoloFrame(r)'
      <3>1. SoloFrame(r)  BY <2>2, <2>3, SoloParts
      <3> QED  BY <3>1, <2>1, <2>2 DEF SoloFrame, After
    <2> QED  BY <2>1, <2>2, <2>3, SoloAfter DEF After
  <1>5. ASSUME NEW r \in Requests, Refuse(r) PROVE SoloInv'
    BY <1>5, <1>0 DEF Refuse
  <1>6. ASSUME NEW r \in Requests, FindGroup(r) PROVE SoloInv'
    <2>1. After(r, WithGroup(r), frame[r].todo, frame[r].apps, frame[r].left,
                frame[r].app, frame[r].doomed)
      BY <1>6, FindGroupStep
    <2>2. /\ frame[r].pc \in {"find", "group"} /\ Busy(r)
          /\ UNCHANGED <<solo, live, past, members, bindings>>
      BY <1>6 DEF FindGroup, Busy
    <2>3. /\ WithGroup(r) \in {"add", "create", "remove", "answer"}
          /\ WithGroup(r) = "remove" => frame[r].pc = "group"
          /\ WithGroup(r) = "answer" => ~group
      BY <2>2, StepFacts DEF WithGroup
    <2>4. ASSUME solo # None PROVE SoloFrame(r)'
      <3>1. SoloFrame(r)  BY <2>2, <2>4, SoloParts
      <3>2. WithGroup(r) = "answer" => Open'
        BY <2>2, <2>3 DEF AuthentikInv, Open
      <3> QED  BY <3>1, <3>2, <2>1, <2>2, <2>3 DEF SoloFrame, After
    <2>5. frame'[r].pc # "idle"
      BY <2>1, <2>3 DEF After
    <2> QED  BY <2>1, <2>2, <2>4, <2>5, SoloAfter DEF After
  <1>7. ASSUME NEW r \in Requests, CreateGroup(r) PROVE SoloInv'
    <2>1. CASE group
      BY <1>7, <2>1, <1>0 DEF CreateGroup
    <2>2. CASE ~group
      <3>1. After(r, "add", frame[r].todo, frame[r].apps, frame[r].left,
                  frame[r].app, frame[r].doomed)
        BY <1>7, <2>2, CreateGroupStep
      <3>2. Busy(r) /\ UNCHANGED <<solo, live, past>>
        BY <1>7, <2>2 DEF CreateGroup, Busy
      <3>3. ASSUME solo # None PROVE SoloFrame(r)'
        <4>1. SoloFrame(r)  BY <3>2, <3>3, SoloParts
        <4> QED  BY <4>1, <3>1, <3>2 DEF SoloFrame, After
      <3> QED  BY <3>1, <3>2, <3>3, SoloAfter DEF After
    <2> QED  BY <2>1, <2>2
  <1>8. ASSUME NEW r \in Requests, AddMember(r) PROVE SoloInv'
    <2>1. After(r, "bind", frame[r].todo, frame[r].apps, frame[r].apps,
                frame[r].app, frame[r].doomed)
      BY <1>8, AddMemberStep
    <2>2. /\ Busy(r) /\ UNCHANGED <<solo, live, past>>
          /\ members' = members \cup {frame[r].user}
      BY <1>8 DEF AddMember, MembersWith, Busy
    <2>3. ASSUME solo # None PROVE SoloFrame(r)'
      <3>1. SoloFrame(r)  BY <2>2, <2>3, SoloParts
      <3> QED  BY <3>1, <2>1, <2>2 DEF SoloFrame, After, Bound
    <2> QED  BY <2>1, <2>2, <2>3, SoloAfter DEF After
  <1>9. ASSUME NEW r \in Requests, ReadBindings(r) PROVE SoloInv'
    <2>1. PICK a \in frame[r].left :
            After(r, IF Missing(a) THEN "post" ELSE "bind", frame[r].todo,
                  frame[r].apps, frame[r].left \ {a},
                  IF Missing(a) THEN a ELSE None, frame[r].doomed)
      BY <1>9, ReadBindingsStep
    <2>2. /\ frame[r].pc = "bind" /\ Busy(r)
          /\ UNCHANGED <<solo, live, past, members, bindings>>
      BY <1>9 DEF ReadBindings, Busy
    <2>3. frame'[r].pc \in {"bind", "post"}
      BY <2>1 DEF After
    <2>4. ASSUME solo # None PROVE SoloFrame(r)'
      <3>1. SoloFrame(r) /\ Bound(r) /\ frame[r].user \in members
        BY <2>2, <2>4, SoloParts DEF SoloFrame
      <3>2. frame[r].app = None /\ \A c \in live : c # None
        BY <2>2, AuthentikFrame, AccessAssumption DEF FrameAuthentik, TypeOK
      <3>3. ASSUME NEW c \in frame[r].apps \cap live
            PROVE  \/ Gated(c) \/ c \in frame[r].left \ {a}
                   \/ c = (IF Missing(a) THEN a ELSE None)
        BY <3>1, <3>2 DEF Bound, Missing
      <3>4. Bound(r)'
        BY <3>3, <2>1, <2>2 DEF Bound, After, Gated
      <3> QED  BY <3>1, <3>4, <2>1, <2>2, <2>3 DEF SoloFrame, After
    <2> QED  BY <2>1, <2>2, <2>3, <2>4, SoloAfter DEF After
  <1>10. ASSUME NEW r \in Requests, PostBinding(r) PROVE SoloInv'
    <2>1. CASE frame[r].app \in live
      <3>1. After(r, "bind", frame[r].todo, frame[r].apps, frame[r].left, None,
                  frame[r].doomed)
        BY <1>10, <2>1, PostBindingStep
      <3>2. /\ frame[r].pc = "post" /\ Busy(r)
            /\ UNCHANGED <<solo, live, past, members>>
            /\ bindings' = bindings \cup {<<frame[r].app, r>>}
        BY <1>10, <2>1 DEF PostBinding, Busy
      <3>3. ASSUME solo # None PROVE SoloFrame(r)'
        <4>1. SoloFrame(r) /\ Bound(r) /\ frame[r].user \in members
          BY <3>2, <3>3, SoloParts DEF SoloFrame
        <4>2. Bound(r)'
          BY <4>1, <3>1, <3>2 DEF Bound, After, Gated
        <4> QED  BY <4>1, <4>2, <3>1, <3>2 DEF SoloFrame, After
      <3> QED  BY <3>1, <3>2, <3>3, SoloAfter DEF After
    <2>2. CASE frame[r].app \notin live
      BY <1>10, <2>2, <1>0 DEF PostBinding
    <2> QED  BY <2>1, <2>2
  <1>11. ASSUME NEW r \in Requests, RemoveMember(r) PROVE SoloInv'
    <2>1. After(r, "reread", frame[r].todo, frame[r].apps, frame[r].left,
                frame[r].app, frame[r].doomed)
      BY <1>11, RemoveMemberStep
    <2>2. frame[r].pc = "remove" /\ Busy(r) /\ UNCHANGED <<solo, live, past>>
      BY <1>11 DEF RemoveMember, Busy
    <2>3. ASSUME solo # None PROVE SoloFrame(r)'
      <3>1. SoloFrame(r)  BY <2>2, <2>3, SoloParts
      <3> QED  BY <3>1, <2>1, <2>2 DEF SoloFrame, After
    <2> QED  BY <2>1, <2>2, <2>3, SoloAfter DEF After
  <1>12. ASSUME NEW r \in Requests, Reread(r) PROVE SoloInv'
    <2>1. After(r, IF members = {} THEN "unbind" ELSE "answer",
                frame[r].todo, frame[r].apps, frame[r].left, frame[r].app,
                frame[r].doomed)
      BY <1>12, RereadStep DEF Remaining
    <2>2. /\ frame[r].pc = "reread" /\ Busy(r)
          /\ UNCHANGED <<solo, live, past, members, bindings>>
      BY <1>12 DEF Reread, Busy
    <2>3. frame'[r].pc \in {"unbind", "answer"}
      BY <2>1 DEF After
    <2>4. ASSUME solo # None PROVE SoloFrame(r)'
      <3>1. SoloFrame(r) /\ frame[r].todo = solo.slugs
        BY <2>2, <2>4, SoloParts DEF SoloFrame
      <3>2. CASE members = {}
        <4>1. Opening(r)'
          BY <3>1, <3>2, <2>1, <2>2 DEF Opening, After
        <4> QED  BY <4>1, <3>1, <3>2, <2>1, <2>2 DEF SoloFrame, After
      <3>3. CASE members # {}
        BY <3>1, <3>3, <2>1, <2>2 DEF SoloFrame, After, Open
      <3> QED  BY <3>2, <3>3
    <2> QED  BY <2>1, <2>2, <2>3, <2>4, SoloAfter DEF After
  <1>13. ASSUME NEW r \in Requests, LookUp(r) PROVE SoloInv'
    <2>1. PICK slug \in frame[r].todo :
               \/ /\ Named(slug) = {}
                  /\ frame' = [frame EXCEPT ![r].todo = @ \ {slug}]
               \/ \E a \in Named(slug) :
                     frame' = [frame EXCEPT ![r].pc = "list", ![r].app = a,
                                            ![r].todo = @ \ {slug}]
      BY <1>13 DEF LookUp
    <2>2. /\ frame[r].pc = "unbind" /\ Busy(r)
          /\ UNCHANGED <<solo, live, past, members, bindings>>
      BY <1>13 DEF LookUp, Busy
    <2>3. /\ frame[r].app = None /\ frame[r].doomed = {}
          /\ \A b \in bindings : b[1] \in live /\ b[1] # None
      BY <2>2, AuthentikFrame, AccessAssumption
         DEF FrameAuthentik, AuthentikInv, TypeOK
    <2>4. ASSUME solo # None
          PROVE  /\ SoloFrame(r) /\ members = {}
                 /\ \A b \in bindings : SlugOf[b[1]] \in solo.slugs =>
                        SlugOf[b[1]] \in frame[r].todo
      <3>1. SoloFrame(r)  BY <2>2, <2>4, SoloParts
      <3>2. Opening(r)    BY <3>1, <2>2 DEF SoloFrame
      <3> QED  BY <3>1, <3>2, <2>3 DEF Opening
    <2>5. CASE Named(slug) = {} /\ frame' = [frame EXCEPT ![r].todo = @ \ {slug}]
      <3>1. After(r, frame[r].pc, frame[r].todo \ {slug}, frame[r].apps,
                  frame[r].left, frame[r].app, frame[r].doomed)
        BY <2>2, <2>5, LookUpNoneStep
      <3>2. \A b \in bindings : SlugOf[b[1]] # slug
        BY <2>3, <2>5 DEF Named
      <3>3. ASSUME solo # None PROVE SoloFrame(r)'
        <4>1. Opening(r)'
          BY <3>1, <3>2, <3>3, <2>2, <2>4 DEF Opening, After
        <4> QED  BY <4>1, <3>1, <3>3, <2>2, <2>4 DEF SoloFrame, After
      <3>4. frame'[r].pc # "idle" /\ \A q \in Requests \ {r} : frame'[q] = frame[q]
        BY <3>1, <2>2 DEF After
      <3> QED  BY <3>3, <3>4, <2>2, SoloAfter
    <2>6. ASSUME NEW a \in Named(slug),
                 frame' = [frame EXCEPT ![r].pc = "list", ![r].app = a,
                                        ![r].todo = @ \ {slug}]
          PROVE  SoloInv'
      <3>1. a \in live /\ SlugOf[a] = slug  BY DEF Named
      <3>2. After(r, "list", frame[r].todo \ {slug}, frame[r].apps,
                  frame[r].left, a, frame[r].doomed)
        BY <2>2, <2>6, <3>1, LookUpAppStep
      <3>3. \A b \in bindings : SlugOf[b[1]] = slug => b[1] = a
        BY <2>3, <3>1 DEF AuthentikInv
      <3>4. ASSUME solo # None PROVE SoloFrame(r)'
        <4>1. Opening(r)'
          BY <3>2, <3>3, <3>4, <2>2, <2>4 DEF Opening, After
        <4> QED  BY <4>1, <3>2, <3>4, <2>2, <2>4 DEF SoloFrame, After
      <3>5. frame'[r].pc # "idle" /\ \A q \in Requests \ {r} : frame'[q] = frame[q]
        BY <3>2 DEF After
      <3> QED  BY <3>4, <3>5, <2>2, SoloAfter
    <2> QED  BY <2>1, <2>5, <2>6
  <1>14. ASSUME NEW r \in Requests, ListBindings(r) PROVE SoloInv'
    <2> DEFINE found == BindingsOf(frame[r].app)
    <2>1. After(r, IF found = {} THEN "unbind" ELSE "delete", frame[r].todo,
                frame[r].apps, frame[r].left, None, found)
      BY <1>14, ListBindingsStep
    <2>2. /\ frame[r].pc = "list" /\ Busy(r)
          /\ UNCHANGED <<solo, live, past, members, bindings>>
          /\ frame[r].doomed = {}
      BY <1>14, AuthentikFrame DEF ListBindings, Busy, FrameAuthentik
    <2>3. \A b \in bindings : b[1] = frame[r].app => b \in found
      BY DEF BindingsOf
    <2> HIDE DEF found
    <2>4. frame'[r].pc \in {"unbind", "delete"}
      BY <2>1 DEF After
    <2>5. ASSUME solo # None PROVE SoloFrame(r)'
      <3>1. SoloFrame(r)  BY <2>2, <2>5, SoloParts
      <3>2. Opening(r)    BY <3>1, <2>2 DEF SoloFrame
      <3>3. Opening(r)'
        BY <3>2, <2>1, <2>2, <2>3 DEF Opening, After
      <3> QED  BY <3>1, <3>3, <2>1, <2>2, <2>4 DEF SoloFrame, After
    <2> QED  BY <2>1, <2>2, <2>4, <2>5, SoloAfter DEF After
  <1>15. ASSUME NEW r \in Requests, DeleteBinding(r) PROVE SoloInv'
    <2>1. PICK b \in frame[r].doomed :
            /\ bindings' = bindings \ {b}
            /\ After(r, IF frame[r].doomed = {b} THEN "unbind" ELSE "delete",
                     frame[r].todo, frame[r].apps, frame[r].left,
                     frame[r].app, frame[r].doomed \ {b})
      BY <1>15, DeleteBindingStep
    <2>2. /\ frame[r].pc = "delete" /\ Busy(r)
          /\ UNCHANGED <<solo, live, past, members>>
      BY <1>15 DEF DeleteBinding, Busy
    <2>3. frame'[r].pc \in {"unbind", "delete"}
      BY <2>1 DEF After
    <2>4. ASSUME solo # None PROVE SoloFrame(r)'
      <3>1. SoloFrame(r)  BY <2>2, <2>4, SoloParts
      <3>2. Opening(r)    BY <3>1, <2>2 DEF SoloFrame
      <3>3. Opening(r)'
        BY <3>2, <2>1, <2>2 DEF Opening, After
      <3> QED  BY <3>1, <3>3, <2>1, <2>2, <2>3 DEF SoloFrame, After
    <2> QED  BY <2>1, <2>2, <2>3, <2>4, SoloAfter DEF After
  <1>16. ASSUME NEW slug \in Slugs, Emit(slug) PROVE SoloInv'
    BY <1>16 DEF Emit, SoloInv, Bound, Open, Opening, Busy, Quiet, Gated
  <1>17. ASSUME NEW slug \in Slugs, Finalize(slug) PROVE SoloInv'
    <2>1. PICK gone \in {Named(slug), {}} :
            /\ live' = live \ gone /\ past' = past \cup gone
            /\ bindings' = {b \in bindings : b[1] \notin gone}
      BY <1>17 DEF Finalize
    <2>2. UNCHANGED <<members, frame, solo>>
      BY <1>17 DEF Finalize
    <2>3. /\ bindings' \subseteq bindings /\ live' \subseteq live
          /\ live \cup past \subseteq live' \cup past'
      BY <2>1
    <2>4. \A a \in live' : Gated(a) => Gated(a)'
      BY <2>1 DEF Gated
    <2>5. \A r \in Requests : Bound(r) => Bound(r)'
      BY <2>2, <2>3, <2>4 DEF Bound
    <2>6. (Open => Open') /\ \A r \in Requests : Opening(r) => Opening(r)'
      BY <2>2, <2>3 DEF Open, Opening
    <2>7. Closed => Closed'
      BY <2>2, <2>3, <2>4 DEF Closed
    <2>8. \A r \in Requests : SoloFrame(r) => SoloFrame(r)'
      BY <2>2, <2>5, <2>6 DEF SoloFrame
    <2>9. (Found => Found') /\ (Alone => Alone') /\ (Quiet' => Quiet)
          /\ \A r \in Requests : Busy(r)' => Busy(r)
      BY <2>2, <2>3 DEF Found, Alone, Quiet, Busy
    <2> QED  BY <2>2, <2>6, <2>7, <2>8, <2>9, SoloParts DEF SoloInv, SoloFrame, Alone, Found, Closed
  <1>18. ASSUME NEW a \in Apps, Register(a) PROVE SoloInv'
    <2>1. /\ live' = live \cup {a} /\ a \notin live \cup past
          /\ UNCHANGED <<past, members, bindings, frame, solo>>
      BY <1>18 DEF Register
    <2>2. \A r \in Requests : Bound(r) => Bound(r)'
      BY <2>1, AuthentikFrame DEF FrameAuthentik, Bound, Gated
    <2>3. (Open <=> Open') /\ \A r \in Requests : Opening(r) => Opening(r)'
      BY <2>1 DEF Open, Opening
    <2>4. (Found => Found') /\ (Found /\ Closed => Closed')
      BY <2>1 DEF Found, Closed, Gated
    <2>5. \A r \in Requests : SoloFrame(r) => SoloFrame(r)'
      BY <2>1, <2>2, <2>3 DEF SoloFrame
    <2>6. (Alone => Alone') /\ (Quiet' => Quiet)
          /\ \A r \in Requests : Busy(r)' => Busy(r)
      BY <2>1 DEF Alone, Quiet, Busy
    <2> QED  BY <2>1, <2>3, <2>4, <2>5, <2>6, SoloParts DEF SoloInv, SoloFrame, Alone, Found, Closed
  <1>19. CASE UNCHANGED vars
    BY <1>19 DEF vars, SoloInv, Bound, Open, Opening, Busy, Quiet, Gated
  <1> QED
    BY <1>1, <1>2, <1>3, <1>4, <1>5, <1>6, <1>7, <1>8, <1>9, <1>10, <1>11,
       <1>12, <1>13, <1>14, <1>15, <1>16, <1>17, <1>18, <1>19
       DEF Next, Grant, Revoke

-----------------------------------------------------------------------------
(***************************************************************************)
(* The theorems.                                                           *)
(***************************************************************************)

LEMMA AccessInvariant == Spec => []AccessInv
  <1>1. Init => AccessInv
    <2>1. Init => AuthentikInv /\ GrantedInv /\ SoloInv
      BY RestFacts DEF Init, AuthentikInv, GrantedInv, SoloInv, Serves, Busy
    <2> QED  BY <2>1, TypeInit DEF AccessInv
  <1>2. AccessInv /\ [Next]_vars => AccessInv'
    BY TypeNext, AuthentikNext, GrantedNext, SoloNext DEF AccessInv
  <1> QED  BY <1>1, <1>2, PTL DEF Spec

\* A user whom a grant has let in gets through to every application until
\* somebody starts to revoke it: grant_access adds to the group and binds after
\* that, and no other request takes out any user but its own
\* (routers/identity.py, grant_access and revoke_access).
THEOREM GrantedUsersGetThrough == Spec => []GrantedGetThrough
  <1>1. AccessInv => GrantedGetThrough
    BY DEF AccessInv, GrantedInv, GrantedGetThrough, Admits
  <1> QED  BY <1>1, AccessInvariant, PTL

\* Whoever is alone with Authentik repairs what others left behind: after a
\* grant or a revocation that met no other request and was answered with 200,
\* no slug it listed is bound to a group without members
\* (routers/identity.py:181-189).
THEOREM LoneRequestUnlocks == Spec => []NoLockout
  <1>1. AccessInv => NoLockout
    BY DEF AccessInv, SoloInv, NoLockout, Open, Gated
  <1> QED  BY <1>1, AccessInvariant, PTL

\* And a grant of that kind leaves every application it found closed to all but
\* the members (routers/identity.py:152-157).
THEOREM LoneGrantCloses == Spec => []GrantCloses
  <1>1. AccessInv => GrantCloses
    BY DEF AccessInv, SoloInv, GrantCloses
  <1> QED  BY <1>1, AccessInvariant, PTL
=============================================================================
