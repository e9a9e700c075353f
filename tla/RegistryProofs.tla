---------------------------- MODULE RegistryProofs ----------------------------
(***************************************************************************)
(* Proofs about Registry, for every set of nodes and of calls, whichever   *)
(* connections break: two roots stay only if a handler was dropped, a      *)
(* child listed without a record knows it failed unless the undo of a call *)
(* it had given up on came after the one that succeeded, and registrations *)
(* that do not overlap leave a tree.                                       *)
(***************************************************************************)
EXTENDS Registry, TLAPS

(* What appending and removing does to the members of a list. *)
LEMMA ListEdits ==
  ASSUME NEW S, NEW s \in Seq(S), NEW e \in S
  PROVE  /\ Append(s, e) \in Seq(S)
         /\ ToSet(Append(s, e)) = ToSet(s) \cup {e}
         /\ \A k \in 1..Len(s) : RemoveAt(s, k) \in Seq(S) /\ ToSet(RemoveAt(s, k)) \subseteq ToSet(s)
<1>1. Append(s, e) \in Seq(S)
  OBVIOUS
<1>2. ToSet(Append(s, e)) = ToSet(s) \cup {e}
  <2>1. ToSet(Append(s, e)) \subseteq ToSet(s) \cup {e}
    BY DEF ToSet
  <2>2. ToSet(s) \subseteq ToSet(Append(s, e))
    <3> SUFFICES ASSUME NEW k \in DOMAIN s PROVE s[k] \in ToSet(Append(s, e))
      BY DEF ToSet
    <3>1. k \in DOMAIN Append(s, e) /\ Append(s, e)[k] = s[k]
      OBVIOUS
    <3> QED BY <3>1 DEF ToSet
  <2>3. e \in ToSet(Append(s, e))
    <3>1. Len(s) + 1 \in DOMAIN Append(s, e) /\ Append(s, e)[Len(s) + 1] = e
      OBVIOUS
    <3> QED BY <3>1 DEF ToSet
  <2> QED BY <2>1, <2>2, <2>3
<1>3. ASSUME NEW k \in 1..Len(s)
      PROVE  RemoveAt(s, k) \in Seq(S) /\ ToSet(RemoveAt(s, k)) \subseteq ToSet(s)
  <2> DEFINE front == SubSeq(s, 1, k - 1)
             back  == SubSeq(s, k + 1, Len(s))
  <2>1. front \in Seq(S) /\ Len(front) = k - 1 /\ \A l \in 1..(k - 1) : front[l] = s[l]
    OBVIOUS
  <2>2. back \in Seq(S) /\ Len(back) = Len(s) - k /\ \A l \in 1..(Len(s) - k) : back[l] = s[k + l]
    OBVIOUS
  <2>3. RemoveAt(s, k) = front \o back
    BY DEF RemoveAt
  <2> HIDE DEF front, back
  <2>4. front \o back \in Seq(S)
    BY <2>1, <2>2
  <2>5. ASSUME NEW l \in DOMAIN (front \o back) PROVE (front \o back)[l] \in ToSet(s)
    <3>1. l \in 1..(Len(s) - 1)
      BY <2>1, <2>2
    <3>2. CASE l <= k - 1
      <4>1. (front \o back)[l] = s[l] /\ l \in DOMAIN s
        BY <2>1, <2>2, <3>1, <3>2
      <4> QED BY <4>1 DEF ToSet
    <3>3. CASE l > k - 1
      <4>1. (front \o back)[l] = s[l + 1] /\ l + 1 \in DOMAIN s
        BY <2>1, <2>2, <3>1, <3>3
      <4> QED BY <4>1 DEF ToSet
    <3> QED BY <3>1, <3>2, <3>3
  <2> QED BY <2>3, <2>4, <2>5 DEF ToSet
<1> QED BY <1>1, <1>2, <1>3

(* The registration that takes a step, and the step it takes. *)
LEMMA Steps ==
  ASSUME [Next]_vars
  PROVE  UNCHANGED vars \/ \E c \in Calls : Register(c) \/ Break(c) \/ Dropped(c)
BY DEF Next, Finished

-----------------------------------------------------------------------------
LEMMA TypeStep ==
  ASSUME IInv, NEW c \in Calls, Register(c)
  PROVE  TypeOK'
<1> USE RegistryAssumption DEF IInv, TypeOK, Goto, Leave, Labels, Ended, walk
<1>0. lost' = lost
  BY DEF Register, Check, Undo, Link, LinkRefused, Insert, ReadRoots, Passed, Visit, VisitGone,
     Member, MemberMissing, ParentGone, ParentDiffers, ParentAgrees, Locate, LocateRefused,
     Unlink, UnlinkRefused, Drop
<1>1. CASE Link(c)
  <2>1. Under[c] \in Ids /\ Append(children[Under[c]], Subject[c]) \in Seq(Ids)
    BY <1>1, ListEdits DEF Link
  <2> QED BY <1>1, <2>1 DEF Link
<1>2. CASE LinkRefused(c)
  BY <1>2 DEF LinkRefused
<1>3. CASE Insert(c)
  BY <1>3 DEF Insert
<1>4. CASE ReadRoots(c)
  <2>1. CASE Goto(c, "rejected") /\ UNCHANGED stack
    BY <1>4, <2>1 DEF ReadRoots
  <2>2. ASSUME NEW i \in Ids, stack' = [stack EXCEPT ![c] = <<i>>], Goto(c, "visiting")
        PROVE  TypeOK'
    <3>1. <<i>> \in Seq(Ids)
      OBVIOUS
    <3> QED BY <1>4, <2>2, <3>1 DEF ReadRoots
  <2> QED BY <1>4, <2>1, <2>2 DEF ReadRoots
<1>5. CASE Passed(c)
  BY <1>5 DEF Passed
<1>6. CASE Visit(c)
  <2>1. Last(stack[c]) \in Ids /\ Front(stack[c]) \in Seq(Ids)
    BY <1>6 DEF Visit, Last, Front
  <2> QED BY <1>6, <2>1 DEF Visit
<1>7. CASE VisitGone(c)
  BY <1>7 DEF VisitGone
<1>8. CASE Member(c) /\ Tail(todo[c]) = <<>>
  <2>1. Goto(c, "parents") /\ todo' = [todo EXCEPT ![c] = kids[c]]
    BY <1>8 DEF Member
  <2> QED BY <1>8, <2>1 DEF Member
<1>9. CASE Member(c) /\ Tail(todo[c]) # <<>>
  <2>1. Tail(todo[c]) \in Seq(Ids)
    BY <1>9 DEF Member
  <2> QED BY <1>9, <2>1 DEF Member
<1>10. CASE MemberMissing(c)
  BY <1>10 DEF MemberMissing
<1>11. CASE ParentGone(c)
  BY <1>11 DEF ParentGone
<1>12. CASE ParentDiffers(c)
  BY <1>12 DEF ParentDiffers
<1>13. CASE ParentAgrees(c)
  <2>1. Tail(todo[c]) \in Seq(Ids)
    BY <1>13 DEF ParentAgrees, OwnRecord
  <2>2. stack[c] \o kids[c] \in Seq(Ids)
    OBVIOUS
  <2>3. CASE Tail(todo[c]) = <<>>
    <3>1. /\ Goto(c, "visiting")
          /\ stack' = [stack EXCEPT ![c] = stack[c] \o kids[c]]
          /\ kids' = [kids EXCEPT ![c] = <<>>]
      BY <1>13, <2>3 DEF ParentAgrees
    <3>2. stack' \in [Calls -> Seq(Ids)] /\ kids' \in [Calls -> Seq(Ids)]
      BY <2>2, <3>1
    <3> QED BY <1>13, <2>1, <3>1, <3>2 DEF ParentAgrees
  <2>4. CASE Tail(todo[c]) # <<>>
    BY <1>13, <2>1, <2>4 DEF ParentAgrees
  <2> QED BY <2>3, <2>4
<1>14. CASE Locate(c)
  BY <1>14 DEF Locate
<1>15. CASE LocateRefused(c)
  BY <1>15 DEF LocateRefused
<1>16. CASE Unlink(c)
  <2>1. RemoveAt(children[Under[c]], pos[c]) \in Seq(Ids)
    BY <1>16, ListEdits DEF Unlink, OwnRecord
  <2> QED BY <1>16, <2>1 DEF Unlink
<1>17. CASE UnlinkRefused(c)
  BY <1>17 DEF UnlinkRefused
<1>18. CASE Drop(c)
  BY <1>18 DEF Drop
<1> QED
  BY <1>0, <1>1, <1>2, <1>3, <1>4, <1>5, <1>6, <1>7, <1>8, <1>9, <1>10, <1>11, <1>12, <1>13,
     <1>14, <1>15, <1>16, <1>17, <1>18 DEF Register, Check, Undo
-----------------------------------------------------------------------------
(* A step of c moves the task of c only, and tells the caller of c only.   *)
Frame(c) ==
  /\ pc' = [pc EXCEPT ![c] = pc'[c]]
  /\ pc'[c] \in Labels \ {"idle"}
  /\ lost' = lost
  /\ told' = IF pc'[c] \notin Ended \/ c \in lost THEN told
             ELSE [told EXCEPT ![Subject[c]] = IF pc'[c] = "ok" THEN "ok" ELSE "error"]
  /\ pc[c] \notin Ended
  /\ pc'[c] \notin {"left", "cut"}
  /\ pc[c] = "idle" => \A d \in Running \ lost : Subject[d] # Subject[c]
  /\ ~crossed' => ~crossed /\ (Running \ {c} = {} \/ c \in Running)
  /\ \A d \in Calls \ {c} : pos'[d] = pos[d] /\ todo'[d] = todo[d] /\ kids'[d] = kids[d]

LEMMA FrameStep ==
  ASSUME IInv, NEW c \in Calls, Register(c)
  PROVE  Frame(c)
<1> USE RegistryAssumption DEF IInv, TypeOK, Goto, Leave, Labels, Ended, walk, Frame
<1>1. CASE Link(c) \/ LinkRefused(c)
  BY <1>1 DEF Link, LinkRefused, CanStart
<1>2. CASE Insert(c)
  BY <1>2 DEF Insert, CanStart
<1>3. CASE ReadRoots(c)
  BY <1>3 DEF ReadRoots
<1>4. CASE Passed(c) \/ VisitGone(c)
  BY <1>4 DEF Passed, VisitGone
<1>5. CASE Visit(c)
  BY <1>5 DEF Visit
<1>6. CASE Member(c)
  <2>1. c \in Running
    BY <1>6 DEF Member, Running
  <2>2. CASE Tail(todo[c]) = <<>>
    BY <1>6, <2>1, <2>2 DEF Member
  <2>3. CASE Tail(todo[c]) # <<>>
    BY <1>6, <2>1, <2>3 DEF Member
  <2> QED BY <2>2, <2>3
<1>7. CASE MemberMissing(c) \/ ParentGone(c) \/ ParentDiffers(c)
  BY <1>7 DEF MemberMissing, ParentGone, ParentDiffers
<1>8. CASE ParentAgrees(c)
  <2>1. c \in Running
    BY <1>8 DEF ParentAgrees, Running
  <2>2. CASE Tail(todo[c]) = <<>>
    BY <1>8, <2>1, <2>2 DEF ParentAgrees
  <2>3. CASE Tail(todo[c]) # <<>>
    BY <1>8, <2>1, <2>3 DEF ParentAgrees
  <2> QED BY <2>2, <2>3
<1>9. CASE Locate(c) \/ LocateRefused(c)
  BY <1>9 DEF Locate, LocateRefused
<1>10. CASE Unlink(c) \/ UnlinkRefused(c)
  BY <1>10 DEF Unlink, UnlinkRefused
<1>11. CASE Drop(c)
  BY <1>11 DEF Drop
<1> QED
  BY <1>1, <1>2, <1>3, <1>4, <1>5, <1>6, <1>7, <1>8, <1>9, <1>10, <1>11
  DEF Register, Check, Undo

(* The tasks in progress are those before, c while it is not over. *)
LEMMA RunningStep ==
  ASSUME IInv, NEW c \in Calls, Frame(c)
  PROVE  /\ Running' = IF pc'[c] \in Ended THEN Running \ {c} ELSE Running \cup {c}
         /\ OneCallPerNode'
         /\ c \notin lost => \A d \in Running \ (lost \cup {c}) : Subject[d] # Subject[c]
         /\ \A k \in Ids : Undone(k) => Undone(k)'
<1>0. lost' = lost /\ lost \subseteq Calls
  BY DEF Frame, IInv, TypeOK
<1>1. Running' = IF pc'[c] \in Ended THEN Running \ {c} ELSE Running \cup {c}
  BY DEF Frame, Running, IInv, TypeOK, Labels, Ended
<1>2. c \notin lost => \A d \in Running \ (lost \cup {c}) : Subject[d] # Subject[c]
  BY DEF Frame, IInv, OneCallPerNode, Running
<1>3. OneCallPerNode'
  BY <1>0, <1>1, <1>2 DEF OneCallPerNode, IInv
<1>4. \A d \in lost : pc[d] = "error" => pc'[d] = "error"
  BY <1>0 DEF Frame, IInv, TypeOK, Ended
<1> QED BY <1>0, <1>1, <1>2, <1>3, <1>4 DEF Undone

(* Most steps leave the records alone but for a child listed or unlisted.  *)
Quiet(c) ==
  /\ UNCHANGED <<registered, parent>>
  /\ \A i \in Ids : ToSet(children'[i]) \subseteq
                      ToSet(children[i]) \cup (IF pc'[c] = "linked" /\ i = Under[c] THEN {Subject[c]} ELSE {})
  /\ Under[c] = NoParent => pc[c] \notin {"inserted", "rejected"}

LEMMA RecordStep ==
  ASSUME IInv, NEW c \in Calls, Register(c)
  PROVE  ReadRoots(c) \/ Insert(c) \/ Drop(c) \/ Quiet(c)
<1> USE RegistryAssumption DEF IInv, TypeOK, Quiet
<1>1. CASE Link(c)
  <2>1. \A i \in Ids : ToSet(children'[i]) \subseteq
                           ToSet(children[i]) \cup (IF i = Under[c] THEN {Subject[c]} ELSE {})
    BY <1>1, ListEdits DEF Link
  <2>2. pc'[c] = "linked"
    BY <1>1 DEF Link, Goto
  <2> QED BY <1>1, <2>1, <2>2 DEF Link, CanStart
<1>2. CASE LinkRefused(c)
  BY <1>2 DEF LinkRefused, CanStart
<1>3. CASE Passed(c) \/ VisitGone(c) \/ Visit(c) \/ Member(c) \/ MemberMissing(c)
  BY <1>3 DEF Passed, VisitGone, Visit, Member, MemberMissing
<1>4. CASE ParentGone(c) \/ ParentDiffers(c) \/ ParentAgrees(c)
  BY <1>4 DEF ParentGone, ParentDiffers, ParentAgrees
<1>5. CASE Locate(c) \/ LocateRefused(c) \/ UnlinkRefused(c)
  BY <1>5 DEF Locate, LocateRefused, UnlinkRefused
<1>6. CASE Unlink(c)
  <2>1. pos[c] \in 1..Len(children[Under[c]]) /\ children[Under[c]] \in Seq(Ids)
    BY <1>6 DEF Unlink, OwnRecord
  <2>2. ToSet(RemoveAt(children[Under[c]], pos[c])) \subseteq ToSet(children[Under[c]])
    BY <2>1, ListEdits
  <2>3. \A i \in Ids : ToSet(children'[i]) \subseteq ToSet(children[i])
    BY <1>6, <2>2 DEF Unlink
  <2> QED BY <1>6, <2>3 DEF Unlink
<1> QED BY <1>1, <1>2, <1>3, <1>4, <1>5, <1>6 DEF Register, Check, Undo

(* What the step of c leaves true of c itself. *)
OwnAfter(c) ==
  /\ pc'[c] \notin Ended \cup {"idle", "linked"} =>
       Subject[c] \in registered' \/ Undone(Subject[c]) \/ c \in lost
  /\ pc'[c] \in {"linked", "located", "unlinked"} => Under[c] # NoParent
  /\ pc'[c] = "located" => pos'[c] > 0
  /\ pc'[c] \in {"members", "parents"} => todo'[c] # <<>> /\ kids'[c] # <<>>
  /\ pc'[c] = "ok" => Subject[c] \in registered' \/ Undone(Subject[c]) \/ c \in lost

LEMMA OwnStep ==
  ASSUME IInv, NEW c \in Calls, Register(c)
  PROVE  OwnAfter(c)
<1> USE RegistryAssumption DEF IInv, TypeOK, OwnRecord, OwnAfter, Goto, Leave, Ended, Labels
<1>1. CASE Link(c) \/ LinkRefused(c)
  BY <1>1 DEF Link, LinkRefused
<1>2. CASE Insert(c)
  BY <1>2 DEF Insert
<1>3. CASE ReadRoots(c)
  BY <1>3 DEF ReadRoots
<1>4. CASE Passed(c) \/ VisitGone(c)
  BY <1>4 DEF Passed, VisitGone
<1>5. CASE Visit(c)
  BY <1>5 DEF Visit
<1>6. CASE Member(c)
  BY <1>6 DEF Member
<1>7. CASE MemberMissing(c) \/ ParentGone(c) \/ ParentDiffers(c)
  BY <1>7 DEF MemberMissing, ParentGone, ParentDiffers
<1>8. CASE ParentAgrees(c)
  BY <1>8 DEF ParentAgrees
<1>9. CASE LocateRefused(c)
  BY <1>9 DEF LocateRefused
<1>12. CASE Locate(c)
  <2>1. PICK k \in Nat \ {0} : pos' = [pos EXCEPT ![c] = k]
    <3>1. PICK k \in DOMAIN children[Under[c]] : pos' = [pos EXCEPT ![c] = k]
      BY <1>12 DEF Locate
    <3>2. k \in Nat \ {0}
      BY <1>12 DEF Locate
    <3> QED BY <3>1, <3>2
  <2>2. pos'[c] > 0
    BY <2>1
  <2> QED BY <1>12, <2>2 DEF Locate
<1>10. CASE Unlink(c) \/ UnlinkRefused(c)
  BY <1>10 DEF Unlink, UnlinkRefused
<1>11. CASE Drop(c)
  BY <1>11 DEF Drop
<1> QED
  BY <1>1, <1>2, <1>3, <1>4, <1>5, <1>6, <1>7, <1>8, <1>9, <1>10, <1>11, <1>12
  DEF Register, Check, Undo

(* A record is there as long as a call is working on it. *)
LEMMA RecordsStep ==
  ASSUME IInv, NEW c \in Calls, Register(c)
  PROVE  OwnRecord'
<1>1. Frame(c) /\ OwnAfter(c)
  BY FrameStep, OwnStep
<1>2. /\ c \notin lost => \A d \in Running \ (lost \cup {c}) : Subject[d] # Subject[c]
      /\ \A k \in Ids : Undone(k) => Undone(k)'
  BY <1>1, RunningStep
<1>3. \/ registered \subseteq registered'
      \/ registered' = registered \ {Subject[c]} /\ pc'[c] = "error"
  BY RecordStep DEF ReadRoots, Insert, Drop, Quiet, Goto, IInv, TypeOK
<1>4. lost' = lost
  BY <1>1 DEF Frame
<1> SUFFICES ASSUME NEW d \in Calls PROVE OwnRecord!(d)'
  BY DEF OwnRecord
<1>5. CASE d = c
  BY <1>1, <1>2, <1>4, <1>5, RegistryAssumption DEF OwnAfter
<1>6. CASE d # c
  <2>1. pc'[d] = pc[d] /\ pos'[d] = pos[d] /\ todo'[d] = todo[d] /\ kids'[d] = kids[d]
    BY <1>1, <1>6 DEF Frame, IInv, TypeOK
  <2>2. ASSUME pc[d] \notin Ended \cup {"idle", "linked"}, d \notin lost
        PROVE  Subject[d] \in registered' \/ Undone(Subject[d])'
    <3>1. Subject[d] \in registered \/ Undone(Subject[d])
      BY <2>2 DEF IInv, OwnRecord
    <3>2. CASE registered' = registered \ {Subject[c]} /\ pc'[c] = "error" /\ Subject[d] = Subject[c]
      <4>1. d \in Running \ (lost \cup {c})
        BY <1>6, <2>2 DEF Running
      <4>2. c \in lost
        BY <1>2, <3>2, <4>1
      <4> QED BY <1>4, <3>2, <4>2 DEF Undone
    <3>3. CASE ~(registered' = registered \ {Subject[c]} /\ pc'[c] = "error" /\ Subject[d] = Subject[c])
      BY <1>2, <1>3, <3>1, <3>3, RegistryAssumption
    <3> QED BY <3>2, <3>3
  <2> QED BY <1>4, <2>1, <2>2 DEF IInv, OwnRecord
<1> QED BY <1>5, <1>6

(* A root that is inserted is unsettled until its call has counted the     *)
(* roots; the count settles it only if it is alone.                        *)
Unsettled(c, i, j) ==
  Under[c] = NoParent /\ Subject[c] \in {i, j} /\ pc[c] \in {"inserted", "rejected", "cut"}

LEMMA RootStep ==
  ASSUME IInv, NEW c \in Calls, Register(c)
  PROVE  OneSettledRoot'
<1>1. Frame(c)
  BY FrameStep
<1>2. \A d \in Calls \ {c} : pc'[d] = pc[d]
  BY <1>1 DEF Frame, IInv, TypeOK
<1> SUFFICES ASSUME NEW i \in Roots', NEW j \in Roots', i # j
             PROVE  \E d \in Calls : Unsettled(d, i, j)'
  BY DEF OneSettledRoot, Unsettled
<1>3. ASSUME Roots' \subseteq Roots, Under[c] = NoParent => ~(Unsettled(c, i, j))
      PROVE  \E d \in Calls : Unsettled(d, i, j)'
  <2>1. PICK d \in Calls : Unsettled(d, i, j)
    BY <1>3 DEF IInv, OneSettledRoot, Unsettled
  <2>2. d # c
    BY <1>3, <2>1 DEF Unsettled
  <2> QED BY <1>2, <2>1, <2>2 DEF Unsettled
<1>4. CASE Quiet(c)
  BY <1>1, <1>3, <1>4 DEF Quiet, Roots, Unsettled, Frame, Ended
<1>5. CASE ReadRoots(c)
  <2>1. Roots' = Roots /\ i \in Ids /\ j \in Ids
    BY <1>5 DEF ReadRoots, Roots, IInv, TypeOK
  <2>2. \A k \in Ids : Roots # {k}
    BY <2>1
  <2>3. Goto(c, "rejected") /\ pc[c] = "inserted"
    BY <1>5, <2>2 DEF ReadRoots
  <2>4. pc'[c] = "rejected"
    BY <2>3 DEF Goto, IInv, TypeOK
  <2>5. PICK d \in Calls : Unsettled(d, i, j)
    BY <2>1 DEF IInv, OneSettledRoot, Unsettled
  <2> QED BY <1>2, <2>4, <2>5 DEF Unsettled
<1>6. CASE Insert(c)
  <2>1. pc'[c] = "inserted"
    BY <1>6 DEF Insert, Goto, IInv, TypeOK
  <2>2. CASE Under[c] = NoParent /\ Subject[c] \in {i, j}
    BY <2>1, <2>2 DEF Unsettled
  <2>3. CASE ~(Under[c] = NoParent /\ Subject[c] \in {i, j})
    <3>1. {i, j} \subseteq Roots
      BY <1>6, <2>3, RegistryAssumption DEF Insert, Roots, IInv, TypeOK
    <3>2. PICK d \in Calls : Unsettled(d, i, j)
      BY <3>1 DEF IInv, OneSettledRoot, Unsettled
    <3> QED BY <1>2, <2>3, <3>2 DEF Unsettled
  <2> QED BY <2>2, <2>3
<1>7. CASE Drop(c)
  <2>1. Roots' \subseteq Roots /\ Subject[c] \notin {i, j}
    BY <1>7, RegistryAssumption DEF Drop, Roots, IInv, TypeOK
  <2> QED BY <1>3, <2>1 DEF Unsettled
<1> QED BY <1>4, <1>5, <1>6, <1>7, RecordStep

(* Only a call of the node itself takes its record away, and says so if it *)
(* is listened to.                                                         *)
LEMMA ToldStep ==
  ASSUME IInv, NEW c \in Calls, Register(c)
  PROVE  ToldTrue'
<1>1. Frame(c) /\ OwnAfter(c)
  BY FrameStep, OwnStep
<1>2. /\ \A i \in Ids \ {Subject[c]} : told'[i] = told[i]
      /\ pc'[c] \notin Ended \/ c \in lost => told' = told
      /\ pc'[c] \in Ended /\ c \notin lost => told'[Subject[c]] # "nothing"
      /\ pc'[c] = "error" /\ c \notin lost => told'[Subject[c]] = "error"
      /\ pc'[c] # "ok" => told'[Subject[c]] \in {told[Subject[c]], "error"}
      /\ lost' = lost
      /\ \A i \in Ids : told[i] # "nothing" => told'[i] # "nothing"
  BY <1>1, RegistryAssumption DEF Frame, IInv, TypeOK, Ended
<1>3. /\ Running' = IF pc'[c] \in Ended THEN Running \ {c} ELSE Running \cup {c}
      /\ \A k \in Ids : Undone(k) => Undone(k)'
  BY <1>1, RunningStep
<1>4. /\ registered \ {Subject[c]} \subseteq registered'
      /\ Subject[c] \in registered \ registered' => pc'[c] = "error"
  BY RecordStep DEF ReadRoots, Insert, Drop, Quiet, Goto, IInv, TypeOK
<1>5. ASSUME NEW i \in Ids, told'[i] = "ok" PROVE i \in registered' \/ Undone(i)'
  <2>1. CASE i = Subject[c] /\ pc'[c] = "ok" /\ c \notin lost
    BY <1>1, <1>3, <2>1 DEF OwnAfter
  <2>2. CASE i = Subject[c] /\ ~(pc'[c] = "ok" /\ c \notin lost)
    <3>1. told[i] = "ok"
      BY <1>2, <1>5, <2>2
    <3>2. i \in registered \/ Undone(i)
      BY <3>1 DEF IInv, ToldTrue
    <3>3. i \in registered \ registered' => c \in lost /\ pc'[c] = "error"
      BY <1>2, <1>4, <1>5, <2>2
    <3>4. c \in lost /\ pc'[c] = "error" => Undone(i)'
      BY <1>2, <2>2 DEF Undone
    <3> QED BY <1>3, <3>2, <3>3, <3>4
  <2>3. CASE i # Subject[c]
    BY <1>2, <1>3, <1>4, <1>5, <2>3 DEF IInv, ToldTrue
  <2> QED BY <2>1, <2>2, <2>3
<1>a. ASSUME NEW d \in lost' PROVE pc'[d] # "idle" /\ told'[Subject[d]] # "nothing"
  <2>1. d \in lost /\ d \in Calls
    BY <1>2, <1>a DEF IInv, TypeOK
  <2>2. pc[d] # "idle" /\ told[Subject[d]] # "nothing"
    BY <2>1 DEF IInv, ToldTrue
  <2>3. pc'[d] # "idle"
    BY <1>1, <2>1, <2>2 DEF Frame, IInv, TypeOK
  <2> QED BY <1>2, <2>1, <2>2, <2>3, RegistryAssumption
<1>6. ASSUME NEW i \in Ids PROVE ToSet(children'[i]) \subseteq ToSet(children[i]) \cup {Subject[c]}
  <2>1. CASE Insert(c) \/ Drop(c)
    <3>1. children'[i] \in {children[i], <<>>}
      BY <2>1 DEF Insert, Drop, IInv, TypeOK
    <3>2. ToSet(<<>>) = {}
      BY DEF ToSet
    <3> QED BY <3>1, <3>2
  <2> QED BY <2>1, RecordStep DEF ReadRoots, Quiet
<1>7. ASSUME NEW i \in Ids, NEW k \in ToSet(children'[i])
      PROVE  told'[k] # "nothing" \/ \E d \in Running' : Subject[d] = k
  <2>1. k \in Ids
    <3>1. ToSet(children[i]) \subseteq Ids
      BY DEF IInv, TypeOK, ToSet
    <3> QED BY <1>6, <3>1, RegistryAssumption
  <2>2. CASE k = Subject[c]
    <3>1. pc'[c] \in Ended /\ c \in lost => told[k] # "nothing"
      BY <2>2 DEF IInv, ToldTrue
    <3> QED BY <1>2, <1>3, <2>1, <2>2, <3>1
  <2>3. CASE k # Subject[c]
    BY <1>2, <1>3, <1>6, <2>1, <2>3 DEF IInv, ToldTrue
  <2> QED BY <2>2, <2>3
<1> QED BY <1>5, <1>7, <1>a DEF ToldTrue

-----------------------------------------------------------------------------
(* Calls that come one at a time.                                          *)
LEMMA Listing ==
  ASSUME NEW S, NEW s \in Seq(S)
  PROVE  /\ ToSet(s) \subseteq S
         /\ s # <<>> => Head(s) \in ToSet(s) /\ Last(s) \in ToSet(s)
         /\ s # <<>> => ToSet(Tail(s)) \subseteq ToSet(s) /\ ToSet(Front(s)) \subseteq ToSet(s)
         /\ \A t \in Seq(S) : ToSet(s \o t) = ToSet(s) \cup ToSet(t)
<1>1. DOMAIN s = 1..Len(s) /\ Len(s) \in Nat /\ ToSet(s) = {s[k] : k \in 1..Len(s)}
  BY DEF ToSet
<1>2. ToSet(s) \subseteq S
  BY <1>1
<1>3. ASSUME s # <<>>
      PROVE  /\ Head(s) \in ToSet(s) /\ Last(s) \in ToSet(s)
             /\ ToSet(Tail(s)) \subseteq ToSet(s) /\ ToSet(Front(s)) \subseteq ToSet(s)
  <2>1. Len(s) > 0
    BY <1>3
  <2>2. Head(s) = s[1] /\ Last(s) = s[Len(s)]
    BY <1>3 DEF Last
  <2>3. /\ Tail(s) \in Seq(S) /\ Len(Tail(s)) = Len(s) - 1
        /\ \A k \in 1..(Len(s) - 1) : Tail(s)[k] = s[k + 1]
    BY <2>1
  <2>4. /\ Front(s) \in Seq(S) /\ Len(Front(s)) = Len(s) - 1
        /\ \A k \in 1..(Len(s) - 1) : Front(s)[k] = s[k]
    <3>1. Front(s) = SubSeq(s, 1, Len(s) - 1)
      BY DEF Front
    <3>2. ASSUME NEW n \in 0..Len(s)
          PROVE  /\ SubSeq(s, 1, n) \in Seq(S) /\ Len(SubSeq(s, 1, n)) = n
                 /\ \A k \in 1..n : SubSeq(s, 1, n)[k] = s[k]
      OBVIOUS
    <3>3. Len(s) - 1 \in 0..Len(s)
      BY <1>1, <2>1
    <3> QED BY <3>1, <3>2, <3>3
  <2>5. ToSet(Tail(s)) \subseteq ToSet(s)
    BY <1>1, <2>1, <2>3 DEF ToSet
  <2>6. ToSet(Front(s)) \subseteq ToSet(s)
    BY <1>1, <2>1, <2>4 DEF ToSet
  <2> QED BY <1>1, <2>1, <2>2, <2>5, <2>6
<1>4. ASSUME NEW t \in Seq(S) PROVE ToSet(s \o t) = ToSet(s) \cup ToSet(t)
  <2>1. /\ s \o t \in Seq(S) /\ Len(s \o t) = Len(s) + Len(t) /\ Len(t) \in Nat
        /\ \A k \in 1..Len(s) : (s \o t)[k] = s[k]
        /\ \A k \in 1..Len(t) : (s \o t)[Len(s) + k] = t[k]
    OBVIOUS
  <2>2. ToSet(s \o t) \subseteq ToSet(s) \cup ToSet(t)
    <3> SUFFICES ASSUME NEW k \in 1..(Len(s) + Len(t)) PROVE (s \o t)[k] \in ToSet(s) \cup ToSet(t)
      BY <2>1 DEF ToSet
    <3>1. CASE k <= Len(s)
      BY <1>1, <2>1, <3>1 DEF ToSet
    <3>2. CASE k > Len(s)
      <4>1. k - Len(s) \in 1..Len(t) /\ Len(s) + (k - Len(s)) = k
        BY <1>1, <2>1, <3>2
      <4>2. (s \o t)[k] = t[k - Len(s)]
        BY <2>1, <4>1
      <4> QED BY <4>1, <4>2 DEF ToSet
    <3> QED BY <1>1, <2>1, <3>1, <3>2
  <2>3. ToSet(s) \subseteq ToSet(s \o t)
    <3> SUFFICES ASSUME NEW k \in 1..Len(s) PROVE s[k] \in ToSet(s \o t)
      BY <1>1
    <3> QED BY <1>1, <2>1 DEF ToSet
  <2>4. ToSet(t) \subseteq ToSet(s \o t)
    <3> SUFFICES ASSUME NEW k \in 1..Len(t) PROVE t[k] \in ToSet(s \o t)
      BY DEF ToSet
    <3>1. Len(s) + k \in DOMAIN (s \o t) /\ (s \o t)[Len(s) + k] = t[k]
      BY <1>1, <2>1
    <3> QED BY <3>1 DEF ToSet
  <2> QED BY <2>2, <2>3, <2>4
<1> QED BY <1>2, <1>3, <1>4

(* Records and lists come from calls.                                      *)
LEMMA ByCallStep ==
  ASSUME IInv, ByCall, NEW c \in Calls, Register(c)
  PROVE  ByCall'
<1>1. Frame(c)
  BY FrameStep
<1>2. pc'[c] # "idle" /\ \A d \in Calls : pc[d] # "idle" => pc'[d] # "idle"
  BY <1>1 DEF Frame, IInv, TypeOK
<1>3. ASSUME NEW i \in registered'
      PROVE  \E d \in Calls : Subject[d] = i /\ Under[d] = parent'[i] /\ pc'[d] # "idle"
  <2>1. CASE Insert(c) /\ i = Subject[c]
    BY <1>2, <2>1, RegistryAssumption DEF Insert, IInv, TypeOK
  <2>2. CASE ~(Insert(c) /\ i = Subject[c])
    <3>1. i \in registered /\ parent'[i] = parent[i]
      BY <1>3, <2>2, RecordStep, RegistryAssumption DEF ReadRoots, Insert, Drop, Quiet, IInv, TypeOK
    <3> QED BY <1>2, <3>1 DEF ByCall
  <2> QED BY <2>1, <2>2
<1>4. ASSUME NEW i \in Ids, NEW k \in ToSet(children'[i])
      PROVE  \E d \in Calls : Subject[d] = k /\ Under[d] = i /\ pc'[d] # "idle"
  <2>1. CASE k \in ToSet(children[i])
    BY <1>2, <2>1 DEF ByCall
  <2>2. CASE k \notin ToSet(children[i])
    <3>1. ASSUME Insert(c) \/ Drop(c) PROVE FALSE
      <4>1. children'[i] \in {children[i], <<>>}
        BY <3>1 DEF Insert, Drop, IInv, TypeOK
      <4>2. ToSet(<<>>) = {}
        BY DEF ToSet
      <4> QED BY <1>4, <2>2, <4>1, <4>2
    <3>2. k = Subject[c] /\ i = Under[c]
      BY <1>4, <2>2, <3>1, RecordStep DEF ReadRoots, Quiet
    <3> QED BY <1>2, <3>2
  <2> QED BY <2>1, <2>2
<1> QED BY <1>3, <1>4 DEF ByCall

LEMMA AloneStep ==
  ASSUME IInv, TreeInv, NEW c \in Calls, Register(c), ~crossed', ~Moved', ~CutShort'
  PROVE  /\ ~CutShort /\ RootThere /\ LedToRoot /\ Lonely /\ Listed /\ WalkInv
         /\ Running \subseteq {c} /\ Running' \subseteq {c}
         /\ \A d, e \in Calls :
              Subject[d] = Subject[e] /\ pc'[d] # "idle" /\ pc'[e] # "idle" => Under[d] = Under[e]
<1>1. Frame(c)
  BY FrameStep
<1>2. ~crossed /\ (Running \ {c} = {} \/ c \in Running)
  BY <1>1 DEF Frame
<1>3. \A d \in Calls : pc[d] # "idle" => pc'[d] # "idle"
  BY <1>1 DEF Frame, IInv, TypeOK
<1>4. \A d, e \in Calls :
        Subject[d] = Subject[e] /\ pc'[d] # "idle" /\ pc'[e] # "idle" => Under[d] = Under[e]
  BY DEF Moved
<1>5. ~Moved
  BY <1>3, <1>4 DEF Moved
<1>9. ~CutShort
  BY <1>1 DEF CutShort, Frame, Ended, IInv, TypeOK
<1>6. Solo /\ RootThere /\ LedToRoot /\ Lonely /\ Listed /\ WalkInv
  BY <1>2, <1>5, <1>9 DEF TreeInv
<1>7. Running \subseteq {c}
  BY <1>2, <1>6 DEF Solo
<1>8. Running' \subseteq {c}
  BY <1>1, <1>7, RunningStep
<1> QED BY <1>4, <1>6, <1>7, <1>8, <1>9

(* A step that leaves the records alone.                                   *)
LEMMA TreeSeen ==
  ASSUME IInv, NEW c \in Calls, Register(c), RootThere, LedToRoot, Lonely, Listed,
         Running \subseteq {c}, Running' \subseteq {c},
         UNCHANGED <<registered, parent, children>>,
         pc[c] # "linked", pc'[c] \notin {"linked", "inserted", "located", "unlinked"},
         Subject[c] \in registered \/ pc'[c] \in Ended,
         pc'[c] = "rejected" => pc[c] = "inserted",
         pc'[c] = "rejected" => Under[c] = NoParent /\ Roots \ {Subject[c]} # {},
         pc'[c] \in {"visiting", "members", "parents"} => ToSet(stack'[c]) \subseteq registered,
         pc'[c] \in {"members", "parents"} =>
           \A k \in ToSet(kids'[c]) \cup ToSet(todo'[c]) : k \in registered /\ parent[k] = at'[c]
  PROVE  TreeInv'
<1>1. Roots' = Roots
  BY DEF Roots
<1>2. \A d \in Running' : d = c /\ pc'[d] \notin Ended
  BY DEF Running
<1>3. Solo' /\ RootThere'
  BY <1>1, <1>2 DEF Solo, RootThere
<1>4. Listed'
  BY DEF Listed
<1>5. WalkInv'
  BY <1>2 DEF WalkInv
<1>6. LedToRoot'
  BY DEF LedToRoot
<1>7. Lonely'
  <2>1. pc[c] = "inserted" => c \in Running
    BY DEF Running, Ended
  <2> QED BY <1>1, <1>2, <2>1 DEF Lonely
<1> QED BY <1>3, <1>4, <1>5, <1>6, <1>7 DEF TreeInv

(* A step of the only call in progress, of a node that stays where it is,  *)
(* keeps the tree: the walk finds nothing to reject, and only a second     *)
(* root is undone, which nobody lists.                                     *)
LEMMA TreeStep ==
  ASSUME IInv, ByCall, TreeInv, NEW c \in Calls, Register(c)
  PROVE  TreeInv'
<1> SUFFICES ASSUME ~crossed', ~Moved', ~CutShort' PROVE TreeInv'
  BY DEF TreeInv
<1>1. /\ ~CutShort /\ RootThere /\ LedToRoot /\ Lonely /\ Listed /\ WalkInv
      /\ Running \subseteq {c} /\ Running' \subseteq {c}
      /\ \A d, e \in Calls :
           Subject[d] = Subject[e] /\ pc'[d] # "idle" /\ pc'[e] # "idle" => Under[d] = Under[e]
  BY AloneStep
<1>2. /\ Frame(c) /\ pc'[c] # "idle" /\ \A d \in Calls : pc[d] # "idle" => pc'[d] # "idle"
  BY FrameStep DEF Frame, IInv, TypeOK
<1>a. /\ registered \subseteq Ids /\ parent \in [Ids -> Ids \cup {NoParent}]
      /\ children \in [Ids -> Seq(Ids)] /\ Subject[c] \in Ids /\ Under[c] \in Ids \cup {NoParent}
      /\ stack \in [Calls -> Seq(Ids)] /\ kids \in [Calls -> Seq(Ids)] /\ todo \in [Calls -> Seq(Ids)]
      /\ at \in [Calls -> Ids] /\ pc \in [Calls -> Labels] /\ NoParent \notin Ids
  BY RegistryAssumption DEF IInv, TypeOK
<1>b. pc[c] \notin Ended \cup {"idle"} => c \in Running
  BY DEF Running
<1>c. pc[c] \in {"members", "parents"} => todo[c] # <<>> /\ kids[c] # <<>>
  BY DEF IInv, OwnRecord
<1>g. c \in Running /\ pc[c] # "linked" => Subject[c] \in registered
  BY <1>1 DEF WalkInv
\* Two roots: one was inserted by a call that is still at it.
<1>h. ASSUME NEW i \in Roots, NEW j \in Roots, i # j
      PROVE  \E d \in Running : Under[d] = NoParent /\ pc[d] \in {"inserted", "rejected"}
  BY <1>1, <1>h DEF IInv, OneSettledRoot, CutShort, Running, Ended
\* A node of which a call was made is listed where that call puts it.
<1>d. ASSUME NEW i \in Ids, Subject[c] \in ToSet(children[i]) PROVE i = Under[c]
  <2>1. PICK d \in Calls : Subject[d] = Subject[c] /\ Under[d] = i /\ pc[d] # "idle"
    BY <1>d DEF ByCall
  <2> QED BY <1>1, <1>2, <2>1
<1>e. Subject[c] \in registered => parent[Subject[c]] = Under[c]
  <2> SUFFICES ASSUME Subject[c] \in registered PROVE parent[Subject[c]] = Under[c]
    OBVIOUS
  <2>1. PICK d \in Calls : Subject[d] = Subject[c] /\ Under[d] = parent[Subject[c]] /\ pc[d] # "idle"
    BY DEF ByCall
  <2> QED BY <1>1, <1>2, <2>1
<1>f. ToSet(<<>>) = {}
  BY DEF ToSet
<1>3. CASE Link(c)
  <2>1. /\ pc'[c] = "linked" /\ UNCHANGED <<registered, parent, walk>> /\ Under[c] \in registered
        /\ children' = [children EXCEPT ![Under[c]] = Append(@, Subject[c])]
        /\ pc[c] = "idle"
    BY <1>3, <1>a DEF Link, Goto, CanStart
  <2>2. c \in Running' /\ Running = {} /\ Running' = {c}
    BY <1>1, <2>1 DEF Running, Ended
  <2>3. ToSet(children'[Under[c]]) = ToSet(children[Under[c]]) \cup {Subject[c]}
    BY <1>a, <2>1, ListEdits
  <2>4. Listed'
    <3> SUFFICES ASSUME NEW i \in registered, NEW k \in ToSet(children'[i])
                 PROVE  \/ k \in registered /\ parent[k] = i
                        \/ pc'[c] = "linked" /\ Subject[c] = k /\ Under[c] = i
      BY <2>1, <2>2 DEF Listed
    <3>1. k \in ToSet(children[i]) \/ (k = Subject[c] /\ i = Under[c])
      BY <1>a, <2>1, <2>3
    <3> QED BY <1>1, <2>1, <2>2, <3>1 DEF Listed
  <2>5. RootThere'
    BY <1>1, <1>a, <2>1, <2>2 DEF RootThere, Roots
  <2>6. WalkInv'
    BY <2>1, <2>2 DEF WalkInv
  <2>7. Solo' /\ LedToRoot' /\ Lonely'
    BY <1>1, <2>1, <2>2 DEF Solo, LedToRoot, Lonely
  <2> QED BY <2>4, <2>5, <2>6, <2>7 DEF TreeInv
<1>4. CASE Insert(c)
  <2>1. /\ registered' = registered \cup {Subject[c]}
        /\ parent' = [parent EXCEPT ![Subject[c]] = Under[c]]
        /\ children' = [children EXCEPT ![Subject[c]] = <<>>]
        /\ pc'[c] = "inserted"
        /\ Under[c] # NoParent => c \in Running /\ pc[c] = "linked"
    BY <1>4, <1>a, <1>b DEF Insert, Goto, Ended
  <2>2. Listed'
    <3> SUFFICES ASSUME NEW i \in registered', NEW k \in ToSet(children'[i])
                 PROVE  k \in registered' /\ parent'[k] = i
      BY DEF Listed
    <3>1. i # Subject[c] /\ i \in registered /\ k \in ToSet(children[i])
      BY <1>a, <1>f, <2>1
    <3>2. k = Subject[c] => i = Under[c]
      BY <1>a, <1>d, <3>1
    <3>3. k = Subject[c] \/ (k \in registered /\ parent[k] = i)
      BY <1>1, <3>1 DEF Listed
    <3> QED BY <1>a, <2>1, <3>2, <3>3
  <2>3. Roots' # {}
    <3>1. CASE Under[c] = NoParent
      BY <1>a, <2>1, <3>1 DEF Roots
    <3>2. CASE Under[c] # NoParent
      <4>1. PICK r \in Roots : TRUE
        BY <1>1, <2>1, <3>2 DEF RootThere
      <4>2. r \in registered /\ parent[r] = NoParent /\ r # Subject[c]
        BY <1>e, <3>2, <4>1 DEF Roots
      <4> QED BY <1>a, <2>1, <4>2 DEF Roots
    <3> QED BY <3>1, <3>2
  <2>4. \A d \in Running' : d = c
    BY <1>1
  <2>5. CASE Subject[c] \in registered
    <3>1. registered' = registered /\ parent' = parent
      BY <1>a, <1>e, <2>1, <2>5
    <3>2. LedToRoot'
      BY <1>1, <3>1 DEF LedToRoot
    <3>3. Under[c] = NoParent => Roots \ {Subject[c]} = {}
      <4> SUFFICES ASSUME Under[c] = NoParent, NEW s \in Roots, s # Subject[c] PROVE FALSE
        OBVIOUS
      <4>1. Subject[c] \in Roots
        BY <1>e, <2>5 DEF Roots
      <4>2. PICK d \in Running : pc[d] \in {"inserted", "rejected"}
        BY <4>1, <1>h
      <4>3. pc[c] \notin {"inserted", "rejected"}
        BY <1>4, <4>2 DEF Running, Ended, Insert, CanStart
      <4> QED BY <1>1, <4>2, <4>3
    <3>4. Lonely'
      BY <2>4, <3>1, <3>3 DEF Lonely, Roots
    <3> QED BY <2>1, <2>2, <2>3, <2>4, <3>2, <3>4 DEF TreeInv, Solo, RootThere, WalkInv
  <2>6. CASE Subject[c] \notin registered
    <3>1. \A k \in registered : parent'[k] = parent[k] /\ parent[k] # Subject[c] /\ k # Subject[c]
      BY <1>1, <1>a, <2>1, <2>6 DEF LedToRoot
    <3>2. parent'[Subject[c]] = Under[c] /\ Under[c] \in (registered \cup {NoParent}) \ {Subject[c]}
      <4>1. Under[c] # NoParent => Under[c] \in registered
        BY <1>1, <2>1 DEF RootThere
      <4> QED BY <1>a, <2>1, <2>6, <4>1
    <3>3. \A i \in registered' : parent'[i] \in registered' \cup {NoParent}
      BY <1>1, <2>1, <3>1, <3>2 DEF LedToRoot
    <3>4. ASSUME NEW S \in SUBSET registered', S # {} PROVE \E i \in S : parent'[i] \notin S
      <4>1. CASE S \ {Subject[c]} = {}
        BY <2>1, <3>2, <3>4, <4>1
      <4>2. CASE S \ {Subject[c]} # {}
        <5>1. S \ {Subject[c]} \in SUBSET registered
          BY <2>1
        <5>2. PICK i \in S \ {Subject[c]} : parent[i] \notin S \ {Subject[c]}
          BY <1>1, <4>2, <5>1 DEF LedToRoot
        <5>3. parent'[i] = parent[i] /\ parent[i] # Subject[c]
          BY <3>1, <5>1, <5>2
        <5> QED BY <5>2, <5>3
      <4> QED BY <4>1, <4>2
    <3>5. LedToRoot'
      BY <3>3, <3>4 DEF LedToRoot
    <3>6. \A k \in registered' : Under[c] = NoParent => parent'[k] # Subject[c]
      BY <1>a, <2>1, <3>1, <3>2
    <3>7. Lonely'
      BY <2>4, <3>6 DEF Lonely
    <3> QED BY <2>1, <2>2, <2>3, <2>4, <3>5, <3>7 DEF TreeInv, Solo, RootThere, WalkInv
  <2> QED BY <2>5, <2>6
<1>5. CASE ReadRoots(c)
  <2>1. pc[c] = "inserted" /\ UNCHANGED <<registered, parent, children>> /\ Subject[c] \in registered
    BY <1>5, <1>b, <1>g DEF ReadRoots, Ended
  <2>2. CASE \E i \in Ids : Roots = {i} /\ stack' = [stack EXCEPT ![c] = <<i>>] /\ Goto(c, "visiting")
    <3>1. PICK i \in Ids : Roots = {i} /\ stack' = [stack EXCEPT ![c] = <<i>>] /\ Goto(c, "visiting")
      BY <2>2
    <3>2. pc'[c] = "visiting" /\ stack'[c] = <<i>> /\ i \in registered
      BY <1>a, <3>1 DEF Goto, Roots
    <3>3. ToSet(<<i>>) = {i}
      BY DEF ToSet
    <3> QED BY <1>1, <2>1, <3>2, <3>3, TreeSeen DEF Ended
  <2>3. CASE (\A i \in Ids : Roots # {i}) /\ Goto(c, "rejected")
    <3>1. pc'[c] = "rejected"
      BY <1>a, <2>3 DEF Goto
    <3>2. PICK r \in Roots : r \in Ids
      BY <1>1, <1>a, <2>1 DEF RootThere, Roots
    <3>3. Roots \ {Subject[c]} # {}
      <4> SUFFICES ASSUME Roots \subseteq {Subject[c]} PROVE FALSE
        OBVIOUS
      <4>1. Roots = {r}
        BY <3>2
      <4> QED BY <2>3, <3>2, <4>1
    <3>4. Under[c] = NoParent
      <4> SUFFICES ASSUME Under[c] # NoParent PROVE Roots = {r}
        BY <2>3, <3>2
      <4>1. ASSUME NEW s \in Roots PROVE s = r
        <5> SUFFICES ASSUME s # r PROVE FALSE
          OBVIOUS
        <5>1. PICK d \in Running : Under[d] = NoParent
          BY <3>2, <1>h
        <5> QED BY <1>1, <5>1
      <4> QED BY <3>2, <4>1
    <3> QED BY <1>1, <2>1, <3>1, <3>3, <3>4, TreeSeen
  <2> QED BY <1>5, <2>2, <2>3 DEF ReadRoots
<1>6. CASE LinkRefused(c) \/ Passed(c) \/ VisitGone(c) \/ ParentGone(c)
  <2>1. /\ UNCHANGED <<registered, parent, children>> /\ pc[c] # "linked"
        /\ pc'[c] \in {"ok", "error", "panicked"}
    BY <1>6, <1>a DEF LinkRefused, CanStart, Passed, VisitGone, ParentGone, Leave, Goto
  <2> QED BY <1>1, <2>1, TreeSeen DEF Ended
<1>7. CASE Visit(c)
  <2> DEFINE i == Last(stack[c])
  <2>1. /\ UNCHANGED <<registered, parent, children>> /\ pc[c] = "visiting" /\ stack[c] # <<>>
        /\ i \in registered /\ stack'[c] = Front(stack[c]) /\ at'[c] = i
        /\ kids'[c] = children[i] /\ todo'[c] = children[i] /\ pc'[c] \in {"visiting", "members"}
    BY <1>7, <1>a DEF Visit, Goto
  <2>2. ToSet(stack'[c]) \subseteq registered
    <3>1. ToSet(stack[c]) \subseteq registered
      BY <1>1, <1>b, <2>1 DEF WalkInv, Ended
    <3> QED BY <1>a, <2>1, <3>1, Listing
  <2>3. \A k \in ToSet(children[i]) : k \in registered /\ parent[k] = i
    BY <1>1, <2>1 DEF Listed
  <2> QED BY <1>1, <2>1, <2>2, <2>3, TreeSeen, <1>b, <1>g DEF Ended
<1>8. CASE Member(c)
  <2>1. /\ UNCHANGED <<registered, parent, children, stack, at, kids>> /\ pc[c] = "members"
        /\ pc'[c] \in {"members", "parents"} /\ todo'[c] \in {kids[c], Tail(todo[c])}
    BY <1>8, <1>a DEF Member, Goto
  <2>2. /\ ToSet(stack[c]) \subseteq registered
        /\ \A k \in ToSet(kids[c]) \cup ToSet(todo[c]) : k \in registered /\ parent[k] = at[c]
    BY <1>1, <1>b, <2>1 DEF WalkInv, Ended
  <2>3. ToSet(todo'[c]) \subseteq ToSet(kids[c]) \cup ToSet(todo[c])
    BY <1>a, <1>c, <2>1, Listing
  <2> QED BY <1>1, <2>1, <2>2, <2>3, TreeSeen, <1>b, <1>g DEF Ended
<1>9. CASE ParentAgrees(c)
  <2>1. /\ UNCHANGED <<registered, parent, children, at>> /\ pc[c] = "parents"
        /\ todo'[c] = Tail(todo[c])
    BY <1>9, <1>a DEF ParentAgrees
  <2>2. /\ ToSet(stack[c]) \subseteq registered
        /\ \A k \in ToSet(kids[c]) \cup ToSet(todo[c]) : k \in registered /\ parent[k] = at[c]
    BY <1>1, <1>b, <2>1 DEF WalkInv, Ended
  <2>3. CASE Tail(todo[c]) = <<>>
    <3>1. pc'[c] = "visiting" /\ stack'[c] = stack[c] \o kids[c]
      BY <1>9, <1>a, <2>3 DEF ParentAgrees, Goto
    <3>2. ToSet(stack'[c]) = ToSet(stack[c]) \cup ToSet(kids[c])
      BY <1>a, <3>1, Listing
    <3> QED BY <1>1, <2>1, <2>2, <3>1, <3>2, <1>b, <1>g, TreeSeen DEF Ended
  <2>4. CASE Tail(todo[c]) # <<>>
    <3>1. UNCHANGED <<pc, stack, kids>>
      BY <1>9, <2>4 DEF ParentAgrees
    <3>2. ToSet(todo'[c]) \subseteq ToSet(todo[c])
      BY <1>a, <1>c, <2>1, Listing
    <3> QED BY <1>1, <2>1, <2>2, <3>1, <3>2, <1>b, <1>g, TreeSeen DEF Ended
  <2> QED BY <2>3, <2>4
\* The walk meets no node without a record and none with another parent,
\* so no child is rejected, and there is nothing to unlink.
<1>10. ~MemberMissing(c) /\ ~ParentDiffers(c)
  <2> SUFFICES ASSUME MemberMissing(c) \/ ParentDiffers(c) PROVE FALSE
    OBVIOUS
  <2>1. /\ pc[c] \in {"members", "parents"}
        /\ Head(todo[c]) \notin registered \/ parent[Head(todo[c])] # at[c]
    BY DEF MemberMissing, ParentDiffers
  <2>2. Head(todo[c]) \in ToSet(todo[c])
    BY <1>a, <1>c, <2>1, Listing
  <2>3. c \in Running
    BY <1>b, <2>1 DEF Ended
  <2> QED BY <1>1, <2>1, <2>2, <2>3 DEF WalkInv
<1>11. ~Locate(c) /\ ~LocateRefused(c) /\ ~Unlink(c) /\ ~UnlinkRefused(c)
  <2> SUFFICES ASSUME Locate(c) \/ LocateRefused(c) \/ Unlink(c) \/ UnlinkRefused(c) PROVE FALSE
    OBVIOUS
  <2>1. pc[c] \in {"rejected", "located"} /\ (pc[c] = "rejected" => Under[c] # NoParent)
    BY <1>a DEF Locate, LocateRefused, Unlink, UnlinkRefused
  <2>2. c \in Running
    BY <1>b, <2>1 DEF Ended
  <2> QED BY <1>1, <2>1, <2>2 DEF WalkInv, RootThere
<1>12. CASE Drop(c)
  <2>1. pc[c] = "rejected" /\ Under[c] = NoParent /\ Roots \ {Subject[c]} # {}
    <3>1. c \in Running
      BY <1>12, <1>b DEF Drop, Ended
    <3> QED BY <1>12, <1>1, <3>1 DEF Drop, WalkInv, RootThere
  <2>2. /\ registered' = registered \ {Subject[c]}
        /\ parent' = [parent EXCEPT ![Subject[c]] = NoParent]
        /\ children' = [children EXCEPT ![Subject[c]] = <<>>]
        /\ pc'[c] = "error"
    BY <1>12, <1>a DEF Drop, Goto
  <2>3. Running' = {}
    BY <1>1, <2>2 DEF Running, Ended
  <2>4. Roots' # {}
    BY <1>a, <2>1, <2>2 DEF Roots
  <2>5. Listed'
    <3> SUFFICES ASSUME NEW i \in registered', NEW k \in ToSet(children'[i])
                 PROVE  k \in registered' /\ parent'[k] = i
      BY DEF Listed
    <3>1. i \in registered /\ i \in Ids /\ k \in ToSet(children[i])
      BY <1>a, <2>2
    <3>2. k # Subject[c]
      BY <1>a, <1>d, <2>1, <3>1
    <3>3. k \in registered /\ parent[k] = i
      BY <1>1, <2>1, <3>1 DEF Listed
    <3> QED BY <1>a, <2>2, <3>2, <3>3
  <2>6. \A k \in registered : parent[k] # Subject[c]
    <3>1. c \in Running
      BY <2>1, <1>b DEF Ended
    <3> QED BY <1>1, <2>1, <3>1 DEF Lonely
  <2>7. \A k \in registered' : k \in registered /\ parent'[k] = parent[k]
    BY <1>a, <2>2
  <2>8. \A k \in registered' : parent'[k] \in registered' \cup {NoParent}
    BY <1>1, <2>2, <2>6, <2>7 DEF LedToRoot
  <2>9. ASSUME NEW S \in SUBSET registered', S # {} PROVE \E i \in S : parent'[i] \notin S
    <3>1. S \in SUBSET registered
      BY <2>7
    <3>2. PICK i \in S : parent[i] \notin S
      BY <1>1, <2>9, <3>1 DEF LedToRoot
    <3> QED BY <2>7, <3>2
  <2>10. LedToRoot'
    BY <2>8, <2>9 DEF LedToRoot
  <2> QED BY <2>3, <2>4, <2>5, <2>10 DEF TreeInv, Solo, RootThere, Lonely, WalkInv
<1> QED BY <1>3, <1>4, <1>5, <1>6, <1>7, <1>8, <1>9, <1>10, <1>11, <1>12 DEF Register, Check, Undo

-----------------------------------------------------------------------------
(* A connection that breaks changes nothing at the market, and leaves the  *)
(* node with an error.                                                     *)
LEMMA BreakStep ==
  ASSUME IInv, ByCall, TreeInv, NEW c \in Calls, Break(c)
  PROVE  IInv' /\ ByCall' /\ TreeInv'
<1>1. /\ UNCHANGED <<registered, parent, children, pc, stack, at, kids, todo, pos, crossed>>
      /\ Running' = Running /\ Roots' = Roots
      /\ lost' = lost \cup {c} /\ c \in Running
      /\ told' = [told EXCEPT ![Subject[c]] = "error"]
  BY DEF Break, walk, Running, Roots
<1>2. TypeOK'
  BY <1>1, RegistryAssumption DEF IInv, TypeOK
<1>3. \A k \in Ids : Undone(k) => Undone(k)'
  BY <1>1 DEF Undone
<1>4. OneCallPerNode' /\ OneSettledRoot'
  BY <1>1 DEF IInv, OneCallPerNode, OneSettledRoot
<1>5. OwnRecord'
  BY <1>1, <1>3, RegistryAssumption DEF IInv, OwnRecord
<1>6. ToldTrue'
  <2>1. \A i \in Ids : told'[i] \in {told[i], "error"} /\ told'[Subject[c]] = "error"
    BY <1>1, RegistryAssumption DEF IInv, TypeOK
  <2>2. \A i \in Ids : told'[i] = "ok" => i \in registered' \/ Undone(i)'
    BY <1>1, <1>3, <2>1 DEF IInv, ToldTrue
  <2>3. \A d \in lost' : pc'[d] # "idle" /\ told'[Subject[d]] # "nothing"
    BY <1>1, <2>1, RegistryAssumption DEF IInv, TypeOK, ToldTrue, Running
  <2>4. ASSUME NEW i \in Ids, NEW k \in ToSet(children'[i])
        PROVE  told'[k] # "nothing" \/ \E d \in Running' : Subject[d] = k
    <3>1. k \in Ids
      BY <1>1 DEF IInv, TypeOK, ToSet
    <3> QED BY <1>1, <2>1, <3>1 DEF IInv, ToldTrue
  <2> QED BY <2>2, <2>3, <2>4 DEF ToldTrue
<1>7. ByCall' /\ TreeInv'
  BY <1>1 DEF ByCall, TreeInv, Moved, CutShort, Solo, RootThere, LedToRoot, Lonely, Listed, WalkInv
<1> QED BY <1>2, <1>4, <1>5, <1>6, <1>7 DEF IInv

(* A handler that is dropped leaves the records as they are. *)
LEMMA DroppedStep ==
  ASSUME IInv, ByCall, TreeInv, NEW c \in Calls, Dropped(c)
  PROVE  IInv' /\ ByCall' /\ TreeInv'
<1>1. /\ UNCHANGED <<registered, parent, children, told, lost>>
      /\ pc' = [pc EXCEPT ![c] = IF pc[c] \in Halfway THEN "cut" ELSE "left"]
      /\ crossed' = (crossed \/ Running \ {c} # {})
      /\ c \in Running /\ c \in lost /\ Roots' = Roots
      /\ stack' = [stack EXCEPT ![c] = <<>>] /\ at' = [at EXCEPT ![c] = Subject[c]]
      /\ kids' = [kids EXCEPT ![c] = <<>>] /\ todo' = [todo EXCEPT ![c] = <<>>]
      /\ pos' = [pos EXCEPT ![c] = 0]
  BY DEF Dropped, Leave, Goto, Ended, Roots, Halfway
<1>2. TypeOK'
  <2>1. <<>> \in Seq(Ids) /\ Subject[c] \in Ids /\ 0 \in Nat
    BY RegistryAssumption
  <2>2. /\ stack' \in [Calls -> Seq(Ids)] /\ at' \in [Calls -> Ids]
        /\ kids' \in [Calls -> Seq(Ids)] /\ todo' \in [Calls -> Seq(Ids)]
        /\ pos' \in [Calls -> Nat]
    BY <1>1, <2>1 DEF IInv, TypeOK
  <2>3. pc' \in [Calls -> Labels]
    BY <1>1 DEF IInv, TypeOK, Labels
  <2>4. crossed' \in BOOLEAN
    BY <1>1 DEF IInv, TypeOK
  <2> QED BY <1>1, <2>2, <2>3, <2>4 DEF IInv, TypeOK
<1>3. /\ pc'[c] \in {"cut", "left"} /\ pc[c] \notin Ended \cup {"idle"}
      /\ pc[c] \in Halfway => pc'[c] = "cut"
      /\ \A d \in Calls \ {c} : /\ pc'[d] = pc[d] /\ pos'[d] = pos[d]
                               /\ todo'[d] = todo[d] /\ kids'[d] = kids[d]
  BY <1>1 DEF IInv, TypeOK, Running
<1>4. Running' = Running \ {c}
  BY <1>3 DEF Running, Ended
<1>5. \A k \in Ids : Undone(k) => Undone(k)'
  BY <1>1, <1>3 DEF Undone, Ended, IInv, TypeOK
<1>6. OneCallPerNode'
  BY <1>1, <1>4 DEF IInv, OneCallPerNode
<1>7. OwnRecord'
  <2> SUFFICES ASSUME NEW d \in Calls PROVE OwnRecord!(d)'
    BY DEF OwnRecord
  <2>1. CASE d = c
    BY <1>3, <2>1 DEF Ended
  <2>2. CASE d # c
    BY <1>1, <1>3, <1>5, <2>2, RegistryAssumption DEF IInv, OwnRecord
  <2> QED BY <2>1, <2>2
<1>8. OneSettledRoot'
  <2> SUFFICES ASSUME NEW i \in Roots, NEW j \in Roots, i # j
               PROVE  \E d \in Calls : Unsettled(d, i, j)'
    BY <1>1 DEF OneSettledRoot, Unsettled
  <2>1. PICK d \in Calls : Unsettled(d, i, j)
    BY DEF IInv, OneSettledRoot, Unsettled
  <2>2. pc'[c] = "cut" \/ d # c
    BY <1>3, <2>1 DEF Unsettled, Halfway, Ended
  <2> QED BY <1>3, <2>1, <2>2 DEF Unsettled
<1>9. ToldTrue'
  <2>1. \A d \in lost' : pc'[d] # "idle" /\ told'[Subject[d]] # "nothing"
    BY <1>1, <1>3 DEF IInv, TypeOK, ToldTrue
  <2> QED BY <1>1, <1>4, <1>5, <2>1 DEF IInv, ToldTrue
<1>10. ByCall'
  <2>1. \A d \in Calls : pc[d] # "idle" => pc'[d] # "idle"
    BY <1>3
  <2> QED BY <1>1, <2>1 DEF ByCall
<1>11. TreeInv'
  <2> SUFFICES ASSUME ~crossed', ~Moved', ~CutShort' PROVE TreeInv'
    BY DEF TreeInv
  <2>1. ~crossed /\ ~Moved /\ ~CutShort /\ Running' = {} /\ pc[c] \notin Halfway
    BY <1>1, <1>3, <1>4 DEF Moved, CutShort, Ended
  <2>2. Solo /\ RootThere /\ LedToRoot /\ Listed
    BY <2>1 DEF TreeInv
  <2>3. Solo' /\ Lonely' /\ WalkInv'
    BY <2>1 DEF Solo, Lonely, WalkInv
  <2>4. RootThere'
    BY <1>1, <2>1, <2>2 DEF RootThere
  <2>5. \A d \in Running : pc[d] # "linked"
    BY <1>1, <2>1, <2>2 DEF Solo, Halfway
  <2>6. Listed' /\ LedToRoot'
    BY <1>1, <2>2, <2>5 DEF Listed, LedToRoot
  <2> QED BY <2>3, <2>4, <2>6 DEF TreeInv
<1> QED BY <1>2, <1>6, <1>7, <1>8, <1>9, <1>10, <1>11 DEF IInv

-----------------------------------------------------------------------------
(* What overlapping registrations agree on, at every step.  ByCall and     *)
(* TreeInv come along: they are inductive together with IInv.              *)
LEMMA Agreement == Spec => [](IInv /\ ByCall /\ TreeInv)
<1>1. Init => IInv
  <2> SUFFICES ASSUME Init PROVE IInv
    OBVIOUS
  <2>1. TypeOK
    <3>1. stack \in [Calls -> Seq(Ids)] /\ kids \in [Calls -> Seq(Ids)] /\ todo \in [Calls -> Seq(Ids)]
      BY DEF Init
    <3>2. children \in [Ids -> Seq(Ids)] /\ at \in [Calls -> Ids]
      BY RegistryAssumption DEF Init
    <3>3. crossed \in BOOLEAN
      BY DEF Init
    <3> QED BY <3>1, <3>2, <3>3 DEF Init, TypeOK, Labels
  <2>2. OneCallPerNode /\ OwnRecord
    BY DEF Init, OneCallPerNode, OwnRecord, Running, Ended
  <2>3. OneSettledRoot /\ ToldTrue
    BY DEF Init, OneSettledRoot, Roots, ToldTrue, ToSet
  <2> QED BY <2>1, <2>2, <2>3 DEF IInv
<1>2. Init => ByCall /\ TreeInv
  <2> SUFFICES ASSUME Init PROVE ByCall /\ TreeInv
    OBVIOUS
  <2>1. registered = {} /\ Running = {} /\ \A i \in Ids : ToSet(children[i]) = {}
    BY DEF Init, Running, ToSet
  <2> QED BY <2>1 DEF ByCall, TreeInv, Solo, RootThere, LedToRoot, Lonely, Listed, WalkInv
<1>3. IInv /\ ByCall /\ TreeInv /\ [Next]_vars => IInv' /\ ByCall' /\ TreeInv'
  <2> SUFFICES ASSUME IInv, ByCall, TreeInv, [Next]_vars PROVE IInv' /\ ByCall' /\ TreeInv'
    OBVIOUS
  <2>1. CASE UNCHANGED vars
    <3>1. Running' = Running /\ Roots' = Roots /\ \A k \in Ids : Undone(k)' <=> Undone(k)
      BY <2>1 DEF vars, Running, Roots, Undone
    <3>2. TypeOK' /\ OneCallPerNode' /\ OneSettledRoot' /\ ToldTrue'
      BY <2>1, <3>1 DEF vars, walk, IInv, TypeOK, OneCallPerNode, OneSettledRoot, ToldTrue
    <3>3. OwnRecord'
      BY <2>1, <3>1, RegistryAssumption DEF vars, walk, IInv, OwnRecord
    <3>4. ByCall' /\ TreeInv'
      BY <2>1, <3>1 DEF vars, walk, ByCall, TreeInv, Moved, CutShort, Solo, RootThere,
                        LedToRoot, Lonely, Listed, WalkInv
    <3> QED BY <3>2, <3>3, <3>4 DEF IInv
  <2>2. ASSUME NEW c \in Calls, Register(c) PROVE IInv' /\ ByCall' /\ TreeInv'
    BY <2>2, TypeStep, FrameStep, RunningStep, RecordsStep, RootStep, ToldStep, ByCallStep,
       TreeStep DEF IInv
  <2> QED BY <2>1, <2>2, BreakStep, DroppedStep, Steps
<1> QED BY <1>1, <1>2, <1>3, PTL DEF Spec

THEOREM RegistryInvariance == Spec => []IInv
BY Agreement, PTL

(* Two nodes that claim to be the market's never both stay registered,     *)
(* whatever the interleaving of append_root with any other registration,   *)
(* unless the handler of one was dropped before its check or its undo.     *)
THEOREM SingleRoot == Spec => []AtMostOneRoot
<1>1. IInv => AtMostOneRoot
  <2> SUFFICES ASSUME IInv, AtRest, NEW i \in Roots, NEW j \in Roots, i # j
               PROVE  \E c \in Calls :
                        Under[c] = NoParent /\ Subject[c] \in {i, j} /\ pc[c] = "cut"
    BY DEF AtMostOneRoot
  <2>1. PICK c \in Calls : Unsettled(c, i, j)
    BY DEF IInv, OneSettledRoot, Unsettled
  <2>2. c \notin Running
    BY DEF AtRest
  <2> QED BY <2>1, <2>2 DEF Unsettled, Running, Ended
<1> QED BY <1>1, RegistryInvariance, PTL

(* A child listed without a record, which makes the check refuse every     *)
(* registration, belongs to a node whose last answer was an error, or to   *)
(* one whose record was taken away by the undo of a call it had given up   *)
(* on: calls of one node overlap when its connection breaks.               *)
THEOREM DanglingIsExplained == Spec => []DanglingKnows
<1>1. IInv => DanglingKnows
  <2> SUFFICES ASSUME IInv, NEW i \in registered, NEW k \in ToSet(children[i]) \ registered,
                      told[k] # "error", ~Undone(k)
               PROVE  \E c \in Running : Subject[c] = k
    BY DEF DanglingKnows
  <2>1. i \in Ids /\ k \in Ids
    BY DEF IInv, TypeOK, ToSet
  <2>2. told[k] = "nothing"
    BY <2>1 DEF IInv, TypeOK, ToldTrue
  <2> QED BY <2>1, <2>2 DEF IInv, ToldTrue
<1> QED BY <1>1, RegistryInvariance, PTL

(* Registrations that come one at a time, of nodes that stay where they    *)
(* are, leave a tree whatever failed, and no node is cut off from its root *)
(* although check_tree does not look for that; a handler dropped while it  *)
(* walks the tree does no harm either.  No paths are needed, only that     *)
(* each record, and each child in a list, was put there by a call that     *)
(* names the same parent, and that a node is new where it is hung up.      *)
THEOREM TreeOneAtATime == Spec => []TreeUnlessCrossed
<1>1. IInv /\ TreeInv => TreeUnlessCrossed
  <2>a. ~crossed /\ ~Moved /\ ~CutShort /\ TreeInv => LedToRoot
    BY DEF TreeInv
  <2> SUFFICES ASSUME IInv, TreeInv, ~crossed, ~Moved, ~CutShort, AtRest, registered # {}
               PROVE  /\ \E i \in Ids : Roots = {i}
                      /\ \A i \in registered : \A k \in ToSet(children[i]) :
                           k \in registered /\ parent[k] \in {NoParent, i}
    BY <2>a DEF TreeUnlessCrossed, TreeAtRest
  <2>1. Running = {} /\ RootThere /\ Listed
    BY DEF AtRest, TreeInv
  <2>2. PICK i \in Ids : i \in Roots
    BY <2>1 DEF RootThere, Roots, IInv, TypeOK
  <2>3. \A j \in Roots : j = i
    BY <2>1, <2>2 DEF IInv, OneSettledRoot, Running, Ended, CutShort
  <2>4. Roots = {i}
    BY <2>2, <2>3
  <2> QED BY <2>1, <2>4 DEF Listed
<1> QED BY <1>1, Agreement, PTL
=============================================================================
