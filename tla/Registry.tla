------------------------------- MODULE Registry -------------------------------
(***************************************************************************)
(* The market's registry of fog nodes: a tree kept in one map behind a     *)
(* read-write lock.  Every access takes the lock anew, so a registration   *)
(* is a task of many steps (link the node under its parent, insert its     *)
(* record, walk the tree to check it, undo if the check failed), and       *)
(* registrations overlap.                                                  *)
(*                                                                         *)
(* A fog node retries a registration that was answered with an error and   *)
(* registers again when it restarts: several calls of one subject.  It     *)
(* waits for the answer before it calls again, unless the connection       *)
(* breaks: then the call it made before may be running still, or the       *)
(* server has dropped its handler where it waited for the lock.            *)
(***************************************************************************)
EXTENDS Integers, FiniteSets, SequencesExt

CONSTANTS
  Ids,       \* identifiers of fog nodes
  NoParent,  \* the parent of the node connected to the market
  Calls,     \* the registrations that reach the market
  Subject,   \* Subject[c]: the node that c registers
  Under,     \* Under[c]: the parent c names, NoParent for append_root
  AtOnce,    \* bound: registrations in progress at a time
  Fragile    \* bound: the calls whose connection may break

ASSUME RegistryAssumption ==
  /\ NoParent \notin Ids
  /\ Subject \in [Calls -> Ids]
  /\ Under \in [Calls -> Ids \cup {NoParent}]
  /\ IsFiniteSet(Ids) /\ IsFiniteSet(Calls)

VARIABLES
  registered,  \* the keys of the map
  parent,      \* parent[i]: the parent in the record of i
  children,    \* children[i]: the children in the record of i
  pc,          \* pc[c]: where registration c is
  stack,       \* stack[c]: the nodes check_tree has left to visit
  at,          \* at[c]: the node it is visiting
  kids,        \* kids[c]: the children of that node when they were read
  todo,        \* todo[c]: those of them it has left to look at
  pos,         \* pos[c]: where the undo will cut, 1-based
  told,        \* told[i]: the answer i got last, a broken connection being an error
  lost,        \* the calls whose connection broke before they were answered
  crossed      \* history: a registration took a step while another was in progress

walk == <<stack, at, kids, todo>>
vars == <<registered, parent, children, pc, walk, pos, told, lost, crossed>>

Labels == {"idle", "linked", "inserted", "visiting", "members", "parents",
           "rejected", "located", "unlinked", "ok", "error", "panicked", "left", "cut"}
Ended == {"ok", "error", "panicked", "left", "cut"}
(* A handler dropped here leaves half of what it does: a child listed      *)
(* without a record, a root that was not counted, an undo that is not over.*)
Halfway == {"linked", "inserted", "rejected", "located", "unlinked"}

Running == {c \in Calls : pc[c] \notin Ended \cup {"idle"}}

Init ==
  /\ registered = {}
  /\ parent = [i \in Ids |-> NoParent]
  /\ children = [i \in Ids |-> <<>>]
  /\ pc = [c \in Calls |-> "idle"]
  /\ stack = [c \in Calls |-> <<>>]
  /\ at = [c \in Calls |-> Subject[c]]
  /\ kids = [c \in Calls |-> <<>>]
  /\ todo = [c \in Calls |-> <<>>]
  /\ pos = [c \in Calls |-> 0]
  /\ told = [i \in Ids |-> "nothing"]
  /\ lost = {}
  /\ crossed = FALSE

-----------------------------------------------------------------------------
Goto(c, label) ==
  /\ pc' = [pc EXCEPT ![c] = label]
  /\ told' = IF label \notin Ended \/ c \in lost THEN told
             ELSE [told EXCEPT ![Subject[c]] = IF label = "ok" THEN "ok" ELSE "error"]
  /\ crossed' = (crossed \/ Running \ {c} # {})
  /\ lost' = lost

(* The end of a walk; its locals are gone. *)
Leave(c, label) ==
  /\ Goto(c, label)
  /\ stack' = [stack EXCEPT ![c] = <<>>]
  /\ at' = [at EXCEPT ![c] = Subject[c]]
  /\ kids' = [kids EXCEPT ![c] = <<>>]
  /\ todo' = [todo EXCEPT ![c] = <<>>]

CanStart(c) ==
  /\ pc[c] = "idle"
  /\ Cardinality(Running) < AtOnce
  /\ \A d \in Running \ lost : Subject[d] # Subject[c]

(* append_new_child: the child is linked under its parent ... *)
Link(c) ==
  /\ CanStart(c)
  /\ Under[c] \in registered
  /\ children' = [children EXCEPT ![Under[c]] = Append(@, Subject[c])]
  /\ Goto(c, "linked")
  /\ UNCHANGED <<registered, parent, walk, pos>>

LinkRefused(c) ==
  /\ CanStart(c)
  /\ Under[c] \notin registered \cup {NoParent}
  /\ Goto(c, "error")
  /\ UNCHANGED <<registered, parent, children, walk, pos>>

(* ... then a fresh record replaces whatever was known of it; append_root  *)
(* starts here.                                                            *)
Insert(c) ==
  /\ IF Under[c] = NoParent THEN CanStart(c) ELSE pc[c] = "linked"
  /\ registered' = registered \cup {Subject[c]}
  /\ parent' = [parent EXCEPT ![Subject[c]] = Under[c]]
  /\ children' = [children EXCEPT ![Subject[c]] = <<>>]
  /\ Goto(c, "inserted")
  /\ UNCHANGED <<walk, pos>>

-----------------------------------------------------------------------------
(* check_tree *)
Roots == {i \in registered : parent[i] = NoParent}

\* Mutant of ReadRoots: any root will do to start from.
ReadRootsAny(c) ==
  /\ pc[c] = "inserted"
  /\ \/ /\ \E i \in Roots : stack' = [stack EXCEPT ![c] = <<i>>]
        /\ Goto(c, "visiting")
     \/ /\ Roots = {}
        /\ Goto(c, "rejected")
        /\ UNCHANGED stack
  /\ UNCHANGED <<registered, parent, children, at, kids, todo, pos>>

ReadRoots(c) ==
  /\ pc[c] = "inserted"
  /\ \/ /\ \E i \in Ids : Roots = {i} /\ stack' = [stack EXCEPT ![c] = <<i>>]
        /\ Goto(c, "visiting")
     \/ /\ \A i \in Ids : Roots # {i}
        /\ Goto(c, "rejected")
        /\ UNCHANGED stack
  /\ UNCHANGED <<registered, parent, children, at, kids, todo, pos>>

Passed(c) ==
  /\ pc[c] = "visiting" /\ stack[c] = <<>>
  /\ Leave(c, "ok")
  /\ UNCHANGED <<registered, parent, children, pos>>

(* The node on top of the stack was there when it was pushed; its children *)
(* are read with an unwrap.                                                *)
VisitGone(c) ==
  /\ pc[c] = "visiting" /\ stack[c] # <<>>
  /\ Last(stack[c]) \notin registered
  /\ Leave(c, "panicked")
  /\ UNCHANGED <<registered, parent, children, pos>>

\* Mutant of Visit: the node stays on the stack.
VisitUnpopped(c) ==
  /\ pc[c] = "visiting" /\ stack[c] # <<>>
  /\ Last(stack[c]) \in registered
  /\ LET i == Last(stack[c]) IN
     /\ at' = [at EXCEPT ![c] = i]
     /\ kids' = [kids EXCEPT ![c] = children[i]]
     /\ todo' = [todo EXCEPT ![c] = children[i]]
     /\ Goto(c, IF children[i] = <<>> THEN "visiting" ELSE "members")
  /\ UNCHANGED <<registered, parent, children, stack, pos>>

Visit(c) ==
  /\ pc[c] = "visiting" /\ stack[c] # <<>>
  /\ Last(stack[c]) \in registered
  /\ LET i == Last(stack[c]) IN
     /\ stack' = [stack EXCEPT ![c] = Front(@)]
     /\ at' = [at EXCEPT ![c] = i]
     /\ kids' = [kids EXCEPT ![c] = children[i]]
     /\ todo' = [todo EXCEPT ![c] = children[i]]
     /\ Goto(c, IF children[i] = <<>> THEN "visiting" ELSE "members")
  /\ UNCHANGED <<registered, parent, children, pos>>

(* First pass over the children: each has a record. *)
Member(c) ==
  /\ pc[c] = "members"
  /\ Head(todo[c]) \in registered
  /\ IF Tail(todo[c]) = <<>>
     THEN Goto(c, "parents") /\ todo' = [todo EXCEPT ![c] = kids[c]]
     ELSE UNCHANGED <<pc, told, lost, crossed>> /\ todo' = [todo EXCEPT ![c] = Tail(@)]
  /\ UNCHANGED <<registered, parent, children, stack, at, kids, pos>>

MemberMissing(c) ==
  /\ pc[c] = "members"
  /\ Head(todo[c]) \notin registered
  /\ Leave(c, "rejected")
  /\ UNCHANGED <<registered, parent, children, pos>>

(* Second pass: each names this node as its parent.  The record is fetched *)
(* again, with an unwrap.                                                  *)
ParentGone(c) ==
  /\ pc[c] = "parents"
  /\ Head(todo[c]) \notin registered
  /\ Leave(c, "panicked")
  /\ UNCHANGED <<registered, parent, children, pos>>

ParentDiffers(c) ==
  /\ pc[c] = "parents"
  /\ Head(todo[c]) \in registered
  /\ parent[Head(todo[c])] \notin {NoParent, at[c]}
  /\ Leave(c, "rejected")
  /\ UNCHANGED <<registered, parent, children, pos>>

ParentAgrees(c) ==
  /\ pc[c] = "parents"
  /\ Head(todo[c]) \in registered
  /\ parent[Head(todo[c])] \in {NoParent, at[c]}
  /\ todo' = [todo EXCEPT ![c] = Tail(@)]
  /\ IF Tail(todo[c]) = <<>>
     THEN /\ Goto(c, "visiting")
          /\ stack' = [stack EXCEPT ![c] = @ \o kids[c]]
          /\ kids' = [kids EXCEPT ![c] = <<>>]
     ELSE UNCHANGED <<pc, told, lost, crossed, stack, kids>>
  /\ UNCHANGED <<registered, parent, children, at, pos>>

Check(c) ==
  \/ ReadRoots(c) \/ Passed(c) \/ Visit(c) \/ VisitGone(c) \/ Member(c) \/ MemberMissing(c)
  \/ ParentGone(c) \/ ParentDiffers(c) \/ ParentAgrees(c)

-----------------------------------------------------------------------------
(* A failed check is undone.  The child is searched for from the back, and *)
(* what that search returns is used as an index from the front.            *)
Back(list, k) == list[Len(list) - k + 1]

FirstFromBack(list, i, k) ==
  /\ k \in 1..Len(list) /\ Back(list, k) = i
  /\ \A l \in 1..(k - 1) : Back(list, l) # i

Locate(c) ==
  /\ pc[c] = "rejected" /\ Under[c] \in registered
  /\ \E k \in DOMAIN children[Under[c]] :
       FirstFromBack(children[Under[c]], Subject[c], k) /\ pos' = [pos EXCEPT ![c] = k]
  /\ Goto(c, "located")
  /\ UNCHANGED <<registered, parent, children, walk>>

\* Mutant of LocateRefused: a child that is not found is taken to be at -1.
LocateUnchecked(c) ==
  /\ pc[c] = "rejected"
  /\ \/ Under[c] \notin registered \cup {NoParent}
     \/ Under[c] \in registered /\ Subject[c] \notin ToSet(children[Under[c]])
  /\ pos' = [pos EXCEPT ![c] = -1]
  /\ Goto(c, "located")
  /\ UNCHANGED <<registered, parent, children, walk>>

(* The parent is gone, or another undo took the child off its list. *)
LocateRefused(c) ==
  /\ pc[c] = "rejected"
  /\ \/ Under[c] \notin registered \cup {NoParent}
     \/ Under[c] \in registered /\ Subject[c] \notin ToSet(children[Under[c]])
  /\ Goto(c, "error")
  /\ UNCHANGED <<registered, parent, children, walk, pos>>

(* The parent's record may be gone, or shorter, since the search. *)
Unlink(c) ==
  /\ pc[c] = "located"
  /\ Under[c] \in registered /\ pos[c] <= Len(children[Under[c]])
  /\ children' = [children EXCEPT ![Under[c]] = RemoveAt(@, pos[c])]
  /\ pos' = [pos EXCEPT ![c] = 0]
  /\ Goto(c, "unlinked")
  /\ UNCHANGED <<registered, parent, walk>>

UnlinkRefused(c) ==
  /\ pc[c] = "located"
  /\ Under[c] \notin registered \/ pos[c] > Len(children[Under[c]])
  /\ pos' = [pos EXCEPT ![c] = 0]
  /\ Goto(c, IF Under[c] \in registered THEN "panicked" ELSE "error")
  /\ UNCHANGED <<registered, parent, children, walk>>

\* Mutant of Drop: the failed check is not passed on to the caller.
DropQuietly(c) ==
  /\ pc[c] = IF Under[c] = NoParent THEN "rejected" ELSE "unlinked"
  /\ registered' = registered \ {Subject[c]}
  /\ parent' = [parent EXCEPT ![Subject[c]] = NoParent]
  /\ children' = [children EXCEPT ![Subject[c]] = <<>>]
  /\ Goto(c, "ok")
  /\ UNCHANGED <<walk, pos>>

(* append_root undoes only this. *)
Drop(c) ==
  /\ pc[c] = IF Under[c] = NoParent THEN "rejected" ELSE "unlinked"
  /\ registered' = registered \ {Subject[c]}
  /\ parent' = [parent EXCEPT ![Subject[c]] = NoParent]
  /\ children' = [children EXCEPT ![Subject[c]] = <<>>]
  /\ Goto(c, "error")
  /\ UNCHANGED <<walk, pos>>

Undo(c) == Locate(c) \/ LocateRefused(c) \/ Unlink(c) \/ UnlinkRefused(c) \/ Drop(c)

-----------------------------------------------------------------------------
(* The connection of the caller breaks, which is an error to it ...        *)
Break(c) ==
  /\ c \in Fragile \cap (Running \ lost)
  /\ lost' = lost \cup {c}
  /\ told' = [told EXCEPT ![Subject[c]] = "error"]
  /\ UNCHANGED <<registered, parent, children, pc, walk, pos, crossed>>

(* ... and the server may drop the handler, which undoes nothing.          *)
Dropped(c) ==
  /\ c \in Running \cap lost
  /\ Leave(c, IF pc[c] \in Halfway THEN "cut" ELSE "left")
  /\ pos' = [pos EXCEPT ![c] = 0]
  /\ UNCHANGED <<registered, parent, children>>

-----------------------------------------------------------------------------
AtRest == Running = {}

Finished == (\A c \in Calls : pc[c] \in Ended) /\ UNCHANGED vars

Register(c) == Link(c) \/ LinkRefused(c) \/ Insert(c) \/ Check(c) \/ Undo(c)

Next == (\E c \in Calls : Register(c) \/ Break(c) \/ Dropped(c)) \/ Finished

Spec == Init /\ [][Next]_vars

(* A call may never come; one that came is run to its end or dropped. *)
FairSpec == Spec /\ \A c \in Calls : WF_vars(c \in Running /\ Register(c))

-----------------------------------------------------------------------------
TypeOK ==
  /\ registered \in SUBSET Ids
  /\ parent \in [Ids -> Ids \cup {NoParent}]
  /\ children \in [Ids -> Seq(Ids)]
  /\ pc \in [Calls -> Labels]
  /\ stack \in [Calls -> Seq(Ids)]
  /\ at \in [Calls -> Ids]
  /\ kids \in [Calls -> Seq(Ids)]
  /\ todo \in [Calls -> Seq(Ids)]
  /\ pos \in [Calls -> Nat]
  /\ told \in [Ids -> {"nothing", "ok", "error"}]
  /\ lost \in SUBSET Calls
  /\ crossed \in BOOLEAN

(* What check_tree asserts, with no registration in progress: one root,    *)
(* and every child listed has a record that names its parent.              *)
TreeAtRest ==
  AtRest /\ registered # {} =>
    /\ \E i \in Ids : Roots = {i}
    /\ \A i \in registered : \A k \in ToSet(children[i]) :
         k \in registered /\ parent[k] \in {NoParent, i}

(* A node that named two parents in turn: its second registration fails    *)
(* the check and is undone, which leaves it listed under the first.        *)
Moved == \E c, d \in Calls :
           Subject[c] = Subject[d] /\ Under[c] # Under[d] /\ "idle" \notin {pc[c], pc[d]}

(* What it does not look for: nodes cut off from the root, because they go *)
(* round in a circle or a parent is gone.                                  *)
LedToRoot ==
  /\ \A i \in registered : parent[i] \in registered \cup {NoParent}
  /\ \A S \in SUBSET registered : S # {} => \E i \in S : parent[i] \notin S

(* Whatever fails and is undone and whoever claims the root, registrations *)
(* that came one at a time, of nodes that stay where they are, leave a     *)
(* tree: what check_tree asserts, and a way from every node to the root.   *)
(* So do handlers that are dropped while they check the tree.              *)
CutShort == \E c \in Calls : pc[c] = "cut"
TreeUnlessCrossed == crossed \/ Moved \/ CutShort \/ (TreeAtRest /\ LedToRoot)

(* However registrations overlap, two roots never stay, unless the handler *)
(* of one was dropped between its insertion and its check or its undo.     *)
AtMostOneRoot ==
  AtRest => \A i, j \in Roots :
    i = j \/ \E c \in Calls : Under[c] = NoParent /\ Subject[c] \in {i, j} /\ pc[c] = "cut"

(* The check failed and was undone for a call of k whose caller had gone.  *)
Undone(k) == \E c \in lost : Subject[c] = k /\ pc[c] = "error"

(* A child listed without a record makes check_tree reject everybody.  It  *)
(* is a node that was told it failed, hence will register again; or the    *)
(* undo of a call it had given up on took away the record of a later one,  *)
(* the only way a node told 'ok' gets there.                               *)
DanglingKnows ==
  \A i \in registered : \A k \in ToSet(children[i]) \ registered :
    told[k] = "error" \/ Undone(k) \/ \E c \in Running : Subject[c] = k

(* The inductive invariant behind the theorems of RegistryProofs: a node   *)
(* waits for one call at a time, whose record is there once the check began*)
(* and the walk that looks at children has children to look at ...         *)
OneCallPerNode == \A c, d \in Running \ lost : Subject[c] = Subject[d] => c = d

OwnRecord ==
  \A c \in Calls :
    /\ pc[c] \notin Ended \cup {"idle", "linked"} =>
         Subject[c] \in registered \/ Undone(Subject[c]) \/ c \in lost
    /\ pc[c] \in {"linked", "located", "unlinked"} => Under[c] # NoParent
    /\ pc[c] = "located" => pos[c] > 0
    /\ pc[c] \in {"members", "parents"} => todo[c] # <<>> /\ kids[c] # <<>>

(* ... of two roots, one was inserted by a call that has not counted them  *)
(* yet, or has and will undo ...                                           *)
OneSettledRoot ==
  \A i, j \in Roots :
    i = j \/ \E c \in Calls :
      Under[c] = NoParent /\ Subject[c] \in {i, j} /\ pc[c] \in {"inserted", "rejected", "cut"}

(* ... and what nodes were told is about records that are there.           *)
ToldTrue ==
  /\ \A i \in Ids : told[i] = "ok" => i \in registered \/ Undone(i)
  /\ \A c \in lost : pc[c] # "idle" /\ told[Subject[c]] # "nothing"
  /\ \A i \in Ids : \A k \in ToSet(children[i]) :
       told[k] # "nothing" \/ \E c \in Running : Subject[c] = k

IInv == TypeOK /\ OneCallPerNode /\ OwnRecord /\ OneSettledRoot /\ ToldTrue

(* Behind TreeUnlessCrossed: every record, and every child in a list, is   *)
(* of a call that was made ...                                             *)
ByCall ==
  /\ \A i \in registered : \E c \in Calls :
       Subject[c] = i /\ Under[c] = parent[i] /\ pc[c] # "idle"
  /\ \A i \in Ids : \A k \in ToSet(children[i]) : \E c \in Calls :
       Subject[c] = k /\ Under[c] = i /\ pc[c] # "idle"

(* ... so while calls come one at a time and nobody moves, the records are *)
(* a tree but for the node of the call in progress.  The walk sees that    *)
(* tree, and rejects nothing but a second root.                            *)
Solo == \A c, d \in Running : c = d

RootThere ==
  /\ registered # {} => Roots # {}
  /\ \A c \in Running :
       /\ pc[c] = "linked" => Under[c] \in registered
       /\ Under[c] # NoParent => pc[c] # "rejected"
       /\ pc[c] = "rejected" => Roots \ {Subject[c]} # {}

Listed ==
  \A i \in registered : \A k \in ToSet(children[i]) :
    \/ k \in registered /\ parent[k] = i
    \/ \E c \in Running : pc[c] = "linked" /\ Subject[c] = k /\ Under[c] = i

(* A claimant that finds another root has no children: nobody is left      *)
(* behind when it is dropped.                                              *)
Lonely ==
  \A c \in Running :
    Under[c] = NoParent /\ pc[c] \in {"inserted", "rejected"} /\ Roots \ {Subject[c]} # {} =>
      \A k \in registered : parent[k] # Subject[c]

WalkInv ==
  \A c \in Running :
    /\ pc[c] \notin {"located", "unlinked"}
    /\ pc[c] # "linked" => Subject[c] \in registered
    /\ pc[c] \in {"visiting", "members", "parents"} => ToSet(stack[c]) \subseteq registered
    /\ pc[c] \in {"members", "parents"} =>
         \A k \in ToSet(kids[c]) \cup ToSet(todo[c]) : k \in registered /\ parent[k] = at[c]

TreeInv ==
  crossed \/ Moved \/ CutShort \/ (Solo /\ RootThere /\ LedToRoot /\ Lonely /\ Listed /\ WalkInv)

(* The walk over a tree that changes under it ends.                        *)
EveryCallEnds == \A c \in Calls : pc[c] = "inserted" ~> pc[c] \in Ended
=============================================================================
