-------------------------- MODULE NeighborhoodProofs --------------------------
(***************************************************************************)
(* Whatever the tree of parents, the losses and the restarts, a node that  *)
(* the market lists was noted by its parent, which forgets it only by      *)
(* restarting.  The inductive part is RelayedIsLinked: nobody relays for a *)
(* node before its parent noted it.                                        *)
(*                                                                         *)
(* Whatever the window and the latencies, a window holds what was measured *)
(* last and its quartiles cut it.  The argument is about ranks: how many   *)
(* samples of a sequence are at most x, before and after an insertion.     *)
(***************************************************************************)
EXTENDS Neighborhood, SequenceTheorems, FiniteSetTheorems, TLAPS

USE NeighborhoodAssumption, WindowAssumption

TypeRelay == relay \in [Nodes -> [Nodes -> Labels]]

LEMMA InitIInv == Init => IInv
<1> SUFFICES ASSUME Init PROVE IInv
  OBVIOUS
<1>1. TypeOK
  BY DEF Init, TypeOK, Booted, Labels
<1>2. RelayedIsLinked /\ ListedIsLinked
  BY DEF Init, RelayedIsLinked, ListedIsLinked, Booted
<1> QED BY <1>1, <1>2 DEF IInv

-----------------------------------------------------------------------------
(* What the actions have in common: who is linked stays linked ...         *)
LEMMA LinksKept ==
  ASSUME TypeOK, [Next]_vars, NEW n \in Nodes \ {Root}, Linked(n)
  PROVE  Linked(n)'
<1> USE DEF Linked
<1>1. CASE UNCHANGED <<children, forgotten>>
  BY <1>1
<1>2. ASSUME NEW x \in Nodes, NEW m \in Nodes, Post(x, m) PROVE Linked(n)'
  <2>1. Noted(Up[x], m)
    BY <1>2 DEF Post
  <2>2. CASE Up[x] = Up[m]
    <3>1. x # Root
      BY <1>2 DEF Post
    <3>2. /\ children' = [children EXCEPT ![Up[x]] = @ \cup {m}]
          /\ forgotten' = forgotten \ {m}
      BY <2>1, <2>2 DEF Noted
    <3>3. Up[n] \in Nodes /\ Up[x] \in Nodes /\ children \in [Nodes -> SUBSET Nodes]
      BY <3>1 DEF TypeOK
    <3>4. CASE m = n
      BY <2>2, <3>2, <3>3, <3>4
    <3>5. CASE m # n
      BY <3>2, <3>3, <3>5
    <3> QED BY <3>4, <3>5
  <2>3. CASE Up[x] # Up[m]
    BY <1>1, <2>1, <2>3 DEF Noted
  <2> QED BY <2>2, <2>3
<1>3. ASSUME NEW y \in Nodes, Restart(y) PROVE Linked(n)'
  BY <1>3 DEF Restart, TypeOK
<1>4. CASE UNCHANGED vars
  BY <1>1, <1>4 DEF vars, enrolment
<1>5. ASSUME NEW y \in Nodes, NEW m \in Nodes,
             GiveUp(y, m) \/ Answer(y, m) \/ Break(y, m)
      PROVE  Linked(n)'
  BY <1>1, <1>5 DEF GiveUp, Answer, Break
<1>6. ASSUME NEW m \in Nodes, Accept(m) \/ Refuse(m) \/ Fail(m) PROVE Linked(n)'
  BY <1>1, <1>6 DEF Accept, Refuse, Fail
<1>7. ASSUME NEW y \in Nodes, Round(y) PROVE Linked(n)'
  BY <1>1, <1>7 DEF Round, enrolment
<1>8. ASSUME NEW y \in Nodes, NEW m \in Nodes, NEW f \in Lost, NEW v \in Latencies,
             Measure(y, m, f, v)
      PROVE  Linked(n)'
  BY <1>1, <1>8 DEF Measure, enrolment
<1>9. ASSUME NEW y \in Nodes, NEW m \in Nodes, Unreachable(y, m) PROVE Linked(n)'
  BY <1>1, <1>9 DEF Unreachable, enrolment
<1> QED BY <1>2, <1>3, <1>4, <1>5, <1>6, <1>7, <1>8, <1>9 DEF Next

(* ... and, as long as who is linked stays linked, a step that only relays *)
(* for those who were relayed for leaves the two invariants alone.         *)
Grown == \A y, n \in Nodes : y # n /\ relay'[y][n] # "none" => relay[y][n] # "none"

LEMMA QuietStep ==
  ASSUME IInv, [Next]_vars, Grown, listed' \subseteq listed
  PROVE  RelayedIsLinked' /\ ListedIsLinked'
<1>1. \A n \in Nodes \ {Root} : Linked(n) => Linked(n)'
  BY LinksKept DEF IInv
<1>2. ASSUME NEW y \in Nodes, NEW n \in Nodes, y # n, relay'[y][n] # "none"
      PROVE  n # Root /\ Linked(n)'
  BY <1>1, <1>2 DEF IInv, RelayedIsLinked, Grown
<1>3. ASSUME NEW n \in listed' \ {Root} PROVE Linked(n)'
  BY <1>1, <1>3 DEF IInv, TypeOK, ListedIsLinked
<1>4. RelayedIsLinked'
  BY <1>2 DEF RelayedIsLinked
<1>5. ListedIsLinked'
  BY <1>3 DEF ListedIsLinked
<1> QED BY <1>4, <1>5

-----------------------------------------------------------------------------
(* The types, of the relays and of the rest.                               *)
LEMMA RelayTyped ==
  ASSUME TypeOK, [Next]_vars PROVE TypeRelay'
<1> USE DEF TypeOK, TypeRelay
<1>1. ASSUME NEW x \in Nodes, NEW n \in Nodes, Post(x, n) PROVE TypeRelay'
  BY <1>1 DEF Post, Labels
<1>2. ASSUME NEW y \in Nodes, NEW n \in Nodes, GiveUp(y, n) PROVE TypeRelay'
  BY <1>2 DEF GiveUp, Labels
<1>3. ASSUME NEW y \in Nodes, NEW n \in Nodes, Answer(y, n) PROVE TypeRelay'
  <2>1. ASSUME NEW x \in Nodes PROVE Outcome(x, n, relay[y][n]) \in Labels
    BY DEF Outcome, Labels
  <2> QED BY <1>3, <2>1 DEF Answer, Labels
<1>4. ASSUME NEW x \in Nodes, NEW n \in Nodes, Break(x, n) PROVE TypeRelay'
  <2>1. Up[x] \in Nodes
    BY <1>4 DEF Break
  <2>2. PICK left \in {"none", relay[Up[x]][n]} :
          relay' = [relay EXCEPT ![x][n] = "again", ![Up[x]][n] = left]
    BY <1>4 DEF Break
  <2>3. left \in Labels
    BY <2>1, <2>2 DEF Labels
  <2> QED BY <2>1, <2>2, <2>3 DEF Labels
<1>5. ASSUME NEW n \in Nodes, Accept(n) \/ Refuse(n) \/ Fail(n) PROVE TypeRelay'
  BY <1>5 DEF Accept, Refuse, Fail, Labels
<1>6. ASSUME NEW y \in Nodes, Restart(y) PROVE TypeRelay'
  BY <1>6 DEF Restart, Booted, Labels
<1>7. CASE UNCHANGED relay
  BY <1>7
<1> QED
  BY <1>1, <1>2, <1>3, <1>4, <1>5, <1>6, <1>7
  DEF Next, Round, Measure, Unreachable, vars, enrolment

LEMMA RestTyped ==
  ASSUME TypeOK, [Next]_vars
  PROVE  /\ children' \in [Nodes -> SUBSET Nodes]
         /\ listed' \subseteq Nodes
         /\ forgotten' \subseteq Nodes
         /\ faults' \in 0..MaxFaults
<1> DEFINE Goal == /\ children' \in [Nodes -> SUBSET Nodes]
                   /\ listed' \subseteq Nodes
                   /\ forgotten' \subseteq Nodes
                   /\ faults' \in 0..MaxFaults
<1> USE DEF TypeOK
<1>1. ASSUME NEW x \in Nodes, NEW n \in Nodes, Post(x, n) PROVE Goal
  BY <1>1 DEF Post, Noted
<1>2. ASSUME NEW y \in Nodes, NEW n \in Nodes, GiveUp(y, n) \/ Answer(y, n) PROVE Goal
  BY <1>2 DEF GiveUp, Answer
<1>3. ASSUME NEW x \in Nodes, NEW n \in Nodes, Break(x, n) PROVE Goal
  BY <1>3 DEF Break, Fault
<1>4. ASSUME NEW n \in Nodes, Accept(n) \/ Refuse(n) PROVE Goal
  BY <1>4 DEF Accept, Refuse
<1>5. ASSUME NEW n \in Nodes, Fail(n) PROVE Goal
  BY <1>5 DEF Fail, Fault
<1>6. ASSUME NEW y \in Nodes, Restart(y) PROVE Goal
  BY <1>6 DEF Restart, Fault
<1>7. CASE UNCHANGED enrolment
  BY <1>7 DEF enrolment
<1> QED
  BY <1>1, <1>2, <1>3, <1>4, <1>5, <1>6, <1>7
  DEF Next, Round, Measure, Unreachable, vars

LEMMA TypeKept == TypeOK /\ [Next]_vars => TypeOK'
BY RelayTyped, RestTyped DEF TypeOK, TypeRelay

-----------------------------------------------------------------------------
LEMMA StepIInv == IInv /\ [Next]_vars => IInv'
<1> SUFFICES ASSUME IInv, [Next]_vars PROVE IInv'
  OBVIOUS
<1>1. TypeOK'
  BY TypeKept DEF IInv
<1>2. \A n \in Nodes \ {Root} : Linked(n) => Linked(n)'
  BY LinksKept DEF IInv
<1> DEFINE Goal == RelayedIsLinked' /\ ListedIsLinked'
<1>3. ASSUME NEW x \in Nodes, NEW n \in Nodes, Post(x, n) PROVE Goal
  <2>1. /\ x # Root /\ relay[x][n] # "none" /\ Up[x] \in Nodes
        /\ Noted(Up[x], n) /\ listed' = listed
    BY <1>3 DEF Post, Posting
  <2>2. n # Root /\ Linked(n)'
    <3>1. CASE x = n
      BY <2>1, <3>1 DEF Noted, Linked, IInv, TypeOK
    <3>2. CASE x # n
      BY <1>2, <2>1, <3>2 DEF IInv, RelayedIsLinked
    <3> QED BY <3>1, <3>2
  <2>3. ASSUME NEW y \in Nodes, NEW m \in Nodes, m # n
        PROVE  relay'[y][m] = relay[y][m]
    BY <1>3, <2>1, <2>3 DEF Post, IInv, TypeOK
  <2>4. RelayedIsLinked'
    <3> SUFFICES ASSUME NEW y \in Nodes, NEW m \in Nodes, y # m, relay'[y][m] # "none"
                 PROVE  m # Root /\ Linked(m)'
      BY DEF RelayedIsLinked
    <3>1. CASE m = n
      BY <2>2, <3>1
    <3>2. CASE m # n
      BY <1>2, <2>3, <3>2 DEF IInv, RelayedIsLinked
    <3> QED BY <3>1, <3>2
  <2>5. ListedIsLinked'
    BY <1>2, <2>1 DEF IInv, TypeOK, ListedIsLinked
  <2> QED BY <2>4, <2>5
<1>4. ASSUME NEW y \in Nodes, NEW n \in Nodes, GiveUp(y, n) PROVE Goal
  <2>1. Grown /\ listed' = listed
    BY <1>4 DEF GiveUp, Grown, IInv, TypeOK
  <2> QED BY <2>1, QuietStep
<1>5. ASSUME NEW y \in Nodes, NEW n \in Nodes, Answer(y, n) PROVE Goal
  <2>1. Grown /\ listed' = listed
    BY <1>5 DEF Answer, Grown, IInv, TypeOK
  <2> QED BY <2>1, QuietStep
<1>6. ASSUME NEW x \in Nodes, NEW n \in Nodes, Break(x, n) PROVE Goal
  <2>1. Up[x] \in Nodes /\ relay[x][n] = "waiting" /\ listed' = listed
    BY <1>6 DEF Break
  <2>2. PICK left \in {"none", relay[Up[x]][n]} :
          relay' = [relay EXCEPT ![x][n] = "again", ![Up[x]][n] = left]
    BY <1>6 DEF Break
  <2>3. Grown
    BY <2>1, <2>2 DEF Grown, IInv, TypeOK
  <2> QED BY <2>1, <2>3, QuietStep
<1>7. ASSUME NEW n \in Nodes, Refuse(n) PROVE Goal
  <2>1. Grown /\ listed' = listed
    BY <1>7 DEF Refuse, Posting, Grown, IInv, TypeOK
  <2> QED BY <2>1, QuietStep
<1>8. ASSUME NEW n \in Nodes, Accept(n) \/ Fail(n) PROVE Goal
  <2>1. listed' \subseteq listed \cup {n} /\ relay[Root][n] # "none"
    BY <1>8 DEF Accept, Fail, Posting
  <2>2. Grown
    BY <1>8, <2>1 DEF Accept, Fail, Grown, IInv, TypeOK
  <2>3. n = Root \/ Linked(n)
    BY <2>1 DEF IInv, RelayedIsLinked
  <2>4. RelayedIsLinked'
    BY <1>2, <2>2 DEF RelayedIsLinked, Grown, IInv
  <2>5. ListedIsLinked'
    BY <1>2, <2>1, <2>3 DEF ListedIsLinked, IInv, TypeOK
  <2> QED BY <2>4, <2>5
<1>9. ASSUME NEW y \in Nodes, Restart(y) PROVE Goal
  <2>1. Grown /\ listed' = listed
    BY <1>9 DEF Restart, Booted, Grown, IInv, TypeOK
  <2> QED BY <2>1, QuietStep
<1>10. ASSUME UNCHANGED enrolment PROVE Goal
  <2>1. Grown /\ listed' = listed
    BY <1>10 DEF enrolment, Grown
  <2> QED BY <2>1, QuietStep
<1>11. Goal
  BY <1>3, <1>4, <1>5, <1>6, <1>7, <1>8, <1>9, <1>10
  DEF Next, Round, Measure, Unreachable, vars
<1> QED BY <1>1, <1>11 DEF IInv

(* Nobody relays for a node, and the market lists none, before its parent  *)
(* noted it (register_child_node notes before it relays).                  *)
THEOREM NeighborhoodInvariance == Spec => []IInv
<1>1. Init => IInv
  BY InitIInv
<1>2. IInv /\ [Next]_vars => IInv'
  BY StepIInv
<1> QED BY <1>1, <1>2, PTL DEF Spec

(* A node the market leads bids to is one its parent relays bids to, or    *)
(* its parent restarted.                                                   *)
THEOREM ListedNodesAreLinked == Spec => []ListedIsLinked
<1>1. IInv => ListedIsLinked
  BY DEF IInv
<1> QED BY <1>1, NeighborhoodInvariance, PTL

-----------------------------------------------------------------------------
(* Below, the windows.  A list s in order is told by its ranks: the sample  *)
(* at i is at most x exactly when i is at most Rank(s, x).  Inserting a     *)
(* sample raises the ranks from that sample on by one, removing the first   *)
(* of its equals lowers them again, and the ring's own ranks move alike.    *)
HIDE NeighborhoodAssumption

(* The samples of s that are at most x are finitely many, so their number is a rank. *)
AtMost(s, x) == {i \in 1..Len(s) : s[i] <= x}

LEMMA RankType ==
  ASSUME NEW s \in Seq(Nat), NEW x \in Int
  PROVE  /\ Rank(s, x) = Cardinality(AtMost(s, x))
         /\ IsFiniteSet(AtMost(s, x))
         /\ Rank(s, x) \in 0..Len(s)
<1>1. Len(s) \in Nat /\ DOMAIN s = 1..Len(s)
  BY LenProperties
<1>2. IsFiniteSet(1..Len(s)) /\ Cardinality(1..Len(s)) = Len(s)
  <2> DEFINE n == Len(s)
  <2>1. n \in Nat
    BY <1>1
  <2> HIDE DEF n
  <2>2. IsFiniteSet(1..n) /\ Cardinality(1..n) = n
    BY <2>1, FS_Interval
  <2> QED BY <2>2 DEF n
<1>3. AtMost(s, x) \in SUBSET (1..Len(s))
  BY DEF AtMost
<1>4. /\ IsFiniteSet(AtMost(s, x)) /\ Cardinality(AtMost(s, x)) <= Len(s)
      /\ Cardinality(AtMost(s, x)) \in Nat
  BY <1>2, <1>3, FS_Subset, FS_CardinalityType
<1>5. {i \in DOMAIN s : s[i] <= x} = AtMost(s, x)
  BY <1>1 DEF AtMost
<1>6. Rank(s, x) = Cardinality(AtMost(s, x))
  BY <1>5 DEF Rank
<1> QED BY <1>1, <1>4, <1>6

LEMMA RankMonotonic ==
  ASSUME NEW s \in Seq(Nat), NEW x \in Int, NEW y \in Int, x <= y
  PROVE  Rank(s, x) <= Rank(s, y)
<1>1. AtMost(s, x) \in SUBSET AtMost(s, y)
  BY ElementOfSeq DEF AtMost
<1>2. /\ IsFiniteSet(AtMost(s, y))
      /\ Rank(s, x) = Cardinality(AtMost(s, x)) /\ Rank(s, y) = Cardinality(AtMost(s, y))
  BY RankType
<1>3. Cardinality(AtMost(s, x)) <= Cardinality(AtMost(s, y))
  BY <1>1, <1>2, FS_Subset
<1> QED BY <1>2, <1>3

LEMMA RankStrict ==
  ASSUME NEW s \in Seq(Nat), NEW d \in 1..Len(s)
  PROVE  Rank(s, s[d] - 1) < Rank(s, s[d])
<1> DEFINE U == AtMost(s, s[d] - 1)
           V == AtMost(s, s[d])
<1>1. s[d] \in Nat /\ \A i \in 1..Len(s) : s[i] \in Nat
  BY ElementOfSeq
<1>2. U \in SUBSET V /\ d \in V /\ d \notin U
  BY <1>1 DEF AtMost
<1>3. /\ IsFiniteSet(V) /\ IsFiniteSet(U)
      /\ Rank(s, s[d] - 1) = Cardinality(U) /\ Rank(s, s[d]) = Cardinality(V)
  <2>1. s[d] \in Int /\ s[d] - 1 \in Int
    BY <1>1
  <2> QED BY <2>1, RankType
<1> HIDE DEF U, V
<1>4. Cardinality(U) <= Cardinality(V) /\ Cardinality(U) # Cardinality(V)
  BY <1>2, <1>3, FS_Subset
<1>5. Cardinality(U) \in Nat /\ Cardinality(V) \in Nat
  BY <1>3, FS_CardinalityType
<1> QED BY <1>3, <1>4, <1>5

One(v, x) == IF v <= x THEN 1 ELSE 0

LEMMA RankAppend ==
  ASSUME NEW s \in Seq(Nat), NEW v \in Nat, NEW x \in Int
  PROVE  Rank(Append(s, v), x) = Rank(s, x) + One(v, x)
<1> DEFINE t == Append(s, v)
           n == Len(s)
           U == AtMost(s, x)
<1>1. n \in Nat /\ t \in Seq(Nat) /\ Len(t) = n + 1 /\ t[n+1] = v /\ \A i \in 1..n : t[i] = s[i]
  BY AppendProperties, LenProperties
<1>2. /\ IsFiniteSet(U) /\ Rank(s, x) = Cardinality(U) /\ Rank(t, x) = Cardinality(AtMost(t, x))
  BY <1>1, RankType
<1> HIDE DEF t
<1>3. AtMost(t, x) = IF v <= x THEN U \cup {n+1} ELSE U
  BY <1>1 DEF AtMost
<1>4. n + 1 \notin U
  BY <1>1 DEF AtMost
<1>5. Cardinality(U) \in Nat
  BY <1>2, FS_CardinalityType
<1> HIDE DEF U, n
<1>6. Cardinality(U \cup {n+1}) = Cardinality(U) + 1
  BY <1>2, <1>4, FS_AddElement
<1> QED BY <1>2, <1>3, <1>5, <1>6 DEF t, One

LEMMA RankReplace ==
  ASSUME NEW s \in Seq(Nat), NEW d \in 1..Len(s), NEW v \in Nat, NEW x \in Int
  PROVE  Rank(ReplaceAt(s, d, v), x) = Rank(s, x) - One(s[d], x) + One(v, x)
<1> DEFINE t == ReplaceAt(s, d, v)
           n == Len(s)
           U == AtMost(s, x)
           M == U \ {d}
<1>1. /\ t \in Seq(Nat) /\ Len(t) = n /\ t[d] = v
      /\ \A i \in 1..n : i # d => t[i] = s[i]
      /\ d \in 1..n /\ s[d] \in Nat
  BY ExceptSeq, ElementOfSeq DEF ReplaceAt
<1>2. /\ IsFiniteSet(U) /\ Rank(s, x) = Cardinality(U) /\ Rank(t, x) = Cardinality(AtMost(t, x))
  BY <1>1, RankType
<1> HIDE DEF t
<1>3. AtMost(t, x) = IF v <= x THEN M \cup {d} ELSE M
  BY <1>1 DEF AtMost
<1>4. (d \in U <=> s[d] <= x) /\ d \notin M
  BY <1>1 DEF AtMost
<1> HIDE DEF U, n
<1>5. IsFiniteSet(M) /\ Cardinality(M) = IF d \in U THEN Cardinality(U) - 1 ELSE Cardinality(U)
  BY <1>2, FS_RemoveElement
<1>6. Cardinality(U) \in Nat
  BY <1>2, FS_CardinalityType
<1> HIDE DEF M
<1>7. Cardinality(M) \in Nat
  BY <1>5, FS_CardinalityType
<1>8. Cardinality(M \cup {d}) = Cardinality(M) + 1
  BY <1>4, <1>5, FS_AddElement
<1> QED BY <1>2, <1>3, <1>4, <1>5, <1>6, <1>7, <1>8 DEF t, One

(* The first k samples of a list, and the others.                          *)
LEMMA FrontAndRest ==
  ASSUME NEW s \in Seq(Nat), NEW k \in 0..Len(s)
  PROVE  /\ SubSeq(s, 1, k) \in Seq(Nat) /\ Len(SubSeq(s, 1, k)) = k
         /\ \A i \in 1..k : SubSeq(s, 1, k)[i] = s[i]
         /\ SubSeq(s, k + 1, Len(s)) \in Seq(Nat) /\ Len(SubSeq(s, k + 1, Len(s))) = Len(s) - k
         /\ \A i \in 1..(Len(s) - k) : SubSeq(s, k + 1, Len(s))[i] = s[i + k]
<1> DEFINE n == Len(s)
           d == k + 1
<1>1. n \in Nat /\ k \in 0..n /\ \A i \in 1..n : s[i] \in Nat
  BY LenProperties, ElementOfSeq
<1> HIDE DEF n, d
<1>2. \A i \in 1..k : s[i] \in Nat
  BY <1>1
<1>3. k \in Int /\ 1 \in Int /\ (IF 1 <= k THEN k - 1 + 1 ELSE 0) = k /\ k - 1 + 1 = k /\ \A i \in 1..k : 1 + i - 1 = i
  BY <1>1
<1>4. /\ SubSeq(s, 1, k) \in Seq(Nat)
      /\ Len(SubSeq(s, 1, k)) = IF 1 <= k THEN k - 1 + 1 ELSE 0
      /\ \A i \in 1..(k - 1 + 1) : SubSeq(s, 1, k)[i] = s[1 + i - 1]
  BY <1>2, <1>3, SubSeqProperties
<1>5. /\ SubSeq(s, 1, k) \in Seq(Nat) /\ Len(SubSeq(s, 1, k)) = k
      /\ \A i \in 1..k : SubSeq(s, 1, k)[i] = s[i]
  BY <1>3, <1>4
<1>6. /\ d \in Int /\ n \in Int /\ (IF d <= n THEN n - d + 1 ELSE 0) = n - k
      /\ n - d + 1 = n - k /\ \A i \in 1..(n - k) : d + i - 1 = i + k
  BY <1>1 DEF d
<1>7. \A i \in d..n : s[i] \in Nat
  BY <1>1 DEF d
<1>8. /\ SubSeq(s, d, n) \in Seq(Nat)
      /\ Len(SubSeq(s, d, n)) = IF d <= n THEN n - d + 1 ELSE 0
      /\ \A i \in 1..(n - d + 1) : SubSeq(s, d, n)[i] = s[d + i - 1]
  BY <1>6, <1>7, SubSeqProperties
<1>9. /\ SubSeq(s, d, n) \in Seq(Nat) /\ Len(SubSeq(s, d, n)) = n - k
      /\ \A i \in 1..(n - k) : SubSeq(s, d, n)[i] = s[i + k]
  BY <1>6, <1>8
<1> QED BY <1>5, <1>9 DEF n, d

(* How an ordered list is told: its i-th sample is at most x for the i up to f[x]. *)
OrderedBy(o, f) ==
  /\ o \in Seq(Nat)
  /\ \A x \in Int : f[x] \in 0..Len(o)
  /\ \A x, y \in Int : x <= y => f[x] <= f[y]
  /\ \A i \in 1..Len(o), x \in Int : o[i] <= x <=> i <= f[x]

LEMMA InsertOrdered ==
  ASSUME NEW o, NEW f, OrderedBy(o, f), NEW v \in Nat
  PROVE  /\ InOrder(o, v) \in Seq(Nat)
         /\ Len(InOrder(o, v)) = Len(o) + 1
         /\ \A i \in 1..(Len(o) + 1), x \in Int : InOrder(o, v)[i] <= x <=> i <= f[x] + One(v, x)
<1> DEFINE n == Len(o)
           k == f[v]
           t == InOrder(o, v)
<1>1. n \in Nat /\ k \in 0..n /\ \A i \in 1..n : o[i] \in Nat
  BY LenProperties, ElementOfSeq DEF OrderedBy
<1>2. Rank(o, v) = k
  <2>1. AtMost(o, v) = 1..k
    BY <1>1 DEF OrderedBy, AtMost
  <2>2. Rank(o, v) = Cardinality(1..k)
    BY <2>1, RankType DEF OrderedBy
  <2> HIDE DEF k
  <2>3. k \in Nat
    BY <1>1
  <2> QED BY <2>2, <2>3, FS_Interval
<1> DEFINE a == SubSeq(o, 1, k)
           b == SubSeq(o, k + 1, n)
<1>3. a \in Seq(Nat) /\ Len(a) = k /\ \A i \in 1..k : a[i] = o[i]
  BY <1>1, FrontAndRest DEF OrderedBy
<1>4. b \in Seq(Nat) /\ Len(b) = n - k /\ \A i \in 1..(n - k) : b[i] = o[i + k]
  BY <1>1, FrontAndRest DEF OrderedBy
<1>5. t = (a \o <<v>>) \o b
  <2> HIDE DEF k
  <2>1. (k + 1) - 1 = k
    BY <1>1
  <2> QED BY <1>2, <2>1 DEF InOrder, InsertAt
<1> HIDE DEF a, b
<1>6. /\ a \o <<v>> \in Seq(Nat) /\ Len(a \o <<v>>) = k + 1
      /\ \A i \in 1..(k + 1) : (a \o <<v>>)[i] = IF i <= k THEN a[i] ELSE v
  <2>1. <<v>> \in Seq(Nat) /\ Len(<<v>>) = 1 /\ <<v>>[1] = v
    OBVIOUS
  <2> HIDE DEF k
  <2>2. \A i \in 1..(k + 1) : ~ (i <= k) => i - k = 1
    BY <1>1
  <2> QED BY <1>3, <2>1, <2>2, ConcatProperties
<1>7. /\ t \in Seq(Nat) /\ Len(t) = n + 1
      /\ \A i \in 1..(n + 1) : t[i] = IF i <= k + 1 THEN (a \o <<v>>)[i] ELSE b[i - (k + 1)]
  <2> HIDE DEF t, k, n
  <2>1. (k + 1) + (n - k) = n + 1
    BY <1>1
  <2> QED BY <1>1, <1>4, <1>5, <1>6, <2>1, ConcatProperties
<1>8. \A i \in 1..(n + 1) : t[i] = IF i <= k THEN o[i] ELSE IF i = k + 1 THEN v ELSE o[i - 1]
  <2> HIDE DEF t, k, n
  <2> SUFFICES ASSUME NEW i \in 1..(n + 1)
               PROVE  t[i] = IF i <= k THEN o[i] ELSE IF i = k + 1 THEN v ELSE o[i - 1]
    OBVIOUS
  <2>1. CASE i <= k + 1
    BY <1>1, <1>3, <1>6, <1>7, <2>1
  <2>2. CASE i > k + 1
    <3>1. i - (k + 1) \in 1..(n - k) /\ (i - (k + 1)) + k = i - 1
      BY <1>1, <2>2
    <3>2. b[i - (k + 1)] = o[i - 1]
      BY <1>4, <3>1
    <3> QED BY <1>1, <1>7, <2>2, <3>2
  <2> QED BY <1>1, <2>1, <2>2
<1>9. ASSUME NEW i \in 1..(n + 1), NEW x \in Int
      PROVE  t[i] <= x <=> i <= f[x] + One(v, x)
  <2>1. f[x] \in 0..n /\ (v <= x => k <= f[x]) /\ (x <= v => f[x] <= k)
    BY DEF OrderedBy
  <2>2. \A j \in 1..n : o[j] <= x <=> j <= f[x]
    BY DEF OrderedBy
  <2> HIDE DEF t, k, n
  <2>3. CASE i <= k
    BY <1>1, <1>8, <2>1, <2>2, <2>3 DEF One
  <2>4. CASE i = k + 1
    BY <1>1, <1>8, <2>1, <2>2, <2>4 DEF One
  <2>5. CASE i > k + 1
    BY <1>1, <1>8, <2>1, <2>2, <2>5 DEF One
  <2> QED BY <1>1, <2>3, <2>4, <2>5
<1> QED BY <1>7, <1>9

LEMMA RemoveOrdered ==
  ASSUME NEW o, NEW f, OrderedBy(o, f), NEW u \in Nat, f[u - 1] < f[u]
  PROVE  /\ RemoveFirst(o, u) \in Seq(Nat)
         /\ Len(RemoveFirst(o, u)) = Len(o) - 1
         /\ \A i \in 1..(Len(o) - 1), x \in Int :
              RemoveFirst(o, u)[i] <= x <=> i <= f[x] - One(u, x)
<1> DEFINE n == Len(o)
           j == f[u - 1] + 1
           t == RemoveFirst(o, u)
<1>1. n \in Nat /\ j \in 1..n /\ j <= f[u] /\ \A i \in 1..n : o[i] \in Nat
  BY LenProperties, ElementOfSeq DEF OrderedBy
<1>2. o[j] = u /\ \A i \in 1..n : o[i] = u => j <= i
  <2>1. \A i \in 1..n : o[i] <= u - 1 <=> i <= f[u - 1]
    BY DEF OrderedBy
  <2>2. \A i \in 1..n : o[i] <= u <=> i <= f[u]
    BY DEF OrderedBy
  <2>3. f[u - 1] \in Int /\ f[u] \in Int
    BY DEF OrderedBy
  <2> QED BY <1>1, <2>1, <2>2, <2>3
<1>3. t = RemoveAt(o, j)
  <2> DEFINE I == {i \in 1..n : o[i] = u}
  <2> HIDE DEF j
  <2>1. j \in I /\ \A i \in I : j <= i
    BY <1>1, <1>2
  <2>2. \A i \in I : i \in Int
    OBVIOUS
  <2> HIDE DEF I
  <2>3. Min(I) = j
    BY <2>1, <2>2 DEF Min
  <2>4. SelectInSeq(o, LAMBDA w : w = u) = j
    BY <2>1, <2>3 DEF SelectInSeq, I
  <2> QED BY <1>1, <1>2, <2>4 DEF RemoveFirst
<1> DEFINE a == SubSeq(o, 1, j - 1)
           b == SubSeq(o, j + 1, n)
<1>4. a \in Seq(Nat) /\ Len(a) = j - 1 /\ \A i \in 1..(j - 1) : a[i] = o[i]
  <2>1. j - 1 \in 0..Len(o)
    BY <1>1
  <2> HIDE DEF j, n
  <2> QED BY <1>1, <2>1, FrontAndRest
<1>5. b \in Seq(Nat) /\ Len(b) = n - j /\ \A i \in 1..(n - j) : b[i] = o[i + j]
  <2>1. j \in 0..Len(o)
    BY <1>1
  <2> HIDE DEF j
  <2> QED BY <1>1, <2>1, FrontAndRest
<1>6. t = a \o b
  BY <1>3 DEF RemoveAt
<1> HIDE DEF a, b, t, j, n
<1>7. /\ t \in Seq(Nat) /\ Len(t) = n - 1
      /\ \A i \in 1..(n - 1) : t[i] = IF i <= j - 1 THEN a[i] ELSE b[i - (j - 1)]
  <2>1. (j - 1) + (n - j) = n - 1
    BY <1>1
  <2>2. /\ a \o b \in Seq(Nat) /\ Len(a \o b) = Len(a) + Len(b)
        /\ \A i \in 1..(Len(a) + Len(b)) :
             (a \o b)[i] = IF i <= Len(a) THEN a[i] ELSE b[i - Len(a)]
    BY <1>4, <1>5, ConcatProperties
  <2> QED BY <1>4, <1>5, <1>6, <2>1, <2>2
<1>8. \A i \in 1..(n - 1) : t[i] = IF i < j THEN o[i] ELSE o[i + 1]
  BY <1>1, <1>4, <1>5, <1>7
<1>9. ASSUME NEW i \in 1..(n - 1), NEW x \in Int
      PROVE  t[i] <= x <=> i <= f[x] - One(u, x)
  <2>1. f[x] \in 0..n /\ (u <= x => j <= f[x]) /\ (x < u => f[x] < j)
    <3>1. x < u => x <= u - 1
      OBVIOUS
    <3>2. f[x] \in 0..n /\ (u <= x => f[u] <= f[x]) /\ (x < u => f[x] <= f[u - 1])
      BY <3>1 DEF OrderedBy, n
    <3> QED BY <1>1, <3>2 DEF j, n, OrderedBy
  <2>2. \A h \in 1..n : o[h] <= x <=> h <= f[x]
    BY DEF OrderedBy, n
  <2>3. CASE i < j
    BY <1>1, <1>8, <2>1, <2>2, <2>3 DEF One
  <2>4. CASE i >= j
    BY <1>1, <1>8, <2>1, <2>2, <2>4 DEF One
  <2> QED BY <1>1, <2>3, <2>4
<1> QED BY <1>7, <1>9 DEF t, n

Windows == [ring : Seq(Nat), cursor : 0..(Window - 1), ordered : Seq(Nat),
            loss : Seq({0}), lossCursor : 0..(Window - 1)]

Turned(e, i) ==
  IF e.cursor + i <= Len(e.ring) THEN e.cursor + i ELSE e.cursor + i - Len(e.ring)

RingInv(e, q) ==
  /\ q \in Seq(Nat) /\ Len(q) = Len(e.ring) /\ Len(e.ring) <= Window
  /\ Len(e.ring) < Window => e.cursor = 0
  /\ \A i \in 1..Len(q) : q[i] = e.ring[Turned(e, i)]

OrderInv(e) ==
  /\ Len(e.ordered) = Len(e.ring)
  /\ \A i \in 1..Len(e.ring), x \in Int : e.ordered[i] <= x <=> i <= Rank(e.ring, x)

LossInv(e) ==
  /\ Len(e.loss) = Len(e.ring)
  /\ e.lossCursor = IF Len(e.ring) < Window THEN Len(e.ring) ELSE e.cursor

Ranks(s) == [x \in Int |-> Rank(s, x)]

LEMMA OrderedByRanks ==
  ASSUME NEW e \in Windows, OrderInv(e)
  PROVE  OrderedBy(e.ordered, Ranks(e.ring))
<1>1. e.ring \in Seq(Nat) /\ e.ordered \in Seq(Nat)
  BY DEF Windows
<1>2. \A x \in Int : Rank(e.ring, x) \in 0..Len(e.ring)
  BY <1>1, RankType
<1>3. \A x, y \in Int : x <= y => Rank(e.ring, x) <= Rank(e.ring, y)
  BY <1>1, RankMonotonic
<1> QED BY <1>1, <1>2, <1>3 DEF OrderedBy, OrderInv, Ranks

(* A sample that fits *)
LEMMA SampledGrowing ==
  ASSUME NEW e \in Windows, NEW q, RingInv(e, q), OrderInv(e), NEW v \in Nat, Len(e.ring) # Window
  PROVE  /\ Sampled(e, v) \in Windows
         /\ RingInv(Sampled(e, v), LastOf(q, v)) /\ OrderInv(Sampled(e, v))
<1> DEFINE r == e.ring
           n == Len(r)
           t == Append(r, v)
           o == InOrder(e.ordered, v)
           p == Append(q, v)
<1>1. /\ r \in Seq(Nat) /\ n \in Nat /\ n < Window /\ e.cursor = 0
      /\ q \in Seq(Nat) /\ Len(q) = n /\ Len(e.ordered) = n
  BY LenProperties DEF Windows, RingInv, OrderInv
<1>2. Sampled(e, v) = [e EXCEPT !.ordered = o, !.ring = t]
  BY DEF Sampled
<1>3. t \in Seq(Nat) /\ Len(t) = n + 1 /\ t[n + 1] = v /\ \A i \in 1..n : t[i] = r[i]
  BY <1>1, AppendProperties
<1>4. p \in Seq(Nat) /\ Len(p) = n + 1 /\ p[n + 1] = v /\ \A i \in 1..n : p[i] = q[i]
  BY <1>1, AppendProperties
<1>5. LastOf(q, v) = p
  BY <1>1, <1>4 DEF LastOf
<1>6. /\ o \in Seq(Nat) /\ Len(o) = n + 1
      /\ \A i \in 1..(n + 1), x \in Int : o[i] <= x <=> i <= Rank(r, x) + One(v, x)
  <2>1. OrderedBy(e.ordered, Ranks(r))
    BY OrderedByRanks
  <2>2. \A x \in Int : Ranks(r)[x] = Rank(r, x)
    BY DEF Ranks
  <2> QED BY <1>1, <2>1, <2>2, InsertOrdered
<1>7. \A x \in Int : Rank(t, x) = Rank(r, x) + One(v, x)
  BY <1>1, RankAppend
<1>8. \A i \in 1..n : q[i] = r[i]
  BY <1>1 DEF RingInv, Turned
<1> HIDE DEF t, o, p
<1>9. /\ Sampled(e, v).ring = t /\ Sampled(e, v).ordered = o /\ Sampled(e, v).cursor = 0
      /\ Sampled(e, v) \in Windows
  BY <1>1, <1>2, <1>3, <1>6 DEF Windows
<1>10. RingInv(Sampled(e, v), p)
  <2> DEFINE w == Sampled(e, v)
  <2>1. w.ring = t /\ w.cursor = 0 /\ Len(w.ring) = n + 1
    BY <1>3, <1>9
  <2> HIDE DEF w
  <2>2. \A i \in 1..(n + 1) : Turned(w, i) = i
    BY <1>1, <2>1 DEF Turned
  <2>3. ASSUME NEW i \in 1..(n + 1) PROVE p[i] = t[i]
    <3> HIDE DEF r, n
    <3>1. CASE i = n + 1
      BY <1>3, <1>4, <3>1
    <3>2. CASE i # n + 1
      <4>1. i \in 1..n
        BY <1>1, <3>2
      <4> QED BY <1>3, <1>4, <1>8, <4>1
    <3> QED BY <3>1, <3>2
  <2> QED BY <1>1, <1>4, <2>1, <2>2, <2>3 DEF RingInv, w
<1>11. OrderInv(Sampled(e, v))
  <2>1. \A i \in 1..(n + 1), x \in Int : o[i] <= x <=> i <= Rank(t, x)
    BY <1>6, <1>7
  <2> HIDE DEF n
  <2> QED BY <1>3, <1>6, <1>9, <2>1 DEF OrderInv
<1> QED BY <1>5, <1>9, <1>10, <1>11

LEMMA NextCursor ==
  ASSUME NEW c \in 0..(Window - 1)
  PROVE  (c + 1) % Window = IF c + 1 = Window THEN 0 ELSE c + 1
<1>1. Window % Window = 0
  OBVIOUS
<1>2. ASSUME NEW x \in Nat, x < Window PROVE x % Window = x
  BY <1>2
<1>3. c + 1 \in Nat /\ c + 1 <= Window
  OBVIOUS
<1> QED BY <1>1, <1>2, <1>3

LEMMA SampledFull ==
  ASSUME NEW e \in Windows, NEW q, RingInv(e, q), OrderInv(e), NEW v \in Nat, Len(e.ring) = Window
  PROVE  /\ Sampled(e, v) \in Windows
         /\ RingInv(Sampled(e, v), LastOf(q, v)) /\ OrderInv(Sampled(e, v))
<1> DEFINE r == e.ring
           n == Window
           c == e.cursor
           d == c + 1
           u == r[d]
           t == ReplaceAt(r, d, v)
           m == RemoveFirst(e.ordered, u)
           o == InOrder(m, v)
           p == Tail(Append(q, v))
           f == Ranks(r)
           g == [x \in Int |-> Rank(r, x) - One(u, x)]
<1>1. /\ r \in Seq(Nat) /\ n \in Nat /\ n >= 4 /\ Len(r) = n /\ c \in 0..(n - 1) /\ d \in 1..n
      /\ q \in Seq(Nat) /\ Len(q) = n /\ Len(e.ordered) = n
  <2>1. r \in Seq(Nat) /\ c \in 0..(n - 1)
    BY DEF Windows
  <2>2. d \in 1..n
    BY <2>1
  <2> QED BY <2>1, <2>2 DEF RingInv, OrderInv
<1>2. u \in Nat
  BY <1>1, ElementOfSeq
<1>3. Sampled(e, v) = [e EXCEPT !.ordered = o, !.ring = t, !.cursor = (c + 1) % Window]
  BY DEF Sampled
<1>4. t \in Seq(Nat) /\ Len(t) = n /\ t[d] = v /\ \A i \in 1..n : i # d => t[i] = r[i]
  BY <1>1, ExceptSeq DEF ReplaceAt
<1>5. LastOf(q, v) = p /\ p \in Seq(Nat) /\ Len(p) = n
      /\ p[n] = v /\ \A i \in 1..(n - 1) : p[i] = q[i + 1]
  <2> DEFINE s == Append(q, v)
  <2>1. s \in Seq(Nat) /\ Len(s) = n + 1 /\ s[n + 1] = v /\ \A i \in 1..n : s[i] = q[i]
    <3>1. q \in Seq(Nat) /\ Len(q) = n /\ n \in Nat
      BY <1>1
    <3> HIDE DEF n
    <3> QED BY <3>1, AppendProperties
  <2> HIDE DEF s
  <2>2. s # <<>>
    BY <1>1, <2>1
  <2>3. Tail(s) \in Seq(Nat) /\ Len(Tail(s)) = n /\ \A i \in 1..n : Tail(s)[i] = s[i + 1]
    BY <1>1, <2>1, <2>2, HeadTailProperties
  <2>4. LastOf(q, v) = Tail(s)
    BY <1>1, <2>1 DEF LastOf, s
  <2>5. Tail(s)[n] = v /\ \A i \in 1..(n - 1) : Tail(s)[i] = q[i + 1]
    BY <1>1, <2>1, <2>3
  <2> QED BY <2>3, <2>4, <2>5 DEF s
<1>6. OrderedBy(e.ordered, f)
  BY OrderedByRanks
<1>7. f[u - 1] < f[u]
  <2>1. Rank(r, r[d] - 1) < Rank(r, r[d])
    BY <1>1, RankStrict
  <2>2. u - 1 \in Int /\ u \in Int
    BY <1>2
  <2>3. f[u - 1] = Rank(r, u - 1) /\ f[u] = Rank(r, u)
    BY <2>2 DEF Ranks
  <2> QED BY <2>1, <2>3
<1>8. /\ m \in Seq(Nat) /\ Len(m) = n - 1
      /\ \A i \in 1..(n - 1), x \in Int : m[i] <= x <=> i <= g[x]
  <2>1. \A x \in Int : f[x] = Rank(r, x)
    BY DEF Ranks
  <2> HIDE DEF f, m
  <2> QED BY <1>1, <1>2, <1>6, <1>7, <2>1, RemoveOrdered DEF m
<1>9. OrderedBy(m, g)
  <2> DEFINE R(x) == Rank(r, x)
  <2>1. \A x \in Int : R(x) \in 0..n
    BY <1>1, RankType
  <2>2. \A x, y \in Int : x <= y => R(x) <= R(y)
    BY <1>1, RankMonotonic
  <2>3. R(u - 1) < R(u)
    BY <1>1, RankStrict
  <2>4. \A x \in Int : g[x] = R(x) - One(u, x)
    OBVIOUS
  <2> HIDE DEF g, R, r, u, n, m
  <2>5. u \in Int /\ u - 1 \in Int /\ n \in Int
    BY <1>1, <1>2
  <2>6. R(u) \in 0..n /\ R(u - 1) \in 0..n
    BY <2>1, <2>5
  <2>7. ASSUME NEW x \in Int
        PROVE  /\ R(x) \in 0..n
               /\ u <= x => R(u) <= R(x)
               /\ x < u => R(x) <= R(u - 1)
    <3>1. x < u => x <= u - 1
      BY <2>5
    <3> QED BY <2>1, <2>2, <2>5, <3>1
  <2>8. \A x \in Int : g[x] \in 0..(n - 1)
    <3> SUFFICES ASSUME NEW x \in Int PROVE g[x] \in 0..(n - 1)
      OBVIOUS
    <3>1. CASE u <= x
      <4>1. g[x] = R(x) - 1
        BY <2>4, <3>1 DEF One
      <4>2. R(x) \in 0..n /\ R(u) <= R(x)
        BY <2>7, <3>1
      <4> QED BY <2>3, <2>5, <2>6, <4>1, <4>2
    <3>2. CASE x < u
      <4>1. g[x] = R(x) - 0
        BY <2>4, <2>5, <3>2 DEF One
      <4> QED BY <2>3, <2>5, <2>6, <2>7, <3>2, <4>1
    <3> QED BY <2>5, <3>1, <3>2
  <2>9. \A x, y \in Int : x <= y => g[x] <= g[y]
    <3> SUFFICES ASSUME NEW x \in Int, NEW y \in Int, x <= y PROVE g[x] <= g[y]
      OBVIOUS
    <3>1. R(x) <= R(y) /\ R(x) \in Int /\ R(y) \in Int
      BY <2>1, <2>2
    <3>2. g[x] = R(x) - One(u, x) /\ g[y] = R(y) - One(u, y)
      BY <2>4
    <3>3. CASE x < u /\ u <= y
      <4>1. R(x) <= R(u - 1) /\ R(u) <= R(y)
        BY <2>7, <3>3
      <4>2. One(u, x) = 0 /\ One(u, y) = 1
        BY <2>5, <3>3 DEF One
      <4> QED BY <2>3, <2>6, <3>1, <3>2, <4>1, <4>2
    <3>4. CASE ~ (x < u /\ u <= y)
      <4>1. One(u, x) = One(u, y) /\ One(u, x) \in Int
        BY <2>5, <3>4 DEF One
      <4> QED BY <3>1, <3>2, <4>1
    <3> QED BY <3>3, <3>4
  <2> QED BY <1>1, <1>8, <2>8, <2>9 DEF OrderedBy
<1>10. /\ o \in Seq(Nat) /\ Len(o) = n
       /\ \A i \in 1..n, x \in Int : o[i] <= x <=> i <= g[x] + One(v, x)
  <2>1. (n - 1) + 1 = n
    BY <1>1
  <2> HIDE DEF m, g
  <2> QED BY <1>8, <1>9, <2>1, InsertOrdered
<1>11. \A x \in Int : Rank(t, x) = g[x] + One(v, x)
  BY <1>1, RankReplace
<1> HIDE DEF t, o, p, m, g
<1> DEFINE w == Sampled(e, v)
           k == IF c + 1 = n THEN 0 ELSE c + 1
<1>12. (c + 1) % Window = k
  BY <1>1, NextCursor
<1>13. w.ring = t /\ w.ordered = o /\ w.cursor = k /\ w \in Windows
  <2>1. k \in 0..(n - 1)
    BY <1>1
  <2> HIDE DEF k, c
  <2> QED BY <1>3, <1>4, <1>10, <1>12, <2>1 DEF Windows, c
<1>14. RingInv(w, p)
  <2> SUFFICES ASSUME NEW i \in 1..n PROVE p[i] = t[Turned(w, i)]
    BY <1>1, <1>4, <1>5, <1>13 DEF RingInv
  <2>1. Turned(w, i) = IF k + i <= n THEN k + i ELSE k + i - n
    BY <1>4, <1>13 DEF Turned
  <2>2. \A j \in 1..n : q[j] = r[IF c + j <= n THEN c + j ELSE c + j - n]
    BY <1>1 DEF RingInv, Turned
  <2> HIDE DEF r, w, c
  <2>3. CASE i = n
    <3>1. Turned(w, i) = d
      BY <1>1, <2>1, <2>3
    <3> QED BY <1>4, <1>5, <2>3, <3>1
  <2>4. CASE i < n
    <3>1. Turned(w, i) = (IF c + (i + 1) <= n THEN c + (i + 1) ELSE c + (i + 1) - n)
      BY <1>1, <2>1, <2>4
    <3>2. Turned(w, i) \in 1..n /\ Turned(w, i) # d
      BY <1>1, <2>4, <3>1
    <3>3. p[i] = q[i + 1] /\ i + 1 \in 1..n
      BY <1>1, <1>5, <2>4
    <3> QED BY <1>4, <2>2, <3>1, <3>2, <3>3
  <2> QED BY <2>3, <2>4
<1>15. OrderInv(w)
  BY <1>4, <1>10, <1>11, <1>13 DEF OrderInv
<1> QED BY <1>5, <1>13, <1>14, <1>15

LEMMA LossKept ==
  ASSUME NEW e \in Windows
  PROVE  /\ LossSampled(e, 0) \in Windows
         /\ LossSampled(e, 0).ring = e.ring /\ LossSampled(e, 0).cursor = e.cursor
         /\ LossSampled(e, 0).ordered = e.ordered
<1>1. e.loss \in Seq({0}) /\ e.lossCursor \in 0..(Window - 1)
  BY DEF Windows
<1> DEFINE l == IF Len(e.loss) < Window THEN Append(e.loss, 0)
                ELSE ReplaceAt(e.loss, e.lossCursor + 1, 0)
           k == (e.lossCursor + 1) % Window
<1>2. l \in Seq({0})
  <2>1. CASE Len(e.loss) < Window
    BY <1>1, <2>1, AppendProperties
  <2>2. CASE ~ (Len(e.loss) < Window)
    <3>1. e.lossCursor + 1 \in 1..Len(e.loss)
      BY <1>1, <2>2, LenProperties
    <3>2. ReplaceAt(e.loss, e.lossCursor + 1, 0) \in Seq({0})
      BY <1>1, <3>1, ExceptSeq DEF ReplaceAt
    <3> QED BY <2>2, <3>2
  <2> QED BY <2>1, <2>2
<1>3. k \in 0..(Window - 1)
  BY <1>1, NextCursor
<1>4. LossSampled(e, 0) = [e EXCEPT !.loss = l, !.lossCursor = k]
  BY DEF LossSampled
<1> HIDE DEF l, k
<1> QED BY <1>2, <1>3, <1>4 DEF Windows

(* A window stays one, and stays that of the last samples. *)
LEMMA UpdatedWindow ==
  ASSUME NEW e \in Windows, NEW q, RingInv(e, q), OrderInv(e), NEW v \in Nat
  PROVE  /\ Updated(e, v, 0) \in Windows
         /\ RingInv(Updated(e, v, 0), LastOf(q, v)) /\ OrderInv(Updated(e, v, 0))
<1> DEFINE w == Sampled(e, v)
<1>1. w \in Windows /\ RingInv(w, LastOf(q, v)) /\ OrderInv(w)
  BY SampledGrowing, SampledFull
<1> HIDE DEF w
<1>2. /\ LossSampled(w, 0) \in Windows
      /\ LossSampled(w, 0).ring = w.ring /\ LossSampled(w, 0).cursor = w.cursor
      /\ LossSampled(w, 0).ordered = w.ordered
  BY <1>1, LossKept
<1>3. RingInv(LossSampled(w, 0), LastOf(q, v)) /\ OrderInv(LossSampled(w, 0))
  BY <1>1, <1>2 DEF RingInv, OrderInv, Turned
<1> QED BY <1>2, <1>3 DEF Updated, w

(* The loss ring grows and turns with that of the samples. *)
LEMMA LossInStep ==
  ASSUME NEW e \in Windows, Len(e.ring) <= Window, Len(e.ring) < Window => e.cursor = 0,
         LossInv(e), NEW v \in Nat
  PROVE  LossInv(Updated(e, v, 0))
<1> DEFINE n == Len(e.ring)
           w == Sampled(e, v)
           u == LossSampled(w, 0)
<1>1. /\ e.ring \in Seq(Nat) /\ e.loss \in Seq({0}) /\ n \in Nat /\ n <= Window
      /\ Len(e.loss) = n /\ e.cursor \in 0..(Window - 1)
  BY LenProperties DEF Windows, LossInv
<1>2. /\ w.loss = e.loss /\ w.lossCursor = e.lossCursor
      /\ w.cursor = IF n = Window THEN (e.cursor + 1) % Window ELSE e.cursor
      /\ w.ring = IF n = Window THEN ReplaceAt(e.ring, e.cursor + 1, v) ELSE Append(e.ring, v)
  BY DEF Sampled, Windows
<1> HIDE DEF w
<1>3. Len(w.ring) = IF n = Window THEN n ELSE n + 1
  <2>1. CASE n = Window
    <3>1. e.cursor + 1 \in 1..Len(e.ring)
      BY <1>1, <2>1
    <3> QED BY <1>1, <1>2, <2>1, <3>1, ExceptSeq DEF ReplaceAt
  <2>2. CASE n # Window
    BY <1>1, <1>2, <2>2, AppendProperties
  <2> QED BY <2>1, <2>2
<1>4. w.loss \in Seq({0}) /\ w.lossCursor \in 0..(Window - 1)
  BY <1>1, <1>2 DEF Windows
<1>5. /\ u.ring = w.ring /\ u.cursor = w.cursor
      /\ u.loss = IF Len(w.loss) < Window THEN Append(w.loss, 0)
                  ELSE ReplaceAt(w.loss, w.lossCursor + 1, 0)
      /\ u.lossCursor = (w.lossCursor + 1) % Window
  BY DEF LossSampled
<1> HIDE DEF u
<1>6. Len(u.loss) = IF n = Window THEN n ELSE n + 1
  <2>1. CASE n = Window
    <3>1. w.lossCursor + 1 \in 1..Len(w.loss)
      BY <1>1, <1>2, <1>4, <2>1
    <3> QED BY <1>1, <1>2, <1>4, <1>5, <2>1, <3>1, ExceptSeq DEF ReplaceAt
  <2>2. CASE n # Window
    BY <1>1, <1>2, <1>4, <1>5, <2>2, AppendProperties
  <2> QED BY <2>1, <2>2
<1>7. u.lossCursor = IF Len(u.ring) < Window THEN Len(u.ring) ELSE u.cursor
  <2>1. CASE n = Window
    BY <1>1, <1>2, <1>3, <1>5, <2>1 DEF LossInv
  <2>2. CASE n < Window
    <3>1. e.lossCursor = n /\ e.cursor = 0 /\ n \in 0..(Window - 1)
      BY <1>1, <2>2 DEF LossInv
    <3>2. (n + 1) % Window = IF n + 1 = Window THEN 0 ELSE n + 1
      BY <3>1, NextCursor
    <3>3. /\ u.lossCursor = (IF n + 1 = Window THEN 0 ELSE n + 1)
          /\ u.cursor = 0 /\ Len(u.ring) = n + 1
      <4>1. w.lossCursor + 1 = n + 1
        BY <1>2, <3>1
      <4>2. u.lossCursor = (n + 1) % Window
        BY <1>5, <4>1
      <4>3. u.cursor = 0 /\ Len(u.ring) = n + 1
        BY <1>1, <1>2, <1>3, <1>5, <2>2, <3>1
      <4> QED BY <3>2, <4>2, <4>3
    <3> QED BY <1>1, <2>2, <3>3
  <2> QED BY <1>1, <2>1, <2>2
<1> QED BY <1>3, <1>5, <1>6, <1>7 DEF LossInv, Updated, u, w

LEMMA EmptyWindow ==
  Empty \in Windows /\ RingInv(Empty, <<>>) /\ OrderInv(Empty) /\ LossInv(Empty)
<1>1. <<>> \in Seq(Nat) /\ <<>> \in Seq({0}) /\ Len(<<>>) = 0
  BY EmptySeq
<1>2. Empty \in Windows
  BY <1>1 DEF Empty, Windows
<1>3. RingInv(Empty, <<>>) /\ OrderInv(Empty) /\ LossInv(Empty)
  BY <1>1, WindowAssumption DEF Empty, RingInv, OrderInv, LossInv
<1> QED BY <1>2, <1>3

-----------------------------------------------------------------------------
LEMMA UnrolledIsRecent ==
  ASSUME NEW e \in Windows, NEW q, RingInv(e, q)
  PROVE  Unrolled(e) = q
<1> DEFINE r == e.ring
           c == e.cursor
           n == Len(r)
           a == SubSeq(r, c + 1, n)
           b == SubSeq(r, 1, c)
<1>1. /\ r \in Seq(Nat) /\ n \in Nat /\ c \in 0..n
      /\ q \in Seq(Nat) /\ Len(q) = n
      /\ \A i \in 1..n : q[i] = r[IF c + i <= n THEN c + i ELSE c + i - n]
  <2>1. r \in Seq(Nat) /\ n \in Nat /\ c \in 0..(Window - 1)
    BY LenProperties DEF Windows
  <2>2. q \in Seq(Nat) /\ Len(q) = n /\ n <= Window /\ (n < Window => c = 0)
    BY DEF RingInv
  <2>3. c \in 0..n
    BY <2>1, <2>2
  <2> QED BY <2>1, <2>2, <2>3 DEF RingInv, Turned
<1>2. a \in Seq(Nat) /\ Len(a) = n - c /\ \A i \in 1..(n - c) : a[i] = r[i + c]
  BY <1>1, FrontAndRest
<1>3. b \in Seq(Nat) /\ Len(b) = c /\ \A i \in 1..c : b[i] = r[i]
  BY <1>1, FrontAndRest
<1>4. Unrolled(e) = a \o b
  BY DEF Unrolled
<1> HIDE DEF a, b, r, c, n
<1>5. /\ a \o b \in Seq(Nat) /\ Len(a \o b) = n
      /\ \A i \in 1..n : (a \o b)[i] = IF i <= n - c THEN a[i] ELSE b[i - (n - c)]
  <2>1. (n - c) + c = n
    BY <1>1
  <2>2. /\ a \o b \in Seq(Nat) /\ Len(a \o b) = Len(a) + Len(b)
        /\ \A i \in 1..(Len(a) + Len(b)) : (a \o b)[i] = IF i <= Len(a) THEN a[i] ELSE b[i - Len(a)]
    BY <1>2, <1>3, ConcatProperties
  <2> QED BY <1>2, <1>3, <2>1, <2>2
<1>6. ASSUME NEW i \in 1..n PROVE (a \o b)[i] = q[i]
  <2>1. CASE i <= n - c
    <3>1. i \in 1..(n - c) /\ c + i <= n /\ c + i = i + c
      BY <1>1, <2>1
    <3> QED BY <1>1, <1>2, <1>5, <2>1, <3>1
  <2>2. CASE i > n - c
    <3>1. i - (n - c) \in 1..c /\ ~ (c + i <= n) /\ c + i - n = i - (n - c)
      BY <1>1, <2>2
    <3>2. ~ (i <= n - c)
      BY <1>1, <2>2
    <3> QED BY <1>1, <1>3, <1>5, <3>1, <3>2
  <2>3. i <= n - c \/ i > n - c
    BY <1>1
  <2> QED BY <2>1, <2>2, <2>3
<1> QED BY <1>1, <1>4, <1>5, <1>6, SeqEqual

LEMMA CountIsRanks ==
  ASSUME NEW s \in Seq(Nat), NEW x \in Nat
  PROVE  Count(s, x) = Rank(s, x) - Rank(s, x - 1)
<1> DEFINE U == AtMost(s, x)
           V == AtMost(s, x - 1)
           C == {i \in DOMAIN s : s[i] = x}
<1>1. x \in Int /\ x - 1 \in Int
  OBVIOUS
<1>2. /\ IsFiniteSet(U) /\ Rank(s, x) = Cardinality(U)
      /\ IsFiniteSet(V) /\ Rank(s, x - 1) = Cardinality(V)
  BY <1>1, RankType
<1>3. DOMAIN s = 1..Len(s) /\ \A i \in 1..Len(s) : s[i] \in Nat
  BY LenProperties, ElementOfSeq
<1>4. C = U \ V /\ U \cap V = V
  BY <1>3 DEF AtMost
<1>5. Count(s, x) = Cardinality(C)
  BY DEF Count
<1> HIDE DEF U, V, C
<1>6. Cardinality(U \ V) = Cardinality(U) - Cardinality(U \cap V)
  BY <1>2, FS_Difference
<1> QED BY <1>2, <1>4, <1>5, <1>6

(* The ordered list has the ranks of the ring. *)
LEMMA OrderedRank ==
  ASSUME NEW e \in Windows, OrderInv(e), NEW x \in Int
  PROVE  Rank(e.ordered, x) = Rank(e.ring, x)
<1> DEFINE k == Rank(e.ring, x)
           n == Len(e.ring)
<1>1. e.ring \in Seq(Nat) /\ e.ordered \in Seq(Nat) /\ Len(e.ordered) = n /\ n \in Nat
  BY LenProperties DEF Windows, OrderInv
<1>2. k \in 0..n
  BY <1>1, RankType
<1>3. \A i \in 1..n : e.ordered[i] <= x <=> i <= k
  BY DEF OrderInv
<1> HIDE DEF k, n
<1>4. AtMost(e.ordered, x) = 1..k
  BY <1>1, <1>2, <1>3 DEF AtMost
<1>5. k \in Nat
  BY <1>1, <1>2
<1>6. Cardinality(1..k) = k
  BY <1>5, FS_Interval
<1> QED BY <1>1, <1>4, <1>6, RankType DEF k

LEMMA Sorted ==
  ASSUME NEW e \in Windows, OrderInv(e),
         NEW i \in 1..Len(e.ring), NEW j \in 1..Len(e.ring), i <= j
  PROVE  e.ordered[i] \in Nat /\ e.ordered[j] \in Nat /\ e.ordered[i] <= e.ordered[j]
<1> DEFINE x == e.ordered[j]
<1>1. e.ordered \in Seq(Nat) /\ e.ring \in Seq(Nat) /\ Len(e.ordered) = Len(e.ring)
  BY DEF Windows, OrderInv
<1>2. e.ordered[i] \in Nat /\ x \in Nat
  BY <1>1, ElementOfSeq
<1>3. j <= Rank(e.ring, x) /\ Rank(e.ring, x) \in Int
  <2>1. x \in Int /\ x <= x
    BY <1>2
  <2>2. e.ordered[j] <= x <=> j <= Rank(e.ring, x)
    BY <2>1 DEF OrderInv
  <2>3. Rank(e.ring, x) \in 0..Len(e.ring)
    BY <1>1, <2>1, RankType
  <2> QED BY <2>1, <2>2, <2>3
<1>4. i <= Rank(e.ring, x)
  BY <1>3
<1> QED BY <1>2, <1>4 DEF OrderInv

LEMMA OrderedIsInOrder ==
  ASSUME NEW e \in Windows, OrderInv(e)
  PROVE  InOrderOf(e.ordered, e.ring)
<1>1. /\ e.ring \in Seq(Nat) /\ e.ordered \in Seq(Nat) /\ Len(e.ordered) = Len(e.ring)
      /\ DOMAIN e.ordered = 1..Len(e.ring) /\ DOMAIN e.ring = 1..Len(e.ring)
  BY LenProperties DEF Windows, OrderInv
<1>2. ASSUME NEW i \in DOMAIN e.ordered, NEW j \in DOMAIN e.ordered, i < j
      PROVE  e.ordered[i] <= e.ordered[j]
  <2>1. i \in 1..Len(e.ring) /\ j \in 1..Len(e.ring) /\ i <= j
    BY <1>1, <1>2
  <2> QED BY <2>1, Sorted
<1>3. ASSUME NEW x \in ToSet(e.ordered) \cup ToSet(e.ring)
      PROVE  Count(e.ordered, x) = Count(e.ring, x)
  <2>1. x \in Nat
    BY <1>1, ElementOfSeq DEF ToSet
  <2>2. x \in Int /\ x - 1 \in Int
    BY <2>1
  <2> QED BY <1>1, <2>1, <2>2, CountIsRanks, OrderedRank
<1> QED BY <1>2, <1>3 DEF InOrderOf

-----------------------------------------------------------------------------
LEMMA IntervalSize ==
  ASSUME NEW n \in Nat
  PROVE  IsFiniteSet(1..n) /\ Cardinality(1..n) = n
BY FS_Interval

(* No more than k samples lie below what the sample of rank k + 1 is not    *)
(* below ...                                                               *)
LEMMA BelowBound ==
  ASSUME NEW e \in Windows, OrderInv(e), NEW M \in Nat,
         NEW k \in 0..(Len(e.ring) - 1), M <= 2 * e.ordered[k + 1]
  PROVE  Below(e, M) \in Nat /\ Below(e, M) <= k
<1> DEFINE x == (M - 1) \div 2
           n == Len(e.ring)
<1>1. e.ring \in Seq(Nat) /\ e.ordered \in Seq(Nat) /\ Len(e.ordered) = n /\ n \in Nat
  BY LenProperties DEF Windows, OrderInv
<1>2. x \in Int /\ \A y \in Int : 2 * y < M <=> y <= x
  OBVIOUS
<1> HIDE DEF x
<1>3. DOMAIN e.ring = 1..n /\ \A i \in 1..n : e.ring[i] \in Nat
  BY <1>1, LenProperties, ElementOfSeq
<1>4. Below(e, M) = Rank(e.ring, x)
  <2>1. {i \in DOMAIN e.ring : 2 * e.ring[i] < M} = {i \in DOMAIN e.ring : e.ring[i] <= x}
    BY <1>2, <1>3
  <2> QED BY <2>1 DEF Below, Rank
<1>5. Rank(e.ring, x) \in 0..n
  BY <1>1, <1>2, RankType
<1>6. k + 1 \in 1..n /\ e.ordered[k + 1] \in Nat
  <2>1. k + 1 \in 1..Len(e.ordered)
    BY <1>1
  <2> QED BY <1>1, <2>1, ElementOfSeq
<1>7. ~ (e.ordered[k + 1] <= x)
  <2> DEFINE y == e.ordered[k + 1]
  <2>1. y \in Int /\ ~ (2 * y < M)
    BY <1>6
  <2> HIDE DEF y
  <2>2. ~ (y <= x)
    BY <1>2, <2>1
  <2> QED BY <2>2 DEF y
<1>8. ~ (k + 1 <= Rank(e.ring, x))
  BY <1>2, <1>6, <1>7 DEF OrderInv
<1> HIDE DEF n
<1> QED BY <1>1, <1>4, <1>5, <1>6, <1>8

(* ... and no more than the other ones above what that of rank k is not    *)
(* above.                                                                  *)
LEMMA AboveBound ==
  ASSUME NEW e \in Windows, OrderInv(e), NEW M \in Nat,
         NEW k \in 1..Len(e.ring), 2 * e.ordered[k] <= M
  PROVE  Above(e, M) \in Nat /\ Above(e, M) <= Len(e.ring) - k
<1> DEFINE x == M \div 2
           n == Len(e.ring)
           U == AtMost(e.ring, x)
           A == {i \in DOMAIN e.ring : 2 * e.ring[i] > M}
<1>1. e.ring \in Seq(Nat) /\ e.ordered \in Seq(Nat) /\ Len(e.ordered) = n /\ n \in Nat
  BY LenProperties DEF Windows, OrderInv
<1>2. x \in Int /\ \A y \in Int : 2 * y > M <=> ~ (y <= x)
  OBVIOUS
<1> HIDE DEF x
<1>3. DOMAIN e.ring = 1..n /\ \A i \in 1..n : e.ring[i] \in Nat
  BY <1>1, LenProperties, ElementOfSeq
<1>4. A = (1..n) \ U /\ (1..n) \cap U = U
  <2>1. ASSUME NEW i \in 1..n PROVE 2 * e.ring[i] > M <=> ~ (e.ring[i] <= x)
    <3> DEFINE y == e.ring[i]
    <3>1. y \in Int
      BY <1>3
    <3> HIDE DEF y
    <3>2. 2 * y > M <=> ~ (y <= x)
      BY <1>2, <3>1
    <3> QED BY <3>2 DEF y
  <2>2. A = {i \in 1..n : ~ (e.ring[i] <= x)}
    BY <1>3, <2>1
  <2> QED BY <2>2 DEF AtMost
<1>5. IsFiniteSet(U) /\ Rank(e.ring, x) = Cardinality(U) /\ Rank(e.ring, x) \in 0..n
  BY <1>1, <1>2, RankType
<1>6. e.ordered[k] <= x
  <2>1. e.ordered[k] \in Nat
    BY <1>1, ElementOfSeq
  <2> QED BY <1>2, <2>1
<1>7. k <= Rank(e.ring, x)
  BY <1>2, <1>6 DEF OrderInv
<1>8. Above(e, M) = Cardinality(A)
  BY DEF Above
<1>9. k \in 1..n
  OBVIOUS
<1> HIDE DEF n, U, A
<1>10. IsFiniteSet(1..n) /\ Cardinality(1..n) = n
  BY <1>1, IntervalSize
<1>11. Cardinality((1..n) \ U) = Cardinality(1..n) - Cardinality((1..n) \cap U)
  BY <1>5, <1>10, FS_Difference
<1>12. Cardinality(A) = n - Cardinality(U)
  BY <1>4, <1>10, <1>11
<1>13. Above(e, M) = n - Rank(e.ring, x)
  BY <1>5, <1>8, <1>12
<1>14. Above(e, M) \in Nat /\ Above(e, M) <= n - k
  BY <1>1, <1>5, <1>7, <1>9, <1>13
<1> QED BY <1>14 DEF n

-----------------------------------------------------------------------------
LEMMA CutBounds ==
  ASSUME NEW e \in Windows, OrderInv(e), Known(e),
         NEW k \in 1..(Len(e.ring) - 1), NEW even \in BOOLEAN
  PROVE  /\ Below(e, Middle(e, k, even)) \in Nat /\ Below(e, Middle(e, k, even)) <= k
         /\ Above(e, Middle(e, k, even)) \in Nat
         /\ Above(e, Middle(e, k, even)) <= Len(e.ring) - (IF even THEN k ELSE k + 1)
<1> DEFINE n == Len(e.ring)
           o == e.ordered
           M == Middle(e, k, even)
<1>1. n \in Nat /\ k \in 0..(n - 1) /\ k \in 1..n /\ k + 1 \in 1..n
  <2>1. n \in Nat
    BY LenProperties DEF Windows
  <2> QED BY <2>1
<1>2. o[k] \in Nat /\ o[k + 1] \in Nat /\ o[k] <= o[k + 1]
  <2>1. k <= k + 1
    OBVIOUS
  <2> QED BY <1>1, <2>1, Sorted
<1>3. CASE even
  <2>1. M = o[k + 1] + o[k]
    <3>1. k - 1 + 1 = k
      OBVIOUS
    <3> QED BY <1>3, <3>1 DEF Middle, Even
  <2> HIDE DEF M
  <2>2. M \in Nat /\ M <= 2 * o[k + 1] /\ 2 * o[k] <= M
    BY <1>2, <2>1
  <2>3. Below(e, M) \in Nat /\ Below(e, M) <= k
    BY <1>1, <2>2, BelowBound
  <2>4. Above(e, M) \in Nat /\ Above(e, M) <= n - k
    BY <1>1, <2>2, AboveBound
  <2> QED BY <1>3, <2>3, <2>4 DEF M
<1>4. CASE ~ even
  <2>1. M = 2 * o[k + 1]
    BY <1>4 DEF Middle, Uneven
  <2> HIDE DEF M
  <2>2. M \in Nat /\ M <= 2 * o[k + 1] /\ 2 * o[k + 1] <= M
    BY <1>2, <2>1
  <2>3. Below(e, M) \in Nat /\ Below(e, M) <= k
    BY <1>1, <2>2, BelowBound
  <2>4. Above(e, M) \in Nat /\ Above(e, M) <= n - (k + 1)
    BY <1>1, <2>2, AboveBound
  <2> QED BY <1>4, <2>3, <2>4 DEF M
<1> QED BY <1>3, <1>4

(* What is read further up is no smaller. *)
LEMMA MiddleRises ==
  ASSUME NEW e \in Windows, OrderInv(e),
         NEW i \in 1..(Len(e.ring) - 1), NEW j \in 1..(Len(e.ring) - 1), i + 1 <= j,
         NEW low \in BOOLEAN, NEW high \in BOOLEAN
  PROVE  Middle(e, i, low) <= Middle(e, j, high)
<1> DEFINE o == e.ordered
           n == Len(e.ring)
<1>1. n \in Nat
  BY LenProperties DEF Windows
<1>2. /\ i \in 1..n /\ i + 1 \in 1..n /\ i <= i + 1
      /\ j \in 1..n /\ j + 1 \in 1..n /\ j <= j + 1
  BY <1>1
<1>3. /\ o[i] \in Nat /\ o[i + 1] \in Nat /\ o[i] <= o[i + 1]
      /\ o[j] \in Nat /\ o[j + 1] \in Nat /\ o[j] <= o[j + 1]
      /\ o[i + 1] <= o[j]
  BY <1>2, Sorted
<1>4. i - 1 + 1 = i /\ j - 1 + 1 = j
  OBVIOUS
<1>5. Middle(e, i, low) \in {o[i + 1] + o[i], 2 * o[i + 1]}
  BY <1>4 DEF Middle, Even, Uneven
<1>6. Middle(e, j, high) \in {o[j + 1] + o[j], 2 * o[j + 1]}
  BY <1>4 DEF Middle, Even, Uneven
<1> HIDE DEF o
<1>7. Middle(e, i, low) <= 2 * o[i + 1]
  BY <1>3, <1>5
<1>8. 2 * o[j] <= Middle(e, j, high)
  BY <1>3, <1>6
<1>9. Middle(e, i, low) \in Nat /\ Middle(e, j, high) \in Nat
  BY <1>3, <1>5, <1>6
<1> QED BY <1>3, <1>7, <1>8, <1>9

LEMMA CutsHold ==
  ASSUME NEW e \in Windows, OrderInv(e), Known(e)
  PROVE  /\ Divides(e, Median2(e), 1, 1, 2)
         /\ FirstQuartile2(e) <= Median2(e) /\ Median2(e) <= ThirdQuartile2(e)
         /\ Len(e.ring) % 4 # 1 =>
              Divides(e, FirstQuartile2(e), 1, 3, 4) /\ Divides(e, ThirdQuartile2(e), 3, 1, 4)
<1> DEFINE n == Len(e.ring)
           h == n \div 2
           q == n \div 4
           t == (n * 3) \div 4
           hh == n % 2 = 0
           qq == n % 4 \in {0, 1}
<1>1. n \in Nat /\ n >= 4
  BY LenProperties DEF Windows, Known
<1>2. /\ Median2(e) = Middle(e, h, hh)
      /\ FirstQuartile2(e) = Middle(e, q, qq)
      /\ ThirdQuartile2(e) = Middle(e, t, qq)
  BY DEF Median2, FirstQuartile2, ThirdQuartile2
<1> HIDE DEF n
<1>3. h \in 1..(n - 1) /\ 2 * h <= n /\ (IF hh THEN 2 * (n - h) <= n ELSE 2 * (n - (h + 1)) <= n)
  BY <1>1
<1>4. /\ q \in 1..(n - 1) /\ 4 * q <= n
      /\ n % 4 # 1 => 4 * (n - (IF qq THEN q ELSE q + 1)) <= 3 * n
  BY <1>1
<1>5. /\ t \in 1..(n - 1) /\ 4 * t <= 3 * n
      /\ n % 4 # 1 => 4 * (n - (IF qq THEN t ELSE t + 1)) <= n
  BY <1>1
<1>6. q + 1 <= h /\ h + 1 <= t
  BY <1>1
<1> HIDE DEF h, q, t, hh, qq
<1>7. hh \in BOOLEAN /\ qq \in BOOLEAN
  BY DEF hh, qq
<1>8. /\ Below(e, Middle(e, h, hh)) \in Nat /\ Below(e, Middle(e, h, hh)) <= h
      /\ Above(e, Middle(e, h, hh)) \in Nat
      /\ Above(e, Middle(e, h, hh)) <= n - (IF hh THEN h ELSE h + 1)
  BY <1>3, <1>7, CutBounds DEF n
<1>9. /\ Below(e, Middle(e, q, qq)) \in Nat /\ Below(e, Middle(e, q, qq)) <= q
      /\ Above(e, Middle(e, q, qq)) \in Nat
      /\ Above(e, Middle(e, q, qq)) <= n - (IF qq THEN q ELSE q + 1)
  BY <1>4, <1>7, CutBounds DEF n
<1>10. /\ Below(e, Middle(e, t, qq)) \in Nat /\ Below(e, Middle(e, t, qq)) <= t
       /\ Above(e, Middle(e, t, qq)) \in Nat
       /\ Above(e, Middle(e, t, qq)) <= n - (IF qq THEN t ELSE t + 1)
  BY <1>5, <1>7, CutBounds DEF n
<1>11. Divides(e, Median2(e), 1, 1, 2)
  <2>1. /\ 2 * Below(e, Middle(e, h, hh)) <= 1 * n
        /\ 2 * Above(e, Middle(e, h, hh)) <= 1 * n
    BY <1>1, <1>3, <1>8
  <2> QED BY <1>2, <2>1 DEF Divides, n
<1>12. ASSUME n % 4 # 1 PROVE Divides(e, FirstQuartile2(e), 1, 3, 4)
  <2>1. /\ 4 * Below(e, Middle(e, q, qq)) <= 1 * n
        /\ 4 * Above(e, Middle(e, q, qq)) <= 3 * n
    BY <1>1, <1>4, <1>9, <1>12
  <2> QED BY <1>2, <2>1 DEF Divides, n
<1>13. ASSUME n % 4 # 1 PROVE Divides(e, ThirdQuartile2(e), 3, 1, 4)
  <2>1. /\ 4 * Below(e, Middle(e, t, qq)) <= 3 * n
        /\ 4 * Above(e, Middle(e, t, qq)) <= 1 * n
    BY <1>1, <1>5, <1>10, <1>13
  <2> QED BY <1>2, <2>1 DEF Divides, n
<1>14. Middle(e, q, qq) <= Middle(e, h, hh) /\ Middle(e, h, hh) <= Middle(e, t, qq)
  BY <1>3, <1>4, <1>5, <1>6, <1>7, MiddleRises DEF n
<1> QED BY <1>2, <1>11, <1>12, <1>13, <1>14 DEF n

-----------------------------------------------------------------------------
USE NeighborhoodAssumption

(* Every window is one, in order, and turned so that it starts with the    *)
(* oldest of the last samples.                                             *)
WindowInv ==
  /\ window \in [Nodes -> [Nodes -> Windows]]
  /\ recent \in [Nodes -> [Nodes -> Seq(Nat)]]
  /\ \A y, n \in Nodes :
       RingInv(window[y][n], recent[y][n]) /\ OrderInv(window[y][n]) /\ LossInv(window[y][n])

LEMMA NoLossSeen ==
  ASSUME NEW failed \in Lost, failed # Sent PROVE LossRatio(failed) = 0
<1>1. failed \in Nat /\ failed < Sent /\ Sent \in Nat /\ Sent > 0
  OBVIOUS
<1> QED BY <1>1 DEF LossRatio

LEMMA InitWindow == Init => WindowInv
<1> SUFFICES ASSUME Init PROVE WindowInv
  OBVIOUS
<1>1. <<>> \in Seq(Nat)
  BY EmptySeq
<1> QED BY <1>1, EmptyWindow DEF Init, WindowInv, Unmeasured

LEMMA MeasureWindow ==
  ASSUME WindowInv, NEW y \in Nodes, NEW n \in Nodes, NEW failed \in Lost, NEW v \in Latencies,
         Measure(y, n, failed, v)
  PROVE  WindowInv'
<1> DEFINE w == Updated(window[y][n], v, 0)
           q == LastOf(recent[y][n], v)
<1>1. v \in Nat /\ window[y][n] \in Windows
  BY DEF WindowInv
<1>2. w \in Windows /\ RingInv(w, q) /\ OrderInv(w) /\ LossInv(w)
  <2>1. RingInv(window[y][n], recent[y][n]) /\ OrderInv(window[y][n]) /\ LossInv(window[y][n])
    BY DEF WindowInv
  <2>2. LossInv(w)
    BY <1>1, <2>1, LossInStep DEF RingInv
  <2> QED BY <1>1, <2>1, <2>2, UpdatedWindow
<1>3. q \in Seq(Nat)
  BY <1>2 DEF RingInv
<1>4. LossRatio(failed) = 0
  BY NoLossSeen DEF Measure
<1>5. /\ window' = [window EXCEPT ![y][n] = w]
      /\ recent' = [recent EXCEPT ![y][n] = q]
  BY <1>4 DEF Measure
<1> HIDE DEF w, q
<1>6. /\ window' \in [Nodes -> [Nodes -> Windows]]
      /\ recent' \in [Nodes -> [Nodes -> Seq(Nat)]]
  BY <1>2, <1>3, <1>5 DEF WindowInv
<1>7. ASSUME NEW z \in Nodes, NEW m \in Nodes
      PROVE  /\ RingInv(window'[z][m], recent'[z][m]) /\ OrderInv(window'[z][m])
             /\ LossInv(window'[z][m])
  <2>1. CASE z = y /\ m = n
    <3>1. window'[z][m] = w /\ recent'[z][m] = q
      BY <1>5, <2>1 DEF WindowInv
    <3> QED BY <1>2, <3>1
  <2>2. CASE ~ (z = y /\ m = n)
    <3>1. window'[z][m] = window[z][m] /\ recent'[z][m] = recent[z][m]
      BY <1>5, <2>2 DEF WindowInv
    <3> QED BY <3>1 DEF WindowInv
  <2> QED BY <2>1, <2>2
<1> QED BY <1>6, <1>7 DEF WindowInv

LEMMA RestartWindow ==
  ASSUME WindowInv, NEW y \in Nodes, Restart(y) PROVE WindowInv'
<1>1. /\ window' = [window EXCEPT ![y] = Unmeasured]
      /\ recent' = [recent EXCEPT ![y] = [n \in Nodes |-> <<>>]]
  BY DEF Restart
<1>2. <<>> \in Seq(Nat) /\ Empty \in Windows
  BY EmptySeq, EmptyWindow
<1>3. /\ window' \in [Nodes -> [Nodes -> Windows]]
      /\ recent' \in [Nodes -> [Nodes -> Seq(Nat)]]
  BY <1>1, <1>2 DEF WindowInv, Unmeasured
<1>4. ASSUME NEW z \in Nodes, NEW m \in Nodes
      PROVE  /\ RingInv(window'[z][m], recent'[z][m]) /\ OrderInv(window'[z][m])
             /\ LossInv(window'[z][m])
  <2>1. CASE z = y
    <3>1. window'[z][m] = Empty /\ recent'[z][m] = <<>>
      BY <1>1, <2>1 DEF WindowInv, Unmeasured
    <3> QED BY <3>1, EmptyWindow
  <2>2. CASE z # y
    <3>1. window'[z][m] = window[z][m] /\ recent'[z][m] = recent[z][m]
      BY <1>1, <2>2 DEF WindowInv
    <3> QED BY <3>1 DEF WindowInv
  <2> QED BY <2>1, <2>2
<1> QED BY <1>3, <1>4 DEF WindowInv

LEMMA StepWindow == WindowInv /\ [Next]_vars => WindowInv'
<1> SUFFICES ASSUME WindowInv, [Next]_vars PROVE WindowInv'
  OBVIOUS
<1>1. CASE UNCHANGED <<window, recent>>
  BY <1>1 DEF WindowInv
<1>2. ASSUME NEW y \in Nodes, NEW n \in Nodes,
             Post(y, n) \/ GiveUp(y, n) \/ Answer(y, n) \/ Break(y, n)
      PROVE  WindowInv'
  BY <1>1, <1>2 DEF Post, GiveUp, Answer, Break, latency
<1>3. ASSUME NEW n \in Nodes, Accept(n) \/ Refuse(n) \/ Fail(n) PROVE WindowInv'
  BY <1>1, <1>3 DEF Accept, Refuse, Fail, latency
<1>4. ASSUME NEW y \in Nodes, Restart(y) PROVE WindowInv'
  BY <1>4, RestartWindow
<1>5. ASSUME NEW y \in Nodes, Round(y) PROVE WindowInv'
  BY <1>1, <1>5 DEF Round
<1>6. ASSUME NEW y \in Nodes, NEW n \in Nodes, Unreachable(y, n) PROVE WindowInv'
  BY <1>1, <1>6 DEF Unreachable
<1>7. ASSUME NEW y \in Nodes, NEW n \in Nodes, NEW failed \in Lost, NEW v \in Latencies,
             Measure(y, n, failed, v)
      PROVE  WindowInv'
  BY <1>7, MeasureWindow
<1>8. CASE UNCHANGED vars
  BY <1>1, <1>8 DEF vars, latency
<1> QED BY <1>2, <1>3, <1>4, <1>5, <1>6, <1>7, <1>8 DEF Next

(* The rings that RingOrderedSkipList::insert and PacketLossRing::update   *)
(* write stay rings of the last samples, whatever is measured and whenever *)
(* the node restarts.                                                      *)
THEOREM WindowInvariance == Spec => []WindowInv
<1>1. Init => WindowInv
  BY InitWindow
<1>2. WindowInv /\ [Next]_vars => WindowInv'
  BY StepWindow
<1> QED BY <1>1, <1>2, PTL DEF Spec

(* Unrolled from its cursor, the ring is the last samples taken, the skip  *)
(* list holds the same samples in order, and the ring of PacketLossRing    *)
(* the loss ratios of the same rounds: the sample and the ratio overwritten*)
(* and the sample removed are of one round.                                *)
THEOREM WindowsAreRecent == Spec => []WindowIsRecent
<1>1. ASSUME WindowInv, NEW y \in Nodes, NEW n \in Nodes
      PROVE  LET e == window[y][n] IN
             /\ Unrolled(e) = recent[y][n] /\ InOrderOf(e.ordered, e.ring)
             /\ SameRounds(e)
  <2>1. /\ window[y][n] \in Windows /\ RingInv(window[y][n], recent[y][n])
        /\ OrderInv(window[y][n]) /\ LossInv(window[y][n])
    BY <1>1 DEF WindowInv
  <2>2. SameRounds(window[y][n])
    BY <2>1, WindowAssumption DEF LossInv, SameRounds
  <2> QED BY <2>1, <2>2, UnrolledIsRecent, OrderedIsInOrder
<1>2. WindowInv => WindowIsRecent
  BY <1>1 DEF WindowIsRecent
<1> QED BY <1>2, WindowInvariance, PTL

(* The median that MovingMedian::median reads halves every window; the     *)
(* quartiles of interquantile_range lie on either side of it and, but for  *)
(* 4k + 1 samples, cut off a quarter each, counted from either end.        *)
THEOREM QuartilesCut == Spec => []Cuts
<1>1. ASSUME WindowInv PROVE Cuts
  <2> SUFFICES ASSUME NEW y \in Nodes, NEW n \in Nodes, Known(window[y][n])
               PROVE  LET e == window[y][n] IN
                 /\ Divides(e, Median2(e), 1, 1, 2)
                 /\ FirstQuartile2(e) <= Median2(e) /\ Median2(e) <= ThirdQuartile2(e)
                 /\ Len(e.ring) % 4 # 1 =>
                      Divides(e, FirstQuartile2(e), 1, 3, 4) /\ Divides(e, ThirdQuartile2(e), 3, 1, 4)
    BY DEF Cuts
  <2>1. window[y][n] \in Windows /\ OrderInv(window[y][n])
    BY <1>1 DEF WindowInv
  <2> QED BY <2>1, CutsHold
<1> QED BY <1>1, WindowInvariance, PTL
=============================================================================
