-------------------------- MODULE AuctionRelayProofs --------------------------
(***************************************************************************)
(* Proofs about AuctionRelay, for every overlay: nobody is asked twice in  *)
(* a tree and everybody in reach is asked, a proposal is lost by a fault   *)
(* only, and the relay implements CallForBids.                             *)
(***************************************************************************)
EXTENDS AuctionRelay, SequenceTheorems, FiniteSetTheorems, TLAPS

(* A path that is one step longer. *)
LEMMA Longer ==
  ASSUME NEW p \in Paths, NEW n \in Nodes
  PROVE  /\ Append(p, n) \in Paths /\ Len(Append(p, n)) = Len(p) + 1
         /\ Front(Append(p, n)) = p /\ Last(Append(p, n)) = n
         /\ p # Market => Append(p, n)[1] = p[1]
  BY DEF Paths, Front, Last, Market

(* What is left of a path without its last step. *)
LEMMA Shorter ==
  ASSUME NEW p \in Paths, p # Market
  PROVE  /\ Front(p) \in Paths /\ Len(Front(p)) = Len(p) - 1 /\ Len(p) \in Nat /\ Len(p) > 0
         /\ p = Append(Front(p), Last(p)) /\ Last(p) \in Nodes
         /\ Len(p) > 1 => Front(p) # Market /\ Front(p)[1] = p[1] /\ Sender(p) = Last(Front(p))
         /\ Upto(p, Len(p)) = p /\ Upto(p, 0) = Market
         /\ \A k \in 0 .. Len(p) - 1 : Upto(Front(p), k) = Upto(p, k)
<1>1. Len(p) \in Nat /\ Len(p) > 0 /\ Last(p) \in Nodes /\ Upto(p, 0) = Market
  BY DEF Paths, Last, Market, Upto
<1>2. Front(p) \in Paths /\ Len(Front(p)) = Len(p) - 1
  <2>1. \A k \in 1 .. Len(p) - 1 : p[k] \in Nodes
    BY <1>1 DEF Paths
  <2>2. 1 \in Int /\ Len(p) - 1 \in Int
    BY <1>1
  <2>3. /\ SubSeq(p, 1, Len(p) - 1) \in Seq(Nodes)
        /\ Len(SubSeq(p, 1, Len(p) - 1)) = IF 1 <= Len(p) - 1 THEN Len(p) - 1 - 1 + 1 ELSE 0
    BY <2>1, <2>2, SubSeqProperties
  <2>4. \A l \in Nat : l > 0 => (IF 1 <= l - 1 THEN l - 1 - 1 + 1 ELSE 0) = l - 1
    OBVIOUS
  <2>5. Len(SubSeq(p, 1, Len(p) - 1)) = Len(p) - 1
    BY <1>1, <2>3, <2>4, Zenon
  <2> QED BY <2>3, <2>5, Zenon DEF Paths, Front
<1>3. \A k \in 1 .. Len(p) - 1 : Front(p)[k] = p[k]
  BY <1>1 DEF Paths, Front
<1>4. p = Append(Front(p), Last(p))
  <2> DEFINE longer == Append(Front(p), Last(p))
  <2>1. longer \in Seq(Nodes) /\ Len(longer) = Len(p)
    BY <1>1, <1>2 DEF Paths
  <2>2. \A k \in 1 .. Len(p) : longer[k] = p[k]
    BY <1>1, <1>2, <1>3 DEF Paths, Last
  <2> HIDE DEF longer
  <2> QED BY <2>1, <2>2, SeqEqual DEF Paths, longer
<1>5. Len(p) > 1 => Front(p) # Market /\ Front(p)[1] = p[1] /\ Sender(p) = Last(Front(p))
  BY <1>1, <1>2, <1>3 DEF Market, Sender, Last
<1>6. Upto(p, Len(p)) = p
  BY DEF Paths, Upto
<1>7. \A k \in 0 .. Len(p) - 1 : Upto(Front(p), k) = Upto(p, k)
  <2> TAKE k \in 0 .. Len(p) - 1
  <2>1. Upto(Front(p), k) \in Seq(Nodes) /\ Len(Upto(Front(p), k)) = k
    BY <1>1, <1>2 DEF Paths, Upto
  <2>2. Upto(p, k) \in Seq(Nodes) /\ Len(Upto(p, k)) = k
    BY <1>1 DEF Paths, Upto
  <2>3. \A i \in 1 .. k : Upto(Front(p), k)[i] = Upto(p, k)[i]
    BY <1>1, <1>2, <1>3 DEF Paths, Upto
  <2> QED BY <2>1, <2>2, <2>3, SeqEqual
<1> QED BY <1>1, <1>2, <1>4, <1>5, <1>6, <1>7

(* The beginnings of a path. *)
LEMMA Beginnings ==
  ASSUME NEW p \in Paths, NEW k \in 1 .. Len(p)
  PROVE  /\ Upto(p, k) \in Paths /\ Len(Upto(p, k)) = k /\ Upto(p, k) # Market
         /\ Front(Upto(p, k)) = Upto(p, k - 1)
         /\ IsPrefix(Upto(p, k), p)
  BY DEF Paths, Front, Market, Upto, IsPrefix

(* A fault on the way to the caller is one on the way to the callee. *)
LEMMA BrokenDown ==
  ASSUME faults \subseteq Paths, NEW p \in Paths, p # Market, Broken(Front(p))
  PROVE  Broken(p)
<1>1. PICK x \in faults : IsPrefix(x, Front(p))
  BY DEF Broken
<1>2. Len(x) \in Nat /\ Len(x) <= Len(Front(p)) /\ x \in Paths
  BY <1>1 DEF IsPrefix, Paths
<1>3. Upto(Front(p), Len(x)) = Upto(p, Len(x)) /\ Len(x) <= Len(p)
  BY <1>2, Shorter
<1> QED BY <1>1, <1>3 DEF IsPrefix, Broken, Upto

(* What it takes to be a follow-up. *)
LEMMA Followed ==
  ASSUME NEW p \in Paths, p # Market, NEW q \in FollowUps(p)
  PROVE  /\ q \in Paths /\ q # Market /\ q # Entry
         /\ Len(q) > 1 /\ Front(q) = p /\ q[1] = p[1]
         /\ Last(q) \in Neighbors(Last(p)) /\ Last(q) # Sender(p)
<1>1. Last(p) \in Nodes /\ Len(p) \in Nat /\ Len(p) > 0
  BY Shorter
<1>2. PICK n \in Neighbors(Last(p)) \ {Sender(p)} : q = Append(p, n)
  BY DEF FollowUps
<1>3. n \in Nodes
  BY <1>1, <1>2, OverlayAssumption DEF Neighbors
<1>4. /\ q \in Paths /\ Len(q) = Len(p) + 1 /\ Front(q) = p /\ Last(q) = n /\ q[1] = p[1]
  BY <1>2, <1>3, Longer
<1> QED BY <1>1, <1>2, <1>4 DEF Market, Entry

(* The first request. *)
LEMMA EntryPath ==
  Entry \in Paths /\ Entry # Market /\ Front(Entry) = Market /\ Last(Entry) = First
    /\ Len(Entry) = 1 /\ Upto(Entry, 0) = Market
<1>1. Entry \in Paths /\ Entry # Market /\ Len(Entry) = 1 /\ Last(Entry) = First
  BY OverlayAssumption DEF Entry, Paths, Market, Last
<1>2. SubSeq(Entry, 1, 0) = <<>>
  BY SubSeqEmpty
<1> QED BY <1>1, <1>2 DEF Front, Market, Upto

(* The relay takes one of nine steps, or none. *)
LEMMA Steps ==
  ASSUME [Next]_vars
  PROVE  \/ \E p \in todo \cup called :
              \/ Ask(p) \/ Unasked(p) \/ BidMade(p) \/ NoRoom(p) \/ BidFailed(p) \/ BidPanics(p)
              \/ Answer(p) \/ Take(p) \/ Lose(p) \/ Cancel(p)
         \/ UNCHANGED vars
  BY DEF Next, Step

-----------------------------------------------------------------------------
LEMMA InitInv == Init => IInv
<1> SUFFICES ASSUME Init PROVE IInv
  OBVIOUS
<1>1. TypeOK
  BY EntryPath DEF Init, TypeOK
<1>2. RequestInv /\ FaultInv /\ TreeInv /\ AskedOnce
  BY DEF Init, RequestInv, FaultInv, TreeInv, AskedOnce
<1>3. ChainInv
  BY DEF Init, ChainInv
<1> QED BY <1>1, <1>2, <1>3 DEF IInv

LEMMA TypeStep == IInv /\ [Next]_vars => TypeOK'
<1> SUFFICES ASSUME IInv, [Next]_vars PROVE TypeOK'
  OBVIOUS
<1> USE DEF IInv, TypeOK
<1>1. ASSUME NEW q \in todo, Ask(q) PROVE TypeOK'
  <2>1. q \in Paths \ {Market}
    BY EntryPath, Followed DEF RequestInv, Market
  <2>2. FollowUps(q) \subseteq Paths
    BY <2>1, Followed
  <2> QED BY <1>1, <2>1, <2>2 DEF Ask
<1>2. ASSUME NEW q \in todo, Unasked(q) PROVE TypeOK'
  <2>1. q \in Paths \ {Market}
    BY EntryPath DEF RequestInv, Market
  <2> QED BY <1>2, <2>1 DEF Unasked
<1>3. ASSUME NEW p \in called, BidMade(p) \/ NoRoom(p) \/ BidFailed(p) PROVE TypeOK'
  BY <1>3 DEF BidMade, NoRoom, BidFailed
<1>4. ASSUME NEW p \in called, Answer(p) \/ Lose(p) PROVE TypeOK'
  BY <1>4 DEF Answer, Lose
<1>5. ASSUME NEW q \in called, Take(q) PROVE TypeOK'
  <2>1. Front(q) \in {Market} \cup called
    BY EntryPath DEF RequestInv
  <2>2. Carried(q) \subseteq ({Market} \cup called) \X recorded
    BY <2>1 DEF Carried
  <2> QED BY <1>5, <2>2 DEF Take
<1>6. ASSUME NEW p \in called, Cancel(p) \/ BidPanics(p) PROVE TypeOK'
  <2>1. Below(p) \subseteq Paths \ {Market}
    BY EntryPath DEF Below, RequestInv, Market
  <2> QED BY <1>6, <2>1 DEF Cancel, BidPanics
<1>7. CASE UNCHANGED vars
  BY <1>7 DEF vars
<1> QED
  BY <1>1, <1>2, <1>3, <1>4, <1>5, <1>6, <1>7, Steps
     DEF Ask, Unasked, BidMade, NoRoom, BidFailed, BidPanics, Answer, Take, Lose, Cancel

(* What the invariant says of a single request. *)
LEMMA Request ==
  ASSUME TypeOK, RequestInv, NEW q \in todo \cup called
  PROVE  /\ q \in Paths /\ q # Market
         /\ q # Entry => Front(q) \in called /\ Len(q) > 1 /\ q[1] = First /\ q \in FollowUps(Front(q))
         /\ q = Entry \/ Front(q) # Market
         /\ q # Entry => q # Market
  BY EntryPath DEF TypeOK, RequestInv, Market

(* Requests are made once, by those in progress. *)
LEMMA RequestStep == IInv /\ [Next]_vars => RequestInv'
<1> SUFFICES ASSUME IInv, [Next]_vars PROVE RequestInv'
  OBVIOUS
<1> USE DEF IInv, TypeOK
<1>1. ASSUME NEW q \in todo, Ask(q) PROVE RequestInv'
  <2>1. q \in Paths \ {Market} /\ q \notin called
    BY Request DEF RequestInv
  <2>2. \A s \in FollowUps(q) : s \in FollowUps(Front(s)) /\ Front(s) = q /\ Len(s) > 1 /\ s[1] = q[1]
    BY <2>1, Followed
  <2>3. q[1] = First
    BY Request DEF Entry
  <2>4. FollowUps(q) \cap called = {} /\ q \notin FollowUps(q)
    <3>1. \A s \in called : s # Entry => Front(s) \in called
      BY Request
    <3>2. \A s \in FollowUps(q) : s # Entry /\ Len(s) = Len(q) + 1
      BY <2>1, Followed, Longer, Shorter
    <3> QED BY <2>1, <2>2, <3>1, <3>2, Shorter
  <2>5. \A s \in todo' \cup called' :
          s = Entry \/ (Len(s) > 1 /\ s[1] = First /\ Front(s) \in called' /\ s \in FollowUps(Front(s)))
    BY <1>1, <2>2, <2>3 DEF Ask, RequestInv
  <2>6. \A s \in todo' \cup waiting' : s = Entry \/ Front(s) \notin ended'
    BY <1>1, <2>1, <2>2 DEF Ask, RequestInv
  <2>7. todo' \cap called' = {} /\ bidding' \cap ended' = {}
    BY <1>1, <2>1, <2>4 DEF Ask, RequestInv
  <2> QED BY <2>5, <2>6, <2>7 DEF RequestInv
<1>2. ASSUME NEW q \in todo, Unasked(q) PROVE RequestInv'
  BY <1>2 DEF Unasked, RequestInv
<1>3. ASSUME NEW p \in called, BidMade(p) \/ NoRoom(p) \/ BidFailed(p) PROVE RequestInv'
  BY <1>3 DEF BidMade, NoRoom, BidFailed, RequestInv
<1>4. ASSUME NEW p \in called, Answer(p) PROVE RequestInv'
  BY <1>4 DEF Answer, RequestInv, Below
<1>5. ASSUME NEW p \in called, Take(p) \/ Lose(p) PROVE RequestInv'
  BY <1>5 DEF Take, Lose, RequestInv
<1>6. ASSUME NEW p \in called, Cancel(p) \/ BidPanics(p) PROVE RequestInv'
  BY <1>6 DEF Cancel, BidPanics, RequestInv, Below
<1>7. CASE UNCHANGED vars
  BY <1>7 DEF vars, RequestInv
<1> QED
  BY <1>1, <1>2, <1>3, <1>4, <1>5, <1>6, <1>7, Steps
     DEF Ask, Unasked, BidMade, NoRoom, BidFailed, BidPanics, Answer, Take, Lose, Cancel

(* Faults are where requests failed; the market's list is empty before.    *)
LEMMA FaultStep == IInv /\ [Next]_vars => FaultInv'
<1> SUFFICES ASSUME IInv, [Next]_vars PROVE FaultInv'
  OBVIOUS
<1> USE DEF IInv, TypeOK
<1>1. ASSUME NEW q \in todo, Ask(q) PROVE FaultInv'
  <2>1. q \in Paths \ {Market} /\ q \notin called /\ q \notin faults
    BY Request DEF RequestInv, FaultInv
  <2>2. \A s \in FollowUps(q) : Front(s) = q /\ s # Entry
    BY <2>1, Followed
  <2>3. todo' \cap faults' = {}
    BY <1>1, <2>1, <2>2 DEF Ask, FaultInv
  <2>4. Over => Over'
    BY <1>1, <2>2 DEF Ask, Over
  <2> QED BY <1>1, <2>1, <2>3, <2>4 DEF Ask, FaultInv
<1>2. ASSUME NEW q \in todo, Unasked(q) PROVE FaultInv'
  <2>1. q = Entry \/ Front(q) \in called
    BY Request
  <2>2. q \notin waiting
    BY DEF RequestInv
  <2>3. Over => Over'
    BY <1>2 DEF Unasked, Over
  <2> QED BY <1>2, <2>1, <2>2, <2>3 DEF Unasked, FaultInv
<1>3. ASSUME NEW p \in called, BidMade(p) \/ NoRoom(p) \/ BidFailed(p) PROVE FaultInv'
  <2>1. p \notin todo /\ p # Market /\ (p = Entry \/ Front(p) \in called)
    BY Request DEF RequestInv
  <2>2. Over' = Over
    BY <1>3 DEF BidMade, NoRoom, BidFailed, Over
  <2> QED BY <1>3, <2>1, <2>2 DEF BidMade, NoRoom, BidFailed, FaultInv
<1>4. ASSUME NEW p \in called, Answer(p) PROVE FaultInv'
  BY <1>4 DEF Answer, FaultInv, Over
<1>5. ASSUME NEW q \in called, Take(q) PROVE FaultInv'
  <2>1. q = Entry \/ Front(q) # Market
    BY Request
  <2>2. q \notin todo
    BY DEF RequestInv
  <2>3. Over => Over'
    BY <1>5 DEF Take, Over
  <2>4. \A b \in bids' : b[1] = Market => Over'
    BY <1>5, <2>1, <2>2, <2>3 DEF Take, FaultInv, Carried, Over
  <2> QED BY <1>5, <2>4 DEF Take, FaultInv
<1>6. ASSUME NEW q \in called, Lose(q) PROVE FaultInv'
  <2>1. q \notin todo /\ (q = Entry \/ Front(q) \in called)
    BY Request DEF RequestInv
  <2>2. Over => Over'
    BY <1>6 DEF Lose, Over
  <2> QED BY <1>6, <2>1, <2>2 DEF Lose, FaultInv
<1>7. ASSUME NEW p \in called, Cancel(p) \/ BidPanics(p) PROVE FaultInv'
  <2>1. Over => Over'
    BY <1>7 DEF Cancel, BidPanics, Over
  <2>2. p \notin todo /\ (p = Entry \/ Front(p) \in called)
    BY Request DEF RequestInv
  <2> QED BY <1>7, <2>1, <2>2 DEF Cancel, BidPanics, FaultInv, Below
<1>8. CASE UNCHANGED vars
  BY <1>8 DEF vars, FaultInv, Over
<1> QED
  BY <1>1, <1>2, <1>3, <1>4, <1>5, <1>6, <1>7, <1>8, Steps
     DEF Ask, Unasked, BidMade, NoRoom, BidFailed, BidPanics, Answer, Take, Lose, Cancel

-----------------------------------------------------------------------------
(* When a request leaves waiting, the paths through it are cut by a fault. *)
LEMMA ChainKept ==
  ASSUME TypeOK, TypeOK', ChainInv,
         NEW gone, waiting \ gone \subseteq waiting',
         called' = called, ended \subseteq ended', recorded' \subseteq recorded \cup faults',
         faults \subseteq faults', bids \subseteq bids',
         \A q \in gone \cap waiting : q \in faults'
  PROVE  ChainInv'
<1>1. ASSUME NEW r \in Paths, Broken(r) PROVE Broken(r)'
  BY <1>1 DEF Broken
<1>2. ASSUME NEW r \in Paths, NEW k \in 1 .. Len(r), Upto(r, k) \in waiting
      PROVE  Upto(r, k) \in waiting' \/ Broken(r)'
  BY <1>2, Beginnings DEF Broken
<1>3. ASSUME NEW r \in called' \ ended'
      PROVE  Broken(r)' \/ \A k \in 1 .. Len(r) : Upto(r, k) \in waiting'
  <2>1. r \in called \ ended /\ r \in Paths
    BY <1>3 DEF TypeOK
  <2> QED BY <2>1, <1>1, <1>2 DEF ChainInv
<1>4. ASSUME NEW r \in recorded', ~Broken(r)'
      PROVE  /\ <<r, r>> \in bids'
             /\ \A k \in 0 .. Len(r) - 1 :
                  <<Upto(r, k), r>> \in bids' \/ Upto(r, k + 1) \in waiting'
  <2>0. r \in faults' => IsPrefix(r, r)
    BY DEF TypeOK, IsPrefix, Paths
  <2>1. r \in recorded /\ r \in Paths /\ ~Broken(r)
    BY <1>1, <1>4, <2>0 DEF TypeOK, Broken
  <2>2. Len(r) \in Nat
    BY <2>1 DEF Paths
  <2>3. \A k \in 0 .. Len(r) - 1 : k + 1 \in 1 .. Len(r)
    BY <2>2
  <2> QED BY <2>1, <2>3, <1>2, <1>4 DEF ChainInv
<1> QED BY <1>3, <1>4 DEF ChainInv, Upto

(* Each request in progress is awaited all the way, unless one failed.     *)
LEMMA ChainStep == IInv /\ [Next]_vars => ChainInv'
<1> SUFFICES ASSUME IInv, [Next]_vars PROVE ChainInv'
  OBVIOUS
<1> USE DEF IInv
<1>1. ASSUME NEW q \in todo, Ask(q) PROVE ChainInv'
  <2>1. /\ q \in Paths /\ q # Market /\ q \notin called /\ called \subseteq Paths /\ recorded \subseteq Paths
        /\ q = Entry \/ (Front(q) \in called \ ended)
    BY Request DEF RequestInv, TypeOK
  <2>2. /\ called' = called \cup {q} /\ waiting' = waiting \cup {q} /\ ended' = ended
        /\ faults' = faults /\ recorded' = recorded /\ bids' = bids
    BY <1>1 DEF Ask
  <2>3. \A r \in Paths : Broken(r)' = Broken(r)
    BY <2>2 DEF Broken
  <2>4. Broken(q) \/ \A k \in 1 .. Len(q) : Upto(q, k) \in waiting'
    <3>1. CASE q = Entry
      <4>1. \A k \in 1 .. Len(q) : Upto(q, k) = q
        BY <3>1, EntryPath, Shorter
      <4> QED BY <4>1, <2>2
    <3>2. CASE Front(q) \in called \ ended
      <4>1. Broken(Front(q)) => Broken(q)
        BY <2>1, BrokenDown DEF TypeOK
      <4>2. Broken(Front(q)) \/ \A k \in 1 .. Len(Front(q)) : Upto(Front(q), k) \in waiting
        BY <3>2 DEF ChainInv
      <4>3. /\ Upto(q, Len(q)) = q /\ Len(Front(q)) = Len(q) - 1 /\ Len(q) \in Nat /\ Len(q) > 0
            /\ \A k \in 0 .. Len(q) - 1 : Upto(Front(q), k) = Upto(q, k)
        BY <2>1, Shorter
      <4> QED BY <4>1, <4>2, <4>3, <2>2
    <3> QED BY <2>1, <3>1, <3>2
  <2>5. \A r \in called' \ ended' : Broken(r)' \/ \A k \in 1 .. Len(r) : Upto(r, k) \in waiting'
    BY <2>1, <2>2, <2>3, <2>4 DEF ChainInv
  <2>6. \A r \in recorded' :
          \/ Broken(r)'
          \/ /\ <<r, r>> \in bids'
             /\ \A k \in 0 .. Len(r) - 1 :
                  <<Upto(r, k), r>> \in bids' \/ Upto(r, k + 1) \in waiting'
    BY <2>1, <2>2, <2>3 DEF ChainInv
  <2> QED BY <2>5, <2>6 DEF ChainInv, Upto
<1>2. ASSUME NEW q \in todo, Unasked(q) PROVE ChainInv'
  <2>1. /\ waiting \ {} \subseteq waiting' /\ called' = called /\ ended \subseteq ended'
        /\ recorded' = recorded /\ faults \subseteq faults' /\ bids \subseteq bids'
    BY <1>2 DEF Unasked
  <2> QED BY <2>1, TypeStep, ChainKept
<1>3. ASSUME NEW p \in called, BidMade(p) PROVE ChainInv'
  <2>1. p \in Paths /\ p # Market /\ p \in called \ ended /\ called \subseteq Paths /\ recorded \subseteq Paths
    BY <1>3 DEF TypeOK, RequestInv, BidMade
  <2>2. /\ called' = called /\ waiting' = waiting /\ ended' = ended /\ faults' = faults
        /\ bids \subseteq bids' /\ recorded' \subseteq recorded \cup {p}
    BY <1>3 DEF BidMade
  <2>3. \A r \in Paths : Broken(r) => Broken(r)'
    BY <2>2 DEF Broken
  <2>4. \A r \in called' \ ended' : Broken(r)' \/ \A k \in 1 .. Len(r) : Upto(r, k) \in waiting'
    BY <2>1, <2>2, <2>3 DEF ChainInv
  <2>5. ASSUME NEW r \in recorded'
        PROVE  \/ Broken(r)'
               \/ /\ <<r, r>> \in bids'
                  /\ \A k \in 0 .. Len(r) - 1 :
                       <<Upto(r, k), r>> \in bids' \/ Upto(r, k + 1) \in waiting'
    <3>1. CASE r \in recorded
      BY <3>1, <2>1, <2>2, <2>3 DEF ChainInv
    <3>2. CASE r = p
      <4>1. Broken(p)' \/ \A k \in 1 .. Len(p) : Upto(p, k) \in waiting'
        BY <2>1, <2>2, <2>4
      <4>2. Len(p) \in Nat
        BY <2>1 DEF Paths
      <4>3. \A k \in 0 .. Len(p) - 1 : k + 1 \in 1 .. Len(p)
        BY <4>2
      <4>4. <<p, p>> \in bids'
        BY <1>3 DEF BidMade
      <4> QED BY <3>2, <4>1, <4>3, <4>4
    <3> QED BY <2>2, <3>1, <3>2
  <2> QED BY <2>4, <2>5 DEF ChainInv, Upto
<1>4. ASSUME NEW p \in called, NoRoom(p) \/ BidFailed(p) \/ Answer(p) PROVE ChainInv'
  <2>1. /\ waiting \ {} \subseteq waiting' /\ called' = called /\ ended \subseteq ended'
        /\ recorded' = recorded /\ faults \subseteq faults' /\ bids \subseteq bids'
    BY <1>4 DEF NoRoom, BidFailed, Answer
  <2> QED BY <2>1, TypeStep, ChainKept
<1>5. ASSUME NEW q \in called, Take(q) PROVE ChainInv'
  <2>1. /\ called' = called /\ waiting' = waiting \ {q} /\ ended' = ended /\ faults' = faults
        /\ recorded' = recorded /\ bids \subseteq bids'
        /\ q \notin spoiled => Carried(q) \subseteq bids'
        /\ q \in ended
    BY <1>5 DEF Take
  <2>2. \A r \in Paths : Broken(r)' = Broken(r)
    BY <2>1 DEF Broken
  <2>3. ASSUME NEW r \in Paths, NEW k \in 1 .. Len(r), Upto(r, k) = q, q \in faults
        PROVE  Broken(r)
    BY <2>3, Beginnings DEF Broken
  \* Nobody below q is awaited any more.
  <2>4. ASSUME NEW r \in Paths, NEW k \in 1 .. Len(r), Upto(r, k) = q, k < Len(r)
        PROVE  Upto(r, k + 1) \notin waiting
    <3>1. Len(r) \in Nat /\ k + 1 \in 1 .. Len(r)
      BY <2>4 DEF Paths
    <3>2. Front(Upto(r, k + 1)) = q /\ q # Market
      BY <2>4, <3>1, Beginnings
    <3> QED BY <2>1, <3>2, EntryPath DEF RequestInv
  <2>5. ASSUME NEW r \in called' \ ended', ~Broken(r)
        PROVE  \A k \in 1 .. Len(r) : Upto(r, k) \in waiting'
    <3>1. r \in called \ ended /\ r \in Paths /\ r # Market
      BY <2>1, <2>5 DEF TypeOK
    <3>2. \A k \in 1 .. Len(r) : Upto(r, k) \in waiting
      BY <2>5, <3>1 DEF ChainInv
    <3>3. ASSUME NEW k \in 1 .. Len(r) PROVE Upto(r, k) # q
      <4>1. Len(r) \in Nat /\ Upto(r, Len(r)) = r
        BY <3>1, Shorter
      <4>2. Upto(r, k) = q => k < Len(r)
        BY <4>1, <3>1, <2>1
      <4>3. k < Len(r) => k + 1 \in 1 .. Len(r)
        BY <4>1
      <4> QED BY <4>2, <4>3, <2>4, <3>1, <3>2
    <3> QED BY <2>1, <3>2, <3>3
  <2>6. ASSUME NEW r \in recorded', ~Broken(r)
        PROVE  /\ <<r, r>> \in bids'
               /\ \A k \in 0 .. Len(r) - 1 :
                    <<Upto(r, k), r>> \in bids' \/ Upto(r, k + 1) \in waiting'
    <3>1. r \in recorded /\ r \in Paths /\ r # Market
      BY <2>1, <2>6 DEF TypeOK
    <3>2. Len(r) \in Nat /\ Len(r) > 0 /\ Upto(r, Len(r)) = r
      BY <3>1, Shorter
    <3>3. /\ <<r, r>> \in bids
          /\ \A k \in 0 .. Len(r) - 1 : <<Upto(r, k), r>> \in bids \/ Upto(r, k + 1) \in waiting
      BY <2>6, <3>1 DEF ChainInv
    <3>4. ASSUME NEW k \in 0 .. Len(r) - 1, Upto(r, k + 1) = q
          PROVE  <<Upto(r, k), r>> \in bids'
      <4>1. k + 1 \in 1 .. Len(r) /\ (k + 1) - 1 = k
        BY <3>2
      <4>2. q \notin spoiled /\ Front(q) = Upto(r, k)
        BY <2>3, <2>6, <3>1, <3>4, <4>1, Beginnings DEF FaultInv
      <4>3. <<q, r>> \in bids
        <5>1. CASE k + 1 = Len(r)
          BY <5>1, <3>2, <3>3, <3>4
        <5>2. CASE k + 1 # Len(r)
          <6>1. k + 1 \in 0 .. Len(r) - 1 /\ k + 1 < Len(r)
            BY <5>2, <4>1, <3>2
          <6>2. Upto(r, (k + 1) + 1) \notin waiting
            BY <6>1, <4>1, <3>1, <3>4, <2>4
          <6> QED BY <6>1, <6>2, <3>3, <3>4
        <5> QED BY <5>1, <5>2
      <4>4. <<Front(q), r>> \in Carried(q)
        BY <4>3 DEF Carried
      <4> QED BY <4>2, <4>4, <2>1
    <3> QED BY <2>1, <3>3, <3>4
  <2> QED BY <2>1, <2>2, <2>5, <2>6 DEF ChainInv, TypeOK, Upto
<1>6. ASSUME NEW q \in called, Lose(q) PROVE ChainInv'
  <2>1. /\ waiting \ {q} \subseteq waiting' /\ called' = called /\ ended \subseteq ended'
        /\ recorded' = recorded /\ faults \subseteq faults' /\ bids \subseteq bids' /\ q \in faults'
    BY <1>6 DEF Lose
  <2> QED BY <2>1, TypeStep, ChainKept
<1>7. ASSUME NEW p \in called, Cancel(p) \/ BidPanics(p) PROVE ChainInv'
  <2>1. /\ waiting \ Below(p) \subseteq waiting' /\ called' = called /\ ended \subseteq ended'
        /\ recorded' \subseteq recorded \cup faults' /\ faults \subseteq faults' /\ bids \subseteq bids'
        /\ \A q \in Below(p) : q \in faults'
    BY <1>7 DEF Cancel, BidPanics
  <2> QED BY <2>1, TypeStep, ChainKept
<1>8. CASE UNCHANGED vars
  <2>1. /\ waiting \ {} \subseteq waiting' /\ called' = called /\ ended \subseteq ended'
        /\ recorded' = recorded /\ faults \subseteq faults' /\ bids \subseteq bids'
    BY <1>8 DEF vars
  <2> QED BY <2>1, TypeStep, ChainKept
<1> QED
  BY <1>1, <1>2, <1>3, <1>4, <1>5, <1>6, <1>7, <1>8, Steps
     DEF TypeOK, Ask, Unasked, BidMade, NoRoom, BidFailed, BidPanics, Answer, Take, Lose, Cancel

-----------------------------------------------------------------------------
LEMMA UpIsTowards == IsTree => Up \in [Nodes -> Nodes \cup {NoNode}] /\ Towards(Up)
  BY DEF IsTree, Up

(* Over a tree a request arrives from the neighbour towards First.         *)
LEMMA TreeStep == IInv /\ [Next]_vars => TreeInv'
<1> SUFFICES ASSUME IInv, [Next]_vars, IsTree
             PROVE  \A p \in todo' \cup called' : p # Entry => Up[Last(p)] = Last(Front(p))
  BY DEF TreeInv
<1> USE DEF IInv
<1>1. ASSUME NEW q \in todo, Ask(q), NEW p \in todo' \cup called', p # Entry
      PROVE  Up[Last(p)] = Last(Front(p))
  <2>1. p \in todo \cup called \/ p \in FollowUps(q)
    BY <1>1 DEF Ask
  <2>2. CASE p \in todo \cup called
    BY <1>1, <2>2 DEF TreeInv
  <2>3. CASE p \in FollowUps(q)
    <3>1. /\ q \in Paths /\ q # Market /\ Last(q) \in Nodes
          /\ q # Entry => Len(q) > 1
      BY Request, Shorter
    <3>2. Front(p) = q /\ Last(p) \in Neighbors(Last(q)) /\ Last(p) # Sender(q)
          /\ p \in Paths /\ p # Market
      BY <2>3, <3>1, Followed
    <3>3. Last(p) \in Nodes /\ (Up[Last(p)] = Last(q) \/ Up[Last(q)] = Last(p))
      BY <3>1, <3>2, Shorter, UpIsTowards DEF Towards
    <3>4. CASE q = Entry
      <4>1. Up[Last(q)] = NoNode
        BY <3>4, EntryPath, UpIsTowards DEF Towards
      <4> QED BY <3>2, <3>3, <4>1, OverlayAssumption
    <3>5. CASE q # Entry
      <4>1. Up[Last(q)] = Last(Front(q))
        BY <3>5 DEF TreeInv
      <4>2. Sender(q) = Last(Front(q))
        BY <3>1, <3>5, Shorter
      <4> QED BY <3>2, <3>3, <4>1, <4>2
    <3> QED BY <3>4, <3>5
  <2> QED BY <2>1, <2>2, <2>3
<1>2. ASSUME todo' \subseteq todo, called' = called, NEW p \in todo' \cup called', p # Entry
      PROVE  Up[Last(p)] = Last(Front(p))
  BY <1>2 DEF TreeInv
<1>3. (\E q \in todo : Ask(q)) \/ (todo' \subseteq todo /\ called' = called)
  BY Steps DEF vars, Ask, Unasked, BidMade, NoRoom, BidFailed, BidPanics, Answer, Take, Lose, Cancel
<1> QED BY <1>1, <1>2, <1>3

(* Hence the caller of a node is determined, and so is the whole path.     *)
LEMMA OnceStep == IInv /\ [Next]_vars => AskedOnce'
<1> SUFFICES ASSUME IInv, [Next]_vars, IsTree
             PROVE  \A p, r \in called' : Last(p) = Last(r) => p = r
  BY DEF AskedOnce
<1> USE DEF IInv
<1>1. ASSUME NEW q \in todo, Ask(q), NEW r \in called, Last(r) = Last(q)
      PROVE  r = q
  <2>1. /\ q \in Paths /\ q # Market /\ r \in Paths /\ r # Market
        /\ q # Entry => Front(q) \in called /\ Up[Last(q)] = Last(Front(q))
        /\ r # Entry => Front(r) \in called /\ Up[Last(r)] = Last(Front(r))
    BY Request DEF TreeInv
  <2>2. Up[Last(Entry)] = NoNode
    BY EntryPath, UpIsTowards DEF Towards
  <2>3. /\ q # Entry => Last(Front(q)) \in Nodes
        /\ r # Entry => Last(Front(r)) \in Nodes
    BY <2>1, Request, Shorter
  <2>4. q = Entry <=> r = Entry
    BY <1>1, <2>1, <2>2, <2>3, OverlayAssumption
  <2>5. CASE q # Entry /\ r # Entry
    <3>1. Front(q) = Front(r)
      BY <1>1, <2>1, <2>5 DEF AskedOnce
    <3>2. q = Append(Front(q), Last(q)) /\ r = Append(Front(r), Last(r))
      BY <2>1, Shorter
    <3> QED BY <1>1, <3>1, <3>2
  <2> QED BY <2>4, <2>5
<1>2. ASSUME NEW q \in todo, Ask(q) PROVE called' = called \cup {q}
  BY <1>2 DEF Ask
<1>3. (\E q \in todo : Ask(q)) \/ called' = called
  BY Steps DEF vars, Ask, Unasked, BidMade, NoRoom, BidFailed, BidPanics, Answer, Take, Lose, Cancel
<1>4. \A p, r \in called : Last(p) = Last(r) => p = r
  BY DEF AskedOnce
<1> QED BY <1>1, <1>2, <1>3, <1>4

-----------------------------------------------------------------------------
(* The invariant holds of every call for bids.                             *)
THEOREM RelayInvariance == Spec => []IInv
<1>1. Init => IInv
  BY InitInv
<1>2. IInv /\ [Next]_vars => IInv'
  BY TypeStep, RequestStep, FaultStep, ChainStep, TreeStep, OnceStep DEF IInv
<1> QED BY <1>1, <1>2, PTL DEF Spec

(* Over a tree nobody is asked twice: not telling more than the last node  *)
(* with a request is enough (follow_up_to_single_neighbor).                *)
THEOREM NobodyAskedTwice == Spec => []AskedOnce
<1>1. IInv => AskedOnce
  BY DEF IInv
<1> QED BY <1>1, RelayInvariance, PTL

(* A proposal a node remembers reaches the market, or a request of its     *)
(* path failed (follow_up_to_neighbors, bid_on_new_function_and_transmit). *)
THEOREM ProposalsLostByFaults == Spec => []LostOnlyByFault
<1>1. IInv => LostOnlyByFault
  <2> SUFFICES ASSUME IInv, Over, NEW r \in recorded
               PROVE  <<Market, r>> \in bids \/ Broken(r)
    BY DEF LostOnlyByFault, Broken
  <2>1. r \in called /\ r \in Paths /\ r # Market /\ r[1] = First
    BY Request DEF IInv, TypeOK, Entry
  <2>2. Len(r) \in Nat /\ Len(r) > 0 /\ Upto(r, 0) = Market
    BY <2>1, Shorter
  <2>3. Upto(r, 1) = Entry
    <3>0. 1 \in 1 .. Len(r)
      <4>1. \A l \in Nat : l > 0 => 1 \in 1 .. l
        OBVIOUS
      <4> QED BY <2>2, <4>1, Zenon
    <3>1. Upto(r, 1) \in Seq(Nodes) /\ Len(Upto(r, 1)) = 1
      BY <2>1, <3>0, Beginnings, Zenon DEF Paths
    <3>2. Upto(r, 1)[1] = First
      BY <2>1, <2>2 DEF Upto, Paths
    <3>3. Entry \in Seq(Nodes) /\ Len(Entry) = 1 /\ Entry[1] = First
      BY EntryPath DEF Entry, Paths
    <3> QED BY <3>1, <3>2, <3>3, SeqEqual
  <2>4. 0 \in 0 .. Len(r) - 1 /\ 0 + 1 = 1
    BY <2>2
  <2>5. Broken(r) \/ <<Upto(r, 0), r>> \in bids \/ Upto(r, 0 + 1) \in waiting
    BY <2>4 DEF IInv, ChainInv
  <2> QED BY <2>2, <2>3, <2>4, <2>5 DEF Over
<1> QED BY <1>1, RelayInvariance, PTL

-----------------------------------------------------------------------------
Offers == {Last(r) : r \in recorded}
Bidders == {Last(b[2]) : b \in {b \in bids : b[1] = Market}}

(* What does not concern the market.                                       *)
LEMMA MarketUntouched ==
  ASSUME Over' = Over, Over => (Entry \in faults' <=> Entry \in faults),
         {b \in bids' : b[1] = Market} = {b \in bids : b[1] = Market}
  PROVE  Outcome' = Outcome /\ Bidders' = Bidders
<1>1. Outcome' = Outcome
  BY DEF Outcome
<1>2. Bidders' = Bidders
  BY DEF Bidders
<1> QED BY <1>1, <1>2

(* Every step is one of the promise, seen from the market.                 *)
LEMMA PromiseStep ==
  IInv /\ [Next]_vars => [Promise!Next]_(Promise!vars)
<1> SUFFICES ASSUME IInv, [Next]_vars
             PROVE  [Promise!Next]_<<Outcome, Offers, Bidders>>
  BY DEF Promise!vars, Offers, Bidders
<1> USE DEF IInv
<1>a. Promise!Next <=>
        \/ \E n \in Nodes : Offers' = Offers \cup {n} /\ UNCHANGED <<Outcome, Bidders>>
        \/ \E b \in SUBSET Nodes :
             /\ Outcome = "awaited" /\ Outcome' = "answered"
             /\ b \subseteq Offers /\ Bidders' = b /\ UNCHANGED Offers
        \/ /\ Outcome = "awaited" /\ Outcome' = "failed" /\ UNCHANGED <<Offers, Bidders>>
  BY DEF Promise!Next, Promise!Propose, Promise!Answer, Promise!Fail, Offers, Bidders
<1>b. ~Over => Bidders = {}
  BY DEF FaultInv, Bidders
<1>c. \A p \in called : p # Market /\ Last(p) \in Nodes
  BY Request, Shorter
<1>1. ASSUME NEW q \in todo, Ask(q) PROVE [Promise!Next]_<<Outcome, Offers, Bidders>>
  <2>1. \A s \in FollowUps(q) : s # Entry
    BY Request, Followed
  <2>2. Over' = Over
    BY <1>1, <2>1 DEF Ask, Over
  <2>3. faults' = faults /\ bids' = bids /\ recorded' = recorded
    BY <1>1 DEF Ask
  <2> QED BY <2>2, <2>3, MarketUntouched DEF Offers
<1>2. ASSUME NEW q \in todo, Unasked(q) PROVE [Promise!Next]_<<Outcome, Offers, Bidders>>
  <2>1. faults' = faults \cup {q} /\ bids' = bids /\ recorded' = recorded
    BY <1>2 DEF Unasked
  <2>2. CASE q # Entry
    <3>1. Over' = Over
      BY <1>2, <2>2 DEF Unasked, Over
    <3> QED BY <2>1, <2>2, <3>1, MarketUntouched DEF Offers
  <2>3. CASE q = Entry
    <3>1. ~Over /\ Over'
      BY <1>2, <2>3 DEF Unasked, Over, RequestInv, TypeOK
    <3>2. Outcome = "awaited" /\ Outcome' = "failed"
      BY <2>1, <2>3, <3>1 DEF Outcome
    <3> QED BY <1>a, <2>1, <3>2 DEF Offers, Bidders
  <2> QED BY <2>2, <2>3
<1>3. ASSUME NEW p \in called, BidMade(p) \/ NoRoom(p) \/ BidFailed(p) \/ BidPanics(p)
      PROVE  [Promise!Next]_<<Outcome, Offers, Bidders>>
  <2>0. Entry \notin Below(p)
    BY <1>c, EntryPath DEF Below
  <2>1. Over' = Over /\ recorded \subseteq recorded' /\ recorded' \subseteq recorded \cup {p}
        /\ (Entry \in faults' => Entry \in faults \cup {p}) /\ faults \subseteq faults'
        /\ bids \subseteq bids' /\ bids' \subseteq bids \cup {<<p, p>>}
    BY <1>3, <2>0 DEF BidMade, NoRoom, BidFailed, BidPanics, Over
  \* A node that still bids is awaited, or was already given up.
  <2>2. Over /\ p = Entry => Entry \in faults
    <3> SUFFICES ASSUME Over, p = Entry PROVE Entry \in faults
      OBVIOUS
    <3>1. p \in called \ ended
      BY <1>3 DEF BidMade, NoRoom, BidFailed, BidPanics, RequestInv
    <3>2. Len(Entry) = 1 /\ Upto(Entry, 1) = Entry
      BY EntryPath, Shorter
    <3>3. Broken(Entry)
      BY <3>1, <3>2 DEF ChainInv, Over
    <3>4. PICK x \in faults : IsPrefix(x, Entry)
      BY <3>3 DEF Broken
    <3>5. x \in Paths /\ x # Market
      BY <3>4 DEF TypeOK
    <3>6. Len(x) = 1 /\ Upto(x, 1) = x
      <4>1. Len(x) \in Nat /\ Len(x) > 0 /\ Upto(x, Len(x)) = x
        BY <3>5, Shorter
      <4>2. Len(x) <= 1
        BY <3>2, <3>4 DEF IsPrefix
      <4>3. \A l \in Nat : l > 0 /\ l <= 1 => l = 1
        OBVIOUS
      <4>4. Len(x) = 1
        BY <4>1, <4>2, <4>3, Zenon
      <4> QED BY <4>1, <4>4
    <3>7. x = Entry
      BY <3>2, <3>4, <3>6 DEF IsPrefix, Upto
    <3> QED BY <3>7
  <2>3. {b \in bids' : b[1] = Market} = {b \in bids : b[1] = Market}
    BY <2>1, <1>c
  <2>4. Outcome' = Outcome /\ Bidders' = Bidders
    BY <2>1, <2>2, <2>3, MarketUntouched
  <2>5. Offers' = Offers \/ Offers' = Offers \cup {Last(p)}
    <3>1. recorded' = recorded \/ recorded' = recorded \cup {p}
      BY <2>1
    <3> QED BY <3>1 DEF Offers
  <2> QED BY <1>a, <1>c, <2>4, <2>5
<1>4. ASSUME NEW q \in called, Take(q) PROVE [Promise!Next]_<<Outcome, Offers, Bidders>>
  <2>1. recorded' = recorded /\ faults' = faults /\ waiting' = waiting \ {q} /\ todo' = todo
        /\ q \in waiting
    BY <1>4 DEF Take
  <2>2. Offers' = Offers
    BY <2>1 DEF Offers
  <2>3. CASE q # Entry
    <3>1. Over' = Over
      BY <2>1, <2>3 DEF Over
    <3>2. \A b \in Carried(q) : b[1] # Market
      BY <2>3, Request DEF Carried
    <3>3. {b \in bids' : b[1] = Market} = {b \in bids : b[1] = Market}
      BY <1>4, <3>2 DEF Take
    <3> QED BY <2>1, <2>2, <3>1, <3>3, MarketUntouched
  <2>4. CASE q = Entry
    <3>1. ~Over /\ Over'
      BY <2>1, <2>4 DEF Over, RequestInv, TypeOK
    <3>2. Outcome = "awaited"
      BY <3>1 DEF Outcome
    <3>3. CASE Entry \in faults
      <4>1. bids' = bids
        BY <1>4, <2>1, <2>4, <3>3 DEF Take, FaultInv
      <4>2. Outcome' = "failed" /\ Bidders' = Bidders
        BY <2>1, <3>1, <3>3, <4>1 DEF Outcome, Bidders
      <4> QED BY <1>a, <2>2, <3>2, <4>2
    <3>4. CASE Entry \notin faults
      <4>1. Outcome' = "answered"
        BY <2>1, <3>1, <3>4 DEF Outcome
      <4>2. TypeOK'
        BY TypeStep
      <4>3. Bidders' \subseteq Offers'
        BY <4>2 DEF TypeOK, Bidders, Offers
      <4>4. Offers \subseteq Nodes
        BY <1>c DEF Offers, TypeOK
      <4> QED BY <1>a, <2>2, <3>2, <4>1, <4>3, <4>4
    <3> QED BY <3>3, <3>4
  <2> QED BY <2>3, <2>4
<1>5. ASSUME NEW q \in called, Lose(q) PROVE [Promise!Next]_<<Outcome, Offers, Bidders>>
  <2>1. recorded' = recorded /\ bids' = bids /\ faults' = faults \cup {q}
        /\ waiting' = waiting \ {q} /\ todo' = todo /\ q \in waiting
    BY <1>5 DEF Lose
  <2>2. CASE q # Entry
    <3>1. Over' = Over
      BY <2>1, <2>2 DEF Over
    <3> QED BY <2>1, <2>2, <3>1, MarketUntouched DEF Offers
  <2>3. CASE q = Entry
    <3>1. ~Over /\ Over'
      BY <2>1, <2>3 DEF Over, RequestInv, TypeOK
    <3>2. Outcome = "awaited" /\ Outcome' = "failed"
      BY <2>1, <2>3, <3>1 DEF Outcome
    <3> QED BY <1>a, <2>1, <3>2 DEF Offers, Bidders
  <2> QED BY <2>2, <2>3
<1>6. ASSUME NEW p \in called, Answer(p) \/ Cancel(p)
      PROVE  [Promise!Next]_<<Outcome, Offers, Bidders>>
  <2>1. Entry \notin Below(p)
    BY <1>c, EntryPath DEF Below
  <2>2. Over' = Over /\ (Entry \in faults' <=> Entry \in faults)
    BY <1>6, <2>1 DEF Answer, Cancel, Over
  <2>3. bids' = bids /\ recorded' = recorded
    BY <1>6 DEF Answer, Cancel
  <2> QED BY <2>2, <2>3, MarketUntouched DEF Offers
<1>7. CASE UNCHANGED vars
  <2>1. Over' = Over /\ faults' = faults /\ bids' = bids /\ recorded' = recorded
    BY <1>7 DEF vars, Over
  <2> QED BY <2>1, MarketUntouched DEF Offers
<1> QED
  BY <1>1, <1>2, <1>3, <1>4, <1>5, <1>6, <1>7, Steps
     DEF TypeOK, Ask, Unasked, BidMade, NoRoom, BidFailed, BidPanics, Answer, Take, Lose, Cancel

(* The relay is a call for bids: one outcome, and every bidder the market  *)
(* is told of remembers its proposal.                                      *)
THEOREM RelayImplementsCallForBids == Spec => Promised
<1>1. Init => Promise!Init
  <2> SUFFICES ASSUME Init PROVE Promise!Init
    OBVIOUS
  <2>1. Outcome = "awaited"
    BY DEF Init, Outcome, Over
  <2>2. Offers = {} /\ Bidders = {}
    BY DEF Init, Offers, Bidders
  <2> QED BY <2>1, <2>2 DEF Promise!Init, Offers, Bidders
<1>2. IInv /\ [Next]_vars => [Promise!Next]_(Promise!vars)
  BY PromiseStep
<1> QED BY <1>1, <1>2, RelayInvariance, PTL DEF Spec, Promised, Promise!Spec

-----------------------------------------------------------------------------
(* Who is asked: with a request, all those on whose behalf it is made; and *)
(* what a request gives rise to is about to be made, was made or failed.   *)
SpreadInv ==
  /\ Entry \in todo \cup called \cup faults
  /\ \A p \in called : \A k \in 1 .. Len(p) : Upto(p, k) \in called
  /\ \A p \in called : FollowUps(p) \subseteq todo \cup called \cup faults

LEMMA SpreadStep ==
  ASSUME IInv, SpreadInv, [Next]_vars
  PROVE  SpreadInv'
<1> USE DEF SpreadInv
<1>1. ASSUME called' = called, todo \subseteq todo' \cup called' \cup faults', faults \subseteq faults'
      PROVE  SpreadInv'
  BY <1>1
<1>2. ASSUME NEW q \in todo, Ask(q) PROVE SpreadInv'
  <2>1. /\ called' = called \cup {q} /\ todo' = (todo \ {q}) \cup FollowUps(q) /\ faults' = faults
    BY <1>2 DEF Ask
  <2>2. q \in Paths /\ q # Market /\ (q # Entry => Front(q) \in called)
    BY Request DEF IInv
  <2>3. ASSUME NEW k \in 1 .. Len(q) PROVE Upto(q, k) \in called'
    <3>1. Len(q) \in Nat /\ Len(q) > 0 /\ Len(Front(q)) = Len(q) - 1 /\ Upto(q, Len(q)) = q
          /\ \A i \in 0 .. Len(q) - 1 : Upto(Front(q), i) = Upto(q, i)
      BY <2>2, Shorter
    <3>2. CASE k = Len(q)
      BY <2>1, <3>1, <3>2
    <3>3. CASE k # Len(q)
      <4>1. k \in 1 .. Len(Front(q)) /\ k \in 0 .. Len(q) - 1 /\ Len(q) # 1
        BY <3>1, <3>3
      <4>2. Front(q) \in called
        BY <2>2, <4>1, EntryPath
      <4> QED BY <2>1, <3>1, <4>1, <4>2
    <3> QED BY <3>2, <3>3
  <2>4. todo \cup called \cup faults \subseteq todo' \cup called' \cup faults'
    BY <2>1
  <2>5. \A p \in called' : FollowUps(p) \subseteq todo' \cup called' \cup faults'
    BY <2>1, <2>4
  <2>6. \A p \in called' : \A k \in 1 .. Len(p) : Upto(p, k) \in called'
    BY <2>1, <2>3
  <2>7. Entry \in todo' \cup called' \cup faults'
    BY <2>4
  <2> QED BY <2>5, <2>6, <2>7
<1>3. ASSUME NEW p \in todo \cup called, Unasked(p) PROVE SpreadInv'
  BY <1>1, <1>3 DEF Unasked
<1>4. ASSUME NEW p \in todo \cup called, BidPanics(p) \/ Cancel(p) PROVE SpreadInv'
  BY <1>1, <1>4 DEF BidPanics, Cancel
<1>5. ASSUME NEW p \in todo \cup called,
             BidMade(p) \/ NoRoom(p) \/ BidFailed(p) \/ Answer(p) \/ Take(p) \/ Lose(p)
      PROVE  SpreadInv'
  BY <1>1, <1>5 DEF BidMade, NoRoom, BidFailed, Answer, Take, Lose
<1>6. CASE UNCHANGED vars
  BY <1>1, <1>6 DEF vars
<1>7. ASSUME NEW q \in todo \cup called, Ask(q) PROVE SpreadInv'
  <2>1. q \in todo
    BY <1>7 DEF Ask
  <2> QED BY <1>2, <1>7, <2>1
<1> QED BY <1>3, <1>4, <1>5, <1>6, <1>7, Steps

(* A request and its beginnings, in terms of the nodes on its way. *)
LEMMA Way ==
  ASSUME NEW p \in Paths, NEW k \in 1 .. Len(p)
  PROVE  /\ Upto(p, k) \in Paths /\ Len(Upto(p, k)) = k /\ Upto(p, k) # Market
         /\ Front(Upto(p, k)) = Upto(p, k - 1) /\ Last(Upto(p, k)) = p[k] /\ p[k] \in Nodes
         /\ k > 1 => Sender(Upto(p, k)) = p[k - 1]
         /\ k = 1 => Sender(Upto(p, k)) = p[1]
         /\ k = 1 /\ p[1] = First => Upto(p, k) = Entry
<1>1. Len(p) \in Nat /\ \A i \in 1 .. Len(p) : p[i] \in Nodes
  BY DEF Paths
<1>2. /\ Upto(p, k) \in Paths /\ Len(Upto(p, k)) = k /\ Upto(p, k) # Market
      /\ Front(Upto(p, k)) = Upto(p, k - 1)
  BY Beginnings
<1>3. \A i \in 1 .. k : Upto(p, k)[i] = p[i]
  BY <1>1 DEF Paths, Upto
<1>4. Last(Upto(p, k)) = p[k]
  BY <1>1, <1>2, <1>3 DEF Last
<1>5. k > 1 => Sender(Upto(p, k)) = p[k - 1]
  BY <1>1, <1>2, <1>3 DEF Sender
<1>6. k = 1 => Sender(Upto(p, k)) = p[1]
  BY <1>1, <1>2, <1>4 DEF Sender
<1>7. ASSUME k = 1, p[1] = First PROVE Upto(p, k) = Entry
  <2>1. Entry \in Paths /\ Len(Entry) = 1 /\ Entry[1] = First
    BY EntryPath DEF Entry
  <2> QED BY <1>2, <1>3, <1>7, <2>1, SeqEqual DEF Paths
<1> QED BY <1>1, <1>2, <1>4, <1>5, <1>6, <1>7

(* What Routes asks of the links of a path. *)
Links(p) ==
  \A i \in 1 .. Len(p) - 1 :
    /\ p[i + 1] \in Neighbors(p[i])
    /\ Measured(Upto(p, i + 1))
    /\ ~TooFar(Upto(p, i + 1))

LEMMA RouteIs ==
  /\ \A p \in Routes : /\ p \in Paths /\ p # Market /\ p[1] = First /\ Links(p)
                       /\ \A i, j \in 1 .. Len(p) : p[i] = p[j] => i = j
  /\ \A p \in Paths : /\ p # Market /\ p[1] = First /\ Links(p)
                      /\ \A i, j \in 1 .. Len(p) : p[i] = p[j] => i = j
                      => p \in Routes
<1> DEFINE Simple == UNION {{p \in [1 .. k -> Nodes] : IsInjective(p)} : k \in 1 .. Cardinality(Nodes)}
<1>1. Routes = {p \in Simple : p[1] = First /\ Links(p)}
  BY DEF Routes, Links, Upto
<1>2. IsFiniteSet(Nodes) /\ Cardinality(Nodes) \in Nat
  BY OverlayAssumption, FS_CardinalityType
<1>3. ASSUME NEW p \in Routes
      PROVE  /\ p \in Paths /\ p # Market /\ p[1] = First /\ Links(p)
             /\ \A i, j \in 1 .. Len(p) : p[i] = p[j] => i = j
  <2>1. PICK k \in 1 .. Cardinality(Nodes) : p \in [1 .. k -> Nodes] /\ IsInjective(p)
    BY <1>1
  <2>2. k \in Nat /\ k > 0
    BY <1>2
  <2>3. p \in Seq(Nodes) /\ Len(p) = k /\ DOMAIN p = 1 .. k
    BY <2>1, <2>2
  <2> QED BY <1>1, <2>1, <2>2, <2>3 DEF IsInjective, Paths, Market
<1>4. ASSUME NEW p \in Paths, p # Market, p[1] = First, Links(p),
             \A i, j \in 1 .. Len(p) : p[i] = p[j] => i = j
      PROVE  p \in Routes
  <2> DEFINE k == Len(p)
  <2>1. p \in [1 .. k -> Nodes] /\ k \in Nat /\ k > 0 /\ DOMAIN p = 1 .. k
    BY <1>4 DEF Paths, Market
  <2>2. IsInjective(p)
    BY <1>4, <2>1 DEF IsInjective
  <2> HIDE DEF k
  <2>3. p \in Injection(1 .. k, Nodes)
    BY <2>1, <2>2 DEF Injection
  <2>4. Cardinality(1 .. k) <= Cardinality(Nodes) /\ Cardinality(1 .. k) = k
    BY <1>2, <2>1, <2>3, FS_Injection, FS_Interval
  <2>5. k \in 1 .. Cardinality(Nodes)
    BY <1>2, <2>1, <2>4
  <2> QED BY <1>1, <1>4, <2>1, <2>2, <2>5
<1> QED BY <1>3, <1>4

(* A request that was made went along a route.                             *)
LEMMA CalledOnRoutes ==
  ASSUME IInv, SpreadInv, IsTree, NEW p \in called
  PROVE  p \in Routes
<1>1. p \in Paths /\ p # Market /\ called \subseteq Paths \ {Market}
  BY DEF IInv, TypeOK
<1>2. Len(p) \in Nat /\ Len(p) > 0
  BY <1>1, Shorter
<1>3. \A k \in 1 .. Len(p) : Upto(p, k) \in called
  BY DEF SpreadInv
<1>4. p[1] = First
  BY Request, EntryPath DEF IInv, Entry
<1>5. ASSUME NEW i \in 1 .. Len(p), NEW j \in 1 .. Len(p), p[i] = p[j] PROVE i = j
  <2>1. Last(Upto(p, i)) = Last(Upto(p, j)) /\ Len(Upto(p, i)) = i /\ Len(Upto(p, j)) = j
    BY <1>1, <1>5, Way
  <2>2. Upto(p, i) = Upto(p, j)
    BY <1>3, <2>1 DEF IInv, AskedOnce
  <2> QED BY <2>1, <2>2
<1>6. ASSUME NEW i \in 1 .. Len(p) - 1
      PROVE  /\ p[i + 1] \in Neighbors(p[i])
             /\ Measured(Upto(p, i + 1))
             /\ ~TooFar(Upto(p, i + 1))
  <2> DEFINE q == Upto(p, i + 1)
  <2>1. i \in 1 .. Len(p) /\ i + 1 \in 1 .. Len(p) /\ i + 1 > 1 /\ (i + 1) - 1 = i
    BY <1>2
  <2>2. /\ q \in called /\ Len(q) = i + 1 /\ Front(q) = Upto(p, i) /\ Last(q) = p[i + 1]
        /\ Upto(p, i) \in Paths /\ Upto(p, i) # Market /\ Last(Upto(p, i)) = p[i]
    BY <1>1, <1>3, <2>1, Way
  <2> HIDE DEF q
  <2>3. q # Entry
    BY <2>1, <2>2, EntryPath
  <2>4. q \in FollowUps(Upto(p, i))
    BY <2>2, <2>3, Request DEF IInv
  <2>5. p[i + 1] \in Neighbors(p[i])
    BY <2>2, <2>4, Followed
  <2>6. Measured(q) /\ ~TooFar(q)
    BY <2>4 DEF FollowUps
  <2> QED BY <2>5, <2>6 DEF q
<1>7. Links(p)
  BY <1>6 DEF Links
<1> QED BY <1>1, <1>4, <1>5, <1>7, RouteIs

(* Among numbers up to n there is a least one: of the intervals that end   *)
(* in them one contains no other.                                          *)
LEMMA LeastIn ==
  ASSUME NEW n \in Nat, NEW D \in SUBSET (1 .. n), D # {}
  PROVE  \E m \in D : \A k \in D : m <= k
<1>1. IsFiniteSet(1 .. n)
  BY FS_Interval
<1>2. IsWellFoundedOn(StrictSubsetOrdering(1 .. n), SUBSET (1 .. n))
  BY <1>1, FS_StrictSubsetOrderingWellFounded, FS_FiniteSubsetsOfFinite
<1> DEFINE W == {1 .. k : k \in D}
<1>3. W \in SUBSET (SUBSET (1 .. n)) /\ W # {}
  <2>1. \A k \in D : 1 .. k \in SUBSET (1 .. n)
    <3> SUFFICES ASSUME NEW k \in D, NEW i \in 1 .. k PROVE i \in 1 .. n
      OBVIOUS
    <3>1. k \in 1 .. n
      OBVIOUS
    <3> QED BY <3>1
  <2> QED BY <2>1
<1> HIDE DEF W
<1>4. PICK T \in W : \A U \in W : ~ (<<U, T>> \in StrictSubsetOrdering(1 .. n))
  BY <1>2, <1>3, WFMin
<1>5. PICK m \in D : T = 1 .. m
  BY <1>4 DEF W
<1>6. ASSUME NEW k \in D, k < m PROVE FALSE
  <2>1. 1 .. k \in W /\ 1 .. k \subseteq T /\ 1 .. k # T
    BY <1>5, <1>6 DEF W
  <2>2. <<1 .. k, T>> \in StrictSubsetOrdering(1 .. n)
    BY <1>3, <2>1 DEF StrictSubsetOrdering
  <2> QED BY <1>4, <2>1, <2>2
<1> QED BY <1>6

(* What a route leads to is asked, one node after the other: what is on    *)
(* the way was asked and has answered, after its own follow-ups were made. *)
LEMMA RouteAsked ==
  ASSUME IInv, SpreadInv, Over, faults = {}, NEW p \in Routes
  PROVE  p \in called
<1>1. /\ p \in Paths /\ p # Market /\ p[1] = First /\ Links(p)
      /\ \A i, j \in 1 .. Len(p) : p[i] = p[j] => i = j
  BY RouteIs
<1>2. Len(p) \in Nat /\ Len(p) > 0 /\ Upto(p, Len(p)) = p
  BY <1>1, Shorter
<1>3. Entry \in called
  BY DEF SpreadInv, Over
<1>4. ASSUME NEW r \in called PROVE r \in ended /\ FollowUps(r) \subseteq called
  <2>1. r \in Paths /\ r # Market /\ r[1] = First
    BY Request, EntryPath DEF IInv, TypeOK, Entry
  <2>2. 1 \in 1 .. Len(r) /\ Upto(r, 1) = Entry
    BY <2>1, Shorter, Way
  <2>3. r \in ended
    BY <2>2 DEF IInv, ChainInv, Broken, Over
  <2>4. ASSUME NEW q \in FollowUps(r) PROVE q \in called
    <3>1. q \in todo \cup called
      BY <2>4 DEF SpreadInv
    <3>2. q # Entry /\ Front(q) = r
      BY <2>1, Followed
    <3> QED BY <2>3, <3>1, <3>2 DEF IInv, RequestInv
  <2> QED BY <2>3, <2>4
<1>5. ASSUME NEW k \in 1 .. Len(p) - 1, Upto(p, k) \in called PROVE Upto(p, k + 1) \in called
  <2> DEFINE q == Upto(p, k + 1)
             r == Upto(p, k)
  <2>1. k \in 1 .. Len(p) /\ k + 1 \in 1 .. Len(p) /\ (k + 1) - 1 = k
    BY <1>2
  <2>2. /\ q \in Paths /\ q # Market /\ Front(q) = r /\ Last(q) = p[k + 1] /\ p[k + 1] \in Nodes
        /\ r \in Paths /\ r # Market /\ Last(r) = p[k]
    BY <1>1, <2>1, Way
  <2>3. q = Append(r, p[k + 1])
    BY <2>2, Shorter
  <2>4. Sender(r) # p[k + 1]
    <3>1. CASE k = 1
      <4>1. Sender(r) = p[1]
        BY <1>1, <2>1, <3>1, Way
      <4> QED BY <1>1, <1>2, <2>1, <3>1, <4>1
    <3>2. CASE k > 1
      <4>1. Sender(r) = p[k - 1] /\ k - 1 \in 1 .. Len(p) /\ k - 1 # k + 1
        BY <1>1, <1>2, <2>1, <3>2, Way
      <4> QED BY <1>1, <2>1, <4>1
    <3> QED BY <3>1, <3>2
  <2>5. p[k + 1] \in Neighbors(p[k]) /\ Measured(q) /\ ~TooFar(q)
    BY <1>1 DEF Links
  <2>6. q \in FollowUps(r)
    BY <2>2, <2>3, <2>4, <2>5 DEF FollowUps
  <2> QED BY <1>4, <1>5, <2>6
<1> DEFINE D == {k \in 1 .. Len(p) : Upto(p, k) \notin called}
<1>6. D = {}
  <2> SUFFICES ASSUME D # {} PROVE FALSE
    OBVIOUS
  <2>1. PICK m \in D : \A k \in D : m <= k
    BY <1>2, LeastIn
  <2>2. m # 1
    BY <1>1, <1>3, <2>1, Way
  <2>3. m \in 1 .. Len(p) /\ m - 1 \in 1 .. Len(p) - 1 /\ (m - 1) + 1 = m /\ m - 1 \in 1 .. Len(p)
    BY <1>2, <2>1, <2>2
  <2>4. m - 1 \notin D
    BY <2>1, <2>3
  <2>5. Upto(p, m - 1) \in called
    BY <2>3, <2>4
  <2>6. Upto(p, m) \in called
    BY <1>5, <2>3, <2>5
  <2> QED BY <2>1, <2>6
<1> QED BY <1>2, <1>6

(* When nothing fails in a tree, the nodes asked are those that some route *)
(* within the latency bound leads to: follow_up_to_neighbors asks no       *)
(* others, and leaves out none although every node decides alone.          *)
THEOREM ReachableNodesAsked == Spec => []EveryReachableAsked
<1>1. Init => SpreadInv
  BY DEF Init, SpreadInv
<1>2. IInv /\ SpreadInv /\ [Next]_vars => SpreadInv'
  BY SpreadStep
<1>3. IInv /\ SpreadInv => EveryReachableAsked
  BY CalledOnRoutes, RouteAsked DEF EveryReachableAsked
<1> QED BY <1>1, <1>2, <1>3, RelayInvariance, PTL DEF Spec

-----------------------------------------------------------------------------
(* Where the hypothesis IsTree comes from: parents without a circle.       *)
Closed(S) == \A n \in S : Parent[n] \in S \cup {NoNode}

(* A node, its parent, the parent of that, ...                             *)
Ancestry(n) == {m \in Nodes : \A S \in SUBSET Nodes : n \in S /\ Closed(S) => m \in S}

LEMMA AncestryClosed ==
  ASSUME NEW n \in Nodes
  PROVE  /\ n \in Ancestry(n) /\ Ancestry(n) \in SUBSET Nodes /\ Closed(Ancestry(n))
         /\ \A S \in SUBSET Nodes : n \in S /\ Closed(S) => Ancestry(n) \subseteq S
<1>1. n \in Ancestry(n) /\ Ancestry(n) \in SUBSET Nodes
  BY DEF Ancestry
<1>2. \A S \in SUBSET Nodes : n \in S /\ Closed(S) => Ancestry(n) \subseteq S
  BY DEF Ancestry
<1>3. ASSUME NEW a \in Ancestry(n), Parent[a] # NoNode PROVE Parent[a] \in Ancestry(n)
  <2>1. Parent[a] \in Nodes /\ a \in Nodes
    BY <1>3, OverlayAssumption DEF Ancestry
  <2> SUFFICES ASSUME NEW S \in SUBSET Nodes, n \in S, Closed(S) PROVE Parent[a] \in S
    BY <2>1 DEF Ancestry
  <2>2. a \in S
    BY <1>2
  <2> QED BY <1>3, <2>2 DEF Closed
<1> QED BY <1>1, <1>2, <1>3 DEF Closed

(* Whoever is above a node and not the node itself is above its parent.    *)
LEMMA AboveParent ==
  ASSUME NEW n \in Nodes, NEW a \in Ancestry(n), a # n
  PROVE  Parent[n] \in Nodes /\ a \in Ancestry(Parent[n])
<1>1. Parent[n] \in Nodes
  <2> SUFFICES ASSUME Parent[n] = NoNode PROVE FALSE
    BY OverlayAssumption
  <2>1. {n} \in SUBSET Nodes /\ Closed({n})
    BY DEF Closed
  <2> QED BY <2>1, AncestryClosed
<1> DEFINE S == {n} \cup Ancestry(Parent[n])
<1>2. S \in SUBSET Nodes /\ n \in S
  BY <1>1, AncestryClosed
<1>3. Closed(S)
  BY <1>1, AncestryClosed DEF Closed
<1>4. a \in S
  BY <1>2, <1>3, AncestryClosed
<1> QED BY <1>1, <1>4

(* Of two nodes above a third, one is above the other.                     *)
LEMMA OneAbove ==
  ASSUME NEW f \in Nodes, NEW a \in Ancestry(f), NEW b \in Ancestry(f)
  PROVE  a \in Ancestry(b) \/ b \in Ancestry(a)
<1> DEFINE S == {c \in Nodes : a \in Ancestry(c) \/ c \in Ancestry(a)}
<1>1. a \in Nodes /\ f \in S /\ S \in SUBSET Nodes
  BY AncestryClosed
<1>2. ASSUME NEW c \in S, Parent[c] # NoNode PROVE Parent[c] \in S
  <2>1. Parent[c] \in Nodes /\ c \in Nodes
    BY <1>2, OverlayAssumption
  <2>2. CASE c \in Ancestry(a)
    BY <1>1, <1>2, <2>1, <2>2, AncestryClosed DEF Closed
  <2>3. CASE a \in Ancestry(c) /\ a # c
    BY <2>1, <2>3, AboveParent
  <2>4. a \in Ancestry(a)
    BY <1>1, AncestryClosed
  <2> QED BY <2>2, <2>3, <2>4
<1>3. Closed(S)
  BY <1>2 DEF Closed
<1>4. b \in S
  BY <1>1, <1>3, AncestryClosed
<1> QED BY <1>4

LEMMA NoCircle ==
  ASSUME Rooted, NEW a \in Nodes, Parent[a] \in Nodes
  PROVE  a \notin Ancestry(Parent[a])
<1> SUFFICES ASSUME a \in Ancestry(Parent[a]) PROVE FALSE
  OBVIOUS
<1> DEFINE C == {c \in Ancestry(Parent[a]) : a \in Ancestry(c)}
<1>1. Parent[a] \in C /\ C \in SUBSET Nodes
  BY AncestryClosed
<1>2. ASSUME NEW c \in C PROVE Parent[c] \in C
  <2>1. CASE c = a
    BY <1>1, <2>1
  <2>2. CASE c # a
    <3>1. c \in Nodes
      BY <1>1
    <3>2. Parent[c] \in Nodes /\ a \in Ancestry(Parent[c])
      BY <1>2, <2>2, <3>1, AboveParent
    <3>3. Parent[c] \in Ancestry(Parent[a])
      BY <1>2, <3>2, AncestryClosed, OverlayAssumption DEF Closed
    <3> QED BY <3>2, <3>3
  <2> QED BY <2>1, <2>2
<1>3. C # {}
  BY <1>1
<1> QED BY <1>1, <1>2, <1>3 DEF Rooted

(* Parents without a circle make a tree seen from any node: those above it *)
(* have their neighbour towards it below them, one each, all others have   *)
(* theirs above.  So the theorems on AskedOnce and EveryReachableAsked     *)
(* speak of every overlay that registrations one at a time leave.          *)
THEOREM RootedIsTree == Rooted => IsTree
<1> SUFFICES ASSUME Rooted PROVE IsTree
  OBVIOUS
<1> DEFINE A == Ancestry(First)
           Child(m) == {c \in A : Parent[c] = m}
           up == [m \in Nodes |-> IF m = First THEN NoNode
                                  ELSE IF m \notin A THEN Parent[m]
                                  ELSE IF Child(m) = {} THEN NoNode ELSE CHOOSE c \in Child(m) : TRUE]
<1>1. First \in Nodes /\ First \in A /\ A \in SUBSET Nodes /\ Closed(A)
  BY AncestryClosed, OverlayAssumption
<1>2. up \in [Nodes -> Nodes \cup {NoNode}]
  BY <1>1, OverlayAssumption
<1>3. ASSUME NEW n \in A, Parent[n] \in Nodes PROVE up[Parent[n]] = n
  <2> DEFINE m == Parent[n]
  <2>1. m \in A
    BY <1>1, <1>3, OverlayAssumption DEF Closed
  <2>2. m # First
    BY <1>1, <1>3, NoCircle
  <2>3. ASSUME NEW c \in A, Parent[c] = m PROVE c = n
    <3> SUFFICES ASSUME c # n PROVE FALSE
      OBVIOUS
    <3>1. c \in Nodes /\ n \in Nodes
      BY <1>1
    <3>2. c \notin Ancestry(n)
      BY <1>3, <2>3, <3>1, AboveParent, NoCircle
    <3>3. n \notin Ancestry(c)
      BY <1>3, <2>3, <3>1, AboveParent, NoCircle
    <3> QED BY <1>1, <3>2, <3>3, OneAbove
  <2>4. Child(m) = {n}
    BY <2>3
  <2> QED BY <1>3, <2>1, <2>2, <2>4
<1>4. ASSUME NEW n \in Nodes, Parent[n] \in Nodes
      PROVE  Parent[n] # n /\ (up[n] = Parent[n] \/ up[Parent[n]] = n)
  <2>1. Parent[n] # n
    BY <1>4, NoCircle, AncestryClosed
  <2>2. CASE n \in A
    BY <1>3, <1>4, <2>1, <2>2
  <2>3. CASE n \notin A
    <3>1. n # First
      BY <1>1, <2>3
    <3>2. up[n] = Parent[n]
      BY <2>3, <3>1
    <3> QED BY <2>1, <3>2
  <2> QED BY <2>2, <2>3
<1> HIDE DEF up
<1>5. ASSUME NEW n \in Nodes, NEW m \in Neighbors(n)
      PROVE  m # n /\ (up[m] = n \/ up[n] = m)
  <2>1. CASE m = Parent[n] /\ m # NoNode
    BY <1>4, <2>1, OverlayAssumption
  <2>2. CASE m \in Children[n]
    <3>1. m \in Nodes /\ Parent[m] = n
      BY <2>2, OverlayAssumption DEF Rooted
    <3> QED BY <1>4, <3>1
  <2> QED BY <2>1, <2>2 DEF Neighbors
<1>6. up[First] = NoNode
  BY <1>1 DEF up
<1> QED BY <1>2, <1>5, <1>6 DEF IsTree, Towards
=============================================================================
