-------------------------- MODULE LimitedRelayProofs --------------------------
(***************************************************************************)
(* Proofs about LimitedRelay, for every overlay, every selection of builds *)
(* and any number of proposals wished: the relay implements CallForBids,   *)
(* and, of two proposals wished, nobody gets more than asked for.          *)
(***************************************************************************)
EXTENDS LimitedRelay, SequenceTheorems, FiniteSetTheorems, TLAPS

(* A path that is one step longer. *)
LEMMA OneStepOn ==
  ASSUME NEW p \in Paths, NEW n \in Nodes
  PROVE  /\ Append(p, n) \in Paths /\ Len(Append(p, n)) = Len(p) + 1
         /\ Front(Append(p, n)) = p /\ Last(Append(p, n)) = n
  BY DEF Paths, Front, Last

LEMMA EntryPath ==
  /\ Entry \in Paths /\ Len(Entry) = 1 /\ Front(Entry) = Market
  /\ Market \in Paths /\ Len(Market) = 0 /\ Market # Entry
<1>1. Market \in Paths /\ Len(Market) = 0 /\ Entry = Append(Market, First)
  BY OverlayAssumption DEF Market, Paths, Entry
<1>2. Entry \in Paths /\ Len(Entry) = Len(Market) + 1 /\ Front(Entry) = Market
  BY <1>1, OverlayAssumption, OneStepOn
<1> QED BY <1>1, <1>2

(* Whatever a node asks is one step further.                               *)
Onward(p, Q) == \A q \in Q : q \in Paths /\ Front(q) = p /\ Len(q) > 1 /\ q # Entry

LEMMA AskedAreOnward ==
  ASSUME NEW p \in Paths, Len(p) > 0
  PROVE  /\ Onward(p, FollowUps(p))
         /\ \A found : \A asked \in Candidates(p, found) : Onward(p, asked)
<1>1. Len(p) \in Nat /\ Last(p) \in Nodes
  BY DEF Paths, Last
<1>2. ASSUME NEW n \in Nodes PROVE Onward(p, {Append(p, n)})
  <2>1. Append(p, n) \in Paths /\ Front(Append(p, n)) = p /\ Len(Append(p, n)) = Len(p) + 1
    BY OneStepOn
  <2>2. Len(Append(p, n)) > 1
    BY <1>1, <2>1
  <2>3. Append(p, n) # Entry
    BY <2>2, EntryPath
  <2> QED BY <2>1, <2>2, <2>3 DEF Onward
<1>3. Neighbors(Last(p)) \subseteq Nodes
  BY <1>1, OverlayAssumption DEF Neighbors
<1>4. FollowUps(p) \subseteq {Append(p, n) : n \in Neighbors(Last(p))}
  BY DEF FollowUps
<1>5. Onward(p, FollowUps(p))
  BY <1>2, <1>3, <1>4 DEF Onward
<1>6. ASSUME NEW found, NEW asked \in Candidates(p, found) PROVE Onward(p, asked)
  <2>1. CASE build = "edge_ward"
    <3>1. asked = {Append(p, n) : n \in {Parent[Last(p)]} \ {NoNode}}
      BY <1>6, <2>1 DEF Candidates, Sampled
    <3>2. {Parent[Last(p)]} \ {NoNode} \subseteq Nodes
      BY <1>1, OverlayAssumption
    <3> QED BY <1>2, <3>1, <3>2 DEF Onward
  <2>2. CASE build # "edge_ward"
    <3>1. asked \subseteq FollowUps(p)
      BY <1>6, <2>2 DEF Candidates
    <3> QED BY <1>5, <3>1 DEF Onward
  <2> QED BY <2>1, <2>2
<1> QED BY <1>5, <1>6

(* What the invariant says of a single request. *)
LEMMA Request ==
  ASSUME TypeOK, RequestInv, NEW q \in todo \cup called
  PROVE  /\ q \in Paths /\ Len(q) > 0 /\ q # Market
         /\ q = Entry <=> Front(q) = Market
         /\ q # Entry => Front(q) \in called
<1>1. \A s \in todo \cup called : s \in Paths /\ (s = Entry \/ Len(s) > 1)
  BY DEF TypeOK, RequestInv
<1>2. q \in Paths /\ Len(q) > 0 /\ q # Market
  BY <1>1, EntryPath DEF Paths
<1>3. ASSUME q # Entry PROVE Front(q) \in called /\ Front(q) # Market
  <2>1. Front(q) \in called
    BY <1>3 DEF RequestInv
  <2>2. Len(Front(q)) > 0
    BY <1>1, <2>1, EntryPath DEF Paths
  <2> QED BY <2>1, <2>2, EntryPath
<1> QED BY <1>2, <1>3, EntryPath

LEMMA Steps ==
  ASSUME IInv, [Next]_vars
  PROVE  \/ \E q \in todo : Ask(q) \/ Unasked(q)
         \/ \E p \in called : \/ BidMade(p) \/ NoBid(p) \/ BidPanics(p) \/ BidLast(p)
                              \/ Answer(p) \/ Take(p) \/ Lose(p) \/ Cancel(p)
         \/ UNCHANGED vars
  BY DEF Next, Step, IInv, TypeOK, Ask, Unasked, BidMade, NoBid, BidPanics, BidLast, Unanswered,
         Answer, Take, Lose, Cancel

(* An error of q ends q, and in mincpurandom the node that made it, with   *)
(* all that it still waits for.                                            *)
LEMMA ErrsEffect ==
  ASSUME TypeOK, RequestInv, NEW q \in todo \cup waiting, Errs(q)
  PROVE  /\ todo' \subseteq todo /\ waiting' \subseteq waiting /\ q \notin todo' \cup waiting'
         /\ faults \subseteq faults' /\ faults' \subseteq Paths
         /\ q = Entry => Entry \in faults'
         /\ q # Entry => /\ Entry \in todo' \cup waiting' <=> Entry \in todo \cup waiting
                         /\ Entry \in faults' <=> Entry \in faults
         /\ \/ spoiled' = spoiled /\ ended' = ended
            \/ /\ Sampled /\ q # Entry /\ Front(q) \in called
               /\ spoiled' = spoiled \cup {Front(q)} /\ ended' = ended \cup {Front(q)}
               /\ \A s \in todo' \cup waiting' : Front(s) # Front(q)
<1>1. todo \cup waiting \subseteq todo \cup called /\ todo \cup waiting \subseteq Paths
      /\ faults \subseteq Paths
  BY DEF TypeOK
<1>2. q \in Paths /\ (q = Entry <=> Front(q) = Market) /\ (q # Entry => Front(q) \in called)
  BY <1>1, Request
<1>3. CASE ~(Sampled /\ Front(q) # Market)
  <2>1. /\ todo' = todo \ {q} /\ waiting' = waiting \ {q} /\ faults' = faults \cup {q}
        /\ spoiled' = spoiled /\ ended' = ended
    BY <1>3 DEF Errs
  <2> QED BY <1>1, <1>2, <2>1
<1>4. CASE Sampled /\ Front(q) # Market
  <2>1. /\ todo' = todo \ Below(Front(q)) /\ waiting' = waiting \ Below(Front(q))
        /\ faults' = faults \cup Below(Front(q))
        /\ spoiled' = spoiled \cup {Front(q)} /\ ended' = ended \cup {Front(q)}
    BY <1>4 DEF Errs
  <2>2. q \in Below(Front(q)) /\ Below(Front(q)) \subseteq Paths /\ Entry \notin Below(Front(q))
    BY <1>1, <1>4, EntryPath DEF Below
  <2>3. \A s \in todo' \cup waiting' : Front(s) # Front(q)
    BY <2>1 DEF Below
  <2> QED BY <1>1, <1>2, <1>4, <2>1, <2>2, <2>3
<1> QED BY <1>3, <1>4

-----------------------------------------------------------------------------
(* What a request asks for.                                                *)
LEMMA FewNeighbors ==
  ASSUME NEW n \in Nodes
  PROVE  Neighbors(n) \subseteq Nodes /\ IsFiniteSet(Neighbors(n))
<1>1. Neighbors(n) \subseteq Nodes
  BY OverlayAssumption DEF Neighbors
<1>2. IsFiniteSet(Neighbors(n))
  BY <1>1, OverlayAssumption, FS_Subset
<1> QED BY <1>1, <1>2

LEMMA ShareIsPositive ==
  ASSUME NEW k \in Int, NEW n \in Nat, n > 0
  PROVE  Share(k, n) \in Nat \ {0}
<1>1. CASE k <= n
  BY <1>1 DEF Share
<1>2. CASE ~(k <= n)
  <2> DEFINE m == k + n - 1  d == m \div n
  <2>1. m \in Nat /\ m >= n
    BY <1>2
  <2>2. d \in Int
    BY <2>1
  <2>3. m = n * d + (m % n) /\ m % n \in 0..(n - 1)
    BY <2>1
  <2> HIDE DEF d, m
  <2>4. n * d >= 1
    BY <2>1, <2>2, <2>3
  <2>5. d >= 1
    BY <2>2, <2>4
  <2>6. Share(k, n) = d
    BY <1>2 DEF Share, d, m
  <2> QED BY <2>2, <2>5, <2>6
<1> QED BY <1>1, <1>2

LEMMA QuotaKept ==
  ASSUME QuotaOK, quota' = quota, build' = build,
         Sampled => todo' \cup called' \subseteq todo \cup called
  PROVE  QuotaOK'
BY DEF QuotaOK, Sampled

(* What asking around changes: each of those asked gets a share.           *)
LEMMA AskAroundEffect ==
  ASSUME TypeOK, RequestInv, NEW p \in called, NEW found \in Nat, AskAround(p, found), Sampled
  PROVE  \E asked \in Candidates(p, found) :
           /\ todo' = todo \cup asked /\ asked \subseteq FollowUps(p)
           /\ quota' \in [DOMAIN quota \cup asked -> Nat \ {0}]
           /\ \A q \in asked : quota'[q] = Share(Missing(p, found), Cardinality(Neighbors(Last(p))))
           /\ \A q \in DOMAIN quota \ asked : quota'[q] = quota[q]
<1> DEFINE n == Cardinality(Neighbors(Last(p)))
           k == Missing(p, found)
<1>1. PICK asked \in Candidates(p, found) :
        /\ todo' = todo \cup asked
        /\ quota' = [q \in DOMAIN quota \cup asked |-> IF q \in asked THEN Share(k, n) ELSE quota[q]]
  BY DEF AskAround
<1>2. asked \subseteq FollowUps(p)
  BY <1>1 DEF Candidates, Sampled
<1>3. quota \in [DOMAIN quota -> Nat \ {0}] /\ p \in DOMAIN quota
  BY DEF TypeOK, QuotaOK
<1>4. k \in Int
  BY <1>3 DEF Missing, Wanted
<1>5. n \in Nat /\ (FollowUps(p) # {} => n > 0)
  <2>1. Last(p) \in Nodes
    BY Request DEF Last, Paths
  <2>2. FollowUps(p) # {} => Neighbors(Last(p)) # {}
    BY DEF FollowUps
  <2> QED BY <2>1, <2>2, FewNeighbors, FS_CardinalityType, FS_EmptySet
<1>6. asked # {} => Share(k, n) \in Nat \ {0}
  BY <1>2, <1>4, <1>5, ShareIsPositive
<1> HIDE DEF n, k
<1>7. quota' \in [DOMAIN quota \cup asked -> Nat \ {0}]
  BY <1>1, <1>3, <1>6
<1> QED BY <1>1, <1>2, <1>7 DEF n, k

LEMMA TypeStep == IInv /\ [Next]_vars => TypeOK'
<1> SUFFICES ASSUME IInv, [Next]_vars PROVE TypeOK'
  OBVIOUS
<1>0. TypeOK /\ RequestInv
  BY DEF IInv
<1>1. ASSUME NEW q \in todo, Ask(q) PROVE TypeOK'
  <2>1. q \in Paths /\ Len(q) > 0
    BY <1>0, Request
  <2>2. FollowUps(q) \subseteq Paths
    BY <2>1, AskedAreOnward DEF Onward
  <2>3. QuotaOK'
    BY <1>0, <1>1, QuotaKept DEF Ask, Sampled, TypeOK
  <2> QED BY <1>0, <1>1, <2>1, <2>2, <2>3 DEF Ask, TypeOK
<1>2. ASSUME NEW q \in todo \cup waiting, Errs(q),
             UNCHANGED <<build, quota, called, bidding, declined, bids, recorded>>
      PROVE  TypeOK'
  <2>1. /\ todo' \subseteq todo /\ waiting' \subseteq waiting /\ faults' \subseteq Paths
        /\ \/ spoiled' = spoiled /\ ended' = ended
           \/ \E p \in called : spoiled' = spoiled \cup {p} /\ ended' = ended \cup {p}
    BY <1>0, <1>2, ErrsEffect
  <2>2. QuotaOK'
    BY <1>0, <1>2, <2>1, QuotaKept DEF TypeOK
  <2> QED BY <1>0, <1>2, <2>1, <2>2 DEF TypeOK
<1>3. ASSUME NEW p \in called, BidMade(p) \/ NoBid(p) PROVE TypeOK'
  <2>1. p \in Paths /\ Len(p) > 0
    BY <1>0, Request
  <2>2. todo' = todo \/ \E found : \E asked \in Candidates(p, found) : todo' = todo \cup asked
    BY <1>3 DEF BidMade, NoBid, AskAround
  <2>3. todo' \subseteq Paths
    BY <1>0, <2>1, <2>2, AskedAreOnward DEF Onward, TypeOK
  <2>4. QuotaOK'
    <3>1. build' = build /\ called' = called
      BY <1>3 DEF BidMade, NoBid
    <3>2. CASE Sampled
      <4>1. PICK found \in Nat : AskAround(p, found)
        BY <1>3, <3>2 DEF BidMade, NoBid, Sampled
      <4> QED BY <1>0, <3>1, <3>2, <4>1, AskAroundEffect DEF QuotaOK, Sampled, TypeOK
    <3>3. CASE ~Sampled
      <4>1. quota' = quota
        BY <1>3, <3>3 DEF BidMade, NoBid, AskAround
      <4> QED BY <1>0, <3>1, <3>3, <4>1, QuotaKept DEF TypeOK
    <3> QED BY <3>2, <3>3
  <2>5. CASE BidMade(p)
    BY <1>0, <2>3, <2>4, <2>5 DEF BidMade, TypeOK
  <2>6. CASE NoBid(p)
    BY <1>0, <2>3, <2>4, <2>6 DEF NoBid, TypeOK
  <2> QED BY <1>3, <2>5, <2>6
<1>4. ASSUME NEW p \in called, BidPanics(p) \/ BidLast(p) \/ Answer(p) \/ Cancel(p) PROVE TypeOK'
  <2>0. QuotaOK'
    BY <1>0, <1>4, QuotaKept DEF BidPanics, BidLast, Answer, Cancel, TypeOK
  <2>1. CASE BidPanics(p)
    BY <1>0, <2>0, <2>1 DEF BidPanics, TypeOK
  <2>2. CASE BidLast(p)
    BY <1>0, <1>4, <2>0, <2>2 DEF BidLast, TypeOK
  <2>3. CASE Answer(p)
    BY <1>0, <1>4, <2>0, <2>3 DEF Answer, TypeOK
  <2>4. CASE Cancel(p)
    BY <1>0, <1>4, <2>0, <2>4 DEF Cancel, Below, TypeOK
  <2> QED BY <1>4, <2>1, <2>2, <2>3, <2>4
<1>5. ASSUME NEW q \in called, Take(q) PROVE TypeOK'
  <2>1. Front(q) \in {Market} \cup called
    BY <1>0, Request
  <2>2. Held(q) \subseteq recorded
    BY <1>0 DEF Held, TypeOK
  <2>3. bids' \subseteq ({Market} \cup called) \X recorded
    BY <1>0, <1>5, <2>1, <2>2 DEF Take, TypeOK
  <2>4. QuotaOK'
    BY <1>0, <1>5, QuotaKept DEF Take, TypeOK
  <2> QED BY <1>0, <1>5, <2>3, <2>4 DEF Take, TypeOK
<1>6. CASE UNCHANGED vars
  <2>1. QuotaOK'
    BY <1>0, <1>6, QuotaKept DEF vars, TypeOK
  <2> QED BY <1>0, <1>6, <2>1 DEF vars, TypeOK
<1> QED BY <1>1, <1>2, <1>3, <1>4, <1>5, <1>6, Steps DEF Unasked, Lose

(* Requests are made once, by nodes that have not answered.                *)
LEMMA RequestStep == IInv /\ [Next]_vars => RequestInv'
<1> SUFFICES ASSUME IInv, [Next]_vars PROVE RequestInv'
  OBVIOUS
<1>0. TypeOK /\ RequestInv
  BY DEF IInv
<1>a. \A q \in todo \cup called : q = Entry \/ (Len(q) > 1 /\ Front(q) \in called)
  BY <1>0 DEF RequestInv
<1>b. /\ todo \cap called = {} /\ bidding \cap ended = {}
      /\ bidding \cup ended \cup waiting \subseteq called
  BY <1>0 DEF RequestInv, TypeOK
<1>c. \A q \in todo \cup waiting : q = Entry \/ Front(q) \notin ended \cup bidding
  BY <1>0 DEF RequestInv
<1>d. build # "edge_furthest" => \A q \in called : q = Entry \/ Front(q) \notin bidding
  BY <1>0 DEF RequestInv
<1>1. ASSUME NEW q \in todo, Ask(q) PROVE RequestInv'
  <2>1. /\ q \in Paths /\ Len(q) > 0 /\ q \notin called
        /\ \A s \in todo \cup called : Front(s) # q
    <3>1. Front(Entry) # q
      BY <1>0, Request, EntryPath
    <3> QED BY <1>0, <1>a, <1>b, <3>1, Request
  <2>2. \A s \in FollowUps(q) : Front(s) = q /\ Len(s) > 1
    BY <2>1, AskedAreOnward DEF Onward
  <2>3. called' = called \cup {q} /\ waiting' = waiting \cup {q} /\ ended' = ended /\ build' = build
    BY <1>1 DEF Ask
  <2>4. CASE build = "edge_furthest"
    <3>1. todo' = (todo \ {q}) \cup FollowUps(q) /\ bidding' = bidding
      BY <1>1, <2>4 DEF Ask
    <3>2. \A s \in todo' \cup called' : s = Entry \/ (Len(s) > 1 /\ Front(s) \in called')
      BY <1>a, <2>2, <2>3, <3>1
    <3>3. todo' \cap called' = {} /\ bidding' \cap ended' = {}
      BY <1>b, <2>1, <2>2, <2>3, <3>1
    <3>4. \A s \in todo' \cup waiting' : s = Entry \/ Front(s) \notin ended' \cup bidding'
      BY <1>b, <1>c, <2>1, <2>2, <2>3, <3>1
    <3> QED BY <2>3, <2>4, <3>2, <3>3, <3>4 DEF RequestInv
  <2>5. CASE build # "edge_furthest"
    <3>1. todo' = todo \ {q} /\ bidding' = bidding \cup {q}
      BY <1>1, <2>5 DEF Ask
    <3>2. \A s \in todo' \cup called' : s = Entry \/ (Len(s) > 1 /\ Front(s) \in called')
      BY <1>a, <2>3, <3>1
    <3>3. todo' \cap called' = {} /\ bidding' \cap ended' = {}
      BY <1>b, <2>1, <2>3, <3>1
    <3>4. \A s \in todo' \cup waiting' : s = Entry \/ Front(s) \notin ended' \cup bidding'
      BY <1>b, <1>c, <2>1, <2>3, <3>1
    <3>5. \A s \in called' : s = Entry \/ Front(s) \notin bidding'
      BY <1>c, <1>d, <2>1, <2>3, <2>5, <3>1
    <3> QED BY <3>2, <3>3, <3>4, <3>5 DEF RequestInv
  <2> QED BY <2>4, <2>5
<1>2. ASSUME NEW q \in todo \cup waiting, Errs(q),
             UNCHANGED <<build, called, bidding, declined, bids, recorded>>
      PROVE  RequestInv'
  <2>1. /\ todo' \subseteq todo /\ waiting' \subseteq waiting
        /\ \/ ended' = ended
           \/ /\ q # Entry /\ ended' = ended \cup {Front(q)}
              /\ \A s \in todo' \cup waiting' : Front(s) # Front(q)
    BY <1>0, <1>2, ErrsEffect
  <2>2. q # Entry => Front(q) \notin bidding
    BY <1>c
  <2> QED BY <1>2, <1>a, <1>b, <1>c, <1>d, <2>1, <2>2 DEF RequestInv
<1>3. ASSUME NEW p \in called, BidMade(p) \/ NoBid(p) PROVE RequestInv'
  <2>1. p \in Paths /\ Len(p) > 0
    BY <1>0, Request
  <2>2. /\ p \in bidding /\ bidding' = bidding \ {p}
        /\ UNCHANGED <<build, called, waiting, ended>>
    BY <1>3 DEF BidMade, NoBid, AskAround
  <2>3. \/ todo' = todo
        \/ /\ build # "edge_furthest"
           /\ \E found : \E asked \in Candidates(p, found) : todo' = todo \cup asked
    BY <1>3 DEF BidMade, NoBid, AskAround, Sampled
  <2>4. PICK asked : todo' = todo \cup asked /\ Onward(p, asked)
                     /\ (asked # {} => build # "edge_furthest")
    <3>1. CASE todo' = todo
      BY <3>1 DEF Onward
    <3>2. CASE todo' # todo
      BY <2>1, <2>3, <3>2, AskedAreOnward
    <3> QED BY <3>1, <3>2
  <2>5. \A s \in todo' \cup called' : s = Entry \/ (Len(s) > 1 /\ Front(s) \in called')
    BY <1>a, <2>2, <2>4 DEF Onward
  <2>6. todo' \cap called' = {} /\ bidding' \cap ended' = {}
    BY <1>b, <1>d, <2>2, <2>4 DEF Onward
  <2>7. \A s \in todo' \cup waiting' : s = Entry \/ Front(s) \notin ended' \cup bidding'
    BY <1>b, <1>c, <2>2, <2>4 DEF Onward
  <2> QED BY <1>d, <2>2, <2>5, <2>6, <2>7 DEF RequestInv
<1>4. ASSUME NEW p \in called, BidPanics(p) PROVE RequestInv'
  <2>1. /\ p \in bidding /\ bidding' = bidding \ {p} /\ ended' = ended \cup {p}
        /\ UNCHANGED <<build, todo, called, waiting>>
    BY <1>4 DEF BidPanics
  <2> QED BY <1>a, <1>b, <1>c, <1>d, <2>1 DEF RequestInv
<1>5. ASSUME NEW p \in called, BidLast(p) PROVE RequestInv'
  <2>1. /\ p \notin ended /\ Below(p) = {} /\ build = "edge_furthest"
        /\ bidding' = bidding \cup {p} /\ UNCHANGED <<build, todo, called, waiting, ended>>
    BY <1>5 DEF BidLast, Unanswered
  <2>2. \A s \in todo \cup waiting : Front(s) # p
    BY <2>1 DEF Below
  <2> QED BY <1>a, <1>b, <1>c, <2>1, <2>2 DEF RequestInv
<1>6. ASSUME NEW p \in called, Answer(p) PROVE RequestInv'
  <2>1. /\ p \notin bidding /\ Below(p) = {} /\ ended' = ended \cup {p}
        /\ UNCHANGED <<build, todo, called, bidding, waiting>>
    BY <1>6 DEF Answer, Unanswered
  <2>2. \A s \in todo \cup waiting : Front(s) # p
    BY <2>1 DEF Below
  <2> QED BY <1>a, <1>b, <1>c, <1>d, <2>1, <2>2 DEF RequestInv
<1>7. ASSUME NEW q \in called, Take(q) PROVE RequestInv'
  <2>1. todo' \subseteq todo /\ waiting' \subseteq waiting /\ UNCHANGED <<build, called, bidding, ended>>
    BY <1>7 DEF Take
  <2> QED BY <1>a, <1>b, <1>c, <1>d, <2>1 DEF RequestInv
<1>8. ASSUME NEW p \in called, Cancel(p) PROVE RequestInv'
  <2>1. /\ ended' = ended \cup {p} /\ bidding' = bidding \ {p}
        /\ todo' = todo \ Below(p) /\ waiting' = waiting \ Below(p) /\ UNCHANGED <<build, called>>
    BY <1>8 DEF Cancel
  <2>2. \A s \in todo' \cup waiting' : Front(s) # p
    BY <2>1 DEF Below
  <2> QED BY <1>a, <1>b, <1>c, <1>d, <2>1, <2>2 DEF RequestInv
<1>9. CASE UNCHANGED vars
  BY <1>0, <1>9 DEF vars, RequestInv
<1> QED BY <1>1, <1>2, <1>3, <1>4, <1>5, <1>6, <1>7, <1>8, <1>9, Steps, <1>0
        DEF Unasked, Lose, TypeOK

-----------------------------------------------------------------------------
LEMMA SameHands ==
  ASSUME bids' = bids
  PROVE  \A p : Held(p)' = Held(p)
BY DEF Held

(* Who bids has nothing in hand before, and the market has something only  *)
(* when its call is over.                                                  *)
LEMMA HandStep == IInv /\ [Next]_vars => HandInv'
<1> SUFFICES ASSUME IInv, [Next]_vars PROVE HandInv'
  OBVIOUS
<1>0. TypeOK /\ RequestInv /\ HandInv
  BY DEF IInv
<1>a. /\ todo \cap called = {} /\ bidding \cap ended = {}
      /\ bidding \cup ended \cup waiting \subseteq called /\ spoiled \subseteq ended
      /\ \A q \in todo \cup waiting : q = Entry \/ Front(q) \notin ended \cup bidding
  BY <1>0 DEF RequestInv, TypeOK
<1>b. /\ \A p \in called : p # Market /\ p \in Paths /\ Len(p) > 0 /\ Entry \notin Below(p)
      /\ Market \notin called
  BY <1>0, Request, EntryPath DEF Below
<1>c. /\ \A p \in bidding : Held(p) = {}
      /\ ~Sampled => \A p \in spoiled : Held(p) = {}
      /\ Entry \in faults \/ Held(Market) # {} => Over
      /\ Over => Entry \in faults \cup ended
  BY <1>0 DEF HandInv
<1>1. ASSUME NEW q \in todo, Ask(q) PROVE HandInv'
  <2>1. /\ q \in Paths /\ Len(q) > 0 /\ q \notin called /\ q # Market
        /\ Entry \notin FollowUps(q)
    BY <1>0, <1>a, Request, AskedAreOnward DEF Onward
  <2>2. /\ bids' = bids /\ faults' = faults /\ ended' = ended /\ spoiled' = spoiled
        /\ bidding' \subseteq bidding \cup {q} /\ build' = build
        /\ (Entry \in todo' \cup waiting' <=> Entry \in todo \cup waiting)
    BY <1>1, <2>1 DEF Ask
  <2>3. Held(q) = {}
    BY <1>0, <2>1 DEF Held, TypeOK
  <2> QED BY <1>c, <2>2, <2>3, SameHands DEF HandInv, Over, Sampled
<1>2. ASSUME NEW q \in todo \cup waiting, Errs(q),
             UNCHANGED <<build, called, bidding, declined, bids, recorded>>
      PROVE  HandInv'
  <2>1. /\ todo' \subseteq todo /\ waiting' \subseteq waiting /\ q \notin todo' \cup waiting'
        /\ ended \subseteq ended' /\ (~Sampled => spoiled' = spoiled)
        /\ q = Entry => Entry \in faults'
        /\ q # Entry => /\ Entry \in todo' \cup waiting' <=> Entry \in todo \cup waiting
                        /\ Entry \in faults' <=> Entry \in faults
    BY <1>0, <1>2, ErrsEffect
  <2>2. /\ bidding' = bidding /\ (Sampled' <=> Sampled) /\ \A p : Held(p)' = Held(p)
    BY <1>2, SameHands DEF Sampled
  <2> QED BY <1>c, <2>1, <2>2 DEF HandInv, Over
<1>3. ASSUME NEW p \in called, BidMade(p) \/ NoBid(p) PROVE HandInv'
  <2>1. /\ p \in bidding /\ bidding' = bidding \ {p} /\ p \notin spoiled
        /\ UNCHANGED <<build, called, waiting, ended, spoiled, faults>>
        /\ bids \subseteq bids' /\ bids' \subseteq bids \cup {<<p, p>>}
    BY <1>3, <1>a DEF BidMade, NoBid
  <2>2. \/ todo' = todo
        \/ \E found : \E asked \in Candidates(p, found) : todo' = todo \cup asked
    BY <1>3 DEF BidMade, NoBid, AskAround
  <2>3. Entry \in todo' <=> Entry \in todo
    BY <1>b, <2>2, AskedAreOnward DEF Onward
  <2>4. \A x : x # p => Held(x)' = Held(x)
    BY <2>1 DEF Held
  <2>5. Held(Market)' = Held(Market)
    BY <1>b, <2>4
  <2> QED BY <1>c, <2>1, <2>3, <2>4, <2>5 DEF HandInv, Over, Sampled
<1>4. ASSUME NEW p \in called, BidPanics(p) \/ BidLast(p) \/ Answer(p) PROVE HandInv'
  <2>1. /\ UNCHANGED <<build, todo, waiting, faults>> /\ ended \subseteq ended'
        /\ bidding' \subseteq bidding \cup {p}
        /\ \A x : Held(x)' = Held(x)
    BY <1>4, SameHands DEF BidPanics, BidLast, Answer
  <2>2. /\ p \in bidding' => Held(p) = {}
        /\ spoiled' \subseteq spoiled \cup {p} /\ (p \in spoiled' \ spoiled => Held(p) = {})
    BY <1>4, <1>c DEF BidPanics, BidLast, Answer
  <2> QED BY <1>c, <2>1, <2>2 DEF HandInv, Over, Sampled
<1>5. ASSUME NEW q \in called, Take(q) PROVE HandInv'
  <2>1. /\ q \in waiting \cap ended /\ waiting' = waiting \ {q}
        /\ bids' = bids \cup {<<Front(q), r>> : r \in Held(q)}
        /\ UNCHANGED <<build, called, bidding, spoiled, ended, faults>>
        /\ todo' = todo \/ todo' = todo \ Below(Front(q))
    BY <1>5 DEF Take
  <2>2. \A x : x # Front(q) => Held(x)' = Held(x)
    BY <2>1 DEF Held
  <2>3. Front(q) \notin ended \cup bidding
    BY <1>a, <1>b, <2>1, EntryPath
  <2>4. /\ \A p \in bidding' : Held(p)' = {}
        /\ ~Sampled' => \A p \in spoiled' : Held(p)' = {}
    BY <1>a, <1>c, <2>1, <2>2, <2>3 DEF Sampled
  <2>5. CASE q = Entry
    <3>1. Over' /\ Entry \in ended'
      BY <1>a, <2>1, <2>5 DEF Over
    <3> QED BY <2>4, <3>1 DEF HandInv
  <2>6. CASE q # Entry
    <3>1. Front(q) # Market /\ Front(q) \in called
      BY <1>0, <2>6, Request
    <3>2. Over' = Over /\ Held(Market)' = Held(Market)
      BY <1>b, <2>1, <2>2, <2>6, <3>1 DEF Over
    <3> QED BY <1>c, <2>1, <2>4, <3>2 DEF HandInv
  <2> QED BY <2>5, <2>6
<1>6. ASSUME NEW p \in called, Cancel(p) PROVE HandInv'
  <2>1. /\ bidding' = bidding \ {p} /\ ended \subseteq ended' /\ spoiled' = spoiled /\ build' = build
        /\ (Entry \in todo' \cup waiting' <=> Entry \in todo \cup waiting)
        /\ (Entry \in faults' <=> Entry \in faults)
        /\ \A x : Held(x)' = Held(x)
    BY <1>6, <1>b, SameHands DEF Cancel
  <2> QED BY <1>c, <2>1 DEF HandInv, Over, Sampled
<1>7. CASE UNCHANGED vars
  BY <1>7, <1>c, SameHands DEF vars, HandInv, Over, Sampled
<1> QED BY <1>1, <1>2, <1>3, <1>4, <1>5, <1>6, <1>7, Steps, <1>0 DEF Unasked, Lose, TypeOK

-----------------------------------------------------------------------------
(* The requests on the way of a path.                                      *)
LEMMA Beginnings ==
  ASSUME NEW r \in Paths, NEW k \in 1..Len(r)
  PROVE  /\ SubSeq(r, 1, k) \in Paths /\ Len(SubSeq(r, 1, k)) = k /\ SubSeq(r, 1, k) # Market
         /\ Front(SubSeq(r, 1, k)) = SubSeq(r, 1, k - 1)
         /\ IsPrefix(SubSeq(r, 1, k), r)
  BY DEF Paths, Front, Market, IsPrefix

LEMMA Nested ==
  ASSUME NEW r \in Paths, NEW k \in 1..Len(r), NEW j \in 1..k
  PROVE  SubSeq(SubSeq(r, 1, k), 1, j) = SubSeq(r, 1, j)
<1>1. SubSeq(r, 1, k) \in Seq(Nodes) /\ Len(SubSeq(r, 1, k)) = k /\ Len(r) \in Nat
  BY Beginnings DEF Paths
<1>2. SubSeq(SubSeq(r, 1, k), 1, j) \in Seq(Nodes) /\ Len(SubSeq(SubSeq(r, 1, k), 1, j)) = j
  BY <1>1, Beginnings DEF Paths
<1>3. SubSeq(r, 1, j) \in Seq(Nodes) /\ Len(SubSeq(r, 1, j)) = j
  BY <1>1, Beginnings DEF Paths
<1>4. \A i \in 1..j : SubSeq(SubSeq(r, 1, k), 1, j)[i] = SubSeq(r, 1, j)[i]
  BY <1>1 DEF Paths
<1> QED BY <1>2, <1>3, <1>4, SeqEqual

LEMMA Ways ==
  ASSUME NEW r \in Paths
  PROVE  /\ \A q \in Way(r) : /\ q \in Paths /\ q # Market /\ IsPrefix(q, r) /\ Way(q) \subseteq Way(r)
                              /\ q = r \/ \E s \in Way(r) : Front(s) = q
                              /\ Front(q) = Market \/ Front(q) \in Way(r)
                              /\ Front(q) # r
         /\ r # Market => r \in Way(r) /\ \E q \in Way(r) : Front(q) = Market
         /\ Way(r) \subseteq Way(Front(r)) \cup {r}
<1>0. Len(r) \in Nat
  BY DEF Paths
<1>1. SubSeq(r, 1, Len(r)) = r /\ SubSeq(r, 1, 0) = Market
  BY DEF Paths, Market
<1>2. ASSUME NEW k \in 1..Len(r), NEW q, q = SubSeq(r, 1, k)
      PROVE  /\ q \in Paths /\ q # Market /\ IsPrefix(q, r) /\ Way(q) \subseteq Way(r)
             /\ q = r \/ \E s \in Way(r) : Front(s) = q
             /\ Front(q) = Market \/ Front(q) \in Way(r)
             /\ Front(q) # r
  <2>1. q \in Paths /\ q # Market /\ IsPrefix(q, r) /\ Len(q) = k /\ Front(q) = SubSeq(r, 1, k - 1)
    BY <1>2, Beginnings
  <2>2. Way(q) \subseteq Way(r)
    <3>1. \A j \in 1..k : SubSeq(q, 1, j) = SubSeq(r, 1, j) /\ j \in 1..Len(r)
      BY <1>1, <1>2, Nested
    <3> QED BY <2>1, <3>1 DEF Way
  <2>3. q = r \/ \E s \in Way(r) : Front(s) = q
    <3>1. CASE k = Len(r)
      BY <1>1, <1>2, <3>1
    <3>2. CASE k # Len(r)
      <4> DEFINE next == k + 1
      <4>1. next \in 1..Len(r) /\ next - 1 = k
        BY <1>0, <3>2
      <4> HIDE DEF next
      <4>2. Front(SubSeq(r, 1, next)) = SubSeq(r, 1, next - 1)
        BY <4>1, Beginnings
      <4>3. Front(SubSeq(r, 1, next)) = q
        BY <1>2, <4>1, <4>2
      <4> QED BY <4>1, <4>3 DEF Way
    <3> QED BY <3>1, <3>2
  <2>4. CASE k = 1
    <3>1. Front(q) = Market
      BY <1>1, <2>1, <2>4
    <3>2. Len(Market) = 0
      BY EntryPath
    <3>3. Market # r
      BY <3>2
    <3> QED BY <2>1, <2>2, <2>3, <3>1, <3>3
  <2>5. CASE k # 1
    <3>1. k - 1 \in 1..Len(r) /\ k - 1 # Len(r)
      BY <1>0, <2>5
    <3>2. Front(q) \in Way(r)
      BY <2>1, <3>1 DEF Way
    <3>3. Len(Front(q)) = k - 1
      BY <2>1, <3>1, Beginnings
    <3> QED BY <2>1, <2>2, <2>3, <3>1, <3>2, <3>3
  <2> QED BY <2>4, <2>5
<1>3. ASSUME r # Market PROVE r \in Way(r) /\ \E q \in Way(r) : Front(q) = Market
  <2>1. Len(r) \in 1..Len(r) /\ 1 \in 1..Len(r)
    BY <1>0, <1>3 DEF Paths, Market
  <2>2. Front(SubSeq(r, 1, 1)) = Market
    BY <1>1, <2>1, Beginnings
  <2> QED BY <1>1, <2>1, <2>2 DEF Way
<1>4. Way(r) \subseteq Way(Front(r)) \cup {r}
  <2>1. SUFFICES ASSUME NEW k \in 1..Len(r), k # Len(r) PROVE SubSeq(r, 1, k) \in Way(Front(r))
    BY <1>1 DEF Way
  <2>2. Len(r) \in 1..Len(r) /\ Len(r) - 1 \in 1..Len(r) /\ k \in 1..(Len(r) - 1)
    BY <1>0, <2>1
  <2>3. Front(r) = SubSeq(r, 1, Len(r) - 1)
    BY DEF Front
  <2>4. Len(Front(r)) = Len(r) - 1 /\ SubSeq(Front(r), 1, k) = SubSeq(r, 1, k)
    BY <2>2, <2>3, Beginnings, Nested
  <2> QED BY <2>2, <2>4 DEF Way
<1> QED BY <1>2, <1>3, <1>4 DEF Way

-----------------------------------------------------------------------------
LEMMA AlarmDown ==
  ASSUME NEW x \in Paths, NEW y \in Way(x), Alarm(y)
  PROVE  Alarm(x)
BY Ways DEF Alarm

(* What the chain invariant is used for: who is still at work is awaited   *)
(* all the way, or something of its way failed; in mincpurandom an error   *)
(* is on its way then.                                                     *)
LEMMA AtWork ==
  ASSUME IInv, NEW p \in called \ ended
  PROVE  /\ p \in Paths /\ p # Market /\ p \in Way(p)
         /\ Way(p) \subseteq waiting \/ Broken(p)
         /\ Sampled /\ Broken(p) => Alarm(p)
<1>1. p \in Paths /\ p # Market
  BY Request DEF IInv
<1>2. p \in Way(p) /\ (Way(p) \subseteq waiting \/ Broken(p))
  BY <1>1, Ways DEF IInv, ChainInv
<1>3. Sampled /\ Broken(p) => Alarm(p)
  BY <1>1, AlarmDown DEF IInv, ChainInv, Broken
<1> QED BY <1>1, <1>2, <1>3

(* As long as its node has not answered, the market has nothing.           *)
LEMMA MarketEmpty ==
  ASSUME IInv, Sampled, Entry \notin ended
  PROVE  Held(Market) = {}
BY DEF IInv, HandInv, ChainInv

(* Steps after which no less is awaited.                                   *)
LEMMA ChainGrows ==
  ASSUME IInv, waiting \subseteq waiting', spoiled \subseteq spoiled', bids \subseteq bids',
         build' = build, faults' = faults, Held(Market)' = Held(Market),
         \A r \in called' \ ended' : r \in called \ ended \/ Broken(r) \/ Way(r) \subseteq waiting',
         \A r \in recorded' : <<r, r>> \in bids' =>
           (r \in recorded /\ <<r, r>> \in bids) \/ Broken(r) \/ Way(r) \subseteq waiting',
         Sampled /\ Entry \in spoiled' => Entry \in spoiled \/ Entry \notin ended,
         \A b \in bids' : b \in bids \/ b[1] \in Way(b[2])
  PROVE  ChainInv'
<1>0. ChainInv
  BY DEF IInv
<1>1. \A r : /\ Way(r)' = Way(r) /\ Broken(r)' = Broken(r)
             /\ Alarm(r) => Alarm(r)'
  BY DEF Way, Broken, Alarm
<1>2. \A r \in called' \ ended' : Broken(r)' \/ Way(r) \subseteq waiting'
  BY <1>0, <1>1 DEF ChainInv
<1>3. \A r \in recorded' :
        <<r, r>> \in bids' => Broken(r)' \/ \A q \in Way(r) : <<Front(q), r>> \in bids' \/ q \in waiting'
  BY <1>0, <1>1 DEF ChainInv
<1>4. Sampled' => \A x \in faults' : Alarm(x)'
  BY <1>0, <1>1 DEF ChainInv, Sampled
<1>5. Sampled' /\ Entry \in faults' \cup spoiled' => Held(Market)' = {}
  BY <1>0, MarketEmpty DEF ChainInv, Sampled
<1>6. \A b \in bids' : b[1] = Market \/ b[1] \in Way(b[2])
  BY <1>0 DEF ChainInv
<1> QED BY <1>1, <1>2, <1>3, <1>4, <1>5, <1>6 DEF ChainInv

(* Steps that give up requests, each of which is a fault.                  *)
LEMMA ChainCut ==
  ASSUME IInv, waiting \ waiting' \subseteq faults', faults \subseteq faults', ended \subseteq ended',
         UNCHANGED <<build, called, bids, recorded>>,
         Sampled => \A x \in faults' : Alarm(x)',
         Sampled /\ Entry \in faults' \cup spoiled' => Held(Market) = {}
  PROVE  ChainInv'
<1>0. ChainInv
  BY DEF IInv
<1>1. /\ \A r : Way(r)' = Way(r) /\ Held(r)' = Held(r)
      /\ \A r : Broken(r) => Broken(r)'
      /\ \A r : \A q \in Way(r) : q \in waiting => q \in waiting' \/ Broken(r)'
      /\ Sampled' = Sampled
  BY SameHands DEF Way, Broken, Sampled
<1>2. \A r \in called' \ ended' : Broken(r)' \/ Way(r) \subseteq waiting'
  BY <1>0, <1>1 DEF ChainInv
<1>3. \A r \in recorded' :
        <<r, r>> \in bids' => Broken(r)' \/ \A q \in Way(r) : <<Front(q), r>> \in bids' \/ q \in waiting'
  BY <1>0, <1>1 DEF ChainInv
<1>4. \A b \in bids' : b[1] = Market \/ b[1] \in Way(b[2])
  BY <1>0 DEF ChainInv
<1> QED BY <1>1, <1>2, <1>3, <1>4 DEF ChainInv

(* An error alarms all that waited below the node that passes it on.       *)
LEMMA ErrsAlarm ==
  ASSUME IInv, Sampled, NEW q \in todo \cup waiting, Errs(q), build' = build
  PROVE  /\ \A x \in faults' : Alarm(x)'
         /\ Entry \in faults' \cup spoiled' => Held(Market) = {}
<1>0. /\ TypeOK /\ RequestInv /\ HandInv /\ ChainInv
      /\ todo \cup waiting \subseteq todo \cup called
  BY DEF IInv, TypeOK
<1>1. /\ q \in Paths /\ q # Market /\ (q = Entry <=> Front(q) = Market)
      /\ q # Entry => Front(q) \in called
  BY <1>0, Request
<1>2. CASE q = Entry
  <2>1. Entry \in faults'
    BY <1>0, <1>2, ErrsEffect
  <2>2. Held(Market) = {}
    BY <1>0, <1>2 DEF HandInv, Over
  <2> QED BY <2>1, <2>2 DEF Alarm
<1>3. CASE q # Entry
  <2> DEFINE p == Front(q)
  <2>1. /\ waiting' = waiting \ Below(p) /\ faults' = faults \cup Below(p)
        /\ spoiled' = spoiled \cup {p} /\ p # Market
    BY <1>1, <1>3 DEF Errs
  <2>2. p \in called \ ended
    BY <1>0, <1>1, <1>3 DEF RequestInv
  <2>3. p \in Paths /\ p \in Way(p) /\ (Way(p) \subseteq waiting \/ Alarm(p))
    BY <2>2, AtWork
  <2> HIDE DEF p
  <2>4. \A x : Way(x)' = Way(x)
    BY DEF Way
  <2>5. \A w : w \in Below(p) => Front(w) = p
    BY DEF Below
  <2>6. Alarm(p)'
    <3>1. Way(p) \cap Below(p) = {}
      BY <2>3, <2>5, Ways
    <3>2. CASE Way(p) \subseteq waiting
      BY <2>1, <2>3, <2>4, <3>1, <3>2 DEF Alarm
    <3>3. CASE Alarm(p)
      BY <2>1, <2>3, <2>4, <3>1, <3>3, Ways DEF Alarm
    <3> QED BY <2>3, <3>2, <3>3
  <2>7. ASSUME NEW x \in Paths, p \in Way(x) PROVE Alarm(x)'
    BY <2>4, <2>6, <2>7, Ways DEF Alarm
  <2>8. ASSUME NEW x \in faults PROVE Alarm(x)'
    <3>1. Alarm(x) /\ x \in Paths
      BY <1>0 DEF ChainInv, TypeOK
    <3>2. CASE Entry \in faults
      BY <2>1, <3>2 DEF Alarm
    <3>3. ASSUME NEW z \in Way(x) \cap spoiled, Way(z) \subseteq waiting PROVE Alarm(x)'
      <4>1. CASE Way(z) \cap Below(p) = {}
        BY <2>1, <2>4, <3>3, <4>1 DEF Alarm
      <4>2. ASSUME NEW w \in Way(z) \cap Below(p) PROVE Alarm(x)'
        <5>1. z \in Paths /\ Way(z) \subseteq Way(x)
          BY <3>1, Ways
        <5>2. p \in Way(z)
          BY <2>1, <2>5, <5>1, Ways
        <5> QED BY <2>7, <3>1, <5>1, <5>2
      <4> QED BY <4>1, <4>2
    <3> QED BY <3>1, <3>2, <3>3 DEF Alarm
  <2>9. ASSUME NEW x \in Below(p) PROVE Alarm(x)'
    <3>1. x \in Paths /\ x # Market /\ Front(x) = p
      BY <1>0, <2>5, Request DEF Below
    <3>2. p \in Way(x)
      BY <2>1, <3>1, Ways
    <3> QED BY <2>7, <3>1, <3>2
  <2>10. Entry \in faults' \cup spoiled' => Held(Market) = {}
    <3>1. Entry \notin Below(p)
      BY <2>1, <2>5, EntryPath
    <3>2. p = Entry => Held(Market) = {}
      BY <2>2, MarketEmpty
    <3> QED BY <1>0, <2>1, <3>1, <3>2 DEF ChainInv
  <2> QED BY <2>1, <2>8, <2>9, <2>10
<1> QED BY <1>2, <1>3

(* Taking an answer leaves nothing behind: whoever waited below has gone.  *)
LEMMA ChainTake ==
  ASSUME IInv, NEW q \in called, Take(q)
  PROVE  ChainInv'
<1>0. TypeOK /\ RequestInv /\ HandInv /\ ChainInv
  BY DEF IInv
<1>1. /\ q \in waiting \cap ended /\ ~Refused(q) /\ waiting' = waiting \ {q}
      /\ bids' = bids \cup {<<Front(q), r>> : r \in Held(q)}
      /\ UNCHANGED <<build, called, spoiled, ended, recorded, faults>>
  BY DEF Take
<1>2. /\ q \in Paths /\ q # Market /\ (q = Entry <=> Front(q) = Market)
      /\ called \subseteq Paths /\ recorded \subseteq Paths
      /\ \A r \in called : r # Market
  BY <1>0, Request DEF TypeOK
<1>3. \A s \in waiting : Front(s) # q
  BY <1>0, <1>1, <1>2, EntryPath DEF RequestInv
<1>4. \A r : Way(r)' = Way(r) /\ (Broken(r)' <=> Broken(r))
  BY <1>1 DEF Way, Broken
<1>5. ASSUME NEW r \in called' \ ended' PROVE Broken(r)' \/ Way(r) \subseteq waiting'
  <2>1. r \in called \ ended /\ r \in Paths /\ r # q
    BY <1>1, <1>2
  <2>2. Way(r) \subseteq waiting => q \notin Way(r)
    BY <1>3, <2>1, Ways
  <2> QED BY <1>0, <1>1, <1>4, <2>1, <2>2 DEF ChainInv
<1>6. \A b \in bids' : b[1] = Market \/ b[1] \in Way(b[2])
  <2>1. ASSUME NEW r \in Held(q) PROVE Front(q) = Market \/ Front(q) \in Way(r)
    <3>1. <<q, r>> \in bids /\ r \in Paths
      BY <1>0, <1>2 DEF Held, TypeOK
    <3>2. q \in Way(r)
      BY <1>0, <1>2, <3>1 DEF ChainInv
    <3> QED BY <3>1, <3>2, Ways
  <2> QED BY <1>0, <1>1, <2>1 DEF ChainInv
<1>7. ASSUME NEW r \in recorded', <<r, r>> \in bids', ~Broken(r), NEW w \in Way(r)
      PROVE  <<Front(w), r>> \in bids' \/ w \in waiting'
  <2>1. r \in recorded /\ r \in Paths
    BY <1>1, <1>2, <1>7
  <2>2. <<r, r>> \in bids
    <3>1. ASSUME Front(q) = r, r \in Held(q) PROVE FALSE
      <4>1. q \in Way(r)
        BY <1>0, <1>2, <3>1 DEF ChainInv, Held
      <4> QED BY <2>1, <3>1, <4>1, Ways
    <3> QED BY <1>1, <1>7, <3>1
  <2>3. \A s \in Way(r) : <<Front(s), r>> \in bids \/ s \in waiting
    BY <1>0, <1>7, <2>1, <2>2 DEF ChainInv
  <2>4. CASE w = q
    <3>1. <<q, r>> \in bids
      BY <1>3, <1>7, <2>1, <2>2, <2>3, <2>4, Ways
    <3>2. r \in Held(q)
      BY <3>1 DEF Held
    <3> QED BY <1>1, <2>4, <3>2
  <2> QED BY <1>1, <2>3, <2>4
<1>8. ASSUME Sampled, NEW x \in faults' PROVE Alarm(x)'
  <2>1. Alarm(x) /\ x \in Paths /\ q \notin spoiled
    BY <1>0, <1>1, <1>8 DEF ChainInv, Refused, TypeOK
  <2>2. ASSUME NEW z \in Way(x) \cap spoiled, Way(z) \subseteq waiting PROVE Way(z) \subseteq waiting'
    <3>1. z \in Paths /\ z # q
      BY <2>1, Ways
    <3>2. q \notin Way(z)
      BY <1>3, <2>2, <3>1, Ways
    <3> QED BY <1>1, <2>2, <3>2
  <2> QED BY <1>1, <1>4, <2>1, <2>2 DEF Alarm
<1>9. ASSUME Sampled, Entry \in faults' \cup spoiled' PROVE Held(Market)' = {}
  <2>1. Held(Market) = {}
    BY <1>0, <1>1, <1>9 DEF ChainInv
  <2>2. q # Entry
    BY <1>0, <1>1, <1>9 DEF HandInv, Over, Refused
  <2> QED BY <1>1, <1>2, <2>1, <2>2 DEF Held
<1> QED BY <1>1, <1>4, <1>5, <1>6, <1>7, <1>8, <1>9 DEF ChainInv, Sampled

(* A proposal is in hand or awaited, all the way to the market, unless a   *)
(* fault explains it.                                                      *)
LEMMA ChainStep == IInv /\ [Next]_vars => ChainInv'
<1> SUFFICES ASSUME IInv, [Next]_vars PROVE ChainInv'
  OBVIOUS
<1>0. TypeOK /\ RequestInv /\ HandInv /\ ChainInv
  BY DEF IInv
<1>a. /\ bidding \subseteq called \ ended /\ called \subseteq Paths
      /\ \A p \in called : p # Market
  BY <1>0, Request DEF TypeOK, RequestInv
<1>1. ASSUME NEW q \in todo, Ask(q) PROVE ChainInv'
  <2>1. /\ called' = called \cup {q} /\ waiting' = waiting \cup {q}
        /\ UNCHANGED <<build, bids, spoiled, ended, recorded, faults>>
    BY <1>1 DEF Ask
  <2>2. q \in Paths /\ q # Market /\ (q = Entry <=> Front(q) = Market) /\ (q # Entry => Front(q) \in called)
    BY <1>0, Request
  <2>3. Broken(q) \/ Way(q) \subseteq waiting'
    <3>1. CASE q = Entry
      <4>1. Way(Market) = {}
        BY EntryPath DEF Way
      <4> QED BY <2>1, <2>2, <3>1, <4>1, Ways
    <3>2. CASE q # Entry
      <4>1. Front(q) \in called \ ended
        BY <1>0, <2>2, <3>2 DEF RequestInv
      <4>2. Way(Front(q)) \subseteq waiting \/ Broken(Front(q))
        BY <4>1, AtWork
      <4>3. Front(q) \in Way(q)
        BY <2>2, <3>2, Ways
      <4>4. Broken(Front(q)) => Broken(q)
        BY <2>2, <4>3, Ways DEF Broken
      <4> QED BY <2>1, <2>2, <4>2, <4>4, Ways
    <3> QED BY <3>1, <3>2
  <2>4. Held(Market)' = Held(Market)
    BY <2>1, SameHands
  <2> QED BY <2>1, <2>3, <2>4, ChainGrows
<1>2. ASSUME NEW q \in todo \cup waiting, Errs(q),
             UNCHANGED <<build, called, bidding, declined, bids, recorded>>
      PROVE  ChainInv'
  <2>1. waiting \ waiting' \subseteq faults' /\ faults \subseteq faults' /\ ended \subseteq ended'
    BY <1>2 DEF Errs
  <2> QED BY <1>2, <2>1, ErrsAlarm, ChainCut
<1>3. ASSUME NEW p \in called, BidMade(p) \/ NoBid(p) \/ BidPanics(p) PROVE ChainInv'
  <2>1. /\ waiting' = waiting /\ UNCHANGED <<build, called, faults>>
        /\ p \in called \ ended /\ Held(p) = {}
        /\ ended \subseteq ended' /\ spoiled \subseteq spoiled' /\ spoiled' \subseteq spoiled \cup {p}
        /\ bids \subseteq bids' /\ bids' \subseteq bids \cup {<<p, p>>}
        /\ recorded' \subseteq recorded \cup {p}
        /\ <<p, p>> \in bids' => Broken(p) \/ Way(p) \subseteq waiting'
    <3>1. p \in bidding /\ Held(p) = {}
      BY <1>0, <1>3 DEF BidMade, NoBid, BidPanics, HandInv
    <3>2. p \in called \ ended /\ (Broken(p) \/ Way(p) \subseteq waiting)
      BY <1>a, <3>1, AtWork
    <3> QED BY <1>3, <3>1, <3>2 DEF BidMade, NoBid, BidPanics
  <2>2. p \in Way(p) /\ p # Market
    BY <2>1, AtWork
  <2>3. Held(Market)' = Held(Market)
    BY <2>1, <2>2 DEF Held
  <2>4. \A r \in recorded' : <<r, r>> \in bids' =>
          (r \in recorded /\ <<r, r>> \in bids) \/ Broken(r) \/ Way(r) \subseteq waiting'
    BY <2>1
  <2> QED BY <2>1, <2>2, <2>3, <2>4, ChainGrows
<1>4. ASSUME NEW p \in called, BidLast(p) \/ Answer(p) PROVE ChainInv'
  <2>1. /\ UNCHANGED <<build, called, waiting, bids, recorded, faults>> /\ ended \subseteq ended'
        /\ spoiled \subseteq spoiled' /\ (Sampled => spoiled' = spoiled)
    BY <1>4 DEF BidLast, Answer, Sampled
  <2>2. Held(Market)' = Held(Market)
    BY <2>1, SameHands
  <2> QED BY <2>1, <2>2, ChainGrows
<1>5. ASSUME NEW p \in called, Cancel(p) PROVE ChainInv'
  <2>1. /\ p \in called \ ended /\ p \notin waiting /\ waiting' = waiting \ Below(p)
        /\ ended \subseteq ended' /\ faults' = faults \cup (Below(p) \cap waiting)
        /\ UNCHANGED <<build, called, bids, spoiled, recorded>>
    BY <1>5 DEF Cancel
  <2>2. /\ p \in Paths /\ p # Market /\ p \in Way(p) /\ Broken(p)
        /\ \A w \in Below(p) : Front(w) = p
        /\ Entry \notin Below(p)
    BY <2>1, AtWork, EntryPath DEF Below
  <2>3. \A x : Way(x)' = Way(x)
    BY DEF Way
  <2>4. ASSUME NEW x \in Paths, Alarm(x) PROVE Alarm(x)'
    <3>1. ASSUME NEW z \in Way(x), Way(z) \subseteq waiting PROVE Way(z) \subseteq waiting'
      BY <2>1, <2>2, <3>1, Ways
    <3> QED BY <2>1, <2>3, <2>4, <3>1 DEF Alarm
  <2>5. ASSUME Sampled, NEW x \in faults' PROVE Alarm(x)'
    <3>1. CASE x \in faults
      BY <1>0, <2>4, <2>5, <3>1 DEF ChainInv, TypeOK
    <3>2. CASE x \in Below(p) \cap waiting
      <4>1. x \in Paths /\ x # Market
        BY <1>0, <3>2, Request DEF TypeOK
      <4>2. p \in Way(x)
        BY <2>2, <3>2, <4>1, Ways
      <4>3. Alarm(p)
        BY <2>1, <2>2, <2>5, AtWork
      <4> QED BY <2>4, <4>1, <4>2, <4>3, AlarmDown
    <3> QED BY <2>1, <2>5, <3>1, <3>2
  <2>6. Sampled /\ Entry \in faults' \cup spoiled' => Held(Market) = {}
    BY <1>0, <2>1, <2>2 DEF ChainInv
  <2> QED BY <2>1, <2>5, <2>6, ChainCut
<1>6. CASE UNCHANGED vars
  <2>1. UNCHANGED <<build, called, waiting, bids, recorded, faults, ended, spoiled>>
    BY <1>6 DEF vars
  <2>2. Held(Market)' = Held(Market)
    BY <2>1, SameHands
  <2> QED BY <2>1, <2>2, ChainGrows
<1> QED BY <1>1, <1>2, <1>3, <1>4, <1>5, <1>6, ChainTake, Steps, <1>0 DEF Unasked, Lose, TypeOK

-----------------------------------------------------------------------------
Ordered == build \in {"edge_first", "edge_furthest"}

(* A candidate whose turn has passed without a proposal stays so.          *)
LEMMA PassedKept ==
  ASSUME IInv, [Next]_vars
  PROVE  \A q : Passed(q) => Passed(q)'
<1>0. TypeOK /\ RequestInv /\ Market \notin called
  BY Request, EntryPath DEF IInv, TypeOK
<1>1. /\ faults \subseteq faults' /\ ended \subseteq ended'
      /\ \/ bids' = bids
         \/ \E p \in bidding : bids' = bids \cup {<<p, p>>}
         \/ \E q \in waiting : bids' = bids \cup {<<Front(q), r>> : r \in Held(q)}
  BY Steps, <1>0 DEF Ask, Unasked, Errs, BidMade, NoBid, BidPanics, BidLast, Answer, Take, Lose, Cancel, vars
<1>2. ASSUME NEW q \in ended PROVE Held(q)' = Held(q)
  <2>1. q \notin bidding /\ \A s \in waiting : Front(s) # q
    BY <1>0, EntryPath DEF RequestInv, TypeOK
  <2> QED BY <1>1, <2>1 DEF Held
<1> QED BY <1>1, <1>2 DEF Passed

(* Steps that give up requests, or take their answers.                     *)
LEMMA OrderLess ==
  ASSUME IInv, [Next]_vars, todo' \subseteq todo, waiting' \subseteq waiting,
         UNCHANGED <<build, called>>, declined \subseteq declined',
         Ordered => \A q \in (todo \cup waiting) \ (todo' \cup waiting') :
           Passed(q)' \/ \A s \in todo' \cup waiting' : s = Entry \/ q \notin FollowUps(Front(s))
  PROVE  OrderInv'
<1>0. OrderInv
  BY DEF IInv
<1>1. \A q : Passed(q) => Passed(q)'
  BY PassedKept
<1>2. Sampled' = Sampled /\ \A q, s : Before(q, s)' = Before(q, s)
  BY DEF Sampled, Before
<1>3. Ordered => \A s \in todo' \cup waiting' : s = Entry \/
        \A q \in FollowUps(Front(s)) : q \in todo' \cup waiting' \/ Passed(q)'
  BY <1>0, <1>1 DEF OrderInv, Ordered
<1>4. Ordered => \A s \in called' : s = Entry \/
        \A q \in FollowUps(Front(s)) : Before(q, s)' => Passed(q)'
  BY <1>0, <1>1, <1>2 DEF OrderInv, Ordered
<1>5. /\ \A r \in called' : Way(r) \subseteq called'
      /\ build = "edge_first" => \A s \in todo' \cup called' : s = Entry \/ Front(s) \in declined'
      /\ ~Sampled => \A v, w \in waiting' : Front(v) = Front(w) => v = w
  BY <1>0 DEF OrderInv
<1> QED BY <1>2, <1>3, <1>4, <1>5 DEF OrderInv, Ordered, Way

(* Candidates are asked in order, and one at a time.                       *)
LEMMA OrderStep == IInv /\ [Next]_vars => OrderInv'
<1> SUFFICES ASSUME IInv, [Next]_vars PROVE OrderInv'
  OBVIOUS
<1>0. TypeOK /\ RequestInv /\ HandInv /\ OrderInv
  BY DEF IInv
<1>a. \A q : Passed(q) => Passed(q)'
  BY PassedKept
<1>b. /\ \A s \in todo \cup called : s \in Paths /\ s # Market /\ (s = Entry <=> Front(s) = Market)
                                     /\ (s # Entry => Front(s) \in called)
      /\ waiting \subseteq called /\ bidding \subseteq called
  BY <1>0, Request DEF TypeOK
<1>c. ASSUME NEW p \in todo \cup called, NEW q \in FollowUps(p)
      PROVE  Front(q) = p /\ q \in Paths /\ q # Entry
  BY <1>0, Request, AskedAreOnward DEF Onward
<1>d. Ordered => ~Sampled
  BY DEF Ordered, Sampled
<1>1. ASSUME NEW q \in todo, Ask(q) PROVE OrderInv'
  <2>1. /\ called' = called \cup {q} /\ waiting' = waiting \cup {q}
        /\ UNCHANGED <<build, declined, faults, ended, bids>>
        /\ build = "edge_furthest" => todo' = (todo \ {q}) \cup FollowUps(q)
        /\ build # "edge_furthest" => todo' = todo \ {q}
        /\ Turn(q)
    BY <1>1 DEF Ask
  <2>2. \A s, t : Before(s, t)' = Before(s, t)
    BY <2>1 DEF Before
  <2>3. \A r \in called' : Way(r) \subseteq called'
    <3>1. Way(q) \subseteq called \cup {q}
      <4>1. Way(Market) = {}
        BY EntryPath DEF Way
      <4> QED BY <1>0, <1>b, <4>1, Ways DEF OrderInv
    <3> QED BY <1>0, <2>1, <3>1 DEF OrderInv
  <2>4. build = "edge_first" => \A s \in todo' \cup called' : s = Entry \/ Front(s) \in declined'
    BY <1>0, <2>1 DEF OrderInv
  <2>5. ~Sampled => \A v, w \in waiting' : Front(v) = Front(w) => v = w
    <3>1. ASSUME ~Sampled, NEW v \in waiting, Front(v) = Front(q) PROVE v = q
      BY <1>b, <2>1, <3>1 DEF Turn, Below
    <3> QED BY <1>0, <2>1, <3>1 DEF OrderInv
  <2>6. Ordered => \A s \in todo' \cup waiting' : s = Entry \/
          \A x \in FollowUps(Front(s)) : x \in todo' \cup waiting' \/ Passed(x)'
    <3>1. ASSUME Ordered, NEW s \in todo \cup waiting, s # Entry, NEW x \in FollowUps(Front(s))
          PROVE  x \in todo' \cup waiting' \/ Passed(x)'
      BY <1>0, <1>a, <2>1, <3>1 DEF OrderInv, Ordered
    <3>2. ASSUME build = "edge_furthest", NEW s \in FollowUps(q) PROVE FollowUps(Front(s)) \subseteq todo'
      BY <1>c, <2>1, <3>2
    <3> QED BY <2>1, <3>1, <3>2 DEF Ordered
  <2>7. Ordered => \A s \in called' : s = Entry \/
          \A x \in FollowUps(Front(s)) : Before(x, s)' => Passed(x)'
    <3>1. ASSUME Ordered, q # Entry, NEW x \in FollowUps(Front(q)), Before(x, q) PROVE Passed(x)
      <4>1. x \in todo \cup waiting \/ Passed(x)
        BY <1>0, <3>1 DEF OrderInv, Ordered
      <4>2. ASSUME x \in todo \cup waiting PROVE FALSE
        <5>1. x \in Below(Front(q)) /\ Front(q) # Market
          BY <1>b, <1>c, <3>1, <4>2 DEF Below
        <5> QED BY <1>d, <2>1, <3>1, <4>2, <5>1 DEF Turn, Ordered
      <4> QED BY <4>1, <4>2
    <3>2. ASSUME Ordered, NEW s \in called, s # Entry, NEW x \in FollowUps(Front(s)), Before(x, s)
          PROVE  Passed(x)
      BY <1>0, <3>2 DEF OrderInv, Ordered
    <3> QED BY <1>a, <2>1, <2>2, <3>1, <3>2
  <2> QED BY <2>1, <2>3, <2>4, <2>5, <2>6, <2>7 DEF OrderInv, Ordered, Sampled, Way
<1>2. ASSUME NEW q \in todo \cup waiting, Errs(q),
             UNCHANGED <<build, called, bidding, declined, bids, recorded>>
      PROVE  OrderInv'
  <2>1. todo' \subseteq todo /\ waiting' \subseteq waiting
    BY <1>2 DEF Errs
  <2>2. Ordered => todo' = todo \ {q} /\ waiting' = waiting \ {q} /\ Passed(q)'
    BY <1>2, <1>d DEF Errs, Passed
  <2> QED BY <1>2, <2>1, <2>2, OrderLess
<1>3. ASSUME NEW p \in called, BidMade(p) PROVE OrderInv'
  <2>1. CASE Ordered
    <3>1. UNCHANGED <<build, todo, called, declined, waiting>>
      BY <1>3, <1>d, <2>1 DEF BidMade
    <3> QED BY <3>1, OrderLess
  <2>2. CASE ~Ordered
    <3>1. UNCHANGED <<build, called, waiting>>
      BY <1>3 DEF BidMade
    <3> QED BY <1>0, <2>2, <3>1 DEF OrderInv, Ordered, Sampled, Way
  <2> QED BY <2>1, <2>2
<1>4. ASSUME NEW p \in called, NoBid(p) PROVE OrderInv'
  <2>1. UNCHANGED <<build, called, waiting>> /\ declined' = declined \cup {p}
    BY <1>4 DEF NoBid
  <2>2. CASE build = "edge_furthest"
    <3>1. todo' = todo
      BY <1>4, <2>2 DEF NoBid
    <3> QED BY <2>1, <3>1, OrderLess
  <2>3. CASE build = "edge_first"
    <3>1. todo' = todo \cup FollowUps(p)
      BY <1>4, <2>3 DEF NoBid, AskAround, Candidates, Sampled
    <3>2. \A s, t : Before(s, t)' = Before(s, t)
      BY <2>1 DEF Before
    <3>3. \A s \in todo' \cup called' : s = Entry \/ Front(s) \in declined'
      BY <1>0, <1>c, <2>1, <2>3, <3>1 DEF OrderInv
    <3>4. \A s \in todo' \cup waiting' : s = Entry \/
            \A x \in FollowUps(Front(s)) : x \in todo' \cup waiting' \/ Passed(x)'
      BY <1>0, <1>a, <1>c, <2>1, <2>3, <3>1 DEF OrderInv
    <3>5. \A s \in called' : s = Entry \/ \A x \in FollowUps(Front(s)) : Before(x, s)' => Passed(x)'
      BY <1>0, <1>a, <2>1, <2>3, <3>2 DEF OrderInv
    <3>6. /\ \A r \in called' : Way(r) \subseteq called'
          /\ ~Sampled => \A v, w \in waiting' : Front(v) = Front(w) => v = w
      BY <1>0, <2>1 DEF OrderInv
    <3> QED BY <2>1, <3>3, <3>4, <3>5, <3>6 DEF OrderInv, Sampled, Way
  <2>4. CASE ~Ordered
    BY <1>0, <2>1, <2>4 DEF OrderInv, Ordered, Sampled, Way
  <2> QED BY <2>2, <2>3, <2>4 DEF Ordered
<1>5. ASSUME NEW p \in called, BidPanics(p) \/ BidLast(p) \/ Answer(p) PROVE OrderInv'
  <2>1. UNCHANGED <<build, todo, called, declined, waiting>>
    BY <1>5 DEF BidPanics, BidLast, Answer
  <2> QED BY <2>1, OrderLess
\* Requests that are given up together were below one node.
<1>6. ASSUME NEW p, NEW s \in todo \cup waiting, s # Entry, Front(s) # p, NEW x \in Below(p)
      PROVE  x \notin FollowUps(Front(s))
  BY <1>b, <1>c, <1>6 DEF Below
<1>7. ASSUME NEW q \in called, Take(q) PROVE OrderInv'
  <2>1. /\ q \in waiting \cap ended /\ waiting' = waiting \ {q}
        /\ UNCHANGED <<build, called, declined, ended>>
        /\ todo' = IF Sampled \/ Held(q) = {} THEN todo ELSE todo \ Below(Front(q))
    BY <1>7 DEF Take
  <2>2. CASE Sampled \/ Held(q) = {}
    <3>1. todo' = todo /\ (Ordered => Passed(q)')
      BY <1>a, <1>d, <2>1, <2>2 DEF Passed
    <3> QED BY <2>1, <3>1, OrderLess
  <2>3. CASE ~(Sampled \/ Held(q) = {})
    <3>1. todo' = todo \ Below(Front(q)) /\ q \in Below(Front(q))
      BY <2>1, <2>3 DEF Below
    <3>2. \A s \in todo' \cup waiting' : Front(s) # Front(q)
      BY <1>0, <2>1, <2>3, <3>1 DEF Below, OrderInv
    <3>3. \A x \in Below(Front(q)) : \A s \in todo' \cup waiting' : s = Entry \/ x \notin FollowUps(Front(s))
      BY <1>6, <2>1, <3>1, <3>2
    <3> QED BY <2>1, <3>1, <3>3, OrderLess
  <2> QED BY <2>2, <2>3
<1>8. ASSUME NEW p \in called, Cancel(p) PROVE OrderInv'
  <2>1. /\ todo' = todo \ Below(p) /\ waiting' = waiting \ Below(p)
        /\ UNCHANGED <<build, called, declined>>
    BY <1>8 DEF Cancel
  <2>2. \A s \in todo' \cup waiting' : Front(s) # p
    BY <2>1 DEF Below
  <2>3. \A x \in Below(p) : \A s \in todo' \cup waiting' : s = Entry \/ x \notin FollowUps(Front(s))
    BY <1>6, <2>1, <2>2
  <2> QED BY <2>1, <2>3, OrderLess
<1>9. CASE UNCHANGED vars
  <2>1. UNCHANGED <<build, todo, called, declined, waiting>>
    BY <1>9 DEF vars
  <2> QED BY <2>1, OrderLess
<1> QED BY <1>1, <1>2, <1>3, <1>4, <1>5, <1>7, <1>8, <1>9, Steps, <1>0 DEF Unasked, Lose, TypeOK

-----------------------------------------------------------------------------
LEMMA InitIInv == Init => IInv
<1> SUFFICES ASSUME Init PROVE IInv
  OBVIOUS
<1>1. TypeOK
  <2>1. QuotaOK
    BY BuildsAssumption DEF Init, QuotaOK
  <2> QED BY <2>1, EntryPath DEF Init, TypeOK
<1>2. RequestInv
  BY DEF Init, RequestInv
<1>3. HandInv
  <2>1. \A p : Held(p) = {}
    BY DEF Init, Held
  <2> QED BY <2>1 DEF Init, HandInv, Over
<1>4. ChainInv
  BY DEF Init, ChainInv, Held
<1>5. OrderInv
  BY DEF Init, OrderInv
<1> QED BY <1>1, <1>2, <1>3, <1>4, <1>5 DEF IInv

(* The invariant holds of every call for bids, whatever the build.         *)
THEOREM LimitedInvariance == Spec => []IInv
<1>1. Init => IInv
  BY InitIInv
<1>2. IInv /\ [Next]_vars => IInv'
  BY TypeStep, RequestStep, HandStep, ChainStep, OrderStep DEF IInv
<1> QED BY <1>1, <1>2, PTL DEF Spec

(* When the market has its answer or error, every proposal that a node     *)
(* remembers and sent along is in the answer, or a fault on its way        *)
(* explains it; where errors are passed on, the market got the error.      *)
THEOREM NobodyLeftBehind == Spec => []NoneLeftBehind
<1>1. IInv => NoneLeftBehind
  <2> SUFFICES ASSUME IInv, Over, NEW r \in recorded, r \notin Held(Market), <<r, r>> \in bids
               PROVE  \/ ~Sampled /\ \E x \in faults : IsPrefix(x, r)
                      \/ Sampled /\ Held(Market) = {} /\ Entry \in faults \cup spoiled
    BY DEF NoneLeftBehind
  <2>0. TypeOK /\ RequestInv /\ ChainInv
    BY DEF IInv
  <2>1. r \in Paths /\ r # Market /\ \A q \in waiting : Front(q) # Market
    BY <2>0, Request DEF TypeOK, Over
  <2>2. Broken(r)
    <3>1. PICK q \in Way(r) : Front(q) = Market
      BY <2>1, Ways
    <3>2. <<Market, r>> \notin bids
      BY DEF Held
    <3> QED BY <2>0, <2>1, <3>1, <3>2 DEF ChainInv
  <2>3. PICK x \in Way(r) \cap faults : x \in Paths /\ IsPrefix(x, r)
    BY <2>1, <2>2, Ways DEF Broken
  <2>4. ASSUME Sampled PROVE Entry \in faults
    <3>1. ASSUME NEW z \in Way(x), Way(z) \subseteq waiting PROVE FALSE
      BY <2>1, <2>3, <3>1, Ways
    <3> QED BY <2>0, <2>3, <2>4, <3>1 DEF ChainInv, Alarm
  <2> QED BY <2>0, <2>3, <2>4 DEF ChainInv
<1> QED BY <1>1, LimitedInvariance, PTL

(* A proposal taken from a neighbour is the first in the order of the      *)
(* build: who comes before it failed or has none.                          *)
THEOREM FirstComesFirst == Spec => []InOrder
<1>1. IInv => InOrder
  <2> SUFFICES ASSUME IInv, NEW p \in called, NEW r \in Held(p) \ {p}
               PROVE  /\ build = "edge_first" => p \in declined
                      /\ Ordered => \A q \in FollowUps(p) :
                           Before(q, SubSeq(r, 1, Len(p) + 1)) => Passed(q)
    BY DEF InOrder, Ordered, Passed
  <2>0. TypeOK /\ RequestInv /\ ChainInv /\ OrderInv
    BY DEF IInv
  <2> DEFINE next == Len(p) + 1
  <2>1. r \in called /\ r \in Paths /\ p \in Way(r) /\ p \in Paths
    BY <2>0, Request DEF Held, TypeOK, ChainInv
  <2>2. /\ Len(p) \in Nat /\ next \in 1..Len(r) /\ next # 1
        /\ p = SubSeq(r, 1, next - 1)
    <3>1. PICK k \in 1..Len(r) : p = SubSeq(r, 1, k)
      BY <2>1 DEF Way
    <3>2. Len(p) = k /\ Len(r) \in Nat
      BY <2>1, <3>1, Beginnings DEF Paths
    <3>3. k # Len(r)
      <4>1. SubSeq(r, 1, Len(r)) = r
        BY <2>1 DEF Paths
      <4> QED BY <3>1, <4>1
    <3>4. k + 1 \in 1..Len(r) /\ (k + 1) - 1 = k /\ k + 1 # 1 /\ k \in Nat
      BY <3>2, <3>3
    <3> QED BY <3>1, <3>2, <3>4
  <2> HIDE DEF next
  <2>3. /\ SubSeq(r, 1, next) \in Way(r) /\ Front(SubSeq(r, 1, next)) = p
        /\ Len(SubSeq(r, 1, next)) # 1
    BY <2>1, <2>2, Beginnings DEF Way
  <2>4. SubSeq(r, 1, next) \in called /\ SubSeq(r, 1, next) # Entry
    BY <2>0, <2>1, <2>3, EntryPath DEF OrderInv
  <2>5. /\ build = "edge_first" => p \in declined
        /\ Ordered => \A q \in FollowUps(p) : Before(q, SubSeq(r, 1, next)) => Passed(q)
    BY <2>0, <2>3, <2>4 DEF OrderInv, Ordered
  <2> QED BY <2>5 DEF next
<1> QED BY <1>1, LimitedInvariance, PTL

-----------------------------------------------------------------------------
(* How many proposals come together.  No more neighbours are asked than    *)
(* proposals are missing, ...                                              *)
LEMMA FewAsked ==
  ASSUME Sampled, NEW p \in Paths, Len(p) > 0, NEW found, Missing(p, found) \in Int,
         NEW asked \in Candidates(p, found)
  PROVE  /\ IsFiniteSet(asked)
         /\ Cardinality(asked) <= Missing(p, found)
         /\ Cardinality(asked) <= Cardinality(Neighbors(Last(p)))
<1> DEFINE around == Neighbors(Last(p))
           k == Missing(p, found)
<1>1. PICK drawn \in SUBSET around :
        /\ Cardinality(drawn) = Min({k, Cardinality(around)})
        /\ asked = {q \in FollowUps(p) : Last(q) \in drawn}
  BY DEF Candidates, Sampled, kSubset
<1>2. around \subseteq Nodes /\ IsFiniteSet(around) /\ IsFiniteSet(drawn)
  <2>1. Last(p) \in Nodes
    BY DEF Last, Paths
  <2> QED BY <1>1, <2>1, FewNeighbors, FS_Subset
<1>3. Cardinality(drawn) <= k /\ Cardinality(drawn) <= Cardinality(around)
  <2>1. Cardinality(around) \in Int
    BY <1>2, FS_CardinalityType
  <2>2. \E x \in {k, Cardinality(around)} : \A y \in {k, Cardinality(around)} : x =< y
    BY <2>1
  <2>3. \A y \in {k, Cardinality(around)} : Min({k, Cardinality(around)}) =< y
    BY <2>2 DEF Min
  <2> QED BY <1>1, <2>3
<1>4. IsFiniteSet(asked) /\ Cardinality(asked) <= Cardinality(drawn)
  <2> DEFINE to == [q \in asked |-> Last(q)]
  <2>1. \A q \in asked : \E n \in Nodes : q = Append(p, n)
    BY <1>1, <1>2 DEF FollowUps
  <2>2. \A q \in asked : q = Append(p, Last(q)) /\ Last(q) \in drawn
    BY <1>1, <2>1, OneStepOn
  <2>3. to \in Injection(asked, drawn)
    BY <2>2 DEF Injection, IsInjective
  <2> QED BY <1>2, <2>3, FS_Injection
<1>5. Cardinality(asked) \in Int /\ Cardinality(drawn) \in Int /\ Cardinality(around) \in Int
  BY <1>2, <1>4, FS_CardinalityType
<1> QED BY <1>3, <1>4, <1>5

(* ... so that for two proposals the shares are no more than that.         *)
LEMMA SharesFit ==
  ASSUME NEW k \in 0..2, NEW n \in Nat, NEW a \in Nat, a > 0, a <= k, a <= n
  PROVE  Share(k, n) \in {1, 2} /\ Share(k, n) * a <= k
<1>1. CASE k <= n
  BY <1>1 DEF Share
<1>2. CASE ~(k <= n)
  <2>1. k = 2 /\ n = 1 /\ a = 1
    BY <1>2
  <2>2. (2 + 1 - 1) \div 1 = 2
    OBVIOUS
  <2>3. Share(2, 1) = 2
    BY <2>2 DEF Share
  <2> QED BY <2>1, <2>3
<1> QED BY <1>1, <1>2

(* What is below a node is asked for something.                            *)
LEMMA Quotas ==
  ASSUME TypeOK, RequestInv, ShareInv, Sampled
  PROVE  /\ \A p \in {Market} \cup called : p \in DOMAIN quota /\ quota[p] \in {1, 2} /\ Wanted(p) = quota[p]
         /\ \A p : \A q \in Below(p) : q \in DOMAIN quota /\ quota[q] \in {1, 2}
         /\ \A p \in {Market} \cup called : Fits(p)
<1>1. \A q \in DOMAIN quota : quota[q] \in {1, 2}
  BY DEF TypeOK, QuotaOK, ShareInv
<1>2. \A p : Below(p) \subseteq todo \cup called
  BY DEF Below, TypeOK
<1>3. {Market} \cup todo \cup called \subseteq DOMAIN quota
  BY DEF TypeOK, QuotaOK
<1> QED BY <1>1, <1>2, <1>3 DEF ShareInv, Wanted

(* A node that waits for less has no more to come.                         *)
LEMMA FitsLess ==
  ASSUME TypeOK, RequestInv, ShareInv, Sampled, NEW p \in {Market} \cup called,
         Held(p)' = Held(p), Below(p)' \subseteq Below(p),
         quota'[p] = quota[p], \A q \in Below(p) : quota'[q] = quota[q]
  PROVE  Fits(p)'
<1>1. /\ IsFiniteSet(Below(p)) /\ IsFiniteSet(Held(p)) /\ quota[p] \in Int
      /\ \A q \in Below(p) :
            /\ quota[q] \in {1, 2}
            /\ Cardinality(Held(p)) + quota[q] * Cardinality(Below(p)) <= quota[p]
            /\ \A s \in Below(p) : quota[s] = quota[q]
  BY Quotas DEF Fits, ShareInv
<1>2. IsFiniteSet(Below(p)') /\ Cardinality(Below(p)') <= Cardinality(Below(p))
  BY <1>1, FS_Subset
<1>3. Cardinality(Below(p)') \in Nat /\ Cardinality(Below(p)) \in Nat /\ Cardinality(Held(p)) \in Nat
  BY <1>1, <1>2, FS_CardinalityType
<1>4. ASSUME NEW q \in Below(p)'
      PROVE  Cardinality(Held(p)') + quota'[q] * Cardinality(Below(p)') <= quota'[p]
  <2>1. CASE quota[q] = 1
    BY <1>1, <1>2, <1>3, <1>4, <2>1
  <2>2. CASE quota[q] = 2
    BY <1>1, <1>2, <1>3, <1>4, <2>2
  <2> QED BY <1>1, <1>4, <2>1, <2>2
<1> QED BY <1>1, <1>2, <1>4 DEF Fits

LEMMA ShareLess ==
  ASSUME TypeOK, RequestInv, ShareInv, UNCHANGED <<build, quota, called, bids>>,
         todo' \cup waiting' \subseteq todo \cup waiting
  PROVE  ShareInv'
<1>1. \A p : Held(p)' = Held(p) /\ Below(p)' \subseteq Below(p)
  BY SameHands DEF Below
<1>2. Sampled' = Sampled /\ \A p : Wanted(p)' = Wanted(p)
  BY DEF Sampled, Wanted
<1>3. ASSUME Sampled, NEW p \in {Market} \cup called PROVE Fits(p)'
  BY <1>1, <1>3, FitsLess
<1> QED BY <1>1, <1>2, <1>3 DEF ShareInv

(* Asking around, with what the node found itself in hand.                 *)
LEMMA ShareAround ==
  ASSUME TypeOK, RequestInv, ShareInv, Sampled, NEW p \in bidding, NEW found \in {0, 1},
         AskAround(p, found), UNCHANGED <<build, called, waiting>>,
         IsFiniteSet(Held(p)'), Cardinality(Held(p)') = found,
         \A x : x # p => Held(x)' = Held(x)
  PROVE  ShareInv'
<1> DEFINE n == Cardinality(Neighbors(Last(p)))
           k == Missing(p, found)
<1>1. /\ p \in called /\ p \in Paths /\ Len(p) > 0 /\ Below(p) = {}
      /\ \A s \in todo \cup called : Front(s) # p
  <2>1. p \in called /\ p \in Paths /\ Len(p) > 0
    BY Request DEF TypeOK
  <2>2. \A s \in todo \cup called : s = Entry \/ Front(s) # p
    BY DEF RequestInv, Sampled
  <2>3. Front(Entry) # p
    BY <2>1, EntryPath
  <2> QED BY <2>1, <2>2, <2>3 DEF Below, TypeOK
<1>2. /\ \A x \in {Market} \cup called :
           x \in DOMAIN quota /\ quota[x] \in {1, 2} /\ Wanted(x) = quota[x]
      /\ \A x : \A q \in Below(x) : q \in DOMAIN quota
  BY Quotas
<1>3. k = quota[p] - found /\ k \in 0..2
  BY <1>1, <1>2 DEF Missing
<1>4. n \in Nat
  <2>1. Last(p) \in Nodes
    BY <1>1 DEF Last, Paths
  <2> QED BY <2>1, FewNeighbors, FS_CardinalityType
<1>5. PICK asked \in Candidates(p, found) :
        /\ todo' = todo \cup asked /\ asked \subseteq FollowUps(p)
        /\ quota' \in [DOMAIN quota \cup asked -> Nat \ {0}]
        /\ \A q \in asked : quota'[q] = Share(k, n)
        /\ \A q \in DOMAIN quota \ asked : quota'[q] = quota[q]
  <2>1. found \in Nat
    OBVIOUS
  <2> HIDE DEF n, k
  <2> QED BY <1>1, <2>1, AskAroundEffect DEF n, k
<1>6. IsFiniteSet(asked) /\ Cardinality(asked) \in Nat /\ Cardinality(asked) <= k /\ Cardinality(asked) <= n
  <2>1. IsFiniteSet(asked) /\ Cardinality(asked) <= k /\ Cardinality(asked) <= n
    BY <1>1, <1>3, <1>5, FewAsked
  <2> QED BY <2>1, FS_CardinalityType
<1> HIDE DEF n, k
<1>7. \A q \in asked : Front(q) = p /\ q \notin todo \cup called
  BY <1>1, <1>5, AskedAreOnward DEF Onward
<1>8. Below(p)' = asked /\ \A x : x # p => Below(x)' = Below(x)
  BY <1>1, <1>5, <1>7 DEF Below
<1>9. \A q \in asked : Share(k, n) \in {1, 2} /\ Share(k, n) * Cardinality(asked) <= k
  <2>1. asked # {} => Cardinality(asked) > 0
    BY <1>6, FS_EmptySet
  <2> QED BY <1>3, <1>4, <1>6, <2>1, SharesFit
<1>10. \A x \in {Market} \cup called : x \notin asked /\ quota'[x] = quota[x]
  <2>1. Market \notin asked
    BY <1>1, <1>5, AskedAreOnward, EntryPath DEF Onward
  <2> QED BY <1>2, <1>5, <1>7, <2>1
<1>11. \A q \in DOMAIN quota' : quota'[q] <= 2
  BY <1>5, <1>9 DEF ShareInv
<1>12. Sampled' = Sampled /\ \A x \in {Market} \cup called : Wanted(x)' = Wanted(x)
  BY <1>10 DEF Sampled, Wanted
<1>13. Fits(p)' /\ Cardinality(Held(p)') <= Wanted(p)'
  <2>1. found <= quota[p]
    BY <1>1, <1>2
  <2>2. ASSUME NEW q \in asked
        PROVE  Cardinality(Held(p)') + quota'[q] * Cardinality(asked) <= quota'[p]
    <3>1. quota'[q] = Share(k, n) /\ quota'[p] = quota[p]
      BY <1>1, <1>5, <1>10
    <3>2. Share(k, n) * Cardinality(asked) \in Int /\ quota[p] \in Int
      BY <1>1, <1>2, <1>6, <1>9, <2>2
    <3> QED BY <1>3, <1>9, <2>2, <3>1, <3>2
  <2> QED BY <1>1, <1>2, <1>5, <1>6, <1>8, <1>12, <2>1, <2>2 DEF Fits
<1>14. ASSUME NEW x \in {Market} \cup called, x # p
       PROVE  Fits(x)' /\ IsFiniteSet(Held(x)') /\ Cardinality(Held(x)') <= Wanted(x)'
  <2>1. \A q \in Below(x) : q \notin asked
    BY <1>7 DEF Below, TypeOK
  <2>2. \A q \in Below(x) : quota'[q] = quota[q]
    BY <1>2, <1>5, <2>1
  <2>3. Fits(x)'
    BY <1>8, <1>10, <1>14, <2>2, FitsLess
  <2> QED BY <1>12, <1>14, <2>3 DEF ShareInv
<1> QED BY <1>11, <1>12, <1>13, <1>14 DEF ShareInv

(* What Held collects from a set of pairs.                                 *)
LEMMA InHand ==
  ASSUME NEW S, NEW T, NEW B \in SUBSET (S \X T), NEW x, NEW r
  PROVE  r \in {b[2] : b \in {b \in B : b[1] = x}} <=> <<x, r>> \in B
<1>1. ASSUME NEW b \in B PROVE b = <<b[1], b[2]>>
  BY <1>1
<1>2. <<x, r>>[1] = x /\ <<x, r>>[2] = r
  OBVIOUS
<1> QED BY <1>1, <1>2

(* An answer brings at most what it was asked for, and is awaited no more. *)
LEMMA ShareTaken ==
  ASSUME TypeOK, RequestInv, HandInv, OrderInv, ShareInv, NEW q \in called, Take(q)
  PROVE  ShareInv'
<1> DEFINE p == Front(q)
<1>1. p \in {Market} \cup called /\ q \in waiting /\ q \notin todo /\ q \in Below(p)
  BY Request DEF Take, RequestInv, Below
<1>2. /\ waiting' = waiting \ {q} /\ UNCHANGED <<build, quota, called>>
      /\ bids' = bids \cup {<<p, r>> : r \in Held(q)}
      /\ todo' = IF Sampled \/ Held(q) = {} THEN todo ELSE todo \ Below(p)
  BY DEF Take
<1> HIDE DEF p
<1>3. Held(p)' = Held(p) \cup Held(q) /\ \A x : x # p => Held(x)' = Held(x)
  <2>1. bids \subseteq ({Market} \cup called) \X recorded
    BY DEF TypeOK
  <2>2. \A x, r : r \in Held(x) <=> <<x, r>> \in bids
    BY <2>1, InHand DEF Held
  <2>3. Held(q) \subseteq recorded
    BY DEF Held, TypeOK
  <2>4. bids' \subseteq ({Market} \cup called) \X recorded
    BY <1>1, <1>2, <2>1, <2>3
  <2>5. \A x, r : r \in Held(x)' <=> <<x, r>> \in bids'
    BY <2>4, InHand DEF Held
  <2>6. \A x, r : <<x, r>> \in bids' <=> <<x, r>> \in bids \/ (x = p /\ r \in Held(q))
    BY <1>2
  <2>7. \A x : Held(x)' = Held(x) \cup (IF x = p THEN Held(q) ELSE {})
    BY <2>2, <2>5, <2>6
  <2> QED BY <2>7
<1>4. Sampled' = Sampled /\ \A x : Wanted(x)' = Wanted(x)
  BY <1>2 DEF Sampled, Wanted
<1>5. /\ IsFiniteSet(Held(p)) /\ IsFiniteSet(Held(q)) /\ Cardinality(Held(q)) <= Wanted(q)
      /\ Cardinality(Held(p)) <= Wanted(p)
  BY <1>1 DEF ShareInv
<1>6. /\ IsFiniteSet(Held(p)') /\ Cardinality(Held(p)') <= Cardinality(Held(p)) + Cardinality(Held(q))
      /\ Cardinality(Held(p)) \in Nat /\ Cardinality(Held(q)) \in Nat /\ Cardinality(Held(p)') \in Nat
  <2>1. /\ IsFiniteSet(Held(p)')
        /\ Cardinality(Held(p)') = Cardinality(Held(p)) + Cardinality(Held(q)) - Cardinality(Held(p) \cap Held(q))
    BY <1>3, <1>5, FS_Union
  <2>2. IsFiniteSet(Held(p) \cap Held(q))
    BY <1>5, FS_Subset
  <2> QED BY <1>5, <2>1, <2>2, FS_CardinalityType
<1>7. CASE Sampled
  <2>1. /\ IsFiniteSet(Below(p)) /\ quota[q] \in {1, 2} /\ quota[p] \in {1, 2}
        /\ Wanted(q) = quota[q] /\ Wanted(p) = quota[p]
        /\ Cardinality(Held(p)) + quota[q] * Cardinality(Below(p)) <= quota[p]
        /\ \A s \in Below(p) : quota[s] = quota[q]
    BY <1>1, <1>7, Quotas DEF Fits
  <2>2. Below(p)' = Below(p) \ {q} /\ \A x : x # p => Below(x)' \subseteq Below(x)
    BY <1>1, <1>2, <1>7 DEF Below
  <2>3. /\ IsFiniteSet(Below(p)') /\ Cardinality(Below(p)') = Cardinality(Below(p)) - 1
        /\ Cardinality(Below(p)) \in Nat /\ Cardinality(Below(p)') \in Nat
    BY <1>1, <2>1, <2>2, FS_RemoveElement, FS_CardinalityType
  <2>4. /\ Cardinality(Held(p)') <= quota[p]
        /\ Cardinality(Held(p)') + quota[q] * Cardinality(Below(p)') <= quota[p]
    <3>1. CASE quota[q] = 1
      BY <1>5, <1>6, <2>1, <2>3, <3>1
    <3>2. CASE quota[q] = 2
      BY <1>5, <1>6, <2>1, <2>3, <3>2
    <3> QED BY <2>1, <3>1, <3>2
  <2>5. Fits(p)'
    BY <1>2, <2>1, <2>2, <2>3, <2>4 DEF Fits
  <2>6. ASSUME NEW x \in {Market} \cup called, x # p PROVE Fits(x)'
    BY <1>2, <1>3, <1>7, <2>2, <2>6, FitsLess
  <2> QED BY <1>2, <1>3, <1>4, <1>6, <1>7, <2>1, <2>4, <2>5, <2>6 DEF ShareInv
<1>8. CASE ~Sampled
  <2>1. Held(p) = {}
    BY <1>1, <1>8 DEF ShareInv
  <2>2. Held(p)' = Held(q) /\ Cardinality(Held(p)') <= Wanted(p)'
    BY <1>3, <1>4, <1>5, <1>8, <2>1 DEF Wanted
  <2>3. Below(p)' = {} \/ Held(p)' = {}
    <3>1. ASSUME Held(q) # {} PROVE Below(p)' = {}
      <4>1. \A v \in waiting : Front(v) = p => v = q
        BY <1>1, <1>8 DEF OrderInv, p
      <4> QED BY <1>2, <1>8, <3>1, <4>1 DEF Below
    <3> QED BY <2>2, <3>1
  <2>4. \A x : Below(x)' \subseteq Below(x)
    BY <1>2 DEF Below
  <2> QED BY <1>2, <1>3, <1>4, <1>6, <1>8, <2>2, <2>3, <2>4 DEF ShareInv
<1> QED BY <1>7, <1>8

LEMMA ShareStep == IInv /\ ShareInv /\ [Next]_vars => ShareInv'
<1> SUFFICES ASSUME IInv, ShareInv, [Next]_vars PROVE ShareInv'
  OBVIOUS
<1>0. TypeOK /\ RequestInv /\ HandInv /\ OrderInv
  BY DEF IInv
<1>1. ASSUME NEW q \in todo, Ask(q) PROVE ShareInv'
  <2>1. /\ q \notin {Market} \cup called /\ q \in Paths /\ Len(q) > 0
        /\ \A s \in todo \cup called : Front(s) # q
    <3>1. Front(Entry) # q
      BY <1>0, Request, EntryPath
    <3> QED BY <1>0, <3>1, Request DEF RequestInv
  <2>2. called' = called \cup {q} /\ waiting' = waiting \cup {q} /\ UNCHANGED <<build, quota, bids>>
    BY <1>1 DEF Ask
  <2>3. Sampled' = Sampled /\ \A x : Wanted(x)' = Wanted(x) /\ Held(x)' = Held(x)
    BY <2>2, SameHands DEF Sampled, Wanted
  <2>4. Held(q) = {} /\ Below(q) = {}
    BY <1>0, <2>1 DEF Held, Below, TypeOK
  <2>5. IsFiniteSet(Held(q)) /\ Cardinality(Held(q)) <= Wanted(q)
    <3>1. Wanted(q) \in Nat
      BY <1>0 DEF Wanted, TypeOK, QuotaOK
    <3> QED BY <2>4, <3>1, FS_EmptySet
  <2>6. \A x : x # q => Below(x)' = Below(x)
    <3>1. \A s \in FollowUps(q) : Front(s) = q
      BY <2>1, AskedAreOnward DEF Onward
    <3> QED BY <1>1, <2>2, <3>1 DEF Ask, Below
  <2>7. ASSUME Sampled PROVE Fits(q)' /\ \A x \in {Market} \cup called : Fits(x)'
    <3>1. todo' = todo \ {q}
      BY <1>1, <2>7 DEF Ask, Sampled
    <3>2. Below(q)' = {}
      BY <1>0, <2>1, <2>2, <3>1 DEF Below, TypeOK
    <3>3. Fits(q)'
      BY <3>2, FS_EmptySet DEF Fits
    <3>4. ASSUME NEW x \in {Market} \cup called PROVE Fits(x)'
      BY <1>0, <2>1, <2>2, <2>3, <2>6, <2>7, <3>4, FitsLess
    <3> QED BY <3>3, <3>4
  <2> QED BY <2>2, <2>3, <2>4, <2>5, <2>6, <2>7 DEF ShareInv
<1>2. ASSUME NEW q \in todo \cup waiting, Errs(q),
             UNCHANGED <<build, quota, called, bidding, declined, bids, recorded>>
      PROVE  ShareInv'
  <2>1. todo' \subseteq todo /\ waiting' \subseteq waiting
    BY <1>0, <1>2, ErrsEffect
  <2> QED BY <1>0, <1>2, <2>1, ShareLess
\* Who bids has nothing in hand and waits for nothing.
<1>3. ASSUME NEW p \in bidding
      PROVE  /\ p \in called /\ p # Market /\ Held(p) = {} /\ p \in Paths /\ Len(p) > 0
             /\ ~Sampled => Wanted(p) = 1
             /\ build # "edge_furthest" => Below(p) = {}
  <2>1. p \in called /\ p # Market /\ Held(p) = {} /\ p \in Paths /\ Len(p) > 0
    BY <1>0, Request DEF TypeOK, HandInv
  <2>2. \A s \in todo \cup waiting : Front(s) # p
    BY <1>0, <2>1, EntryPath DEF RequestInv
  <2> QED BY <2>1, <2>2 DEF Wanted, Below
<1>4. ASSUME NEW p \in called, BidMade(p) PROVE ShareInv'
  <2>1. /\ p \in bidding /\ bids' = bids \cup {<<p, p>>} /\ UNCHANGED <<build, called, waiting>>
    BY <1>4 DEF BidMade
  <2>2. Held(p)' = {p} /\ \A x : x # p => Held(x)' = Held(x)
    <3>1. bids \subseteq ({Market} \cup called) \X recorded
      BY <1>0 DEF TypeOK
    <3>2. \A x, r : r \in Held(x) <=> <<x, r>> \in bids
      BY <3>1, InHand DEF Held
    <3>3. bids' \subseteq ({Market} \cup called) \X (recorded \cup {p})
      BY <2>1, <3>1
    <3>4. \A x, r : r \in Held(x)' <=> <<x, r>> \in bids'
      BY <3>3, InHand DEF Held
    <3>5. \A x, r : <<x, r>> \in bids' <=> <<x, r>> \in bids \/ (x = p /\ r = p)
      BY <2>1
    <3>6. \A x : Held(x)' = Held(x) \cup (IF x = p THEN {p} ELSE {})
      BY <3>2, <3>4, <3>5
    <3> QED BY <1>3, <2>1, <3>6
  <2>3. IsFiniteSet(Held(p)') /\ Cardinality(Held(p)') = 1
    BY <2>2, FS_Singleton
  <2>4. CASE Sampled
    <3>1. AskAround(p, 1)
      BY <1>4, <2>4 DEF BidMade
    <3> QED BY <1>0, <2>1, <2>2, <2>3, <2>4, <3>1, ShareAround
  <2>5. CASE ~Sampled
    <3>1. todo' = todo /\ quota' = quota
      BY <1>4, <2>5 DEF BidMade
    <3>2. \A x : Below(x)' = Below(x) /\ Wanted(x)' = Wanted(x)
      BY <2>1, <3>1 DEF Below, Wanted, Sampled
    <3>3. Below(p) = {}
      <4>1. \A s \in todo \cup waiting : Front(s) # p
        BY <1>0, <1>3, <2>1, EntryPath DEF RequestInv
      <4> QED BY <4>1 DEF Below
    <3>4. Wanted(p) = 1
      BY <1>3, <2>1, <2>5
    <3> QED BY <2>1, <2>2, <2>3, <2>5, <3>1, <3>2, <3>3, <3>4 DEF ShareInv, Sampled
  <2> QED BY <2>4, <2>5
<1>5. ASSUME NEW p \in called, NoBid(p) PROVE ShareInv'
  <2>1. p \in bidding /\ UNCHANGED <<build, called, waiting, bids>>
    BY <1>5 DEF NoBid
  <2>2. \A x : Held(x)' = Held(x)
    BY <2>1, SameHands
  <2>3. CASE build = "edge_furthest"
    <3>1. todo' = todo /\ quota' = quota
      BY <1>5, <2>3 DEF NoBid
    <3> QED BY <1>0, <2>1, <3>1, ShareLess
  <2>4. CASE Sampled
    <3>1. AskAround(p, 0)
      BY <1>5, <2>4 DEF NoBid, Sampled
    <3>2. IsFiniteSet(Held(p)') /\ Cardinality(Held(p)') = 0
      BY <1>3, <2>1, <2>2, FS_EmptySet
    <3> QED BY <1>0, <2>1, <2>2, <2>4, <3>1, <3>2, ShareAround
  <2>5. CASE build # "edge_furthest" /\ ~Sampled
    <3>1. PICK asked \in Candidates(p, 0) : todo' = todo \cup asked /\ quota' = quota
      BY <1>5, <2>5 DEF NoBid, AskAround
    <3>2. \A s \in asked : Front(s) = p
      BY <1>3, <2>1, AskedAreOnward DEF Onward
    <3>3. \A x : x # p => Below(x)' = Below(x)
      BY <2>1, <3>1, <3>2 DEF Below
    <3>4. \A x : Wanted(x)' = Wanted(x)
      BY <2>1, <3>1 DEF Wanted, Sampled
    <3>5. Held(p)' = {}
      BY <1>3, <2>1, <2>2
    <3> QED BY <2>1, <2>2, <2>5, <3>1, <3>3, <3>4, <3>5 DEF ShareInv, Sampled
  <2> QED BY <2>3, <2>4, <2>5
<1>6. ASSUME NEW p \in called, BidPanics(p) \/ BidLast(p) \/ Answer(p) \/ Cancel(p) PROVE ShareInv'
  <2>1. UNCHANGED <<build, quota, called, bids>> /\ todo' \cup waiting' \subseteq todo \cup waiting
    BY <1>6 DEF BidPanics, BidLast, Answer, Cancel
  <2> QED BY <1>0, <2>1, ShareLess
<1>7. ASSUME NEW q \in called, Take(q) PROVE ShareInv'
  BY <1>0, <1>7, ShareTaken
<1>8. CASE UNCHANGED vars
  BY <1>0, <1>8, ShareLess DEF vars
<1> QED BY <1>0, <1>1, <1>2, <1>4, <1>5, <1>6, <1>7, <1>8, Steps DEF Unasked, Lose, TypeOK

(* When the market wishes two proposals, as it does, or one, nobody gets   *)
(* more in hand than it was asked for, however requests are spread, failed *)
(* or lost, over any neighbours and latencies.                             *)
THEOREM NobodyGetsMore ==
  ASSUME Wished <= 2
  PROVE  Spec => []AtMostWanted
<1>1. Init => ShareInv
  <2> SUFFICES ASSUME Init PROVE ShareInv
    OBVIOUS
  <2>1. \A p : Held(p) = {}
    BY DEF Init, Held
  <2>2. /\ DOMAIN quota = {Market, Entry} /\ \A p \in DOMAIN quota : quota[p] = Wished
        /\ Market \in DOMAIN quota /\ called = {} /\ Wished \in Nat \ {0}
    BY BuildsAssumption DEF Init
  <2>3. Below(Market) = {Entry}
    BY EntryPath DEF Init, Below
  <2>4. Fits(Market)
    <3>1. IsFiniteSet({Entry}) /\ Cardinality({Entry}) = 1 /\ Cardinality({}) = 0
      BY FS_Singleton, FS_EmptySet
    <3>2. quota[Market] = Wished /\ quota[Entry] = Wished
      BY <2>2
    <3>3. 0 + Wished * 1 <= Wished
      BY <2>2
    <3>4. Cardinality(Held(Market)) = 0 /\ Cardinality(Below(Market)) = 1
      BY <2>1, <2>3, <3>1
    <3>5. \A q \in Below(Market) :
            Cardinality(Held(Market)) + quota[q] * Cardinality(Below(Market)) <= quota[Market]
      BY <2>3, <3>2, <3>3, <3>4
    <3> QED BY <2>3, <3>1, <3>5 DEF Fits
  <2>5. Wanted(Market) \in Nat
    BY <2>2 DEF Wanted
  <2> QED BY <2>1, <2>2, <2>4, <2>5, FS_EmptySet DEF ShareInv
<1>2. IInv /\ ShareInv /\ [Next]_vars => ShareInv'
  BY ShareStep
<1>3. ShareInv => AtMostWanted
  BY DEF ShareInv, AtMostWanted
<1> QED BY <1>1, <1>2, <1>3, LimitedInvariance, PTL DEF Spec

-----------------------------------------------------------------------------
Offers == {Last(r) : r \in recorded}
Bidders == {Last(r) : r \in Held(Market)}

(* What the market does not see.                                           *)
Unseen ==
  /\ Over' = Over /\ Held(Market)' = Held(Market)
  /\ Over => (Entry \in spoiled' \cup faults' <=> Entry \in spoiled \cup faults)

LEMMA UnseenKept ==
  ASSUME Unseen
  PROVE  Outcome' = Outcome /\ Bidders' = Bidders
<1>1. Outcome' = Outcome
  BY DEF Unseen, Outcome
<1>2. Bidders' = Bidders
  BY DEF Unseen, Bidders
<1> QED BY <1>1, <1>2

(* Every step is one of the promise, seen from the market.                 *)
LEMMA PromiseStep == IInv /\ [Next]_vars => [Promise!Next]_(Promise!vars)
<1> SUFFICES ASSUME IInv, [Next]_vars
             PROVE  [Promise!Next]_<<Outcome, Offers, Bidders>>
  BY DEF Promise!vars, Offers, Bidders
<1>0. TypeOK /\ RequestInv /\ HandInv
  BY DEF IInv
<1>a. Promise!Next <=>
        \/ \E n \in Nodes : Offers' = Offers \cup {n} /\ UNCHANGED <<Outcome, Bidders>>
        \/ \E b \in SUBSET Nodes :
             /\ Outcome = "awaited" /\ Outcome' = "answered"
             /\ b \subseteq Offers /\ Bidders' = b /\ UNCHANGED Offers
        \/ /\ Outcome = "awaited" /\ Outcome' = "failed" /\ UNCHANGED <<Offers, Bidders>>
  BY DEF Promise!Next, Promise!Propose, Promise!Answer, Promise!Fail, Offers, Bidders
<1>b. \A p \in called : p # Market /\ Last(p) \in Nodes /\ Entry \notin Below(p)
  <2> TAKE p \in called
  <2>1. p \in Paths /\ Len(p) > 0 /\ p # Market
    BY <1>0, Request
  <2> QED BY <2>1, EntryPath DEF Below, Paths, Last
<1>c. /\ todo \cap called = {} /\ bidding \cap ended = {} /\ spoiled \subseteq ended
      /\ bidding \cup ended \cup waiting \subseteq called
      /\ Over => Entry \in faults \cup ended
      /\ \A q \in todo \cup waiting : q = Entry \/ Front(q) \notin ended \cup bidding
  BY <1>0 DEF RequestInv, HandInv, TypeOK
<1>1. ASSUME NEW q \in todo, Ask(q) PROVE [Promise!Next]_<<Outcome, Offers, Bidders>>
  <2>1. Entry \notin FollowUps(q)
    BY <1>0, Request, AskedAreOnward DEF Onward
  <2>2. Unseen
    BY <1>1, <2>1, SameHands DEF Ask, Unseen, Over
  <2> QED BY <1>1, <2>2, UnseenKept DEF Ask, Offers
<1>2. ASSUME NEW q \in todo \cup waiting, Errs(q),
             UNCHANGED <<build, called, bidding, declined, bids, recorded>>
      PROVE  [Promise!Next]_<<Outcome, Offers, Bidders>>
  <2>1. Offers' = Offers /\ Held(Market)' = Held(Market) /\ Bidders' = Bidders
    BY <1>2, SameHands DEF Offers, Bidders
  <2>2. CASE q = Entry
    <3>1. ~Over /\ Over' /\ Entry \in faults'
      BY <1>0, <1>2, <2>2, ErrsEffect DEF Over
    <3>2. Outcome = "awaited" /\ Outcome' = "failed"
      BY <3>1 DEF Outcome
    <3> QED BY <1>a, <2>1, <3>2
  <2>3. CASE q # Entry
    <3>1. /\ Entry \in todo' \cup waiting' <=> Entry \in todo \cup waiting
          /\ Entry \in faults' <=> Entry \in faults
          /\ spoiled' = spoiled \/ spoiled' = spoiled \cup {Front(q)}
      BY <1>0, <1>2, <2>3, ErrsEffect
    <3>2. Front(q) # Entry \/ ~Over \/ Entry \in faults
      BY <1>c, <2>3
    <3>3. Unseen
      BY <2>1, <3>1, <3>2 DEF Unseen, Over
    <3> QED BY <2>1, <3>3, UnseenKept
  <2> QED BY <2>2, <2>3
<1>3. ASSUME NEW p \in called, BidMade(p) \/ NoBid(p) PROVE [Promise!Next]_<<Outcome, Offers, Bidders>>
  <2>1. /\ waiting' = waiting /\ spoiled' = spoiled /\ faults' = faults
        /\ bids \subseteq bids' /\ bids' \subseteq bids \cup {<<p, p>>}
        /\ recorded' = recorded \/ recorded' = recorded \cup {p}
    BY <1>3 DEF BidMade, NoBid, AskAround
  <2>2. \/ todo' = todo
        \/ \E found : \E asked \in Candidates(p, found) : todo' = todo \cup asked
    BY <1>3 DEF BidMade, NoBid, AskAround
  <2>3. Entry \in todo' <=> Entry \in todo
    BY <1>0, <2>2, Request, AskedAreOnward DEF Onward
  <2>4. Unseen
    BY <1>b, <2>1, <2>3 DEF Unseen, Over, Held
  <2>5. Offers' = Offers \/ Offers' = Offers \cup {Last(p)}
    BY <2>1 DEF Offers
  <2> QED BY <1>a, <1>b, <2>4, <2>5, UnseenKept
<1>4. ASSUME NEW p \in called, BidPanics(p) \/ BidLast(p) \/ Answer(p)
      PROVE  [Promise!Next]_<<Outcome, Offers, Bidders>>
  <2>1. /\ UNCHANGED <<todo, waiting, faults, bids>> /\ p \notin ended
        /\ spoiled' = spoiled \/ spoiled' = spoiled \cup {p}
        /\ recorded' = recorded \/ recorded' = recorded \cup {p}
    BY <1>4, <1>c DEF BidPanics, BidLast, Answer, Unanswered
  <2>2. p # Entry \/ ~Over \/ Entry \in faults
    BY <1>c, <2>1
  <2>3. Unseen
    BY <2>1, <2>2, SameHands DEF Unseen, Over
  <2>4. Offers' = Offers \/ Offers' = Offers \cup {Last(p)}
    BY <2>1 DEF Offers
  <2> QED BY <1>a, <1>b, <2>3, <2>4, UnseenKept
<1>5. ASSUME NEW q \in called, Take(q) PROVE [Promise!Next]_<<Outcome, Offers, Bidders>>
  <2>1. /\ q \in waiting \cap ended /\ ~Refused(q) /\ waiting' = waiting \ {q}
        /\ bids' = bids \cup {<<Front(q), r>> : r \in Held(q)}
        /\ UNCHANGED <<spoiled, faults, recorded>>
        /\ todo' = todo \/ todo' = todo \ Below(Front(q))
    BY <1>5 DEF Take
  <2>2. Offers' = Offers
    BY <2>1 DEF Offers
  <2>3. CASE q # Entry
    <3>1. Front(q) # Market /\ Front(q) \in called
      BY <1>0, <2>3, Request
    <3>2. Over' = Over /\ Held(Market)' = Held(Market)
      BY <1>b, <2>1, <2>3, <3>1 DEF Over, Held
    <3>3. Unseen
      BY <2>1, <3>2 DEF Unseen
    <3> QED BY <2>2, <3>3, UnseenKept
  <2>4. CASE q = Entry
    <3>1. ~Over /\ Over'
      BY <1>c, <2>1, <2>4 DEF Over
    <3>2. Outcome = "awaited" /\ Entry \notin faults'
      BY <1>0, <2>1, <3>1 DEF Outcome, HandInv
    <3>3. CASE Entry \in spoiled
      <4>1. Held(Entry) = {}
        BY <1>0, <2>1, <2>4, <3>3 DEF Refused, HandInv
      <4>2. bids' = bids
        BY <2>1, <2>4, <4>1
      <4>3. Bidders' = Bidders
        BY <4>2, SameHands DEF Bidders
      <4>4. Outcome' = "failed"
        BY <2>1, <3>1, <3>3 DEF Outcome
      <4> QED BY <1>a, <2>2, <3>2, <4>3, <4>4
    <3>4. CASE Entry \notin spoiled
      <4>1. Outcome' = "answered"
        BY <2>1, <3>1, <3>2, <3>4 DEF Outcome
      <4>2. TypeOK'
        BY TypeStep
      <4>3. Bidders' \subseteq Offers'
        BY <4>2 DEF TypeOK, Bidders, Offers, Held
      <4>4. Offers \subseteq Nodes
        BY <1>0, <1>b DEF Offers, TypeOK
      <4> QED BY <1>a, <2>2, <3>2, <4>1, <4>3, <4>4
    <3> QED BY <3>3, <3>4
  <2> QED BY <2>3, <2>4
<1>6. ASSUME NEW p \in called, Cancel(p) PROVE [Promise!Next]_<<Outcome, Offers, Bidders>>
  <2>1. /\ Entry \in todo' \cup waiting' <=> Entry \in todo \cup waiting
        /\ Entry \in faults' <=> Entry \in faults
        /\ spoiled' = spoiled /\ bids' = bids /\ recorded' = recorded
    BY <1>6, <1>b DEF Cancel
  <2>2. Unseen
    BY <2>1, SameHands DEF Unseen, Over
  <2> QED BY <2>1, <2>2, UnseenKept DEF Offers
<1>7. CASE UNCHANGED vars
  <2>1. Unseen /\ Offers' = Offers
    BY <1>7, SameHands DEF vars, Unseen, Over, Offers
  <2> QED BY <2>1, UnseenKept
<1> QED BY <1>1, <1>2, <1>3, <1>4, <1>5, <1>6, <1>7, Steps, <1>0 DEF Unasked, Lose, TypeOK

(* Whatever the build, the market gets one answer or one error, and whom   *)
(* it is told of remembers its proposal.                                   *)
THEOREM LimitedImplementsCallForBids == Spec => Promised
<1>1. Init => Promise!Init
  <2> SUFFICES ASSUME Init PROVE Promise!Init
    OBVIOUS
  <2>1. Outcome = "awaited"
    BY DEF Init, Outcome, Over
  <2>2. Offers = {} /\ Bidders = {}
    BY DEF Init, Offers, Bidders, Held
  <2> QED BY <2>1, <2>2 DEF Promise!Init, Offers, Bidders
<1>2. IInv /\ [Next]_vars => [Promise!Next]_(Promise!vars)
  BY PromiseStep
<1> QED BY <1>1, <1>2, LimitedInvariance, PTL DEF Spec, Promised, Promise!Spec
=============================================================================
