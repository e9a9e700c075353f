----------------------------- MODULE LimitedRelay -----------------------------
(***************************************************************************)
(* One SLA's call for bids in the builds that look for a limited number of *)
(* proposals.                                                              *)
(*   edge_first     a node bids; if it cannot, it asks its neighbours, the *)
(*                  nearest first, until one has a proposal                *)
(*   edge_furthest  a node asks its neighbours, the furthest first, and    *)
(*                  bids when none has a proposal                          *)
(*   edge_ward      a node bids; if it cannot, it asks its parent          *)
(*   mincpurandom   a node is asked for so many proposals; it bids, and    *)
(*                  asks as many neighbours as it still needs proposals,   *)
(*                  drawn at random, all at once                           *)
(* Requests fail, get lost and are dropped as in AuctionRelay.  The first  *)
(* three take an error of any kind for no proposal; in mincpurandom one    *)
(* neighbour's error is the node's answer.                                 *)
(***************************************************************************)
EXTENDS Overlay

CONSTANTS
  Builds,   \* the builds to consider
  Wished    \* the proposals the market asks for (mincpurandom)

ASSUME BuildsAssumption ==
  /\ Builds \subseteq {"edge_first", "edge_furthest", "edge_ward", "mincpurandom"}
  /\ Wished \in Nat \ {0}

VARIABLES
  build,     \* the build of all the nodes, chosen once
  todo,      \* requests that their callers may make
  quota,     \* the number of proposals that a request asks for (mincpurandom)
  called,    \* requests that arrived
  bidding,   \* requests whose node is to compute its own bid
  declined,  \* requests whose node made no proposal
  waiting,   \* requests whose caller awaits the answer
  bids,      \* <<p, r>>: the proposal made at r is the one held at p
  spoiled,   \* requests that answer with an error
  ended,     \* requests that are over at their node
  recorded,  \* requests whose node remembers the proposal it made
  faults     \* requests that failed or whose answer was lost (history)

vars == <<build, todo, quota, called, bidding, declined, waiting, bids, spoiled, ended, recorded, faults>>

Init ==
  /\ build \in Builds
  /\ todo = {Entry}
  /\ quota = [q \in {Market, Entry} |-> Wished]
  /\ called = {} /\ bidding = {} /\ declined = {} /\ waiting = {} /\ bids = {}
  /\ spoiled = {} /\ ended = {} /\ recorded = {} /\ faults = {}

Below(p) == {q \in todo \cup waiting : Front(q) = p}
Held(p) == {b[2] : b \in {b \in bids : b[1] = p}}

Sampled == build = "mincpurandom"

(* The number of proposals p is asked for.  The market wishes its own.     *)
Wanted(p) == IF Sampled THEN quota[p] ELSE 1

\* Mutant of Missing: the node's own proposal is not counted.
MissingAll(p, found) == Wanted(p)

Missing(p, found) == Wanted(p) - found

(* What p may ask, found own proposals later.  edge_ward asks the parent   *)
(* whatever the latency, even the sender.  A sample may hold the sender    *)
(* and neighbours that are too far, which are not asked then.              *)
Candidates(p, found) ==
  LET around == Neighbors(Last(p)) IN
  CASE build = "edge_ward" -> {{Append(p, n) : n \in {Parent[Last(p)]} \ {NoNode}}}
    [] Sampled -> {{q \in FollowUps(p) : Last(q) \in drawn} :
                     drawn \in kSubset(Min({Missing(p, found), Cardinality(around)}), around)}
    [] OTHER -> {FollowUps(p)}

(* k proposals spread over n neighbours, rounded up.                       *)
Share(k, n) == IF k <= n THEN 1 ELSE (k + n - 1) \div n

(* p is to ask for what its found own proposals leave missing.             *)
AskAround(p, found) ==
  \E asked \in Candidates(p, found) :
    /\ todo' = todo \cup asked
    /\ quota' = IF ~Sampled THEN quota ELSE
         [q \in DOMAIN quota \cup asked |->
            IF q \in asked THEN Share(Missing(p, found), Cardinality(Neighbors(Last(p)))) ELSE quota[q]]

\* p is asked before q by the node that asks both.
Before(p, q) ==
  IF build = "edge_furthest" THEN Accumulated[p] > Accumulated[q]
                             ELSE Accumulated[p] < Accumulated[q]

\* Mutant of Turn: candidates are asked in the order of the map.
TurnUnsorted(q) == Sampled \/ Front(q) = Market \/ Below(Front(q)) \cap waiting = {}

(* It is the turn of q: one candidate is asked after the other, and those  *)
(* at the same distance in any order.                                      *)
Turn(q) ==
  ~Sampled /\ Front(q) # Market =>
    /\ Below(Front(q)) \cap waiting = {}
    /\ build # "edge_ward" => \A other \in todo \cap Below(Front(q)) : ~Before(other, q)

-----------------------------------------------------------------------------
(* The request arrives.  Either the neighbours or the node itself is first *)
Ask(q) ==
  /\ q \in todo /\ Turn(q)
  /\ called' = called \cup {q}
  /\ waiting' = waiting \cup {q}
  /\ IF build = "edge_furthest"
     THEN todo' = (todo \ {q}) \cup FollowUps(q) /\ UNCHANGED bidding
     ELSE todo' = todo \ {q} /\ bidding' = bidding \cup {q}
  /\ UNCHANGED <<build, quota, declined, bids, spoiled, ended, recorded, faults>>

\* Mutant of Unasked: a request that failed is awaited.
UnaskedAwaited(q) ==
  /\ q \in todo /\ Turn(q)
  /\ todo' = todo \ {q}
  /\ waiting' = waiting \cup {q}
  /\ faults' = faults \cup {q}
  /\ UNCHANGED <<build, quota, called, bidding, declined, bids, spoiled, ended, recorded>>

\* Mutant of Errs: an error costs no more than the neighbour's proposals.
ErrsAlone(q) ==
  /\ todo' = todo \ {q}
  /\ waiting' = waiting \ {q}
  /\ faults' = faults \cup {q}
  /\ UNCHANGED <<spoiled, ended>>

(* The caller of q gets an error.  It is the next candidate's turn; in     *)
(* mincpurandom the other requests are dropped and the error is passed on. *)
Errs(q) ==
  LET p == Front(q)
      lost == IF Sampled /\ p # Market THEN Below(p) ELSE {q}
      over == IF Sampled /\ p # Market THEN {p} ELSE {}
  IN
  /\ todo' = todo \ lost
  /\ waiting' = waiting \ lost
  /\ faults' = faults \cup lost
  /\ spoiled' = spoiled \cup over
  /\ ended' = ended \cup over

Unasked(q) ==
  /\ q \in todo /\ Turn(q)
  /\ Errs(q)
  /\ UNCHANGED <<build, quota, called, bidding, declined, bids, recorded>>

\* Mutant of BidMade: the proposal is answered before it is remembered.
BidUnrecorded(p) ==
  /\ p \in bidding
  /\ bidding' = bidding \ {p}
  /\ bids' = bids \cup {<<p, p>>}
  /\ UNCHANGED <<build, quota, todo, called, declined, waiting, spoiled, ended, recorded, faults>>

BidMade(p) ==
  /\ p \in bidding
  /\ bidding' = bidding \ {p}
  /\ recorded' = recorded \cup {p}
  /\ bids' = bids \cup {<<p, p>>}
  /\ IF Sampled THEN AskAround(p, 1) ELSE UNCHANGED <<todo, quota>>
  /\ UNCHANGED <<build, called, declined, waiting, spoiled, ended, faults>>

(* No room, or an error.                                                   *)
NoBid(p) ==
  /\ p \in bidding
  /\ bidding' = bidding \ {p}
  /\ declined' = declined \cup {p}
  /\ IF build = "edge_furthest" THEN UNCHANGED <<todo, quota>> ELSE AskAround(p, 0)
  /\ UNCHANGED <<build, called, waiting, bids, spoiled, ended, recorded, faults>>

(* As in AuctionRelay.  No request is under way at that time.              *)
BidPanics(p) ==
  /\ p \in bidding
  /\ bidding' = bidding \ {p}
  /\ recorded' \in {recorded, recorded \cup {p}}
  /\ spoiled' = spoiled \cup {p}
  /\ ended' = ended \cup {p}
  /\ UNCHANGED <<build, quota, todo, called, declined, waiting, bids, faults>>

-----------------------------------------------------------------------------
Unanswered(p) == p \in called \ (ended \cup bidding) /\ Below(p) = {}

(* Nobody else has a proposal (edge_furthest).                             *)
BidLast(p) ==
  /\ Unanswered(p)
  /\ build = "edge_furthest" /\ p \notin declined /\ Held(p) = {}
  /\ bidding' = bidding \cup {p}
  /\ UNCHANGED <<build, quota, todo, called, declined, waiting, bids, spoiled, ended, recorded, faults>>

(* The answer is what was found; nothing found is an empty list in         *)
(* edge_furthest and mincpurandom and an error in the others.              *)
Answer(p) ==
  /\ Unanswered(p)
  /\ p \in declined \/ Held(p) # {}
  /\ ended' = ended \cup {p}
  /\ spoiled' = IF Held(p) = {} /\ build \in {"edge_first", "edge_ward"} THEN spoiled \cup {p} ELSE spoiled
  /\ UNCHANGED <<build, quota, todo, called, bidding, declined, waiting, bids, recorded, faults>>

Refused(q) == Sampled /\ q \in spoiled

(* The answer arrives.  With a proposal, the other candidates are left,    *)
(* unless they were asked at the same time.                                *)
Take(q) ==
  /\ q \in waiting \cap ended /\ ~Refused(q)
  /\ waiting' = waiting \ {q}
  /\ bids' = bids \cup {<<Front(q), r>> : r \in Held(q)}
  /\ todo' = IF Sampled \/ Held(q) = {} THEN todo ELSE todo \ Below(Front(q))
  /\ UNCHANGED <<build, quota, called, bidding, declined, spoiled, ended, recorded, faults>>

(* The answer is lost, or is an error that is passed on.                   *)
Lose(q) ==
  /\ q \in waiting
  /\ Errs(q)
  /\ UNCHANGED <<build, quota, called, bidding, declined, bids, recorded>>

TakeError(q) == q \in ended /\ Refused(q) /\ Lose(q)

(* A handler whose caller has gone is dropped with the request it made.    *)
Cancel(p) ==
  /\ p \in called \ (ended \cup waiting)
  /\ ended' = ended \cup {p}
  /\ bidding' = bidding \ {p}
  /\ todo' = todo \ Below(p)
  /\ waiting' = waiting \ Below(p)
  /\ faults' = faults \cup (Below(p) \cap waiting)
  /\ UNCHANGED <<build, quota, called, declined, bids, spoiled, recorded>>

-----------------------------------------------------------------------------
Over == Entry \notin todo \cup waiting

Step(p) ==
  \/ Ask(p) \/ Unasked(p)
  \/ BidMade(p) \/ NoBid(p) \/ BidPanics(p) \/ BidLast(p)
  \/ Answer(p) \/ Take(p) \/ Lose(p) \/ Cancel(p)

Next == \E p \in todo \cup called : Step(p)

Spec == Init /\ [][Next]_vars

(* As in AuctionRelay.                                                     *)
FairSpec ==
  /\ Spec
  /\ WF_vars(\E p \in todo : Ask(p) \/ Unasked(p))
  /\ WF_vars(\E p \in called : BidMade(p) \/ NoBid(p) \/ BidPanics(p) \/ BidLast(p))
  /\ WF_vars(\E p \in called : Answer(p))
  /\ WF_vars(\E p \in called : Take(p) \/ TakeError(p))

-----------------------------------------------------------------------------
(* A request asks for at least one proposal.                               *)
QuotaOK ==
  /\ quota \in [DOMAIN quota -> Nat \ {0}]
  /\ Sampled => {Market} \cup todo \cup called \subseteq DOMAIN quota

(* Type invariant: proposals in hand were made, answers had a request.     *)
TypeOK ==
  /\ build \in Builds
  /\ todo \subseteq Paths /\ called \subseteq Paths
  /\ QuotaOK
  /\ bidding \subseteq called /\ declined \subseteq called /\ waiting \subseteq called
  /\ bids \subseteq ({Market} \cup called) \X recorded
  /\ spoiled \subseteq ended /\ ended \subseteq called /\ recorded \subseteq called
  /\ faults \subseteq Paths

(* A node that remembers a proposal which is not in the market's answer    *)
(* panicked after inserting it, or an answer on its way was lost; where    *)
(* errors are passed on, the market got an error.                          *)
NoneLeftBehind ==
  Over => \A r \in recorded :
            \/ r \in Held(Market)
            \/ <<r, r>> \notin bids
            \/ ~Sampled /\ \E x \in faults : IsPrefix(x, r)
            \/ Sampled /\ Held(Market) = {} /\ Entry \in faults \cup spoiled

(* However the search spreads, nobody gets more proposals in hand than it  *)
(* was asked for, and the market no more than it wished: for the two that  *)
(* it wishes.  Shares are rounded up, so of three wished four could come.  *)
AtMostWanted == \A p \in called \cup {Market} : Cardinality(Held(p)) <= Wanted(p)

(* A proposal that a node takes from a neighbour is the first there is in  *)
(* the order of the build: every neighbour before it failed or was asked,  *)
(* and has none in hand, and so it is with the node itself (edge_first).   *)
InOrder ==
  \A p \in called : \A r \in Held(p) \ {p} :
    /\ build = "edge_first" => p \in declined
    /\ build \in {"edge_first", "edge_furthest"} =>
         \A q \in FollowUps(p) :
           Before(q, SubSeq(r, 1, Len(p) + 1)) => q \in faults \/ (q \in ended /\ Held(q) = {})

(* The outcome for the market, as CallForBids has it.                      *)
Outcome ==
  IF ~Over THEN "awaited" ELSE IF Entry \in spoiled \cup faults THEN "failed" ELSE "answered"

Promise == INSTANCE CallForBids WITH
  outcome <- Outcome,
  offers <- {Last(r) : r \in recorded},
  bidders <- {Last(r) : r \in Held(Market)}

(* The relay keeps what the market is promised.                            *)
Promised == Promise!Spec

(* A call for bids ends, even where nodes know each other in a circle: the *)
(* latency bounds the way of a request, and parents are no circle.         *)
CallEnds == <>Over

(* The inductive invariant behind the theorems of LimitedRelayProofs.      *)
(* Requests are made once, by a node that has not answered and is not      *)
(* bidding; the first builds bid before they ask, edge_furthest after ...  *)
RequestInv ==
  /\ \A q \in todo \cup called : q = Entry \/ (Len(q) > 1 /\ Front(q) \in called)
  /\ todo \cap called = {} /\ bidding \cap ended = {}
  /\ \A q \in todo \cup waiting : q = Entry \/ Front(q) \notin ended \cup bidding
  /\ build # "edge_furthest" => \A q \in called : q = Entry \/ Front(q) \notin bidding

(* ... a node has nothing in hand while it bids, nor when it errs, unless  *)
(* it drops what it has; and the market's call is over when it failed, or  *)
(* its node answered.                                                      *)
HandInv ==
  /\ \A p \in bidding : Held(p) = {}
  /\ ~Sampled => \A p \in spoiled : Held(p) = {}
  /\ Entry \in faults \/ Held(Market) # {} => Over
  /\ Over => Entry \in faults \cup ended

(* ... what is in progress is awaited all the way, and a proposal is in    *)
(* hand or awaited all the way to the market, unless a request of that way *)
(* failed; then, in mincpurandom, an error is on its way, or arrived.      *)
Way(r) == {SubSeq(r, 1, k) : k \in 1..Len(r)}
Broken(r) == Way(r) \cap faults # {}
Alarm(x) == Entry \in faults \/ \E z \in Way(x) \cap spoiled : Way(z) \subseteq waiting

ChainInv ==
  /\ \A r \in called \ ended : Broken(r) \/ Way(r) \subseteq waiting
  /\ \A r \in recorded :
       <<r, r>> \in bids => Broken(r) \/ \A q \in Way(r) : <<Front(q), r>> \in bids \/ q \in waiting
  /\ Sampled => \A x \in faults : Alarm(x)
  /\ Sampled /\ Entry \in faults \cup spoiled => Held(Market) = {}
  /\ \A b \in bids : b[1] = Market \/ b[1] \in Way(b[2])

(* ... candidates wait for their turn, one is awaited at a time, and whose *)
(* turn was before has failed or has nothing.                              *)
Passed(q) == q \in faults \/ (q \in ended /\ Held(q) = {})

OrderInv ==
  /\ \A r \in called : Way(r) \subseteq called
  /\ build = "edge_first" => \A s \in todo \cup called : s = Entry \/ Front(s) \in declined
  /\ ~Sampled => \A v, w \in waiting : Front(v) = Front(w) => v = w
  /\ build \in {"edge_first", "edge_furthest"} =>
       /\ \A s \in todo \cup waiting : s = Entry \/
            \A q \in FollowUps(Front(s)) : q \in todo \cup waiting \/ Passed(q)
       /\ \A s \in called : s = Entry \/
            \A q \in FollowUps(Front(s)) : Before(q, s) => Passed(q)

IInv == TypeOK /\ RequestInv /\ HandInv /\ ChainInv /\ OrderInv

(* Behind AtMostWanted, for at most two proposals wished.  Who asks one    *)
(* after the other has nothing while it asks.  In mincpurandom what a node *)
(* has in hand, and what all that it still awaits may bring, fit in what   *)
(* it was asked for.                                                       *)
Fits(p) ==
  /\ IsFiniteSet(Below(p))
  /\ \A q \in Below(p) :
       /\ Cardinality(Held(p)) + quota[q] * Cardinality(Below(p)) <= quota[p]
       /\ \A s \in Below(p) : quota[s] = quota[q]

ShareInv ==
  /\ \A q \in DOMAIN quota : quota[q] <= 2
  /\ \A p \in {Market} \cup called :
       /\ IsFiniteSet(Held(p)) /\ Cardinality(Held(p)) <= Wanted(p)
       /\ IF Sampled THEN Fits(p) ELSE Below(p) = {} \/ Held(p) = {}
=============================================================================
