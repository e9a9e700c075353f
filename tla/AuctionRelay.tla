----------------------------- MODULE AuctionRelay -----------------------------
(***************************************************************************)
(* One SLA's call for bids in the auction build: a node that is asked bids *)
(* and, at the same time, asks all its neighbours but the one that asked;  *)
(* it answers when its own bid and all the answers are in, with all the    *)
(* proposals there are.  A neighbour that errs is passed over, while an    *)
(* error of the node's own bid is the node's answer.                       *)
(*                                                                         *)
(* Requests are HTTP calls without a deadline.  One can fail before it     *)
(* arrives; its answer can be lost, and then the handler of the callee     *)
(* goes on or is dropped.  Requests are identified by their paths.         *)
(***************************************************************************)
EXTENDS Overlay

VARIABLES
  todo,      \* requests that their callers are about to make
  called,    \* requests that arrived
  bidding,   \* requests whose node has not computed its own bid
  waiting,   \* requests whose caller awaits the answer
  bids,      \* <<p, r>>: the proposal made at r is in the list held at p
  spoiled,   \* requests that answer with an error
  ended,     \* requests that are over at their node
  recorded,  \* requests whose node remembers the proposal it made
  faults     \* requests where something failed (history)

vars == <<todo, called, bidding, waiting, bids, spoiled, ended, recorded, faults>>

Init ==
  /\ todo = {Entry}
  /\ called = {} /\ bidding = {} /\ waiting = {} /\ bids = {}
  /\ spoiled = {} /\ ended = {} /\ recorded = {} /\ faults = {}

Below(p) == {q \in todo \cup waiting : Front(q) = p}

-----------------------------------------------------------------------------
\* Mutant of Ask: the sender is asked back.
AskBack(q) ==
  /\ q \in todo
  /\ todo' = (todo \ {q}) \cup FollowUpsBack(q)
  /\ called' = called \cup {q}
  /\ bidding' = bidding \cup {q}
  /\ waiting' = waiting \cup {q}
  /\ UNCHANGED <<bids, spoiled, ended, recorded, faults>>

(* The request arrives; its node starts to bid and to ask others.          *)
Ask(q) ==
  /\ q \in todo
  /\ todo' = (todo \ {q}) \cup FollowUps(q)
  /\ called' = called \cup {q}
  /\ bidding' = bidding \cup {q}
  /\ waiting' = waiting \cup {q}
  /\ UNCHANGED <<bids, spoiled, ended, recorded, faults>>

\* Mutant of Unasked: a request that failed is awaited.
UnaskedAwaited(q) ==
  /\ q \in todo
  /\ todo' = todo \ {q}
  /\ waiting' = waiting \cup {q}
  /\ faults' = faults \cup {q}
  /\ UNCHANGED <<called, bidding, bids, spoiled, ended, recorded>>

(* The connection fails, or the request cannot be read.                    *)
Unasked(q) ==
  /\ q \in todo
  /\ todo' = todo \ {q}
  /\ faults' = faults \cup {q}
  /\ UNCHANGED <<called, bidding, waiting, bids, spoiled, ended, recorded>>

\* Mutant of BidMade: the proposal is returned before it is remembered.
BidUnrecorded(p) ==
  /\ p \in bidding
  /\ bidding' = bidding \ {p}
  /\ bids' = bids \cup {<<p, p>>}
  /\ UNCHANGED <<todo, called, waiting, spoiled, ended, recorded, faults>>

(* bid_on: the node has room, or not, or errs, or panics.                  *)
BidMade(p) ==
  /\ p \in bidding
  /\ bidding' = bidding \ {p}
  /\ recorded' = recorded \cup {p}
  /\ bids' = bids \cup {<<p, p>>}
  /\ UNCHANGED <<todo, called, waiting, spoiled, ended, faults>>

NoRoom(p) ==
  /\ p \in bidding
  /\ bidding' = bidding \ {p}
  /\ UNCHANGED <<todo, called, waiting, bids, spoiled, ended, recorded, faults>>

BidFailed(p) ==
  /\ p \in bidding
  /\ bidding' = bidding \ {p}
  /\ spoiled' = spoiled \cup {p}
  /\ faults' = faults \cup {p}
  /\ UNCHANGED <<todo, called, waiting, bids, ended, recorded>>

(* The bid is asserted to be positive, when it is computed (quadratic      *)
(* rates) or once the proposal is inserted.  The handler unwinds with the  *)
(* requests it made, whatever they are at.                                 *)
BidPanics(p) ==
  /\ p \in bidding
  /\ bidding' = bidding \ {p}
  /\ recorded' \in {recorded, recorded \cup {p}}
  /\ spoiled' = spoiled \cup {p}
  /\ ended' = ended \cup {p}
  /\ todo' = todo \ Below(p)
  /\ waiting' = waiting \ Below(p)
  /\ faults' = faults \cup {p} \cup Below(p)
  /\ UNCHANGED <<called, bids>>

-----------------------------------------------------------------------------
\* Mutant of Answer: the node does not wait for its neighbours.
AnswerEarly(p) ==
  /\ p \in called \ (ended \cup bidding)
  /\ ended' = ended \cup {p}
  /\ UNCHANGED <<todo, called, bidding, waiting, bids, spoiled, recorded, faults>>

(* Both halves of the join are over.                                       *)
Answer(p) ==
  /\ p \in called \ (ended \cup bidding)
  /\ Below(p) = {}
  /\ ended' = ended \cup {p}
  /\ UNCHANGED <<todo, called, bidding, waiting, bids, spoiled, recorded, faults>>

(* What the answer to q adds to the list of its caller.                    *)
Carried(q) == {<<Front(q), b[2]>> : b \in {b \in bids : b[1] = q}}

\* Mutant of Take: a node keeps the answer of one neighbour only.
TakeLast(q) ==
  /\ q \in waiting \cap ended
  /\ waiting' = waiting \ {q}
  /\ bids' = IF q \in spoiled THEN bids
             ELSE {b \in bids : b[1] # Front(q) \/ b[2] = b[1]} \cup Carried(q)
  /\ UNCHANGED <<todo, called, bidding, spoiled, ended, recorded, faults>>

(* The answer arrives, an error or a list.                                 *)
Take(q) ==
  /\ q \in waiting \cap ended
  /\ waiting' = waiting \ {q}
  /\ bids' = IF q \in spoiled THEN bids ELSE bids \cup Carried(q)
  /\ UNCHANGED <<todo, called, bidding, spoiled, ended, recorded, faults>>

(* The caller gives up on an answer, whatever its callee is at.            *)
Lose(q) ==
  /\ q \in waiting
  /\ waiting' = waiting \ {q}
  /\ faults' = faults \cup {q}
  /\ UNCHANGED <<todo, called, bidding, bids, spoiled, ended, recorded>>

(* A handler whose caller has gone is dropped with the requests it made.   *)
Cancel(p) ==
  /\ p \in called \ (ended \cup waiting)
  /\ ended' = ended \cup {p}
  /\ bidding' = bidding \ {p}
  /\ todo' = todo \ Below(p)
  /\ waiting' = waiting \ Below(p)
  /\ faults' = faults \cup Below(p)
  /\ UNCHANGED <<called, bids, spoiled, recorded>>

-----------------------------------------------------------------------------
\* The market's PUT has no answer to wait for any more.
Over == Entry \notin todo \cup waiting

Step(p) ==
  \/ Ask(p) \/ Unasked(p)
  \/ BidMade(p) \/ NoRoom(p) \/ BidFailed(p) \/ BidPanics(p)
  \/ Answer(p) \/ Take(p) \/ Lose(p) \/ Cancel(p)

Next == \E p \in todo \cup called : Step(p)

Spec == Init /\ [][Next]_vars

(* A node does what it was asked to and a request arrives or fails; that   *)
(* an answer is lost or a handler dropped is never assumed.                *)
FairSpec ==
  /\ Spec
  /\ WF_vars(\E p \in todo : Ask(p) \/ Unasked(p))
  /\ WF_vars(\E p \in called : BidMade(p) \/ NoRoom(p) \/ BidFailed(p) \/ BidPanics(p))
  /\ WF_vars(\E p \in called : Answer(p))
  /\ WF_vars(\E p \in called : Take(p))

-----------------------------------------------------------------------------
(* Type invariant.                                                         *)
TypeOK ==
  /\ todo \subseteq Paths /\ called \subseteq Paths \ {Market}
  /\ bidding \subseteq called /\ waiting \subseteq called
  /\ bids \subseteq ({Market} \cup called) \X recorded
  /\ spoiled \subseteq called /\ ended \subseteq called /\ recorded \subseteq called
  /\ faults \subseteq Paths \ {Market}

(* Over a tree of nodes nobody is asked twice, hence nobody bids twice,    *)
(* although a node only knows which neighbour asked it.                    *)
AskedOnce == IsTree => \A p, q \in called : Last(p) = Last(q) => p = q

(* A proposal that a node remembers and the market was not told of was     *)
(* lost on its way: a request of its path failed.                          *)
LostOnlyByFault ==
  Over => \A r \in recorded :
            <<Market, r>> \in bids \/ \E x \in faults : IsPrefix(x, r)

(* When nothing failed, the nodes asked are those that some path within    *)
(* the latency bound leads to, on all of its way.                          *)
Routes ==
  LET Links(p) == \A i \in 1 .. Len(p) - 1 :
                    /\ p[i + 1] \in Neighbors(p[i])
                    /\ Measured(SubSeq(p, 1, i + 1))
                    /\ ~TooFar(SubSeq(p, 1, i + 1))
      Simple == UNION {{p \in [1 .. k -> Nodes] : IsInjective(p)} : k \in 1 .. Cardinality(Nodes)}
  IN {p \in Simple : p[1] = First /\ Links(p)}

EveryReachableAsked == IsTree /\ Over /\ faults = {} => called = Routes

(* The outcome for the market, as CallForBids has it.                      *)
Outcome == IF ~Over THEN "awaited" ELSE IF Entry \in faults THEN "failed" ELSE "answered"

Promise == INSTANCE CallForBids WITH
  outcome <- Outcome,
  offers <- {Last(r) : r \in recorded},
  bidders <- {Last(b[2]) : b \in {b \in bids : b[1] = Market}}

(* The relay keeps what the market is promised: every bidder in an answer  *)
(* remembers its proposal, however lists were merged on the way.           *)
Promised == Promise!Spec

(* A call for bids ends, with an answer or an error.                       *)
CallEnds == <>Over

-----------------------------------------------------------------------------
(* The inductive invariant.  Requests spread from Entry, each is made once *)
(* and only on behalf of a request in progress.                            *)
RequestInv ==
  /\ \A q \in todo \cup called :
       q = Entry \/ (Len(q) > 1 /\ q[1] = First /\ Front(q) \in called /\ q \in FollowUps(Front(q)))
  /\ \A q \in todo \cup waiting : q = Entry \/ Front(q) \notin ended
  /\ todo \cap called = {}
  /\ bidding \cap ended = {}

(* Only failures are noted as faults, and a request that failed is either  *)
(* given up or answered with an error.                                     *)
FaultInv ==
  /\ \A x \in faults : x = Entry \/ Front(x) \in called
  /\ todo \cap faults = {}
  /\ spoiled \subseteq faults
  /\ waiting \cap faults \subseteq spoiled
  /\ \A b \in bids : b[1] = Market => Over

Upto(r, k) == SubSeq(r, 1, k)
Broken(r) == \E x \in faults : IsPrefix(x, r)

(* What is in progress is awaited by everyone on its path, and a proposal  *)
(* is on its way to the market, unless a request of the path failed.       *)
ChainInv ==
  /\ \A r \in called \ ended : Broken(r) \/ \A k \in 1 .. Len(r) : Upto(r, k) \in waiting
  /\ \A r \in recorded :
       \/ Broken(r)
       \/ /\ <<r, r>> \in bids
          /\ \A k \in 0 .. Len(r) - 1 :
               <<Upto(r, k), r>> \in bids \/ Upto(r, k + 1) \in waiting

(* Over a tree a request comes from the neighbour towards First.           *)
Up == CHOOSE up \in [Nodes -> Nodes \cup {NoNode}] : Towards(up)
TreeInv == IsTree => \A p \in todo \cup called : p # Entry => Up[Last(p)] = Last(Front(p))

IInv == TypeOK /\ RequestInv /\ FaultInv /\ ChainInv /\ TreeInv /\ AskedOnce
=============================================================================
