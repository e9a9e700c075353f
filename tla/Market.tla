-------------------------------- MODULE Market --------------------------------
(***************************************************************************)
(* The market sells SLAs to fog nodes: it calls for bids, elects a winner, *)
(* offers it the SLA, notes the transaction in the winner's record, and    *)
(* later forwards the provisioning to the node that was paid.  Every PUT   *)
(* is a task of its own; the tasks meet in the records of the registry,    *)
(* which registrations replace and remove at any time, and in the nodes,   *)
(* which may restart.                                                      *)
(*                                                                         *)
(* Fog nodes appear by what the market can see of them: they keep offers,  *)
(* are charged for an SLA and run it (FunctionLife is the inside of one).  *)
(***************************************************************************)
EXTENDS Integers, FiniteSets

CONSTANTS
  Slas,      \* the SLAs put on the market, each under a fresh identifier
  Nodes,     \* fog nodes
  NoNode,    \* not a fog node
  NoBid,     \* entry of a node that did not bid
  Tenders,   \* the answers a call for bids can have: a price or NoBid per node
  MaxChurn   \* bound: registrations, removals and restarts altogether

ASSUME MarketAssumption ==
  /\ NoNode \notin Nodes
  /\ NoBid \notin Int
  /\ Tenders \subseteq [Nodes -> Nat \cup {NoBid}]
  /\ MaxChurn \in Nat

VARIABLES
  stage,       \* stage[s]: where the PUT of s is
  bids,        \* bids[s]: the proposals it got
  winner,      \* winner[s]: the node of the chosen bid
  price,       \* price[s]: what that node is told it earns
  call,        \* call[s]: the accept request to the winner, and its answer
  copy,        \* copy[s]: the transactions in the winner's record when it was read
  tracked,     \* tracked[s]: bid_tracking's node, or NoNode
  prov,        \* prov[s]: where the provisioning of s is
  registered,  \* nodes with a record in the registry
  accepted,    \* accepted[n]: accepted_bids in the record of n
  offered,     \* offered[n]: proposals n remembers
  holds,       \* holds[n]: SLAs n was paid for and has not finished
  running,     \* running[n]: functions OpenFaaS runs on n
  charged,     \* charged[n]: every SLA whose payment n ever took (history)
  unanswered,  \* SLAs whose accept request got no answer (history)
  dropped,     \* nodes whose record was ever removed (history)
  churn        \* counts what MaxChurn bounds

put == <<stage, bids, winner, price, call, copy>>
forward == <<tracked, prov>>
registry == <<registered, accepted, dropped>>
node == <<offered, holds, running, charged>>
vars == <<put, forward, registry, node, unanswered, churn>>

Stages == {"idle", "bidding", "tendered", "elected", "paying", "paid", "writing",
           "accepted", "refused"}
Answered == {"accepted", "refused"}

Init ==
  /\ stage = [s \in Slas |-> "idle"]
  /\ bids = [s \in Slas |-> [n \in Nodes |-> NoBid]]
  /\ winner = [s \in Slas |-> NoNode]
  /\ price = [s \in Slas |-> 0]
  /\ call = [s \in Slas |-> "none"]
  /\ copy = [s \in Slas |-> {}]
  /\ tracked = [s \in Slas |-> NoNode]
  /\ prov = [s \in Slas |-> "idle"]
  /\ registered = Nodes
  /\ accepted = [n \in Nodes |-> {}]
  /\ offered = [n \in Nodes |-> {}]
  /\ holds = [n \in Nodes |-> {}]
  /\ running = [n \in Nodes |-> {}]
  /\ charged = [n \in Nodes |-> {}]
  /\ unanswered = {}
  /\ dropped = {}
  /\ churn = 0

-----------------------------------------------------------------------------
At(s, from, to) == stage[s] = from /\ stage' = [stage EXCEPT ![s] = to]

(* The client names a first node, which must have a record.                *)
Put(s, target) ==
  /\ At(s, "idle", IF target \in registered THEN "bidding" ELSE "refused")
  /\ UNCHANGED <<bids, winner, price, call, copy, forward, registry, node, unanswered, churn>>

(* That node asks others; each bidder remembers its proposal.              *)
BidsCome(s) ==
  /\ At(s, "bidding", "tendered")
  /\ \E t \in Tenders :
       /\ bids' = [bids EXCEPT ![s] = t]
       /\ offered' = [n \in Nodes |-> IF t[n] = NoBid THEN offered[n] ELSE offered[n] \cup {s}]
  /\ UNCHANGED <<winner, price, call, copy, forward, registry, holds, running, charged,
                 unanswered, churn>>

(* The first node failed to answer; the offers made for it are not taken.  *)
BidsLost(s) ==
  /\ At(s, "bidding", "refused")
  /\ UNCHANGED <<bids, winner, price, call, copy, forward, registry, node, unanswered, churn>>

-----------------------------------------------------------------------------
(* The auction sorts the bids and takes the first at the second's price;   *)
(* bids that compare equal come in any order.                              *)
Bidders(s) == {n \in Nodes : bids[s][n] # NoBid}
Cheapest(s, from) == {n \in from : \A m \in from : bids[s][n] <= bids[s][m]}

\* Mutant of Elect: the winner is paid its own bid.
ElectFirstPrice(s) ==
  /\ At(s, "tendered", "elected")
  /\ \E first \in Cheapest(s, Bidders(s)) :
       /\ winner' = [winner EXCEPT ![s] = first]
       /\ price' = [price EXCEPT ![s] = bids[s][first]]
  /\ UNCHANGED <<bids, call, copy, forward, registry, node, unanswered, churn>>

Elect(s) ==
  /\ At(s, "tendered", "elected")
  /\ \E first \in Cheapest(s, Bidders(s)) :
       LET others == Bidders(s) \ {first} IN
       /\ winner' = [winner EXCEPT ![s] = first]
       /\ \E second \in IF others = {} THEN {first} ELSE Cheapest(s, others) :
            price' = [price EXCEPT ![s] = bids[s][second]]
  /\ UNCHANGED <<bids, call, copy, forward, registry, node, unanswered, churn>>

\* Mutant of NoWinner: an auction without bids is held again.
NoWinnerRetries(s) ==
  /\ Bidders(s) = {}
  /\ At(s, "tendered", "bidding")
  /\ UNCHANGED <<bids, winner, price, call, copy, forward, registry, node, unanswered, churn>>

NoWinner(s) ==
  /\ Bidders(s) = {}
  /\ At(s, "tendered", "refused")
  /\ UNCHANGED <<bids, winner, price, call, copy, forward, registry, node, unanswered, churn>>

(* process_paying_details and the address of the accept request both look  *)
(* the winner up; it need not be the node the client named.                *)
TakeOffer(s) ==
  /\ At(s, "elected", "paying")
  /\ winner[s] \in registered
  /\ call' = [call EXCEPT ![s] = "sent"]
  /\ UNCHANGED <<bids, winner, price, copy, forward, registry, node, unanswered, churn>>

WinnerUnknown(s) ==
  /\ At(s, "elected", "refused")
  /\ winner[s] \notin registered
  /\ UNCHANGED <<bids, winner, price, call, copy, forward, registry, node, unanswered, churn>>

-----------------------------------------------------------------------------
(* The winner's side of the accept request: it moves its proposal to paid, *)
(* or answers with an error (no room any more, no such proposal).          *)
\* Mutant of NodePays: an error after the payment was taken.
NodePaysThenFails(s) ==
  LET n == winner[s] IN
  /\ call[s] = "sent" /\ s \in offered[n]
  /\ call' = [call EXCEPT ![s] = "error"]
  /\ offered' = [offered EXCEPT ![n] = @ \ {s}]
  /\ holds' = [holds EXCEPT ![n] = @ \cup {s}]
  /\ charged' = [charged EXCEPT ![n] = @ \cup {s}]
  /\ UNCHANGED <<stage, bids, winner, price, copy, forward, registry, running,
                 unanswered, churn>>

NodePays(s) ==
  LET n == winner[s] IN
  /\ call[s] = "sent" /\ s \in offered[n]
  /\ call' = [call EXCEPT ![s] = "ok"]
  /\ offered' = [offered EXCEPT ![n] = @ \ {s}]
  /\ holds' = [holds EXCEPT ![n] = @ \cup {s}]
  /\ charged' = [charged EXCEPT ![n] = @ \cup {s}]
  /\ UNCHANGED <<stage, bids, winner, price, copy, forward, registry, running,
                 unanswered, churn>>

NodeDeclines(s) ==
  /\ call[s] = "sent"
  /\ call' = [call EXCEPT ![s] = "error"]
  /\ UNCHANGED <<stage, bids, winner, price, copy, forward, registry, node, unanswered, churn>>

Paid(s) ==
  /\ call[s] = "ok" /\ At(s, "paying", "paid")
  /\ UNCHANGED <<bids, winner, price, call, copy, forward, registry, node, unanswered, churn>>

\* Mutant of Declined: any answer counts as a payment.
DeclinedUnnoticed(s) ==
  /\ call[s] = "error" /\ At(s, "paying", "paid")
  /\ UNCHANGED <<bids, winner, price, call, copy, forward, registry, node, unanswered, churn>>

Declined(s) ==
  /\ call[s] = "error" /\ At(s, "paying", "refused")
  /\ UNCHANGED <<bids, winner, price, call, copy, forward, registry, node, unanswered, churn>>

\* Mutant of ReplyLost: the offer goes to another bidder.
ReplyLostNextBidder(s) ==
  /\ At(s, "paying", "elected")
  /\ \E n \in Bidders(s) \ {winner[s]} : winner' = [winner EXCEPT ![s] = n]
  /\ UNCHANGED <<bids, price, call, copy, forward, registry, node, unanswered, churn>>

(* The connection fails before or after the node has handled the request,  *)
(* which it may also do later.  There is no retry.                         *)
ReplyLost(s) ==
  /\ At(s, "paying", "refused")
  /\ unanswered' = unanswered \cup {s}
  /\ UNCHANGED <<bids, winner, price, call, copy, forward, registry, node, churn>>

-----------------------------------------------------------------------------
(* The transaction is added to a copy of the winner's record ...           *)
ReadRecord(s) ==
  /\ At(s, "paid", "writing")
  /\ winner[s] \in registered
  /\ copy' = [copy EXCEPT ![s] = accepted[winner[s]]]
  /\ UNCHANGED <<bids, winner, price, call, forward, registry, node, unanswered, churn>>

RecordGone(s) ==
  /\ At(s, "paid", "refused")
  /\ winner[s] \notin registered
  /\ UNCHANGED <<bids, winner, price, call, copy, forward, registry, node, unanswered, churn>>

\* Mutant of WriteRecord: the node of any proposal is tracked.
WriteRecordAnyBidder(s) ==
  /\ At(s, "writing", "accepted")
  /\ accepted' = [n \in Nodes |-> IF n = winner[s] /\ n \in registered
                                  THEN copy[s] \cup {s} ELSE accepted[n]]
  /\ copy' = [copy EXCEPT ![s] = {}]
  /\ \E n \in Bidders(s) : tracked' = [tracked EXCEPT ![s] = n]
  /\ UNCHANGED <<bids, winner, price, call, prov, registered, dropped, node,
                 unanswered, churn>>

(* ... which replaces the record, if there still is one.                   *)
WriteRecord(s) ==
  /\ At(s, "writing", "accepted")
  /\ accepted' = [n \in Nodes |-> IF n = winner[s] /\ n \in registered
                                  THEN copy[s] \cup {s} ELSE accepted[n]]
  /\ copy' = [copy EXCEPT ![s] = {}]
  /\ tracked' = [tracked EXCEPT ![s] = winner[s]]
  /\ UNCHANGED <<bids, winner, price, call, prov, registered, dropped, node,
                 unanswered, churn>>

-----------------------------------------------------------------------------
(* The client asks for the provisioning once its PUT has been accepted.    *)
Forward(s) ==
  /\ stage[s] = "accepted" /\ prov[s] = "idle"
  /\ prov' = [prov EXCEPT ![s] = IF tracked[s] \in registered THEN "sent" ELSE "failed"]
  /\ UNCHANGED <<put, tracked, registry, node, unanswered, churn>>

NodeProvisions(s) ==
  LET n == tracked[s] IN
  /\ prov[s] = "sent" /\ s \in holds[n]
  /\ running' = [running EXCEPT ![n] = @ \cup {s}]
  /\ prov' = [prov EXCEPT ![s] = "done"]
  /\ UNCHANGED <<put, tracked, registry, offered, holds, charged, unanswered, churn>>

(* An error, from the node or the connection, tells nothing of the outcome.*)
ProvisionFails(s) ==
  LET n == tracked[s] IN
  /\ prov[s] = "sent"
  /\ \/ UNCHANGED running
     \/ s \in holds[n] /\ running' = [running EXCEPT ![n] = @ \cup {s}]
  /\ prov' = [prov EXCEPT ![s] = "failed"]
  /\ UNCHANGED <<put, tracked, registry, offered, holds, charged, unanswered, churn>>

(* The paid-for time is over. *)
Expire(n, s) ==
  /\ s \in holds[n]
  /\ holds' = [holds EXCEPT ![n] = @ \ {s}]
  /\ running' = [running EXCEPT ![n] = @ \ {s}]
  /\ UNCHANGED <<put, forward, registry, offered, charged, unanswered, churn>>

-----------------------------------------------------------------------------
Disturb == churn < MaxChurn /\ churn' = churn + 1

(* A registration puts a fresh record in place of the one that was there.  *)
Reregister(n) ==
  /\ Disturb
  /\ registered' = registered \cup {n}
  /\ accepted' = [accepted EXCEPT ![n] = {}]
  /\ UNCHANGED <<put, forward, dropped, node, unanswered>>

(* The undo of a registration that failed its check removes the record.    *)
Unregister(n) ==
  /\ Disturb
  /\ n \in registered
  /\ registered' = registered \ {n}
  /\ accepted' = [accepted EXCEPT ![n] = {}]
  /\ dropped' = dropped \cup {n}
  /\ UNCHANGED <<put, forward, node, unanswered>>

\* Mutant of Restart: a restarted node claims all it was ever paid for.
RestartReclaims(n) ==
  /\ Disturb
  /\ offered' = [offered EXCEPT ![n] = {}]
  /\ holds' = [holds EXCEPT ![n] = Slas]
  /\ UNCHANGED <<put, forward, registry, running, charged, unanswered>>

(* A fog node keeps its tracking data in memory only; OpenFaaS runs on.    *)
Restart(n) ==
  /\ Disturb
  /\ offered' = [offered EXCEPT ![n] = {}]
  /\ holds' = [holds EXCEPT ![n] = {}]
  /\ UNCHANGED <<put, forward, registry, running, charged, unanswered>>

-----------------------------------------------------------------------------
Tender(s) == BidsCome(s) \/ BidsLost(s) \/ Elect(s) \/ NoWinner(s)
Pay(s) == TakeOffer(s) \/ WinnerUnknown(s) \/ Paid(s) \/ Declined(s)
Note(s) == ReadRecord(s) \/ RecordGone(s) \/ WriteRecord(s)
Accept(s) == NodePays(s) \/ NodeDeclines(s)
Provision(s) == Forward(s) \/ NodeProvisions(s) \/ ProvisionFails(s)

(* No client is waiting for an answer. *)
Quiescent ==
  /\ \A s \in Slas : stage[s] \in {"idle"} \cup Answered
  /\ UNCHANGED vars

Next ==
  \/ \E s \in Slas, n \in Nodes : Put(s, n) \/ Expire(n, s)
  \/ \E s \in Slas :
       Tender(s) \/ Pay(s) \/ ReplyLost(s) \/ Note(s) \/ Accept(s) \/ Provision(s)
  \/ \E n \in Nodes : Reregister(n) \/ Unregister(n) \/ Restart(n)
  \/ Quiescent

Spec == Init /\ [][Next]_vars

(* The market's tasks are run, and a fog node answers what it was asked.   *)
FairSpec ==
  Spec /\ \A s \in Slas :
    WF_vars(Tender(s)) /\ WF_vars(Pay(s)) /\ WF_vars(Note(s)) /\ WF_vars(Accept(s))

-----------------------------------------------------------------------------
TypeOK ==
  /\ stage \in [Slas -> Stages]
  /\ bids \in [Slas -> [Nodes -> Nat \cup {NoBid}]]
  /\ winner \in [Slas -> Nodes \cup {NoNode}]
  /\ price \in [Slas -> Nat]
  /\ call \in [Slas -> {"none", "sent", "ok", "error"}]
  /\ copy \in [Slas -> SUBSET Slas]
  /\ tracked \in [Slas -> Nodes \cup {NoNode}]
  /\ prov \in [Slas -> {"idle", "sent", "done", "failed"}]
  /\ registered \in SUBSET Nodes
  /\ accepted \in [Nodes -> SUBSET Slas]
  /\ offered \in [Nodes -> SUBSET Slas]
  /\ holds \in [Nodes -> SUBSET Slas]
  /\ running \in [Nodes -> SUBSET Slas]
  /\ charged \in [Nodes -> SUBSET Slas]
  /\ unanswered \in SUBSET Slas
  /\ dropped \in SUBSET Nodes
  /\ churn \in Nat

(* A second-price auction: no bidder asked for less than the winner, which *)
(* earns what the best of the others asked, or its own bid if it is alone. *)
SecondPrice ==
  \A s \in Slas : winner[s] # NoNode =>
    LET others == Bidders(s) \ {winner[s]} IN
    /\ winner[s] \in Bidders(s)
    /\ bids[s][winner[s]] <= price[s]
    /\ \A n \in others : price[s] <= bids[s][n]
    /\ \E n \in (IF others = {} THEN {winner[s]} ELSE others) : price[s] = bids[s][n]

(* No SLA is charged on two nodes, whatever answers got lost.              *)
PaidOnce ==
  \A s \in Slas : \A m, n \in Nodes : s \in charged[m] /\ s \in charged[n] => m = n

(* A node that was charged for an SLA whose PUT was refused: its answer    *)
(* got lost, or its record was removed from the registry meanwhile.        *)
NoSilentCharge ==
  \A s \in Slas, n \in Nodes :
    stage[s] = "refused" /\ s \in charged[n] => s \in unanswered \/ n \in dropped

(* A transaction the market lists was paid, on the node it is listed for,  *)
(* and its client was told.                                                *)
ListedIsPaid ==
  \A n \in Nodes : \A s \in accepted[n] : s \in charged[n] /\ stage[s] = "accepted"

(* The market forwards a provisioning to the node that took the payment.   *)
ProvisionReachesPayee ==
  \A s \in Slas : prov[s] \in {"sent", "done"} => s \in charged[tracked[s]]

(* Every PUT is answered. *)
EveryPutAnswered == \A s \in Slas : stage[s] = "bidding" ~> stage[s] \in Answered

(* Every transaction the client was told of is listed: what get_functions  *)
(* says of itself.                                                         *)
TransactionsListed ==
  \A s \in Slas : stage[s] = "accepted" => s \in accepted[winner[s]]

-----------------------------------------------------------------------------
(* The inductive invariant behind the theorems of MarketProofs: a PUT has  *)
(* a winner from its election on, and only the winner is ever asked ...    *)
Before == {"idle", "bidding", "tendered"}

WinnerInv ==
  \A s \in Slas :
    /\ stage[s] \in Before => winner[s] = NoNode /\ call[s] = "none"
    /\ stage[s] \notin Before \cup {"refused"} => winner[s] \in Nodes
    /\ stage[s] = "elected" => call[s] = "none"
    /\ call[s] # "none" => winner[s] \in Nodes
    /\ call[s] = "sent" => stage[s] = "paying" \/ s \in unanswered

(* ... its node is charged exactly when it says so ...                     *)
ChargeInv ==
  \A s \in Slas :
    /\ \A n \in Nodes : s \in charged[n] => winner[s] = n /\ call[s] = "ok"
    /\ call[s] = "ok" => s \in charged[winner[s]]
    /\ stage[s] \in {"paid", "writing", "accepted"} => s \in charged[winner[s]]
    /\ \A n \in Nodes : s \in holds[n] \cup running[n] => s \in charged[n]

(* ... and copies of records hold finished transactions of that node.      *)
RecordInv ==
  /\ \A n \in Nodes : \A s \in accepted[n] : stage[s] = "accepted" /\ winner[s] = n
  /\ \A s \in Slas : \A t \in copy[s] : stage[t] = "accepted" /\ winner[t] = winner[s]
  /\ \A s \in Slas : tracked[s] = IF stage[s] = "accepted" THEN winner[s] ELSE NoNode
  /\ \A s \in Slas : prov[s] # "idle" => stage[s] = "accepted"

(* Records are missing only where they were removed.                       *)
RegistryInv == Nodes \ registered \subseteq dropped

IInv ==
  /\ TypeOK /\ WinnerInv /\ ChargeInv /\ RecordInv /\ RegistryInv
  /\ SecondPrice /\ NoSilentCharge
=============================================================================
