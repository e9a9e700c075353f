----------------------------- MODULE MarketProofs -----------------------------
(***************************************************************************)
(* Proofs about Market, for every set of SLAs and of fog nodes, every      *)
(* answer to a call for bids and any number of registrations and restarts. *)
(***************************************************************************)
EXTENDS Market, TLAPS

(* Bids are numbers or NoBid, and never taken for one another. *)
LEMMA BidTypes ==
  ASSUME TypeOK, NEW s \in Slas
  PROVE  \A n \in Bidders(s) : n \in Nodes /\ bids[s][n] \in Nat
BY MarketAssumption DEF TypeOK, Bidders

(* Every action keeps the types. *)
LEMMA TypeStep ==
  ASSUME TypeOK, Next
  PROVE  TypeOK'
<1> USE MarketAssumption DEF TypeOK, Stages, vars, put, forward, registry, node, At
<1>1. ASSUME NEW s \in Slas, NEW n \in Nodes, Put(s, n) PROVE TypeOK'
  BY <1>1 DEF Put
<1>2. ASSUME NEW s \in Slas, NEW n \in Nodes, Expire(n, s) PROVE TypeOK'
  BY <1>2 DEF Expire
<1>3. ASSUME NEW s \in Slas, BidsCome(s) PROVE TypeOK'
  BY <1>3 DEF BidsCome
<1>4. ASSUME NEW s \in Slas, BidsLost(s) PROVE TypeOK'
  BY <1>4 DEF BidsLost
<1>5. ASSUME NEW s \in Slas, Elect(s) PROVE TypeOK'
  <2>1. PICK first \in Bidders(s), second \in Bidders(s) :
          /\ winner' = [winner EXCEPT ![s] = first]
          /\ price' = [price EXCEPT ![s] = bids[s][second]]
    BY <1>5 DEF Elect, Cheapest
  <2>2. first \in Nodes /\ bids[s][second] \in Nat
    BY <2>1, BidTypes
  <2> QED BY <1>5, <2>1, <2>2 DEF Elect
<1>6. ASSUME NEW s \in Slas, NoWinner(s) PROVE TypeOK'
  BY <1>6 DEF NoWinner
<1>7. ASSUME NEW s \in Slas, TakeOffer(s) PROVE TypeOK'
  BY <1>7 DEF TakeOffer
<1>8. ASSUME NEW s \in Slas, WinnerUnknown(s) PROVE TypeOK'
  BY <1>8 DEF WinnerUnknown
<1>9. ASSUME NEW s \in Slas, NodePays(s) PROVE TypeOK'
  BY <1>9 DEF NodePays
<1>10. ASSUME NEW s \in Slas, NodeDeclines(s) PROVE TypeOK'
  BY <1>10 DEF NodeDeclines
<1>11. ASSUME NEW s \in Slas, Paid(s) PROVE TypeOK'
  BY <1>11 DEF Paid
<1>12. ASSUME NEW s \in Slas, Declined(s) PROVE TypeOK'
  BY <1>12 DEF Declined
<1>13. ASSUME NEW s \in Slas, ReplyLost(s) PROVE TypeOK'
  BY <1>13 DEF ReplyLost
<1>14. ASSUME NEW s \in Slas, ReadRecord(s) PROVE TypeOK'
  BY <1>14 DEF ReadRecord
<1>15. ASSUME NEW s \in Slas, RecordGone(s) PROVE TypeOK'
  BY <1>15 DEF RecordGone
<1>16. ASSUME NEW s \in Slas, WriteRecord(s) PROVE TypeOK'
  BY <1>16 DEF WriteRecord
<1>17. ASSUME NEW s \in Slas, Forward(s) PROVE TypeOK'
  BY <1>17 DEF Forward
<1>18. ASSUME NEW s \in Slas, NodeProvisions(s) PROVE TypeOK'
  BY <1>18 DEF NodeProvisions
<1>19. ASSUME NEW s \in Slas, ProvisionFails(s) PROVE TypeOK'
  <2>1. CASE UNCHANGED running
    BY <1>19, <2>1 DEF ProvisionFails
  <2>2. CASE s \in holds[tracked[s]] /\ running' = [running EXCEPT ![tracked[s]] = running[tracked[s]] \cup {s}]
    BY <1>19, <2>2 DEF ProvisionFails
  <2> QED BY <1>19, <2>1, <2>2 DEF ProvisionFails
<1>20. ASSUME NEW n \in Nodes, Reregister(n) PROVE TypeOK'
  BY <1>20 DEF Reregister, Disturb
<1>21. ASSUME NEW n \in Nodes, Unregister(n) PROVE TypeOK'
  BY <1>21 DEF Unregister, Disturb
<1>22. ASSUME NEW n \in Nodes, Restart(n) PROVE TypeOK'
  BY <1>22 DEF Restart, Disturb
<1>23. CASE UNCHANGED vars
  BY <1>23
<1> QED
  BY <1>1, <1>2, <1>3, <1>4, <1>5, <1>6, <1>7, <1>8, <1>9, <1>10, <1>11, <1>12, <1>13,
     <1>14, <1>15, <1>16, <1>17, <1>18, <1>19, <1>20, <1>21, <1>22, <1>23 DEF Next,
     Tender, Pay, Note, Accept, Provision, Quiescent

(* Only the winner is asked, and only after the election. *)
LEMMA WinnerStep ==
  ASSUME IInv, Next
  PROVE  WinnerInv'
<1> USE MarketAssumption DEF IInv, TypeOK, WinnerInv, Before, vars, put, forward,
        registry, node, At
<1>1. ASSUME NEW s \in Slas, NEW n \in Nodes, Put(s, n) PROVE WinnerInv'
  BY <1>1 DEF Put
<1>2. ASSUME NEW s \in Slas, NEW n \in Nodes, Expire(n, s) PROVE WinnerInv'
  BY <1>2 DEF Expire
<1>3. ASSUME NEW s \in Slas, BidsCome(s) PROVE WinnerInv'
  BY <1>3 DEF BidsCome
<1>4. ASSUME NEW s \in Slas, BidsLost(s) PROVE WinnerInv'
  BY <1>4 DEF BidsLost
<1>5. ASSUME NEW s \in Slas, Elect(s) PROVE WinnerInv'
  <2>1. PICK first \in Nodes : winner' = [winner EXCEPT ![s] = first]
    BY <1>5 DEF Elect, Cheapest, Bidders
  <2> QED BY <1>5, <2>1 DEF Elect
<1>6. ASSUME NEW s \in Slas, NoWinner(s) PROVE WinnerInv'
  BY <1>6 DEF NoWinner
<1>7. ASSUME NEW s \in Slas, TakeOffer(s) PROVE WinnerInv'
  BY <1>7 DEF TakeOffer
<1>8. ASSUME NEW s \in Slas, WinnerUnknown(s) PROVE WinnerInv'
  BY <1>8 DEF WinnerUnknown
<1>9. ASSUME NEW s \in Slas, NodePays(s) PROVE WinnerInv'
  BY <1>9 DEF NodePays
<1>10. ASSUME NEW s \in Slas, NodeDeclines(s) PROVE WinnerInv'
  BY <1>10 DEF NodeDeclines
<1>11. ASSUME NEW s \in Slas, Paid(s) PROVE WinnerInv'
  BY <1>11 DEF Paid
<1>12. ASSUME NEW s \in Slas, Declined(s) PROVE WinnerInv'
  BY <1>12 DEF Declined
<1>13. ASSUME NEW s \in Slas, ReplyLost(s) PROVE WinnerInv'
  BY <1>13 DEF ReplyLost
<1>14. ASSUME NEW s \in Slas, ReadRecord(s) PROVE WinnerInv'
  BY <1>14 DEF ReadRecord
<1>15. ASSUME NEW s \in Slas, RecordGone(s) PROVE WinnerInv'
  BY <1>15 DEF RecordGone
<1>16. ASSUME NEW s \in Slas, WriteRecord(s) PROVE WinnerInv'
  BY <1>16 DEF WriteRecord
<1>17. ASSUME NEW s \in Slas, Forward(s) PROVE WinnerInv'
  BY <1>17 DEF Forward
<1>18. ASSUME NEW s \in Slas, NodeProvisions(s) PROVE WinnerInv'
  BY <1>18 DEF NodeProvisions
<1>19. ASSUME NEW s \in Slas, ProvisionFails(s) PROVE WinnerInv'
  BY <1>19 DEF ProvisionFails
<1>20. ASSUME NEW n \in Nodes, Reregister(n) PROVE WinnerInv'
  BY <1>20 DEF Reregister, Disturb
<1>21. ASSUME NEW n \in Nodes, Unregister(n) PROVE WinnerInv'
  BY <1>21 DEF Unregister, Disturb
<1>22. ASSUME NEW n \in Nodes, Restart(n) PROVE WinnerInv'
  BY <1>22 DEF Restart, Disturb
<1>23. CASE UNCHANGED vars
  BY <1>23
<1> QED
  BY <1>1, <1>2, <1>3, <1>4, <1>5, <1>6, <1>7, <1>8, <1>9, <1>10, <1>11, <1>12, <1>13,
     <1>14, <1>15, <1>16, <1>17, <1>18, <1>19, <1>20, <1>21, <1>22, <1>23 DEF Next,
     Tender, Pay, Note, Accept, Provision, Quiescent

(* A node is charged exactly when it answers so. *)
LEMMA ChargeStep ==
  ASSUME IInv, Next
  PROVE  ChargeInv'
<1> USE MarketAssumption DEF IInv, TypeOK, WinnerInv, Before, ChargeInv, RecordInv,
        vars, put, forward, registry, node, At
<1>1. ASSUME NEW s \in Slas, NEW n \in Nodes, Put(s, n) PROVE ChargeInv'
  BY <1>1 DEF Put
<1>2. ASSUME NEW s \in Slas, NEW n \in Nodes, Expire(n, s) PROVE ChargeInv'
  BY <1>2 DEF Expire
<1>3. ASSUME NEW s \in Slas, BidsCome(s) PROVE ChargeInv'
  BY <1>3 DEF BidsCome
<1>4. ASSUME NEW s \in Slas, BidsLost(s) PROVE ChargeInv'
  BY <1>4 DEF BidsLost
<1>5. ASSUME NEW s \in Slas, Elect(s) PROVE ChargeInv'
  <2>1. PICK first \in Nodes : winner' = [winner EXCEPT ![s] = first]
    BY <1>5 DEF Elect, Cheapest, Bidders
  <2> QED BY <1>5, <2>1 DEF Elect
<1>6. ASSUME NEW s \in Slas, NoWinner(s) PROVE ChargeInv'
  BY <1>6 DEF NoWinner
<1>7. ASSUME NEW s \in Slas, TakeOffer(s) PROVE ChargeInv'
  BY <1>7 DEF TakeOffer
<1>8. ASSUME NEW s \in Slas, WinnerUnknown(s) PROVE ChargeInv'
  BY <1>8 DEF WinnerUnknown
<1>9. ASSUME NEW s \in Slas, NodePays(s) PROVE ChargeInv'
  BY <1>9 DEF NodePays
<1>10. ASSUME NEW s \in Slas, NodeDeclines(s) PROVE ChargeInv'
  BY <1>10 DEF NodeDeclines
<1>11. ASSUME NEW s \in Slas, Paid(s) PROVE ChargeInv'
  BY <1>11 DEF Paid
<1>12. ASSUME NEW s \in Slas, Declined(s) PROVE ChargeInv'
  BY <1>12 DEF Declined
<1>13. ASSUME NEW s \in Slas, ReplyLost(s) PROVE ChargeInv'
  BY <1>13 DEF ReplyLost
<1>14. ASSUME NEW s \in Slas, ReadRecord(s) PROVE ChargeInv'
  BY <1>14 DEF ReadRecord
<1>15. ASSUME NEW s \in Slas, RecordGone(s) PROVE ChargeInv'
  BY <1>15 DEF RecordGone
<1>16. ASSUME NEW s \in Slas, WriteRecord(s) PROVE ChargeInv'
  BY <1>16 DEF WriteRecord
<1>17. ASSUME NEW s \in Slas, Forward(s) PROVE ChargeInv'
  BY <1>17 DEF Forward
<1>18. ASSUME NEW s \in Slas, NodeProvisions(s) PROVE ChargeInv'
  BY <1>18 DEF NodeProvisions
<1>19. ASSUME NEW s \in Slas, ProvisionFails(s) PROVE ChargeInv'
  <2>1. CASE UNCHANGED running
    BY <1>19, <2>1 DEF ProvisionFails
  <2>2. CASE s \in holds[tracked[s]] /\ running' = [running EXCEPT ![tracked[s]] = running[tracked[s]] \cup {s}]
    BY <1>19, <2>2 DEF ProvisionFails
  <2> QED BY <1>19, <2>1, <2>2 DEF ProvisionFails
<1>20. ASSUME NEW n \in Nodes, Reregister(n) PROVE ChargeInv'
  BY <1>20 DEF Reregister, Disturb
<1>21. ASSUME NEW n \in Nodes, Unregister(n) PROVE ChargeInv'
  BY <1>21 DEF Unregister, Disturb
<1>22. ASSUME NEW n \in Nodes, Restart(n) PROVE ChargeInv'
  BY <1>22 DEF Restart, Disturb
<1>23. CASE UNCHANGED vars
  BY <1>23
<1> QED
  BY <1>1, <1>2, <1>3, <1>4, <1>5, <1>6, <1>7, <1>8, <1>9, <1>10, <1>11, <1>12, <1>13,
     <1>14, <1>15, <1>16, <1>17, <1>18, <1>19, <1>20, <1>21, <1>22, <1>23 DEF Next,
     Tender, Pay, Note, Accept, Provision, Quiescent

(* Records, and copies of them, hold finished transactions of their node. *)
LEMMA RecordStep ==
  ASSUME IInv, Next
  PROVE  RecordInv'
<1> USE MarketAssumption DEF IInv, TypeOK, WinnerInv, Before, RecordInv, vars, put,
        forward, registry, node, At
<1>1. ASSUME NEW s \in Slas, NEW n \in Nodes, Put(s, n) PROVE RecordInv'
  BY <1>1 DEF Put
<1>2. ASSUME NEW s \in Slas, NEW n \in Nodes, Expire(n, s) PROVE RecordInv'
  BY <1>2 DEF Expire
<1>3. ASSUME NEW s \in Slas, BidsCome(s) PROVE RecordInv'
  BY <1>3 DEF BidsCome
<1>4. ASSUME NEW s \in Slas, BidsLost(s) PROVE RecordInv'
  BY <1>4 DEF BidsLost
<1>5. ASSUME NEW s \in Slas, Elect(s) PROVE RecordInv'
  <2>1. \A t \in Slas \ {s} : winner'[t] = winner[t] /\ stage'[t] = stage[t]
    BY <1>5 DEF Elect
  <2>2. stage[s] = "tendered" /\ stage'[s] = "elected"
    BY <1>5 DEF Elect
  <2>3. UNCHANGED <<copy, tracked, prov, accepted>>
    BY <1>5 DEF Elect
  <2>4. \A n \in Nodes : \A t \in accepted[n] : t # s
    BY <2>2
  <2>5. ASSUME NEW t \in Slas, NEW u \in copy[t] PROVE t # s /\ u # s
    <3>1. u \in Slas /\ stage[u] = "accepted" /\ winner[t] = winner[u]
      OBVIOUS
    <3>2. winner[u] \in Nodes /\ winner[s] = NoNode
      BY <2>2, <3>1
    <3> QED BY <2>2, <3>1, <3>2
  <2>6. \A n \in Nodes : \A t \in accepted'[n] : stage'[t] = "accepted" /\ winner'[t] = n
    BY <2>1, <2>3, <2>4
  <2>7. \A t \in Slas : \A u \in copy'[t] : stage'[u] = "accepted" /\ winner'[u] = winner'[t]
    BY <2>1, <2>3, <2>5
  <2>8. \A t \in Slas : tracked'[t] = IF stage'[t] = "accepted" THEN winner'[t] ELSE NoNode
    BY <2>1, <2>2, <2>3
  <2>9. \A t \in Slas : prov'[t] # "idle" => stage'[t] = "accepted"
    BY <2>1, <2>2, <2>3
  <2> QED BY <2>6, <2>7, <2>8, <2>9
<1>6. ASSUME NEW s \in Slas, NoWinner(s) PROVE RecordInv'
  BY <1>6 DEF NoWinner
<1>7. ASSUME NEW s \in Slas, TakeOffer(s) PROVE RecordInv'
  BY <1>7 DEF TakeOffer
<1>8. ASSUME NEW s \in Slas, WinnerUnknown(s) PROVE RecordInv'
  BY <1>8 DEF WinnerUnknown
<1>9. ASSUME NEW s \in Slas, NodePays(s) PROVE RecordInv'
  BY <1>9 DEF NodePays
<1>10. ASSUME NEW s \in Slas, NodeDeclines(s) PROVE RecordInv'
  BY <1>10 DEF NodeDeclines
<1>11. ASSUME NEW s \in Slas, Paid(s) PROVE RecordInv'
  BY <1>11 DEF Paid
<1>12. ASSUME NEW s \in Slas, Declined(s) PROVE RecordInv'
  BY <1>12 DEF Declined
<1>13. ASSUME NEW s \in Slas, ReplyLost(s) PROVE RecordInv'
  BY <1>13 DEF ReplyLost
<1>14. ASSUME NEW s \in Slas, ReadRecord(s) PROVE RecordInv'
  BY <1>14 DEF ReadRecord
<1>15. ASSUME NEW s \in Slas, RecordGone(s) PROVE RecordInv'
  BY <1>15 DEF RecordGone
<1>16. ASSUME NEW s \in Slas, WriteRecord(s) PROVE RecordInv'
  BY <1>16 DEF WriteRecord
<1>17. ASSUME NEW s \in Slas, Forward(s) PROVE RecordInv'
  BY <1>17 DEF Forward
<1>18. ASSUME NEW s \in Slas, NodeProvisions(s) PROVE RecordInv'
  BY <1>18 DEF NodeProvisions
<1>19. ASSUME NEW s \in Slas, ProvisionFails(s) PROVE RecordInv'
  BY <1>19 DEF ProvisionFails
<1>20. ASSUME NEW n \in Nodes, Reregister(n) PROVE RecordInv'
  BY <1>20 DEF Reregister, Disturb
<1>21. ASSUME NEW n \in Nodes, Unregister(n) PROVE RecordInv'
  BY <1>21 DEF Unregister, Disturb
<1>22. ASSUME NEW n \in Nodes, Restart(n) PROVE RecordInv'
  BY <1>22 DEF Restart, Disturb
<1>23. CASE UNCHANGED vars
  BY <1>23
<1> QED
  BY <1>1, <1>2, <1>3, <1>4, <1>5, <1>6, <1>7, <1>8, <1>9, <1>10, <1>11, <1>12, <1>13,
     <1>14, <1>15, <1>16, <1>17, <1>18, <1>19, <1>20, <1>21, <1>22, <1>23 DEF Next,
     Tender, Pay, Note, Accept, Provision, Quiescent

(* The price of an election is not touched again. *)
LEMMA PriceStep ==
  ASSUME IInv, Next
  PROVE  SecondPrice'
<1> USE MarketAssumption DEF IInv, TypeOK, WinnerInv, Before, SecondPrice, Bidders,
        vars, put, forward, registry, node, At
<1>1. ASSUME NEW s \in Slas, NEW n \in Nodes, Put(s, n) PROVE SecondPrice'
  BY <1>1 DEF Put
<1>2. ASSUME NEW s \in Slas, NEW n \in Nodes, Expire(n, s) PROVE SecondPrice'
  BY <1>2 DEF Expire
<1>3. ASSUME NEW s \in Slas, BidsCome(s) PROVE SecondPrice'
  <2>1. winner[s] = NoNode /\ UNCHANGED <<winner, price>>
    BY <1>3 DEF BidsCome
  <2>2. \A t \in Slas \ {s} : bids'[t] = bids[t]
    BY <1>3 DEF BidsCome
  <2> QED BY <2>1, <2>2
<1>4. ASSUME NEW s \in Slas, BidsLost(s) PROVE SecondPrice'
  BY <1>4 DEF BidsLost
<1>5. ASSUME NEW s \in Slas, Elect(s) PROVE SecondPrice'
  <2> DEFINE others(f) == Bidders(s) \ {f}
  <2>0. PICK first \in Cheapest(s, Bidders(s)) :
          /\ winner' = [winner EXCEPT ![s] = first]
          /\ \E second \in IF others(first) = {} THEN {first} ELSE Cheapest(s, others(first)) :
               price' = [price EXCEPT ![s] = bids[s][second]]
    BY <1>5 DEF Elect
  <2>1. PICK second \in IF others(first) = {} THEN {first} ELSE Cheapest(s, others(first)) :
          price' = [price EXCEPT ![s] = bids[s][second]]
    BY <2>0
  <2>2. UNCHANGED bids /\ first \in Bidders(s) /\ second \in Bidders(s)
    BY <1>5, <2>0, <2>1 DEF Elect, Cheapest
  <2>3. \A n \in Bidders(s) : n \in Nodes /\ bids[s][n] \in Nat
    BY BidTypes
  <2>4. bids[s][first] <= bids[s][second]
    BY <2>0, <2>1, <2>2 DEF Cheapest
  <2>5. \A n \in others(first) : bids[s][second] <= bids[s][n]
    BY <2>0, <2>1, <2>2 DEF Cheapest
  <2>6. others(first) = {} => second = first
    BY <2>1
  <2>7. others(first) # {} => second \in others(first)
    BY <2>1 DEF Cheapest
  <2>8. winner'[s] = first /\ price'[s] = bids[s][second] /\ Bidders(s)' = Bidders(s)
    BY <2>0, <2>1, <2>2
  <2>9. \A t \in Slas \ {s} : winner'[t] = winner[t] /\ price'[t] = price[t]
    BY <2>0, <2>1
  <2>10. SUFFICES ASSUME NEW t \in Slas, winner'[t] # NoNode
                  PROVE  LET rest == Bidders(t)' \ {winner'[t]} IN
                         /\ winner'[t] \in Bidders(t)'
                         /\ bids'[t][winner'[t]] <= price'[t]
                         /\ \A n \in rest : price'[t] <= bids'[t][n]
                         /\ \E n \in (IF rest = {} THEN {winner'[t]} ELSE rest) :
                              price'[t] = bids'[t][n]
    OBVIOUS
  <2>11. CASE t = s
    <3> HIDE DEF Bidders
    <3> QED BY <2>2, <2>4, <2>5, <2>6, <2>7, <2>8, <2>11
  <2>12. CASE t # s
    <3>1. winner'[t] = winner[t] /\ price'[t] = price[t] /\ UNCHANGED bids
      BY <2>2, <2>9, <2>12
    <3> QED BY <2>10, <3>1
  <2> QED BY <2>11, <2>12
<1>6. ASSUME NEW s \in Slas, NoWinner(s) PROVE SecondPrice'
  BY <1>6 DEF NoWinner
<1>7. ASSUME NEW s \in Slas, TakeOffer(s) PROVE SecondPrice'
  BY <1>7 DEF TakeOffer
<1>8. ASSUME NEW s \in Slas, WinnerUnknown(s) PROVE SecondPrice'
  BY <1>8 DEF WinnerUnknown
<1>9. ASSUME NEW s \in Slas, NodePays(s) PROVE SecondPrice'
  BY <1>9 DEF NodePays
<1>10. ASSUME NEW s \in Slas, NodeDeclines(s) PROVE SecondPrice'
  BY <1>10 DEF NodeDeclines
<1>11. ASSUME NEW s \in Slas, Paid(s) PROVE SecondPrice'
  BY <1>11 DEF Paid
<1>12. ASSUME NEW s \in Slas, Declined(s) PROVE SecondPrice'
  BY <1>12 DEF Declined
<1>13. ASSUME NEW s \in Slas, ReplyLost(s) PROVE SecondPrice'
  BY <1>13 DEF ReplyLost
<1>14. ASSUME NEW s \in Slas, ReadRecord(s) PROVE SecondPrice'
  BY <1>14 DEF ReadRecord
<1>15. ASSUME NEW s \in Slas, RecordGone(s) PROVE SecondPrice'
  BY <1>15 DEF RecordGone
<1>16. ASSUME NEW s \in Slas, WriteRecord(s) PROVE SecondPrice'
  BY <1>16 DEF WriteRecord
<1>17. ASSUME NEW s \in Slas, Forward(s) PROVE SecondPrice'
  BY <1>17 DEF Forward
<1>18. ASSUME NEW s \in Slas, NodeProvisions(s) PROVE SecondPrice'
  BY <1>18 DEF NodeProvisions
<1>19. ASSUME NEW s \in Slas, ProvisionFails(s) PROVE SecondPrice'
  BY <1>19 DEF ProvisionFails
<1>20. ASSUME NEW n \in Nodes, Reregister(n) PROVE SecondPrice'
  BY <1>20 DEF Reregister, Disturb
<1>21. ASSUME NEW n \in Nodes, Unregister(n) PROVE SecondPrice'
  BY <1>21 DEF Unregister, Disturb
<1>22. ASSUME NEW n \in Nodes, Restart(n) PROVE SecondPrice'
  BY <1>22 DEF Restart, Disturb
<1>23. CASE UNCHANGED vars
  BY <1>23
<1> QED
  BY <1>1, <1>2, <1>3, <1>4, <1>5, <1>6, <1>7, <1>8, <1>9, <1>10, <1>11, <1>12, <1>13,
     <1>14, <1>15, <1>16, <1>17, <1>18, <1>19, <1>20, <1>21, <1>22, <1>23 DEF Next,
     Tender, Pay, Note, Accept, Provision, Quiescent

(* A refused SLA that was charged is somebody's known fault. *)
LEMMA SilenceStep ==
  ASSUME IInv, Next
  PROVE  NoSilentCharge'
<1> USE MarketAssumption DEF IInv, TypeOK, WinnerInv, Before, ChargeInv, RecordInv,
        RegistryInv, NoSilentCharge, vars, put, forward, registry, node, At
<1>1. ASSUME NEW s \in Slas, NEW n \in Nodes, Put(s, n) PROVE NoSilentCharge'
  BY <1>1 DEF Put
<1>2. ASSUME NEW s \in Slas, NEW n \in Nodes, Expire(n, s) PROVE NoSilentCharge'
  BY <1>2 DEF Expire
<1>3. ASSUME NEW s \in Slas, BidsCome(s) PROVE NoSilentCharge'
  BY <1>3 DEF BidsCome
<1>4. ASSUME NEW s \in Slas, BidsLost(s) PROVE NoSilentCharge'
  BY <1>4 DEF BidsLost
<1>5. ASSUME NEW s \in Slas, Elect(s) PROVE NoSilentCharge'
  BY <1>5 DEF Elect
<1>6. ASSUME NEW s \in Slas, NoWinner(s) PROVE NoSilentCharge'
  BY <1>6 DEF NoWinner
<1>7. ASSUME NEW s \in Slas, TakeOffer(s) PROVE NoSilentCharge'
  BY <1>7 DEF TakeOffer
<1>8. ASSUME NEW s \in Slas, WinnerUnknown(s) PROVE NoSilentCharge'
  BY <1>8 DEF WinnerUnknown
<1>9. ASSUME NEW s \in Slas, NodePays(s) PROVE NoSilentCharge'
  BY <1>9 DEF NodePays
<1>10. ASSUME NEW s \in Slas, NodeDeclines(s) PROVE NoSilentCharge'
  BY <1>10 DEF NodeDeclines
<1>11. ASSUME NEW s \in Slas, Paid(s) PROVE NoSilentCharge'
  BY <1>11 DEF Paid
<1>12. ASSUME NEW s \in Slas, Declined(s) PROVE NoSilentCharge'
  BY <1>12 DEF Declined
<1>13. ASSUME NEW s \in Slas, ReplyLost(s) PROVE NoSilentCharge'
  BY <1>13 DEF ReplyLost
<1>14. ASSUME NEW s \in Slas, ReadRecord(s) PROVE NoSilentCharge'
  BY <1>14 DEF ReadRecord
<1>15. ASSUME NEW s \in Slas, RecordGone(s) PROVE NoSilentCharge'
  BY <1>15 DEF RecordGone
<1>16. ASSUME NEW s \in Slas, WriteRecord(s) PROVE NoSilentCharge'
  BY <1>16 DEF WriteRecord
<1>17. ASSUME NEW s \in Slas, Forward(s) PROVE NoSilentCharge'
  BY <1>17 DEF Forward
<1>18. ASSUME NEW s \in Slas, NodeProvisions(s) PROVE NoSilentCharge'
  BY <1>18 DEF NodeProvisions
<1>19. ASSUME NEW s \in Slas, ProvisionFails(s) PROVE NoSilentCharge'
  BY <1>19 DEF ProvisionFails
<1>20. ASSUME NEW n \in Nodes, Reregister(n) PROVE NoSilentCharge'
  BY <1>20 DEF Reregister, Disturb
<1>21. ASSUME NEW n \in Nodes, Unregister(n) PROVE NoSilentCharge'
  BY <1>21 DEF Unregister, Disturb
<1>22. ASSUME NEW n \in Nodes, Restart(n) PROVE NoSilentCharge'
  BY <1>22 DEF Restart, Disturb
<1>23. CASE UNCHANGED vars
  BY <1>23
<1> QED
  BY <1>1, <1>2, <1>3, <1>4, <1>5, <1>6, <1>7, <1>8, <1>9, <1>10, <1>11, <1>12, <1>13,
     <1>14, <1>15, <1>16, <1>17, <1>18, <1>19, <1>20, <1>21, <1>22, <1>23 DEF Next,
     Tender, Pay, Note, Accept, Provision, Quiescent

-----------------------------------------------------------------------------
(* The inductive invariant holds in every behaviour. *)
THEOREM MarketInvariance == Spec => []IInv
<1>1. Init => IInv
  BY MarketAssumption
  DEF Init, IInv, TypeOK, Stages, WinnerInv, Before, ChargeInv, RecordInv, RegistryInv,
      SecondPrice, NoSilentCharge
<1>2. IInv /\ [Next]_vars => IInv'
  <2> SUFFICES ASSUME IInv, [Next]_vars PROVE IInv'
    OBVIOUS
  <2>1. CASE Next
    <3>1. RegistryInv'
      BY <2>1
      DEF Next, IInv, RegistryInv, Put, Expire, Tender, Pay, Note, Accept, Provision, BidsCome,
          BidsLost, Elect, NoWinner, TakeOffer, WinnerUnknown, NodePays, NodeDeclines, Paid,
          Declined, ReplyLost, ReadRecord, RecordGone, WriteRecord, Forward, NodeProvisions,
          ProvisionFails, Reregister, Unregister, Restart, Quiescent, vars, registry
    <3> QED
      BY <2>1, <3>1, TypeStep, WinnerStep, ChargeStep, RecordStep, PriceStep, SilenceStep DEF IInv
  <2>2. CASE UNCHANGED vars
    <3> USE <2>2 DEF IInv, vars, put, forward, registry, node
    <3>1. TypeOK'
      BY DEF TypeOK
    <3>2. WinnerInv' /\ ChargeInv'
      BY DEF WinnerInv, ChargeInv
    <3>3. RecordInv' /\ RegistryInv'
      BY DEF RecordInv, RegistryInv
    <3>4. SecondPrice' /\ NoSilentCharge'
      BY DEF SecondPrice, NoSilentCharge, Bidders
    <3> QED BY <3>1, <3>2, <3>3, <3>4
  <2> QED BY <2>1, <2>2
<1> QED BY <1>1, <1>2, PTL DEF Spec

(* No SLA is charged on two nodes: a lost answer is never followed by      *)
(* another offer.                                                          *)
THEOREM ChargedOnce == Spec => []PaidOnce
<1>1. IInv => PaidOnce
  BY DEF IInv, ChargeInv, PaidOnce
<1> QED BY <1>1, MarketInvariance, PTL

(* The auction of every PUT is a second-price auction. *)
THEOREM Vickrey == Spec => []SecondPrice
<1>1. IInv => SecondPrice
  BY DEF IInv
<1> QED BY <1>1, MarketInvariance, PTL

(* A node charged for a refused SLA is explained by a lost answer or a     *)
(* removed record.                                                         *)
THEOREM SilentChargeExplained == Spec => []NoSilentCharge
<1>1. IInv => NoSilentCharge
  BY DEF IInv
<1> QED BY <1>1, MarketInvariance, PTL

(* What the market lists was paid where it is listed, whatever updates of  *)
(* the record were lost.                                                   *)
THEOREM ListedTransactionsArePaid == Spec => []ListedIsPaid
<1>1. IInv => ListedIsPaid
  BY DEF IInv, TypeOK, ChargeInv, RecordInv, ListedIsPaid
<1> QED BY <1>1, MarketInvariance, PTL

(* A provisioning is forwarded to the node that took the payment.          *)
THEOREM ForwardedToPayee == Spec => []ProvisionReachesPayee
<1>1. IInv => ProvisionReachesPayee
  BY DEF IInv, TypeOK, ChargeInv, RecordInv, ProvisionReachesPayee
<1> QED BY <1>1, MarketInvariance, PTL
=============================================================================
