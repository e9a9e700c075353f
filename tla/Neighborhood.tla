----------------------------- MODULE Neighborhood -----------------------------
(***************************************************************************)
(* How a fog node enters the network and comes to be measured.  A node     *)
(* registers with its parent, which notes it among its children before it  *)
(* relays the registration to its own parent, up to the market.  Each hop  *)
(* retries on errors and gives up after a while; the node itself starts    *)
(* anew for ever.  Every so often a node pings those it knows, children    *)
(* and parent, and keeps a window of what it measured.                     *)
(*                                                                         *)
(* Requests and answers are lost, and nodes restart with nothing but their *)
(* configuration.  Handlers of one registration at one node repeat the     *)
(* same steps, so they appear as one.                                      *)
(***************************************************************************)
EXTENDS MovingMedian

CONSTANTS
  Nodes,      \* fog nodes
  Root,       \* the one connected to the market
  Up,         \* Up[n]: the parent that n is configured with
  Watched,    \* bound: pairs <<m, n>> whose latency is followed
  Latencies,  \* what the pings of a round may average to
  Sent,       \* NB_ICMP_SENT
  Lost,       \* bound: how many of them may fail in a round
  MaxFaults   \* bound: lost messages, failed calls and restarts

ASSUME NeighborhoodAssumption ==
  /\ Root \in Nodes
  /\ Up \in [Nodes \ {Root} -> Nodes]
  /\ Watched \subseteq Nodes \X Nodes
  /\ Latencies \subseteq Nat
  /\ Sent \in Nat \ {0} /\ Lost \subseteq 0..Sent
  /\ MaxFaults \in Nat

VARIABLES
  relay,     \* relay[y][n]: how far y is with the registration of n
  children,  \* children[y]: the children y noted
  listed,    \* the nodes the market knows
  pinging,   \* pinging[y]: the neighbours the round of y has left to measure
  window,    \* window[y][n]: what y measured of n
  faults,    \* the faults so far
  \* history: nodes whose parent restarted after it noted them
  forgotten,
  recent     \* history: recent[y][n]: the last samples y took of n

enrolment == <<relay, children, listed, faults, forgotten>>
latency == <<pinging, window, recent>>
vars == <<enrolment, latency>>

Labels == {"none", "first", "again", "waiting", "ok", "failed", "registered"}
Posting == {"first", "again"}

(* What a node starts with.  It posts its own registration again and again,*)
(* where a handler, which gives up some time, is sure of a first post only.*)
Booted(y) == [n \in Nodes |-> IF n = y THEN "again" ELSE "none"]
Unmeasured == [n \in Nodes |-> Empty]

Init ==
  /\ relay = [y \in Nodes |-> Booted(y)]
  /\ children = [y \in Nodes |-> {}]
  /\ listed = {}
  /\ pinging = [y \in Nodes |-> {}]
  /\ window = [y \in Nodes |-> Unmeasured]
  /\ faults = 0
  /\ forgotten = {}
  /\ recent = [y \in Nodes |-> [n \in Nodes |-> <<>>]]

-----------------------------------------------------------------------------
\* Mutant of Noted: a node that is not registered itself only relays.
NotedLater(y, n) ==
  IF y = Up[n] /\ relay[y][y] = "registered"
  THEN /\ children' = [children EXCEPT ![y] = @ \cup {n}]
       /\ forgotten' = forgotten \ {n}
  ELSE UNCHANGED <<children, forgotten>>

(* register_to_parent posts to the parent, whose handler notes its child   *)
(* and is about to relay; an older handler is not disturbed.               *)
Noted(y, n) ==
  IF y = Up[n]
  THEN /\ children' = [children EXCEPT ![y] = @ \cup {n}]
       /\ forgotten' = forgotten \ {n}
  ELSE UNCHANGED <<children, forgotten>>

Post(x, n) ==
  /\ x # Root /\ relay[x][n] \in Posting
  /\ LET y == Up[x] IN
     /\ relay' = [relay EXCEPT ![x][n] = "waiting",
                   ![y][n] = IF @ \in {"none", "ok", "failed"} THEN "first" ELSE @]
     /\ Noted(y, n)
  /\ UNCHANGED <<listed, faults, latency>>

(* The root posts to the market, which takes a node whose parent it knows. *)
Acceptable == {Root} \cup {n \in Nodes \ {Root} : Up[n] \in listed}

Accept(n) ==
  /\ relay[Root][n] \in Posting /\ n \in Acceptable
  /\ listed' = listed \cup {n}
  /\ relay' = [relay EXCEPT ![Root][n] = IF n = Root THEN "registered" ELSE "ok"]
  /\ UNCHANGED <<children, faults, forgotten, latency>>

Refuse(n) ==
  /\ relay[Root][n] \in Posting /\ n \notin Acceptable
  /\ relay' = [relay EXCEPT ![Root][n] = "again"]
  /\ UNCHANGED <<children, listed, faults, forgotten, latency>>

(* A relay that failed for long enough is given up.  The node itself then  *)
(* starts anew.                                                            *)
GiveUp(y, n) ==
  /\ y # n /\ relay[y][n] = "again"
  /\ relay' = [relay EXCEPT ![y][n] = "failed"]
  /\ UNCHANGED <<children, listed, faults, forgotten, latency>>

\* Mutant of Outcome: the node itself tries once.
OutcomeOnce(x, n, answer) ==
  CASE answer = "failed" -> IF x = n THEN "failed" ELSE "again"
    [] x = n -> "registered"
    [] OTHER -> "ok"

(* The handler ends and its answer reaches whoever still waits for it.     *)
Outcome(x, n, answer) ==
  CASE answer = "failed" -> "again" [] x = n -> "registered" [] OTHER -> "ok"

Answer(y, n) ==
  /\ y # n /\ relay[y][n] \in {"ok", "failed"}
  /\ relay' = [x \in Nodes |->
       [relay[x] EXCEPT ![n] =
          CASE x = y -> "none"
            [] x \notin {y, Root} /\ Up[x] = y /\ @ = "waiting" -> Outcome(x, n, relay[y][n])
            [] OTHER -> @]]
  /\ UNCHANGED <<children, listed, faults, forgotten, latency>>

-----------------------------------------------------------------------------
(* Faults.  A connection breaks: the caller tries again, and the handler   *)
(* runs on or is dropped ...                                               *)
Fault == faults < MaxFaults /\ faults' = faults + 1

Break(x, n) ==
  /\ Fault
  /\ x # Root /\ relay[x][n] = "waiting"
  /\ \E left \in {"none", relay[Up[x]][n]} :
       relay' = [relay EXCEPT ![x][n] = "again", ![Up[x]][n] = left]
  /\ UNCHANGED <<children, listed, forgotten, latency>>

(* ... the call to the market fails, before it or after it had its effect, *)
(* or because the market's check failed and undid it ...                   *)
Fail(n) ==
  /\ Fault
  /\ relay[Root][n] \in Posting /\ n \in Acceptable
  /\ listed' \in {listed, listed \cup {n}, listed \ {n}}
  /\ relay' = [relay EXCEPT ![Root][n] = "again"]
  /\ UNCHANGED <<children, forgotten, latency>>

(* ... a node restarts.                                                    *)
Restart(y) ==
  /\ Fault
  /\ relay' = [x \in Nodes |->
       IF x = y THEN Booted(y)
       ELSE IF x # Root /\ Up[x] = y
            THEN [n \in Nodes |-> IF relay[x][n] = "waiting" THEN "again" ELSE relay[x][n]]
            ELSE relay[x]]
  /\ children' = [children EXCEPT ![y] = {}]
  /\ forgotten' = forgotten \cup children[y]
  /\ pinging' = [pinging EXCEPT ![y] = {}]
  /\ window' = [window EXCEPT ![y] = Unmeasured]
  /\ recent' = [recent EXCEPT ![y] = [n \in Nodes |-> <<>>]]
  /\ UNCHANGED listed

-----------------------------------------------------------------------------
(* latency_to_neighbors.  A round of ten pings lasts ten seconds at most,  *)
(* and rounds are fifteen apart.                                           *)
Neighbors(y) == children[y] \cup (IF y = Root THEN {} ELSE {Up[y]})

Round(y) ==
  /\ pinging[y] = {}
  /\ pinging' = [pinging EXCEPT ![y] = {n \in Neighbors(y) : <<y, n>> \in Watched}]
  /\ pinging'[y] # {}
  /\ UNCHANGED <<enrolment, window, recent>>

(* The division of the two u16 comes before the conversion to f64.         *)
LossRatio(failed) == failed \div Sent

LastOf(s, v) == LET t == Append(s, v) IN
  IF Len(t) > Window THEN Tail(t) ELSE t

Measure(y, n, failed, v) ==
  /\ n \in pinging[y] /\ failed # Sent
  /\ pinging' = [pinging EXCEPT ![y] = @ \ {n}]
  /\ window' = [window EXCEPT ![y][n] = Updated(@, v, LossRatio(failed))]
  /\ recent' = [recent EXCEPT ![y][n] = LastOf(@, v)]
  /\ UNCHANGED enrolment

(* All ICMP requests failed: nothing is recorded. *)
Unreachable(y, n) ==
  /\ n \in pinging[y] /\ Sent \in Lost
  /\ pinging' = [pinging EXCEPT ![y] = @ \ {n}]
  /\ UNCHANGED <<enrolment, window, recent>>

Next ==
  \/ \E y, n \in Nodes : Post(y, n) \/ GiveUp(y, n) \/ Answer(y, n) \/ Break(y, n)
  \/ \E n \in Nodes : Accept(n) \/ Refuse(n) \/ Fail(n)
  \/ \E y \in Nodes : Restart(y) \/ Round(y)
  \/ \E y, n \in Nodes :
       Unreachable(y, n) \/ \E failed \in Lost, v \in Latencies : Measure(y, n, failed, v)

(* A registration that can take a step takes one.                          *)
Relaying(n) == Accept(n) \/ Refuse(n) \/ \E y \in Nodes : Post(y, n) \/ Answer(y, n)

Fairness == \A n \in Nodes : WF_vars(Relaying(n))

Spec == Init /\ [][Next]_vars
FairSpec == Spec /\ Fairness

-----------------------------------------------------------------------------
TypeOK ==
  /\ relay \in [Nodes -> [Nodes -> Labels]]
  /\ children \in [Nodes -> SUBSET Nodes]
  /\ listed \subseteq Nodes
  /\ forgotten \subseteq Nodes
  /\ faults \in 0..MaxFaults

(* The market leads bids through the tree it knows, and a node relays them *)
(* to the children it noted: a node the market lists has a parent that     *)
(* noted it, unless that parent restarted since.                           *)
Linked(n) == n \in children[Up[n]] \cup forgotten

ListedIsLinked == \A n \in listed \ {Root} : Linked(n)

(* The window holds the last samples taken since the node started, in the  *)
(* ring and in order alike, and the loss ratios of the same rounds: the    *)
(* two rings move their cursors at different times, and overwrite together.*)
WindowIsRecent ==
  \A y, n \in Nodes : LET e == window[y][n] IN
    /\ Unrolled(e) = recent[y][n]
    /\ InOrderOf(e.ordered, e.ring)
    /\ SameRounds(e)

(* The median has half of the window on either side at most, and lies      *)
(* between the quartiles, so that their distance is none below zero.  The  *)
(* first quartile has a quarter below it and three above at most, and the  *)
(* third the reverse.  This is not claimed of 4k + 1 samples: there the    *)
(* code takes the third quartile from one place too low, of five samples   *)
(* between the third and the fourth, the first between the first and the   *)
(* second.                                                                 *)
Divides(e, twice, low, high, of) ==
  of * Below(e, twice) <= low * Len(e.ring) /\ of * Above(e, twice) <= high * Len(e.ring)

Cuts ==
  \A y, n \in Nodes : LET e == window[y][n] IN
    Known(e) =>
      /\ Divides(e, Median2(e), 1, 1, 2)
      /\ FirstQuartile2(e) <= Median2(e) /\ Median2(e) <= ThirdQuartile2(e)
      /\ Len(e.ring) % 4 # 1 =>
           Divides(e, FirstQuartile2(e), 1, 3, 4) /\ Divides(e, ThirdQuartile2(e), 3, 1, 4)

(* Once faults stop, every node ends up registered for good.               *)
EveryNodeRegisters == <>[](\A n \in Nodes : relay[n][n] = "registered" /\ n \in listed)

(* Behind ListedIsLinked: whoever relays for a node is behind its parent.  *)
RelayedIsLinked == \A y, n \in Nodes : y # n /\ relay[y][n] # "none" => n # Root /\ Linked(n)

IInv == TypeOK /\ RelayedIsLinked /\ ListedIsLinked
=============================================================================
