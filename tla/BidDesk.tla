-------------------------------- MODULE BidDesk --------------------------------
(***************************************************************************)
(* Where a fog node makes its price.  A bid reads the queue of the         *)
(* functions that are due to be unprovisioned, quotes a price that grows   *)
(* with the load they still represent, and passes a limiter of bids per    *)
(* second.  A bid that is paid enters the queue; a timer of its own takes  *)
(* an entry, the front one, off the queue when it elapses.                 *)
(*                                                                         *)
(* The handlers of bids, the payment and the timers are tasks that         *)
(* interleave at every await.  Payments and terminations hold the permit   *)
(* of FunctionLife, so one payment is under way at a time and nothing is   *)
(* finished meanwhile; they appear here by what they do to the queue and   *)
(* to the set of functions a price counts.  Time is in whole seconds.      *)
(***************************************************************************)
EXTENDS Integers, FiniteSets, SequencesExt

CONSTANTS
  Slas,          \* the SLAs the node is asked to bid on, once each
  Duration,      \* Duration[s]: its duration
  Cpu,           \* Cpu[s]: its share of the cpu of a Kubernetes node
  MaxInFlight,   \* max_in_flight_functions_proposals
  AA, BB,        \* RATIO_AA, RATIO_BB, in units of ELECTRICITY_PRICE
  MaxClock       \* bound: the last second

ASSUME BidDeskAssumption ==
  /\ IsFiniteSet(Slas)
  /\ Duration \in [Slas -> Nat] /\ Cpu \in [Slas -> Nat]
  /\ MaxInFlight \in Nat \ {0} /\ AA \in Nat /\ BB \in Nat
  /\ MaxClock \in Nat

VARIABLES
  clock,
  limitFirst,  \* the build: maxcpu and mincpurandom price after the limiter
  pc,          \* pc[s]: where the bid on s, then its payment, is
  now,         \* now[s]: the clock as s read it to price
  quote,       \* quote[s]: how the price asked compares with the load there is
  second,      \* second[s]: the clock as s read it for the limiter
  count,       \* count[p]: bids in flight counted for seconds of parity p
  inc,         \* inc[s]: the count s found
  tasks,       \* the queue of entries, an entry named by its SLA
  created,     \* created[s]: created_at of its entry
  timer,       \* timer[s]: its unprovisioning task
  deadline,    \* deadline[s]: when its sleep is over
  finished,    \* SLAs in state Finished
  \* history: seconds in which the limiter was crossed by a late request
  disturbed

limiter == <<second, count, inc, disturbed>>
queue == <<tasks, created, timer, deadline, finished>>
vars == <<clock, limitFirst, pc, now, quote, limiter, queue>>

Labels == {"asked", "timed", "quoted", "stamped", "counted", "cleared", "proposed",
           "noRoom", "refused", "panicked", "spawned", "paid"}

Init ==
  /\ clock = 0
  /\ limitFirst \in BOOLEAN
  /\ pc = [s \in Slas |-> "asked"]
  /\ now = [s \in Slas |-> 0]
  /\ quote = [s \in Slas |-> "none"]
  /\ second = [s \in Slas |-> 0]
  /\ count = [p \in {0, 1} |-> 0]
  /\ inc = [s \in Slas |-> 0]
  /\ tasks = <<>>
  /\ created = [s \in Slas |-> 0]
  /\ timer = [s \in Slas |-> "none"]
  /\ deadline = [s \in Slas |-> 0]
  /\ finished = {}
  /\ disturbed = {}

Goto(s, label) == pc' = [pc EXCEPT ![s] = label]

Tick == clock < MaxClock /\ clock' = clock + 1
        /\ UNCHANGED <<limitFirst, pc, now, quote, limiter, queue>>

-----------------------------------------------------------------------------
(* compute_bid, quadratic rates: no Kubernetes node has room, or the clock *)
(* is read ...                                                             *)
PricesNext(s) == pc[s] = IF limitFirst THEN "cleared" ELSE "asked"

NoRoom(s) ==
  /\ PricesNext(s)
  /\ Goto(s, "noRoom")
  /\ UNCHANGED <<clock, limitFirst, now, quote, limiter, queue>>

Now(s) ==
  /\ PricesNext(s)
  /\ now' = [now EXCEPT ![s] = clock]
  /\ Goto(s, "timed")
  /\ UNCHANGED <<clock, limitFirst, quote, limiter, queue>>

(* ... then the queue, under its lock: what each function not finished yet *)
(* has left of its duration.                                               *)
Remaining(s, t) ==
  IF created[s] + Duration[s] > t THEN created[s] + Duration[s] - t ELSE 0

Utilisation(S, t) == MapThenSumSet(LAMBDA s : Cpu[s] * Remaining(s, t), S)

Price(s, utilisation) ==
  Cpu[s] * (2 * AA * utilisation + (AA * Cpu[s] + BB) * Duration[s])

Running == {s \in Slas : pc[s] = "paid" /\ s \notin finished}
Pending == {s \in Running : timer[s] # "fired"}

\* Mutant of UtilisationVariations: an entry counts until it is popped.
AllEntries == ToSet(tasks)

UtilisationVariations == ToSet(tasks) \ finished

(* A price is judged by the functions whose timer runs, at least, and by   *)
(* all those not finished, at most.                                        *)
Verdict(s, price) ==
  IF price < Price(s, Utilisation(Pending, clock)) THEN "low"
  ELSE IF price > Price(s, Utilisation(Running, now[s])) THEN "high" ELSE "fair"

Quote(s) ==
  /\ pc[s] = "timed"
  /\ LET price == Price(s, Utilisation(UtilisationVariations, now[s])) IN
     /\ quote' = [quote EXCEPT ![s] = Verdict(s, price)]
     /\ Goto(s, CASE price = 0  -> "panicked"
                  [] limitFirst -> "proposed"
                  [] OTHER      -> "quoted")
  /\ now' = [now EXCEPT ![s] = 0]
  /\ UNCHANGED <<clock, limitFirst, limiter, queue>>

-----------------------------------------------------------------------------
(* check_in_flight: the parity of the second is read, its counter is       *)
(* incremented, the other counter is reset.                                *)
Stamp(s) ==
  /\ pc[s] = IF limitFirst THEN "asked" ELSE "quoted"
  /\ second' = [second EXCEPT ![s] = clock]
  /\ Goto(s, "stamped")
  /\ UNCHANGED <<clock, limitFirst, now, quote, count, inc, disturbed, queue>>

Parity(s) == second[s] % 2

Count(s) ==
  /\ pc[s] = "stamped"
  /\ inc' = [inc EXCEPT ![s] = count[Parity(s)]]
  /\ count' = [count EXCEPT ![Parity(s)] = @ + 1]
  /\ disturbed' = disturbed \cup (IF clock # second[s] THEN {second[s]} ELSE {})
  /\ Goto(s, "counted")
  /\ UNCHANGED <<clock, limitFirst, now, quote, second, queue>>

\* Mutant of Other: the counter that was incremented is the one reset.
Own(s) == Parity(s)

Other(s) == 1 - Parity(s)

Clear(s) ==
  /\ pc[s] = "counted"
  /\ count' = [count EXCEPT ![Other(s)] = 0]
  /\ disturbed' = disturbed \cup (IF clock % 2 # Parity(s) THEN {clock} ELSE {})
  /\ Goto(s, CASE inc[s] > MaxInFlight -> "refused"
               [] limitFirst           -> "cleared"
               [] OTHER                -> "proposed")
  /\ UNCHANGED <<clock, limitFirst, now, quote, second, inc, queue>>

-----------------------------------------------------------------------------
(* The payment, under the permit: the timer's task is spawned, then the    *)
(* entry is pushed.  The sleep starts when that task is first polled.      *)
Paying == {s \in Slas : pc[s] = "spawned"}

Pay(s) ==
  /\ pc[s] = "proposed" /\ Paying = {}
  /\ Goto(s, "spawned")
  /\ timer' = [timer EXCEPT ![s] = "spawned"]
  /\ UNCHANGED <<clock, limitFirst, now, quote, limiter, tasks, created, deadline, finished>>

Sleep(s) ==
  /\ timer[s] = "spawned"
  /\ timer' = [timer EXCEPT ![s] = "sleeping"]
  /\ deadline' = [deadline EXCEPT ![s] = clock + Duration[s]]
  /\ UNCHANGED <<clock, limitFirst, pc, now, quote, limiter, tasks, created, finished>>

Push(s) ==
  /\ pc[s] = "spawned"
  /\ created' = [created EXCEPT ![s] = clock]
  /\ tasks' = Append(tasks, s)
  /\ Goto(s, "paid")
  /\ UNCHANGED <<clock, limitFirst, now, quote, limiter, timer, deadline, finished>>

\* Mutant of Popped: the last entry goes.
PoppedBack == IF tasks = <<>> THEN <<>> ELSE Front(tasks)

Popped == IF tasks = <<>> THEN <<>> ELSE Tail(tasks)

(* The sleep is over: the front entry goes, whosever it is. *)
Fire(s) ==
  /\ timer[s] = "sleeping" /\ clock >= deadline[s]
  /\ timer' = [timer EXCEPT ![s] = "fired"]
  /\ tasks' = Popped
  /\ UNCHANGED <<clock, limitFirst, pc, now, quote, limiter, created, deadline, finished>>

(* The function is finished by its timer, or before by a provisioning that *)
(* gave up.  Both take the permit.                                         *)
Finish(s) ==
  /\ s \in Running /\ Paying = {}
  /\ finished' = finished \cup {s}
  /\ UNCHANGED <<clock, limitFirst, pc, now, quote, limiter, tasks, created, timer, deadline>>

Bid(s) == NoRoom(s) \/ Now(s) \/ Quote(s) \/ Stamp(s) \/ Count(s) \/ Clear(s)
Term(s) == Pay(s) \/ Sleep(s) \/ Push(s) \/ Fire(s) \/ Finish(s)

Next == Tick \/ \E s \in Slas : Bid(s) \/ Term(s)

Spec == Init /\ [][Next]_vars

-----------------------------------------------------------------------------
TypeOK ==
  /\ clock \in Nat
  /\ limitFirst \in BOOLEAN
  /\ pc \in [Slas -> Labels]
  /\ now \in [Slas -> Nat]
  /\ quote \in [Slas -> {"none", "fair", "low", "high"}]
  /\ second \in [Slas -> Nat]
  /\ count \in [{0, 1} -> Nat]
  /\ inc \in [Slas -> Nat]
  /\ tasks \in Seq(Slas)
  /\ created \in [Slas -> Nat]
  /\ timer \in [Slas -> {"none", "spawned", "sleeping", "fired"}]
  /\ deadline \in [Slas -> Nat]
  /\ finished \in SUBSET Slas
  /\ disturbed \in SUBSET Nat

Shorter(s) == \E r \in Slas : timer[r] = "fired" /\ Duration[r] < Duration[s]

(* A timer takes an entry that need not be its own.  Still, a function     *)
(* with time left to run is missing from the queue only when a function of *)
(* a shorter duration has ended: with equal durations nothing is missing,  *)
(* however the spawned tasks are delayed.                                  *)
EntryKept ==
  \A s \in Pending :
    s \notin ToSet(tasks) /\ Remaining(s, clock) > 0 => Shorter(s)

(* Hence a price is never below that of the load which is certain, the     *)
(* functions whose timer runs, unless a shorter function ended, and never  *)
(* above that of all the functions not finished.                           *)
PriceBracketed ==
  \A s \in Slas :
    /\ quote[s] # "high"
    /\ quote[s] = "low" => \E r \in Slas : Shorter(r)

(* The counter is compared before it is incremented, so a second admits    *)
(* one bid more than configured, and no more whatever the interleaving,    *)
(* unless a request that had read the clock in another second counted or   *)
(* reset in between.                                                       *)
Uncounted ==
  {"asked", "stamped"} \cup (IF limitFirst THEN {} ELSE {"timed", "quoted", "noRoom", "panicked"})

Counted(w) == {s \in Slas : pc[s] \notin Uncounted /\ second[s] = w}

Admitted(w) == {s \in Counted(w) : inc[s] <= MaxInFlight}

InFlightBound ==
  \A w \in (0..clock) \ disturbed : Cardinality(Admitted(w)) <= MaxInFlight + 1

(* The inductive invariant behind the theorems of BidDeskProofs: one       *)
(* payment at a time, and entries of paid SLAs, each once ...              *)
PaymentInv ==
  /\ \A s \in Slas : pc[s] \in {"spawned", "paid"} <=> timer[s] # "none"
  /\ \A s, r \in Paying : s = r
  /\ \A s \in Slas : created[s] <= clock
  /\ \A s \in Slas : timer[s] = "fired" => deadline[s] <= clock

QueueInv ==
  /\ \A i \in DOMAIN tasks : pc[tasks[i]] = "paid"
  /\ \A i, j \in DOMAIN tasks : tasks[i] = tasks[j] => i = j

(* ... in an order in which no sleep started before the entries in front   *)
(* were created ...                                                        *)
SleptAfter(s, r) ==
  timer[s] \in {"sleeping", "fired"} => created[r] + Duration[s] <= deadline[s]

OrderInv ==
  /\ \A i, j \in DOMAIN tasks : i < j => SleptAfter(tasks[j], tasks[i])
  /\ \A s \in Paying : \A i \in DOMAIN tasks : SleptAfter(s, tasks[i])

(* ... no more entries gone than timers fired, hence when the last one     *)
(* went without its timer, the timer of one behind it had fired ...        *)
Fired == {s \in Slas : timer[s] = "fired"}
Gone == {s \in Slas : pc[s] = "paid"} \ ToSet(tasks)

GoneInv == Cardinality(Gone) <= Cardinality(Fired)

(* ... and in an undisturbed second, requests that found different counts. *)
LimiterInv ==
  /\ \A s \in Slas : second[s] <= clock
  /\ \A w \in (0..clock) \ disturbed :
       /\ \A s, r \in Counted(w) : inc[s] = inc[r] => s = r
       /\ w = clock => \A s \in Counted(w) : inc[s] < count[w % 2]

IInv == TypeOK /\ PaymentInv /\ QueueInv /\ OrderInv /\ GoneInv /\ EntryKept /\ LimiterInv
=============================================================================
