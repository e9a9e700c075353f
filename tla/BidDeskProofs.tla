----------------------------- MODULE BidDeskProofs -----------------------------
(***************************************************************************)
(* Proofs about BidDesk, for every set of SLAs, every duration, share of   *)
(* the cpu and limit, and any number of seconds.                           *)
(***************************************************************************)
EXTENDS BidDesk, FiniteSetTheorems, FiniteSetsExt, TLAPS

(* The entries of the queue after a push, and after the front one left. *)
LEMMA AppendEntry ==
  ASSUME NEW S, NEW q \in Seq(S), NEW e \in S
  PROVE  /\ Append(q, e) \in Seq(S)
         /\ DOMAIN q = 1..Len(q) /\ Len(q) \in Nat
         /\ DOMAIN Append(q, e) = 1..(Len(q) + 1)
         /\ \A i \in 1..Len(q) : Append(q, e)[i] = q[i]
         /\ Append(q, e)[Len(q) + 1] = e
OBVIOUS

LEMMA TailEntries ==
  ASSUME NEW S, NEW q \in Seq(S), q # <<>>
  PROVE  /\ Tail(q) \in Seq(S)
         /\ DOMAIN q = 1..Len(q) /\ Len(q) \in Nat \ {0}
         /\ DOMAIN Tail(q) = 1..(Len(q) - 1)
         /\ \A i \in 1..(Len(q) - 1) : Tail(q)[i] = q[i + 1]
OBVIOUS

LEMMA HeadGoes ==
  ASSUME NEW S, NEW q \in Seq(S), q # <<>>
  PROVE  ToSet(q) \ {q[1]} \subseteq ToSet(Tail(q))
<1>1. /\ DOMAIN q = 1..Len(q) /\ Len(q) \in Nat \ {0}
      /\ DOMAIN Tail(q) = 1..(Len(q) - 1)
      /\ \A i \in 1..(Len(q) - 1) : Tail(q)[i] = q[i + 1]
  BY TailEntries
<1>2. ASSUME NEW i \in DOMAIN q, i # 1 PROVE q[i] \in ToSet(Tail(q))
  <2>1. i - 1 \in DOMAIN Tail(q) /\ Tail(q)[i - 1] = q[i]
    BY <1>1, <1>2
  <2> QED BY <2>1 DEF ToSet
<1> QED BY <1>1, <1>2 DEF ToSet

(* Every action keeps the types. *)
LEMMA TypeStep ==
  ASSUME TypeOK, Next
  PROVE  TypeOK'
<1> USE BidDeskAssumption DEF limiter, queue
<1>1. CASE Tick
  BY <1>1 DEF Tick, TypeOK
<1>2. ASSUME NEW s \in Slas, NEW l \in Labels, Goto(s, l) PROVE pc' \in [Slas -> Labels]
  BY <1>2 DEF Goto, TypeOK
<1>3. ASSUME NEW s \in Slas, NoRoom(s) \/ Now(s) \/ Stamp(s) PROVE TypeOK'
  <2>1. pc' \in [Slas -> Labels]
    BY <1>2, <1>3 DEF NoRoom, Now, Stamp, Labels
  <2>2. CASE NoRoom(s)
    BY <2>1, <2>2 DEF NoRoom, TypeOK
  <2>3. CASE Now(s)
    BY <2>1, <2>3 DEF Now, TypeOK
  <2>4. CASE Stamp(s)
    BY <2>1, <2>4 DEF Stamp, TypeOK
  <2> QED BY <1>3, <2>2, <2>3, <2>4
<1>4. ASSUME NEW s \in Slas, Quote(s) PROVE TypeOK'
  <2>1. PICK price : /\ quote' = [quote EXCEPT ![s] = Verdict(s, price)]
                     /\ Goto(s, CASE price = 0  -> "panicked"
                                  [] limitFirst -> "proposed"
                                  [] OTHER      -> "quoted")
    BY <1>4 DEF Quote
  <2>2. Verdict(s, price) \in {"none", "fair", "low", "high"}
    BY DEF Verdict
  <2>3. pc' \in [Slas -> Labels]
    BY <2>1, <1>2 DEF Labels
  <2>4. quote' \in [Slas -> {"none", "fair", "low", "high"}]
    BY <2>1, <2>2 DEF TypeOK
  <2> QED BY <1>4, <2>3, <2>4 DEF Quote, TypeOK
<1>5. ASSUME NEW s \in Slas, Count(s) \/ Clear(s) PROVE TypeOK'
  <2>1. Parity(s) \in {0, 1} /\ Other(s) \in {0, 1}
    BY DEF Parity, Other, TypeOK
  <2>2. pc' \in [Slas -> Labels]
    BY <1>2, <1>5 DEF Count, Clear, Labels
  <2>3. CASE Count(s)
    <3>1. count' \in [{0, 1} -> Nat] /\ inc' \in [Slas -> Nat]
      BY <2>1, <2>3 DEF Count, TypeOK
    <3>2. disturbed' \in {disturbed, disturbed \cup {second[s]}}
      BY <2>3 DEF Count
    <3>3. disturbed' \in SUBSET Nat
      BY <3>2 DEF TypeOK
    <3> QED BY <2>2, <2>3, <3>1, <3>3 DEF Count, TypeOK
  <2>4. CASE Clear(s)
    <3>1. count' \in [{0, 1} -> Nat]
      BY <2>1, <2>4 DEF Clear, TypeOK
    <3>2. disturbed' \in SUBSET Nat
      BY <2>4 DEF Clear, TypeOK
    <3> QED BY <2>2, <2>4, <3>1, <3>2 DEF Clear, TypeOK
  <2> QED BY <1>5, <2>3, <2>4
<1>6. ASSUME NEW s \in Slas, Pay(s) \/ Sleep(s) \/ Finish(s) PROVE TypeOK'
  <2>1. pc' \in [Slas -> Labels]
    BY <1>2, <1>6 DEF Pay, Sleep, Finish, Labels, TypeOK
  <2>2. CASE Pay(s)
    <3>1. timer' \in [Slas -> {"none", "spawned", "sleeping", "fired"}]
      BY <2>2 DEF Pay, TypeOK
    <3>2. UNCHANGED <<clock, limitFirst, now, quote, limiter, tasks, created, deadline, finished>>
      BY <2>2 DEF Pay
    <3> QED BY <2>1, <3>1, <3>2 DEF TypeOK
  <2>3. CASE Sleep(s)
    <3>1. timer' \in [Slas -> {"none", "spawned", "sleeping", "fired"}]
      BY <2>3 DEF Sleep, TypeOK
    <3>2. deadline' \in [Slas -> Nat]
      BY <2>3 DEF Sleep, TypeOK
    <3>3. UNCHANGED <<clock, limitFirst, pc, now, quote, limiter, tasks, created, finished>>
      BY <2>3 DEF Sleep
    <3> QED BY <3>1, <3>2, <3>3 DEF TypeOK
  <2>4. CASE Finish(s)
    BY <2>1, <2>4 DEF Finish, Running, TypeOK
  <2> QED BY <1>6, <2>2, <2>3, <2>4
<1>7. ASSUME NEW s \in Slas, Push(s) PROVE TypeOK'
  <2>1. pc' \in [Slas -> Labels]
    BY <1>2, <1>7 DEF Push, Labels
  <2>2. tasks' \in Seq(Slas)
    BY <1>7, AppendEntry DEF Push, TypeOK
  <2> QED BY <1>7, <2>1, <2>2 DEF Push, TypeOK
<1>8. ASSUME NEW s \in Slas, Fire(s) PROVE TypeOK'
  <2>1. tasks' \in Seq(Slas)
    <3>1. CASE tasks = <<>>
      BY <1>8, <3>1 DEF Fire, Popped, TypeOK
    <3>2. CASE tasks # <<>>
      BY <1>8, <3>2, TailEntries DEF Fire, Popped, TypeOK
    <3> QED BY <3>1, <3>2
  <2> QED BY <1>8, <2>1 DEF Fire, TypeOK
<1> QED BY <1>1, <1>3, <1>4, <1>5, <1>6, <1>7, <1>8 DEF Next, Bid, Term

-----------------------------------------------------------------------------
(* What a bid leaves alone of the payments and their queue: a bid moves a  *)
(* label, none of the two of a payment.                                    *)
Aside ==
  /\ UNCHANGED queue /\ clock' \in Nat /\ clock' >= clock
  /\ \A s \in Slas : \/ pc'[s] = pc[s]
                     \/ {pc[s], pc'[s]} \cap {"spawned", "paid"} = {}

LEMMA BidsAside ==
  ASSUME TypeOK, NEW s \in Slas, Tick \/ Bid(s)
  PROVE  Aside
<1> USE DEF TypeOK, Goto, Aside
<1>1. CASE Tick
  BY <1>1 DEF Tick
<1>2. CASE NoRoom(s) \/ Now(s)
  BY <1>2 DEF NoRoom, Now, PricesNext
<1>3. CASE Quote(s)
  <2>1. PICK price : Goto(s, CASE price = 0  -> "panicked"
                               [] limitFirst -> "proposed"
                               [] OTHER      -> "quoted")
    BY <1>3 DEF Quote
  <2>2. pc'[s] \in {"panicked", "proposed", "quoted"} /\ \A r \in Slas \ {s} : pc'[r] = pc[r]
    BY <2>1
  <2> QED BY <1>3, <2>2 DEF Quote
<1>4. CASE Stamp(s) \/ Count(s)
  BY <1>4 DEF Stamp, Count
<1>5. CASE Clear(s)
  <2>1. pc'[s] \in {"refused", "cleared", "proposed"} /\ \A r \in Slas \ {s} : pc'[r] = pc[r]
    BY <1>5 DEF Clear
  <2> QED BY <1>5, <2>1 DEF Clear
<1> QED BY <1>1, <1>2, <1>3, <1>4, <1>5 DEF Bid

LEMMA AsideStep ==
  ASSUME IInv, Aside
  PROVE  (PaymentInv /\ QueueInv /\ OrderInv /\ GoneInv /\ EntryKept)'
<1> USE BidDeskAssumption DEF Aside, queue
<1>1. /\ Paying' = Paying
      /\ {s \in Slas : pc[s] = "paid"}' = {s \in Slas : pc[s] = "paid"}
  BY DEF Paying
<1>2. PaymentInv'
  <2>1. \A s \in Slas : pc'[s] \in {"spawned", "paid"} <=> pc[s] \in {"spawned", "paid"}
    OBVIOUS
  <2>2. \A s \in Slas : created[s] <= clock' /\ (timer[s] = "fired" => deadline[s] <= clock')
    BY DEF IInv, TypeOK, PaymentInv
  <2> QED BY <1>1, <2>1, <2>2 DEF IInv, PaymentInv
<1>3. QueueInv' /\ OrderInv'
  BY <1>1 DEF IInv, TypeOK, QueueInv, OrderInv, SleptAfter
<1>4. GoneInv'
  BY <1>1 DEF IInv, GoneInv, Gone, Fired
<1>5. EntryKept'
  <2>1. Pending' = Pending
    BY <1>1 DEF Pending, Running
  <2>2. \A s \in Slas : Remaining(s, clock)' > 0 => Remaining(s, clock) > 0
    BY DEF Remaining, IInv, TypeOK
  <2> QED BY <2>1, <2>2 DEF EntryKept, Shorter, IInv, Pending, Running
<1> QED BY <1>2, <1>3, <1>4, <1>5

-----------------------------------------------------------------------------
(* The steps of a payment and of its timer.                                *)
LEMMA PaymentStep ==
  ASSUME IInv, NEW s \in Slas, Term(s)
  PROVE  PaymentInv'
<1> USE BidDeskAssumption DEF IInv, TypeOK, PaymentInv, Paying, Goto
<1>1. CASE Pay(s)
  BY <1>1 DEF Pay
<1>2. CASE Sleep(s)
  BY <1>2 DEF Sleep
<1>3. CASE Push(s)
  BY <1>3 DEF Push
<1>4. CASE Fire(s)
  BY <1>4 DEF Fire
<1>5. CASE Finish(s)
  BY <1>5 DEF Finish
<1> QED BY <1>1, <1>2, <1>3, <1>4, <1>5 DEF Term

(* Only a push adds an entry, for an SLA that had none. *)
LEMMA QueueStep ==
  ASSUME IInv, NEW s \in Slas, Term(s)
  PROVE  QueueInv'
<1>1. pc \in [Slas -> Labels] /\ tasks \in Seq(Slas) /\ QueueInv
  BY DEF IInv, TypeOK
<1>2. CASE Pay(s) \/ Sleep(s) \/ Finish(s)
  <2>1. tasks' = tasks /\ \A r \in Slas : pc[r] = "paid" => pc'[r] = "paid"
    BY <1>1, <1>2 DEF Pay, Sleep, Finish, Goto
  <2> QED BY <1>1, <2>1 DEF QueueInv
<1>3. CASE Push(s)
  <2>1. pc' = [pc EXCEPT ![s] = "paid"] /\ pc[s] = "spawned" /\ tasks' = Append(tasks, s)
    BY <1>3 DEF Push, Goto
  <2>2. /\ DOMAIN tasks = 1..Len(tasks) /\ Len(tasks) \in Nat
        /\ DOMAIN tasks' = 1..(Len(tasks) + 1)
        /\ \A i \in 1..Len(tasks) : tasks'[i] = tasks[i]
        /\ tasks'[Len(tasks) + 1] = s
    BY <1>1, <2>1, AppendEntry
  <2>3. \A i \in 1..Len(tasks) : tasks[i] \in Slas /\ tasks[i] # s /\ pc'[tasks[i]] = "paid"
    BY <1>1, <2>1, <2>2 DEF QueueInv
  <2>4. \A i \in DOMAIN tasks' : i \in 1..Len(tasks) \/ i = Len(tasks) + 1
    BY <2>2
  <2>5. pc'[s] = "paid"
    BY <1>1, <2>1
  <2>6. \A i \in DOMAIN tasks' : pc'[tasks'[i]] = "paid"
    BY <2>2, <2>3, <2>4, <2>5
  <2>7. \A i, j \in DOMAIN tasks' : tasks'[i] = tasks'[j] => i = j
    BY <1>1, <2>2, <2>3, <2>4 DEF QueueInv
  <2> QED BY <2>6, <2>7 DEF QueueInv
<1>4. CASE Fire(s) /\ tasks = <<>>
  BY <1>1, <1>4 DEF Fire, Popped, QueueInv
<1>5. CASE Fire(s) /\ tasks # <<>>
  <2>1. tasks' = Tail(tasks) /\ pc' = pc
    BY <1>5 DEF Fire, Popped
  <2>2. /\ DOMAIN tasks = 1..Len(tasks) /\ Len(tasks) \in Nat \ {0}
        /\ DOMAIN tasks' = 1..(Len(tasks) - 1)
        /\ \A i \in 1..(Len(tasks) - 1) : tasks'[i] = tasks[i + 1]
    BY <1>1, <1>5, <2>1, TailEntries
  <2>3. \A i \in DOMAIN tasks' : i + 1 \in DOMAIN tasks /\ tasks'[i] = tasks[i + 1]
    BY <2>2
  <2>4. DOMAIN tasks' \subseteq Int
    BY <2>2
  <2> QED BY <1>1, <2>1, <2>3, <2>4 DEF QueueInv
<1> QED BY <1>2, <1>3, <1>4, <1>5 DEF Term

(* A sleep that starts now starts after every entry there is was created,  *)
(* and a payment under way is the only one that may yet add an entry.      *)
LEMMA OrderStep ==
  ASSUME IInv, NEW s \in Slas, Term(s)
  PROVE  OrderInv'
<1>1. /\ pc \in [Slas -> Labels] /\ tasks \in Seq(Slas) /\ clock \in Nat
      /\ timer \in [Slas -> {"none", "spawned", "sleeping", "fired"}]
      /\ created \in [Slas -> Nat] /\ deadline \in [Slas -> Nat] /\ Duration \in [Slas -> Nat]
  BY BidDeskAssumption DEF IInv, TypeOK
<1>2. QueueInv /\ OrderInv /\ PaymentInv
  BY DEF IInv
<1>3. \A i \in DOMAIN tasks : tasks[i] \in Slas /\ pc[tasks[i]] = "paid"
  BY <1>1, <1>2 DEF QueueInv
<1>4. CASE Pay(s)
  <2>1. Paying' = {s} /\ timer'[s] = "spawned"
    BY <1>1, <1>4 DEF Pay, Paying, Goto
  <2>2. /\ UNCHANGED <<tasks, created, deadline>>
        /\ \A i \in DOMAIN tasks : timer'[tasks[i]] = timer[tasks[i]]
    BY <1>1, <1>3, <1>4 DEF Pay
  <2> QED BY <1>2, <2>1, <2>2 DEF OrderInv, SleptAfter
<1>5. CASE Sleep(s)
  <2>1. /\ UNCHANGED <<pc, tasks, created>>
        /\ deadline'[s] = clock + Duration[s]
        /\ \A r \in Slas \ {s} : timer'[r] = timer[r] /\ deadline'[r] = deadline[r]
    BY <1>1, <1>5 DEF Sleep
  <2>2. \A i \in DOMAIN tasks : created[tasks[i]] + Duration[s] <= deadline'[s]
    BY <1>1, <1>2, <1>3, <2>1 DEF PaymentInv
  <2>3. Paying' = Paying /\ Paying \subseteq Slas
    BY <2>1 DEF Paying
  <2> QED BY <1>2, <1>3, <2>1, <2>2, <2>3 DEF OrderInv, SleptAfter
<1>6. CASE Push(s)
  <2>1. tasks' = Append(tasks, s) /\ pc[s] = "spawned" /\ UNCHANGED <<timer, deadline>>
    BY <1>6 DEF Push
  <2>2. /\ DOMAIN tasks = 1..Len(tasks) /\ Len(tasks) \in Nat
        /\ DOMAIN tasks' = 1..(Len(tasks) + 1)
        /\ \A i \in 1..Len(tasks) : tasks'[i] = tasks[i]
        /\ tasks'[Len(tasks) + 1] = s
    BY <1>1, <2>1, AppendEntry
  <2>3. Paying' = {}
    BY <1>1, <1>2, <1>6 DEF Push, PaymentInv, Paying, Goto
  <2>4. \A i \in 1..Len(tasks) : created'[tasks[i]] = created[tasks[i]]
    BY <1>1, <1>3, <1>6, <2>1, <2>2 DEF Push
  <2>5. s \in Paying
    BY <2>1 DEF Paying
  <2>6. \A i \in 1..Len(tasks) : SleptAfter(s, tasks[i])
    BY <1>2, <2>2, <2>5 DEF OrderInv
  <2>7. \A i, j \in DOMAIN tasks' : i < j => SleptAfter(tasks[j], tasks[i])'
    <3> SUFFICES ASSUME NEW i \in DOMAIN tasks', NEW j \in DOMAIN tasks', i < j
                 PROVE  SleptAfter(tasks[j], tasks[i])'
      OBVIOUS
    <3>1. i \in 1..Len(tasks) /\ tasks'[i] = tasks[i]
      BY <2>2
    <3>2. SleptAfter(tasks'[j], tasks[i])
      <4>1. CASE j = Len(tasks) + 1
        BY <2>2, <2>6, <3>1, <4>1
      <4>2. CASE j # Len(tasks) + 1
        <5>1. j \in 1..Len(tasks)
          BY <2>2, <4>2
        <5> QED BY <1>2, <2>2, <3>1, <5>1 DEF OrderInv
      <4> QED BY <4>1, <4>2
    <3> QED BY <2>1, <2>4, <3>1, <3>2 DEF SleptAfter
  <2> QED BY <2>3, <2>7 DEF OrderInv
<1>7. CASE Fire(s) /\ tasks = <<>>
  BY <1>7 DEF Fire, Popped, OrderInv
<1>8. CASE Fire(s) /\ tasks # <<>>
  <2>1. /\ tasks' = Tail(tasks) /\ UNCHANGED <<pc, created, deadline>>
        /\ \A r \in Slas : timer'[r] \in {"sleeping", "fired"} => timer[r] \in {"sleeping", "fired"}
    BY <1>1, <1>8 DEF Fire, Popped
  <2>2. /\ DOMAIN tasks = 1..Len(tasks) /\ Len(tasks) \in Nat \ {0}
        /\ DOMAIN tasks' = 1..(Len(tasks) - 1)
        /\ \A i \in 1..(Len(tasks) - 1) : tasks'[i] = tasks[i + 1]
    BY <1>1, <1>8, <2>1, TailEntries
  <2>3. \A i \in DOMAIN tasks' : i \in Int /\ i + 1 \in DOMAIN tasks /\ tasks'[i] = tasks[i + 1]
    BY <2>2
  <2>4. Paying' = Paying /\ Paying \subseteq Slas
    BY <2>1 DEF Paying
  <2>5. \A r \in Slas, h \in Slas : SleptAfter(r, h) => SleptAfter(r, h)'
    BY <2>1 DEF SleptAfter
  <2>6. \A i, j \in DOMAIN tasks' : i < j => SleptAfter(tasks[j + 1], tasks[i + 1])
    BY <1>2, <2>3 DEF OrderInv
  <2>7. \A i, j \in DOMAIN tasks' : i < j => SleptAfter(tasks[j], tasks[i])'
    BY <1>3, <2>3, <2>5, <2>6
  <2>8. \A r \in Paying' : \A i \in DOMAIN tasks' : SleptAfter(r, tasks[i])'
    BY <1>2, <1>3, <2>3, <2>4, <2>5 DEF OrderInv
  <2> QED BY <2>7, <2>8 DEF OrderInv
<1>9. CASE Finish(s)
  BY <1>2, <1>9 DEF Finish, OrderInv, SleptAfter, Paying
<1> QED BY <1>4, <1>5, <1>6, <1>7, <1>8, <1>9 DEF Term

-----------------------------------------------------------------------------
(* An entry leaves when a timer fires, one at most. *)
LEMMA GoneStep ==
  ASSUME IInv, NEW s \in Slas, Term(s)
  PROVE  GoneInv'
<1>1. /\ pc \in [Slas -> Labels] /\ tasks \in Seq(Slas)
      /\ timer \in [Slas -> {"none", "spawned", "sleeping", "fired"}]
  BY DEF IInv, TypeOK
<1>2. IsFiniteSet(Gone) /\ IsFiniteSet(Fired) /\ IsFiniteSet(Fired')
  BY FS_Subset, BidDeskAssumption DEF Gone, Fired
<1>3. Cardinality(Gone) \in Nat /\ Cardinality(Fired) \in Nat /\ GoneInv
  BY <1>2, FS_CardinalityType DEF IInv
<1>4. ASSUME Gone' \subseteq Gone, Fired' = Fired PROVE GoneInv'
  BY <1>2, <1>3, <1>4, FS_Subset, FS_CardinalityType DEF GoneInv
<1>5. CASE Pay(s) \/ Sleep(s) \/ Finish(s)
  <2>1. tasks' = tasks /\ \A r \in Slas : pc'[r] = "paid" => pc[r] = "paid"
    BY <1>1, <1>5 DEF Pay, Sleep, Finish, Goto
  <2>2. \A r \in Slas : timer'[r] = "fired" <=> timer[r] = "fired"
    <3>1. CASE Pay(s)
      <4>1. timer[s] = "none"
        BY <1>1, <3>1 DEF Pay, IInv, PaymentInv
      <4> QED BY <1>1, <3>1, <4>1 DEF Pay
    <3>2. CASE Sleep(s) \/ Finish(s)
      BY <1>1, <3>2 DEF Sleep, Finish
    <3> QED BY <1>5, <3>1, <3>2
  <2> QED BY <1>4, <2>1, <2>2 DEF Gone, Fired
<1>6. CASE Push(s)
  <2>1. pc' = [pc EXCEPT ![s] = "paid"] /\ tasks' = Append(tasks, s) /\ timer' = timer
    BY <1>6 DEF Push, Goto
  <2>2. /\ DOMAIN tasks = 1..Len(tasks) /\ Len(tasks) \in Nat
        /\ DOMAIN tasks' = 1..(Len(tasks) + 1)
        /\ \A i \in 1..Len(tasks) : tasks'[i] = tasks[i]
        /\ tasks'[Len(tasks) + 1] = s
    BY <1>1, <2>1, AppendEntry
  <2>3. ToSet(tasks) \cup {s} \subseteq ToSet(tasks')
    BY <2>2 DEF ToSet
  <2> QED BY <1>1, <1>4, <2>1, <2>3 DEF Gone, Fired
<1>7. CASE Fire(s)
  <2>1. Fired' = Fired \cup {s} /\ s \notin Fired /\ pc' = pc
    BY <1>1, <1>7 DEF Fire, Fired
  <2>2. Cardinality(Fired') = Cardinality(Fired) + 1
    BY <1>2, <2>1, FS_AddElement
  <2>3. PICK h : Gone' \subseteq Gone \cup {h}
    <3>1. CASE tasks = <<>>
      BY <1>7, <2>1, <3>1 DEF Fire, Popped, Gone
    <3>2. CASE tasks # <<>>
      <4>1. ToSet(tasks) \ {tasks[1]} \subseteq ToSet(tasks')
        BY <1>1, <1>7, <3>2, HeadGoes DEF Fire, Popped
      <4> QED BY <2>1, <4>1 DEF Gone
    <3> QED BY <3>1, <3>2
  <2>4. IsFiniteSet(Gone \cup {h}) /\ Cardinality(Gone \cup {h}) <= Cardinality(Gone) + 1
    <3>1. /\ IsFiniteSet(Gone \cup {h})
          /\ Cardinality(Gone \cup {h}) = IF h \in Gone THEN Cardinality(Gone)
                                          ELSE Cardinality(Gone) + 1
      BY <1>2, FS_AddElement
    <3> QED BY <1>3, <3>1
  <2>5. Cardinality(Gone') <= Cardinality(Gone \cup {h}) /\ Cardinality(Gone') \in Nat
    BY <2>3, <2>4, FS_Subset, FS_CardinalityType
  <2>6. Cardinality(Gone \cup {h}) \in Nat
    BY <2>4, FS_CardinalityType
  <2> QED BY <1>3, <2>2, <2>4, <2>5, <2>6 DEF GoneInv
<1> QED BY <1>5, <1>6, <1>7 DEF Term

(* The entry that leaves may be that of a function with time left.  Then   *)
(* more timers fired than there are entries gone before it, so one that    *)
(* fired is that of a function behind it, and it had started to sleep      *)
(* after this entry was created and was over before it.                    *)
LEMMA KeptStep ==
  ASSUME IInv, NEW s \in Slas, Term(s)
  PROVE  EntryKept'
<1>1. /\ pc \in [Slas -> Labels] /\ tasks \in Seq(Slas) /\ clock \in Nat
      /\ timer \in [Slas -> {"none", "spawned", "sleeping", "fired"}]
      /\ created \in [Slas -> Nat] /\ deadline \in [Slas -> Nat] /\ Duration \in [Slas -> Nat]
  BY BidDeskAssumption DEF IInv, TypeOK
<1>2. GoneInv' /\ PaymentInv' /\ EntryKept /\ QueueInv /\ OrderInv
  BY GoneStep, PaymentStep DEF IInv
<1>3. clock' = clock /\ \A r \in Slas : timer[r] = "fired" => timer'[r] = "fired"
  <2>1. Pay(s) => timer[s] = "none"
    BY DEF Pay, IInv, PaymentInv
  <2> QED BY <1>1, <2>1 DEF Term, Pay, Sleep, Push, Fire, Finish
<1>4. \A r \in Slas : Shorter(r) => Shorter(r)'
  BY <1>3 DEF Shorter
<1>5. CASE Pay(s) \/ Sleep(s) \/ Finish(s)
  <2>1. UNCHANGED <<tasks, created, clock>>
    BY <1>5 DEF Pay, Sleep, Finish
  <2>2. Pending' \subseteq Pending
    BY <1>1, <1>3, <1>5 DEF Pay, Sleep, Finish, Goto, Pending, Running
  <2>3. \A r \in Pending : r \in Slas
    BY DEF Pending, Running
  <2> QED BY <1>2, <1>4, <2>1, <2>2, <2>3 DEF EntryKept, Remaining
<1>6. CASE Push(s)
  <2>1. pc' = [pc EXCEPT ![s] = "paid"] /\ tasks' = Append(tasks, s)
        /\ UNCHANGED <<timer, finished, clock>> /\ created' = [created EXCEPT ![s] = clock]
    BY <1>6 DEF Push, Goto
  <2>2. /\ DOMAIN tasks = 1..Len(tasks) /\ Len(tasks) \in Nat
        /\ DOMAIN tasks' = 1..(Len(tasks) + 1)
        /\ \A i \in 1..Len(tasks) : tasks'[i] = tasks[i]
        /\ tasks'[Len(tasks) + 1] = s
    BY <1>1, <2>1, AppendEntry
  <2>3. ToSet(tasks) \cup {s} \subseteq ToSet(tasks')
    BY <2>2 DEF ToSet
  <2>4. Pending' \subseteq Pending \cup {s}
    BY <1>1, <2>1 DEF Pending, Running
  <2>5. \A r \in Pending \ {s} : r \in Slas /\ Remaining(r, clock)' = Remaining(r, clock)
    BY <1>1, <2>1 DEF Pending, Running, Remaining
  <2> QED BY <1>2, <1>4, <2>3, <2>4, <2>5 DEF EntryKept
<1>7. CASE Fire(s) /\ tasks = <<>>
  BY <1>2, <1>4, <1>7 DEF Fire, Popped, EntryKept, Pending, Running, Remaining
<1>8. CASE Fire(s) /\ tasks # <<>>
  <2>1. /\ tasks' = Tail(tasks) /\ UNCHANGED <<pc, created, deadline, finished, clock>>
        /\ timer' = [timer EXCEPT ![s] = "fired"] /\ timer[s] = "sleeping" /\ clock >= deadline[s]
    BY <1>8 DEF Fire, Popped
  <2>2. /\ DOMAIN tasks = 1..Len(tasks) /\ Len(tasks) \in Nat \ {0}
        /\ DOMAIN tasks' = 1..(Len(tasks) - 1)
        /\ \A i \in 1..(Len(tasks) - 1) : tasks'[i] = tasks[i + 1]
    BY <1>1, <1>8, <2>1, TailEntries
  <2>3. PICK h \in Slas : h = tasks[1]
    BY <1>1, <2>2
  <2>4. ToSet(tasks) \ {h} \subseteq ToSet(tasks')
    BY <1>1, <1>8, <2>1, <2>3, HeadGoes
  <2>5. Pending' \subseteq Pending /\ Pending \subseteq Slas
    BY <1>1, <2>1 DEF Pending, Running
  <2>6. ASSUME h \in Pending', h \notin ToSet(tasks'), Remaining(h, clock) > 0
        PROVE  Shorter(h)'
    <3>1. h \in Gone' /\ h \notin Fired'
      BY <2>1, <2>3, <2>6 DEF Pending, Running, Gone, Fired
    <3>2. PICK f \in Fired' : f \notin Gone'
      <4>1. IsFiniteSet(Gone') /\ IsFiniteSet(Fired')
        BY FS_Subset, BidDeskAssumption DEF Gone, Fired
      <4>2. /\ IsFiniteSet(Gone' \ {h}) /\ Cardinality(Gone' \ {h}) = Cardinality(Gone') - 1
            /\ Cardinality(Gone') \in Nat /\ Cardinality(Fired') \in Nat
        BY <3>1, <4>1, FS_RemoveElement, FS_CardinalityType
      <4>3. ~(Fired' \subseteq Gone')
        <5> SUFFICES ASSUME Fired' \subseteq Gone' PROVE FALSE
          OBVIOUS
        <5>1. Fired' \in SUBSET (Gone' \ {h})
          BY <3>1
        <5>2. Cardinality(Fired') <= Cardinality(Gone' \ {h})
          BY <4>2, <5>1, FS_Subset
        <5> QED BY <1>2, <4>2, <5>2 DEF GoneInv
      <4> QED BY <4>3
    <3>3. /\ f \in Slas /\ timer'[f] = "fired" /\ timer[f] \in {"sleeping", "fired"}
          /\ deadline[f] <= clock /\ pc[f] \in {"spawned", "paid"}
      BY <1>1, <1>2, <1>3, <2>1 DEF Fired, PaymentInv
    <3>4. SleptAfter(f, h)
      <4>1. CASE pc[f] = "spawned"
        BY <1>2, <2>2, <2>3, <3>3, <4>1 DEF OrderInv, Paying
      <4>2. CASE pc[f] = "paid"
        <5>1. f \in ToSet(tasks')
          BY <2>1, <3>2, <3>3, <4>2 DEF Gone
        <5>2. PICK j \in DOMAIN tasks' : f = tasks'[j]
          BY <5>1 DEF ToSet
        <5>3. f = tasks[j + 1] /\ j + 1 \in DOMAIN tasks /\ 1 \in DOMAIN tasks /\ 1 < j + 1
          BY <2>2, <5>2
        <5> QED BY <1>2, <2>3, <5>3 DEF OrderInv
      <4> QED BY <3>3, <4>1, <4>2
    <3>5. Duration[f] < Duration[h]
      BY <1>1, <2>3, <2>6, <3>3, <3>4 DEF SleptAfter, Remaining
    <3> QED BY <3>3, <3>5 DEF Shorter
  <2> SUFFICES ASSUME NEW r \in Pending', r \notin ToSet(tasks'), Remaining(r, clock)' > 0
               PROVE  Shorter(r)'
    BY DEF EntryKept
  <2>7. Remaining(r, clock) > 0
    BY <2>1 DEF Remaining
  <2>8. CASE r = h
    BY <2>6, <2>7, <2>8
  <2>9. CASE r # h
    BY <1>2, <1>4, <2>4, <2>5, <2>7, <2>9 DEF EntryKept
  <2> QED BY <2>8, <2>9
<1> QED BY <1>5, <1>6, <1>7, <1>8 DEF Term

-----------------------------------------------------------------------------
(* Whoever was counted stays so; only Count adds to them.                  *)
LEMMA CountedStep ==
  ASSUME TypeOK, NEW s \in Slas, Bid(s) \/ Term(s), ~Count(s)
  PROVE  /\ \A w \in Nat : Counted(w)' = Counted(w)
         /\ UNCHANGED <<inc, clock>>
<1> USE DEF limiter
<1>1. pc \in [Slas -> Labels] /\ second \in [Slas -> Nat]
  BY DEF TypeOK
<1>2. ASSUME NEW l, pc' = [pc EXCEPT ![s] = l], second' = second, limitFirst' = limitFirst,
             pc[s] \in Uncounted <=> l \in Uncounted
      PROVE  \A w \in Nat : Counted(w)' = Counted(w)
  BY <1>1, <1>2 DEF Counted, Uncounted
<1>3. CASE NoRoom(s)
  BY <1>2, <1>3 DEF NoRoom, Goto, PricesNext, Uncounted
<1>4. CASE Now(s)
  BY <1>2, <1>4 DEF Now, Goto, PricesNext, Uncounted
<1>5. CASE Quote(s)
  <2>1. PICK price : Goto(s, CASE price = 0  -> "panicked"
                               [] limitFirst -> "proposed"
                               [] OTHER      -> "quoted")
    BY <1>5 DEF Quote
  <2>2. CASE price = 0
    BY <1>2, <1>5, <2>1, <2>2 DEF Quote, Goto, Uncounted
  <2>3. CASE price # 0 /\ limitFirst
    BY <1>2, <1>5, <2>1, <2>3 DEF Quote, Goto, Uncounted
  <2>4. CASE price # 0 /\ ~limitFirst
    BY <1>2, <1>5, <2>1, <2>4 DEF Quote, Goto, Uncounted
  <2> QED BY <2>2, <2>3, <2>4, <1>5 DEF Quote
<1>6. CASE Stamp(s)
  <2>1. /\ pc' = [pc EXCEPT ![s] = "stamped"] /\ pc[s] \in Uncounted /\ limitFirst' = limitFirst
        /\ second' = [second EXCEPT ![s] = clock]
    BY <1>6 DEF Stamp, Goto, Uncounted
  <2>2. s \notin {r \in Slas : pc'[r] \notin Uncounted'}
    BY <1>1, <2>1 DEF Uncounted
  <2>3. \A r \in Slas \ {s} : pc'[r] = pc[r] /\ second'[r] = second[r]
    BY <1>1, <2>1
  <2>4. Uncounted' = Uncounted
    BY <2>1 DEF Uncounted
  <2> QED BY <1>6, <2>1, <2>2, <2>3, <2>4 DEF Counted, Stamp
<1>7. CASE Clear(s)
  <2>1. CASE inc[s] > MaxInFlight
    BY <1>2, <1>7, <2>1 DEF Clear, Goto, Uncounted
  <2>2. CASE ~(inc[s] > MaxInFlight) /\ limitFirst
    BY <1>2, <1>7, <2>2 DEF Clear, Goto, Uncounted
  <2>3. CASE ~(inc[s] > MaxInFlight) /\ ~limitFirst
    BY <1>2, <1>7, <2>3 DEF Clear, Goto, Uncounted
  <2> QED BY <1>7, <2>1, <2>2, <2>3 DEF Clear
<1>8. CASE Pay(s)
  BY <1>2, <1>8 DEF Pay, Goto, Uncounted
<1>9. CASE Push(s)
  BY <1>2, <1>9 DEF Push, Goto, Uncounted
<1>10. CASE Sleep(s) \/ Fire(s) \/ Finish(s)
  BY <1>10 DEF Sleep, Fire, Finish, Counted, Uncounted
<1> QED BY <1>3, <1>4, <1>5, <1>6, <1>7, <1>8, <1>9, <1>10 DEF Bid, Term

(* In an undisturbed second only requests of that second count, and nobody *)
(* resets their counter.                                                   *)
LEMMA LimiterStep ==
  ASSUME IInv, Next
  PROVE  LimiterInv'
<1>1. /\ pc \in [Slas -> Labels] /\ second \in [Slas -> Nat] /\ clock \in Nat
      /\ count \in [{0, 1} -> Nat] /\ inc \in [Slas -> Nat] /\ LimiterInv /\ TypeOK
  BY DEF IInv, TypeOK
<1>2. clock % 2 \in {0, 1} /\ \A r \in Slas : Parity(r) \in {0, 1}
  BY <1>1 DEF Parity
<1>3. CASE Tick
  <2>1. clock' = clock + 1 /\ UNCHANGED <<second, count, inc, disturbed, pc, limitFirst>>
    BY <1>3 DEF Tick, limiter
  <2>2. \A w \in Nat : Counted(w)' = Counted(w)
    BY <2>1 DEF Counted, Uncounted
  <2>3. Counted(clock + 1) = {}
    BY <1>1 DEF Counted, LimiterInv
  <2> QED BY <1>1, <2>1, <2>2, <2>3 DEF LimiterInv
<1>4. ASSUME NEW s \in Slas, Bid(s) \/ Term(s), ~Count(s) PROVE LimiterInv'
  <2>1. (\A w \in Nat : Counted(w)' = Counted(w)) /\ UNCHANGED <<inc, clock>>
    BY <1>1, <1>4, CountedStep
  <2>2. \A r \in Slas : second'[r] <= clock
    <3>1. second' \in {second, [second EXCEPT ![s] = clock]}
      BY <1>4 DEF Bid, Term, NoRoom, Now, Quote, Stamp, Clear, Pay, Sleep, Push, Fire, Finish, limiter
    <3> QED BY <1>1, <3>1 DEF LimiterInv
  <2>3. /\ disturbed \subseteq disturbed'
        /\ clock \notin disturbed' => count'[clock % 2] = count[clock % 2]
    <3>1. CASE Clear(s)
      <4>1. clock % 2 # Parity(s) => clock \in disturbed'
        BY <3>1 DEF Clear
      <4>2. count' = [count EXCEPT ![1 - Parity(s)] = 0]
        BY <3>1 DEF Clear, Other
      <4>3. clock % 2 = Parity(s) => count'[clock % 2] = count[clock % 2]
        BY <1>1, <1>2, <4>2
      <4> QED BY <3>1, <4>1, <4>3 DEF Clear
    <3>2. CASE ~Clear(s)
      BY <1>4, <3>2 DEF Bid, Term, NoRoom, Now, Quote, Stamp, Pay, Sleep, Push, Fire, Finish, limiter
    <3> QED BY <3>1, <3>2
  <2>4. 0..clock \subseteq Nat
    OBVIOUS
  <2> QED BY <1>1, <2>1, <2>2, <2>3, <2>4 DEF LimiterInv
<1>5. ASSUME NEW s \in Slas, Count(s) PROVE LimiterInv'
  <2>1. /\ pc' = [pc EXCEPT ![s] = "counted"] /\ pc[s] = "stamped"
        /\ UNCHANGED <<clock, second, limitFirst>>
        /\ inc' = [inc EXCEPT ![s] = count[Parity(s)]]
        /\ count' = [count EXCEPT ![Parity(s)] = @ + 1]
    BY <1>5 DEF Count, Goto
  <2>2. /\ disturbed \subseteq disturbed'
        /\ clock # second[s] => second[s] \in disturbed'
    BY <1>5 DEF Count
  <2>3. \A w \in Nat : Counted(w)' = IF w = second[s] THEN Counted(w) \cup {s} ELSE Counted(w)
    BY <1>1, <2>1 DEF Counted, Uncounted
  <2>4. \A w \in Nat : s \notin Counted(w) /\ Counted(w) \subseteq Slas
    BY <2>1 DEF Counted, Uncounted
  <2>5. \A r \in Slas \ {s} : inc'[r] = inc[r]
    BY <1>1, <2>1
  <2>6. /\ inc'[s] = count[Parity(s)] /\ count'[Parity(s)] = count[Parity(s)] + 1
        /\ count[Parity(s)] \in Nat
    BY <1>1, <1>2, <2>1
  <2>7. ASSUME NEW w \in 0..clock, w \notin disturbed', w = second[s]
        PROVE  /\ \A r, q \in Counted(w)' : inc'[r] = inc'[q] => r = q
               /\ \A r \in Counted(w)' : inc'[r] < count'[w % 2]
    <3>1. w = clock /\ w % 2 = Parity(s) /\ w \notin disturbed
      BY <2>2, <2>7 DEF Parity
    <3>2. /\ \A r, q \in Counted(w) : inc[r] = inc[q] => r = q
          /\ \A r \in Counted(w) : inc[r] < count[Parity(s)]
      BY <1>1, <3>1 DEF LimiterInv
    <3>3. \A r \in Counted(w) : inc'[r] = inc[r] /\ inc[r] \in Nat
      BY <1>1, <2>4, <2>5
    <3>4. Counted(w)' = Counted(w) \cup {s}
      BY <2>3, <2>7
    <3> QED BY <2>6, <3>1, <3>2, <3>3, <3>4
  <2>8. ASSUME NEW w \in 0..clock, w \notin disturbed', w # second[s]
        PROVE  /\ \A r, q \in Counted(w)' : inc'[r] = inc'[q] => r = q
               /\ w = clock => \A r \in Counted(w)' : inc'[r] < count'[w % 2]
    <3>1. w \notin disturbed /\ Counted(w)' = Counted(w)
      BY <2>2, <2>3, <2>8
    <3>2. \A r \in Counted(w) : inc'[r] = inc[r] /\ inc[r] \in Nat
      BY <1>1, <2>4, <2>5
    <3>3. count'[w % 2] >= count[w % 2]
      <4>1. w % 2 \in {0, 1}
        OBVIOUS
      <4> QED BY <1>1, <1>2, <2>1, <4>1
    <3>4. w % 2 \in {0, 1} /\ count[w % 2] \in Nat /\ count'[w % 2] \in Nat
      <4>1. w % 2 \in {0, 1}
        OBVIOUS
      <4> QED BY <1>1, <1>2, <2>1, <4>1
    <3> QED BY <1>1, <3>1, <3>2, <3>3, <3>4 DEF LimiterInv
  <2> QED BY <1>1, <2>1, <2>7, <2>8 DEF LimiterInv
<1> QED BY <1>3, <1>4, <1>5 DEF Next

-----------------------------------------------------------------------------
(* What the handlers of bids, the payments and the timers agree on, at     *)
(* every step.                                                             *)
THEOREM DeskInvariance == Spec => []IInv
<1>1. Init => IInv
  <2> SUFFICES ASSUME Init PROVE IInv
    OBVIOUS
  <2>1. TypeOK
    BY BidDeskAssumption DEF Init, TypeOK, Labels
  <2>2. PaymentInv /\ QueueInv /\ OrderInv
    BY DEF Init, PaymentInv, QueueInv, OrderInv, Paying
  <2>3. Gone = {} /\ Fired = {} /\ Pending = {}
    BY DEF Init, Gone, Fired, Pending, Running
  <2>4. GoneInv /\ EntryKept
    BY <2>3, FS_EmptySet DEF GoneInv, EntryKept
  <2>5. \A w \in Nat : Counted(w) = {}
    BY DEF Init, Counted, Uncounted
  <2>6. LimiterInv
    BY <2>5 DEF Init, LimiterInv
  <2> QED BY <2>1, <2>2, <2>4, <2>6 DEF IInv
<1>2. IInv /\ [Next]_vars => IInv'
  <2> SUFFICES ASSUME IInv, [Next]_vars PROVE IInv'
    OBVIOUS
  <2>1. CASE UNCHANGED vars
    <3>1. TypeOK' /\ PaymentInv' /\ QueueInv' /\ OrderInv'
      BY <2>1 DEF vars, limiter, queue, IInv, TypeOK, PaymentInv, QueueInv, OrderInv, SleptAfter, Paying
    <3>2. GoneInv' /\ EntryKept'
      BY <2>1 DEF vars, queue, IInv, GoneInv, Gone, Fired, EntryKept, Pending, Running, Remaining, Shorter
    <3>3. LimiterInv'
      BY <2>1 DEF vars, limiter, IInv, LimiterInv, Counted, Uncounted
    <3> QED BY <3>1, <3>2, <3>3 DEF IInv
  <2>2. ASSUME Next PROVE IInv'
    <3>1. TypeOK' /\ LimiterInv'
      BY <2>2, TypeStep, LimiterStep DEF IInv
    <3>2. CASE Tick
      <4>1. Aside
        BY <3>2 DEF Tick, Aside, IInv, TypeOK
      <4> QED BY <3>1, <4>1, AsideStep DEF IInv
    <3>3. ASSUME NEW s \in Slas, Bid(s) PROVE IInv'
      <4>1. Aside
        BY <3>3, BidsAside DEF IInv
      <4> QED BY <3>1, <4>1, AsideStep DEF IInv
    <3>4. ASSUME NEW s \in Slas, Term(s) PROVE IInv'
      BY <3>1, <3>4, PaymentStep, QueueStep, OrderStep, GoneStep, KeptStep DEF IInv
    <3> QED BY <2>2, <3>2, <3>3, <3>4 DEF Next
  <2> QED BY <2>1, <2>2
<1> QED BY <1>1, <1>2, PTL DEF Spec

(* A running function is missing from the queue that prices are made from  *)
(* only after a function of a shorter duration has ended, whatever entry   *)
(* each timer takes off and however late the tasks are scheduled.          *)
THEOREM NothingUnpriced == Spec => []EntryKept
<1>1. IInv => EntryKept
  BY DEF IInv
<1> QED BY <1>1, DeskInvariance, PTL

(* In a second that no late request disturbed the node lets through one    *)
(* bid more than configured at most: those let through found different     *)
(* counts, none beyond the limit.                                          *)
THEOREM OneBeyondTheLimit == Spec => []InFlightBound
<1>1. IInv => InFlightBound
  <2> SUFFICES ASSUME IInv, NEW w \in (0..clock) \ disturbed
               PROVE  Cardinality(Admitted(w)) <= MaxInFlight + 1
    BY DEF InFlightBound
  <2> DEFINE f == [s \in Admitted(w) |-> inc[s]]
  <2>1. /\ inc \in [Slas -> Nat] /\ MaxInFlight \in Nat
        /\ Admitted(w) \subseteq Counted(w) /\ Counted(w) \subseteq Slas
    BY BidDeskAssumption DEF IInv, TypeOK, Admitted, Counted
  <2>2. \A s, r \in Admitted(w) : f[s] = f[r] => s = r
    BY <2>1 DEF IInv, LimiterInv
  <2>3. f \in [Admitted(w) -> 0..MaxInFlight]
    BY <2>1 DEF Admitted
  <2>4. f \in Injection(Admitted(w), 0..MaxInFlight)
    BY <2>2, <2>3 DEF Injection, IsInjective
  <2>5. IsFiniteSet(0..MaxInFlight) /\ Cardinality(0..MaxInFlight) = MaxInFlight + 1
    BY <2>1, FS_Interval
  <2> QED BY <2>4, <2>5, FS_Injection
<1> QED BY <1>1, DeskInvariance, PTL

-----------------------------------------------------------------------------
(* The sum behind a price.                                                 *)
(* Among sets of subsets of a finite set there is always one that contains  *)
(* no other: the induction that the lemmas on sums need.                    *)
LEMMA SmallestSet ==
  ASSUME NEW S, IsFiniteSet(S), NEW W \in SUBSET (SUBSET S), W # {}
  PROVE  \E T \in W : \A U \in W : U \subseteq T => U = T
<1>1. IsWellFoundedOn(StrictSubsetOrdering(S), SUBSET S)
  BY FS_StrictSubsetOrderingWellFounded, FS_FiniteSubsetsOfFinite
<1>2. \E T \in W : \A U \in W : ~ (<<U, T>> \in StrictSubsetOrdering(S))
  BY <1>1, WFMin
<1> QED BY <1>2 DEF StrictSubsetOrdering

(* What s adds to a price at t, and the functions that obey the recursion  *)
(* behind the sum on the subsets of S.                                     *)
Weight(s, t) == Cpu[s] * Remaining(s, t)
Some(U) == CHOOSE x \in U : TRUE
Unfold(t, h, U) == IF U = {} THEN 0 ELSE Weight(Some(U), t) + h[U \ {Some(U)}]
Sums(t, S) == {h \in [SUBSET S -> Nat] : \A U \in SUBSET S : h[U] = Unfold(t, h, U)}

LEMMA SomeIn ==
  ASSUME NEW U, U # {}
  PROVE  Some(U) \in U
BY DEF Some

(* Solutions on two sets agree where both are defined ... *)
LEMMA SumsAgree ==
  ASSUME NEW t, NEW S, NEW T \in SUBSET S, IsFiniteSet(S),
         NEW f \in Sums(t, S), NEW g \in Sums(t, T)
  PROVE  \A U \in SUBSET T : f[U] = g[U]
<1> DEFINE W == {U \in SUBSET T : f[U] # g[U]}
<1> SUFFICES ASSUME W # {} PROVE FALSE
  OBVIOUS
<1>1. IsFiniteSet(T)
  BY FS_Subset
<1> W \in SUBSET (SUBSET T)
  OBVIOUS
<1> HIDE DEF W
<1>2. PICK U \in W : \A V \in W : V \subseteq U => V = U
  BY <1>1, SmallestSet
<1>3. U \in SUBSET T /\ U \in SUBSET S /\ f[U] # g[U]
  BY <1>2 DEF W
<1>4. f[U] = Unfold(t, f, U) /\ g[U] = Unfold(t, g, U)
  BY <1>3 DEF Sums
<1>5. U # {}
  BY <1>3, <1>4 DEF Unfold
<1>6. f[U \ {Some(U)}] = g[U \ {Some(U)}]
  BY <1>2, <1>3, <1>5, SomeIn DEF W
<1> QED
  BY <1>3, <1>4, <1>5, <1>6 DEF Unfold

(* ... so they can be extended one set after the other ... *)
LEMMA SumsExist ==
  ASSUME NEW t, NEW S, IsFiniteSet(S), \A s \in S : Weight(s, t) \in Nat
  PROVE  Sums(t, S) # {}
<1> DEFINE W == {T \in SUBSET S : Sums(t, T) = {}}
<1> SUFFICES ASSUME W # {} PROVE FALSE
  OBVIOUS
<1> W \in SUBSET (SUBSET S)
  OBVIOUS
<1> HIDE DEF W
<1>1. PICK T \in W : \A V \in W : V \subseteq T => V = T
  BY SmallestSet
<1>2. T \in SUBSET S /\ Sums(t, T) = {}
  BY <1>1 DEF W
<1>3. IsFiniteSet(T)
  BY <1>2, FS_Subset
<1> DEFINE H(U) == CHOOSE h : h \in Sums(t, U)
<1>4. \A U \in SUBSET T : U # T => H(U) \in Sums(t, U)
  <2> SUFFICES ASSUME NEW U \in SUBSET T, U # T PROVE \E h : h \in Sums(t, U)
    OBVIOUS
  <2> QED
    BY <1>1, <1>2 DEF W
<1> HIDE DEF H
<1>5. T # {}
  <2> SUFFICES ASSUME T = {} PROVE FALSE
    OBVIOUS
  <2> DEFINE h == [U \in SUBSET T |-> 0]
  <2>1. h \in Sums(t, T)
    BY DEF Sums, Unfold
  <2> QED
    BY <2>1, <1>2
<1> DEFINE c == Some(T)
           f == [U \in SUBSET T |-> IF U = T THEN Weight(c, t) + H(T \ {c})[T \ {c}] ELSE H(U)[U]]
<1>6. c \in T /\ Weight(c, t) \in Nat /\ T \ {c} \in SUBSET T /\ T \ {c} # T
  BY <1>2, <1>5, SomeIn
<1> HIDE DEF c
<1>7. \A U \in SUBSET T : U # T => H(U)[U] \in Nat
  BY <1>4 DEF Sums
<1>8. f \in [SUBSET T -> Nat]
  <2> SUFFICES ASSUME NEW U \in SUBSET T PROVE f[U] \in Nat
    OBVIOUS
  <2>1. CASE U = T
    BY <1>6, <1>7, <2>1
  <2>2. CASE U # T
    BY <1>7, <2>2
  <2> QED
    BY <2>1, <2>2
<1>9. ASSUME NEW U \in SUBSET T PROVE f[U] = Unfold(t, f, U)
  <2>1. CASE U = {}
    <3>1. f[U] = H(U)[U] /\ H(U) \in Sums(t, U)
      BY <2>1, <1>5, <1>4
    <3> QED
      BY <2>1, <3>1 DEF Sums, Unfold
  <2>2. CASE U = T
    <3>1. f[T \ {c}] = H(T \ {c})[T \ {c}]
      BY <1>6
    <3> QED
      BY <2>2, <3>1, <1>5 DEF Unfold, c
  <2>3. CASE U # T /\ U # {}
    <3> DEFINE V == U \ {Some(U)}
    <3>1. Some(U) \in U
      BY <2>3, SomeIn
    <3>2. V \in SUBSET U /\ V \in SUBSET T /\ V # T
      BY <2>3, <3>1
    <3> HIDE DEF V
    <3>3. H(U) \in Sums(t, U) /\ H(V) \in Sums(t, V)
      BY <2>3, <3>2, <1>4
    <3>4. IsFiniteSet(U)
      BY <1>3, FS_Subset
    <3>5. H(U)[V] = H(V)[V]
      BY <3>2, <3>3, <3>4, SumsAgree
    <3>6. f[U] = H(U)[U] /\ f[V] = H(V)[V]
      BY <2>3, <3>2
    <3>7. H(U)[U] = Weight(Some(U), t) + H(U)[V]
      BY <3>3, <2>3 DEF Sums, Unfold, V
    <3> HIDE DEF f
    <3> QED
      BY <3>5, <3>6, <3>7, <2>3 DEF Unfold, V
  <2> QED
    BY <2>1, <2>2, <2>3
<1>10. f \in Sums(t, T)
  BY <1>8, <1>9 DEF Sums
<1> QED
  BY <1>10, <1>2

(* ... and the sum is the value of any of them. *)
LEMMA SumUnique ==
  ASSUME NEW t, NEW S, IsFiniteSet(S), \A s \in S : Weight(s, t) \in Nat,
         NEW h \in Sums(t, S)
  PROVE  Utilisation(S, t) = h[S]
<1> DEFINE Rec(g) == g = [U \in SUBSET S |-> Unfold(t, g, U)]
           it == CHOOSE g : Rec(g)
<1>1. Utilisation(S, t) = it[S]
  BY DEF Utilisation, Weight, MapThenSumSet, MapThenFoldSet, Unfold, Some
<1>2. Rec(h)
  BY DEF Sums
<1>3. Rec(it)
  BY <1>2
<1>4. ASSUME NEW U \in SUBSET S PROVE it[U] = h[U]
  <2> DEFINE W == {V \in SUBSET S : it[V] # h[V]}
  <2> SUFFICES ASSUME W # {} PROVE FALSE
    OBVIOUS
  <2> W \in SUBSET (SUBSET S)
    OBVIOUS
  <2> HIDE DEF W
  <2>2. PICK V \in W : \A X \in W : X \subseteq V => X = V
    BY SmallestSet
  <2>3. V \in SUBSET S /\ it[V] # h[V]
    BY <2>2 DEF W
  <2> HIDE DEF it
  <2>4. it[V] = Unfold(t, it, V) /\ h[V] = Unfold(t, h, V)
    BY <2>3, <1>2, <1>3
  <2>5. V # {}
    BY <2>3, <2>4 DEF Unfold
  <2>6. it[V \ {Some(V)}] = h[V \ {Some(V)}]
    BY <2>2, <2>3, <2>5, SomeIn DEF W
  <2> QED
    BY <2>3, <2>4, <2>5, <2>6 DEF Unfold
<1> QED
  BY <1>1, <1>4

(* The sum obeys the recursion itself ... *)
LEMMA SumUnfolds ==
  ASSUME NEW t, NEW S, IsFiniteSet(S), \A s \in S : Weight(s, t) \in Nat
  PROVE  /\ Utilisation(S, t) \in Nat
         /\ Utilisation(S, t) = IF S = {} THEN 0 ELSE Weight(Some(S), t) + Utilisation(S \ {Some(S)}, t)
<1>1. PICK h : h \in Sums(t, S)
  BY SumsExist
<1>2. Utilisation(S, t) = h[S]
  BY <1>1, SumUnique
<1>3. h[S] \in Nat /\ h[S] = Unfold(t, h, S)
  BY <1>1 DEF Sums
<1>4. ASSUME S # {} PROVE Utilisation(S \ {Some(S)}, t) = h[S \ {Some(S)}]
  <2> DEFINE T == S \ {Some(S)}
  <2>1. T \in SUBSET S /\ IsFiniteSet(T) /\ \A s \in T : Weight(s, t) \in Nat
    BY FS_Subset
  <2> HIDE DEF T
  <2>2. PICK g : g \in Sums(t, T)
    BY <2>1, SumsExist
  <2>3. Utilisation(T, t) = g[T]
    BY <2>1, <2>2, SumUnique
  <2>4. h[T] = g[T]
    BY <1>1, <2>1, <2>2, SumsAgree
  <2> QED
    BY <2>3, <2>4 DEF T
<1> QED
  BY <1>2, <1>3, <1>4 DEF Unfold

(* ... whichever element is taken out first. *)
LEMMA SumWithout ==
  ASSUME NEW t, NEW S, IsFiniteSet(S), \A s \in S : Weight(s, t) \in Nat, NEW x \in S
  PROVE  Utilisation(S, t) = Weight(x, t) + Utilisation(S \ {x}, t)
<1> DEFINE W == {T \in SUBSET S : \E y \in T : Utilisation(T, t) # Weight(y, t) + Utilisation(T \ {y}, t)}
<1> SUFFICES ASSUME W # {} PROVE FALSE
  OBVIOUS
<1> W \in SUBSET (SUBSET S)
  OBVIOUS
<1> HIDE DEF W
<1>1. PICK T \in W : \A V \in W : V \subseteq T => V = T
  BY SmallestSet
<1>2. T \in SUBSET S
  BY <1>1 DEF W
<1>3. PICK y \in T : Utilisation(T, t) # Weight(y, t) + Utilisation(T \ {y}, t)
  BY <1>1 DEF W
<1> DEFINE c == Some(T)
<1>4. c \in T
  BY <1>3, SomeIn
<1> HIDE DEF c
<1> DEFINE U == T \ {c}
           V == T \ {y}
           X == T \ {c, y}
<1>5. /\ IsFiniteSet(T) /\ IsFiniteSet(U) /\ IsFiniteSet(V) /\ IsFiniteSet(X)
      /\ U \in SUBSET S /\ V \in SUBSET S /\ X \in SUBSET S
      /\ \A s \in T : Weight(s, t) \in Nat
  BY <1>2, FS_Subset
<1>6. Utilisation(T, t) = Weight(c, t) + Utilisation(U, t)
  BY <1>3, <1>5, SumUnfolds DEF c
<1>7. c # y
  BY <1>3, <1>6
<1>8. Utilisation(U, t) = Weight(y, t) + Utilisation(U \ {y}, t)
  <2>1. U \notin W
    BY <1>1, <1>4
  <2> QED
    BY <2>1, <1>3, <1>5, <1>7 DEF W
<1>9. Utilisation(V, t) = Weight(c, t) + Utilisation(V \ {c}, t)
  <2>1. V \notin W
    BY <1>1, <1>3
  <2> QED
    BY <2>1, <1>4, <1>5, <1>7 DEF W
<1>10. U \ {y} = X /\ V \ {c} = X
  OBVIOUS
<1>11. Utilisation(X, t) \in Nat
  BY <1>5, SumUnfolds
<1>13. Weight(c, t) \in Nat /\ Weight(y, t) \in Nat
  BY <1>3, <1>4, <1>5
<1> HIDE DEF U, V, X, W
<1>12. Utilisation(T, t) # Weight(y, t) + Utilisation(V, t)
  BY <1>3 DEF V
<1>14. Utilisation(U, t) = Weight(y, t) + Utilisation(X, t) /\ Utilisation(V, t) = Weight(c, t) + Utilisation(X, t)
  BY <1>8, <1>9, <1>10
<1> QED
  BY <1>6, <1>11, <1>12, <1>13, <1>14

(* A sum is covered by another that has at least the weight of each that   *)
(* weighs anything.                                                        *)
LEMMA SumCovered ==
  ASSUME NEW S, NEW T, IsFiniteSet(S), IsFiniteSet(T), NEW t, NEW u,
         \A s \in S : Weight(s, t) \in Nat, \A s \in T : Weight(s, u) \in Nat,
         \A s \in S : Weight(s, t) = 0 \/ (s \in T /\ Weight(s, t) <= Weight(s, u))
  PROVE  /\ Utilisation(S, t) \in Nat /\ Utilisation(T, u) \in Nat
         /\ Utilisation(S, t) <= Utilisation(T, u)
<1> DEFINE Covered(V, X) == \A s \in V : Weight(s, t) = 0 \/ (s \in X /\ Weight(s, t) <= Weight(s, u))
           W == {V \in SUBSET S : \E X \in SUBSET T :
                   Covered(V, X) /\ ~ (Utilisation(V, t) <= Utilisation(X, u))}
<1>1. Utilisation(S, t) \in Nat /\ Utilisation(T, u) \in Nat
  BY SumUnfolds
<1>2. ASSUME W # {} PROVE FALSE
  <2>1. W \in SUBSET (SUBSET S)
    OBVIOUS
  <2> HIDE DEF W
  <2>2. PICK V \in W : \A U \in W : U \subseteq V => U = V
    BY <1>2, <2>1, SmallestSet
  <2>3. PICK X \in SUBSET T : Covered(V, X) /\ ~ (Utilisation(V, t) <= Utilisation(X, u))
    BY <2>2 DEF W
  <2>4. V \in SUBSET S
    BY <2>1
  <2>5. /\ IsFiniteSet(V) /\ IsFiniteSet(X)
        /\ \A s \in V : Weight(s, t) \in Nat
        /\ \A s \in X : Weight(s, u) \in Nat
    BY <2>3, <2>4, FS_Subset
  <2>6. Utilisation(V, t) \in Nat /\ Utilisation(X, u) \in Nat
    BY <2>5, SumUnfolds
  <2>7. V # {}
    <3> SUFFICES ASSUME V = {} PROVE FALSE
      OBVIOUS
    <3>1. Utilisation(V, t) = 0
      BY <2>5, SumUnfolds
    <3> HIDE DEF Covered
    <3> QED BY <2>3, <2>6, <3>1
  <2>8. PICK x \in V : TRUE
    BY <2>7
  <2>9. Utilisation(V, t) = Weight(x, t) + Utilisation(V \ {x}, t)
    BY <2>5, SumWithout
  <2>10. IsFiniteSet(V \ {x}) /\ V \ {x} \in SUBSET S /\ V \ {x} \notin W
    BY <2>2, <2>4, <2>5, FS_Subset
  <2>11. Utilisation(V \ {x}, t) \in Nat /\ Weight(x, t) \in Nat
    BY <2>5, <2>10, SumUnfolds
  <2>12. ASSUME NEW Y \in SUBSET T, Covered(V \ {x}, Y)
         PROVE  Utilisation(V \ {x}, t) <= Utilisation(Y, u)
    BY <2>10, <2>12 DEF W
  <2>13. CASE Weight(x, t) = 0
    <3>1. Covered(V \ {x}, X)
      BY <2>3
    <3> HIDE DEF Covered
    <3>2. Utilisation(V \ {x}, t) <= Utilisation(X, u)
      BY <2>12, <3>1
    <3> QED BY <2>3, <2>6, <2>9, <2>11, <2>13, <3>2
  <2>14. CASE Weight(x, t) # 0
    <3>1. x \in X /\ Weight(x, t) <= Weight(x, u) /\ Covered(V \ {x}, X \ {x})
      BY <2>3, <2>14
    <3> HIDE DEF Covered
    <3>2. Utilisation(V \ {x}, t) <= Utilisation(X \ {x}, u)
      BY <2>12, <3>1
    <3>3. Utilisation(X, u) = Weight(x, u) + Utilisation(X \ {x}, u)
      BY <2>5, <3>1, SumWithout
    <3>4. IsFiniteSet(X \ {x}) /\ \A s \in X \ {x} : Weight(s, u) \in Nat
      BY <2>5, FS_Subset
    <3>5. Utilisation(X \ {x}, u) \in Nat /\ Weight(x, u) \in Nat
      BY <2>5, <3>1, <3>4, SumUnfolds
    <3> QED BY <2>3, <2>9, <2>11, <3>1, <3>2, <3>3, <3>5
  <2> QED BY <2>13, <2>14
<1>3. Covered(S, T)
  OBVIOUS
<1> HIDE DEF Covered
<1> QED BY <1>1, <1>2, <1>3

LEMMA TimesMonotonic ==
  ASSUME NEW a \in Nat, NEW b \in Nat, NEW c \in Nat, b <= c
  PROVE  a * b \in Nat /\ a * c \in Nat /\ a * b <= a * c
<1>1. PICK d \in Nat : c = b + d
  <2>1. c - b \in Nat /\ c = b + (c - b)
    OBVIOUS
  <2> QED BY <2>1
<1>2. a * (b + d) = a * b + a * d
  BY SMT
<1>3. a * b \in Nat /\ a * d \in Nat
  OBVIOUS
<1> QED BY <1>1, <1>2, <1>3

(* Prices grow with the load. *)
LEMMA PriceMonotonic ==
  ASSUME NEW s \in Slas, NEW b \in Nat, NEW c \in Nat, b <= c
  PROVE  Price(s, b) \in Nat /\ Price(s, c) \in Nat /\ Price(s, b) <= Price(s, c)
<1> DEFINE e == (AA * Cpu[s] + BB) * Duration[s]
<1>1. AA \in Nat /\ BB \in Nat /\ Cpu[s] \in Nat /\ Duration[s] \in Nat
  BY BidDeskAssumption
<1>2. e \in Nat /\ 2 * AA \in Nat
  <2>1. AA * Cpu[s] \in Nat
    BY <1>1
  <2>2. AA * Cpu[s] + BB \in Nat
    BY <1>1, <2>1
  <2> QED BY <1>1, <2>2
<1> HIDE DEF e
<1>3. 2 * AA * b \in Nat /\ 2 * AA * c \in Nat /\ 2 * AA * b <= 2 * AA * c
  BY <1>2, TimesMonotonic
<1>4. 2 * AA * b + e \in Nat /\ 2 * AA * c + e \in Nat /\ 2 * AA * b + e <= 2 * AA * c + e
  BY <1>2, <1>3
<1>5. /\ Cpu[s] * (2 * AA * b + e) \in Nat /\ Cpu[s] * (2 * AA * c + e) \in Nat
      /\ Cpu[s] * (2 * AA * b + e) <= Cpu[s] * (2 * AA * c + e)
  BY <1>1, <1>4, TimesMonotonic
<1> QED BY <1>5 DEF Price, e

(* What a function has left is less the later one looks. *)
LEMMA WeightShrinks ==
  ASSUME TypeOK, NEW s \in Slas, NEW t \in Nat, NEW u \in Nat, u <= t
  PROVE  /\ Weight(s, t) \in Nat /\ Weight(s, u) \in Nat /\ Weight(s, t) <= Weight(s, u)
         /\ Remaining(s, t) = 0 => Weight(s, t) = 0
<1>1. Cpu[s] \in Nat /\ Duration[s] \in Nat /\ created[s] \in Nat
  BY BidDeskAssumption DEF TypeOK
<1>2. Remaining(s, t) \in Nat /\ Remaining(s, u) \in Nat /\ Remaining(s, t) <= Remaining(s, u)
  BY <1>1 DEF Remaining
<1>3. Remaining(s, t) = 0 => Cpu[s] * Remaining(s, t) = 0
  BY <1>1
<1> QED BY <1>1, <1>2, <1>3, TimesMonotonic DEF Weight

-----------------------------------------------------------------------------
(* The prices asked so far, and the clock as read for those to come.       *)
PriceInv ==
  /\ \A s \in Slas : now[s] <= clock
  /\ PriceBracketed

(* A price counts no function that is not running, and leaves out one with *)
(* time left only after a shorter one ended.                               *)
LEMMA QuoteBracketed ==
  ASSUME IInv, PriceInv, NEW s \in Slas, Quote(s)
  PROVE  quote'[s] # "high" /\ (quote'[s] = "low" => \E r \in Slas : Shorter(r))
<1> DEFINE Due == UtilisationVariations
           price == Price(s, Utilisation(Due, now[s]))
<1>1. /\ clock \in Nat /\ now[s] \in Nat /\ now[s] <= clock /\ tasks \in Seq(Slas)
      /\ quote \in [Slas -> {"none", "fair", "low", "high"}]
      /\ QueueInv /\ EntryKept /\ TypeOK
  BY DEF IInv, TypeOK, PriceInv
<1>2. quote'[s] = Verdict(s, price)
  BY <1>1 DEF Quote
<1>3. Due \subseteq Running /\ Pending \subseteq Running /\ Running \subseteq Slas
  <2>1. \A i \in DOMAIN tasks : tasks[i] \in Slas /\ pc[tasks[i]] = "paid"
    BY <1>1 DEF QueueInv
  <2> QED BY <2>1 DEF UtilisationVariations, ToSet, Running, Pending
<1>4. IsFiniteSet(Due) /\ IsFiniteSet(Pending) /\ IsFiniteSet(Running)
  BY <1>3, FS_Subset, BidDeskAssumption
<1>5. \A r \in Slas : Weight(r, clock) \in Nat /\ Weight(r, now[s]) \in Nat
                     /\ Weight(r, clock) <= Weight(r, now[s])
  BY <1>1, WeightShrinks
<1> HIDE DEF Due
<1>6. /\ Utilisation(Due, now[s]) \in Nat /\ Utilisation(Running, now[s]) \in Nat
      /\ Utilisation(Due, now[s]) <= Utilisation(Running, now[s])
  <2>1. \A r \in Due : Weight(r, now[s]) <= Weight(r, now[s])
    BY <1>3, <1>5
  <2> QED BY <1>3, <1>4, <1>5, <2>1, SumCovered
<1>7. ~ (price > Price(s, Utilisation(Running, now[s])))
  BY <1>6, PriceMonotonic
<1>8. ASSUME ~ \E r \in Slas : Shorter(r)
      PROVE  ~ (price < Price(s, Utilisation(Pending, clock)))
  <2>1. ASSUME NEW r \in Pending
        PROVE  Weight(r, clock) = 0 \/ (r \in Due /\ Weight(r, clock) <= Weight(r, now[s]))
    <3>1. r \in Slas /\ r \notin finished
      BY <1>3 DEF Pending, Running
    <3>2. Remaining(r, clock) > 0 \/ Remaining(r, clock) = 0
      BY <1>1, <3>1, BidDeskAssumption DEF Remaining, TypeOK
    <3>3. CASE Remaining(r, clock) > 0
      BY <1>1, <1>5, <1>8, <3>1, <3>3 DEF EntryKept, Due, UtilisationVariations
    <3>4. CASE Remaining(r, clock) = 0
      BY <1>1, <3>1, <3>4, WeightShrinks
    <3> QED BY <3>2, <3>3, <3>4
  <2>2. /\ Utilisation(Pending, clock) \in Nat
        /\ Utilisation(Pending, clock) <= Utilisation(Due, now[s])
    BY <1>3, <1>4, <1>5, <2>1, SumCovered
  <2> QED BY <1>6, <2>2, PriceMonotonic
<1> HIDE DEF price
<1> QED BY <1>2, <1>7, <1>8 DEF Verdict

LEMMA PriceStep ==
  ASSUME IInv, PriceInv, [Next]_vars
  PROVE  PriceInv'
<1>1. /\ clock \in Nat /\ now \in [Slas -> Nat]
      /\ quote \in [Slas -> {"none", "fair", "low", "high"}]
      /\ timer \in [Slas -> {"none", "spawned", "sleeping", "fired"}]
  BY DEF IInv, TypeOK
<1>2. \A r \in Slas : Shorter(r) => Shorter(r)'
  <2>1. \A r \in Slas : timer[r] = "fired" => timer'[r] = "fired"
    <3>1. CASE UNCHANGED timer
      BY <3>1
    <3>2. ASSUME NEW s \in Slas, Pay(s) \/ Sleep(s) \/ Fire(s)
          PROVE  \A r \in Slas : timer[r] = "fired" => timer'[r] = "fired"
      <4>1. Pay(s) => timer[s] = "none"
        BY DEF Pay, IInv, PaymentInv
      <4> QED BY <1>1, <3>2, <4>1 DEF Pay, Sleep, Fire
    <3> QED
      BY <3>1, <3>2 DEF Next, Bid, Term, Tick, NoRoom, Now, Quote, Stamp, Count, Clear,
                        Push, Finish, vars, queue
  <2> QED BY <2>1 DEF Shorter
<1>3. ASSUME UNCHANGED <<now, quote>>, clock' >= clock, clock' \in Nat PROVE PriceInv'
  BY <1>1, <1>2, <1>3 DEF PriceInv, PriceBracketed
<1>4. CASE Tick
  BY <1>1, <1>3, <1>4 DEF Tick
<1>5. ASSUME NEW s \in Slas, Now(s) PROVE PriceInv'
  <2>1. \A r \in Slas : now'[r] <= clock
    BY <1>1, <1>5 DEF Now, PriceInv
  <2> QED BY <1>2, <1>5, <2>1 DEF Now, PriceInv, PriceBracketed
<1>6. ASSUME NEW s \in Slas, Quote(s) PROVE PriceInv'
  <2>1. clock' = clock /\ \A r \in Slas : now'[r] <= clock
    BY <1>1, <1>6 DEF Quote, PriceInv
  <2>2. quote'[s] # "high" /\ (quote'[s] = "low" => \E r \in Slas : Shorter(r))
    BY <1>6, QuoteBracketed
  <2>3. \A r \in Slas \ {s} : quote'[r] = quote[r]
    <3>1. PICK v : quote' = [quote EXCEPT ![s] = v]
      BY <1>6 DEF Quote
    <3> QED BY <1>1, <3>1
  <2> QED BY <1>2, <2>1, <2>2, <2>3 DEF PriceInv, PriceBracketed
<1>7. ASSUME NEW s \in Slas, NoRoom(s) \/ Stamp(s) \/ Count(s) \/ Clear(s) \/ Term(s)
      PROVE  PriceInv'
  BY <1>1, <1>3, <1>7 DEF NoRoom, Stamp, Count, Clear, Term, Pay, Sleep, Push, Fire, Finish
<1>8. CASE UNCHANGED vars
  BY <1>1, <1>3, <1>8 DEF vars
<1> QED BY <1>4, <1>5, <1>6, <1>7, <1>8 DEF Next, Bid

(* However payments, timers and bids interleave, no price asked is above   *)
(* that of the load of all functions not finished, and one is below that   *)
(* of the functions whose timer runs only if a shorter function has ended. *)
THEOREM PricesAreBracketed == Spec => []PriceBracketed
<1>1. Init => PriceInv
  <2> SUFFICES ASSUME Init PROVE PriceInv
    OBVIOUS
  <2> QED BY DEF Init, PriceInv, PriceBracketed
<1>2. IInv /\ PriceInv /\ [Next]_vars => PriceInv'
  BY PriceStep
<1>3. PriceInv => PriceBracketed
  BY DEF PriceInv
<1> QED BY <1>1, <1>2, <1>3, DeskInvariance, PTL DEF Spec
=============================================================================
