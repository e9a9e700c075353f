----------------------------- MODULE PipelineProofs -----------------------------
(***************************************************************************)
(* Proofs about Pipeline, for every finite set of chains of any lengths,   *)
(* every duration and any number of instants.                              *)
(***************************************************************************)
EXTENDS Pipeline, FiniteSetTheorems, TLAPS

(* Links are made in order, so the next function to link is a number.      *)
LEMMA NextLinkType ==
  ASSUME NEW c \in Chains, ChainAt(c)
  PROVE  \E k \in 0..(Size[c] - 1) : linked[c] = 1..k /\ NextLink(c) = k + 1
<1>1. PICK k \in 0..(Size[c] - 1) : linked[c] = 1..k
  BY DEF ChainAt
<1>2. k \in Int /\ k >= 0
  BY PipelineAssumption
<1>3. Cardinality(1..k) = k
  BY <1>2, FS_Interval
<1> QED BY <1>1, <1>3 DEF NextLink

LEMMA AppendCharge ==
  ASSUME NEW q \in Seq(Nat), NEW t \in Nat
  PROVE  /\ Append(q, t) \in Seq(Nat) /\ Append(q, t) # <<>>
         /\ q # <<>> => q[1] \in Nat /\ Append(q, t)[1] = q[1]
<1>1. Append(q, t) \in Seq(Nat) /\ Len(q) \in Nat /\ Len(Append(q, t)) = Len(q) + 1
  OBVIOUS
<1>2. Append(q, t) # <<>>
  BY <1>1
<1>3. ASSUME q # <<>> PROVE q[1] \in Nat /\ Append(q, t)[1] = q[1]
  <2>1. 1 \in 1..Len(q)
    BY <1>1, <1>3
  <2> QED BY <2>1
<1> QED BY <1>1, <1>2, <1>3

(* Every action keeps the types. *)
LEMMA TypeStep ==
  ASSUME IInv, Next
  PROVE  TypeOK'
<1> USE PipelineAssumption DEF IInv, client, counters, load
<1>1. CASE Tick
  BY <1>1 DEF Tick, TypeOK
<1>2. ASSUME NEW c \in Chains, NEW l \in Labels, Goto(c, l) PROVE pc' \in [Chains -> Labels]
  BY <1>2 DEF Goto, TypeOK
<1>3. ASSUME NEW c \in Chains, Charge(c) PROVE TypeOK'
  <2>1. pc' \in [Chains -> Labels]
    BY <1>2, <1>3 DEF Charge, Labels
  <2>2. paid[c] \in Seq(Nat) /\ clock \in Nat
    BY DEF TypeOK
  <2>3. paid' \in [Chains -> Seq(Nat)]
    BY <1>3, <2>2, AppendCharge DEF Charge, TypeOK
  <2> QED BY <1>3, <2>1, <2>3 DEF Charge, TypeOK
<1>4. ASSUME NEW c \in Chains, Reserved(c) \/ NotReserved(c) \/ Proceed(c) \/ Provisioned(c)
                               \/ ReconfigureBad(c) \/ ReconfigureLost(c) \/ Chained(c)
      PROVE  TypeOK'
  <2>1. pc' \in [Chains -> Labels]
    BY <1>2, <1>4 DEF Reserved, NotReserved, Proceed, Provisioned, ReconfigureBad,
                      ReconfigureLost, Chained, Labels
  <2>2. UNCHANGED <<clock, paid, answer, up, linked, counters, load>> /\ deaf' \subseteq Chains
    BY <1>4 DEF Reserved, NotReserved, Proceed, Provisioned, ReconfigureBad,
                ReconfigureLost, Chained, TypeOK
  <2> QED BY <2>1, <2>2 DEF TypeOK
<1>5. ASSUME NEW c \in Chains, NEW i \in Functions(c), NEW a \in {"ok", "bad", "lost"},
             Provision(c, i, a)
      PROVE  TypeOK'
  <2>1. DOMAIN answer' = Chains
        /\ \A d \in Chains : answer'[d] \in [Functions(d) -> {"none", "ok", "bad", "lost"}]
    BY <1>5 DEF Provision, TypeOK
  <2>2. Functions(c) \subseteq Nat
    BY DEF Functions
  <2>3. up' \in [Chains -> SUBSET Nat] /\ \A d \in Chains : up'[d] \subseteq Functions(d)
    <3>1. CASE up' = up
      BY <3>1 DEF TypeOK
    <3>2. CASE up' = [up EXCEPT ![c] = @ \cup {i}]
      BY <3>2, <2>2 DEF TypeOK
    <3> QED BY <1>5, <3>1, <3>2 DEF Provision
  <2> QED BY <1>5, <2>1, <2>3 DEF Provision, TypeOK
<1>6. ASSUME NEW c \in Chains, Reconfigure(c) PROVE TypeOK'
  <2>1. NextLink(c) \in Nat
    BY NextLinkType
  <2>2. linked' \in [Chains -> SUBSET Nat]
    BY <1>6, <2>1 DEF Reconfigure, TypeOK
  <2> QED BY <1>6, <2>2 DEF Reconfigure, TypeOK
<1>7. ASSUME NEW c \in Chains, Register(c) PROVE TypeOK'
  <2>1. pc' \in [Chains -> Labels]
    BY <1>2, <1>7 DEF Register, Labels
  <2>2. cron' \in [Chains -> Nat \cup {Never}]
    <3>1. clock \in Nat
      BY DEF TypeOK
    <3>2. cron' = cron \/ cron' = [cron EXCEPT ![c] = clock]
      BY <1>7 DEF Register
    <3> QED BY <3>1, <3>2 DEF TypeOK
  <2> QED BY <1>7, <2>1, <2>2 DEF Register, TypeOK
<1>8. ASSUME NEW c \in Chains, CountRead(c) PROVE TypeOK'
  <2>1. pc' \in [Chains -> Labels]
    BY <1>2, <1>8 DEF CountRead, Labels
  <2>2. <<pc[c], count[pc[c]]>> \in Outcomes \X Nat
    BY <1>8 DEF CountRead, TypeOK
  <2>3. read' \in [Chains -> {<<>>} \cup (Outcomes \X Nat)]
    BY <1>8, <2>2 DEF CountRead, TypeOK
  <2>4. raced' \in BOOLEAN
    BY <1>8, Zenon DEF CountRead
  <2> QED BY <1>8, <2>1, <2>3, <2>4 DEF CountRead, TypeOK
<1>9. ASSUME NEW c \in Chains, CountWrite(c) PROVE TypeOK'
  <2>1. pc' \in [Chains -> Labels]
    BY <1>2, <1>9 DEF CountWrite, Labels
  <2>2. read[c] \in Outcomes \X Nat
    BY <1>9 DEF CountWrite, CountInv
  <2>3. count' \in [Outcomes -> Nat]
    BY <1>9, <2>2 DEF CountWrite, TypeOK
  <2> QED BY <1>9, <2>1, <2>3 DEF CountWrite, TypeOK
<1>10. ASSUME NEW c \in Chains, Ping(c) PROVE TypeOK'
  BY <1>10 DEF Ping, TypeOK
<1> QED BY <1>1, <1>3, <1>4, <1>5, <1>6, <1>7, <1>8, <1>9, <1>10 DEF Next, Steps

-----------------------------------------------------------------------------
(* A step of one chain leaves the others alone, except for the counters.   *)
Alone(d) ==
  /\ pc'[d] = pc[d] /\ paid'[d] = paid[d] /\ answer'[d] = answer[d]
  /\ up'[d] = up[d] /\ linked'[d] = linked[d] /\ cron'[d] = cron[d]
  /\ d \in deaf' <=> d \in deaf

LEMMA OthersAlone ==
  ASSUME TypeOK, NEW c \in Chains, Steps(c)
  PROVE  missed' = missed /\ \A d \in Chains \ {c} : Alone(d)
<1> USE DEF TypeOK, Goto, Alone, load, counters
<1>1. CASE Charge(c) \/ Reserved(c) \/ NotReserved(c) \/ Proceed(c)
  BY <1>1 DEF Charge, Reserved, NotReserved, Proceed
<1>2. ASSUME NEW i \in Functions(c), NEW a \in {"ok", "bad", "lost"}, Provision(c, i, a)
      PROVE  missed' = missed /\ \A d \in Chains \ {c} : Alone(d)
  BY <1>2 DEF Provision
<1>3. CASE Provisioned(c) \/ Reconfigure(c) \/ ReconfigureLost(c) \/ Chained(c)
  BY <1>3 DEF Provisioned, Reconfigure, ReconfigureLost, Chained
<1>4. CASE ReconfigureBad(c)
  BY <1>4 DEF ReconfigureBad
<1>5. CASE Register(c)
  BY <1>5 DEF Register
<1>6. CASE CountRead(c) \/ CountWrite(c)
  BY <1>6 DEF CountRead, CountWrite
<1> QED BY <1>1, <1>2, <1>3, <1>4, <1>5, <1>6 DEF Steps

LEMMA AloneKept ==
  ASSUME NEW d \in Chains, Alone(d)
  PROVE  /\ ChainAt(d) => ChainAt(d)'
         /\ CronAt(d) /\ (d \in missed' => d \in missed) => CronAt(d)'
BY DEF Alone, ChainAt, CronAt, Ready, Whole, Functions, Never, Afterwards

(* Every function of a chain that is linked runs, and links are made in    *)
(* order up to the last.                                                   *)
LEMMA ChainStep ==
  ASSUME IInv, NEW c \in Chains, Steps(c)
  PROVE  ChainAt(c)'
<1>0. TypeOK /\ ChainAt(c) /\ CronAt(c)
  BY DEF IInv
<1> USE <1>0, PipelineAssumption DEF TypeOK, Goto, client, load, counters
<1>1. ASSUME Charge(c) \/ Reserved(c) \/ NotReserved(c) \/ Proceed(c) \/ CountRead(c)
             \/ CountWrite(c) \/ ReconfigureLost(c)
      PROVE  ChainAt(c)'
  <2>1. /\ UNCHANGED <<answer, up, linked, cron, deaf>>
        /\ pc'[c] \notin {"chaining", "registering"}
    BY <1>1 DEF Charge, Reserved, NotReserved, Proceed, CountRead, CountWrite, ReconfigureLost
  <2> QED BY <2>1 DEF ChainAt, Ready, Whole, Functions
<1>2. ASSUME NEW i \in Functions(c), NEW a \in {"ok", "bad", "lost"}, Provision(c, i, a)
      PROVE  ChainAt(c)'
  <2>1. /\ pc[c] = "provisioning" /\ cron[c] = Never
        /\ UNCHANGED <<pc, linked, cron, deaf>>
    BY <1>2 DEF Provision, CronAt, Afterwards
  <2>2. \A j \in Functions(c) : answer'[c][j] = IF j = i THEN a ELSE answer[c][j]
    BY <1>2 DEF Provision
  <2>3. up[c] \subseteq up'[c] /\ (a = "ok" => i \in up'[c])
    BY <1>2 DEF Provision
  <2>4. \A j \in Functions(c) : answer'[c][j] = "ok" => j \in up'[c]
    BY <2>2, <2>3 DEF ChainAt
  <2> QED BY <2>1, <2>4 DEF ChainAt, Functions
<1>3. ASSUME Provisioned(c) PROVE ChainAt(c)'
  <2>1. /\ UNCHANGED <<answer, up, linked, cron, deaf>> /\ cron[c] = Never
        /\ pc'[c] # "registering" /\ (pc'[c] = "chaining" => Ready(c))
    BY <1>3 DEF Provisioned, CronAt, Afterwards
  <2> QED BY <2>1 DEF ChainAt, Ready, Functions
<1>4. ASSUME Reconfigure(c) PROVE ChainAt(c)'
  <2>1. PICK k \in 0..(Size[c] - 1) : linked[c] = 1..k /\ NextLink(c) = k + 1
    BY NextLinkType
  <2>2. k + 1 \in 0..(Size[c] - 1) /\ linked'[c] = 1..(k + 1)
    BY <1>4, <2>1 DEF Reconfigure
  <2>3. /\ pc[c] = "chaining" /\ cron[c] = Never
        /\ UNCHANGED <<pc, answer, up, cron, deaf>>
    BY <1>4 DEF Reconfigure, CronAt, Afterwards
  <2> QED BY <2>2, <2>3 DEF ChainAt, Ready, Functions
<1>5. ASSUME ReconfigureBad(c) PROVE ChainAt(c)'
  <2>1. /\ UNCHANGED <<answer, up, linked, cron>> /\ c \in deaf' /\ Ready(c)
    BY <1>5 DEF ReconfigureBad, ChainAt
  <2>2. up[c] = Functions(c)
    BY <2>1 DEF ChainAt, Ready
  <2> QED BY <2>1, <2>2 DEF ChainAt, Ready, Whole, Functions
<1>6. ASSUME Chained(c) PROVE ChainAt(c)'
  <2>1. /\ UNCHANGED <<answer, up, linked, cron, deaf>> /\ Ready(c)
    BY <1>6 DEF Chained, ChainAt
  <2>2. up[c] = Functions(c)
    BY <2>1 DEF ChainAt, Ready
  <2>3. PICK k \in 0..(Size[c] - 1) : linked[c] = 1..k /\ NextLink(c) = k + 1
    BY NextLinkType
  <2>4. linked[c] = Functions(c) \ {Size[c]}
    BY <1>6, <2>3 DEF Chained, Functions
  <2> QED BY <2>1, <2>2, <2>4 DEF ChainAt, Ready, Whole, Functions
<1>7. ASSUME Register(c) PROVE ChainAt(c)'
  <2>1. /\ UNCHANGED <<answer, up, linked, deaf>> /\ Whole(c)
        /\ pc'[c] \in {"success", "failure"}
    BY <1>7 DEF Register, ChainAt
  <2> QED BY <2>1 DEF ChainAt, Whole, Functions
<1> QED BY <1>1, <1>2, <1>3, <1>4, <1>5, <1>6, <1>7 DEF Steps

(* The registration is the last thing done for a chain, which was paid for *)
(* in full by then.                                                        *)
LEMMA CronStep ==
  ASSUME IInv, NEW c \in Chains, Steps(c)
  PROVE  CronAt(c)'
<1>0. TypeOK /\ CronAt(c) /\ missed' = missed
  BY OthersAlone DEF IInv
<1> USE <1>0, PipelineAssumption DEF TypeOK, Goto, client, load, counters
<1>1. ASSUME Charge(c) PROVE CronAt(c)'
  <2>1. /\ pc[c] = "reserving" /\ cron[c] = Never /\ cron' = cron /\ c \notin missed
    BY <1>1 DEF Charge, CronAt, Afterwards
  <2>2. paid[c] \in Seq(Nat) /\ clock \in Nat
    OBVIOUS
  <2>3. paid'[c] # <<>>
    BY <1>1, <2>2, AppendCharge DEF Charge
  <2> QED BY <2>1, <2>3 DEF CronAt, Never
<1>2. ASSUME \/ Reserved(c) \/ NotReserved(c) \/ Proceed(c) \/ Provisioned(c) \/ Reconfigure(c)
             \/ ReconfigureBad(c) \/ ReconfigureLost(c) \/ Chained(c)
             \/ \E i \in Functions(c), a \in {"ok", "bad", "lost"} : Provision(c, i, a)
      PROVE  CronAt(c)'
  <2>1. /\ pc[c] \notin Afterwards /\ UNCHANGED <<paid, cron>>
        /\ pc[c] = "reserving" => pc'[c] \in Afterwards
        /\ pc[c] \in {"reserving", "reserved", "charged", "provisioning", "chaining", "registering"}
    BY <1>2 DEF Reserved, NotReserved, Proceed, Provisioned, Reconfigure, ReconfigureBad,
                ReconfigureLost, Chained, Provision, Afterwards
  <2>2. cron[c] = Never /\ c \notin missed
    BY <2>1 DEF CronAt
  <2> QED BY <2>1, <2>2 DEF CronAt, Never
<1>3. ASSUME Register(c) PROVE CronAt(c)'
  <2>1. /\ pc[c] = "registering" /\ pc'[c] \in Afterwards /\ paid' = paid
    BY <1>3 DEF Register, Afterwards
  <2>2. paid[c] # <<>> /\ c \notin missed
    BY <2>1 DEF CronAt, Afterwards
  <2> QED BY <2>1, <2>2 DEF CronAt
<1>4. ASSUME CountRead(c) \/ CountWrite(c) PROVE CronAt(c)'
  <2>1. /\ pc[c] \in Afterwards /\ pc'[c] \in Afterwards /\ UNCHANGED <<paid, cron>>
    BY <1>4 DEF CountRead, CountWrite, Afterwards, Outcomes
  <2> QED BY <2>1 DEF CronAt, Afterwards, Never
<1> QED BY <1>1, <1>2, <1>3, <1>4 DEF Steps

(* A ping that finds its function gone was asked for too late.             *)
LEMMA PingStep ==
  ASSUME IInv, NEW c \in Chains, Ping(c), NEW d \in Chains
  PROVE  CronAt(d)'
<1>0. TypeOK /\ CronAt(c) /\ CronAt(d)
  BY DEF IInv
<1>1. UNCHANGED <<pc, paid, cron>> /\ missed' \subseteq missed \cup {c}
  BY DEF Ping, client
<1>2. CASE d # c \/ missed' = missed
  BY <1>0, <1>1, <1>2 DEF CronAt, Never, Afterwards
<1>3. CASE d = c /\ missed' # missed
  <2>1. cron[c] # Never /\ Gone(c, 1) /\ clock <= cron[c] + InitialWait + Duration - Stop
    BY <1>3 DEF Ping
  <2>2. paid[c] # <<>> /\ paid[c] \in Seq(Nat)
    BY <1>0, <2>1 DEF CronAt, TypeOK
  <2>3. paid[c][1] \in Nat
    BY <1>0, <2>2, AppendCharge
  <2>4. cron[c] \in Nat /\ clock \in Nat
    BY <1>0, <2>1, PipelineAssumption DEF TypeOK
  <2>5. cron[c] - paid[c][1] > Stop
    BY <2>1, <2>3, <2>4, PipelineAssumption DEF Gone, InitialWait
  <2> QED BY <1>0, <1>1, <1>3, <2>1, <2>5 DEF CronAt, Never, Afterwards
<1> QED BY <1>2, <1>3

-----------------------------------------------------------------------------
LEMMA CountedFinite ==
  /\ IsFiniteSet(Counted)
  /\ \A o \in Outcomes : IsFiniteSet(CountedAs(o)) /\ Cardinality(CountedAs(o)) \in Nat
<1>1. IsFiniteSet(Counted)
  BY PipelineAssumption, FS_Subset DEF Counted
<1>2. ASSUME NEW o \in Outcomes PROVE IsFiniteSet(CountedAs(o))
  BY <1>1, FS_Subset DEF CountedAs
<1> QED BY <1>1, <1>2, FS_CardinalityType

(* A step that is not one of a counter leaves what was counted.            *)
LEMMA CountsKept ==
  ASSUME CountInv, UNCHANGED counters,
         \A d \in Chains : \/ pc'[d] = pc[d]
                           \/ {pc[d], pc'[d]} \cap {"counting", "counted"} = {}
  PROVE  CountInv'
<1>1. count' = count /\ read' = read /\ raced' = raced
  BY DEF counters
<1>2. \A d \in Chains : /\ pc'[d] = "counting" <=> pc[d] = "counting"
                        /\ pc'[d] = "counted" <=> pc[d] = "counted"
  OBVIOUS
<1>3. Counted' = Counted
  BY <1>2 DEF Counted
<1>4. \A o : CountedAs(o)' = CountedAs(o)
  BY <1>1, <1>3 DEF CountedAs
<1> QED BY <1>1, <1>2, <1>4 DEF CountInv, Outcomes

LEMMA ReadStep ==
  ASSUME TypeOK, CountInv, NEW c \in Chains, CountRead(c)
  PROVE  CountInv'
<1> DEFINE o == pc[c]
<1>1. /\ o \in Outcomes /\ read' = [read EXCEPT ![c] = <<o, count[o]>>] /\ count' = count
      /\ pc' = [pc EXCEPT ![c] = "counting"]
  BY DEF CountRead, Goto
<1>2. /\ read'[c] = <<o, count[o]>> /\ pc'[c] = "counting" /\ pc[c] # "counted"
      /\ \A d \in Chains \ {c} : read'[d] = read[d] /\ pc'[d] = pc[d]
  BY <1>1 DEF TypeOK, Outcomes
<1>3. Counted' = Counted /\ c \notin Counted
  BY <1>2 DEF Counted
<1>4. \A p : CountedAs(p)' = CountedAs(p)
  BY <1>2, <1>3 DEF CountedAs, Counted
<1>5. /\ raced => raced'
      /\ raced' \/ \A d \in Chains \ {c} : pc[d] # "counting"
  BY Zenon DEF CountRead
<1>6. \A d \in Chains : pc'[d] \in {"counting", "counted"} => read'[d] \in Outcomes \X Nat
  BY <1>1, <1>2 DEF CountInv, TypeOK
<1>7. \A p \in Outcomes : /\ count'[p] <= Cardinality(CountedAs(p)')
                          /\ raced' \/ count'[p] = Cardinality(CountedAs(p)')
  BY <1>1, <1>4, <1>5 DEF CountInv
<1>8. ASSUME NEW p \in Outcomes, NEW d \in Chains, pc'[d] = "counting", read'[d][1] = p
      PROVE  /\ read'[d][2] <= Cardinality(CountedAs(p)')
             /\ raced' \/ read'[d][2] = count'[p]
  <2>1. CASE d = c
    <3>1. read'[c][1] = o /\ read'[c][2] = count[o]
      BY <1>2
    <3> QED BY <2>1, <3>1, <1>1, <1>4, <1>7, <1>8
  <2>2. CASE d # c
    <3>1. read'[d] = read[d] /\ pc[d] = "counting"
      BY <1>2, <1>8, <2>2
    <3> QED BY <1>1, <1>4, <1>5, <1>8, <2>2, <3>1 DEF CountInv
  <2> QED BY <2>1, <2>2
<1>9. raced' \/ \A d, e \in Chains : pc'[d] = "counting" /\ pc'[e] = "counting" => d = e
  BY <1>2, <1>5
<1> QED BY <1>6, <1>7, <1>8, <1>9 DEF CountInv

LEMMA WriteStep ==
  ASSUME TypeOK, CountInv, NEW c \in Chains, CountWrite(c)
  PROVE  CountInv'
<1>0. PICK o \in Outcomes, v \in Nat : read[c][1] = o /\ read[c][2] = v
  BY DEF CountWrite, CountInv
<1>1. /\ pc[c] = "counting" /\ count' = [count EXCEPT ![o] = v + 1]
      /\ read' = read /\ raced' = raced /\ pc' = [pc EXCEPT ![c] = "counted"]
  BY <1>0 DEF CountWrite, Goto
<1>3. pc'[c] = "counted" /\ \A d \in Chains \ {c} : pc'[d] = pc[d]
  BY <1>1 DEF TypeOK
<1>4. Counted' = Counted \cup {c} /\ c \notin Counted
  BY <1>1, <1>3 DEF Counted
<1>5. /\ CountedAs(o)' = CountedAs(o) \cup {c} /\ c \notin CountedAs(o)
      /\ \A p : p # o => CountedAs(p)' = CountedAs(p)
  BY <1>0, <1>1, <1>4 DEF CountedAs
<1>6. Cardinality(CountedAs(o)') = Cardinality(CountedAs(o)) + 1
  BY <1>5, CountedFinite, FS_AddElement
<1>7. \A p \in Outcomes : Cardinality(CountedAs(p)) \in Nat /\ count[p] \in Nat
  BY CountedFinite DEF TypeOK
<1>8. /\ count'[o] = v + 1 /\ \A p \in Outcomes : p # o => count'[p] = count[p]
      /\ v <= Cardinality(CountedAs(o))
      /\ raced \/ v = count[o]
  BY <1>0, <1>1 DEF TypeOK, CountInv
<1>9. \A p \in Outcomes : /\ count'[p] <= Cardinality(CountedAs(p)')
                          /\ raced' \/ count'[p] = Cardinality(CountedAs(p)')
  <2>1. \A p \in Outcomes : /\ count[p] <= Cardinality(CountedAs(p))
                            /\ raced \/ count[p] = Cardinality(CountedAs(p))
    BY DEF CountInv
  <2>2. /\ count'[o] <= Cardinality(CountedAs(o)')
        /\ raced \/ count'[o] = Cardinality(CountedAs(o)')
    BY <1>6, <1>7, <1>8, <2>1
  <2> QED BY <1>1, <1>5, <1>8, <2>1, <2>2
<1>10. ASSUME NEW p \in Outcomes, NEW d \in Chains, pc'[d] = "counting", read'[d][1] = p
       PROVE  /\ read'[d][2] <= Cardinality(CountedAs(p)')
              /\ raced' \/ read'[d][2] = count'[p]
  <2>1. d # c /\ pc[d] = "counting"
    BY <1>3, <1>10
  <2>2. raced /\ raced'
    BY <1>1, <2>1 DEF CountInv
  <2>3. /\ read[d] \in Outcomes \X Nat /\ read[d][1] = p
        /\ read[d][2] <= Cardinality(CountedAs(p))
    BY <1>1, <1>10, <2>1 DEF CountInv
  <2>4. read[d][2] \in Nat
    BY <2>3
  <2>5. CASE p = o
    <3>1. Cardinality(CountedAs(p)') = Cardinality(CountedAs(p)) + 1
      BY <1>6, <2>5
    <3>2. Cardinality(CountedAs(p)) \in Nat
      BY <1>7
    <3> QED BY <1>1, <2>2, <2>3, <2>4, <3>1, <3>2
  <2>6. CASE p # o
    <3>1. CountedAs(p)' = CountedAs(p)
      BY <1>5, <2>6
    <3> QED BY <1>1, <2>2, <2>3, <3>1
  <2> QED BY <2>5, <2>6
<1>11. \A d \in Chains : pc'[d] \in {"counting", "counted"} => read'[d] \in Outcomes \X Nat
  BY <1>1, <1>3 DEF CountInv
<1>12. raced' \/ \A d, e \in Chains : pc'[d] = "counting" /\ pc'[e] = "counting" => d = e
  BY <1>1, <1>3 DEF CountInv
<1> QED BY <1>9, <1>10, <1>11, <1>12 DEF CountInv

LEMMA CountStep ==
  ASSUME TypeOK, CountInv, NEW c \in Chains, Steps(c)
  PROVE  CountInv'
<1>1. CASE CountRead(c)
  BY <1>1, ReadStep
<1>2. CASE CountWrite(c)
  BY <1>2, WriteStep
<1>3. ASSUME ~CountRead(c), ~CountWrite(c) PROVE CountInv'
  <2> USE DEF Goto, TypeOK, load, counters
  <2>1. UNCHANGED counters
    BY <1>3 DEF Steps, Charge, Reserved, NotReserved, Proceed, Provision, Provisioned,
                Reconfigure, ReconfigureBad, ReconfigureLost, Chained, Register
  <2>2. pc' = pc \/ \E l \in Labels \ {"counting", "counted"} : Goto(c, l)
    BY <1>3 DEF Steps, Charge, Reserved, NotReserved, Proceed, Provision, Provisioned,
                Reconfigure, ReconfigureBad, ReconfigureLost, Chained, Register, Labels
  <2>3. pc' = pc \/ pc[c] \notin {"counting", "counted"}
    BY <1>3 DEF Steps, Charge, Reserved, NotReserved, Proceed, Provision, Provisioned,
                Reconfigure, ReconfigureBad, ReconfigureLost, Chained, Register
  <2>4. \A d \in Chains : \/ pc'[d] = pc[d]
                          \/ {pc[d], pc'[d]} \cap {"counting", "counted"} = {}
    BY <2>2, <2>3
  <2> QED BY <2>1, <2>4, CountsKept
<1> QED BY <1>1, <1>2, <1>3

-----------------------------------------------------------------------------
LEMMA InitIInv == Init => IInv
<1> SUFFICES ASSUME Init PROVE IInv
  OBVIOUS
<1> USE PipelineAssumption DEF Init
<1>1. TypeOK
  <2>1. /\ clock \in 0..MaxClock /\ pc \in [Chains -> Labels] /\ paid \in [Chains -> Seq(Nat)]
        /\ cron \in [Chains -> Nat \cup {Never}] /\ read \in [Chains -> {<<>>} \cup (Outcomes \X Nat)]
        /\ count \in [Outcomes -> Nat] /\ deaf \subseteq Chains /\ raced \in BOOLEAN
        /\ missed \subseteq Chains
    <3>1. 0 \in 0..MaxClock
      OBVIOUS
    <3>2. paid \in [Chains -> Seq(Nat)]
      OBVIOUS
    <3>3. pc \in [Chains -> Labels] /\ count \in [Outcomes -> Nat]
      BY DEF Labels, Outcomes
    <3>4. cron \in [Chains -> Nat \cup {Never}]
      OBVIOUS
    <3>5. read \in [Chains -> {<<>>} \cup (Outcomes \X Nat)]
      OBVIOUS
    <3> QED BY <3>1, <3>2, <3>3, <3>4, <3>5
  <2>2. /\ DOMAIN answer = Chains
        /\ \A c \in Chains : answer[c] \in [Functions(c) -> {"none", "ok", "bad", "lost"}]
    OBVIOUS
  <2>3. /\ up \in [Chains -> SUBSET Nat] /\ linked \in [Chains -> SUBSET Nat]
        /\ \A c \in Chains : up[c] \subseteq Functions(c)
    OBVIOUS
  <2> QED BY <2>1, <2>2, <2>3 DEF TypeOK
<1>2. ASSUME NEW c \in Chains PROVE ChainAt(c) /\ CronAt(c)
  <2>1. 0 \in 0..(Size[c] - 1) /\ linked[c] = 1..0
    OBVIOUS
  <2> QED BY <2>1 DEF ChainAt, CronAt, Never
<1>3. CountInv
  <2>1. Counted = {}
    BY DEF Counted
  <2>2. \A o \in Outcomes : Cardinality(CountedAs(o)) = 0
    BY <2>1, FS_EmptySet DEF CountedAs
  <2> QED BY <2>2 DEF CountInv, Outcomes
<1> QED BY <1>1, <1>2, <1>3 DEF IInv

LEMMA NextIInv == IInv /\ [Next]_vars => IInv'
<1> SUFFICES ASSUME IInv, [Next]_vars PROVE IInv'
  OBVIOUS
<1>0. TypeOK /\ CountInv /\ \A c \in Chains : ChainAt(c) /\ CronAt(c)
  BY DEF IInv
<1>1. ASSUME NEW c \in Chains, Steps(c) PROVE IInv'
  <2>1. TypeOK'
    BY <1>1, TypeStep DEF Next
  <2>2. ASSUME NEW d \in Chains PROVE ChainAt(d)' /\ CronAt(d)'
    <3>1. CASE d = c
      BY <1>1, <3>1, ChainStep, CronStep
    <3>2. CASE d # c
      BY <1>0, <1>1, <3>2, OthersAlone, AloneKept
    <3> QED BY <3>1, <3>2
  <2>3. CountInv'
    BY <1>0, <1>1, CountStep
  <2> QED BY <2>1, <2>2, <2>3 DEF IInv
<1>2. ASSUME NEW c \in Chains, Ping(c) PROVE IInv'
  <2>1. TypeOK'
    BY <1>2, TypeStep DEF Next
  <2>2. \A d \in Chains : Alone(d) /\ pc'[d] = pc[d]
    BY <1>2 DEF Ping, client, Alone
  <2>3. \A d \in Chains : ChainAt(d)'
    BY <1>0, <2>2, AloneKept
  <2>4. \A d \in Chains : CronAt(d)'
    BY <1>2, PingStep
  <2>5. CountInv'
    BY <1>0, <1>2, <2>2, CountsKept DEF Ping
  <2> QED BY <2>1, <2>3, <2>4, <2>5 DEF IInv
<1>3. CASE Tick \/ UNCHANGED vars
  <2>1. UNCHANGED <<client, counters, load>>
    BY <1>3 DEF Tick, vars
  <2>2. TypeOK'
    <3>1. CASE Tick
      BY <3>1, TypeStep DEF Next
    <3>2. CASE UNCHANGED vars
      BY <1>0, <3>2 DEF TypeOK, vars, client, counters, load
    <3> QED BY <1>3, <3>1, <3>2
  <2>3. \A d \in Chains : Alone(d) /\ missed' = missed /\ pc'[d] = pc[d]
    BY <2>1 DEF client, load, Alone
  <2>4. \A d \in Chains : ChainAt(d)' /\ CronAt(d)'
    BY <1>0, <2>3, AloneKept
  <2>5. CountInv'
    BY <1>0, <2>1, <2>3, CountsKept
  <2> QED BY <2>2, <2>4, <2>5 DEF IInv
<1> QED BY <1>1, <1>2, <1>3 DEF Next

(* Whatever fails and whenever, the client's account of its chains is true *)
(* of them.                                                                *)
THEOREM ClientInvariance == Spec => []IInv
BY InitIInv, NextIInv, PTL DEF Spec

(* A chain the generator pings runs in full and is linked in full, unless  *)
(* a function answered its reconfiguration badly.                          *)
THEOREM PingedAreWhole == Spec => []PingedChainIsWhole
<1>1. IInv => PingedChainIsWhole
  BY DEF IInv, ChainAt, PingedChainIsWhole
<1> QED BY <1>1, ClientInvariance, PTL

(* A ping misses its function only if the client took longer than the      *)
(* overhead it allows from the first payment to the registration.          *)
THEOREM PingsMissOnlyTheLate == Spec => []PingsLand
<1>1. IInv => PingsLand
  BY DEF IInv, TypeOK, CronAt, PingsLand
<1> QED BY <1>1, ClientInvariance, PTL

(* The counters of the report add up to the chains that are through with,  *)
(* unless two goroutines were at one, and never to more.                   *)
THEOREM ReportNeverExaggerates == Spec => []ReportIsTrue
<1>1. ASSUME IInv PROVE ReportIsTrue
  <2> DEFINE S == CountedAs("success")
             F == CountedAs("failure")
  <2>1. TypeOK /\ CountInv
    BY <1>1 DEF IInv
  <2>2. Counted = S \cup F
    BY <2>1 DEF CountInv, Counted, CountedAs, Outcomes
  <2>3. S \cap F = {}
    BY DEF CountedAs
  <2>4. IsFiniteSet(S) /\ IsFiniteSet(F) /\ Cardinality(S) \in Nat /\ Cardinality(F) \in Nat
    BY CountedFinite DEF Outcomes
  <2>5. Cardinality(Counted) = Cardinality(S) + Cardinality(F)
    BY <2>2, <2>3, <2>4, FS_Union, FS_EmptySet
  <2>6. /\ count["success"] <= Cardinality(S) /\ count["failure"] <= Cardinality(F)
        /\ raced \/ (count["success"] = Cardinality(S) /\ count["failure"] = Cardinality(F))
        /\ count["success"] \in Nat /\ count["failure"] \in Nat
    BY <2>1 DEF CountInv, Outcomes, TypeOK
  <2> QED BY <2>4, <2>5, <2>6 DEF ReportIsTrue
<1> QED BY <1>1, ClientInvariance, PTL
=============================================================================
