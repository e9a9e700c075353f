------------------------------- MODULE Pipeline -------------------------------
(***************************************************************************)
(* The client of the testbed and the load generator it registers with.     *)
(* For each chain of functions a goroutine reserves them on the market one *)
(* after the other, provisions them all at once, tells each the address of *)
(* the next, has the generator ping the first one, and adds the outcome to *)
(* a counter that the goroutines share without a lock.                     *)
(*                                                                         *)
(* A reservation is paid from the moment the market charges the node; the  *)
(* function is gone when its duration is over.  An answer may be lost or   *)
(* time out after the call had its effect.                                 *)
(***************************************************************************)
EXTENDS Integers, FiniteSets, Sequences

CONSTANTS
  Chains,     \* the chains the client registers
  Size,       \* Size[c]: the number of functions of c
  Duration,   \* Function.Duration, that of a chain
  Stop,       \* Function.StopOverhead
  ColdStart,  \* Function.ColdStartOverhead, which the client asks for
  MaxClock    \* bound: the last instant

ASSUME PipelineAssumption ==
  /\ IsFiniteSet(Chains)
  /\ Size \in [Chains -> Nat \ {0}]
  /\ Duration \in Nat /\ Stop \in 0..Duration /\ ColdStart \in Nat
  /\ MaxClock \in Nat

VARIABLES
  clock,
  pc,          \* pc[c]: where the goroutine of c is
  paid,        \* paid[c]: when each function was charged, in order
  started,     \* started[c]: startedAt, the first answer of the market
  answer,      \* answer[c][i]: the answer to the provisioning of function i
  up,          \* up[c]: the functions a node was told to run
  linked,      \* linked[c]: the functions that know the address of the next
  cron,        \* cron[c]: when the generator registered c, or Never
  count,       \* the counters successes and errors
  read,        \* read[c]: the counter as the goroutine read it
  \* history:
  deaf,        \* chains in which a function answered a reconfiguration badly
  raced,       \* a counter was read while another goroutine held a copy
  missed       \* chains pinged when their first function was gone

client == <<pc, paid, started, answer, up, linked, deaf>>
counters == <<count, read, raced>>
load == <<cron, missed>>
vars == <<clock, client, counters, load>>

Never == -1
Functions(c) == 1..Size[c]
Labels == {"reserving", "charged", "reserved", "provisioning", "chaining", "registering",
           "success", "failure", "counting", "counted"}

Init ==
  /\ clock = 0
  /\ pc = [c \in Chains |-> "reserving"]
  /\ paid = [c \in Chains |-> <<>>]
  /\ started = [c \in Chains |-> Never]
  /\ answer = [c \in Chains |-> [i \in Functions(c) |-> "none"]]
  /\ up = [c \in Chains |-> {}]
  /\ linked = [c \in Chains |-> {}]
  /\ cron = [c \in Chains |-> Never]
  /\ count = [o \in {"success", "failure"} |-> 0]
  /\ read = [c \in Chains |-> <<>>]
  /\ deaf = {} /\ raced = FALSE /\ missed = {}

Goto(c, label) == pc' = [pc EXCEPT ![c] = label]

Tick == clock < MaxClock /\ clock' = clock + 1 /\ UNCHANGED <<client, counters, load>>

Gone(c, i) == clock > paid[c][i] + Duration

-----------------------------------------------------------------------------
(* registerNewFunctions: the market charges a node ...                     *)
Charge(c) ==
  /\ pc[c] = "reserving"
  /\ paid' = [paid EXCEPT ![c] = Append(@, clock)]
  /\ Goto(c, "charged")
  /\ UNCHANGED <<clock, started, answer, up, linked, deaf, counters, load>>

(* ... and tells the client, which asks for the next function ...          *)
Reserved(c) ==
  /\ pc[c] = "charged"
  /\ started' = [started EXCEPT ![c] = IF @ = Never THEN clock ELSE @]
  /\ Goto(c, IF Len(paid[c]) = Size[c] THEN "reserved" ELSE "reserving")
  /\ UNCHANGED <<clock, paid, answer, up, linked, deaf, counters, load>>

(* ... or gets no answer or a refusal.  What is paid for stays reserved.   *)
NotReserved(c) ==
  /\ pc[c] \in {"reserving", "charged"}
  /\ Goto(c, "failure")
  /\ UNCHANGED <<clock, paid, started, answer, up, linked, deaf, counters, load>>

(* More than half of the duration went by. *)
TooLate(c) == 2 * (clock - started[c]) > Duration

Proceed(c) ==
  /\ pc[c] = "reserved"
  /\ Goto(c, IF TooLate(c) THEN "failure" ELSE "provisioning")
  /\ UNCHANGED <<clock, paid, started, answer, up, linked, deaf, counters, load>>

-----------------------------------------------------------------------------
(* postProvisionChainFunctions: a goroutine per function.  A node does not *)
(* provision what has expired.                                             *)
Provision(c, i, a) ==
  /\ pc[c] = "provisioning" /\ answer[c][i] = "none"
  /\ answer' = [answer EXCEPT ![c][i] = a]
  /\ \/ a # "bad" /\ ~Gone(c, i) /\ up' = [up EXCEPT ![c] = @ \cup {i}]
     \/ a # "ok" /\ UNCHANGED up
  /\ UNCHANGED <<clock, pc, paid, started, linked, deaf, counters, load>>

\* Mutant of Ready: errors are looked at, statuses are not.
ReadyUnread(c) == \A i \in Functions(c) : answer[c][i] # "lost"

Ready(c) == \A i \in Functions(c) : answer[c][i] = "ok"

Provisioned(c) ==
  /\ pc[c] = "provisioning"
  /\ \A i \in Functions(c) : answer[c][i] # "none"
  /\ Goto(c, IF Ready(c) THEN "chaining" ELSE "failure")
  /\ UNCHANGED <<clock, paid, started, answer, up, linked, deaf, counters, load>>

(* postRequestChainFunctions: each function but the last is reconfigured,  *)
(* in order ...                                                            *)
NextLink(c) == Cardinality(linked[c]) + 1

Reconfigure(c) ==
  /\ pc[c] = "chaining" /\ NextLink(c) < Size[c] /\ ~Gone(c, NextLink(c))
  /\ linked' = [linked EXCEPT ![c] = @ \cup {NextLink(c)}]
  /\ UNCHANGED <<clock, pc, paid, started, answer, up, deaf, counters, load>>

(* ... a status other than 200 ends the loop without an error ...          *)
ReconfigureBad(c) ==
  /\ pc[c] = "chaining" /\ NextLink(c) < Size[c]
  /\ deaf' = deaf \cup {c}
  /\ Goto(c, "registering")
  /\ UNCHANGED <<clock, paid, started, answer, up, linked, counters, load>>

(* ... anything else is an error.                                          *)
ReconfigureLost(c) ==
  /\ pc[c] = "chaining" /\ NextLink(c) < Size[c]
  /\ Goto(c, "failure")
  /\ UNCHANGED <<clock, paid, started, answer, up, linked, deaf, counters, load>>

Chained(c) ==
  /\ pc[c] = "chaining" /\ NextLink(c) = Size[c]
  /\ Goto(c, "registering")
  /\ UNCHANGED <<clock, paid, started, answer, up, linked, deaf, counters, load>>

(* putRequestIotEmulation; the generator may have started all the same     *)
(* when its answer is lost.                                                *)
Register(c) ==
  /\ pc[c] = "registering"
  /\ \/ Goto(c, "success") /\ cron' = [cron EXCEPT ![c] = clock]
     \/ Goto(c, "failure") /\ cron' \in {cron, [cron EXCEPT ![c] = clock]}
  /\ UNCHANGED <<clock, paid, started, answer, up, linked, deaf, counters, missed>>

-----------------------------------------------------------------------------
\* Mutant of InitialWait: both sides spell the key alike.
InitialWaitRead == ColdStart

(* The client sends "initialWaitMs", the generator reads "intialWaitMs".   *)
InitialWait == 0

(* sendPings, poissonProcess, sendSinglePing: pings go out until the       *)
(* duration the client asked for has passed.                               *)
Ping(c) ==
  /\ cron[c] # Never
  /\ clock >= cron[c] + InitialWait
  /\ clock <= cron[c] + InitialWait + Duration - Stop
  /\ missed' = IF Gone(c, 1) THEN missed \cup {c} ELSE missed
  /\ UNCHANGED <<clock, client, counters, cron>>

(* doRequest: successes++ or errors++, a read and a write.                 *)
Outcomes == {"success", "failure"}

CountRead(c) ==
  /\ pc[c] \in Outcomes
  /\ read' = [read EXCEPT ![c] = <<pc[c], count[pc[c]]>>]
  /\ raced' = (raced \/ \E d \in Chains \ {c} : pc[d] = "counting")
  /\ Goto(c, "counting")
  /\ UNCHANGED <<clock, paid, started, answer, up, linked, deaf, count, load>>

\* Mutant of CountWrite: the else is missing.
CountWriteBoth(c) ==
  /\ pc[c] = "counting"
  /\ count' = [count EXCEPT ![read[c][1]] = read[c][2] + 1,
                            !["failure"] = @ + 1]
  /\ Goto(c, "counted")
  /\ UNCHANGED <<clock, paid, started, answer, up, linked, deaf, read, raced, load>>

CountWrite(c) ==
  /\ pc[c] = "counting"
  /\ count' = [count EXCEPT ![read[c][1]] = read[c][2] + 1]
  /\ Goto(c, "counted")
  /\ UNCHANGED <<clock, paid, started, answer, up, linked, deaf, read, raced, load>>

Steps(c) ==
  \/ Charge(c) \/ Reserved(c) \/ NotReserved(c) \/ Proceed(c)
  \/ \E i \in Functions(c), a \in {"ok", "bad", "lost"} : Provision(c, i, a)
  \/ Provisioned(c)
  \/ Reconfigure(c) \/ ReconfigureBad(c) \/ ReconfigureLost(c) \/ Chained(c)
  \/ Register(c) \/ CountRead(c) \/ CountWrite(c)

Next == Tick \/ \E c \in Chains : Steps(c) \/ Ping(c)

Spec == Init /\ [][Next]_vars

-----------------------------------------------------------------------------
TypeOK ==
  /\ clock \in 0..MaxClock
  /\ pc \in [Chains -> Labels]
  /\ paid \in [Chains -> Seq(Nat)]
  /\ DOMAIN answer = Chains
  /\ \A c \in Chains : answer[c] \in [Functions(c) -> {"none", "ok", "bad", "lost"}]
  /\ up \in [Chains -> SUBSET Nat] /\ linked \in [Chains -> SUBSET Nat]
  /\ \A c \in Chains : up[c] \subseteq Functions(c)
  /\ cron \in [Chains -> Nat \cup {Never}]
  /\ count \in [Outcomes -> Nat]
  /\ read \in [Chains -> {<<>>} \cup (Outcomes \X Nat)]
  /\ deaf \subseteq Chains /\ raced \in BOOLEAN /\ missed \subseteq Chains

(* A chain that gets pinged runs in full, each function knowing the next   *)
(* one, unless a function answered its reconfiguration badly.              *)
Whole(c) ==
  /\ up[c] = Functions(c)
  /\ linked[c] = Functions(c) \ {Size[c]} \/ c \in deaf

PingedChainIsWhole == \A c \in Chains : cron[c] # Never => Whole(c)

(* Pings reach a function that is there as long as the client took no      *)
(* longer than StopOverhead from the payment to the registration.          *)
PingsLand == \A c \in missed : cron[c] - paid[c][1] > Stop

(* The report at the end counts each chain once, unless two goroutines     *)
(* were at a counter at a time; then it counts too few, never too many.    *)
Counted == {c \in Chains : pc[c] = "counted"}

ReportIsTrue ==
  LET total == count["success"] + count["failure"] IN
  /\ total <= Cardinality(Counted)
  /\ raced \/ total = Cardinality(Counted)

(* The inductive invariant behind the theorems of PipelineProofs: links    *)
(* are made in order, to functions that run, before the registration ...   *)
Afterwards == {"success", "failure", "counting", "counted"}

ChainAt(c) ==
  /\ \A i \in Functions(c) : answer[c][i] = "ok" => i \in up[c]
  /\ pc[c] \in {"chaining", "registering"} => Ready(c)
  /\ \E k \in 0..(Size[c] - 1) : linked[c] = 1..k
  /\ pc[c] = "registering" \/ cron[c] # Never => Whole(c)

(* ... which is the last thing done for a chain that is paid for ...       *)
CronAt(c) ==
  /\ pc[c] \notin {"reserving"} \cup Afterwards => paid[c] # <<>>
  /\ cron[c] # Never => pc[c] \in Afterwards /\ paid[c] # <<>>
  /\ c \in missed => cron[c] # Never /\ cron[c] - paid[c][1] > Stop

(* ... and a counter that is at most the number of chains counted there,   *)
(* as is the copy a goroutine holds, which is the counter when alone.      *)
CountedAs(o) == {c \in Counted : read[c][1] = o}

CountInv ==
  /\ \A c \in Chains : pc[c] \in {"counting", "counted"} => read[c] \in Outcomes \X Nat
  /\ \A o \in Outcomes :
       /\ count[o] <= Cardinality(CountedAs(o))
       /\ raced \/ count[o] = Cardinality(CountedAs(o))
       /\ \A c \in Chains : pc[c] = "counting" /\ read[c][1] = o =>
            /\ read[c][2] <= Cardinality(CountedAs(o))
            /\ raced \/ read[c][2] = count[o]
  /\ raced \/ \A c, d \in Chains : pc[c] = "counting" /\ pc[d] = "counting" => c = d

IInv == TypeOK /\ (\A c \in Chains : ChainAt(c) /\ CronAt(c)) /\ CountInv
=============================================================================
