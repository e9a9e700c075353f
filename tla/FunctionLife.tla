----------------------------- MODULE FunctionLife -----------------------------
(***************************************************************************)
(* The life of functions on one fog node: bid, pay, provision, go live,    *)
(* finish.  Every request and every expiry timer is a task of its own;     *)
(* they meet in the tracking table, the counters of used resources, the    *)
(* FaaS backend, and the one-permit semaphore that FunctionLife::lock      *)
(* hands out.  An action is what a task does between two points where      *)
(* another task can be observed or can observe it.                         *)
(*                                                                         *)
(* Each SLA has three tasks: its pay call, its provision call and its      *)
(* expiry, which the cron spawns.  The market sends the two calls once,    *)
(* the second after the first succeeded; a request for bids may come back. *)
(* When the connection of a caller breaks, the server drops the handler at *)
(* the await it is in, and with it the permit; the expiry has no caller.   *)
(***************************************************************************)
EXTENDS Integers, FiniteSets

CONSTANTS
  Slas,        \* SLA identifiers
  Nodes,       \* Kubernetes nodes whose resources this fog node tracks
  NoNode,      \* placement of an SLA this node has not bid on
  Returning,   \* SLAs whose request for bids reaches the node again (a bound)
  Demand,      \* Demand[s][r]: the cpu and ram one replica requests
  MaxReplica,  \* MaxReplica[s]: how far OpenFaaS may scale s
  Available,   \* Available[r]: what is reserved for functions on every node
  Free,        \* ledger entries of the abstract specification (see Ledger)
  Released

Resources == {"cpu", "ram"}

ASSUME ConstantsAssumption ==
  /\ Demand \in [Slas -> [Resources -> Nat]]
  /\ MaxReplica \in [Slas -> Nat]
  /\ Available \in [Resources -> Nat]
  /\ NoNode \notin Nodes
  /\ Returning \subseteq Slas
  /\ Free # Released /\ {Free, Released} \cap Nodes = {}

VARIABLES
  tracking,   \* tracking[s]: the state of s in function_tracking, or "none"
  placement,  \* placement[s]: the Kubernetes node named in the record of s
  used,       \* used[n][r]: resource_tracking's counters
  holders,    \* the tasks that hold a permit of the node-wide semaphore
  at,         \* at[s]: the node in the copy of the record a task working on s took
  read,       \* read[s]: the counters that task read before it writes them back
  pc,         \* pc[k][s]: where the task of kind k working on s is
  deployed,   \* the functions that exist in OpenFaaS
  faulted,    \* the SLAs for which a backend call answered with an error
  late,       \* the SLAs that were bid on again after they had been paid
  panicked    \* the SLAs whose release tripped the assertions of set_used

vars == <<tracking, placement, used, holders, at, read, pc, deployed, faulted, late, panicked>>

Kinds == {"pay", "provision", "expiry"}
Stages == {"none", "proposed", "paid", "provisioned", "live", "finished"}
Finishable == {"paid", "provisioned", "live"}
\* Mutant of Removable: a function that never went live is not removed.
RemovableOnlyLive == {"live"}
Removable == {"provisioned", "live"}

Nothing == [r \in Resources |-> 0]

(* The labels between which a task holds the permit. *)
Critical == {"saved", "reserved", "accounted", "arming", "deploying",
             "removing", "settling", "closing", "crediting"}
(* Where the handler of a provision call waits, and what is left of it when *)
(* it is dropped there: a request to OpenFaaS may still be on its way.      *)
Waiting == {"deploying", "checking", "unsure", "gaveUp", "removing"}
Dropped(label) ==
  CASE label = "deploying" -> "cutDeploy"
    [] label = "removing" -> "cutRemove"
    [] OTHER -> "cut"

Labels == Critical \cup {"idle", "probing", "checking", "seenLive", "unsure", "gaveUp", "armed",
                         "popped", "done", "credited", "failed", "cut", "cutDeploy", "cutRemove"}

(* The kinds of task that finish an SLA, and where they ask for the permit. *)
Finishers == {"provision", "expiry"}
FinishFrom(k) == IF k = "provision" THEN "gaveUp" ELSE "popped"

Init ==
  /\ tracking = [s \in Slas |-> "none"]
  /\ placement = [s \in Slas |-> NoNode]
  /\ used = [n \in Nodes |-> Nothing]
  /\ holders = {}
  /\ at = [s \in Slas |-> NoNode]
  /\ read = [s \in Slas |-> Nothing]
  /\ pc = [k \in Kinds |-> [s \in Slas |-> "idle"]]
  /\ deployed = {}
  /\ faulted = {}
  /\ late = {}
  /\ panicked = {}

-----------------------------------------------------------------------------
(* Helpers *)

Goto(k, s, label) == pc' = [pc EXCEPT ![k][s] = label]

\* Mutant of Acquire: the semaphore is forgotten.
AcquireUnguarded(k, s) == holders' = holders \cup {<<k, s>>}

Acquire(k, s) == holders = {} /\ holders' = {<<k, s>>}
Release(k, s) == holders' = holders \ {<<k, s>>}

(* satisfiability_check: every replica the SLA allows must fit, strictly. *)
Satisfiable(load, s) ==
  \A r \in Resources : load[r] + MaxReplica[s] * Demand[s][r] < Available[r]

(* function_tracking's guarded writes: each save_* replaces one state only. *)
Save(s, from, to) ==
  tracking' = IF tracking[s] = from THEN [tracking EXCEPT ![s] = to] ELSE tracking

SavePaid(s) == Save(s, "proposed", "paid")
SaveProvisioned(s) == Save(s, "paid", "provisioned")
\* Mutant of SaveLive: the state is overwritten whatever it is by then.
SaveLiveBlindly(s) == tracking' = [tracking EXCEPT ![s] = "live"]

SaveLive(s) == Save(s, "provisioned", "live")
SaveFinished(s) == tracking' = [tracking EXCEPT ![s] = "finished"]

-----------------------------------------------------------------------------
(* Bidding takes no lock: a node that looks free enough goes in the record, *)
(* over whatever the table held for the SLA.  A bid refused by the in-flight*)
(* limit or for lack of room changes nothing.                               *)
Bid(s, n) ==
  /\ tracking[s] = "none" \/ s \in Returning
  /\ Satisfiable(used[n], s)
  /\ tracking' = [tracking EXCEPT ![s] = "proposed"]
  /\ placement' = [placement EXCEPT ![s] = n]
  /\ late' = IF tracking[s] \in {"none", "proposed"} THEN late ELSE late \cup {s}
  /\ UNCHANGED <<used, holders, at, read, pc, deployed, faulted, panicked>>

\* Mutant of PayReserve: the check made for the bid is trusted.
PayReserveUnchecked(s) ==
  /\ pc["pay"][s] = "idle" /\ tracking[s] = "proposed"
  /\ Acquire("pay", s)
  /\ at' = [at EXCEPT ![s] = placement[s]]
  /\ read' = [read EXCEPT ![s] = used[placement[s]]]
  /\ SavePaid(s)
  /\ Goto("pay", s, "saved")
  /\ UNCHANGED <<placement, used, deployed, faulted, late, panicked>>

(* Pay: under the lock, check again, record the payment ... *)
PayReserve(s) ==
  /\ pc["pay"][s] = "idle" /\ tracking[s] = "proposed"
  /\ Acquire("pay", s)
  /\ Satisfiable(used[placement[s]], s)
  /\ at' = [at EXCEPT ![s] = placement[s]]
  /\ read' = [read EXCEPT ![s] = used[placement[s]]]
  /\ SavePaid(s)
  /\ Goto("pay", s, "saved")
  /\ UNCHANGED <<placement, used, deployed, faulted, late, panicked>>

(* ... or give up because the SLA no longer fits. *)
PayRefuse(s) ==
  /\ pc["pay"][s] = "idle" /\ tracking[s] = "proposed"
  /\ holders = {}
  /\ ~Satisfiable(used[placement[s]], s)
  /\ Goto("pay", s, "failed")
  /\ UNCHANGED <<tracking, placement, used, holders, at, read, deployed, faulted, late, panicked>>

(* ... read the payment back, which a bid may have overwritten by then ... *)
PayConfirm(s) ==
  /\ pc["pay"][s] = "saved" /\ tracking[s] = "paid"
  /\ Goto("pay", s, "reserved")
  /\ UNCHANGED <<tracking, placement, used, holders, at, read, deployed, faulted, late, panicked>>

PayOverwritten(s) ==
  /\ pc["pay"][s] = "saved" /\ tracking[s] # "paid"
  /\ read' = [read EXCEPT ![s] = Nothing]
  /\ Release("pay", s)
  /\ Goto("pay", s, "failed")
  /\ UNCHANGED <<tracking, placement, used, at, deployed, faulted, late, panicked>>

\* Mutant of PayAccount: the demand is taken off instead of put on.
PayAccountNegated(s) ==
  /\ pc["pay"][s] = "reserved"
  /\ used' = [used EXCEPT ![at[s]] = [r \in Resources |-> read[s][r] - Demand[s][r]]]
  /\ read' = [read EXCEPT ![s] = Nothing]
  /\ Goto("pay", s, "accounted")
  /\ UNCHANGED <<tracking, placement, holders, at, deployed, faulted, late, panicked>>

(* ... charge one replica on top of the counters read before ... *)
PayAccount(s) ==
  /\ pc["pay"][s] = "reserved"
  /\ used' = [used EXCEPT ![at[s]] = [r \in Resources |-> read[s][r] + Demand[s][r]]]
  /\ read' = [read EXCEPT ![s] = Nothing]
  /\ Goto("pay", s, "accounted")
  /\ UNCHANGED <<tracking, placement, holders, at, deployed, faulted, late, panicked>>

\* Mutant of PayArm: the expiry is never spawned.
PayArmForgotten(s) ==
  /\ pc["pay"][s] = "accounted"
  /\ Goto("pay", s, "arming")
  /\ UNCHANGED <<tracking, placement, used, holders, at, read, deployed, faulted, late, panicked>>

(* ... spawn the expiry, whose sleep starts at once ... *)
PayArm(s) ==
  /\ pc["pay"][s] = "accounted"
  /\ pc' = [pc EXCEPT !["pay"][s] = "arming", !["expiry"][s] = "armed"]
  /\ UNCHANGED <<tracking, placement, used, holders, at, read, deployed, faulted, late, panicked>>

(* ... record the cron entry, and return, which drops the permit. *)
PayReturn(s) ==
  /\ pc["pay"][s] = "arming"
  /\ Release("pay", s)
  /\ Goto("pay", s, "done")
  /\ UNCHANGED <<tracking, placement, used, at, read, deployed, faulted, late, panicked>>

(* The handler is dropped while it waits for the queue of the cron: what   *)
(* was charged stays, and so does the expiry.                              *)
PayDropped(s) ==
  /\ pc["pay"][s] = "arming"
  /\ Release("pay", s)
  /\ Goto("pay", s, "cut")
  /\ UNCHANGED <<tracking, placement, used, at, read, deployed, faulted, late, panicked>>

Pay(s) ==
  \/ PayReserve(s) \/ PayRefuse(s) \/ PayConfirm(s) \/ PayOverwritten(s)
  \/ PayAccount(s) \/ PayArm(s) \/ PayReturn(s) \/ PayDropped(s)

-----------------------------------------------------------------------------
(* Provision: the market forwards it once the pay call has succeeded.  The *)
(* permit is held while OpenFaaS answers the deployment.                   *)
ProvisionStart(s) ==
  /\ pc["provision"][s] = "idle" /\ pc["pay"][s] = "done"
  /\ tracking[s] = "paid"
  /\ Acquire("provision", s)
  /\ Goto("provision", s, "deploying")
  /\ UNCHANGED <<tracking, placement, used, at, read, deployed, faulted, late, panicked>>

ProvisionRefuse(s) ==
  /\ pc["provision"][s] = "idle" /\ pc["pay"][s] = "done"
  /\ tracking[s] # "paid"
  /\ holders = {}
  /\ Goto("provision", s, "failed")
  /\ UNCHANGED <<tracking, placement, used, holders, at, read, deployed, faulted, late, panicked>>

Deployed(s) ==
  /\ pc["provision"][s] = "deploying"
  /\ deployed' = deployed \cup {s}
  /\ SaveProvisioned(s)
  /\ Release("provision", s)
  /\ Goto("provision", s, "probing")
  /\ UNCHANGED <<placement, used, at, read, faulted, late, panicked>>

\* Mutant of DeployFailed: the error is swallowed.
DeployFailedIgnored(s) ==
  /\ pc["provision"][s] = "deploying"
  /\ deployed' \in {deployed, deployed \cup {s}}
  /\ faulted' = faulted \cup {s}
  /\ SaveProvisioned(s)
  /\ Release("provision", s)
  /\ Goto("provision", s, "probing")
  /\ UNCHANGED <<placement, used, at, read, late, panicked>>

(* An error says nothing about whether OpenFaaS created the function. *)
DeployFailed(s) ==
  /\ pc["provision"][s] = "deploying"
  /\ deployed' \in {deployed, deployed \cup {s}}
  /\ faulted' = faulted \cup {s}
  /\ Release("provision", s)
  /\ Goto("provision", s, "failed")
  /\ UNCHANGED <<tracking, placement, used, at, read, late, panicked>>

(* Without the permit, the liveness probe is retried until it succeeds or *)
(* the backoff's time is up.                                              *)
ProbeStart(s) ==
  /\ pc["provision"][s] = "probing"
  /\ Goto("provision", s, IF tracking[s] = "provisioned" THEN "checking" ELSE "unsure")
  /\ UNCHANGED <<tracking, placement, used, holders, at, read, deployed, faulted, late, panicked>>

ProbeUp(s) ==
  /\ pc["provision"][s] = "checking"
  /\ s \in deployed
  /\ Goto("provision", s, "seenLive")
  /\ UNCHANGED <<tracking, placement, used, holders, at, read, deployed, faulted, late, panicked>>

ProbeDown(s) ==
  /\ pc["provision"][s] = "checking"
  /\ Goto("provision", s, "unsure")
  /\ UNCHANGED <<tracking, placement, used, holders, at, read, deployed, faulted, late, panicked>>

(* The answer may be old by now: the expiry does not wait for the probe. *)
ProbeSave(s) ==
  /\ pc["provision"][s] = "seenLive"
  /\ SaveLive(s)
  /\ Goto("provision", s, "done")
  /\ UNCHANGED <<placement, used, holders, at, read, deployed, faulted, late, panicked>>

ProbeAgain(s) ==
  /\ pc["provision"][s] = "unsure"
  /\ Goto("provision", s, "probing")
  /\ UNCHANGED <<tracking, placement, used, holders, at, read, deployed, faulted, late, panicked>>

\* Mutant of ProbeGiveUp: only a function that can still come up is given up on.
ProbeGiveUpPending(s) ==
  /\ pc["provision"][s] = "unsure" /\ tracking[s] = "provisioned"
  /\ Goto("provision", s, "gaveUp")
  /\ UNCHANGED <<tracking, placement, used, holders, at, read, deployed, faulted, late, panicked>>

ProbeGiveUp(s) ==
  /\ pc["provision"][s] = "unsure"
  /\ Goto("provision", s, "gaveUp")
  /\ UNCHANGED <<tracking, placement, used, holders, at, read, deployed, faulted, late, panicked>>

(* The handler is dropped where it waits; nothing is undone.  What it had  *)
(* asked of OpenFaaS may be done all the same ...                          *)
ProvisionDropped(s) ==
  /\ pc["provision"][s] \in Waiting
  /\ Release("provision", s)
  /\ Goto("provision", s, Dropped(pc["provision"][s]))
  /\ UNCHANGED <<tracking, placement, used, at, read, deployed, faulted, late, panicked>>

(* ... at any time, and nobody waits for the answer.                       *)
DoneUnasked(s) ==
  /\ \/ pc["provision"][s] = "cutDeploy" /\ deployed' = deployed \cup {s}
     \/ pc["provision"][s] = "cutRemove" /\ deployed' = deployed \ {s}
  /\ UNCHANGED <<tracking, placement, used, holders, at, read, pc, faulted, late, panicked>>

Provision(s) ==
  \/ ProvisionStart(s) \/ ProvisionRefuse(s) \/ Deployed(s) \/ DeployFailed(s)
  \/ ProbeStart(s) \/ ProbeUp(s) \/ ProbeDown(s) \/ ProbeSave(s)
  \/ ProbeAgain(s) \/ ProbeGiveUp(s) \/ ProvisionDropped(s) \/ DoneUnasked(s)

-----------------------------------------------------------------------------
(* The paid-for duration has elapsed. *)
Expire(s) ==
  /\ pc["expiry"][s] = "armed"
  /\ Goto("expiry", s, "popped")
  /\ UNCHANGED <<tracking, placement, used, holders, at, read, deployed, faulted, late, panicked>>

(* finish_function, run under the lock by the expiry and by a provision    *)
(* call that gave up: remove the function if there is one to remove ...    *)
FinishStart(k, s) ==
  /\ pc[k][s] = FinishFrom(k)
  /\ Acquire(k, s)
  /\ Goto(k, s, IF tracking[s] \in Removable THEN "removing" ELSE "settling")
  /\ UNCHANGED <<tracking, placement, used, at, read, deployed, faulted, late, panicked>>

Removed(k, s) ==
  /\ pc[k][s] = "removing"
  /\ deployed' = deployed \ {s}
  /\ Goto(k, s, "settling")
  /\ UNCHANGED <<tracking, placement, used, holders, at, read, faulted, late, panicked>>

(* ... a failed removal is kept for the answer and does not stop the rest ... *)
RemoveFailed(k, s) ==
  /\ pc[k][s] = "removing"
  /\ deployed' \in {deployed, deployed \ {s}}
  /\ faulted' = faulted \cup {s}
  /\ Goto(k, s, "settling")
  /\ UNCHANGED <<tracking, placement, used, holders, at, read, late, panicked>>

\* Mutant of FinishSettle: a function is finished whatever its state.
FinishSettleTwice(k, s) ==
  /\ pc[k][s] = "settling"
  /\ SaveFinished(s)
  /\ Goto(k, s, "closing")
  /\ UNCHANGED <<placement, used, holders, at, read, deployed, faulted, late, panicked>>

(* ... then close the record ... *)
FinishSettle(k, s) ==
  /\ pc[k][s] = "settling"
  /\ tracking[s] \in Finishable
  /\ SaveFinished(s)
  /\ Goto(k, s, "closing")
  /\ UNCHANGED <<placement, used, holders, at, read, deployed, faulted, late, panicked>>

(* ... unless there is nothing left to finish ... *)
FinishNothing(k, s) ==
  /\ pc[k][s] = "settling"
  /\ tracking[s] \notin Finishable
  /\ Release(k, s)
  /\ Goto(k, s, "failed")
  /\ UNCHANGED <<tracking, placement, used, at, read, deployed, faulted, late, panicked>>

(* ... read it back, which a bid may have overwritten by then ... *)
FinishRead(k, s) ==
  /\ pc[k][s] = "closing" /\ tracking[s] = "finished"
  /\ at' = [at EXCEPT ![s] = placement[s]]
  /\ read' = [read EXCEPT ![s] = used[placement[s]]]
  /\ Goto(k, s, "crediting")
  /\ UNCHANGED <<tracking, placement, used, holders, deployed, faulted, late, panicked>>

FinishOverwritten(k, s) ==
  /\ pc[k][s] = "closing" /\ tracking[s] # "finished"
  /\ Release(k, s)
  /\ Goto(k, s, "failed")
  /\ UNCHANGED <<tracking, placement, used, at, read, deployed, faulted, late, panicked>>

(* ... and give the replica back; set_used asserts that no counter goes    *)
(* below zero before it writes, and a panic drops the permit as well.      *)
FinishCredit(k, s) ==
  LET enough == \A r \in Resources : read[s][r] >= Demand[s][r]
      rest   == [r \in Resources |-> read[s][r] - Demand[s][r]]
  IN
  /\ pc[k][s] = "crediting"
  /\ used' = IF enough THEN [used EXCEPT ![at[s]] = rest] ELSE used
  /\ panicked' = IF enough THEN panicked ELSE panicked \cup {s}
  /\ read' = [read EXCEPT ![s] = Nothing]
  /\ Release(k, s)
  /\ Goto(k, s, IF enough THEN "credited" ELSE "failed")
  /\ UNCHANGED <<tracking, placement, at, deployed, faulted, late>>

Finish(k, s) ==
  \/ FinishStart(k, s) \/ Removed(k, s) \/ RemoveFailed(k, s)
  \/ FinishSettle(k, s) \/ FinishNothing(k, s)
  \/ FinishRead(k, s) \/ FinishOverwritten(k, s) \/ FinishCredit(k, s)

-----------------------------------------------------------------------------
Resting == {"idle", "done", "credited", "failed", "cut", "cutDeploy", "cutRemove"}

(* Every task is over or was never started. *)
Quiescent ==
  /\ \A k \in Kinds, s \in Slas : pc[k][s] \in Resting
  /\ UNCHANGED vars

Next ==
  \/ \E s \in Slas, n \in Nodes : Bid(s, n)
  \/ \E s \in Slas : Pay(s) \/ Provision(s) \/ Expire(s)
  \/ \E k \in Finishers, s \in Slas : Finish(k, s)
  \/ Quiescent

(* A call may never come, but a task that was started is run: the runtime  *)
(* polls it, the semaphore serves its queue in order, the sleep elapses,   *)
(* OpenFaaS answers, and the backoff runs out of time.                     *)
Fairness ==
  \A s \in Slas :
    /\ WF_vars(PayConfirm(s) \/ PayOverwritten(s) \/ PayAccount(s) \/ PayArm(s) \/ PayReturn(s))
    /\ WF_vars(Expire(s))
    /\ WF_vars(Deployed(s) \/ DeployFailed(s))
    /\ WF_vars(ProbeStart(s) \/ ProbeUp(s) \/ ProbeDown(s) \/ ProbeSave(s)
               \/ ProbeAgain(s) \/ ProbeGiveUp(s))
    /\ SF_vars(ProbeGiveUp(s))
    /\ WF_vars(Finish("provision", s))
    /\ WF_vars(Finish("expiry", s))

Spec == Init /\ [][Next]_vars
FairSpec == Spec /\ Fairness

-----------------------------------------------------------------------------
TypeOK ==
  /\ tracking \in [Slas -> Stages]
  /\ placement \in [Slas -> Nodes \cup {NoNode}]
  /\ used \in [Nodes -> [Resources -> Nat]]
  /\ holders \in SUBSET (Kinds \X Slas)
  /\ at \in [Slas -> Nodes \cup {NoNode}]
  /\ read \in [Slas -> [Resources -> Nat]]
  /\ pc \in [Kinds -> [Slas -> Labels]]
  /\ deployed \in SUBSET Slas
  /\ faulted \in SUBSET Slas
  /\ late \in SUBSET Slas
  /\ panicked \in SUBSET Slas

(* Where a pay call is once it has charged its SLA. *)
Accounted == {"accounted", "arming", "done", "cut"}

(* A finishing task has given the charge back. *)
Credited(s) == \E k \in Finishers : pc[k][s] = "credited"

(* s weighs on the counters: from set_used in the pay call to set_used in  *)
(* finish_update_resources.  A charge stays for ever if the latter panicked *)
(* or if a late bid covered the record before it was given back.            *)
Charged(s) ==
  /\ pc["pay"][s] \in Accounted
  /\ \/ tracking[s] \in Finishable
     \/ \E k \in Finishers : pc[k][s] \in {"closing", "crediting"}
     \/ s \in panicked
     \/ s \in late /\ ~Credited(s)

Entry(s) == IF Charged(s) THEN at[s] ELSE IF Credited(s) THEN Released ELSE Free

Ledger == INSTANCE ReservationLedger WITH ledger <- [s \in Slas |-> Entry(s)]

(* The node implements the ledger: whatever the tasks' interleaving, a     *)
(* payment is charged once, where it was checked, and given back once.     *)
ImplementsLedger == Ledger!Spec

(* The counters are exactly the demands of the functions that are paid for *)
(* and not finished, and of those whose record a late bid covered: no      *)
(* update of resource_tracking is ever lost.                               *)
Accounting == Ledger!Balanced

(* The assertions of set_used never fail: a release finds its own charge.  *)
NoPanic == panicked = {}

(* One replica of everything paid for fits on its node, provided no SLA    *)
(* asks for zero replicas: bids may be stale, the check under the lock not.*)
Capacity ==
  (\A s \in Slas : MaxReplica[s] > 0) =>
    \A n \in Nodes, r \in Resources :
      used[n][r] = 0 \/ used[n][r] < Available[r]

(* A function that OpenFaaS runs and no record calls provisioned or live,  *)
(* so that nobody will remove it, is explained: a backend call of its SLA  *)
(* answered with an error, the connection of the market broke while        *)
(* OpenFaaS was being asked to deploy it, or a late bid covered its record.*)
(* A handler dropped anywhere else, and no interleaving of provisioning,   *)
(* probe, give-up and expiry, leaves one behind.                           *)
OrphanOnlyAfterFault ==
  \A s \in deployed :
    tracking[s] \notin Removable =>
      s \in faulted \/ pc["provision"][s] = "cutDeploy" \/ s \in late

(* What the node says is provisioned or live exists in OpenFaaS, except    *)
(* while the task that removed it is about to close the record, or when    *)
(* that task was a provision call dropped before it could.                 *)
RunningIsDeployed ==
  \A s \in Slas :
    tracking[s] \in Removable =>
      \/ s \in deployed \/ \E k \in Finishers : pc[k][s] = "settling"
      \/ pc["provision"][s] = "cutRemove"

(* A function moves forward in its life, one state at a time: a late probe *)
(* answer does not revive a finished one.  Only a bid takes a record back, *)
(* to 'proposed'; if the function had been paid for, it stays there: no    *)
(* call, probe or expiry still under way moves it again.                   *)
Follows(from, to) ==
  \/ from = to
  \/ <<from, to>> \in {<<"none", "proposed">>, <<"proposed", "paid">>,
                       <<"paid", "provisioned">>, <<"provisioned", "live">>}
  \/ from \in Finishable /\ to = "finished"

LifecycleOrder ==
  [][\A s \in Slas :
       /\ Follows(tracking[s], tracking'[s]) \/ (tracking'[s] = "proposed" /\ s \in late')
       /\ s \in late => tracking'[s] = "proposed"]_<<tracking, late>>

(* Every paid function is finished in the end and its room given back,     *)
(* unless a late bid covers its record: that room is never given back.     *)
EveryPaymentEnds ==
  \A s \in Slas :
    tracking[s] = "paid" ~> (tracking[s] = "finished" /\ ~Charged(s)) \/ s \in late

(* Every provision call that reached the backend returns, if it is not     *)
(* dropped.                                                                *)
ProvisionReturns ==
  \A s \in Slas : pc["provision"][s] = "deploying" ~> pc["provision"][s] \in Resting

(* All the replicas the node told OpenFaaS it may start fit on the node:   *)
(* the promise the satisfiability check is about.                          *)
ReplicasFit ==
  \A n \in Nodes, r \in Resources :
    Ledger!Total(LAMBDA s : MaxReplica[s] * Demand[s][r],
                 {s \in Slas : Charged(s) /\ at[s] = n}) <= Available[r]
-----------------------------------------------------------------------------
(* The inductive invariant behind the theorems of FunctionLifeProofs.      *)

(* A record names a node from the bid on, and so does the copy of a task;  *)
(* the two agree until a late bid.                                         *)
Placed ==
  \A s \in Slas :
    /\ tracking[s] # "none" => placement[s] \in Nodes
    /\ pc["pay"][s] \in Accounted \cup {"saved", "reserved"} => at[s] \in Nodes
    /\ tracking[s] \notin {"none", "proposed"} => at[s] = placement[s]

(* The permit is unique and belongs to the task in its critical section. *)
LockInv ==
  /\ \A t, u \in holders : t = u
  /\ \A k \in Kinds, s \in Slas : <<k, s>> \in holders <=> pc[k][s] \in Critical

(* Each kind of task keeps to its own labels, and starts after the payment. *)
TaskInv ==
  \A s \in Slas :
    /\ pc["pay"][s] \in Accounted \cup {"idle", "saved", "reserved", "failed"}
    /\ pc["provision"][s] \notin {"saved", "reserved", "accounted", "arming", "armed", "popped"}
    /\ pc["expiry"][s] \in {"idle", "armed", "popped", "removing", "settling", "closing",
                            "crediting", "credited", "failed"}
    /\ pc["provision"][s] # "idle" => pc["pay"][s] = "done"
    /\ pc["expiry"][s] # "idle" => pc["pay"][s] \in {"arming", "done", "cut"}

(* How the state of a function and the tasks working on it go together; a  *)
(* late bid takes the record away from all of them.                        *)
StageInv ==
  \A s \in Slas :
    /\ tracking[s] \notin {"none", "proposed"} => pc["pay"][s] \notin {"idle", "failed"}
    /\ pc["pay"][s] \notin {"idle", "failed"} => tracking[s] \notin {"none", "proposed"} \/ s \in late
    /\ s \in late => tracking[s] = "proposed" /\ pc["pay"][s] # "idle"
    /\ pc["pay"][s] \in {"saved", "reserved"} => tracking[s] = "paid" \/ s \in late
    /\ pc["provision"][s] = "deploying" => tracking[s] = "paid" \/ s \in late
    /\ \A k \in Finishers :
         /\ pc[k][s] = "removing" => tracking[s] \in Removable \/ s \in late
         /\ pc[k][s] \in {"closing", "crediting", "credited"} =>
              (tracking[s] = "finished" \/ s \in late) /\ s \notin panicked
         /\ pc[k][s] \in {"closing", "crediting"} => ~Credited(s)
    /\ s \in panicked => (tracking[s] = "finished" \/ s \in late) /\ pc["pay"][s] \in Accounted
    /\ tracking[s] = "finished" =>
         \/ Credited(s) \/ s \in panicked
         \/ \E k \in Finishers : pc[k][s] \in {"closing", "crediting"}

(* Counters read under the lock are still current when they are used, and  *)
(* so is the outcome of the check.                                         *)
SnapshotInv ==
  \A s \in Slas :
    /\ pc["pay"][s] \in {"saved", "reserved"} =>
         read[s] = used[at[s]] /\ Satisfiable(used[at[s]], s)
    /\ \A k \in Finishers : pc[k][s] = "crediting" => read[s] = used[at[s]]

(* A function that exists without being recorded as such is explained,     *)
(* also while a finishing task is past its removal.                        *)
BackendInv ==
  \A s \in deployed :
    \/ s \in faulted \/ pc["provision"][s] = "cutDeploy" \/ s \in late
    \/ /\ tracking[s] \in Removable
       /\ \A k \in Finishers : pc[k][s] # "settling"

(* The tasks of a fog node agree with each other at every await: the lock, *)
(* the snapshots taken under it, the tracking table and the backend.       *)
IInv ==
  /\ TypeOK /\ Placed /\ LockInv /\ TaskInv /\ StageInv
  /\ SnapshotInv /\ BackendInv /\ RunningIsDeployed
=============================================================================
