# TLA+ models of the fog market

The repository is a marketplace for functions on a fog: clients put SLAs on a
*market*, fog nodes arranged in a tree bid on them, the market elects a winner,
pays it and later asks it to provision the function on its OpenFaaS. Both
servers are in `src/manager` (Rust, `market` and `fog_node`, with the crates
`model`, `openfaas`, `helper`, `kube_metrics`). This directory holds TLA+
modules that model the servers, TLC configurations that check them on small
instances, and theorems with proofs that TLAPS checks.

## Inventory

| Part | State it keeps | Operations | What makes it correct |
|---|---|---|---|
| Function life cycle (`fog_node/src/service/function.rs`, `service/function_life/mod.rs`) | a one-permit semaphore, one task per request and per expiry | pay, provision, probe, finish | counters, tracking table and OpenFaaS agree whatever the interleaving; a payment is charged once and released once; it ends |
| Function tracking (`repository/function_tracking.rs`) | map SLA -> Proposed, Paid, Provisioned, Live, Finished | `insert`, `save_*`, `get_*` | states advance in order; nothing but another bid takes a record back |
| Resource tracking (`repository/resource_tracking.rs`) | used and available cpu and ram per Kubernetes node | `get_used`, `get_available`, `set_used` | used is the sum of what is paid for; never negative, never beyond what is available |
| FaaS backend (`repository/faas`, crate `openfaas`) | the functions in OpenFaaS | deploy, probe, delete over HTTP | no function outlives its SLA |
| Cron (`repository/cron.rs`) | queue of task entries, sleeping tasks | `add_oneshot`, `add_periodic` | each expiry fires once; the queue holds what is still to run |
| Bidding (`fog_node/src/service/auction.rs`) | two counters of bids in flight | `bid_on`, `compute_bid`, `check_in_flight` | bids only where there is room; the price follows the load; a bounded number of bids a second |
| Placement strategies (`service/function_life/*_placement.rs`, `maxcpu.rs`, `mincpurandom.rs`) | none | relay a bid request to the neighbours, filter on latency, gather proposals | every reachable node with room is asked once, never the sender; no more proposals than asked for; nobody left with a proposal the market never hears of |
| Registration on nodes (`service/node_life.rs`, `repository/node_query.rs`, `repository/node_situation.rs`) | children, parent, own address | register, relay up to the market, retry with backoff | every node ends up registered; whom the market lists, its parent knows |
| Latency (`repository/latency_estimation`, `model/src/domain/moving_median.rs`, ...) | ring of lost packets, moving median per neighbour | ping, update, read | median and quartiles of the last window, from both ends |
| Registry (`market/src/repository/fog_node.rs`, `service/fog_node_network.rs`) | map node -> parent, children, record | `append_root`, `append_new_child`, `check_tree`, `get`, `update` | one root; every child listed has a record that names its parent |
| Auction and payment (`market/src/service/auction.rs`, `service/faas.rs`, `repository/auction.rs`, `repository/bid_tracking.rs`, `repository/node_communication.rs`) | `accepted_bids` in the registry's records, map SLA -> node | PUT of an SLA, provisioning, listing | second price, one charge per SLA, provisioning where it was paid, every transaction listed |
| Client and load (`testbed/iot_deployment`, `iot_emulation`, `openfaas-functions`) | counters of outcomes, one cron per chain | reserve, provision, chain, register, ping | what is pinged is a whole chain that still runs; the report counts each chain once |

Interactions: a client PUTs an SLA on the market, which asks one fog node for
bids (`/api/bid`); that node bids itself and relays the request to its
neighbours. The market elects a winner, sends it `/api/accept/<id>` (pay) and
notes the transaction in the winner's record. The client then asks the market to
provision, which forwards `/api/provision/<id>`; it links the functions of a
chain and has the load generator ping the first of them. Fog nodes register
through their parents up to the market. Inside a fog node the requests and the
expiry timers meet at the semaphore, in the tracking table and in the counters;
in the market, requests meet in the registry's map.

Hard behaviours: state read before an `await` and used after it (bids, probes,
the record of the winner); the expiry racing provisioning and the probe; a
backend that answers with an error after having done its work; registrations
that overlap in a tree that is checked and undone step by step; answers that are
lost after the node was charged; handlers dropped where they wait because their
caller is gone; requests for bids that come back after the payment; retries that
overlap the call they repeat; restarts of nodes whose state is in memory;
timers that pop each other's entries; clocks read before the counters they
choose. `PROJECT.json` lists each of them at its line with the properties that
cover it.

## Modules

### FunctionLife (and ReservationLedger)

One fog node. Variables: `tracking` and `placement` are the tracking table,
`used` the counters, `holders` the permit of `Function::lock`, `at` and `read`
the local copies of the record's node and of its counters held across an await,
`pc` the position of each task, `deployed` what exists in OpenFaaS. `faulted`,
`late` and `panicked` are history: which SLAs met a backend error, a bid after
their payment, or a failed assertion. An action is what a task does
between two points where others can see it, so the check, the charge, the
spawning of the expiry and the return of a pay call are separate actions under
the permit, and a probe's answer is saved in a later action than it was given.
The guarded `save_*` writes, the early returns, the collected errors of
`finish_function` (a failed removal does not stop the release) and the panic
of `set_used` (which drops the permit) are all there.

The pay and the provision call arrive at most once per SLA: the market draws a
fresh identifier per PUT (`model/src/view/sla.rs`), does not retry, and the
client of the testbed does not either. A request for bids may come back, over a
circle of neighbours or because a handler ran on when its answer was lost, and
`FunctionTracking::insert` overwrites whatever record there is
(`function_tracking.rs:42-44`): `Bid` does so at any time, `Returning` bounds the
SLAs it happens to. That is why a pay call reads its payment back
(`PayConfirm`, `PayOverwritten`) and a finishing task its record (`FinishRead`,
`FinishOverwritten`). A bid that comes after the payment strands the function: its
record is 'proposed' for ever, the expiry has nothing to finish, so the room
stays charged and a running function stays in OpenFaaS. The properties say so
(`late`) and say that nothing worse happens.

A handler whose caller is gone is dropped at the await it is in, with its permit
(`PayDropped`, `ProvisionDropped`); whatever it asked of OpenFaaS may still be
done, now or later (`DoneUnasked`). Dropped while deploying, it leaves a record
'paid' and perhaps a function nobody will remove, without any error. The pay call
waits only for the lock and, after it spawned the expiry, for the queue of the
cron. The expiry is a task of the cron and has no caller.

OpenFaaS answers a
deployment or a removal with success or with an error that says nothing of the
effect; a probe that succeeds saw the function, a probe that fails means
nothing. Process crashes of a fog node are left to Market, since nothing is
persisted.

`ReservationLedger` is what the node promises with none of this machinery: an
SLA is reserved once, on a node where all its replicas fit, and released once,
and the counters change by one replica's demand. FunctionLife implements it
under the mapping `Entry`: an SLA is on the ledger from the write of the
counters in the pay call to their write in the finishing task, which never comes
when a late bid covers the record first.

Resources are natural numbers, in place of rationals of bytes and cpu ratios;
the check is strict, as in the code. The Kubernetes node of a bid is any that
passes the check, since the code iterates over a hash map.

### Registry

The market's tree. Each access takes the lock of the map anew, so `Link`,
`Insert`, the reads of `check_tree` one by one, and the undo are separate
actions of a registration `c`. `check_tree` is kept as it is written: the stack
of nodes to visit, two passes over the children of one node, records read twice
and unwrapped. The undo finds the child counting from the back and removes that
index from the front, as the code does. A panic ends the call with an error for
the caller. `told` is the answer each fog node remembers.

A call is one HTTP registration, a retry another call of the same subject. A
node waits for an answer before it calls again, but a broken connection is an
error like any other to it (`node_query.rs:64-71`): `Break` puts the call among
the `lost` ones, and the retry then overlaps the handler of the older call, which
runs on or is dropped where it waits for the lock (`Dropped`). A handler dropped
half-way (`cut`) leaves a child listed without a record or a root that was not
counted; one dropped while it walks the tree has nothing left to undo (`left`).
`AtOnce` bounds how many calls are in progress, `Fragile` which of them may lose
their connection.

### Market

A PUT from the call for bids to its answer, the winner's side of the accept
request as the market can observe it, the read and the write of the winner's
record, and the forwarding of a provisioning. The registry appears as the set of
nodes with a record and the transactions in it: `Reregister` and `Unregister` are
the effects Registry shows a registration can have on it. `Restart` clears a
node's tables and leaves OpenFaaS running. An accept request whose answer was
lost may have been executed before, or be executed later, or never.
`charged`, `unanswered` and `dropped` are history. The answers a call for bids
can have are a constant, `Tenders`, so nothing is assumed on which nodes bid.
The auction is the default build's (without the feature `random`).

### Overlay, AuctionRelay, LimitedRelay (and CallForBids)

One call for bids, from the market's request to the node the client named until
the market has its answer or an error. `Overlay` is what the builds share: the
neighbours of a node (its parent and the children that registered), the
estimates of latency, the filter on the accumulated latency and the requests a
request gives rise to. A request is named by the path it took, so that several
requests can reach one node, as they would when neighbours form a circle; the
market is the empty path.

`AuctionRelay` is the build `auction`: a node bids and asks its neighbours at
the same time (`join`, `join_all`) and answers when all are done, with what
there is. A neighbour that errs is passed over. An error of the node's own bid
is its answer, and the neighbours' proposals are discarded
(`auction_placement.rs:143`). A failed assertion on the price unwinds the
handler together with the requests it made, and leaves a proposal when it comes
after the insertion (`service/auction.rs:364-369`). `LimitedRelay` has the
builds `edge_first`, `edge_furthest`, `edge_ward` and `mincpurandom`, chosen in
the initial state. In the first three one candidate is asked after the other and
the first proposal ends the search. The comment at
`edge_ward_placement.rs:40-42` tells of children asked first; the code bids
itself first and then asks its parent only, whatever the latency, and so does
the model.

In `mincpurandom` a node is asked for a number of proposals: the market asks for
two (`Wished`; `node_communication.rs:56`). The node's own proposal counts for
one, the rest is spread over the neighbours, rounded up, and as many neighbours
are drawn as proposals are missing. A request carries the number it asks for
(`quota`; `nb_propositions_required`). They are asked all at once
(`try_join_all`), so an error of one drops the requests to the others and is the
node's answer. The sample is drawn before the filter: it may hold the sender or
neighbours too far away, who are then not asked and not replaced. Because shares
are rounded up, `AtMostWanted` holds for the two proposals the market wishes and
not for any number: of three wished, two neighbours can be asked for two each.

A request is an HTTP call without a deadline: it can fail before it arrives
(`Unasked`), its answer can be lost at any moment (`Lose`), and then the handler
at the callee goes on or is dropped with the requests it made (`Cancel`).
`faults` is history. Whether a node has room is a choice at each bid, which
covers whatever FunctionLife does meanwhile. `bids` relates the node that
holds a proposal in its list to the request the proposal was made for.

Neighbours and estimates do not change during the call. An estimate is one
number, for the order of the candidates as for the filter; in the code the
filter adds the uncertainty, a root of a sum of squares, to the median. The
losses multiply from zero (`AccumulatedLatency::default`) and stay zero, so the
estimated transfer time is linear in the latency and a bound on one is a bound
on the other, except for inputs of size zero, where it is not a number and
filters nothing (`NoInput`). A node is not its parent's parent, nor its own.

`CallForBids` is the promise to the market: one outcome, an answer or an error,
and every node in the answer remembers its proposal. Both relays implement it.

### BidDesk

Where a fog node makes its price. `tasks` is the cron's queue, an entry named by
its SLA, `created` the stamps, `timer` and `deadline` the spawned tasks, `count`
the two counters of the limiter, `now` and `second` the clocks each bid has
read. Bids interleave between the reading of the clock, the walk of the queue
and the three accesses of the limiter. The walk is one action: the mutex of the
queue is held and the look-ups in the tracking table do not wait. Payments and
terminations hold the permit of FunctionLife, so one payment is under way at a
time and nothing finishes meanwhile. Spawning the timer and pushing the entry are
separate, as `add_oneshot` makes them: a timer of no duration can fire before its
own entry is there and take another's. The builds `maxcpu` and `mincpurandom`
price after the limiter, the others before; the first step of a behaviour chooses.

A timer takes the front entry, whosever it is. `EntryKept` says what that
costs: an SLA with time left is missing from the queue only if one of a
*shorter* duration ended, so a node whose functions all last equally long prices
exactly. `PriceBracketed` draws the consequence for the price. The limiter
compares the count it found, before its own increment, with the maximum: a
second admits one more than configured. `InFlightBound` is that bound, for the
seconds in which nobody crossed: `disturbed` is history and holds the seconds
whose counter was touched by a request that had read the clock in another
second. A counter is only ever reset by a request in a second of the other
parity, so bids of two seconds apart share a counter when the second between them
was idle; the bound covers that, since such a counter starts too high, never too
low.

Time is in whole seconds, prices are integers in units of the electricity price;
the build with quadratic rates is the one modelled. The push is one action with
its stamp, which in the code is taken just before the lock.

### MovingMedian and Neighborhood

`MovingMedian` holds the estimators as operators on one record: the ring of the
last samples with its cursor, the same samples in order, the ring of losses.
`Neighborhood` is the life of the nodes around them: a node registers with its
configured parent, which notes it among its children *before* it relays the
registration to its own parent, up to the root and the market. `relay[y][n]` is
how far `y` is with the registration of `n`, its own for `y = n`. Each hop
retries with backoff and gives up; the node itself starts anew for ever
(`GiveUp` is a relay's only). Connections break with the handler running on or
dropped, the call to the market fails before or after its effect or is undone by
the check Registry models, and nodes restart with nothing but their
configuration. Handlers of one registration at one node repeat the same steps and
appear as one.

A round pings the neighbours there are when it starts. A round of ten pings
takes ten seconds at most and rounds are fifteen apart, so rounds do not overlap.

What the model brings out and the properties state as it is: nobody registers
again with a parent that restarted, so such a parent has lost its children until
they restart (`forgotten`), and no bid reaches them (`ListedIsLinked` excludes
them).

`Cuts` counts from both ends: the median has half of the window on either side
at most, the first quartile a quarter below it and three quarters above it at
most, the third the reverse, and the median lies between the two, so that
`interquantile_range` is never negative. Of windows of 4k+1 samples only the median
and the order are claimed. There the code averages at both quartiles, and the
average is one place too low at the third (`moving_median.rs:99-101`): of five
samples the first quartile lies between the first and the second, the third
between the third and the fourth. The tests read quartiles of six and of eleven
samples only. A window passes through these sizes while it fills; full, with fifty
samples (`main.rs:316`), it is of the size 4k+2, as in the run.

The ratio of lost packets divides two `u16` (`latency_estimation.rs:181`); as all
ten lost is excluded before, every ratio in the ring is zero. No property is
about that; the ring of ratios is there for `WindowIsRecent`, by which it turns
with that of the samples although their cursors move at different times.

### Pipeline

The client of the testbed, `registerNewFunctions` to `doRequest`, and the load
generator it registers with. A goroutine per chain reserves its functions one
after the other (the charge of the node and the answer are separate actions),
provisions them all at once, tells each the address of the next, registers the
chain and adds to a counter the goroutines share. `deaf`, `raced` and `missed`
are history. What is modelled as it is written: reservations made before one
failed stay paid; a reconfiguration answered with a status other than 200 ends
the loop without an error (`ReconfigureBad`), so that chain is pinged although
not linked; the client sends `initialWaitMs` and the generator reads
`intialWaitMs`, so the wait is zero (`InitialWait`). With the wait read, pings
would go on after the first function is gone, as the mutant of `PingsLand`
shows. `PingsLand` says what the client's bookkeeping of the remaining time
buys: pings miss only if more than `StopOverhead` went by between the first
payment and the registration. The market and the nodes appear by what they
answer and by the duration after which a function is gone.

## Runs

| Run | Question | Bounds and why they are enough |
|---|---|---|
| `life_contended` | Do counters, tracking and backend agree, is there room for what is paid? | three SLAs, two of which exclude each other, on one Kubernetes node: two payments compete while a third function's expiry, probe and removal interleave; any handler may be dropped, the third SLA may be bid on again at any time; the two heavy SLAs are alike and symmetric |
| `life_fair` | Does the node implement the ledger, does every payment end and every provision return? | two SLAs, two Kubernetes nodes, one SLA may be bid on again, on either node; no symmetry |
| `life_replicas` | Do all the replicas the node allowed fit on it? **Violated** | two SLAs of two replicas |
| `registry_overlap` | What survives overlap, and does the tree hold without? | two calls at a time over two rival roots, a child, and a grandchild whose first call may lose its connection and overlap its second, and which moves up with a third; behaviours without overlap are among them. No circle of listed children: see below |
| `registry_broken` | Does the tree hold when they overlap? **Violated** | two calls at a time over a root, two children, a repeated call, a grandchild and a rival root |
| `market_churn` | Are prices, charges, the list and the forwarding right while nodes come and go? | two SLAs, three nodes, ties, one bidder and none; one registration, removal or restart at any moment (the proofs cover any number) |
| `relay_auction` | Is everybody in reach asked once, can proposals get lost only by failures, does the call end? | five nodes in a tree with the client's node in the middle, one node out of reach by latency; every request may fail, be lost or be dropped |
| `relay_limited` | Does nobody get more than asked for, in the build's order, is nobody left with a proposal, does the call end? | four builds over three nodes in a circle (a node that moved is still a child of its old parent), one link not measured yet; a request may pass a node twice; two proposals wished, so that a share is to be spread |
| `bid_desk` | Do queue, price and limiter hold while bids, payments and timers cross? | three SLAs, two of one duration and one over at once, limit one, three seconds: a counter is used for two seconds and a timer takes another's entry |
| `neighborhood` | Does everybody get registered and known to its parent, do the windows hold what was measured? | chain of three, one fault (two were tried for the invariant of the proofs), a window of six, which passes through the sizes 4k, 4k+1 and 4k+2 and wraps at the one that the deployed window of fifty has; two latencies, nine or all ten packets lost; one link measured, since windows do not meet |
| `pipeline` | Is what is pinged whole and there, and the report right? | chains of two functions and of one, duration two, one instant of margin, five instants |
| `market_listed` | Is every successful transaction listed? **Violated** | two SLAs won by one node, nothing else happening |

Deadlock is not checked where the system may stop: all calls answered, all SLAs
finished, the clock at its bound. The inductive invariants of the proofs were
checked with TLC on these instances before they were proved; as theorems they
are not repeated in the runs.

The three violated runs are disagreements between the code and what its own
comments or checks say; `PROJECT.json` quotes them.

- *Replicas.* Admission counts `max_replica` replicas, the charge counts one,
  and OpenFaaS is told it may start all of them. `Capacity` is what does hold:
  one replica of everything that is paid fits.
- *The tree.* A registration is undone step by step while another one reads the
  tree. At rest a child may be registered without a root. What does hold: there
  are never two roots at rest, unless the handler of a claimant was dropped before
  it counted them or undid itself, and a child listed without a record belongs to
  a node that was told of an error (`DanglingKnows`) or lost its record to the
  undo of a call it had given up on: a node told 'ok' by its retry can be struck
  off by the older call, and will not register again. Registrations that come one
  at a time do leave a tree, without circles (`TreeUnlessCrossed`), unless a handler was cut half-way or a node
  moved: naming another parent makes `check_tree` fail even one at a time, so its
  move is undone and it stays listed under the first; `registry_overlap` includes
  such a node.
- *The list.* `pay_for_function` writes back a copy of the record.
  `ListedIsPaid` holds: what is listed was paid there.

## Fairness

FunctionLife: a call may never come, so nothing is assumed of `Bid`, of the
start of a payment or of a provisioning. A task that was started is polled by the
runtime (weak fairness on its actions); the semaphore serves its waiters in
order and every critical section ends, so weak fairness of the finishing tasks
is enough once the holders' actions are fair; the sleep elapses; OpenFaaS
answers; the backoff has a maximal elapsed time, hence strong fairness on
giving up, which the retry loop enables again and again. The deployment request
has no timeout (`default_api.rs:43-69`), so "OpenFaaS answers" is an assumption,
not a fact of the code.

Nothing is assumed of a drop, nor of what a dropped request still does.

Registry: a call that came is run to its end or dropped. Market: the tasks of the market
are run and a fog node answers what it was asked, which is what
FunctionLife shows of a node. Nothing is assumed of `ReplyLost`.

Neighborhood: a registration that can take a step takes one, as weak fairness of
`Relaying(n)` for each node; the retry loops and the handlers are tasks the
runtimes poll. Giving up is not assumed, and faults are finitely many
(`MaxFaults`): under faults for ever nobody is registered for good. BidDesk and
Pipeline have safety properties only and assume nothing.

Relays: a node that was asked bids, answers and takes answers, and a request that
is due arrives or fails, each as weak fairness of the action for some request:
there are finitely many in a call. `Lose` and `Cancel` are never assumed; that a
request which has no deadline is answered in the end follows from the others.

## Proofs

`FunctionLifeProofs`, `RegistryProofs`, `MarketProofs`, `AuctionRelayProofs`,
`LimitedRelayProofs`, `BidDeskProofs`, `NeighborhoodProofs` and `PipelineProofs`
hold for every value of the constants, under the assumptions
`ConstantsAssumption`, `RegistryAssumption`, `MarketAssumption`,
`OverlayAssumption`, `BuildsAssumption`, `BidDeskAssumption`,
`NeighborhoodAssumption`, `WindowAssumption` and `PipelineAssumption`, which
state types and finiteness and are evaluated by TLC.

*FunctionLife.* `TypeOK` is not inductive: that counters stay natural needs the
snapshots taken under the permit to be current (`SnapshotInv`), which needs the
permit to be unique (`LockInv`), which needs each kind of task to keep to its
labels (`TaskInv`) in step with the tracking table (`StageInv`). `BackendInv`
adds OpenFaaS: what exists is recorded as existing, or met an error, a connection
that broke while it was deployed, or a late bid. `Placed` has the copy of the
node agree with the record until such a bid, and `StageInv` says what one leaves: a
record 'proposed' that no task of the SLA can move any more. `IInv` is
their conjunction; one lemma per conjunct, one step per action. From it follow
the types, mutual exclusion, `OrphanOnlyAfterFault`, `RunningIsDeployed`,
`LifecycleOrder`, `Capacity` and the refinement of the ledger: of all actions
only `PayAccount` and `FinishCredit` change an entry, and they are exactly a
reservation and a release. `BalanceInv` adds that a counter is the sum of the
demands charged to its node, which `Accounting` says with a recursive function:
`Accounting` and `NoPanic` follow once that function is known to exist. The lemmas
on it (it exists over every finite set, does not depend on the element it
removes first, grows with the set) are proved from a smallest finite set at which
they would fail, as an induction theorem over data is out of reach.

*Registry.* `OneSettledRoot` is the argument for a single root: of two roots one
was inserted by a call that has still to count the roots or has decided to
undo, or was dropped there, and a call that counts sees both. `ToldTrue` and
`OneCallPerNode` carry `DanglingKnows`: only the undo of a node's own call removes
its record, and that undo tells it, or is of a call whose connection had broken
(`Undone`); of the others a node has one at a time. Lists are reasoned about through `ListEdits`, the members of
lists after an append or a removal. `TreeUnlessCrossed` needs no paths:
`ByCall` (each record, and each child in a list, was put there by a call that
names the same parent) holds always, so where no node moved a node is listed in
one place only. `TreeInv` adds, while calls come one at a time, that a child in a
list has a record naming that parent, but for the node of the call in progress
(`Listed`), that there is a root (`RootThere`), and that the walk has only such
nodes before it (`WalkInv`). So the walk rejects nothing, and what is
undone is a second root, which nobody lists. The property also has what
`check_tree` does not look for, that every node leads to the root (`LedToRoot`: no
set of nodes holds the parents of all its members): a node hung up for the
first time has nobody below it, a root that registers again stays where it is, and a
claimant that is dropped has no children (`Lonely`).

*Market.* `WinnerInv` (an SLA has one winner from its election on and only it is
asked), `ChargeInv` (a node is charged exactly when it says so) and `RecordInv`
(records and copies of them hold finished transactions of their own node) are
inductive together with `SecondPrice`, `NoSilentCharge` and `RegistryInv`.

*AuctionRelay.* `ChainInv` is the argument: a request in progress is awaited by
every node on its path, and a proposal is in the list of each node on its path
or still awaited there, unless a request of that path failed (`Broken`). It needs
that requests are made once and only on behalf of one in progress
(`RequestInv`) and that an answer with an error is a fault (`FaultInv`).
`LostOnlyByFault` and the refinement of `CallForBids` follow; the refinement
needs it to know that a node which still bids after the market gave up had been
given up. `AskedOnce` needs `TreeInv`: seen from the node the client named, the
tree has a root there, whatever the parents are, and a request always arrives
from the neighbour towards that root, so a node has one possible caller and a
request one possible path. `RootedIsTree` says where the
hypothesis `IsTree` comes from: parents without a circle, and children that name the
node as their parent, make a tree seen from every node, which is what
`TreeOneAtATime` establishes of registrations one at a time. It fails when a node
has moved. `EveryReachableAsked` rests on
`SpreadInv`: what a request gives rise to is about to be made, was made or
failed, and all on whose behalf a request is made were asked. Of a route whose
end was not asked, take the first node that was not: the one before it was
asked, and its follow-ups include the missing request.

*LimitedRelay.* `RequestInv`: a request is made once, by a node that has neither
ended nor is bidding. `HandInv`: who still bids, or erred, has no proposals in
hand (a node of `mincpurandom` that errs drops those it has), and the market has
none until its call is over. So the market has one outcome, and every bidder in
it remembers its proposal, which is `CallForBids`; it holds for the four builds
alike, as it does not matter who is asked. `ChainInv` is the argument of
AuctionRelay over the set `Way(r)` of the requests on the way of `r`, with one
more part: in `mincpurandom` a fault raises an `Alarm`, an error at a node that
is awaited all the way, so it reaches the market; `NoneLeftBehind` follows.
`AtMostWanted` needs `ShareInv`, for two proposals wished at most: a node of
`mincpurandom` has asked for no more than, with what it holds, makes up its quota.
Shares are rounded up, so this is true of two, where a share is one, and false of
three. `OrderInv` says that a candidate is not asked while another one is awaited, nor
before the one whose turn it is has `Passed`; `InOrder` follows, as the first
request on the way of a proposal was asked in its turn.

*BidDesk.* `EntryKept` is a pigeonhole. `GoneInv`: no more entries are gone than
timers fired. So when a timer takes an entry whose own timer has not fired, some
SLA that did fire is still behind it in the queue, or about to be pushed.
`OrderInv`: no sleep started before the entries in front of its own were
created. Hence the entry taken is at least as old as that other sleep, and has
time left only if its own duration is the longer one. `InFlightBound` rests on
`LimiterInv`: in an undisturbed second the bids counted found different counts,
all below the counter, so those admitted are as many as counts up to the
maximum, at most. `PriceBracketed` compares sums of
weights, CPU times remaining time: over the queue, which is what is asked; over
the functions running, of which the queue holds no others; and over those whose
timer runs, all of which with time left are in the queue unless `EntryKept` names a
shorter one. The lemmas on sums are again proved from a smallest set.

*Neighborhood.* `RelayedIsLinked`: whoever relays a registration, and hence
whoever gets it to the market, is beyond the parent that noted the node. It is
kept by restarts because `forgotten` takes what the parent loses. `WindowInv` is
about the estimators, for every window of four samples and more and every
sequence of samples: the
ring, turned at its cursor, is the last samples (`RingInv`), and the ordered
list and the ring have, for every x, as many samples at most x (`OrderInv`). Ranks
replace sorting: they determine an ordered list, and what inserting, removing and
replacing does to them is arithmetic. `WindowIsRecent` and `Cuts` follow
from ranks: what lies below a sample and above it is bounded by its place
(`BelowBound`, `AboveBound`), and places are arithmetic. `LossInv` keeps the cursors
of the two rings together.

*Pipeline.* `ChainAt` says how far a chain has come at each label of its
goroutine: links are made in order, to functions that run, and registration is
the last thing done, so nothing of a chain changes once it is pinged.
`CronAt` keeps, for a chain whose pings missed, that it was registered more than
the margin after its first payment; that no other ping misses is arithmetic on
the duration the client sent.
`CountInv`: a counter is at most the number of chains that ended so, and equal
to it unless two goroutines met there, which needs that the copy a goroutine
read is current as long as it is alone.

## Only model-checked

- All liveness, which is out of the prover's reach.
- Nothing else: every invariant and every action property a passing run checks,
  and each refinement, is a theorem for every value of the constants. One
  theorem needs a bound, `AtMostWanted` at most two proposals wished, because the
  property is false beyond it.

The modules use recursive functions and no RECURSIVE operator, which is what makes
sums, latencies and ranks provable. Where an argument is an induction, the proof
takes a least counterexample, as an induction theorem that takes a predicate
could not be instantiated.

## Limits of what is checked

- `EveryCallEnds` is not checked on a circle of listed children. It takes nodes
  that name each other as parents, which no configuration of the testbed does;
  `check_tree` has no visited set, so its walk of such a circle would not end.
- `CallEnds` is checked with inputs of positive size. With inputs of size zero the
  latency filter passes everybody (`NoInput`) and over a circle the relay has no
  bound; `AskedOnce` is proved for that case too, over trees.
- `InFlightBound` exempts a second whose counter was touched by a request that had
  read the clock in another one: what a crossing lets in has no bound but the
  number of requests.
- `TreeUnlessCrossed` says nothing of registrations that overlap: that is
  `registry_broken`. The run has one retry that overlaps the call it repeats; the
  theorems have any number.
- In BidDesk a pay handler is not dropped between the spawning of the timer and the
  push of the entry, as FunctionLife has it (`PayDropped`): the timer then takes
  an entry that was not pushed for it.

## Not modelled

- Kubernetes metrics (`kube_metrics`, `repository/k8s.rs`): queries whose result
  is the constant `Available`. The helper crates, the metrics exporter, units,
  formatting, configuration, the start-up of the servers beyond the registration
  loop: wiring without state of its own.
- The price of the build with linear rates and the reduction of the price for
  data that is close: formulas on one bid, without shared state.
- Of the estimators: the exponential average, which nothing that decides reads;
  `rolling_avg.rs`, which is used nowhere; the build with latencies from a file.
- The builds `maxcpu` and `edge_ward_v3` call `accumulate` with one argument of
  two and do not compile; `edge_ward_v2` is a `todo!()` and `cloud_only` is
  commented out. The price and limiter order of `maxcpu` is that of
  `mincpurandom`, which is modelled. The random election of the market.
- What the functions and the generator send, the latency proxy, the scripts that
  run experiments and the analysis of their results.

## Plan

Done: `ReservationLedger`, `FunctionLife`; `Registry`; `Market`; `Overlay`,
`CallForBids`, `AuctionRelay`, `LimitedRelay`; `BidDesk`; `MovingMedian`,
`Neighborhood`; `Pipeline`; proofs about all of them.

What would come next:

1. `Fog`: Market over one ReservationLedger per node and over CallForBids, in
   place of its own view of a node and of the constant `Tenders`, so that the
   refinements of FunctionLife and of the relays carry over to the market's
   accounts. Theorem: the market's charges are the ledgers' reservations.
2. Neighborhood over Registry, in place of `Accept` and `Fail`, and under
   Overlay, in place of the constants `Parent`, `Children` and `Latency`.
3. Proofs about these: that the market's charges are the ledgers' reservations,
   and that what the nodes know of their neighbours agrees with the market's map.
