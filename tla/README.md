# TLA+ verification of the VPC reclaimer and GC3

This directory models two background protocols in
`src/vpc/service/delete_excess_branches.go`. The file holds two Go files one
after the other:

* lines 1-210 are package `service`: the **excess-branch reclaimer**
  (`deleteExccessBranchesLoop`, `doDeleteExcessBranches`, `getSubnets`);
* lines 211-398 are package `gc3`: the node-side **GC3 reconciliation**
  (`GC`) and its source-of-truth adapters (`kubernetesTasks`, `mesosTasks`).

It holds TLA+ modules, the TLC configurations that model-check them, and
TLAPS proofs of the main safety invariants. `PROJECT.json` lists the
components, the runs, the mutants, the map from every definition to the
lines it models, the findings, the hazards and the theorems.

## 1. The system

| Part | State | Operations | Interacts with |
|---|---|---|---|
| Resource store (Postgres) | `branch_enis` rows, `branch_eni_attachments`, subnets | DELETE ... RETURNING in a READ COMMITTED transaction, commit, rollback | reclaimer, IP assignment |
| Cloud gateway (EC2) | interfaces, their IPv4/IPv6 addresses | describe, delete | reclaimer |
| Excess-branch reclaimer | per subnet: one loop, one transaction, one candidate | select + lock, describe, commit, cloud delete, wait | store, cloud |
| Long-lived task scheduler | one loop per subnet and per replica | run a cycle, choose the wait from its outcome, stop on cancel | reclaimer |
| GC3 | per node: identity, task list, removed assignments, a multierror | list tasks, GCV3, per item get / teardown / unassign | orchestrator, VPC service, executor |
| Source-of-truth adapters | the orchestrator's task list | list (kubernetes or mesos) | GC3 |
| JWT authenticator (`src/unnamed/part_000`) | a key, the clock | generate, verify | not modelled |
| Mock job runner (`src/executor/mock/jobrunner.go`) | test harness | | not modelled |

**Reclaimer.** Every replica runs one loop per subnet. A cycle:

1. opens a transaction;
2. deletes the newest row past the `warmPoolPerSubnet` unattached rows of the
   subnet (`ORDER BY id DESC LIMIT 1 OFFSET $2`, `NOT IN` attachments);
3. describes the interface and aborts if it has IPv6 addresses or more than
   one IPv4 address;
4. commits;
5. deletes the interface in the cloud. A not-found error counts as success.
   Any other error leaks the interface, and the leak is logged.

The wait before the next cycle depends on the outcome: an error, a
deletion, or nothing to delete.

**GC3.** A cycle:

1. reads the instance identity;
2. lists the tasks the orchestrator holds;
3. sends them to `GCV3`, which answers with the assignments it considers
   stale;
4. for each stale assignment, gets it, tears its network down on the node,
   and unassigns it at the service. A failed item is appended to a
   multierror, and the loop continues with the next item.

**What is hard about this code**

* **Races on shared rows.** Concurrent attaches race the DELETE's snapshot,
  and two replicas race each other on the same row.
* **Stale checks.** A describe result is used after it was read. A task
  list is stale by the time GCV3 acts on it.
* **Ordering across two systems.** The ledger commit must come before the
  cloud delete, and teardown must come before unassign.
* **Partial failure.** One call of several can fail, as can a cancel between
  the commit and the cloud delete.
* **Convergence under repeated cycles.**

## 2. Modules

| Module | Models | Source |
|---|---|---|
| `ExcessBranches` | one subnet, N rows, a set of replica loops, an attacher | lines 1-210 |
| `MC_ExcessBranches` | model values for replicas, symmetry | |
| `ReclaimerSpec` | what the reclaimer promises: one idle unattached row leaves the ledger at a time, an interface leaves the cloud only after its row, a failed cloud delete is a leak | spec 4.1, 4.3, 5 |
| `ExcessBranchesProofs` | TLAPS proofs, including the refinement of `ReclaimerSpec` | |
| `SubnetListing` | `getSubnets` row by row, and the runner starting one loop per listed subnet; holds its own type theorem | lines 27-75, 204-210 |
| `MC_SubnetListing` | five subnets as model values | |
| `GC3` | one node's GC cycles, a task lifecycle, the VPC service's assignments | lines 211-398 |
| `MC_GC3` | model values for tasks, symmetry | |
| `NodeNetworkSpec` | what GC promises: a task's network is torn down before its assignment is released, one task at a time | spec 4.5 |
| `GC3Proofs` | TLAPS proofs, including the refinement of `NodeNetworkSpec` | |

### ExcessBranches

**State**

| Variable | What it holds |
|---|---|
| `ledger` | the `branch_enis` rows of the subnet, identified by id `1..NumENIs` |
| `attached` | the rows that have an attachment |
| `cloud` | the interfaces that exist in EC2 |
| `ipv4`, `ipv6` | each interface's address counts |
| `pc[w]`, `cand[w]`, `outcome[w]` | each replica loop's position in its cycle, its chosen row and the outcome of its last cycle |
| `leaked` | interfaces whose cloud delete failed after commit |
| `failures`, `envSteps` | counters bounded by `MaxFailures` and `MaxEnvSteps` |

**Actions, in code order**

| Action | Code |
|---|---|
| `GetSubnets` | `getSubnets` (27-75) |
| `SelectExcess` | session and `BeginTx`. The DELETE statement takes its snapshot, and `ExcessCandidate` is its subquery over `ledger \ attached`. |
| `LockExcess` | The DELETE waits for and takes the row lock. It finds no row if another replica committed it (`ErrNoRows`, line 149). With the foreign key, an attach committed after the snapshot makes the statement fail. |
| `Describe` | `GetNetworkInterfaceByID` and the IPv6/IPv4 checks (161-177). `MissingInCloud` rows fail with not-found. |
| `Commit` | `tx.Commit` (179-186). With `LostCommitAck`, a commit can return an error after the server committed: the row is gone and the cycle fails. |
| `CloudDelete` | `DeleteNetworkInterface`. Not-found counts as success; any other error adds the interface to `leaked` (188-201). |
| `Cancel` | the loop's context is cancelled (`waitFor`, the deferred rollback) |

Every failing call ends the cycle through `Fail`, with outcome "error".
`EndCycle`/`ResetTime` choose the next wait as lines 83-92 do.

The attacher, the code that assigns IPs, is not in this file; it is modelled
from the spec. Its actions are:

* `Attach(e)` — with `AttachmentFK`, it blocks on a row a replica has locked;
* `AssignIP(e)`;
* `Detach(e)` — with `DetachLeavesIPs`, it may leave addresses behind.

### ReclaimerSpec and the refinement

`ReclaimerSpec` has the same variables as the detailed model minus the
replicas' `pc`, `cand`, `outcome` and the counters. Its actions are
`Reclaim(e)` (an unattached, idle row present in the cloud leaves the
ledger), `RemoveInterface(e)` (an idle interface without a row leaves the
cloud), `ReportLeak(e)`, and the attacher's `Attach`, `AssignIP` and
`Detach` without a step bound. `ExcessBranches` instantiates it with the
identity mapping (`Reclaimer == INSTANCE ReclaimerSpec WITH ...`):
`Commit` maps to `Reclaim`, a successful `CloudDelete` to
`RemoveInterface`, a failed one to `ReportLeak`, and every other step of a
replica to a stutter. `ReclaimerRefined == Reclaimer!Spec` is checked in
excess_safety and proved for every instance.

### SubnetListing

`phase` follows `getSubnets` (`begin`, `query`, `scan`, `commit`,
`listed` or `failed`) and then the runner (`running` or `aborted`);
`pending` is what the query has not yet yielded, `ret` the keyed items
appended, `loops` the subnets that got a loop. `BeginTx`, `Query`,
`NextRow` (scan and append, or a scan error) and `Commit` each have their
error return through `ReturnError`. `EndRows` is `rows.Next()` returning
false: either the result set is exhausted, or iteration ended early with an
error that only `rows.Err()` would report, which the code never reads.
`StartLoops` is the runner (not under `src/`, modelled from spec 4.4).

### GC3

**State**

| Variable | What it holds |
|---|---|
| `launched`, `running` | the task lifecycle |
| `setUp` | tasks whose network the executor set up |
| `localNet` | tasks whose network is still on the node |
| `assigned` | assignments the VPC service holds |
| `pc` | the GC cycle's position |
| `listed` | the task list |
| `todo` | `RemovedAssignments` not yet handled |
| `cur` | the current item |
| `done`, `errs` | items handled, and items that failed |
| `result` | the multierror's verdict |
| `failures` | failures so far, at most `MaxFailures` |

**Actions**

| Action | Code |
|---|---|
| `GetIdentity` | 244-252 |
| `ListRunningTasks` | 259-272; `FetchRunningTasks` is what the adapters yield |
| `RequestGC` | GCV3, 275-286. The service returns the assignments of tasks not in the list. |
| `GetAssignment` | 290-296 |
| `TeardownNetwork` | 297-302 |
| `UnassignIP` | 303-309 |
| `Finish` | 313-319 |

`ItemFails` is `multierror.Append` followed by `continue`, and `Abort` is
any early return. The environment is modelled from the spec. Its actions
are:

* `Launch`;
* `SetUpNetwork`, which assigns an address and sets up the network;
* `Stop`;
* `CleanExit`, the executor's own teardown and unassign.

**Refinement.** `NodeNetworkSpec` keeps the task lifecycle, `assigned` and
`localNet`, and has two collector actions: `TearDown(t)` for a task with a
network on the node, and `Release(t)` for an assignment whose network is
gone. `GC3` instantiates it with the identity mapping
(`GCNode == INSTANCE NodeNetworkSpec WITH ...`). A successful
`TeardownNetwork` maps to `TearDown` (or to a stutter when the executor
already removed the network), a successful `UnassignIP` to `Release`, and
every other step of the cycle to a stutter. `GCRefined == GCNode!Spec`.

## 3. Runs

| Run | Cfg | Expect | Checks |
|---|---|---|---|
| excess_safety | `ExcessBranches_safety.cfg` | pass | TypeOK, NoAttachedDeleted, LockInv, ReclaimInv, LedgerCloudAgreement, NoBusyCloudDelete, ReclaimerRefined, SnapshotKeepsWarmPool |
| excess_converge | `ExcessBranches_converge.cfg` | pass | NoOrphanRow, Converges |
| excess_missing_in_cloud | `ExcessBranches_missing.cfg` | violation | Converges |
| excess_no_fk | `ExcessBranches_nofk.cfg` | violation | NoAttachedDeleted |
| excess_below_warm_pool | `ExcessBranches_warmpool.cfg` | violation | NeverBelowWarmPool |
| excess_stray_ips | `ExcessBranches_strayips.cfg` | violation | Converges |
| excess_lost_commit_ack | `ExcessBranches_lostack.cfg` | violation | LedgerCloudAgreement |
| listing_safety | `SubnetListing_safety.cfg` | pass | PartialOnlyOnError |
| listing_partial | `SubnetListing_partial.cfg` | violation | ListingComplete |
| gc3_safety | `GC3_safety.cfg` | pass | TypeOK, NoUnassignBeforeTeardown, TeardownInv, ItemAccounted, GCRefined |
| gc3_reclaim | `GC3_reclaim.cfg` | pass | Reclaimed |
| gc3_live_teardown | `GC3_live_teardown.cfg` | violation | NoLiveTeardown |

### What the properties say

**ExcessBranches**

* `NoAttachedDeleted`: no row that is being deleted or was deleted has an
  attachment.
* `LockInv`: its inductive strengthening. A row a replica holds locked is
  not attached.
* `NoBusyCloudDelete`, an action property: an interface leaves the cloud
  only with no IPv6 addresses and at most one IPv4 address. This holds even
  though the attacher can add addresses between describe and delete,
  because an attach blocks on the lock until the commit, and after the
  commit the row is gone.
* `NoOrphanRow`: no ledger row is left without its interface, except rows
  whose interface was missing from the start. It is checked in
  excess_converge, where commit acknowledgements can be lost.
* `LedgerCloudAgreement`: an interface that is in the cloud but not in the
  ledger is in flight or in `leaked`, and a row that is in the ledger but
  not in the cloud was already missing.
* `Converges`: while some loop keeps running, the number of unattached rows
  eventually stays at most `WarmPool`. excess_converge checks it with lost
  commit acknowledgements on.
* `ReclaimInv`: a replica past describe holds an interface that is in the
  cloud and idle, and no two replicas have committed the same row. It is
  the invariant the refinement proof needs.
* `ReclaimerRefined`: the reclaimer implements `ReclaimerSpec`.
* `SnapshotKeepsWarmPool`, an action property: the row a replica chooses
  leaves at least `WarmPool` other unattached rows in the snapshot it was
  chosen from. It holds, while `NeverBelowWarmPool` fails: the shortfall
  comes only from attaches after the snapshot.
* `NeverBelowWarmPool`, an action property: a step that removes rows from
  the ledger leaves at least `WarmPool` unattached rows (spec 8).

**SubnetListing**

* `PartialOnlyOnError`: loops start for fewer than all subnets only if a
  read of the listing failed. It catches a scan into a shared variable.
* `ListingComplete`: loops start for all subnets or for none (spec 4.1,
  4.4).

**GC3**

* `NoUnassignBeforeTeardown`: no assignment is released while the node
  still has the task's network.
* `ItemAccounted`: every item handled without error is gone both locally and
  at the service.
* `Reclaimed`: every stopped task is eventually torn down and unassigned.
* `NoLiveTeardown`: a running task's network is never torn down.
* `GCRefined`: GC implements `NodeNetworkSpec`.

### Bounds

**ExcessBranches**

* Four rows with a warm pool of one leaves two excess rows, one attached row
  and one row missing from the cloud.
* Two replicas are enough for both to pick the same row.
* `MaxIPs = 2` makes the `l > 1` boundary reachable.
* Three attacher steps allow an attach followed by address assignment and a
  detach that leaves addresses.
* One failure exercises every error path; converge allows two, with lost
  commit acknowledgements.
* The violation runs use a single replica and three rows: the smallest
  instances that show each trace.

**SubnetListing**

* Five subnets and two failures let a listing end early after some rows,
  fail at each call, or succeed; 258 distinct states.

**GC3**

* Three tasks give stale, live and concurrently launched tasks.
* Two failures are enough for one item to fail while another succeeds, and
  for a later cycle to retry.

Symmetry is used only in the safety runs, where it is sound; the liveness
runs do without it. Each passing run reaches far more than 100 distinct
states: about 90k for excess_safety, 210k for excess_converge, 32k for
gc3_safety and 171k for gc3_reclaim. Together they fire every action.

`CHECK_DEADLOCK FALSE` is set for ExcessBranches and SubnetListing. In
SubnetListing the listing ends in `running` or `aborted`, after which this
model has nothing to do. In ExcessBranches, every loop may
be cancelled and the attacher's budget may run out, and the system then
really stops. GC3 checks deadlock.

### Mutants

Every property of a passing run is broken by a plausible bug in the mapped
code; `PROJECT.json` lists them all. Examples:

* the DELETE without the foreign-key check (`LockExcessUnchecked`);
* the cloud delete before the commit (`CommitCloudFirst`);
* no IPv6 check (`DescribeNoIPv6Check`);
* `l > 0` instead of `l > 1` in `Describe` (`DescribeOffByOne`): every
  interface, which always has its primary address, is rejected, and
  `Converges` breaks;
* an unassign that continues after a failed teardown;
* a dropped error in the multierror;
* a teardown that does nothing;
* a scan into one variable declared outside the loop (`NextRowSharedVar`);
* the DELETE's `OFFSET` bound to `warmPoolPerSubnet - 1`
  (`ExcessCandidateOffByOne`).

### Fairness

`ExcessBranches` assumes weak fairness of each replica's `Worker(w)`. Each
loop is its own goroutine: it sleeps with a timer and never waits on
another loop, so a loop that is not cancelled keeps taking steps.

`GC3` assumes weak fairness of `GCStep`. The executor's GC is called
periodically and each call runs to its end. The environment gets no
fairness, since tasks need not stop.

## 4. Findings

* **excess_missing_in_cloud (Converges).** A ledger row whose interface was
  deleted out of band makes describe return not-found. The code returns an
  error (the "TODO: Handle the not found case" at line 179). The next cycle
  picks the same row again, because the order is deterministic, so the
  subnet never converges.
* **excess_no_fk (NoAttachedDeleted).** Under READ COMMITTED, the `NOT IN`
  subquery of the DELETE is evaluated on the statement's snapshot. It is not
  re-checked after the row lock. Only a foreign key from the attachment
  table, which is schema and not code, makes a concurrent attach fail the
  DELETE. The proofs therefore assume `AttachmentFK`.
* **gc3_live_teardown (NoLiveTeardown).** GC lists tasks before GCV3. A task
  launched and set up in between is reported stale, and GC tears down its
  network while it runs.

* **excess_below_warm_pool (NeverBelowWarmPool).** The `OFFSET` skips the
  newest `warmPoolPerSubnet` unattached rows of the statement's snapshot. An
  attach of one of those rows that commits before the DELETE locks its row
  makes the deleted row part of the warm pool, which is left short by one.
  Spec 8 says the pool never falls below the target.
* **excess_stray_ips (Converges).** An unattached interface that still
  carries a secondary address aborts the cycle (line 173), and the next
  cycle picks it again. Spec 9 keeps the abort, and spec 8 asks for
  convergence; the two cannot both hold.
* **excess_lost_commit_ack (LedgerCloudAgreement).** If `tx.Commit` returns
  an error after the server committed, the code returns without deleting the
  interface or logging a leak (181-185). The row is gone, and the interface
  stays in the cloud unrecorded. This is why `LedgerCloudAgreementHolds`
  assumes `~LostCommitAck`.
* **listing_partial (ListingComplete).** `getSubnets` never checks
  `rows.Err()` after its loop (57-64). An iteration that ends early with an
  error is taken as the end of the result set, and a partial list is
  returned as complete.

## 5. Proofs (TLAPS)

**`ExcessBranchesProofs`** (assumption `ConstantsAssumption`)

* **`TypeCorrect`: `Spec => []TypeOK`.** TypeOK includes
  `pc[w] \in InCycle => cand[w] \in ENI`, which makes it inductive.
* **`LockInvHolds` and `NoAttachedDeletedHolds`** (assuming `AttachmentFK`).
  The inductive invariant is `LockInv`: TypeOK, no locked or committed
  candidate is attached, a locked candidate is held by one replica, and
  `attached \subseteq ledger`. It is needed because the safety of a delete
  depends on the lock held since `LockExcess`, which `NoAttachedDeleted`
  alone does not state. `Attach` is the step that needs the foreign key.
* **`NoBusyCloudDeleteHolds`** (assuming `AttachmentFK`): the action
  property, from `LockInv`. A `CloudDelete` step deletes a committed
  candidate, which no longer has a row, so no attach can have added an
  address since describe.
* **`NoOrphanRowHolds`: `Spec => []NoOrphanRow`**, with no assumption on
  the foreign key or on lost commit acknowledgements. The inductive
  invariant is `OrphanInv`: TypeOK, `NoOrphanRow`, a locked or described
  row is still in the ledger and held by one replica, a described row's
  interface is in the cloud, and a committed row has left the ledger. The
  ledger only loses a described row, whose interface is in the cloud; the
  cloud only loses a committed row's interface, which has no row any more.
  TLC checked `OrphanInv` with and without the foreign key and with lost
  acknowledgements before the proof.
* **`LedgerCloudAgreementHolds`** (assuming
  `~LostCommitAck`; with or without the foreign key). The inductive
  invariant is `LedgerInv`: TypeOK, the agreement, and a committed candidate
  is no longer in the ledger. The assumption is necessary:
  excess_lost_commit_ack is the counterexample without it.
* **`ReclaimerRefinement`: `Spec => ReclaimerRefined`** (assuming
  `AttachmentFK`). `Init` maps to `Reclaimer!Init`, and `StepRefines`
  shows that every step under `ReclaimInv` is a `Reclaimer!Next` step or a
  stutter of the abstract variables. `ReclaimInv` adds to `LockInv` what the
  abstract guards need: a described or committed candidate is in the cloud
  and idle (for `Reclaim` and `RemoveInterface`), and two replicas never
  hold the same committed row (so a second cloud delete cannot happen).
  `ReclaimInvHolds` states `Spec => []ReclaimInv` itself. The refinement
  does not assume `~LostCommitAck`: a commit whose acknowledgement is lost
  is a `Reclaim` of the abstract spec, whose interface is then left in the
  cloud without a `ReportLeak`.
* **`SnapshotKeepsWarmPoolHolds`: `Spec => SnapshotKeepsWarmPool`.** It
  rests on the lemma `ExcessCandidateKeepsPool`: a row the subquery returns
  on a set `S` of rows has `WarmPool` newer rows in `S`, all different from
  it, so `Cardinality(S \ {e}) >= WarmPool` (from `FS_Subset` and
  `FS_RemoveElement` of `FiniteSetTheorems`). `SelectChoosesCandidate`
  shows that only a replica's own `SelectExcess` moves it from idle to
  selected, and with such a row.

**`GC3Proofs`** (assumption `GC3Assumption`)

* **`GC3TypeCorrect`: `Spec => []TypeOK`.**
* **`TeardownInvHolds` and `NoUnassignBeforeTeardownHolds`.** The inductive
  invariant is `TeardownInv`:
  * after `TeardownNetwork`, the current item is no longer in `localNet`;
  * a fetched or torn-down item is set up;
  * `localNet \subseteq assigned`.
* **`ItemAccountedHolds`.** The inductive invariant is `ItemInv`:
  `TeardownInv`, `ItemAccounted`, and every item finished without error
  was set up.
* **`GCRefinement`: `Spec => GCRefined`.** `StepRefines` shows under
  `TeardownInv` that every step is a `GCNode!Next` step or a stutter: a
  successful unassign is a `Release` because `TeardownInv` keeps the
  current item's network gone between teardown and unassign.

**`SubnetListing`**

* **`ListingTypeCorrect`: `Spec => []TypeOK`** (assumption
  `ListingAssumption`: the subnets are a finite set and the failure bound
  a natural).
* **`PartialOnlyOnErrorHolds`: `Spec => []PartialOnlyOnError`.** The
  inductive invariant is `ListingInv`: while no call has failed, the rows
  scanned and the rows still pending make up all subnets, a listing past
  its scan holds all of them, and the runner starts exactly the listed
  loops. `EndRows` with rows left, and every error return, count a
  failure.

Each invariance proof has one step per action, and the temporal step is
`PTL DEF Spec`. Every inductive invariant was first checked with TLC.

**Only checked by TLC**

* The liveness properties (`Converges`, `Reclaimed`): fairness and ENABLED
  are beyond TLAPS here.
* Every property in the configurations the theorems' assumptions exclude
  (`NoAttachedDeleted`, `NoBusyCloudDelete` and the refinement without the
  foreign key; `LedgerCloudAgreement` with lost commit acks). There the
  runs find violations, or the property is not claimed.
* `ListingComplete` and `NeverBelowWarmPool`, which are violated.

Every safety property of a passing run is stated by a theorem.

## 6. Not modelled

* **The JWT authenticator (`src/unnamed/part_000`).** The spec puts it out
  of scope. `GenerateToken` and `VerifyToken` keep no state of their own:
  each is one call of the jwt-go library against the clock, so a model
  would hold only the clock and library checks that are not code of this
  repository. Its hazard, a token that expires between `Valid()` and
  `time.Until` and so has zero or negative remaining time, is listed.
* **The mock job runner.** It is a test harness.
* **The generic `longLivedTask` runner.** It is not under `src/`; the
  start of one loop per listed subnet is modelled from the spec in
  `SubnetListing`.
* **Several subnets at once.** `ExcessBranches` has one subnet; subnets
  share no rows, so their loops do not interact except through the
  listing.
* **JSON decoding, logging, tracing and the exact wait durations.**

## 7. Plan for later sittings

1. Compose `SubnetListing` with `ExcessBranches` for two subnets, with
   listings repeated by the runner.
2. A composition of GC3 with the VPC service's assignment table, shared with
   the reclaimer's attachments.
3. The lemma that `ExcessCandidate(S)` has at most one element, and that it
   is empty exactly when `S` has at most `WarmPool` rows.
4. An EC2 delete that times out after it took effect, the cloud analogue
   of `LostCommitAck`, and what it does to the leak log.
