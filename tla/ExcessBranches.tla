--------------------------- MODULE ExcessBranches ---------------------------
(***************************************************************************)
(* The excess-branch-ENI reclaimer of the VPC service                      *)
(* (vpc/service/delete_excess_branches.go) together with the two stores it *)
(* reconciles: the ledger (tables branch_enis and branch_eni_attachments)  *)
(* and the cloud's inventory of network interfaces.                        *)
(*                                                                         *)
(* One subnet is modelled.  Every loop that trims it (one per VPC-service  *)
(* replica) is a worker.  A cycle of doDeleteExcessBranches is split at    *)
(* its I/O boundaries: the DELETE statement's snapshot read, its row lock  *)
(* and RETURNING, the describe call, the commit and the cloud delete.      *)
(* The attacher (IP assignment, not under src/) is the environment: it     *)
(* inserts and removes attachment rows and assigns IPs in the cloud.       *)
(***************************************************************************)
EXTENDS Naturals, FiniteSets

CONSTANTS
    NumENIs,          \* branch ENI rows; an ENI is named by its id (ORDER BY id)
    Workers,          \* reclaimer loops on this subnet (one per replica)
    WarmPool,         \* warmPoolPerSubnet, the OFFSET of the DELETE
    MaxIPs,           \* bound on the addresses the attacher puts on an ENI
    MaxFailures,      \* bound on injected I/O failures (DB, EC2, commit)
    MaxEnvSteps,      \* bound on attacher steps
    AttachmentFK,     \* branch_eni_attachments.branch_eni references branch_enis
    DetachLeavesIPs,  \* a detach may leave secondary addresses behind
    LostCommitAck,    \* tx.Commit can fail after the server committed
    MissingInCloud,   \* ledger rows whose interface is already gone in the cloud
    InitAttached      \* rows that have an attachment row at the start

ENI == 1..NumENIs

ASSUME ConstantsAssumption ==
    /\ NumENIs \in Nat
    /\ WarmPool \in Nat
    /\ MaxIPs \in Nat \ {0}
    /\ MaxFailures \in Nat
    /\ MaxEnvSteps \in Nat
    /\ AttachmentFK \in BOOLEAN
    /\ DetachLeavesIPs \in BOOLEAN
    /\ LostCommitAck \in BOOLEAN
    /\ MissingInCloud \subseteq ENI
    /\ InitAttached \subseteq ENI

VARIABLES
    ledger,    \* committed rows of branch_enis
    attached,  \* committed rows of branch_eni_attachments
    cloud,     \* interfaces that exist in EC2
    ipv4,      \* len(PrivateIpAddresses) of each interface
    ipv6,      \* len(Ipv6Addresses) of each interface
    pc,        \* where each worker is in its loop
    cand,      \* the branch ENI a worker's DELETE chose
    outcome,   \* the result of a worker's last cycle (chooses resetTime)
    leaked,    \* interfaces logged as "ENI leak" (line 197)
    failures,  \* injected failures so far
    envSteps   \* attacher steps so far

vars == <<ledger, attached, cloud, ipv4, ipv6, pc, cand, outcome, leaked,
          failures, envSteps>>

None == 0

PC == {"listing", "idle", "selected", "locked", "described", "committed",
       "stopped"}

Outcome == {"error", "deleted", "none"}

(* The places of a cycle at which a worker has chosen a row. *)
InCycle == {"selected", "locked", "described", "committed"}

(* Rows that an open transaction has deleted and holds locked. *)
Locked == {cand[w] : w \in {x \in Workers : pc[x] \in {"locked", "described"}}}

(* Rows deleted by a DELETE statement, committed or not. *)
Deleting == {cand[w] : w \in {x \in Workers : pc[x] \in {"locked", "described", "committed"}}}

(* Mutant: the OFFSET bound to warmPoolPerSubnet - 1. *)
ExcessCandidateOffByOne(unattached) ==
    {e \in unattached : Cardinality({x \in unattached : x > e}) = WarmPool - 1}

(***************************************************************************)
(* The subquery of the DELETE: among the rows without an attachment,       *)
(* ordered by id descending, skip WarmPool and take one.  The result is    *)
(* the empty set when there are at most WarmPool such rows.                *)
(***************************************************************************)
ExcessCandidate(unattached) ==
    {e \in unattached : Cardinality({x \in unattached : x > e}) = WarmPool}

(* The end of a cycle: deleteExccessBranchesLoop picks resetTime from the *)
(* outcome and waits; the deferred Rollback undoes an uncommitted delete. *)
EndCycle(w, o) ==
    /\ pc' = [pc EXCEPT ![w] = "idle"]
    /\ cand' = [cand EXCEPT ![w] = None]
    /\ outcome' = [outcome EXCEPT ![w] = o]

Fail(w) ==
    /\ failures < MaxFailures
    /\ failures' = failures + 1
    /\ EndCycle(w, "error")

ResetTime(o) ==
    CASE o = "error"   -> "timeBetweenErrors"
      [] o = "deleted" -> "timeBetweenDeletions"
      [] o = "none"    -> "timeBetweenNoDeletions"

-----------------------------------------------------------------------------
(* Mutants: plausible bugs in the steps below, used to show that each     *)
(* property checked on this module can fail.                              *)

(* The DELETE takes the row chosen by its snapshot whatever happened to   *)
(* its attachments since (no recheck, no foreign key).                    *)
LockExcessUnchecked(w) ==
    /\ pc[w] = "selected"
    /\ cand[w] \notin Locked
    /\ \/ /\ cand[w] \notin ledger
          /\ EndCycle(w, "none")
       \/ /\ cand[w] \in ledger
          /\ pc' = [pc EXCEPT ![w] = "locked"]
          /\ UNCHANGED <<cand, outcome>>
    /\ UNCHANGED <<ledger, attached, cloud, ipv4, ipv6, leaked, failures,
                   envSteps>>

(* The IPv6 check of line 168 left out. *)
DescribeNoIPv6Check(w) ==
    /\ pc[w] = "locked"
    /\ cand[w] \in cloud
    /\ \/ /\ ipv4[cand[w]] > 1
          /\ EndCycle(w, "error")
       \/ /\ ipv4[cand[w]] <= 1
          /\ pc' = [pc EXCEPT ![w] = "described"]
          /\ UNCHANGED <<cand, outcome>>
    /\ UNCHANGED <<ledger, attached, cloud, ipv4, ipv6, leaked, failures,
                   envSteps>>

(* Line 173 with "> 0": the primary address alone aborts the cycle. *)
DescribeOffByOne(w) ==
    /\ pc[w] = "locked"
    /\ cand[w] \in cloud
    /\ \/ /\ ipv6[cand[w]] > 0 \/ ipv4[cand[w]] > 0
          /\ EndCycle(w, "error")
       \/ /\ ipv6[cand[w]] = 0
          /\ ipv4[cand[w]] = 0
          /\ pc' = [pc EXCEPT ![w] = "described"]
          /\ UNCHANGED <<cand, outcome>>
    /\ UNCHANGED <<ledger, attached, cloud, ipv4, ipv6, leaked, failures,
                   envSteps>>

(* Any cancelled cycle is logged as a leak of its candidate. *)
CancelLeaksAny(w) ==
    /\ pc[w] \notin {"listing", "stopped"}
    /\ pc' = [pc EXCEPT ![w] = "stopped"]
    /\ leaked' = leaked \cup {cand[w]}
    /\ UNCHANGED <<ledger, attached, cloud, ipv4, ipv6, cand, outcome,
                   failures, envSteps>>

(* Cloud first: DeleteNetworkInterface before tx.Commit, which may fail.  *)
CommitCloudFirst(w) ==
    /\ pc[w] = "described"
    /\ cloud' = cloud \ {cand[w]}
    /\ \/ /\ Fail(w)
          /\ UNCHANGED ledger
       \/ /\ ledger' = ledger \ {cand[w]}
          /\ EndCycle(w, "deleted")
          /\ UNCHANGED failures
    /\ UNCHANGED <<attached, ipv4, ipv6, leaked, envSteps>>

-----------------------------------------------------------------------------

Init ==
    /\ ledger = ENI
    /\ attached = InitAttached
    /\ cloud = ENI \ MissingInCloud
    /\ ipv4 = [e \in ENI |-> 1]
    /\ ipv6 = [e \in ENI |-> 0]
    /\ pc = [w \in Workers |-> "listing"]
    /\ cand = [w \in Workers |-> None]
    /\ outcome = [w \in Workers |-> "none"]
    /\ leaked = {}
    /\ failures = 0
    /\ envSteps = 0

(* getSubnets: a read-only scan; an error aborts scheduling of the loops. *)
GetSubnets(w) ==
    /\ pc[w] = "listing"
    /\ \/ /\ pc' = [pc EXCEPT ![w] = "idle"]
          /\ UNCHANGED failures
       \/ /\ failures < MaxFailures
          /\ failures' = failures + 1
          /\ pc' = [pc EXCEPT ![w] = "stopped"]
    /\ UNCHANGED <<ledger, attached, cloud, ipv4, ipv6, cand, outcome, leaked,
                   envSteps>>

(* doDeleteExcessBranches up to the DELETE's snapshot read: the session,  *)
(* BeginTx, and the subquery evaluated on committed rows.                 *)
SelectExcess(w) ==
    /\ pc[w] = "idle"
    /\ LET c == ExcessCandidate(ledger \ attached) IN
       \/ Fail(w)
       \/ /\ c = {}
          /\ EndCycle(w, "none")
          /\ UNCHANGED failures
       \/ \E e \in c :
            /\ pc' = [pc EXCEPT ![w] = "selected"]
            /\ cand' = [cand EXCEPT ![w] = e]
            /\ UNCHANGED <<outcome, failures>>
    /\ UNCHANGED <<ledger, attached, cloud, ipv4, ipv6, leaked, envSteps>>

(* The DELETE locks the chosen row (waiting while another transaction    *)
(* holds it), deletes it and RETURNs it; row.Scan yields ErrNoRows when   *)
(* the row was committed away meanwhile.  With the foreign key, deleting  *)
(* a row that gained an attachment fails the statement.                   *)
LockExcess(w) ==
    /\ pc[w] = "selected"
    /\ cand[w] \notin Locked
    /\ \/ Fail(w)
       \/ /\ cand[w] \notin ledger
          /\ EndCycle(w, "none")
          /\ UNCHANGED failures
       \/ /\ cand[w] \in ledger
          /\ cand[w] \in attached
          /\ AttachmentFK
          /\ EndCycle(w, "error")
          /\ UNCHANGED failures
       \/ /\ cand[w] \in ledger
          /\ cand[w] \notin attached \/ ~AttachmentFK
          /\ pc' = [pc EXCEPT ![w] = "locked"]
          /\ UNCHANGED <<cand, outcome, failures>>
    /\ UNCHANGED <<ledger, attached, cloud, ipv4, ipv6, leaked, envSteps>>

(* GetNetworkInterfaceByID and the two address checks; any error returns  *)
(* and the deferred Rollback restores the row.                            *)
Describe(w) ==
    /\ pc[w] = "locked"
    /\ LET e == cand[w] IN
       \/ Fail(w)
       \/ /\ e \notin cloud
          /\ EndCycle(w, "error")
          /\ UNCHANGED failures
       \/ /\ e \in cloud
          /\ ipv6[e] > 0 \/ ipv4[e] > 1
          /\ EndCycle(w, "error")
          /\ UNCHANGED failures
       \/ /\ e \in cloud
          /\ ipv6[e] = 0
          /\ ipv4[e] <= 1
          /\ pc' = [pc EXCEPT ![w] = "described"]
          /\ UNCHANGED <<cand, outcome, failures>>
    /\ UNCHANGED <<ledger, attached, cloud, ipv4, ipv6, leaked, envSteps>>

(* tx.Commit: the row leaves the ledger before the cloud delete.  An     *)
(* error returns; when the connection is lost after the server committed, *)
(* the error is returned all the same and the row is gone.                *)
Commit(w) ==
    /\ pc[w] = "described"
    /\ \/ /\ Fail(w)
          /\ UNCHANGED ledger
       \/ /\ LostCommitAck
          /\ Fail(w)
          /\ ledger' = ledger \ {cand[w]}
       \/ /\ ledger' = ledger \ {cand[w]}
          /\ pc' = [pc EXCEPT ![w] = "committed"]
          /\ UNCHANGED <<cand, outcome, failures>>
    /\ UNCHANGED <<attached, cloud, ipv4, ipv6, leaked, envSteps>>

(* DeleteNetworkInterface: not-found counts as deleted; any other error   *)
(* after the commit is logged as a leak and returned.                     *)
CloudDelete(w) ==
    /\ pc[w] = "committed"
    /\ LET e == cand[w] IN
       \/ /\ Fail(w)
          /\ leaked' = leaked \cup {e}
          /\ UNCHANGED cloud
       \/ /\ cloud' = cloud \ {e}
          /\ EndCycle(w, "deleted")
          /\ UNCHANGED <<leaked, failures>>
    /\ UNCHANGED <<ledger, attached, ipv4, ipv6, envSteps>>

(* The loop's context is cancelled: waitFor returns, an open transaction  *)
(* rolls back, a cloud delete in flight fails and is logged as a leak.    *)
Cancel(w) ==
    /\ pc[w] \notin {"listing", "stopped"}
    /\ pc' = [pc EXCEPT ![w] = "stopped"]
    /\ leaked' = IF pc[w] = "committed" THEN leaked \cup {cand[w]} ELSE leaked
    /\ UNCHANGED <<ledger, attached, cloud, ipv4, ipv6, cand, outcome,
                   failures, envSteps>>

-----------------------------------------------------------------------------
(* The attacher (spec_modelled).  With the foreign key an insert into     *)
(* branch_eni_attachments waits on a row an open DELETE holds.            *)

Attach(e) ==
    /\ envSteps < MaxEnvSteps
    /\ e \in ledger \ attached
    /\ AttachmentFK => e \notin Locked
    /\ attached' = attached \cup {e}
    /\ envSteps' = envSteps + 1
    /\ UNCHANGED <<ledger, cloud, ipv4, ipv6, pc, cand, outcome, leaked,
                   failures>>

AssignIP(e) ==
    /\ envSteps < MaxEnvSteps
    /\ e \in attached \cap cloud
    /\ \/ /\ ipv4[e] < MaxIPs
          /\ ipv4' = [ipv4 EXCEPT ![e] = @ + 1]
          /\ UNCHANGED ipv6
       \/ /\ ipv6[e] < MaxIPs
          /\ ipv6' = [ipv6 EXCEPT ![e] = @ + 1]
          /\ UNCHANGED ipv4
    /\ envSteps' = envSteps + 1
    /\ UNCHANGED <<ledger, attached, cloud, pc, cand, outcome, leaked,
                   failures>>

Detach(e) ==
    /\ envSteps < MaxEnvSteps
    /\ e \in attached
    /\ attached' = attached \ {e}
    /\ \/ /\ ipv4' = [ipv4 EXCEPT ![e] = 1]
          /\ ipv6' = [ipv6 EXCEPT ![e] = 0]
       \/ /\ DetachLeavesIPs
          /\ UNCHANGED <<ipv4, ipv6>>
    /\ envSteps' = envSteps + 1
    /\ UNCHANGED <<ledger, cloud, pc, cand, outcome, leaked, failures>>

-----------------------------------------------------------------------------

Worker(w) ==
    \/ GetSubnets(w)
    \/ SelectExcess(w)
    \/ LockExcess(w)
    \/ Describe(w)
    \/ Commit(w)
    \/ CloudDelete(w)

Attacher == \E e \in ENI : Attach(e) \/ AssignIP(e) \/ Detach(e)

Next ==
    \/ \E w \in Workers : Worker(w) \/ Cancel(w)
    \/ Attacher

(* Each loop is its own goroutine that runs until cancelled: weak         *)
(* fairness on its steps.  The attacher and cancellation need none.       *)
Spec == Init /\ [][Next]_vars /\ \A w \in Workers : WF_vars(Worker(w))

-----------------------------------------------------------------------------

TypeOK ==
    /\ ledger \subseteq ENI
    /\ attached \subseteq ENI
    /\ cloud \subseteq ENI
    /\ ipv4 \in [ENI -> 1..MaxIPs]
    /\ ipv6 \in [ENI -> 0..MaxIPs]
    /\ pc \in [Workers -> PC]
    /\ cand \in [Workers -> ENI \cup {None}]
    /\ \A w \in Workers : pc[w] \in InCycle => cand[w] \in ENI
    /\ outcome \in [Workers -> Outcome]
    /\ leaked \subseteq ENI
    /\ failures \in 0..MaxFailures
    /\ envSteps \in 0..MaxEnvSteps

(* The reclaimer never deletes a branch ENI that has an attachment row: no *)
(* row a DELETE has removed, committed or not, is attached, and every      *)
(* attachment row names a row of the ledger (spec 4.1 and 8, the DELETE of *)
(* doDeleteExcessBranches racing the attacher's insert).                   *)
NoAttachedDeleted ==
    /\ attached \cap Deleting = {}
    /\ attached \subseteq ledger

(* The inductive strengthening of NoAttachedDeleted: a row an open DELETE *)
(* holds is in the ledger without an attachment and held by one worker    *)
(* only, and a committed delete's row has left the ledger.  It holds when *)
(* the attachment table has its foreign key.                               *)
LockInv ==
    /\ TypeOK
    /\ attached \subseteq ledger
    /\ \A w \in Workers :
         /\ pc[w] \in {"locked", "described"} => cand[w] \in ledger \ attached
         /\ pc[w] = "committed" => cand[w] \notin ledger
    /\ \A w1, w2 \in Workers :
         /\ w1 # w2
         /\ pc[w1] \in {"locked", "described"}
         /\ pc[w2] \in {"locked", "described"}
         => cand[w1] # cand[w2]

(* What the refinement rests on, with the foreign key: LockInv, and a    *)
(* row that passed describe keeps its interface in the cloud and idle     *)
(* until its cloud delete, because nothing can attach it meanwhile; two   *)
(* committed deletes never name the same row.                              *)
ReclaimInv ==
    /\ LockInv
    /\ \A w \in Workers : pc[w] \in {"described", "committed"} =>
           /\ cand[w] \in cloud
           /\ ipv6[cand[w]] = 0
           /\ ipv4[cand[w]] <= 1
    /\ \A w1, w2 \in Workers :
         /\ w1 # w2
         /\ pc[w1] = "committed"
         /\ pc[w2] = "committed"
         => cand[w1] # cand[w2]

(* An interface is removed from the cloud only when it carries no IPv6     *)
(* address and at most its primary IPv4 address (the checks of lines      *)
(* 168-177 before DeleteNetworkInterface).                                 *)
NoBusyCloudDelete ==
    [][\A e \in cloud \ cloud' : ipv6[e] = 0 /\ ipv4[e] <= 1]_vars

(* Ledger first (spec 4.3): the reclaimer never leaves a ledger row whose *)
(* interface is gone; only rows whose interface was missing from the      *)
(* start have none.  It must survive a commit whose acknowledgement is    *)
(* lost, a failed or cancelled cloud delete, and two replicas on one row.  *)
NoOrphanRow == ledger \ cloud \subseteq MissingInCloud

(* The inductive strengthening of NoOrphanRow, with or without the       *)
(* foreign key and with lost commit acknowledgements: a row an open       *)
(* DELETE holds is still in the ledger and held by one worker only, a     *)
(* described row's interface is in the cloud, and a committed row has     *)
(* left the ledger before its interface is deleted.                        *)
OrphanInv ==
    /\ TypeOK
    /\ NoOrphanRow
    /\ \A w \in Workers :
         /\ pc[w] \in {"locked", "described"} => cand[w] \in ledger
         /\ pc[w] = "described" => cand[w] \in cloud
         /\ pc[w] = "committed" => cand[w] \notin ledger
    /\ \A w1, w2 \in Workers :
         /\ w1 # w2
         /\ pc[w1] \in {"locked", "described"}
         /\ pc[w2] \in {"locked", "described"}
         => cand[w1] # cand[w2]

(* Ledger first, both ways: an interface that the ledger no longer has    *)
(* but the cloud still has is either being deleted by a worker or was     *)
(* logged as a leak, and no ledger row is left without its interface.     *)
LedgerCloudAgreement ==
    /\ cloud \ ledger \subseteq
           leaked \cup {cand[w] : w \in {x \in Workers : pc[x] = "committed"}}
    /\ NoOrphanRow

(* The inductive strengthening of LedgerCloudAgreement: a committed      *)
(* delete's row has left the ledger.                                       *)
LedgerInv ==
    /\ TypeOK
    /\ LedgerCloudAgreement
    /\ \A w \in Workers : pc[w] = "committed" => cand[w] \notin ledger

(* Spec 8: as long as some loop keeps running, repeated cycles bring the   *)
(* subnet down to at most warmPoolPerSubnet unattached branch ENIs.        *)
Converges ==
    (\E w \in Workers : <>[](pc[w] # "stopped"))
        => <>[](Cardinality(ledger \ attached) <= WarmPool)

(* Spec 4.1 at the DELETE's own snapshot: the row a replica chooses      *)
(* leaves at least warmPoolPerSubnet other unattached rows in the subnet  *)
(* as the statement saw it.  Together with NeverBelowWarmPool, which      *)
(* fails, it locates the shortfall in what happens after the snapshot.    *)
SnapshotKeepsWarmPool ==
    [][\A w \in Workers :
         pc[w] = "idle" /\ pc'[w] = "selected"
           => Cardinality((ledger \ attached) \ {cand'[w]}) >= WarmPool]_vars

(* Spec 8, "never fewer": a commit of the reclaimer never leaves the      *)
(* subnet with fewer than warmPoolPerSubnet unattached branch ENIs.  The  *)
(* DELETE's OFFSET is applied to its statement snapshot, so an attach     *)
(* committed before the row lock can make the deleted row a warm one.     *)
NeverBelowWarmPool ==
    [][ledger' \subseteq ledger /\ ledger' # ledger
          => Cardinality(ledger' \ attached') >= WarmPool]_vars

-----------------------------------------------------------------------------
(* The reclaimer implements ReclaimerSpec: every cycle's commit is one    *)
(* Reclaim, its cloud delete one RemoveInterface, a failed cloud delete   *)
(* or a cancel after commit one ReportLeak; every other worker step is a  *)
(* stutter.  The mapping is the identity on the shared state: the        *)
(* workers' positions, candidates and outcomes are hidden.                *)
Reclaimer == INSTANCE ReclaimerSpec
    WITH ledger <- ledger, attached <- attached, cloud <- cloud,
         ipv4 <- ipv4, ipv6 <- ipv6, leaked <- leaked

(* The whole reclaimer, seen on the ledger and the cloud, only ever takes *)
(* the steps ReclaimerSpec allows.                                         *)
ReclaimerRefined == Reclaimer!Spec

=============================================================================
