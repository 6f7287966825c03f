---------------------------- MODULE SubnetListing ----------------------------
(***************************************************************************)
(* The start of the excess-branch reclaimer: getSubnets reads every subnet *)
(* in a read-only transaction, row by row, and the long-lived task runner  *)
(* starts one deleteExccessBranchesLoop per subnet it returned (spec 4.4). *)
(*                                                                         *)
(* database/sql ends a rows.Next() loop in two ways: the result set is     *)
(* exhausted, or reading the next row failed and the error waits in        *)
(* rows.Err().  Whether the transaction can still commit after such an     *)
(* error depends on the driver and on the error: both outcomes are kept.   *)
(* The long-lived task runner is not under src/ and is modelled from the  *)
(* spec.                                                                   *)
(***************************************************************************)
EXTENDS Naturals, FiniteSets, TLAPS

CONSTANTS
    Subnets,        \* rows of subnets JOIN availability_zones
    MaxFailures     \* bound on injected failures

ASSUME ListingAssumption ==
    /\ IsFiniteSet(Subnets)
    /\ MaxFailures \in Nat

VARIABLES
    phase,     \* where getSubnets and the runner are
    pending,   \* rows the query has not yet yielded
    ret,       \* the keyedItems appended so far
    loops,     \* subnets that have a reclaimer loop
    failures

vars == <<phase, pending, ret, loops, failures>>

Phase == {"begin", "query", "scan", "commit", "listed", "failed", "running",
          "aborted"}

CanFail ==
    /\ failures < MaxFailures
    /\ failures' = failures + 1

(* An early return with an error; the deferred Rollback ends the read. *)
ReturnError ==
    /\ CanFail
    /\ phase' = "failed"
    /\ UNCHANGED <<pending, ret, loops>>

(* Mutant: "var s subnet" declared once before the loop, so every         *)
(* appended &s points at the last row scanned.                            *)
NextRowSharedVar ==
    /\ phase = "scan"
    /\ \E s \in pending :
         \/ /\ pending' = pending \ {s}
            /\ ret' = {s}
            /\ UNCHANGED <<phase, loops, failures>>
         \/ ReturnError

-----------------------------------------------------------------------------

Init ==
    /\ phase = "begin"
    /\ pending = {}
    /\ ret = {}
    /\ loops = {}
    /\ failures = 0

(* BeginTx with ReadOnly. *)
BeginTx ==
    /\ phase = "begin"
    /\ \/ /\ phase' = "query"
          /\ UNCHANGED <<pending, ret, loops, failures>>
       \/ ReturnError

(* QueryContext of the subnets joined with their availability zones. *)
Query ==
    /\ phase = "query"
    /\ \/ /\ phase' = "scan"
          /\ pending' = Subnets
          /\ UNCHANGED <<ret, loops, failures>>
       \/ ReturnError

(* rows.Next() yields a row; a Scan error returns. *)
NextRow ==
    /\ phase = "scan"
    /\ \E s \in pending :
         \/ /\ pending' = pending \ {s}
            /\ ret' = ret \cup {s}
            /\ UNCHANGED <<phase, loops, failures>>
         \/ ReturnError

(* rows.Next() returns false: at the end of the result set, or early with *)
(* an error in rows.Err() that the loop does not look at.                 *)
EndRows ==
    /\ phase = "scan"
    /\ \/ /\ pending = {}
          /\ UNCHANGED failures
       \/ /\ pending # {}
          /\ CanFail
    /\ phase' = "commit"
    /\ UNCHANGED <<pending, ret, loops>>

(* tx.Commit; getSubnets returns ret. *)
Commit ==
    /\ phase = "commit"
    /\ \/ /\ phase' = "listed"
          /\ UNCHANGED <<pending, ret, loops, failures>>
       \/ ReturnError

(* The runner (spec_modelled): a loop per listed item, or no loop at all  *)
(* when listing failed.                                                    *)
StartLoops ==
    /\ phase \in {"listed", "failed"}
    /\ \/ /\ phase = "listed"
          /\ phase' = "running"
          /\ loops' = ret
       \/ /\ phase = "failed"
          /\ phase' = "aborted"
          /\ UNCHANGED loops
    /\ UNCHANGED <<pending, ret, failures>>

Next == BeginTx \/ Query \/ NextRow \/ EndRows \/ Commit \/ StartLoops

Spec == Init /\ [][Next]_vars

-----------------------------------------------------------------------------

TypeOK ==
    /\ phase \in Phase
    /\ pending \subseteq Subnets
    /\ ret \subseteq Subnets
    /\ loops \subseteq Subnets
    /\ failures \in 0..MaxFailures

(* Spec 4.1 and 4.4: a listing either fails and no loop starts, or every   *)
(* subnet gets its loop; the runner never proceeds on a partial result.   *)
ListingComplete == phase = "running" => loops = Subnets

(* Every row the query yields while reading succeeds is appended as its   *)
(* own item: a subnet is left without a loop only when a read of the      *)
(* listing failed.                                                         *)
PartialOnlyOnError ==
    phase = "running" /\ loops # Subnets => failures > 0

(* The inductive strengthening of PartialOnlyOnError: while no call has  *)
(* failed, the rows scanned and the rows still to come make up all the    *)
(* subnets, a listing that reached its commit holds every subnet, and the *)
(* runner starts exactly the loops that were listed.                       *)
ListingInv ==
    /\ TypeOK
    /\ failures = 0 =>
         /\ phase \notin {"failed", "aborted"}
         /\ phase = "scan" => ret \cup pending = Subnets
         /\ phase \in {"commit", "listed", "running"} => ret = Subnets
    /\ phase = "running" => loops = ret

-----------------------------------------------------------------------------

LEMMA ListingTypeCorrectStep == TypeOK /\ [Next]_vars => TypeOK'
BY ListingAssumption
DEF TypeOK, Phase, Next, BeginTx, Query, NextRow, EndRows, Commit,
    StartLoops, ReturnError, CanFail, vars

(* The listing's variables keep their types, for every set of subnets. *)
THEOREM ListingTypeCorrect == Spec => []TypeOK
<1>1. Init => TypeOK
    BY ListingAssumption DEF Init, TypeOK, Phase
<1>2. QED
    BY <1>1, ListingTypeCorrectStep, PTL DEF Spec

LEMMA InitListingInv == Init => ListingInv
BY ListingAssumption DEF Init, ListingInv, TypeOK, Phase

(* Every step keeps ListingInv: a scanned row moves from pending to ret,  *)
(* and every way out of the scan with rows left, or out of getSubnets     *)
(* with an error, counts a failure.                                        *)
LEMMA NextListingInv == ListingInv /\ [Next]_vars => ListingInv'
<1> SUFFICES ASSUME ListingInv, [Next]_vars PROVE ListingInv'
    OBVIOUS
<1>0. TypeOK'
    BY ListingTypeCorrectStep DEF ListingInv
<1> USE <1>0 DEF ListingInv, TypeOK
<1>1. CASE ReturnError
    BY <1>1 DEF ReturnError, CanFail
<1>2. CASE BeginTx
    BY <1>1, <1>2 DEF BeginTx
<1>3. CASE Query
    BY <1>1, <1>3 DEF Query
<1>4. ASSUME NEW s \in pending, phase = "scan",
             pending' = pending \ {s}, ret' = ret \cup {s},
             UNCHANGED <<phase, loops, failures>>
      PROVE  ListingInv'
    BY <1>4
<1>5. CASE NextRow
    BY <1>1, <1>4, <1>5 DEF NextRow
<1>6. CASE EndRows
    BY <1>6 DEF EndRows, CanFail
<1>7. CASE Commit
    BY <1>1, <1>7 DEF Commit
<1>8. CASE StartLoops
    BY <1>8 DEF StartLoops
<1>9. CASE UNCHANGED vars
    BY <1>9 DEF vars
<1>10. QED
    BY <1>2, <1>3, <1>5, <1>6, <1>7, <1>8, <1>9 DEF Next

(* For every set of subnets and every failure bound: the runner starts    *)
(* loops for fewer than all subnets only after a call of getSubnets, a    *)
(* scan or the iteration itself has failed.                                *)
THEOREM PartialOnlyOnErrorHolds == Spec => []PartialOnlyOnError
<1>1. ListingInv => PartialOnlyOnError
    BY ListingAssumption DEF ListingInv, PartialOnlyOnError, TypeOK
<1>2. QED
    BY InitListingInv, NextListingInv, <1>1, PTL DEF Spec

=============================================================================
