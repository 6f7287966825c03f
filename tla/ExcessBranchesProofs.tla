------------------------ MODULE ExcessBranchesProofs ------------------------
(***************************************************************************)
(* Proofs about the excess-branch reclaimer, for every value of the        *)
(* constants: the type invariant; ledger-first ordering (NoOrphanRow)     *)
(* with or without the foreign key and with lost commit acknowledgements; *)
(* the agreement of ledger and cloud when commits report their outcome;   *)
(* with the foreign key from branch_eni_attachments to branch_enis, that  *)
(* no DELETE removes an attached row, that no busy interface is deleted   *)
(* in the cloud and that the reclaimer implements ReclaimerSpec; and what *)
(* the DELETE's OFFSET keeps at its own snapshot.                          *)
(***************************************************************************)
EXTENDS ExcessBranches, FiniteSetTheorems, TLAPS

USE ConstantsAssumption

(* The DELETE's subquery only ever returns rows of the set it ranges over. *)
LEMMA ExcessCandidateSubset ==
    ASSUME NEW S
    PROVE  ExcessCandidate(S) \subseteq S
BY DEF ExcessCandidate

(* The DELETE's OFFSET at work: a row the subquery returns has           *)
(* WarmPool newer rows in the set, so at least WarmPool rows of the set   *)
(* remain besides it.                                                      *)
LEMMA ExcessCandidateKeepsPool ==
    ASSUME NEW S \in SUBSET ENI, NEW e \in ExcessCandidate(S)
    PROVE  Cardinality(S \ {e}) >= WarmPool
<1> DEFINE Newer == {x \in S : x > e}
<1>1. IsFiniteSet(S)
    <2>1. IsFiniteSet(1..NumENIs)
        BY FS_Interval
    <2>2. QED
        BY <2>1, FS_Subset DEF ENI
<1>2. IsFiniteSet(S \ {e})
    BY <1>1, FS_RemoveElement
<1>3. Newer \subseteq S \ {e}
    <2>1. e \in ENI
        BY DEF ExcessCandidate
    <2>2. QED
        BY <2>1 DEF ENI
<1>4. Cardinality(Newer) <= Cardinality(S \ {e})
    BY <1>2, <1>3, FS_Subset
<1>5. Cardinality(Newer) = WarmPool
    BY DEF ExcessCandidate
<1>6. QED
    BY <1>4, <1>5

LEMMA InitTypeOK == Init => TypeOK
BY DEF Init, TypeOK, ENI, None, PC, Outcome, InCycle

(* Every step of a worker, of cancellation and of the attacher keeps the  *)
(* variables in their types.                                               *)
LEMMA NextTypeOK == TypeOK /\ [Next]_vars => TypeOK'
<1> SUFFICES ASSUME TypeOK, [Next]_vars PROVE TypeOK'
    OBVIOUS
<1>1. ASSUME NEW w \in Workers, GetSubnets(w) PROVE TypeOK'
    BY <1>1 DEF GetSubnets, TypeOK, PC, InCycle
<1>2. ASSUME NEW w \in Workers, SelectExcess(w) PROVE TypeOK'
    <2>1. ExcessCandidate(ledger \ attached) \subseteq ENI
        BY ExcessCandidateSubset DEF TypeOK
    <2>2. CASE Fail(w)
        BY <1>2, <2>2 DEF SelectExcess, Fail, EndCycle, TypeOK, PC, Outcome, None, InCycle
    <2>3. CASE ExcessCandidate(ledger \ attached) = {} /\ EndCycle(w, "none") /\ UNCHANGED failures
        BY <1>2, <2>3 DEF SelectExcess, EndCycle, TypeOK, PC, Outcome, None, InCycle
    <2>4. ASSUME NEW e \in ExcessCandidate(ledger \ attached),
                 pc' = [pc EXCEPT ![w] = "selected"],
                 cand' = [cand EXCEPT ![w] = e],
                 UNCHANGED <<outcome, failures>>
          PROVE TypeOK'
        BY <1>2, <2>1, <2>4 DEF SelectExcess, TypeOK, PC, InCycle
    <2>5. QED
        BY <1>2, <2>2, <2>3, <2>4 DEF SelectExcess
<1>3. ASSUME NEW w \in Workers, LockExcess(w) PROVE TypeOK'
    BY <1>3 DEF LockExcess, Fail, EndCycle, TypeOK, PC, Outcome, None, InCycle
<1>4. ASSUME NEW w \in Workers, Describe(w) PROVE TypeOK'
    BY <1>4 DEF Describe, Fail, EndCycle, TypeOK, PC, Outcome, None, InCycle
<1>5. ASSUME NEW w \in Workers, Commit(w) PROVE TypeOK'
    BY <1>5 DEF Commit, Fail, EndCycle, TypeOK, PC, Outcome, None, InCycle
<1>6. ASSUME NEW w \in Workers, CloudDelete(w) PROVE TypeOK'
    <2>1. cand[w] \in ENI
        BY <1>6 DEF CloudDelete, TypeOK, InCycle
    <2>2. leaked' \subseteq ENI /\ cloud' \subseteq ENI
        BY <1>6, <2>1 DEF CloudDelete, TypeOK
    <2>3. QED
        BY <1>6, <2>2 DEF CloudDelete, Fail, EndCycle, TypeOK, PC, Outcome, None, InCycle
<1>7. ASSUME NEW w \in Workers, Cancel(w) PROVE TypeOK'
    BY <1>7 DEF Cancel, TypeOK, PC, None, ENI, InCycle
<1>8. ASSUME NEW e \in ENI, Attach(e) PROVE TypeOK'
    BY <1>8 DEF Attach, TypeOK
<1>9. ASSUME NEW e \in ENI, AssignIP(e) PROVE TypeOK'
    BY <1>9 DEF AssignIP, TypeOK
<1>10. ASSUME NEW e \in ENI, Detach(e) PROVE TypeOK'
    BY <1>10 DEF Detach, TypeOK
<1>11. CASE UNCHANGED vars
    BY <1>11 DEF vars, TypeOK
<1>12. QED
    BY <1>1, <1>2, <1>3, <1>4, <1>5, <1>6, <1>7, <1>8, <1>9, <1>10, <1>11
    DEF Next, Worker, Attacher

(* The reclaimer's variables always have their types. *)
THEOREM TypeCorrect == Spec => []TypeOK
BY InitTypeOK, NextTypeOK, PTL DEF Spec

-----------------------------------------------------------------------------

LEMMA InitLockInv == Init => LockInv
BY InitTypeOK DEF Init, LockInv

(* With the foreign key, every step keeps LockInv. *)
LEMMA NextLockInv ==
    ASSUME AttachmentFK
    PROVE  LockInv /\ [Next]_vars => LockInv'
<1> SUFFICES ASSUME LockInv, [Next]_vars PROVE LockInv'
    OBVIOUS
<1>0. TypeOK'
    BY NextTypeOK DEF LockInv
<1> USE <1>0
<1>1. ASSUME NEW w \in Workers, GetSubnets(w) PROVE LockInv'
    BY <1>1 DEF GetSubnets, LockInv, TypeOK
<1>2. ASSUME NEW w \in Workers, SelectExcess(w) PROVE LockInv'
    BY <1>2 DEF SelectExcess, Fail, EndCycle, LockInv, TypeOK
<1>3. ASSUME NEW w \in Workers, LockExcess(w) PROVE LockInv'
    BY <1>3 DEF LockExcess, Fail, EndCycle, LockInv, TypeOK, Locked
<1>4. ASSUME NEW w \in Workers, Describe(w) PROVE LockInv'
    BY <1>4 DEF Describe, Fail, EndCycle, LockInv, TypeOK
<1>5. ASSUME NEW w \in Workers, Commit(w) PROVE LockInv'
    BY <1>5 DEF Commit, Fail, EndCycle, LockInv, TypeOK
<1>6. ASSUME NEW w \in Workers, CloudDelete(w) PROVE LockInv'
    BY <1>6 DEF CloudDelete, Fail, EndCycle, LockInv, TypeOK
<1>7. ASSUME NEW w \in Workers, Cancel(w) PROVE LockInv'
    BY <1>7 DEF Cancel, LockInv, TypeOK
<1>8. ASSUME NEW e \in ENI, Attach(e) PROVE LockInv'
    BY <1>8 DEF Attach, LockInv, TypeOK, Locked
<1>9. ASSUME NEW e \in ENI, AssignIP(e) PROVE LockInv'
    BY <1>9 DEF AssignIP, LockInv, TypeOK
<1>10. ASSUME NEW e \in ENI, Detach(e) PROVE LockInv'
    BY <1>10 DEF Detach, LockInv, TypeOK
<1>11. CASE UNCHANGED vars
    BY <1>11 DEF vars, LockInv, TypeOK
<1>12. QED
    BY <1>1, <1>2, <1>3, <1>4, <1>5, <1>6, <1>7, <1>8, <1>9, <1>10, <1>11
    DEF Next, Worker, Attacher

LEMMA LockInvImpliesSafety == LockInv => NoAttachedDeleted
BY DEF LockInv, NoAttachedDeleted, Deleting

(* With the foreign key from branch_eni_attachments to branch_enis, no    *)
(* DELETE of doDeleteExcessBranches, committed or not, ever removes a row *)
(* that has an attachment, however the loops and the attacher interleave. *)
THEOREM NoAttachedDeletedHolds ==
    ASSUME AttachmentFK
    PROVE  Spec => []NoAttachedDeleted
BY InitLockInv, NextLockInv, LockInvImpliesSafety, PTL DEF Spec

-----------------------------------------------------------------------------

LEMMA InitLedgerInv == Init => LedgerInv
BY InitTypeOK DEF Init, LedgerInv, LedgerCloudAgreement, NoOrphanRow, ENI

(* With or without the foreign key, every step keeps LedgerInv as long    *)
(* as a failed tx.Commit really left the row in the ledger.               *)
LEMMA NextLedgerInv ==
    ASSUME ~LostCommitAck
    PROVE  LedgerInv /\ [Next]_vars => LedgerInv'
<1> SUFFICES ASSUME LedgerInv, [Next]_vars PROVE LedgerInv'
    OBVIOUS
<1>0. TypeOK'
    BY NextTypeOK DEF LedgerInv
<1> USE <1>0 DEF LedgerInv, LedgerCloudAgreement, NoOrphanRow, TypeOK
<1>1. ASSUME NEW w \in Workers, GetSubnets(w) PROVE LedgerInv'
    BY <1>1 DEF GetSubnets
<1>2. ASSUME NEW w \in Workers, SelectExcess(w) PROVE LedgerInv'
    BY <1>2 DEF SelectExcess, Fail, EndCycle
<1>3. ASSUME NEW w \in Workers, LockExcess(w) PROVE LedgerInv'
    BY <1>3 DEF LockExcess, Fail, EndCycle
<1>4. ASSUME NEW w \in Workers, Describe(w) PROVE LedgerInv'
    BY <1>4 DEF Describe, Fail, EndCycle
<1>5. ASSUME NEW w \in Workers, Commit(w) PROVE LedgerInv'
    BY <1>5 DEF Commit, Fail, EndCycle
<1>6. ASSUME NEW w \in Workers, CloudDelete(w) PROVE LedgerInv'
    BY <1>6 DEF CloudDelete, Fail, EndCycle
<1>7. ASSUME NEW w \in Workers, Cancel(w) PROVE LedgerInv'
    BY <1>7 DEF Cancel
<1>8. ASSUME NEW e \in ENI, Attach(e) PROVE LedgerInv'
    BY <1>8 DEF Attach
<1>9. ASSUME NEW e \in ENI, AssignIP(e) PROVE LedgerInv'
    BY <1>9 DEF AssignIP
<1>10. ASSUME NEW e \in ENI, Detach(e) PROVE LedgerInv'
    BY <1>10 DEF Detach
<1>11. CASE UNCHANGED vars
    BY <1>11 DEF vars
<1>12. QED
    BY <1>1, <1>2, <1>3, <1>4, <1>5, <1>6, <1>7, <1>8, <1>9, <1>10, <1>11
    DEF Next, Worker, Attacher

(* Ledger first, for every instance whose commits report their outcome:  *)
(* an interface the ledger has dropped but the cloud still has is being   *)
(* deleted or was logged as a leak, and the reclaimer never leaves a      *)
(* ledger row whose interface is gone.                                     *)
THEOREM LedgerCloudAgreementHolds ==
    ASSUME ~LostCommitAck
    PROVE  Spec => []LedgerCloudAgreement
BY InitLedgerInv, NextLedgerInv, PTL DEF Spec, LedgerInv

-----------------------------------------------------------------------------

LEMMA InitReclaimInv == Init => ReclaimInv
BY InitLockInv DEF Init, ReclaimInv

(* With the foreign key, every step keeps ReclaimInv: only Describe lets  *)
(* a row reach "described", and then only an idle interface in the cloud; *)
(* the attacher cannot touch a locked or committed row.                    *)
LEMMA NextReclaimInv ==
    ASSUME AttachmentFK
    PROVE  ReclaimInv /\ [Next]_vars => ReclaimInv'
<1> SUFFICES ASSUME ReclaimInv, [Next]_vars PROVE ReclaimInv'
    OBVIOUS
<1>0. LockInv' /\ TypeOK'
    BY NextLockInv DEF ReclaimInv, LockInv
<1> USE <1>0 DEF ReclaimInv, LockInv, TypeOK
<1>1. ASSUME NEW w \in Workers, GetSubnets(w) PROVE ReclaimInv'
    BY <1>1 DEF GetSubnets
<1>2. ASSUME NEW w \in Workers, SelectExcess(w) PROVE ReclaimInv'
    BY <1>2 DEF SelectExcess, Fail, EndCycle
<1>3. ASSUME NEW w \in Workers, LockExcess(w) PROVE ReclaimInv'
    BY <1>3 DEF LockExcess, Fail, EndCycle
<1>4. ASSUME NEW w \in Workers, Describe(w) PROVE ReclaimInv'
    BY <1>4 DEF Describe, Fail, EndCycle
<1>5. ASSUME NEW w \in Workers, Commit(w) PROVE ReclaimInv'
    BY <1>5 DEF Commit, Fail, EndCycle
<1>6. ASSUME NEW w \in Workers, CloudDelete(w) PROVE ReclaimInv'
    BY <1>6 DEF CloudDelete, Fail, EndCycle
<1>7. ASSUME NEW w \in Workers, Cancel(w) PROVE ReclaimInv'
    BY <1>7 DEF Cancel
<1>8. ASSUME NEW e \in ENI, Attach(e) PROVE ReclaimInv'
    BY <1>8 DEF Attach, Locked
<1>9. ASSUME NEW e \in ENI, AssignIP(e) PROVE ReclaimInv'
    BY <1>9 DEF AssignIP
<1>10. ASSUME NEW e \in ENI, Detach(e) PROVE ReclaimInv'
    BY <1>10 DEF Detach
<1>11. CASE UNCHANGED vars
    BY <1>11 DEF vars
<1>12. QED
    BY <1>1, <1>2, <1>3, <1>4, <1>5, <1>6, <1>7, <1>8, <1>9, <1>10, <1>11
    DEF Next, Worker, Attacher

(* Every step of the reclaimer and the attacher is a step of               *)
(* ReclaimerSpec on the shared state, or leaves it unchanged.              *)
LEMMA StepRefines ==
    ASSUME AttachmentFK
    PROVE  ReclaimInv /\ [Next]_vars => [Reclaimer!Next]_Reclaimer!avars
<1> SUFFICES ASSUME ReclaimInv, [Next]_vars
             PROVE  [Reclaimer!Next]_Reclaimer!avars
    OBVIOUS
<1> DEFINE Stutter == UNCHANGED <<ledger, attached, cloud, ipv4, ipv6, leaked>>
<1>0. Stutter => [Reclaimer!Next]_Reclaimer!avars
    BY DEF Reclaimer!avars
<1> USE DEF ReclaimInv, LockInv, TypeOK
<1>1. ASSUME NEW w \in Workers, GetSubnets(w) PROVE Stutter
    BY <1>1 DEF GetSubnets
<1>2. ASSUME NEW w \in Workers, SelectExcess(w) PROVE Stutter
    BY <1>2 DEF SelectExcess
<1>3. ASSUME NEW w \in Workers, LockExcess(w) PROVE Stutter
    BY <1>3 DEF LockExcess
<1>4. ASSUME NEW w \in Workers, Describe(w) PROVE Stutter
    BY <1>4 DEF Describe
<1>5. ASSUME NEW w \in Workers, Commit(w) PROVE [Reclaimer!Next]_Reclaimer!avars
    <2>1. CASE ledger' = ledger
        BY <1>0, <1>5, <2>1 DEF Commit
    <2>2. CASE ledger' # ledger
        <3>1. pc[w] = "described" /\ ledger' = ledger \ {cand[w]}
              /\ UNCHANGED <<attached, cloud, ipv4, ipv6, leaked>>
            BY <1>5, <2>2 DEF Commit, Fail
        <3>2. Reclaimer!Reclaim(cand[w])
            BY <3>1 DEF Reclaimer!Reclaim, Reclaimer!Idle, InCycle
        <3>3. cand[w] \in ENI
            BY <3>1 DEF InCycle
        <3>4. QED
            BY <3>2, <3>3 DEF Reclaimer!Next, Reclaimer!ENI, ENI
    <2>3. QED
        BY <2>1, <2>2
<1>6. ASSUME NEW w \in Workers, CloudDelete(w) PROVE [Reclaimer!Next]_Reclaimer!avars
    <2>1. pc[w] = "committed" /\ cand[w] \in ENI /\ cand[w] \in cloud \ ledger
        BY <1>6 DEF CloudDelete, InCycle
    <2>2. CASE Fail(w) /\ leaked' = leaked \cup {cand[w]} /\ UNCHANGED cloud
        <3>1. Reclaimer!ReportLeak(cand[w])
            BY <1>6, <2>1, <2>2 DEF CloudDelete, Fail, EndCycle, Reclaimer!ReportLeak
        <3>2. QED
            BY <2>1, <3>1 DEF Reclaimer!Next, Reclaimer!ENI, ENI
    <2>3. CASE cloud' = cloud \ {cand[w]} /\ EndCycle(w, "deleted")
               /\ UNCHANGED <<leaked, failures>>
        <3>1. Reclaimer!RemoveInterface(cand[w])
            BY <1>6, <2>1, <2>3 DEF CloudDelete, Reclaimer!RemoveInterface, Reclaimer!Idle
        <3>2. QED
            BY <2>1, <3>1 DEF Reclaimer!Next, Reclaimer!ENI, ENI
    <2>4. QED
        BY <1>6, <2>2, <2>3 DEF CloudDelete
<1>7. ASSUME NEW w \in Workers, Cancel(w) PROVE [Reclaimer!Next]_Reclaimer!avars
    <2>1. CASE pc[w] = "committed"
        <3>1. cand[w] \in ENI /\ cand[w] \in cloud \ ledger
            BY <2>1 DEF InCycle
        <3>2. Reclaimer!ReportLeak(cand[w])
            BY <1>7, <2>1, <3>1 DEF Cancel, Reclaimer!ReportLeak
        <3>3. QED
            BY <3>1, <3>2 DEF Reclaimer!Next, Reclaimer!ENI, ENI
    <2>2. CASE pc[w] # "committed"
        BY <1>0, <1>7, <2>2 DEF Cancel
    <2>3. QED
        BY <2>1, <2>2
<1>8. ASSUME NEW e \in ENI, Attach(e) PROVE Reclaimer!Attach(e)
    BY <1>8 DEF Attach, Reclaimer!Attach
<1>9. ASSUME NEW e \in ENI, AssignIP(e) PROVE Reclaimer!AssignIP(e)
    BY <1>9 DEF AssignIP, Reclaimer!AssignIP
<1>10. ASSUME NEW e \in ENI, Detach(e) PROVE Reclaimer!Detach(e)
    BY <1>10 DEF Detach, Reclaimer!Detach
<1>11. CASE UNCHANGED vars
    BY <1>0, <1>11 DEF vars
<1>12. QED
    BY <1>0, <1>1, <1>2, <1>3, <1>4, <1>5, <1>6, <1>7, <1>8, <1>9, <1>10,
       <1>11 DEF Next, Worker, Attacher, Reclaimer!Next, Reclaimer!ENI, ENI

(* With the foreign key, the reclaimer, however its replicas, failures,   *)
(* cancellations and the attacher interleave, implements ReclaimerSpec:   *)
(* a ledger row goes only when unattached and idle in the cloud, and an   *)
(* interface goes only after its row and only when idle.                   *)
THEOREM ReclaimerRefinement ==
    ASSUME AttachmentFK
    PROVE  Spec => ReclaimerRefined
<1>1. Spec => []ReclaimInv
    BY InitReclaimInv, NextReclaimInv, PTL DEF Spec
<1>2. Init => Reclaimer!Init
    BY DEF Init, Reclaimer!Init, Reclaimer!ENI, ENI
<1>3. QED
    BY <1>1, <1>2, StepRefines, PTL DEF Spec, ReclaimerRefined, Reclaimer!Spec

-----------------------------------------------------------------------------

(* With the foreign key, a row an open DELETE holds is never attached or  *)
(* held by a second replica, at every point of every behaviour.            *)
THEOREM LockInvHolds ==
    ASSUME AttachmentFK
    PROVE  Spec => []LockInv
BY InitLockInv, NextLockInv, PTL DEF Spec

(* With the foreign key, a replica past describe holds an interface that  *)
(* is still in the cloud and idle until its cloud delete, although the    *)
(* attacher runs between the two calls, and no two replicas ever hold the *)
(* same committed row, so no interface is deleted twice.                   *)
THEOREM ReclaimInvHolds ==
    ASSUME AttachmentFK
    PROVE  Spec => []ReclaimInv
BY InitReclaimInv, NextReclaimInv, PTL DEF Spec

-----------------------------------------------------------------------------

LEMMA InitOrphanInv == Init => OrphanInv
BY InitTypeOK DEF Init, OrphanInv, NoOrphanRow, ENI

(* With or without the foreign key and with lost commit acknowledgements, *)
(* every step keeps OrphanInv: the ledger loses only a described row,     *)
(* whose interface is in the cloud, and the cloud loses only a committed  *)
(* row's interface, which is no longer in the ledger.                      *)
LEMMA NextOrphanInv == OrphanInv /\ [Next]_vars => OrphanInv'
<1> SUFFICES ASSUME OrphanInv, [Next]_vars PROVE OrphanInv'
    OBVIOUS
<1>0. TypeOK'
    BY NextTypeOK DEF OrphanInv
<1> USE <1>0 DEF OrphanInv, NoOrphanRow, TypeOK
<1>1. ASSUME NEW w \in Workers, GetSubnets(w) PROVE OrphanInv'
    BY <1>1 DEF GetSubnets
<1>2. ASSUME NEW w \in Workers, SelectExcess(w) PROVE OrphanInv'
    BY <1>2 DEF SelectExcess, Fail, EndCycle
<1>3. ASSUME NEW w \in Workers, LockExcess(w) PROVE OrphanInv'
    BY <1>3 DEF LockExcess, Fail, EndCycle, Locked
<1>4. ASSUME NEW w \in Workers, Describe(w) PROVE OrphanInv'
    BY <1>4 DEF Describe, Fail, EndCycle
<1>5. ASSUME NEW w \in Workers, Commit(w) PROVE OrphanInv'
    BY <1>5 DEF Commit, Fail, EndCycle
<1>6. ASSUME NEW w \in Workers, CloudDelete(w) PROVE OrphanInv'
    BY <1>6 DEF CloudDelete, Fail, EndCycle
<1>7. ASSUME NEW w \in Workers, Cancel(w) PROVE OrphanInv'
    BY <1>7 DEF Cancel
<1>8. ASSUME NEW e \in ENI, Attach(e) PROVE OrphanInv'
    BY <1>8 DEF Attach
<1>9. ASSUME NEW e \in ENI, AssignIP(e) PROVE OrphanInv'
    BY <1>9 DEF AssignIP
<1>10. ASSUME NEW e \in ENI, Detach(e) PROVE OrphanInv'
    BY <1>10 DEF Detach
<1>11. CASE UNCHANGED vars
    BY <1>11 DEF vars
<1>12. QED
    BY <1>1, <1>2, <1>3, <1>4, <1>5, <1>6, <1>7, <1>8, <1>9, <1>10, <1>11
    DEF Next, Worker, Attacher

(* Ledger first, for every instance: with or without the foreign key,     *)
(* with lost commit acknowledgements, failures, cancellations and any     *)
(* number of replicas, no ledger row is ever left without its interface   *)
(* unless the interface was missing from the start.                        *)
THEOREM NoOrphanRowHolds == Spec => []NoOrphanRow
BY InitOrphanInv, NextOrphanInv, PTL DEF Spec, OrphanInv

(* Only CloudDelete shrinks the cloud, and it deletes its own candidate,  *)
(* which ReclaimInv keeps idle from Describe to the delete.                *)
LEMMA StepNoBusyCloudDelete ==
    ASSUME ReclaimInv, [Next]_vars
    PROVE  \A e \in cloud \ cloud' : ipv6[e] = 0 /\ ipv4[e] <= 1
<1> SUFFICES ASSUME NEW e \in cloud \ cloud' PROVE ipv6[e] = 0 /\ ipv4[e] <= 1
    OBVIOUS
<1>1. \E w \in Workers : CloudDelete(w) /\ e = cand[w]
    BY DEF Next, Worker, Attacher, GetSubnets, SelectExcess, LockExcess,
           Describe, Commit, CloudDelete, Cancel, Attach, AssignIP, Detach,
           vars
<1>2. QED
    BY <1>1 DEF CloudDelete, ReclaimInv

(* With the foreign key, the reclaimer never deletes in the cloud an      *)
(* interface that carries an IPv6 address or a secondary IPv4 address,    *)
(* although the attacher runs between describe and delete.                *)
THEOREM NoBusyCloudDeleteHolds ==
    ASSUME AttachmentFK
    PROVE  Spec => NoBusyCloudDelete
<1>1. Spec => []ReclaimInv
    BY InitReclaimInv, NextReclaimInv, PTL DEF Spec
<1>2. ReclaimInv /\ [Next]_vars
        => [\A e \in cloud \ cloud' : ipv6[e] = 0 /\ ipv4[e] <= 1]_vars
    BY StepNoBusyCloudDelete
<1>3. QED
    BY <1>1, <1>2, PTL DEF Spec, NoBusyCloudDelete

-----------------------------------------------------------------------------

(* Only SelectExcess of the worker itself moves it from idle to selected, *)
(* and then with a row the subquery returned on the current ledger.       *)
LEMMA SelectChoosesCandidate ==
    ASSUME TypeOK, [Next]_vars, NEW w \in Workers,
           pc[w] = "idle", pc'[w] = "selected"
    PROVE  /\ cand'[w] \in ExcessCandidate(ledger \ attached)
<1> USE DEF TypeOK
<1>1. ASSUME NEW v \in Workers,
             GetSubnets(v) \/ LockExcess(v) \/ Describe(v) \/ Commit(v)
             \/ CloudDelete(v) \/ Cancel(v)
      PROVE  FALSE
    BY <1>1 DEF GetSubnets, LockExcess, Describe, Commit, CloudDelete,
       Cancel, Fail, EndCycle
<1>2. ASSUME NEW v \in Workers, SelectExcess(v), v # w
      PROVE  FALSE
    BY <1>2 DEF SelectExcess, Fail, EndCycle
<1>3. ASSUME SelectExcess(w)
      PROVE  cand'[w] \in ExcessCandidate(ledger \ attached)
    BY <1>3 DEF SelectExcess, Fail, EndCycle
<1>4. ASSUME NEW e \in ENI, Attach(e) \/ AssignIP(e) \/ Detach(e)
      PROVE  FALSE
    BY <1>4 DEF Attach, AssignIP, Detach
<1>5. CASE UNCHANGED vars
    BY <1>5 DEF vars
<1>6. QED
    BY <1>1, <1>2, <1>3, <1>4, <1>5 DEF Next, Worker, Attacher

(* For every instance: the row a replica's DELETE chooses leaves at least *)
(* warmPoolPerSubnet other unattached rows in the snapshot it was chosen  *)
(* from.  NeverBelowWarmPool fails only through steps after the snapshot. *)
THEOREM SnapshotKeepsWarmPoolHolds == Spec => SnapshotKeepsWarmPool
<1>1. TypeOK /\ [Next]_vars
        => [\A w \in Workers :
              pc[w] = "idle" /\ pc'[w] = "selected"
                => Cardinality((ledger \ attached) \ {cand'[w]}) >= WarmPool]_vars
    <2> SUFFICES ASSUME TypeOK, [Next]_vars, NEW w \in Workers,
                        pc[w] = "idle", pc'[w] = "selected"
                 PROVE  Cardinality((ledger \ attached) \ {cand'[w]}) >= WarmPool
        OBVIOUS
    <2>1. cand'[w] \in ExcessCandidate(ledger \ attached)
        BY SelectChoosesCandidate
    <2>2. ledger \ attached \in SUBSET ENI
        BY DEF TypeOK
    <2>3. QED
        BY <2>1, <2>2, ExcessCandidateKeepsPool
<1>2. QED
    BY <1>1, TypeCorrect, PTL DEF Spec, SnapshotKeepsWarmPool

=============================================================================
