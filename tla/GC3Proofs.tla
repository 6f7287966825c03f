------------------------------ MODULE GC3Proofs -----------------------------
(***************************************************************************)
(* Proofs about one node's GC3 reconciliation, for every set of tasks and *)
(* every failure bound: the type invariant, and that an address is never  *)
(* released at the service while the node still has the task's network.  *)
(***************************************************************************)
EXTENDS GC3, TLAPS

USE GC3Assumption

LEMMA InitTypeOK == Init => TypeOK
BY DEF Init, TypeOK, PC, NoTask

(* Every step of the GC function and of the environment keeps the types. *)
LEMMA NextTypeOK == TypeOK /\ [Next]_vars => TypeOK'
<1> SUFFICES ASSUME TypeOK, [Next]_vars PROVE TypeOK'
    OBVIOUS
<1> USE DEF TypeOK, PC, EnvUnchanged
<1>1. CASE GetIdentity
    BY <1>1 DEF GetIdentity, CanFail, Abort
<1>2. CASE ListRunningTasks
    BY <1>2 DEF ListRunningTasks, CanFail, Abort, FetchRunningTasks
<1>3. CASE RequestGC
    BY <1>3 DEF RequestGC, CanFail, Abort
<1>4. CASE GetAssignment
    BY <1>4 DEF GetAssignment, CanFail, ItemFails
<1>5. CASE TeardownNetwork
    BY <1>5 DEF TeardownNetwork, CanFail, ItemFails
<1>6. CASE UnassignIP
    BY <1>6 DEF UnassignIP, CanFail, ItemFails
<1>7. CASE Finish
    BY <1>7 DEF Finish
<1>8. ASSUME NEW t \in Tasks, Launch(t) PROVE TypeOK'
    BY <1>8 DEF Launch
<1>9. ASSUME NEW t \in Tasks, SetUpNetwork(t) PROVE TypeOK'
    BY <1>9 DEF SetUpNetwork
<1>10. ASSUME NEW t \in Tasks, Stop(t) PROVE TypeOK'
    BY <1>10 DEF Stop
<1>11. ASSUME NEW t \in Tasks, CleanExit(t) PROVE TypeOK'
    BY <1>11 DEF CleanExit
<1>12. CASE UNCHANGED vars
    BY <1>12 DEF vars
<1>13. QED
    BY <1>1, <1>2, <1>3, <1>4, <1>5, <1>6, <1>7, <1>8, <1>9, <1>10, <1>11,
       <1>12 DEF Next, GCStep, Environment

(* The variables of GC3 always have their types. *)
THEOREM GC3TypeCorrect == Spec => []TypeOK
BY InitTypeOK, NextTypeOK, PTL DEF Spec

-----------------------------------------------------------------------------

LEMMA InitTeardownInv == Init => TeardownInv
BY InitTypeOK DEF Init, TeardownInv, NoUnassignBeforeTeardown

(* Every step keeps TeardownInv: only UnassignIP shrinks assigned, and it *)
(* is reached from a successful teardown of the same task.                *)
LEMMA NextTeardownInv == TeardownInv /\ [Next]_vars => TeardownInv'
<1> SUFFICES ASSUME TeardownInv, [Next]_vars PROVE TeardownInv'
    OBVIOUS
<1>0. TypeOK'
    BY NextTypeOK DEF TeardownInv
<1> USE <1>0 DEF TeardownInv, NoUnassignBeforeTeardown, EnvUnchanged
<1>1. CASE GetIdentity
    BY <1>1 DEF GetIdentity, CanFail, Abort
<1>2. CASE ListRunningTasks
    BY <1>2 DEF ListRunningTasks, CanFail, Abort
<1>3. CASE RequestGC
    BY <1>3 DEF RequestGC, CanFail, Abort
<1>4. CASE GetAssignment
    <2>1. UNCHANGED <<assigned, localNet, setUp>> /\ pc' # "tornDown"
        BY <1>4 DEF GetAssignment, ItemFails
    <2>2. pc' = "fetched" => cur' \in assigned
        BY <1>4 DEF GetAssignment, ItemFails, CanFail
    <2>3. QED
        BY <2>1, <2>2 DEF TypeOK
<1>5. CASE TeardownNetwork
    BY <1>5 DEF TeardownNetwork, CanFail, ItemFails
<1>6. CASE UnassignIP
    BY <1>6 DEF UnassignIP, CanFail, ItemFails
<1>7. CASE Finish
    BY <1>7 DEF Finish
<1>8. ASSUME NEW t \in Tasks, Launch(t) PROVE TeardownInv'
    BY <1>8 DEF Launch
<1>9. ASSUME NEW t \in Tasks, SetUpNetwork(t) PROVE TeardownInv'
    BY <1>9 DEF SetUpNetwork, TypeOK
<1>10. ASSUME NEW t \in Tasks, Stop(t) PROVE TeardownInv'
    BY <1>10 DEF Stop
<1>11. ASSUME NEW t \in Tasks, CleanExit(t) PROVE TeardownInv'
    BY <1>11 DEF CleanExit
<1>12. CASE UNCHANGED vars
    BY <1>12 DEF vars
<1>13. QED
    BY <1>1, <1>2, <1>3, <1>4, <1>5, <1>6, <1>7, <1>8, <1>9, <1>10, <1>11,
       <1>12 DEF Next, GCStep, Environment

(* Whatever fails and however the executor interleaves, a node never      *)
(* keeps the network of a task whose assignment the service has released. *)
THEOREM NoUnassignBeforeTeardownHolds == Spec => []NoUnassignBeforeTeardown
BY InitTeardownInv, NextTeardownInv, PTL DEF Spec, TeardownInv

(* TeardownInv at every point of every behaviour. *)
THEOREM TeardownInvHolds == Spec => []TeardownInv
BY InitTeardownInv, NextTeardownInv, PTL DEF Spec

-----------------------------------------------------------------------------

(* The strengthening of ItemAccounted: TeardownInv, and an item finished  *)
(* without error this cycle was set up, so the executor never sets it up  *)
(* again and gives it a new network or assignment.                        *)
ItemInv ==
    /\ TeardownInv
    /\ ItemAccounted
    /\ done \ errs \subseteq setUp

LEMMA InitItemInv == Init => ItemInv
BY InitTeardownInv DEF Init, ItemInv, ItemAccounted

(* Only UnassignIP adds an item to done without an error, and it is on a  *)
(* task whose network the same loop just tore down and that is set up.    *)
LEMMA NextItemInv == ItemInv /\ [Next]_vars => ItemInv'
<1> SUFFICES ASSUME ItemInv, [Next]_vars PROVE ItemInv'
    OBVIOUS
<1>0. TeardownInv'
    BY NextTeardownInv DEF ItemInv
<1> USE <1>0 DEF ItemInv, ItemAccounted, TeardownInv, TypeOK, EnvUnchanged
<1>1. CASE GetIdentity
    BY <1>1 DEF GetIdentity, CanFail, Abort
<1>2. CASE ListRunningTasks
    BY <1>2 DEF ListRunningTasks, CanFail, Abort
<1>3. CASE RequestGC
    BY <1>3 DEF RequestGC, CanFail, Abort
<1>4. CASE GetAssignment
    BY <1>4 DEF GetAssignment, CanFail, ItemFails
<1>5. CASE TeardownNetwork
    BY <1>5 DEF TeardownNetwork, CanFail, ItemFails
<1>6. CASE UnassignIP
    BY <1>6 DEF UnassignIP, CanFail, ItemFails
<1>7. CASE Finish
    BY <1>7 DEF Finish
<1>8. ASSUME NEW t \in Tasks, Launch(t) PROVE ItemInv'
    BY <1>8 DEF Launch
<1>9. ASSUME NEW t \in Tasks, SetUpNetwork(t) PROVE ItemInv'
    BY <1>9 DEF SetUpNetwork
<1>10. ASSUME NEW t \in Tasks, Stop(t) PROVE ItemInv'
    BY <1>10 DEF Stop
<1>11. ASSUME NEW t \in Tasks, CleanExit(t) PROVE ItemInv'
    BY <1>11 DEF CleanExit
<1>12. CASE UNCHANGED vars
    BY <1>12 DEF vars
<1>13. QED
    BY <1>1, <1>2, <1>3, <1>4, <1>5, <1>6, <1>7, <1>8, <1>9, <1>10, <1>11,
       <1>12 DEF Next, GCStep, Environment

(* Best effort per item, for every task set: an item GC finished without  *)
(* an error has neither a local network nor an assignment, although the   *)
(* executor sets up and cleans up tasks between the calls of the loop.    *)
THEOREM ItemAccountedHolds == Spec => []ItemAccounted
BY InitItemInv, NextItemInv, PTL DEF Spec, ItemInv

-----------------------------------------------------------------------------

(* Every step of GC and of the executor is a step of NodeNetworkSpec on   *)
(* the task lifecycle, the assignments and the node's networks, or leaves *)
(* them unchanged.                                                         *)
LEMMA StepRefines ==
    TeardownInv /\ [Next]_vars => [GCNode!Next]_GCNode!avars
<1> SUFFICES ASSUME TeardownInv, [Next]_vars
             PROVE  [GCNode!Next]_GCNode!avars
    OBVIOUS
<1> DEFINE Stutter == UNCHANGED <<launched, running, setUp, assigned, localNet>>
<1>0. Stutter => [GCNode!Next]_GCNode!avars
    BY DEF GCNode!avars
<1> USE DEF TeardownInv, NoUnassignBeforeTeardown, TypeOK, EnvUnchanged
<1>1. CASE GetIdentity \/ ListRunningTasks \/ RequestGC \/ GetAssignment
           \/ Finish
    BY <1>0, <1>1 DEF GetIdentity, ListRunningTasks, RequestGC,
       GetAssignment, Finish, Abort, CanFail, ItemFails
<1>2. CASE TeardownNetwork
    <2>1. CASE cur \in localNet /\ localNet' = localNet \ {cur}
        <3>1. GCNode!TearDown(cur)
            BY <1>2, <2>1 DEF TeardownNetwork, ItemFails, GCNode!TearDown
        <3>2. cur \in Tasks
            BY <1>2 DEF TeardownNetwork
        <3>3. QED
            BY <3>1, <3>2 DEF GCNode!Next
    <2>2. CASE ~(cur \in localNet /\ localNet' = localNet \ {cur})
        BY <1>0, <1>2, <2>2 DEF TeardownNetwork, ItemFails, CanFail
    <2>3. QED
        BY <2>1, <2>2
<1>3. CASE UnassignIP
    <2>1. CASE cur \in assigned /\ assigned' = assigned \ {cur}
        <3>1. GCNode!Release(cur)
            BY <1>3, <2>1 DEF UnassignIP, ItemFails, GCNode!Release
        <3>2. cur \in Tasks
            BY <1>3 DEF UnassignIP
        <3>3. QED
            BY <3>1, <3>2 DEF GCNode!Next
    <2>2. CASE ~(cur \in assigned /\ assigned' = assigned \ {cur})
        BY <1>0, <1>3, <2>2 DEF UnassignIP, ItemFails, CanFail
    <2>3. QED
        BY <2>1, <2>2
<1>4. ASSUME NEW t \in Tasks,
             Launch(t) \/ SetUpNetwork(t) \/ Stop(t) \/ CleanExit(t)
      PROVE  GCNode!Next
    BY <1>4 DEF Launch, SetUpNetwork, Stop, CleanExit, GCNode!Next,
       GCNode!Launch, GCNode!SetUpNetwork, GCNode!Stop, GCNode!CleanExit
<1>5. CASE UNCHANGED vars
    BY <1>0, <1>5 DEF vars
<1>6. QED
    BY <1>1, <1>2, <1>3, <1>4, <1>5 DEF Next, GCStep, Environment

(* For every set of tasks and every failure bound, GC implements          *)
(* NodeNetworkSpec: however its calls fail and the executor interleaves,  *)
(* it only ever tears down a network or releases an assignment whose      *)
(* network is gone, one task at a time, and changes nothing else the      *)
(* service or the node holds.                                              *)
THEOREM GCRefinement == Spec => GCRefined
<1>1. Init => GCNode!Init
    BY DEF Init, GCNode!Init
<1>2. QED
    BY <1>1, InitTeardownInv, NextTeardownInv, StepRefines, PTL
    DEF Spec, GCRefined, GCNode!Spec

=============================================================================
