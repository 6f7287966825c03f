------------------------------- MODULE GC3 ---------------------------------
(***************************************************************************)
(* The GC3 reconciliation of one node (vpc/tool/gc3, function GC): read   *)
(* the node's identity, list the running tasks from the source of truth,  *)
(* ask the VPC service (GCV3, soft) which assignments are stale, and for  *)
(* each one get the assignment, tear down the local network and unassign. *)
(*                                                                         *)
(* The VPC service and the task lifecycle are not under src/ and are the  *)
(* environment: tasks are launched and stopped, an assignment is made and *)
(* the local network set up for a running task, and the executor may      *)
(* clean up a stopped task itself.                                          *)
(***************************************************************************)
EXTENDS Naturals, FiniteSets

CONSTANTS
    Tasks,          \* task IDs
    SourceOfTruth,  \* args.SourceOfTruth
    MaxFailures     \* bound on injected failures of the calls of a cycle

ASSUME GC3Assumption ==
    /\ IsFiniteSet(Tasks)
    /\ SourceOfTruth \in {"kubernetes", "mesos"}
    /\ MaxFailures \in Nat

VARIABLES
    launched,   \* tasks the orchestrator has started
    running,    \* tasks the source of truth lists (terminal but not cleaned up included)
    setUp,      \* tasks that have been given an assignment and a network
    assigned,   \* assignments the VPC service holds for this node
    localNet,   \* tasks whose local network state exists on the node
    pc,         \* where the GC function is
    listed,     \* req.RunningTaskIDs of the current cycle
    todo,       \* resp.RemovedAssignments not yet processed
    cur,        \* the task ID the loop is on
    done,       \* the task IDs the loop has finished with this cycle
    errs,       \* the task IDs appended to the multierror this cycle
    result,     \* what the last cycle returned
    failures

vars == <<launched, running, setUp, assigned, localNet, pc, listed, todo, cur,
          done, errs, result, failures>>

NoTask == "none"

PC == {"idle", "identified", "listed", "requested", "fetched", "tornDown"}

(* The task IDs the source of truth yields: the pods the kubelet lists, or *)
(* every task of every executor in the mesos state, terminal ones         *)
(* included.  Both are the tasks the orchestrator still holds, which is   *)
(* what running stands for.                                                *)
FetchRunningTasks == {t \in Tasks : t \in running}

(* The cycle returns early with an error. *)
Abort ==
    /\ pc' = "idle"
    /\ result' = "error"
    /\ UNCHANGED <<listed, todo, cur, done, errs>>

CanFail ==
    /\ failures < MaxFailures
    /\ failures' = failures + 1

EnvUnchanged == UNCHANGED <<launched, running, setUp>>

(* Mutants: plausible bugs in the steps below, used to show that each     *)
(* property checked on this module can fail.                              *)

(* The failure is appended but the task is not counted as handled. *)
ItemFailsNoDone(t) ==
    /\ errs' = errs \cup {t}
    /\ todo' = todo \ {t}
    /\ cur' = NoTask
    /\ pc' = "requested"
    /\ UNCHANGED done

(* No continue after a failed teardown: the loop goes on to unassign. *)
TeardownNetworkNoContinue ==
    /\ pc = "fetched"
    /\ \/ /\ localNet' = localNet \ {cur}
          /\ UNCHANGED <<errs, failures>>
       \/ /\ CanFail
          /\ errs' = errs \cup {cur}
          /\ UNCHANGED localNet
    /\ pc' = "tornDown"
    /\ UNCHANGED <<assigned, listed, result, todo, cur, done>>
    /\ EnvUnchanged

(* The allocation is translated wrongly and teardown removes nothing. *)
TeardownNetworkNoop ==
    /\ pc = "fetched"
    /\ pc' = "tornDown"
    /\ UNCHANGED <<assigned, localNet, listed, result, todo, cur, done, errs,
                   failures>>
    /\ EnvUnchanged

(* The error of UnassignIPV3 is dropped (only logged). *)
UnassignIPDropsError ==
    /\ pc = "tornDown"
    /\ \/ /\ assigned' = assigned \ {cur}
          /\ UNCHANGED failures
       \/ /\ CanFail
          /\ UNCHANGED assigned
    /\ done' = done \cup {cur}
    /\ todo' = todo \ {cur}
    /\ cur' = NoTask
    /\ pc' = "requested"
    /\ UNCHANGED <<errs, localNet, listed, result>>
    /\ EnvUnchanged

(* An item's failure is appended to the multierror and the loop goes on. *)
ItemFails(t) ==
    /\ errs' = errs \cup {t}
    /\ done' = done \cup {t}
    /\ todo' = todo \ {t}
    /\ cur' = NoTask
    /\ pc' = "requested"

-----------------------------------------------------------------------------

Init ==
    /\ launched = {}
    /\ running = {}
    /\ setUp = {}
    /\ assigned = {}
    /\ localNet = {}
    /\ pc = "idle"
    /\ listed = {}
    /\ todo = {}
    /\ cur = NoTask
    /\ done = {}
    /\ errs = {}
    /\ result = "ok"
    /\ failures = 0

(* GetIdentity; a failure ends the cycle. *)
GetIdentity ==
    /\ pc = "idle"
    /\ \/ /\ pc' = "identified"
          /\ done' = {}
          /\ errs' = {}
          /\ UNCHANGED <<listed, todo, cur, result, failures>>
       \/ /\ CanFail
          /\ Abort
    /\ UNCHANGED <<assigned, localNet>>
    /\ EnvUnchanged

(* kubernetesTasks or mesosTasks: fetch and parse the running tasks.  A   *)
(* failed fetch or a body that does not parse (a mesos task without a     *)
(* name) ends the cycle before any remote call.  Both sources yield the   *)
(* set of tasks the orchestrator lists; an unknown source name is a       *)
(* configuration that fails every cycle and is not a constant value.      *)
ListRunningTasks ==
    /\ pc = "identified"
    /\ \/ /\ CanFail
          /\ Abort
       \/ /\ listed' = FetchRunningTasks
          /\ pc' = "listed"
          /\ UNCHANGED <<todo, cur, done, errs, result, failures>>
    /\ UNCHANGED <<assigned, localNet>>
    /\ EnvUnchanged

(* GCV3 with Soft set: the service answers with this node's assignments   *)
(* whose task is not in the list, and changes nothing itself.             *)
RequestGC ==
    /\ pc = "listed"
    /\ \/ /\ todo' = assigned \ listed
          /\ pc' = "requested"
          /\ UNCHANGED <<listed, cur, done, errs, result, failures>>
       \/ /\ CanFail
          /\ Abort
    /\ UNCHANGED <<assigned, localNet>>
    /\ EnvUnchanged

(* GetAssignment for the next removed assignment. *)
GetAssignment ==
    /\ pc = "requested"
    /\ \E t \in todo :
       \/ /\ t \in assigned
          /\ cur' = t
          /\ pc' = "fetched"
          /\ UNCHANGED <<todo, done, errs, failures>>
       \/ /\ t \notin assigned
          /\ ItemFails(t)
          /\ UNCHANGED failures
       \/ /\ CanFail
          /\ ItemFails(t)
    /\ UNCHANGED <<assigned, localNet, listed, result>>
    /\ EnvUnchanged

(* container2.TeardownNetwork of the allocation the assignment gives. *)
TeardownNetwork ==
    /\ pc = "fetched"
    /\ \/ /\ localNet' = localNet \ {cur}
          /\ pc' = "tornDown"
          /\ UNCHANGED <<todo, cur, done, errs, failures>>
       \/ /\ CanFail
          /\ ItemFails(cur)
          /\ UNCHANGED localNet
    /\ UNCHANGED <<assigned, listed, result>>
    /\ EnvUnchanged

(* UnassignIPV3; a failure is appended, and the loop goes on either way. *)
UnassignIP ==
    /\ pc = "tornDown"
    /\ \/ /\ assigned' = assigned \ {cur}
          /\ done' = done \cup {cur}
          /\ todo' = todo \ {cur}
          /\ cur' = NoTask
          /\ pc' = "requested"
          /\ UNCHANGED <<errs, failures>>
       \/ /\ CanFail
          /\ ItemFails(cur)
          /\ UNCHANGED assigned
    /\ UNCHANGED <<localNet, listed, result>>
    /\ EnvUnchanged

(* result.ErrorOrNil(): the cycle fails when any item failed. *)
Finish ==
    /\ pc = "requested"
    /\ todo = {}
    /\ pc' = "idle"
    /\ result' = IF errs = {} THEN "ok" ELSE "error"
    /\ UNCHANGED <<assigned, localNet, listed, todo, cur, done, errs, failures>>
    /\ EnvUnchanged

-----------------------------------------------------------------------------
(* The environment (spec_modelled). *)

Launch(t) ==
    /\ t \notin launched
    /\ launched' = launched \cup {t}
    /\ running' = running \cup {t}
    /\ UNCHANGED <<setUp, assigned, localNet, pc, listed, todo, cur, done,
                   errs, result, failures>>

(* The executor gets an assignment, then sets up the network. *)
SetUpNetwork(t) ==
    /\ t \in running \ setUp
    /\ setUp' = setUp \cup {t}
    /\ assigned' = assigned \cup {t}
    /\ localNet' = localNet \cup {t}
    /\ UNCHANGED <<launched, running, pc, listed, todo, cur, done, errs,
                   result, failures>>

(* The executor goes away; the task leaves the source of truth. *)
Stop(t) ==
    /\ t \in running
    /\ running' = running \ {t}
    /\ UNCHANGED <<launched, setUp, assigned, localNet, pc, listed, todo, cur,
                   done, errs, result, failures>>

(* A clean exit: the executor tears down and unassigns itself. *)
CleanExit(t) ==
    /\ t \in running
    /\ running' = running \ {t}
    /\ localNet' = localNet \ {t}
    /\ assigned' = assigned \ {t}
    /\ UNCHANGED <<launched, setUp, pc, listed, todo, cur, done, errs,
                   result, failures>>

-----------------------------------------------------------------------------

GCStep ==
    \/ GetIdentity
    \/ ListRunningTasks
    \/ RequestGC
    \/ GetAssignment
    \/ TeardownNetwork
    \/ UnassignIP
    \/ Finish

Environment ==
    \E t \in Tasks : Launch(t) \/ SetUpNetwork(t) \/ Stop(t) \/ CleanExit(t)

Next == GCStep \/ Environment

(* GC is run again and again on the node, and each call runs to its end. *)
Spec == Init /\ [][Next]_vars /\ WF_vars(GCStep)

-----------------------------------------------------------------------------

TypeOK ==
    /\ launched \subseteq Tasks
    /\ running \subseteq launched
    /\ setUp \subseteq launched
    /\ assigned \subseteq setUp
    /\ localNet \subseteq setUp
    /\ pc \in PC
    /\ listed \subseteq Tasks
    /\ todo \subseteq Tasks
    /\ cur \in Tasks \cup {NoTask}
    /\ pc \in {"fetched", "tornDown"} => cur \in Tasks
    /\ done \subseteq Tasks
    /\ errs \subseteq done
    /\ result \in {"ok", "error"}
    /\ failures \in 0..MaxFailures

(* The IP of a task is released only after its local network is gone:    *)
(* UnassignIPV3 is reached only when TeardownNetwork succeeded (the       *)
(* continue of line 301), so no network on the node uses an address the   *)
(* service may hand to another task.                                       *)
NoUnassignBeforeTeardown == localNet \subseteq assigned

(* The inductive strengthening of NoUnassignBeforeTeardown: between a    *)
(* successful teardown and the unassign, the task has no local network,   *)
(* and the task the loop is on is one the executor has set up, so a new   *)
(* setup never gives it a network again.                                   *)
TeardownInv ==
    /\ TypeOK
    /\ NoUnassignBeforeTeardown
    /\ pc = "tornDown" => cur \notin localNet
    /\ pc \in {"fetched", "tornDown"} => cur \in setUp

(* Best effort per item: every removed assignment the loop has finished   *)
(* without appending an error is gone both locally and at the service.    *)
ItemAccounted == \A t \in done \ errs : t \notin localNet /\ t \notin assigned

(* Spec 4.5.3: the running-task list holds every task alive, so GC never  *)
(* tears down the network of a running task.                               *)
NoLiveTeardown == running \cap setUp \subseteq localNet

(* Spec 4.5.6: a task that has stopped eventually has neither a local     *)
(* network nor an assignment, whatever failed in earlier cycles.           *)
Reclaimed ==
    \A t \in Tasks :
        (t \in launched /\ t \notin running) ~> (t \notin localNet /\ t \notin assigned)


(* The collector of the VPC service's view, NodeNetworkSpec, under the    *)
(* identity mapping on the task lifecycle, the assignments and the node's *)
(* networks: the cycle's list, request and per-item bookkeeping are       *)
(* hidden.                                                                 *)
GCNode == INSTANCE NodeNetworkSpec
    WITH launched <- launched, running <- running, setUp <- setUp,
         assigned <- assigned, localNet <- localNet

(* GC implements NodeNetworkSpec: every step of a cycle either leaves the *)
(* node's networks and the assignments alone, tears down one network, or  *)
(* releases one assignment whose network is already gone; it never sets  *)
(* anything up and never touches the task lifecycle.                       *)
GCRefined == GCNode!Spec

=============================================================================
