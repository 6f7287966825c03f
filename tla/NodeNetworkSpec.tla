--------------------------- MODULE NodeNetworkSpec ---------------------------
(***************************************************************************)
(* What garbage collection of a node's task networks promises, without    *)
(* its cycles, its task list or its calls to the VPC service (spec 4.5).  *)
(* A task's resources on a node are an address assignment at the service  *)
(* and the network set up on the node.  The collector removes them one at *)
(* a time and in one order: the network first, and the assignment only    *)
(* once the node no longer has the network, so the service never hands out *)
(* an address a network on the node still uses.  The task lifecycle is   *)
(* the same environment as in GC3.                                         *)
(***************************************************************************)
CONSTANT Tasks

VARIABLES launched, running, setUp, assigned, localNet

avars == <<launched, running, setUp, assigned, localNet>>

Init ==
    /\ launched = {}
    /\ running = {}
    /\ setUp = {}
    /\ assigned = {}
    /\ localNet = {}

(* The collector removes a task's network from the node. *)
TearDown(t) ==
    /\ t \in localNet
    /\ localNet' = localNet \ {t}
    /\ UNCHANGED <<launched, running, setUp, assigned>>

(* The collector releases an assignment whose network is gone. *)
Release(t) ==
    /\ t \in assigned \ localNet
    /\ assigned' = assigned \ {t}
    /\ UNCHANGED <<launched, running, setUp, localNet>>

Launch(t) ==
    /\ t \notin launched
    /\ launched' = launched \cup {t}
    /\ running' = running \cup {t}
    /\ UNCHANGED <<setUp, assigned, localNet>>

SetUpNetwork(t) ==
    /\ t \in running \ setUp
    /\ setUp' = setUp \cup {t}
    /\ assigned' = assigned \cup {t}
    /\ localNet' = localNet \cup {t}
    /\ UNCHANGED <<launched, running>>

Stop(t) ==
    /\ t \in running
    /\ running' = running \ {t}
    /\ UNCHANGED <<launched, setUp, assigned, localNet>>

(* The executor's own cleanup removes both at once when the task exits. *)
CleanExit(t) ==
    /\ t \in running
    /\ running' = running \ {t}
    /\ localNet' = localNet \ {t}
    /\ assigned' = assigned \ {t}
    /\ UNCHANGED <<launched, setUp>>

Next ==
    \E t \in Tasks :
        \/ TearDown(t) \/ Release(t)
        \/ Launch(t) \/ SetUpNetwork(t) \/ Stop(t) \/ CleanExit(t)

Spec == Init /\ [][Next]_avars

=============================================================================
