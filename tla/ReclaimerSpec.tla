---------------------------- MODULE ReclaimerSpec ----------------------------
(***************************************************************************)
(* What the excess-branch reclaimer promises, without its cycles, its     *)
(* transactions or its replicas (spec 4.1, 4.3 and 5).  A branch ENI row  *)
(* leaves the ledger in one step, and only when it has no attachment and  *)
(* its interface carries no IPv6 address and at most its primary IPv4     *)
(* address.  An interface leaves the cloud only after its row has left    *)
(* the ledger and only while it is idle; an interface whose cloud delete  *)
(* failed is reported as a leak.  The attacher is the same environment as *)
(* in ExcessBranches, without its step bound.                              *)
(***************************************************************************)
EXTENDS Naturals

CONSTANTS NumENIs, MissingInCloud, InitAttached

VARIABLES ledger, attached, cloud, ipv4, ipv6, leaked

avars == <<ledger, attached, cloud, ipv4, ipv6, leaked>>

ENI == 1..NumENIs

(* An interface with no IPv6 address and at most its primary IPv4 one. *)
Idle(e) == ipv6[e] = 0 /\ ipv4[e] <= 1

Init ==
    /\ ledger = ENI
    /\ attached = InitAttached
    /\ cloud = ENI \ MissingInCloud
    /\ ipv4 = [e \in ENI |-> 1]
    /\ ipv6 = [e \in ENI |-> 0]
    /\ leaked = {}

(* The ledger forgets an unattached row whose interface is idle. *)
Reclaim(e) ==
    /\ e \in (ledger \ attached) \cap cloud
    /\ Idle(e)
    /\ ledger' = ledger \ {e}
    /\ UNCHANGED <<attached, cloud, ipv4, ipv6, leaked>>

(* The cloud deletes an idle interface the ledger no longer has. *)
RemoveInterface(e) ==
    /\ e \in cloud \ ledger
    /\ Idle(e)
    /\ cloud' = cloud \ {e}
    /\ UNCHANGED <<ledger, attached, ipv4, ipv6, leaked>>

(* A cloud delete of an interface the ledger no longer has failed. *)
ReportLeak(e) ==
    /\ e \in cloud \ ledger
    /\ leaked' = leaked \cup {e}
    /\ UNCHANGED <<ledger, attached, cloud, ipv4, ipv6>>

Attach(e) ==
    /\ e \in ledger \ attached
    /\ attached' = attached \cup {e}
    /\ UNCHANGED <<ledger, cloud, ipv4, ipv6, leaked>>

AssignIP(e) ==
    /\ e \in attached \cap cloud
    /\ \/ /\ ipv4' = [ipv4 EXCEPT ![e] = @ + 1]
          /\ UNCHANGED ipv6
       \/ /\ ipv6' = [ipv6 EXCEPT ![e] = @ + 1]
          /\ UNCHANGED ipv4
    /\ UNCHANGED <<ledger, attached, cloud, leaked>>

(* A detach releases the addresses it assigned, or leaves some behind. *)
Detach(e) ==
    /\ e \in attached
    /\ attached' = attached \ {e}
    /\ \/ /\ ipv4' = [ipv4 EXCEPT ![e] = 1]
          /\ ipv6' = [ipv6 EXCEPT ![e] = 0]
       \/ UNCHANGED <<ipv4, ipv6>>
    /\ UNCHANGED <<ledger, cloud, leaked>>

Next ==
    \E e \in ENI :
        \/ Reclaim(e) \/ RemoveInterface(e) \/ ReportLeak(e)
        \/ Attach(e) \/ AssignIP(e) \/ Detach(e)

Spec == Init /\ [][Next]_avars

=============================================================================
