------------------------------ MODULE RouterLeds ------------------------------
(* coap_router.c on top of its Bluetooth side in NusLink: the two LEDs, and the *)
(* role OpenThread has. The callback is told that the role has changed and asks *)
(* for the role of the moment, so it may not see every role. It only switches   *)
(* LEDs on, until the node is attached no more. ROUTER_LED and CHILD_LED are    *)
(* the same LED.                                                                *)
EXTENDS NusLink

Attached == {"child", "router", "leader"}
Role == Attached \cup {"disabled", "detached"}

VARIABLES
  role,
  announced,       \* OT_CHANGED_THREAD_ROLE is waiting for its callback
  LEADER_LED, ROUTER_LED

routerVars == <<role, announced, LEADER_LED, ROUTER_LED>>
allVars == <<vars, routerVars>>

RouterTypeOK ==
  /\ TypeOK
  /\ role \in Role /\ announced \in BOOLEAN
  /\ LEADER_LED \in BOOLEAN /\ ROUTER_LED \in BOOLEAN

RouterInit ==
  /\ Init
  /\ role = "disabled" /\ announced = FALSE
  /\ LEADER_LED = FALSE /\ ROUTER_LED = FALSE

(* OpenThread changes its role, from openthread_run on, which follows           *)
(* ble_enable.                                                                  *)
ChangeRole ==
  /\ app = "coap_router" /\ up
  /\ role' \in Role \ {role}
  /\ announced' = TRUE
  /\ UNCHANGED <<vars, LEADER_LED, ROUTER_LED>>

\* Fault: the LED of the leader is never cleared.
StateChangedHalf ==
  /\ announced
  /\ announced' = FALSE
  /\ LEADER_LED' = (role = "leader" \/ LEADER_LED)
  /\ ROUTER_LED' = (role \in {"child", "router"} \/ (role \in Attached /\ ROUTER_LED))
  /\ UNCHANGED <<vars, role>>

(* on_thread_state_changed.                                                     *)
StateChanged ==
  /\ announced
  /\ announced' = FALSE
  /\ LEADER_LED' = (role = "leader" \/ (role \in Attached /\ LEADER_LED))
  /\ ROUTER_LED' = (role \in {"child", "router"} \/ (role \in Attached /\ ROUTER_LED))
  /\ UNCHANGED <<vars, role>>

RouterNext ==
  \/ Next /\ UNCHANGED routerVars
  \/ ChangeRole \/ StateChanged

RouterSpec == RouterInit /\ [][RouterNext]_allVars /\ Fairness

-------------------------------------------------------------------------------
(* The README of coap_router: LED 1, which is LEADER_LED, is lit when the       *)
(* OpenThread connection is established. A node that became a child or a router *)
(* without having been the leader has it off.                                   *)
Led1ShowsConnection == ~announced => (LEADER_LED <=> role \in Attached)

(* What the code keeps of it, whichever roles the callback did not see: neither *)
(* LED outlasts the connection, and the one of the present role is lit. That of *)
(* an earlier role may be lit as well: only losing the network puts LEDs off.   *)
LedsShowAttachment ==
  ~announced =>
    /\ LEADER_LED \/ ROUTER_LED <=> role \in Attached
    /\ role \in {"child", "router"} => ROUTER_LED
    /\ role = "leader" => LEADER_LED

===============================================================================
