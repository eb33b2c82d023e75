---------------------------- MODULE UserialPort ----------------------------
(***************************************************************************)
(* What the vendor library promises the Bluetooth stack about the port it *)
(* opens with BT_VND_OP_USERIAL_OPEN and closes with USERIAL_CLOSE         *)
(* (bt_vendor_lib.h, and the host-facing reader and lifecycle sections of *)
(* the subsystem's description):                                           *)
(*   - the open either fails or returns a port whose threads are running; *)
(*   - while the port is open, a frame the stack writes into the bridge is *)
(*     eventually taken by the library (forwarded to the controller);     *)
(*     once the close has begun it may still be taken, or dropped;         *)
(*   - the threads stop only after the close has begun, and the close     *)
(*     returns, releasing the port, only once they have all stopped; it   *)
(*     always returns.                                                     *)
(***************************************************************************)
VARIABLES
  port,       \* "idle", "failed", "open", "closing" or "released"
  hostFrame,  \* the stack has a frame waiting in the bridge
  busy        \* some thread of the port is running

vars == <<port, hostFrame, busy>>

Init == port = "idle" /\ hostFrame = FALSE /\ busy = FALSE

Open ==
  /\ port = "idle"
  /\ port' \in {"open", "failed"}
  /\ busy' = (port' = "open")
  /\ UNCHANGED hostFrame

\* the stack writes a frame while it holds an open port
HostWrite ==
  /\ port = "open" /\ ~hostFrame
  /\ hostFrame' = TRUE
  /\ UNCHANGED <<port, busy>>

\* the library takes the frame out of the bridge
Forward ==
  /\ hostFrame /\ port \in {"open", "closing"}
  /\ hostFrame' = FALSE
  /\ UNCHANGED <<port, busy>>

Close ==
  /\ port = "open"
  /\ port' = "closing"
  /\ UNCHANGED <<hostFrame, busy>>

\* the last thread of the port ends
Stop ==
  /\ port = "closing" /\ busy
  /\ busy' = FALSE
  /\ UNCHANGED <<port, hostFrame>>

Release ==
  /\ port = "closing" /\ ~busy
  /\ port' = "released"
  /\ UNCHANGED <<hostFrame, busy>>

Next == Open \/ HostWrite \/ Forward \/ Close \/ Stop \/ Release

\* an open port keeps serving the bridge; a close that has begun finishes
Spec == Init /\ [][Next]_vars
        /\ WF_vars(port = "open" /\ Forward)
        /\ WF_vars(Stop) /\ WF_vars(Release)
=============================================================================
