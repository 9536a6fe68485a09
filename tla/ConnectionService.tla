-------------------------- MODULE ConnectionService --------------------------
(***************************************************************************)
(* What the server promises its clients and its operator, with no threads, *)
(* queue or descriptors:                                                   *)
(*   - an admitted connection is finished exactly once, and is never lost; *)
(*   - once the operator asked for a stop, at most one more connection is  *)
(*     admitted;                                                           *)
(*   - the service is over only when no admitted connection is left.       *)
(* ServerDriver implements this module (ServerDriver!Service).             *)
(***************************************************************************)
CONSTANT Conns

VARIABLES
  conn,       \* what became of each connection
  phase,      \* is the service running, stopping or stopped
  admitting   \* may a connection still be admitted

vars == <<conn, phase, admitting>>

Pending == {c \in Conns : conn[c] = "pending"}

Init ==
  /\ conn = [c \in Conns |-> "idle"]
  /\ phase = "running"
  /\ admitting = TRUE

(* A client connects; the kernel completes the handshake on its own. *)
Connect(c) ==
  /\ phase # "stopped"
  /\ conn[c] = "idle"
  /\ conn' = [conn EXCEPT ![c] = "pending"]
  /\ UNCHANGED <<phase, admitting>>

(* Connections nobody admitted are lost; after a stop the service may at   *)
(* the same time cease to admit.                                           *)
Lose(lost) ==
  /\ lost \subseteq Pending
  /\ conn' = [c \in Conns |-> IF c \in lost THEN "reset" ELSE conn[c]]
  /\ admitting' \in {admitting, admitting /\ phase = "running"}
  /\ UNCHANGED phase

(* Admission.  The one connection admitted after a stop ends admission.    *)
Admit(c, lost) ==
  /\ admitting
  /\ c \in Pending
  /\ lost \subseteq Pending \ {c}
  /\ phase = "running" => lost = {}
  /\ conn' = [d \in Conns |-> IF d = c THEN "accepted"
                              ELSE IF d \in lost THEN "reset" ELSE conn[d]]
  /\ admitting' = (phase = "running")
  /\ UNCHANGED phase

Finish(c) ==
  /\ conn[c] = "accepted"
  /\ conn' = [conn EXCEPT ![c] = "closed"]
  /\ UNCHANGED <<phase, admitting>>

Stop ==
  /\ phase = "running"
  /\ phase' = "stopping"
  /\ admitting' \in BOOLEAN
  /\ UNCHANGED conn

Halt ==
  /\ phase = "stopping"
  /\ ~admitting
  /\ \A c \in Conns : conn[c] \notin {"pending", "accepted"}
  /\ phase' = "stopped"
  /\ UNCHANGED <<conn, admitting>>

Next ==
  \/ \E c \in Conns : Connect(c) \/ Finish(c)
  \/ \E c \in Conns, lost \in SUBSET Conns : Admit(c, lost)
  \/ \E lost \in SUBSET Conns : Lose(lost)
  \/ Stop
  \/ Halt

Spec == Init /\ [][Next]_vars
=============================================================================
