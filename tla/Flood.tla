-------------------------------- MODULE Flood --------------------------------
(***************************************************************************)
(* What the ping mode promises, without connections, buffers or callbacks: *)
(* a wave that starts at peer0 and reaches one further process at a time,  *)
(* each one hop further than an already reached process that has it as a   *)
(* configured peer.  The promise of init_ping, broadcast_ping and the      *)
(* G_RECEIVED gate in buf_read_cb taken together.                          *)
(***************************************************************************)
EXTENDS Integers

CONSTANTS Node, Peer0, Configs

VARIABLES
  peers,   \* who connects to whom
  hop      \* distance travelled by the ping that reached a process, or -1

Unreached == -1

Init ==
  /\ peers \in Configs
  /\ hop = [n \in Node |-> Unreached]

Originate ==
  /\ \A n \in Node : hop[n] = Unreached
  /\ hop' = [hop EXCEPT ![Peer0] = 0]
  /\ UNCHANGED peers

Spread(n, p) ==
  /\ hop[n] # Unreached
  /\ hop[p] = Unreached
  /\ p \in peers[n]
  /\ hop' = [hop EXCEPT ![p] = hop[n] + 1]
  /\ UNCHANGED peers

Next == Originate \/ \E n, p \in Node : Spread(n, p)

Spec == Init /\ [][Next]_<<peers, hop>>
===============================================================================
