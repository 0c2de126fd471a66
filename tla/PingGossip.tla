------------------------------ MODULE PingGossip ------------------------------
(***************************************************************************)
(* The program main() runs at this commit: every xcoin process starts a    *)
(* TCP server, connects to the peers of its configuration file, and the    *)
(* process called "peer0" floods one ping through the network.  A process  *)
(* relays the first ping it reads and ignores every later one, and prints  *)
(* one "****latency,hop****" line that the experiment scripts collect.     *)
(*                                                                         *)
(* A ping is abstracted to its hop field: the start time is the same in    *)
(* all of them and the payload is padding.  PingMsg framing inside one     *)
(* connection is below this module's level.                                *)
(***************************************************************************)
EXTENDS Integers, FiniteSets, Sequences

CONSTANTS
  Node,      \* the processes
  Peer0,     \* the one whose my-addr is "peer0"
  Configs,   \* the sets of configuration files that may be deployed
  Faults,    \* what the environment may do: see below
  NoClient   \* "no entry" in in_clients_

(***************************************************************************)
(* "skew": a SYN may reach a host before the process there has started (it *)
(* cannot under Shadow, where every process starts at the same simulated   *)
(* second and links have latency); "bind": start_server may fail;          *)
(* "connect": a socket cannot be had, or connect fails at once.            *)
(***************************************************************************)
ASSUME GossipAssumption ==
  /\ IsFiniteSet(Node)
  /\ Peer0 \in Node
  /\ Configs \subseteq [Node -> SUBSET Node]
  /\ Faults \subseteq {"skew", "bind", "connect"}
  /\ NoClient \notin Node

VARIABLES
  peers,       \* SYS_CONFIG.peers of every process; never changes
  proc,        \* "off", "listening", "deaf" (running but not listening), "exited"
  conn,        \* the TCP connection <<n, p>> that n opened to p
  sent,        \* hop fields of the pings n wrote on <<n, p>>, in order
  read,        \* how many of them p has read
  G_RECEIVED,  \* main.cpp's global of that name, per process
  log,         \* hop fields of the "****" lines of every process
  in_clients   \* the client in in_clients_, whose only key is ""

vars == <<peers, proc, conn, sent, read, G_RECEIVED, log, in_clients>>

Edge == Node \X Node

Running == {"listening", "deaf"}

TypeOK ==
  /\ peers \in Configs
  /\ proc \in [Node -> {"off", "exited"} \cup Running]
  /\ conn \in [Edge -> {"none", "syn", "up", "accepted", "refused"}]
  /\ sent \in [Edge -> Seq(Nat)]
  /\ read \in [Edge -> Nat]
  /\ G_RECEIVED \in [Node -> BOOLEAN]
  /\ log \in [Node -> Seq(Nat)]
  /\ in_clients \in [Node -> Node \cup {NoClient}]

Init ==
  /\ peers \in Configs
  /\ proc = [n \in Node |-> "off"]
  /\ conn = [e \in Edge |-> "none"]
  /\ sent = [e \in Edge |-> <<>>]
  /\ read = [e \in Edge |-> 0]
  /\ G_RECEIVED = [n \in Node |-> FALSE]
  /\ log = [n \in Node |-> <<>>]
  /\ in_clients = [n \in Node |-> NoClient]

-------------------------------------------------------------------------------
(***************************************************************************)
(* XState::broadcast_ping: write one ping to every entry of out_clients_,  *)
(* which after init() holds one client per configured peer, whatever has   *)
(* become of its connection: bufferevent_write only fills a buffer.        *)
(***************************************************************************)
broadcast_ping_skips_unconnected(n, hop) ==
  sent' = [e \in Edge |-> IF e[1] = n /\ e[2] \in peers[n] /\ conn[e] \in {"up", "accepted"}
                          THEN Append(sent[e], hop) ELSE sent[e]]

broadcast_ping(n, hop) ==
  sent' = [e \in Edge |-> IF e[1] = n /\ e[2] \in peers[n]
                          THEN Append(sent[e], hop) ELSE sent[e]]

(* init_ping: peer0 originates the flood and never treats it as news.      *)
init_ping_forgets_received(n) ==
  broadcast_ping(n, 1) /\ UNCHANGED G_RECEIVED

init_ping(n) ==
  /\ broadcast_ping(n, 1)
  /\ G_RECEIVED' = [G_RECEIVED EXCEPT ![n] = TRUE]

(* start_server: the process runs on, listening or not.                    *)
start_server(n) ==
  \E up \in {"listening"} \cup (IF "bind" \in Faults THEN {"deaf"} ELSE {}) :
     proc' = [proc EXCEPT ![n] = up]

(* connect_peer for every peer: a non-blocking connect, which returns      *)
(* EINPROGRESS, and a client in out_clients_.                              *)
connect_peers(n) ==
  conn' = [e \in Edge |-> IF e[1] = n /\ e[2] \in peers[n] THEN "syn" ELSE conn[e]]

(***************************************************************************)
(* init(): the server, whose failure is reported but not fatal; the        *)
(* connections; and on peer0 the ping.  It runs before the event loop, so  *)
(* no callback of this process interleaves with it.                        *)
(***************************************************************************)
init(n) ==
  /\ proc[n] = "off"
  /\ start_server(n)
  /\ connect_peers(n)
  /\ IF n = Peer0 THEN init_ping(n) ELSE UNCHANGED <<sent, G_RECEIVED>>
  /\ UNCHANGED <<peers, read, log, in_clients>>

(***************************************************************************)
(* connect_peer returns NULL for one of the peers, and check_result ends   *)
(* the process.  Its kernel closes what it has opened before: a peer may   *)
(* see such a connection end, but never a ping on it.                      *)
(***************************************************************************)
init_exits(n) ==
  /\ "connect" \in Faults
  /\ proc[n] = "off" /\ peers[n] # {}
  /\ proc' = [proc EXCEPT ![n] = "exited"]
  /\ UNCHANGED <<peers, conn, sent, read, G_RECEIVED, log, in_clients>>

(***************************************************************************)
(* The SYN of connection <<n, p>> reaches p's host: p's kernel completes   *)
(* the handshake if p listens and resets it otherwise.  n installs no      *)
(* event callback on the connection, so it never learns which.             *)
(***************************************************************************)
SynArrives(n, p) ==
  /\ conn[<<n, p>>] = "syn"
  /\ proc[p] = "off" => "skew" \in Faults
  /\ conn' = [conn EXCEPT ![<<n, p>>] = IF proc[p] = "listening" THEN "up" ELSE "refused"]
  /\ UNCHANGED <<peers, proc, sent, read, G_RECEIVED, log, in_clients>>

(***************************************************************************)
(* add_client_in: the key is server_host_name_, empty for every accepted   *)
(* client, and unordered_map::insert keeps the entry that is already there.*)
(***************************************************************************)
add_client_in(p, n) ==
  in_clients' = [in_clients EXCEPT ![p] = IF @ = NoClient THEN n ELSE @]

(* on_accept at p, of the connection that n opened.                        *)
on_accept(p, n) ==
  /\ conn[<<n, p>>] = "up"
  /\ conn' = [conn EXCEPT ![<<n, p>>] = "accepted"]
  /\ add_client_in(p, n)
  /\ UNCHANGED <<peers, proc, sent, read, G_RECEIVED, log>>

(***************************************************************************)
(* buf_read_cb at p, at the step where the last byte of a ping from n has  *)
(* been read.                                                              *)
(***************************************************************************)
IsNews(p) == ~ G_RECEIVED[p]

RelayHop_unincremented(hop) == hop

RelayHop(hop) == hop + 1

buf_read_cb(p, n) ==
  LET e   == <<n, p>>
      hop == sent[e][read[e] + 1]
  IN  /\ conn[e] = "accepted"
      /\ read[e] < Len(sent[e])
      /\ read' = [read EXCEPT ![e] = @ + 1]
      /\ IF IsNews(p)
         THEN /\ log' = [log EXCEPT ![p] = Append(@, hop)]
              /\ broadcast_ping(p, RelayHop(hop))
         ELSE UNCHANGED <<log, sent>>
      /\ G_RECEIVED' = [G_RECEIVED EXCEPT ![p] = TRUE]
      /\ UNCHANGED <<peers, proc, conn, in_clients>>

Next ==
  \/ \E n \in Node : init(n)
  \/ \E n \in Node : init_exits(n)
  \/ \E n, p \in Node : SynArrives(n, p)
  \/ \E n, p \in Node : on_accept(p, n)
  \/ \E n, p \in Node : buf_read_cb(p, n)

Spec == Init /\ [][Next]_vars

(***************************************************************************)
(* Every process is eventually started, if it does not exit, its event     *)
(* loop keeps running, and the network eventually delivers every SYN.      *)
(***************************************************************************)
Fairness ==
  /\ \A n \in Node : WF_vars(init(n))
  /\ \A n, p \in Node : /\ WF_vars(SynArrives(n, p))
                        /\ WF_vars(on_accept(p, n))
                        /\ WF_vars(buf_read_cb(p, n))

FairSpec == Spec /\ Fairness

-------------------------------------------------------------------------------
(***************************************************************************)
(* A connection carries exactly one ping once its opener has received (or  *)
(* originated) the flood, and none before.  buf_read_cb relies on it: it   *)
(* stops reading at the end of a message (to_read_ = 0 ends its loop), so  *)
(* a second ping already in the input buffer would wait for the next byte  *)
(* to arrive, and a header split between two segments would be misread.    *)
(***************************************************************************)
OnePingPerConnection ==
  \A e \in Edge :
     Len(sent[e]) = IF G_RECEIVED[e[1]] /\ e[2] \in peers[e[1]] THEN 1 ELSE 0

(***************************************************************************)
(* parse_log of run_multinode.py takes the first "****" line of every      *)
(* process but peer0, and averages over them: a process prints exactly one *)
(* line when it has received the flood, and peer0 never prints one.        *)
(***************************************************************************)
OneLogLine ==
  \A n \in Node :
     Len(log[n]) = IF G_RECEIVED[n] /\ n # Peer0 THEN 1 ELSE 0

(* There is a path of exactly k configured connections from peer0 to n.    *)
Walk(k, n) ==
  \E path \in [0..k -> Node] :
     /\ path[0] = Peer0
     /\ path[k] = n
     /\ \A i \in 0..(k - 1) : path[i + 1] \in peers[path[i]]

(***************************************************************************)
(* The hop count a process prints is the length of an actual path from     *)
(* peer0, so it never understates the distance report_stat compares it to. *)
(***************************************************************************)
HopIsAPathLength ==
  \A n \in Node : \A i \in 1..Len(log[n]) : Walk(log[n][i], n)

Received == {n \in Node : G_RECEIVED[n]}

(***************************************************************************)
(* No ping is dropped by the program: if n has relayed the flood, each of  *)
(* its peers has it too, or still has it in front of it (unread, or behind *)
(* a handshake in progress), or the connection was refused.                *)
(***************************************************************************)
NoPingVanishes ==
  \A n \in Node : \A p \in peers[n] :
     G_RECEIVED[n] =>
        \/ G_RECEIVED[p]
        \/ conn[<<n, p>>] \in {"syn", "refused"}
        \/ conn[<<n, p>>] \in {"up", "accepted"} /\ read[<<n, p>>] < Len(sent[<<n, p>>])

(***************************************************************************)
(* The whole exchange is an abstract flood: TCP handshakes, buffering and  *)
(* repeated pings only ever stutter, and each process joins the wave once, *)
(* one hop behind a process that is already in it.                         *)
(***************************************************************************)
HopOf(n) == IF ~ G_RECEIVED[n] THEN -1 ELSE IF n = Peer0 THEN 0 ELSE log[n][1]

Wave == INSTANCE Flood WITH hop <- [n \in Node |-> HopOf(n)]

IsAFlood == Wave!Spec

(***************************************************************************)
(* What run_multinode.py needs of a run on a strongly connected graph:     *)
(* every process but peer0 ends up with a line to parse, unless some       *)
(* connection is refused or none of the processes gets through init().     *)
(***************************************************************************)
EveryProcessLogs ==
  [](\A e \in Edge : conn[e] # "refused") =>
     \/ <>(\A n \in Node : proc[n] = "exited")
     \/ \A n \in Node \ {Peer0} : <>(log[n] # <<>>)
===============================================================================
