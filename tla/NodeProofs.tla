----------------------------- MODULE NodeProofs ------------------------------
(***************************************************************************)
(* Proofs about a node of the network, main.cpp.  Ping mode on its two     *)
(* levels: PingGossip, for every set of processes, every deployment and    *)
(* every choice of faults, and PingWire, one connection in bytes.  Then    *)
(* its two threads: MinerThreads, for every set of peers and every number  *)
(* of blocks.                                                              *)
(***************************************************************************)
EXTENDS PingGossip, PingWire, MinerThreads, FiniteSetTheorems, SequenceTheorems, TLAPS

-------------------------------------------------------------------------------
(* Facts about the helpers the actions are built from.                     *)

(* A broadcast adds its hop to the connections the process opened, and to  *)
(* no others.                                                              *)
LEMMA BroadcastAppends ==
  ASSUME TypeOK, NEW n \in Node, NEW hop \in Nat, broadcast_ping(n, hop), NEW e \in Edge
  PROVE  /\ sent' \in [Edge -> Seq(Nat)]
         /\ e[1] = n /\ e[2] \in peers[n] => sent'[e] = Append(sent[e], hop)
         /\ ~ (e[1] = n /\ e[2] \in peers[n]) => sent'[e] = sent[e]
  BY DEF TypeOK, broadcast_ping, Edge

(* The hop of a ping that is about to be read is a natural number.         *)
LEMMA HeadIsNat ==
  ASSUME TypeOK, NEW n \in Node, NEW p \in Node, buf_read_cb(p, n)
  PROVE  /\ <<n, p>> \in Edge
         /\ sent[<<n, p>>] \in Seq(Nat)
         /\ read[<<n, p>>] + 1 \in 1..Len(sent[<<n, p>>])
         /\ sent[<<n, p>>][read[<<n, p>>] + 1] \in Nat
  <1>1. /\ <<n, p>> \in Edge
        /\ sent[<<n, p>>] \in Seq(Nat)
        /\ read[<<n, p>>] \in Nat
        /\ read[<<n, p>>] < Len(sent[<<n, p>>])
    BY DEF TypeOK, buf_read_cb, Edge
  <1> QED  BY <1>1

-------------------------------------------------------------------------------
(* Every variable keeps its type: in particular hop counts stay natural    *)
(* numbers.                                                                *)
THEOREM TypeCorrect == Spec => []TypeOK
<1>1. Init => TypeOK
  BY GossipAssumption DEF Init, TypeOK, Edge
<1>2. TypeOK /\ [Next]_vars => TypeOK'
  <2> SUFFICES ASSUME TypeOK, [Next]_vars  PROVE TypeOK'
    OBVIOUS
  <2>1. ASSUME NEW n \in Node, init(n)  PROVE TypeOK'
    <3>1. sent' \in [Edge -> Seq(Nat)] /\ G_RECEIVED' \in [Node -> BOOLEAN]
      <4>1. CASE n = Peer0
        BY <2>1, <4>1, BroadcastAppends, 1 \in Nat DEF init, start_server, connect_peers, init_ping, TypeOK, broadcast_ping, Edge
      <4>2. CASE n # Peer0
        BY <2>1, <4>2 DEF init, start_server, connect_peers, TypeOK
      <4> QED  BY <4>1, <4>2
    <3>2. proc' \in [Node -> {"off", "exited"} \cup Running]
      BY <2>1 DEF init, start_server, connect_peers, TypeOK, Running
    <3>3. conn' \in [Edge -> {"none", "syn", "up", "accepted", "refused"}]
      BY <2>1 DEF init, start_server, connect_peers, TypeOK
    <3> QED  BY <2>1, <3>1, <3>2, <3>3 DEF init, start_server, connect_peers, TypeOK
  <2>2. ASSUME NEW n \in Node, NEW p \in Node, SynArrives(n, p)  PROVE TypeOK'
    BY <2>2 DEF SynArrives, TypeOK, Edge
  <2>3. ASSUME NEW n \in Node, NEW p \in Node, on_accept(p, n)  PROVE TypeOK'
    BY <2>3 DEF on_accept, add_client_in, TypeOK, Edge
  <2>4. ASSUME NEW n \in Node, NEW p \in Node, buf_read_cb(p, n)  PROVE TypeOK'
    <3> DEFINE hop == sent[<<n, p>>][read[<<n, p>>] + 1]
    <3>1. hop \in Nat /\ RelayHop(hop) \in Nat
      BY <2>4, HeadIsNat DEF RelayHop
    <3>2. sent' \in [Edge -> Seq(Nat)] /\ log' \in [Node -> Seq(Nat)]
      <4>1. CASE IsNews(p)
        <5>1. broadcast_ping(p, RelayHop(hop)) /\ log' = [log EXCEPT ![p] = Append(@, hop)]
          BY <2>4, <4>1 DEF buf_read_cb
        <5> QED  BY <3>1, <5>1 DEF broadcast_ping, TypeOK, Edge
      <4>2. CASE ~ IsNews(p)
        BY <2>4, <4>2 DEF buf_read_cb, TypeOK
      <4> QED  BY <4>1, <4>2
    <3>3. read' \in [Edge -> Nat]
      <4>1. <<n, p>> \in Edge /\ read[<<n, p>>] + 1 \in Nat
        BY DEF TypeOK, Edge
      <4>2. read' = [read EXCEPT ![<<n, p>>] = @ + 1]
        BY <2>4 DEF buf_read_cb
      <4> QED  BY <4>1, <4>2 DEF TypeOK
    <3>4. G_RECEIVED' \in [Node -> BOOLEAN]
      BY <2>4 DEF buf_read_cb, TypeOK
    <3> QED  BY <2>4, <3>2, <3>3, <3>4 DEF buf_read_cb, TypeOK
  <2>5. ASSUME NEW n \in Node, init_exits(n)  PROVE TypeOK'
    BY <2>5 DEF init_exits, TypeOK
  <2>6. CASE UNCHANGED vars
    BY <2>6 DEF vars, TypeOK
  <2> QED  BY <2>1, <2>2, <2>3, <2>4, <2>5, <2>6 DEF Next
<1> QED  BY <1>1, <1>2, PTL DEF Spec

-------------------------------------------------------------------------------
(***************************************************************************)
(* Start-up: what has been started, and which connections exist as a       *)
(* consequence.  A process that does not run, or not yet, holds no         *)
(* connection and has not received anything; a running one has opened a connection to each peer;  *)
(* only a listening one is ever connected to; peer0 originates the flood   *)
(* in init(), so whatever it reads is a repetition.                        *)
(***************************************************************************)
OffIsIdle ==
  \A n \in Node : proc[n] \notin Running =>
     ~ G_RECEIVED[n] /\ \A p \in Node : conn[<<n, p>>] = "none"

RunningIsConnecting ==
  \A n \in Node : proc[n] \in Running => \A p \in peers[n] : conn[<<n, p>>] # "none"

ConnectedIsListening ==
  \A n, p \in Node : conn[<<n, p>>] \in {"up", "accepted"} => proc[p] = "listening"

OriginHasPing == proc[Peer0] \in Running => G_RECEIVED[Peer0]

StartInv == OffIsIdle /\ RunningIsConnecting /\ ConnectedIsListening /\ OriginHasPing

LEMMA StartCorrect == Spec => []StartInv
<1>1. Init => StartInv
  BY GossipAssumption DEF Init, StartInv, OffIsIdle, RunningIsConnecting, ConnectedIsListening,
     OriginHasPing, Edge, Running
<1>2. TypeOK /\ StartInv /\ [Next]_vars => StartInv'
  <2> SUFFICES ASSUME TypeOK, StartInv, [Next]_vars  PROVE StartInv'
    OBVIOUS
  <2> USE DEF StartInv, OffIsIdle, RunningIsConnecting, ConnectedIsListening, OriginHasPing
  <2>p. peers \in [Node -> SUBSET Node] /\ Peer0 \in Node
    BY GossipAssumption DEF TypeOK
  <2>1. ASSUME NEW n \in Node, init(n)  PROVE StartInv'
    <3>1. /\ \A m, p \in Node : conn'[<<m, p>>] =
                IF m = n /\ p \in peers[n] THEN "syn" ELSE conn[<<m, p>>]
          /\ proc[n] \notin Running /\ proc'[n] \in Running
          /\ \A m \in Node \ {n} : proc'[m] = proc[m]
          /\ peers' = peers
      BY <2>1 DEF init, start_server, connect_peers, TypeOK, Edge, Running
    <3>2. G_RECEIVED' = IF n = Peer0 THEN [G_RECEIVED EXCEPT ![n] = TRUE] ELSE G_RECEIVED
      BY <2>1 DEF init, start_server, connect_peers, init_ping
    <3>3. /\ \A m \in Node \ {n} : G_RECEIVED'[m] = G_RECEIVED[m]
          /\ n = Peer0 => G_RECEIVED'[n]
      BY <3>2 DEF TypeOK
    <3>4. OffIsIdle'
      <4> SUFFICES ASSUME NEW m \in Node, proc'[m] \notin Running
                   PROVE  ~ G_RECEIVED'[m] /\ \A p \in Node : conn'[<<m, p>>] = "none"
        OBVIOUS
      <4>1. m \in Node \ {n} /\ proc[m] \notin Running
        BY <3>1
      <4> QED  BY <4>1, <3>1, <3>3
    <3>5. RunningIsConnecting'
      BY <2>p, <3>1
    <3>6. ConnectedIsListening'
      BY <3>1 DEF Running
    <3>7. OriginHasPing'
      BY <2>p, <3>1, <3>3
    <3> QED  BY <3>4, <3>5, <3>6, <3>7
  <2>2. ASSUME NEW n \in Node, NEW p \in Node, SynArrives(n, p)  PROVE StartInv'
    BY <2>2, <2>p DEF SynArrives, TypeOK, Edge
  <2>3. ASSUME NEW n \in Node, NEW p \in Node, on_accept(p, n)  PROVE StartInv'
    BY <2>3, <2>p DEF on_accept, add_client_in, TypeOK, Edge
  <2>4. ASSUME NEW n \in Node, NEW p \in Node, buf_read_cb(p, n)  PROVE StartInv'
    <3>1. /\ conn[<<n, p>>] = "accepted"
          /\ G_RECEIVED' = [G_RECEIVED EXCEPT ![p] = TRUE]
          /\ UNCHANGED <<peers, proc, conn>>
      BY <2>4 DEF buf_read_cb
    <3> QED  BY <2>p, <3>1 DEF TypeOK
  <2>5. ASSUME NEW n \in Node, init_exits(n)  PROVE StartInv'
    <3>1. /\ proc[n] \notin Running /\ proc'[n] \notin Running
          /\ \A m \in Node \ {n} : proc'[m] = proc[m]
          /\ proc[n] # "listening"
          /\ UNCHANGED <<peers, conn, G_RECEIVED>>
      BY <2>5 DEF init_exits, TypeOK, Running
    <3> QED  BY <2>p, <3>1
  <2>6. CASE UNCHANGED vars
    BY <2>6 DEF vars
  <2> QED  BY <2>1, <2>2, <2>3, <2>4, <2>5, <2>6 DEF Next
<1> QED  BY <1>1, <1>2, TypeCorrect, PTL DEF Spec

-------------------------------------------------------------------------------
(***************************************************************************)
(* Counting: one ping per connection and one log line per process follow   *)
(* from the G_RECEIVED gate, provided that whoever has read a ping has the *)
(* gate closed (ReadIsReceived).                                           *)
(***************************************************************************)
ReadBound == \A e \in Edge : read[e] <= Len(sent[e])

ReadIsReceived == \A e \in Edge : read[e] > 0 => G_RECEIVED[e[2]]

CountInv == OnePingPerConnection /\ OneLogLine /\ ReadBound /\ ReadIsReceived

(* What a step of buf_read_cb does, in the terms the invariants are in.    *)
LEMMA ReadStep ==
  ASSUME TypeOK, StartInv, NEW n \in Node, NEW p \in Node, buf_read_cb(p, n)
  PROVE  /\ read' = [read EXCEPT ![<<n, p>>] = read[<<n, p>>] + 1]
         /\ read[<<n, p>>] < Len(sent[<<n, p>>])
         /\ G_RECEIVED'[p]
         /\ \A m \in Node \ {p} : G_RECEIVED'[m] = G_RECEIVED[m]
         /\ p = Peer0 => G_RECEIVED[p]
         /\ UNCHANGED <<peers, proc, conn>>
         /\ G_RECEIVED[p] => UNCHANGED <<sent, log>>
         /\ ~ G_RECEIVED[p] =>
              LET hop == sent[<<n, p>>][read[<<n, p>>] + 1] IN
              /\ log' = [log EXCEPT ![p] = Append(log[p], hop)]
              /\ \A e \in Edge : sent'[e] = IF e[1] = p /\ e[2] \in peers[p]
                                            THEN Append(sent[e], hop + 1) ELSE sent[e]
  <1>1. p = Peer0 => G_RECEIVED[p]
    BY DEF buf_read_cb, StartInv, ConnectedIsListening, OriginHasPing, Running
  <1>2. ~ G_RECEIVED[p] =>
          \A e \in Edge : sent'[e] = IF e[1] = p /\ e[2] \in peers[p]
               THEN Append(sent[e], sent[<<n, p>>][read[<<n, p>>] + 1] + 1) ELSE sent[e]
    BY DEF buf_read_cb, IsNews, broadcast_ping, RelayHop
  <1> QED  BY <1>1, <1>2 DEF buf_read_cb, IsNews, TypeOK

(* What init does to the flood: it starts it on peer0.                     *)
LEMMA InitStep ==
  ASSUME TypeOK, StartInv, NEW n \in Node, init(n)
  PROVE  /\ ~ G_RECEIVED[n]
         /\ UNCHANGED <<peers, read, log>>
         /\ \A m \in Node \ {n} : G_RECEIVED'[m] = G_RECEIVED[m]
         /\ n # Peer0 => UNCHANGED <<sent, G_RECEIVED>>
         /\ n = Peer0 =>
              /\ G_RECEIVED'[n]
              /\ \A e \in Edge : sent'[e] = IF e[1] = n /\ e[2] \in peers[n]
                                            THEN Append(sent[e], 1) ELSE sent[e]
<1>1. proc[n] = "off" /\ UNCHANGED <<peers, read, log>>
  BY DEF init
<1>2. ~ G_RECEIVED[n]
  BY <1>1 DEF StartInv, OffIsIdle, Running
<1>3. CASE n = Peer0
  <2>1. init_ping(n)
    BY <1>3 DEF init
  <2>2. G_RECEIVED' = [G_RECEIVED EXCEPT ![n] = TRUE] /\ broadcast_ping(n, 1)
    BY <2>1 DEF init_ping
  <2>3. G_RECEIVED'[n] /\ \A m \in Node \ {n} : G_RECEIVED'[m] = G_RECEIVED[m]
    BY <2>2 DEF TypeOK
  <2>4. \A e \in Edge : sent'[e] = IF e[1] = n /\ e[2] \in peers[n]
                                   THEN Append(sent[e], 1) ELSE sent[e]
    BY <2>2 DEF broadcast_ping
  <2> QED  BY <1>1, <1>2, <1>3, <2>3, <2>4
<1>4. CASE n # Peer0
  <2>1. UNCHANGED <<sent, G_RECEIVED>>
    BY <1>4 DEF init
  <2> QED  BY <1>1, <1>2, <1>4, <2>1
<1> QED  BY <1>3, <1>4

(* Where sent' is longer by one element, its length says so.               *)
LEMMA AppendLength ==
  ASSUME NEW s \in Seq(Nat), NEW x \in Nat
  PROVE  Append(s, x) \in Seq(Nat) /\ Len(Append(s, x)) = Len(s) + 1 /\ Len(s) \in Nat
  OBVIOUS

LEMMA CountCorrect == Spec => []CountInv
<1>1. Init => CountInv
  BY DEF Init, CountInv, OnePingPerConnection, OneLogLine, ReadBound, ReadIsReceived, Edge
<1>2. TypeOK /\ StartInv /\ CountInv /\ [Next]_vars => CountInv'
  <2> SUFFICES ASSUME TypeOK, StartInv, CountInv, [Next]_vars  PROVE CountInv'
    OBVIOUS
  <2> USE DEF CountInv, OnePingPerConnection, OneLogLine, ReadBound, ReadIsReceived
  <2>t. /\ \A e \in Edge : /\ e[1] \in Node /\ e[2] \in Node
                          /\ sent[e] \in Seq(Nat) /\ read[e] \in Nat
        /\ \A n \in Node : log[n] \in Seq(Nat)
    BY DEF TypeOK, Edge
  <2>1. ASSUME NEW n \in Node, init(n)  PROVE CountInv'
    <3>1. CASE n = Peer0
      <4>0. /\ ~ G_RECEIVED[n] /\ G_RECEIVED'[n]
            /\ UNCHANGED <<peers, read, log>>
            /\ \A m \in Node \ {n} : G_RECEIVED'[m] = G_RECEIVED[m]
            /\ \A e \in Edge : sent'[e] = IF e[1] = n /\ e[2] \in peers[n]
                                          THEN Append(sent[e], 1) ELSE sent[e]
        BY <2>1, <3>1, InitStep
      <4>1. ASSUME NEW e \in Edge
            PROVE  /\ Len(sent'[e]) = IF G_RECEIVED'[e[1]] /\ e[2] \in peers'[e[1]] THEN 1 ELSE 0
                   /\ read'[e] <= Len(sent'[e])
                   /\ read'[e] > 0 => G_RECEIVED'[e[2]]
        <5>1. CASE e[1] = n /\ e[2] \in peers[n]
          <6>1. Len(sent[e]) = 0 /\ sent'[e] = Append(sent[e], 1)
            BY <4>0, <5>1
          <6>2. Len(sent'[e]) = 1
            BY <2>t, <6>1, AppendLength
          <6>3. read'[e] = read[e] /\ read[e] = 0
            BY <2>t, <4>0, <6>1
          <6> QED  BY <4>0, <5>1, <6>2, <6>3
        <5>2. CASE ~ (e[1] = n /\ e[2] \in peers[n])
          <6>1. sent'[e] = sent[e] /\ peers' = peers
            BY <4>0, <5>2
          <6>2. CASE e[1] = n
            BY <2>t, <4>0, <5>2, <6>1, <6>2
          <6>3. CASE e[1] # n
            BY <2>t, <4>0, <6>1, <6>3
          <6> QED  BY <6>2, <6>3
        <5> QED  BY <5>1, <5>2
      <4>2. OneLogLine'
        BY <2>t, <3>1, <4>0
      <4> QED  BY <4>1, <4>2
    <3>2. CASE n # Peer0
      BY <2>1, <3>2, InitStep
    <3> QED  BY <3>1, <3>2
  <2>2. ASSUME NEW n \in Node, NEW p \in Node, SynArrives(n, p)  PROVE CountInv'
    BY <2>2 DEF SynArrives
  <2>3. ASSUME NEW n \in Node, NEW p \in Node, on_accept(p, n)  PROVE CountInv'
    BY <2>3 DEF on_accept, add_client_in
  <2>4. ASSUME NEW n \in Node, NEW p \in Node, buf_read_cb(p, n)  PROVE CountInv'
    <3> DEFINE hop == sent[<<n, p>>][read[<<n, p>>] + 1]
    <3>0. /\ hop \in Nat /\ hop + 1 \in Nat
          /\ <<n, p>> \in Edge /\ <<n, p>>[1] = n /\ <<n, p>>[2] = p
          /\ read[<<n, p>>] < Len(sent[<<n, p>>])
          /\ G_RECEIVED'[p]
          /\ \A m \in Node \ {p} : G_RECEIVED'[m] = G_RECEIVED[m]
          /\ p = Peer0 => G_RECEIVED[p]
          /\ peers' = peers
      <4>1. hop \in Nat
        BY <2>4, HeadIsNat
      <4>2. /\ read[<<n, p>>] < Len(sent[<<n, p>>])
            /\ G_RECEIVED'[p]
            /\ \A m \in Node \ {p} : G_RECEIVED'[m] = G_RECEIVED[m]
            /\ p = Peer0 => G_RECEIVED[p]
            /\ peers' = peers
        BY <2>4, ReadStep
      <4>3. <<n, p>> \in Edge /\ <<n, p>>[1] = n /\ <<n, p>>[2] = p
        BY DEF Edge
      <4> HIDE DEF hop
      <4>4. hop + 1 \in Nat
        BY <4>1
      <4> QED  BY <4>1, <4>2, <4>3, <4>4
    <3>1. /\ read'[<<n, p>>] = read[<<n, p>>] + 1
          /\ \A e \in Edge : e # <<n, p>> => read'[e] = read[e]
      BY <2>4, <3>0, ReadStep DEF TypeOK
    <3>2. ASSUME NEW e \in Edge
          PROVE  /\ Len(sent'[e]) = IF G_RECEIVED'[e[1]] /\ e[2] \in peers'[e[1]] THEN 1 ELSE 0
                 /\ Len(sent[e]) \in Nat /\ Len(sent'[e]) \in Nat
                 /\ Len(sent'[e]) >= Len(sent[e])
      <4>1. CASE G_RECEIVED[p]
        <5>1. sent' = sent
          BY <2>4, <4>1, ReadStep
        <5>2. CASE e[1] = p
          <6>1. G_RECEIVED'[e[1]] = G_RECEIVED[e[1]] \/ (G_RECEIVED'[e[1]] /\ G_RECEIVED[e[1]])
            BY <3>0, <4>1, <5>2
          <6>2. Len(sent'[e]) = Len(sent[e]) /\ Len(sent[e]) \in Nat
            BY <2>t, <5>1
          <6>3. Len(sent[e]) = IF G_RECEIVED[e[1]] /\ e[2] \in peers[e[1]] THEN 1 ELSE 0
            OBVIOUS
          <6> QED  BY <3>0, <6>1, <6>2, <6>3
        <5>3. CASE e[1] # p
          <6>1. Len(sent[e]) \in Nat /\ (G_RECEIVED'[e[1]] <=> G_RECEIVED[e[1]])
            BY <2>t, <3>0, <5>3
          <6> QED  BY <3>0, <5>1, <6>1
        <5> QED  BY <5>2, <5>3
      <4>2. CASE ~ G_RECEIVED[p]
        <5>1. sent'[e] = IF e[1] = p /\ e[2] \in peers[p]
                         THEN Append(sent[e], hop + 1) ELSE sent[e]
          BY <2>4, <4>2, ReadStep
        <5>2. CASE e[1] = p /\ e[2] \in peers[p]
          <6>1. Len(sent[e]) = 0 /\ sent'[e] = Append(sent[e], hop + 1)
            BY <4>2, <5>1, <5>2
          <6>2. Len(sent'[e]) = 1
            BY <2>t, <3>0, <6>1, AppendLength
          <6> QED  BY <3>0, <5>2, <6>1, <6>2
        <5>3. CASE ~ (e[1] = p /\ e[2] \in peers[p])
          <6>1. sent'[e] = sent[e] /\ Len(sent[e]) \in Nat
            BY <2>t, <5>1, <5>3
          <6>2. CASE e[1] = p
            <7>1. Len(sent[e]) = 0
              BY <4>2, <6>2
            <7> QED  BY <3>0, <5>3, <6>1, <6>2, <7>1
          <6>3. CASE e[1] # p
            <7>1. G_RECEIVED'[e[1]] <=> G_RECEIVED[e[1]]
              BY <2>t, <3>0, <6>3
            <7> QED  BY <3>0, <6>1, <7>1
          <6> QED  BY <6>2, <6>3
        <5> QED  BY <5>2, <5>3
      <4> QED  BY <4>1, <4>2
    <3>3. OneLogLine'
      <4>1. CASE G_RECEIVED[p]
        <5>1. log' = log
          BY <2>4, <4>1, ReadStep
        <5> QED  BY <3>0, <4>1, <5>1
      <4>2. CASE ~ G_RECEIVED[p]
        <5>1. log' = [log EXCEPT ![p] = Append(log[p], hop)]
          BY <2>4, <4>2, ReadStep
        <5>2. /\ log'[p] = Append(log[p], hop) /\ log[p] \in Seq(Nat)
              /\ \A m \in Node \ {p} : log'[m] = log[m]
          BY <5>1 DEF TypeOK
        <5>3. p # Peer0 /\ Len(log[p]) = 0
          BY <3>0, <4>2
        <5>4. Len(log'[p]) = 1
          BY <3>0, <5>2, <5>3, AppendLength
        <5> QED  BY <3>0, <5>2, <5>3, <5>4
      <4> QED  BY <4>1, <4>2
    <3>4. ReadBound'
      <4> SUFFICES ASSUME NEW e \in Edge  PROVE read'[e] <= Len(sent'[e])
        OBVIOUS
      <4>1. CASE e = <<n, p>>
        BY <2>t, <3>0, <3>1, <3>2, <4>1
      <4>2. CASE e # <<n, p>>
        BY <2>t, <3>1, <3>2, <4>2
      <4> QED  BY <4>1, <4>2
    <3>5. ReadIsReceived'
      <4> SUFFICES ASSUME NEW e \in Edge, read'[e] > 0  PROVE G_RECEIVED'[e[2]]
        OBVIOUS
      <4>1. CASE e[2] = p
        BY <3>0, <4>1
      <4>2. CASE e[2] # p
        BY <2>t, <3>0, <3>1, <4>2
      <4> QED  BY <4>1, <4>2
    <3> QED  BY <3>2, <3>3, <3>4, <3>5
  <2>5. ASSUME NEW n \in Node, init_exits(n)  PROVE CountInv'
    BY <2>5 DEF init_exits
  <2>6. CASE UNCHANGED vars
    BY <2>6 DEF vars
  <2> QED  BY <2>1, <2>2, <2>3, <2>4, <2>5, <2>6 DEF Next
<1> QED  BY <1>1, <1>2, TypeCorrect, StartCorrect, PTL DEF Spec

(* Each connection carries one ping, whatever the topology and timing: the *)
(* premise on which the framing in buf_read_cb is sound.                   *)
THEOREM OnePing == Spec => []OnePingPerConnection
  BY CountCorrect, PTL DEF CountInv

(* Every process but peer0 prints one line, when the flood reaches it.     *)
THEOREM OneLine == Spec => []OneLogLine
  BY CountCorrect, PTL DEF CountInv

-------------------------------------------------------------------------------
(***************************************************************************)
(* No ping is dropped between broadcast_ping and the gate of buf_read_cb:  *)
(* that the handshake has begun, that nobody has read more than was        *)
(* written and that whoever has read has received is enough.               *)
(***************************************************************************)
THEOREM VanishCorrect == Spec => []NoPingVanishes
<1>1. TypeOK /\ StartInv /\ CountInv => NoPingVanishes
  <2> SUFFICES ASSUME TypeOK, StartInv, CountInv, NEW n \in Node, NEW p \in peers[n],
                      G_RECEIVED[n], ~ G_RECEIVED[p], conn[<<n, p>>] \notin {"syn", "refused"}
               PROVE  /\ conn[<<n, p>>] \in {"up", "accepted"}
                      /\ read[<<n, p>>] < Len(sent[<<n, p>>])
    BY DEF NoPingVanishes
  <2>1. p \in Node /\ <<n, p>> \in Edge /\ <<n, p>>[1] = n /\ <<n, p>>[2] = p
    BY GossipAssumption DEF TypeOK, Edge
  <2>2. conn[<<n, p>>] # "none"
    BY DEF StartInv, OffIsIdle, RunningIsConnecting
  <2>3. conn[<<n, p>>] \in {"up", "accepted"}
    BY <2>1, <2>2 DEF TypeOK
  <2>4. Len(sent[<<n, p>>]) = 1
    BY <2>1 DEF CountInv, OnePingPerConnection
  <2>5. read[<<n, p>>] = 0
    <3>1. ~ (read[<<n, p>>] > 0)
      BY <2>1 DEF CountInv, ReadIsReceived
    <3>2. read[<<n, p>>] \in Nat
      BY <2>1 DEF TypeOK
    <3> QED  BY <3>1, <3>2
  <2> QED  BY <2>3, <2>4, <2>5
<1> QED  BY <1>1, TypeCorrect, StartCorrect, CountCorrect, PTL

-------------------------------------------------------------------------------
(***************************************************************************)
(* Hop counts: every ping on a connection is one hop ahead of the process  *)
(* that wrote it, the hop of a process is the length of a walk, and no     *)
(* process has received anything before peer0 has.                         *)
(***************************************************************************)
PingIsOneHopAhead ==
  \A e \in Edge : Len(sent[e]) = 1 => sent[e][1] = HopOf(e[1]) + 1

HopIsAWalk == \A n \in Node : G_RECEIVED[n] => HopOf(n) \in Nat /\ Walk(HopOf(n), n)

OriginIsFirst == (\E n \in Node : G_RECEIVED[n]) => G_RECEIVED[Peer0]

HopInv == PingIsOneHopAhead /\ HopIsAWalk /\ OriginIsFirst

GossipInv == TypeOK /\ StartInv /\ CountInv

LEMMA GossipCorrect == Spec => []GossipInv
  BY TypeCorrect, StartCorrect, CountCorrect, PTL DEF GossipInv

(* A walk to a process goes on to each of its peers.                       *)
LEMMA WalkExtends ==
  ASSUME NEW k \in Nat, NEW n \in Node, NEW p \in Node, Walk(k, n), p \in peers[n]
  PROVE  Walk(k + 1, p)
<1>1. PICK path \in [0..k -> Node] :
         path[0] = Peer0 /\ path[k] = n /\ \A i \in 0..(k - 1) : path[i + 1] \in peers[path[i]]
  BY DEF Walk
<1> DEFINE longer == [i \in 0..(k + 1) |-> IF i = k + 1 THEN p ELSE path[i]]
<1>2. longer \in [0..(k + 1) -> Node] /\ longer[0] = Peer0 /\ longer[k + 1] = p
  BY <1>1
<1>3. ASSUME NEW i \in 0..k  PROVE longer[i + 1] \in peers[longer[i]]
  <2>1. longer[i] = path[i]
    OBVIOUS
  <2>2. CASE i = k
    BY <1>1, <1>2, <2>1, <2>2
  <2>3. CASE i # k
    <3>1. i \in 0..(k - 1) /\ longer[i + 1] = path[i + 1]
      BY <2>3
    <3> QED  BY <1>1, <2>1, <3>1
  <2> QED  BY <2>2, <2>3
<1>4. 0..((k + 1) - 1) = 0..k
  OBVIOUS
<1> HIDE DEF longer
<1> QED  BY <1>2, <1>3, <1>4 DEF Walk

LEMMA WalkBegins == Walk(0, Peer0)
<1> DEFINE path == [i \in 0..0 |-> Peer0]
<1>1. path \in [0..0 -> Node] /\ path[0] = Peer0
  BY GossipAssumption
<1>2. \A i \in 0..(0 - 1) : path[i + 1] \in peers[path[i]]
  OBVIOUS
<1> HIDE DEF path
<1> QED  BY <1>1, <1>2 DEF Walk

(* The two steps that let a process into the wave.                         *)
Originates ==
  /\ \A n \in Node : ~ G_RECEIVED[n]
  /\ G_RECEIVED'[Peer0] /\ \A n \in Node \ {Peer0} : ~ G_RECEIVED'[n]
  /\ UNCHANGED <<peers, log>>
  /\ \A e \in Edge : sent'[e] = IF e[1] = Peer0 /\ e[2] \in peers[Peer0]
                                THEN Append(sent[e], 1) ELSE sent[e]

Joins(n, p) ==
  /\ G_RECEIVED[n] /\ ~ G_RECEIVED[p] /\ p \in peers[n] /\ p # Peer0
  /\ G_RECEIVED'[p] /\ \A m \in Node \ {p} : G_RECEIVED'[m] = G_RECEIVED[m]
  /\ UNCHANGED peers
  /\ log'[p] = <<HopOf(n) + 1>> /\ \A m \in Node \ {p} : log'[m] = log[m]
  /\ \A e \in Edge : sent'[e] = IF e[1] = p /\ e[2] \in peers[p]
                                THEN Append(sent[e], HopOf(n) + 2) ELSE sent[e]

LEMMA WaveSteps ==
  ASSUME GossipInv, HopInv, [Next]_vars
  PROVE  \/ UNCHANGED <<peers, sent, G_RECEIVED, log>>
         \/ Originates
         \/ \E n, p \in Node : Joins(n, p)
<1>0. TypeOK /\ StartInv /\ CountInv /\ Peer0 \in Node
  BY GossipAssumption DEF GossipInv
<1>1. ASSUME NEW n \in Node, init(n)
      PROVE  UNCHANGED <<peers, sent, G_RECEIVED, log>> \/ Originates
  <2>1. CASE n # Peer0
    BY <1>0, <1>1, <2>1, InitStep
  <2>2. CASE n = Peer0
    <3>1. \A m \in Node : ~ G_RECEIVED[m]
      BY <1>0, <1>1, <2>2, InitStep DEF HopInv, OriginIsFirst
    <3> QED  BY <1>0, <1>1, <2>2, <3>1, InitStep DEF Originates
  <2> QED  BY <2>1, <2>2
<1>2. ASSUME NEW n \in Node, NEW p \in Node, SynArrives(n, p) \/ on_accept(p, n)
      PROVE  UNCHANGED <<peers, sent, G_RECEIVED, log>>
  BY <1>2 DEF SynArrives, on_accept
<1>3. ASSUME NEW n \in Node, NEW p \in Node, buf_read_cb(p, n)
      PROVE  UNCHANGED <<peers, sent, G_RECEIVED, log>> \/ Joins(n, p)
  <2>1. CASE G_RECEIVED[p]
    <3>1. UNCHANGED <<peers, sent, log>> /\ G_RECEIVED' = [G_RECEIVED EXCEPT ![p] = TRUE]
      BY <1>0, <1>3, <2>1, ReadStep DEF buf_read_cb
    <3>2. G_RECEIVED' = G_RECEIVED
      BY <1>0, <2>1, <3>1 DEF TypeOK
    <3> QED  BY <3>1, <3>2
  <2>2. CASE ~ G_RECEIVED[p]
    <3> DEFINE e == <<n, p>>
    <3>1. e \in Edge /\ e[1] = n /\ e[2] = p /\ read[e] \in Nat /\ Len(sent[e]) \in Nat
      BY <1>0 DEF Edge, TypeOK
    <3>2. read[e] < Len(sent[e])
      BY <1>0, <1>3, ReadStep
    <3>3. Len(sent[e]) = 1 /\ G_RECEIVED[n] /\ p \in peers[n] /\ read[e] = 0
      <4>1. Len(sent[e]) = IF G_RECEIVED[e[1]] /\ e[2] \in peers[e[1]] THEN 1 ELSE 0
        BY <1>0, <3>1 DEF CountInv, OnePingPerConnection
      <4> HIDE DEF e
      <4> QED  BY <3>1, <3>2, <4>1
    <3>4. sent[e][read[e] + 1] = HopOf(n) + 1 /\ HopOf(n) \in Nat
      BY <3>1, <3>3 DEF HopInv, PingIsOneHopAhead, HopIsAWalk
    <3>5. p # Peer0 /\ G_RECEIVED'[p] /\ peers' = peers
          /\ \A m \in Node \ {p} : G_RECEIVED'[m] = G_RECEIVED[m]
      BY <1>0, <1>3, <2>2, ReadStep
    <3>6. log' = [log EXCEPT ![p] = Append(log[p], HopOf(n) + 1)]
      BY <1>0, <1>3, <2>2, <3>4, ReadStep
    <3>7. log[p] = <<>>
      BY <1>0, <2>2 DEF CountInv, OneLogLine, TypeOK
    <3>8. log'[p] = <<HopOf(n) + 1>> /\ \A m \in Node \ {p} : log'[m] = log[m]
      BY <1>0, <3>6, <3>7 DEF TypeOK
    <3>9. \A d \in Edge : sent'[d] = IF d[1] = p /\ d[2] \in peers[p]
                                    THEN Append(sent[d], (HopOf(n) + 1) + 1) ELSE sent[d]
      BY <1>0, <1>3, <2>2, <3>4, ReadStep
    <3>10. (HopOf(n) + 1) + 1 = HopOf(n) + 2
      BY <3>4
    <3> QED  BY <2>2, <3>3, <3>5, <3>8, <3>9, <3>10 DEF Joins
  <2> QED  BY <2>1, <2>2
<1>4. ASSUME NEW n \in Node, init_exits(n)
      PROVE  UNCHANGED <<peers, sent, G_RECEIVED, log>>
  BY <1>4 DEF init_exits
<1>5. CASE UNCHANGED vars
  BY <1>5 DEF vars
<1> QED  BY <1>1, <1>2, <1>3, <1>4, <1>5 DEF Next

(* What they make of the hops.                                             *)
LEMMA OriginateHops ==
  ASSUME GossipInv, Originates
  PROVE  /\ HopOf(Peer0)' = 0
         /\ \A n \in Node : HopOf(n) = -1
         /\ \A n \in Node \ {Peer0} : HopOf(n)' = -1
BY DEF Originates, HopOf

LEMMA JoinHops ==
  ASSUME GossipInv, NEW n \in Node, NEW p \in Node, Joins(n, p)
  PROVE  /\ HopOf(p) = -1 /\ HopOf(p)' = HopOf(n) + 1
         /\ \A m \in Node \ {p} : HopOf(m)' = HopOf(m)
BY DEF Joins, HopOf

LEMMA HopStep ==
  ASSUME GossipInv, GossipInv', HopInv, [Next]_vars
  PROVE  HopInv'
<1>0. /\ TypeOK /\ TypeOK' /\ CountInv /\ CountInv' /\ Peer0 \in Node
      /\ \A e \in Edge : e[1] \in Node /\ e[2] \in Node /\ sent[e] \in Seq(Nat)
  BY GossipAssumption DEF GossipInv, TypeOK, Edge
<1>1. CASE UNCHANGED <<peers, sent, G_RECEIVED, log>>
  BY <1>1 DEF HopInv, PingIsOneHopAhead, HopIsAWalk, OriginIsFirst, HopOf, Walk
<1>2. CASE Originates
  <2>1. PingIsOneHopAhead'
    <3> SUFFICES ASSUME NEW e \in Edge, Len(sent'[e]) = 1
                 PROVE  sent'[e][1] = HopOf(e[1])' + 1
      BY DEF PingIsOneHopAhead
    <3>1. G_RECEIVED'[e[1]] /\ e[2] \in peers[e[1]]
      <4> DEFINE due == G_RECEIVED'[e[1]] /\ e[2] \in peers'[e[1]]
      <4>1. ASSUME ~ due  PROVE FALSE
        <5>1. Len(sent'[e]) = 0
          BY <1>0, <4>1 DEF CountInv, OnePingPerConnection
        <5>2. 1 = 0
          BY <5>1
        <5> QED  BY <5>2
      <4>2. due
        BY <4>1
      <4>3. peers' = peers
        BY <1>2 DEF Originates
      <4> QED  BY <4>2, <4>3
    <3>2. e[1] = Peer0
      BY <1>0, <1>2, <3>1 DEF Originates
    <3>3. Len(sent[e]) = 0 /\ sent'[e] = Append(sent[e], 1)
      BY <1>0, <1>2, <3>1, <3>2 DEF CountInv, OnePingPerConnection, Originates
    <3>4. sent'[e][1] = 1
      BY <1>0, <3>3
    <3> QED  BY <1>2, <3>2, <3>4, OriginateHops
  <2>2. HopIsAWalk'
    <3> SUFFICES ASSUME NEW n \in Node, G_RECEIVED'[n]
                 PROVE  HopOf(n)' \in Nat /\ Walk(HopOf(n), n)'
      BY DEF HopIsAWalk
    <3>1. n = Peer0
      BY <1>2 DEF Originates
    <3>2. Walk(0, Peer0)'
      BY WalkBegins, <1>2 DEF Walk, Originates
    <3>3. HopOf(n)' = 0
      BY <1>2, <3>1, OriginateHops
    <3> QED  BY <3>1, <3>2, <3>3 DEF Walk
  <2>3. OriginIsFirst'
    BY <1>2 DEF Originates, OriginIsFirst
  <2> QED  BY <2>1, <2>2, <2>3 DEF HopInv
<1>3. ASSUME NEW n \in Node, NEW p \in Node, Joins(n, p)  PROVE HopInv'
  <2>0. HopOf(n) \in Nat /\ Walk(HopOf(n), n) /\ G_RECEIVED[n]
    BY <1>3 DEF Joins, HopInv, HopIsAWalk
  <2>1. PingIsOneHopAhead'
    <3> SUFFICES ASSUME NEW e \in Edge, Len(sent'[e]) = 1
                 PROVE  sent'[e][1] = HopOf(e[1])' + 1
      BY DEF PingIsOneHopAhead
    <3>1. G_RECEIVED'[e[1]] /\ e[2] \in peers[e[1]]
      <4> DEFINE due == G_RECEIVED'[e[1]] /\ e[2] \in peers'[e[1]]
      <4>1. ASSUME ~ due  PROVE FALSE
        <5>1. Len(sent'[e]) = 0
          BY <1>0, <4>1 DEF CountInv, OnePingPerConnection
        <5>2. 1 = 0
          BY <5>1
        <5> QED  BY <5>2
      <4>2. due
        BY <4>1
      <4>3. peers' = peers
        BY <1>3 DEF Joins
      <4> QED  BY <4>2, <4>3
    <3>2. CASE e[1] = p
      <4>1. Len(sent[e]) = 0 /\ sent'[e] = Append(sent[e], HopOf(n) + 2)
        BY <1>0, <1>3, <3>1, <3>2 DEF CountInv, OnePingPerConnection, Joins
      <4>2. sent'[e][1] = HopOf(n) + 2
        BY <1>0, <2>0, <4>1
      <4> QED  BY <1>3, <2>0, <3>2, <4>2, JoinHops
    <3>3. CASE e[1] # p
      <4>1. sent'[e] = sent[e] /\ HopOf(e[1])' = HopOf(e[1])
        BY <1>0, <1>3, <3>3, JoinHops DEF Joins
      <4> QED  BY <4>1 DEF HopInv, PingIsOneHopAhead
    <3> QED  BY <3>2, <3>3
  <2>2. HopIsAWalk'
    <3> SUFFICES ASSUME NEW m \in Node, G_RECEIVED'[m]
                 PROVE  HopOf(m)' \in Nat /\ Walk(HopOf(m), m)'
      BY DEF HopIsAWalk
    <3>1. CASE m = p
      <4>1. Walk(HopOf(n) + 1, p) /\ HopOf(n) + 1 \in Nat
        BY <1>3, <2>0, WalkExtends DEF Joins
      <4>2. HopOf(m)' = HopOf(n) + 1 /\ peers' = peers
        BY <1>3, <3>1, JoinHops DEF Joins
      <4> QED  BY <3>1, <4>1, <4>2 DEF Walk
    <3>2. CASE m # p
      <4>1. G_RECEIVED[m] /\ HopOf(m)' = HopOf(m) /\ peers' = peers
        BY <1>3, <3>2, JoinHops DEF Joins
      <4>2. HopOf(m) \in Nat /\ Walk(HopOf(m), m)
        BY <4>1 DEF HopInv, HopIsAWalk
      <4> QED  BY <4>1, <4>2 DEF Walk
    <3> QED  BY <3>1, <3>2
  <2>3. OriginIsFirst'
    BY <1>0, <1>3, <2>0 DEF Joins, HopInv, OriginIsFirst
  <2> QED  BY <2>1, <2>2, <2>3 DEF HopInv
<1> QED  BY <1>1, <1>2, <1>3, WaveSteps

LEMMA HopCountCorrect == Spec => []HopInv
<1>1. Init => HopInv
  BY DEF Init, HopInv, PingIsOneHopAhead, HopIsAWalk, OriginIsFirst
<1>2. GossipInv /\ GossipInv' /\ HopInv /\ [Next]_vars => HopInv'
  BY HopStep
<1> QED  BY <1>1, <1>2, GossipCorrect, PTL DEF Spec

(* The hop count a process prints is the length of a walk from peer0.      *)
THEOREM HopCorrect == Spec => []HopIsAPathLength
<1>1. GossipInv /\ HopInv => HopIsAPathLength
  <2> SUFFICES ASSUME GossipInv, HopInv, NEW n \in Node, NEW i \in 1..Len(log[n])
               PROVE  Walk(log[n][i], n)
    BY DEF HopIsAPathLength
  <2>1. G_RECEIVED[n] /\ n # Peer0 /\ i = 1
    BY DEF GossipInv, CountInv, OneLogLine
  <2>2. HopOf(n) = log[n][1]
    BY <2>1 DEF HopOf
  <2> QED  BY <2>1, <2>2 DEF HopInv, HopIsAWalk
<1> QED  BY <1>1, GossipCorrect, HopCountCorrect, PTL

(***************************************************************************)
(* Connections, buffers and callbacks implement the abstract flood: every  *)
(* step joins one process to the wave or changes nothing one can see of it.*)
(***************************************************************************)
THEOREM Refinement == Spec => IsAFlood
<1> DEFINE hops == [n \in Node |-> HopOf(n)]
<1>1. Init => Wave!Init
  BY DEF Init, Wave!Init, Wave!Unreached, HopOf
<1>2. GossipInv /\ HopInv /\ [Next]_vars => [Wave!Next]_<<peers, hops>>
  <2> SUFFICES ASSUME GossipInv, HopInv, [Next]_vars
               PROVE  Wave!Next \/ UNCHANGED <<peers, hops>>
    OBVIOUS
  <2>1. CASE UNCHANGED <<peers, sent, G_RECEIVED, log>>
    BY <2>1 DEF HopOf
  <2>2. CASE Originates
    <3>1. hops' = [hops EXCEPT ![Peer0] = 0]
      BY <2>2, OriginateHops, GossipAssumption
    <3>2. \A n \in Node : hops[n] = -1
      BY <2>2, OriginateHops
    <3> QED  BY <2>2, <3>1, <3>2 DEF Wave!Next, Wave!Originate, Wave!Unreached, Originates
  <2>3. ASSUME NEW n \in Node, NEW p \in Node, Joins(n, p)  PROVE Wave!Next
    <3>1. HopOf(n) \in Nat
      BY <2>3 DEF Joins, HopInv, HopIsAWalk
    <3>2. hops' = [hops EXCEPT ![p] = hops[n] + 1]
      BY <2>3, JoinHops
    <3>3. hops[n] # -1 /\ hops[p] = -1
      BY <2>3, <3>1, JoinHops
    <3>4. Wave!Spread(n, p)
      BY <2>3, <3>2, <3>3 DEF Wave!Spread, Wave!Unreached, Joins
    <3> QED  BY <3>4 DEF Wave!Next
  <2> QED  BY <2>1, <2>2, <2>3, WaveSteps
<1> QED  BY <1>1, <1>2, GossipCorrect, HopCountCorrect, PTL DEF Spec, IsAFlood, Wave!Spec

-------------------------------------------------------------------------------
(***************************************************************************)
(* One connection in bytes: PingWire, for every size of header, body and   *)
(* portion, when the header arrives in one piece.                          *)
(***************************************************************************)

(* The first call finds all bytes of the header.                           *)
HeaderIsWhole == MinFirst = HeaderSize

WireInv ==
  /\ pos = 0 => input = 0 /\ to_read_ = 0 /\ buf_ss_ = {} /\ ping = "waiting"
  /\ pos > 0 => pos \in HeaderSize..Total
  /\ pos \in Nat
  /\ Framed
  /\ ToReadIsRemaining

-------------------------------------------------------------------------------
(* Reading available bytes of a body of which size bytes are missing keeps *)
(* the frame.                                                              *)
LEMMA BodyStep ==
  ASSUME NEW start \in HeaderSize..Total, NEW available \in Nat,
         start + available <= Total,
         start + available > HeaderSize => available > 0,
         buf_ss_ = HeaderSize..(start - 1), ping = "waiting",
         ReadBody(start, available, Total - start)
  PROVE  WireInv'
<1> USE WireAssumption
<1> DEFINE end == start + available
<1>1. end \in HeaderSize..Total /\ end > 0
  BY DEF Total
<1>2. Smaller(Total - start, available) = available
  BY DEF Smaller, Total
<1>3. /\ pos' = end /\ input' = 0 /\ to_read_' = Total - end
      /\ buf_ss_' = (HeaderSize..(start - 1)) \cup (start..(end - 1))
      /\ ping' = IF available > 0 /\ Total - end = 0 THEN Deserialized(buf_ss_') ELSE ping
  BY <1>2 DEF ReadBody, Total
<1>4. buf_ss_' = HeaderSize..(end - 1)
  BY <1>1, <1>3
<1>5. ping' = IF end = Total THEN "handled" ELSE "waiting"
  <2>1. CASE end = Total
    <3>1. available > 0
      BY <2>1 DEF Total
    <3> QED  BY <1>3, <1>4, <2>1, <3>1 DEF Deserialized, Total
  <2>2. CASE end # Total
    BY <1>1, <1>3, <2>2 DEF Total
  <2> QED  BY <2>1, <2>2
<1> HIDE DEF end
<1> QED
  BY <1>1, <1>3, <1>4, <1>5 DEF WireInv, Framed, ToReadIsRemaining, Total

(* The first call takes the header off and reads what follows it; every    *)
(* other one goes on with the body.                                        *)
LEMMA WireStep ==
  ASSUME HeaderIsWhole, WireInv, NEW n \in 1..ReadMax, buf_read_cb_of(n)
  PROVE  WireInv'
<1> USE WireAssumption
<1>1. CASE pos = 0
  <2>1. n >= HeaderSize /\ n <= Total /\ input + n = n /\ ping = "waiting" /\ buf_ss_ = {}
    BY <1>1 DEF HeaderIsWhole, WireInv, buf_read_cb_of
  <2>2. ReadHeader(n)
    BY <1>1, <2>1 DEF WireInv, buf_read_cb_of
  <2>3. Headers(n) = {SentHeader} /\ Smaller(HeaderSize, n) = HeaderSize
    BY <1>1, <2>1 DEF Headers, Smaller
  <2>4. ReadBody(HeaderSize, n - HeaderSize, Total - HeaderSize)
    BY <1>1, <2>2, <2>3 DEF ReadHeader, SentHeader, Total
  <2>5. buf_ss_ = HeaderSize..(HeaderSize - 1)
    BY <2>1
  <2> QED  BY <2>1, <2>4, <2>5, BodyStep DEF Total
<1>2. CASE pos > 0
  <2>1. /\ pos \in HeaderSize..Total /\ input = 0 /\ to_read_ = Total - pos
        /\ buf_ss_ = HeaderSize..(pos - 1) /\ ping = "waiting"
    BY <1>2 DEF WireInv, Framed, ToReadIsRemaining, buf_read_cb_of
  <2>2. pos + n <= Total /\ to_read_ # 0
    BY <2>1 DEF buf_read_cb_of, Total
  <2>3. ReadBody(pos, n, Total - pos)
    BY <2>1, <2>2 DEF buf_read_cb_of
  <2> QED  BY <2>1, <2>2, <2>3, BodyStep DEF Total
<1> QED  BY <1>1, <1>2 DEF WireInv

(* The bytes of the body are put together in their order, nothing is left  *)
(* over, and the ping is handled exactly when it is complete.              *)
THEOREM FramedCorrect ==
  ASSUME HeaderIsWhole
  PROVE  WireSpec => []Framed
<1>1. WireInit => WireInv
  BY WireAssumption DEF WireInit, WireInv, Framed, ToReadIsRemaining
<1>2. WireInv /\ [WireNext]_wireVars => WireInv'
  <2> SUFFICES ASSUME WireInv, [WireNext]_wireVars PROVE WireInv'
    OBVIOUS
  <2>1. CASE WireNext
    BY <2>1, WireStep DEF WireNext
  <2>2. CASE UNCHANGED wireVars
    BY <2>2 DEF wireVars, WireInv, Framed, ToReadIsRemaining
  <2> QED  BY <2>1, <2>2
<1>3. WireInv => Framed
  BY DEF WireInv
<1> QED  BY <1>1, <1>2, <1>3, PTL DEF WireSpec

-------------------------------------------------------------------------------
(***************************************************************************)
(* The miner thread goes round in three phases: it waits for mine_ev_; the *)
(* timer has expired; its block is in the pipe, and mine_ev_ is the old    *)
(* timer, added again or not.                                              *)
(***************************************************************************)
Created ==
  /\ miner = "created" /\ mined = 0
  /\ mine_ev_ = NULL /\ armed = {} /\ active = {} /\ pipe = <<>>

Waiting ==
  /\ miner = "loop" /\ mine_ev_ = mined + 1
  /\ armed = {mine_ev_} /\ active = {} /\ pipe = <<>>

Expired ==
  /\ miner = "loop" /\ mine_ev_ = mined + 1 /\ mined < MaxBlocks
  /\ armed = {} /\ active = {mine_ev_} /\ pipe = <<>>

Mined ==
  /\ miner = "loop" /\ mine_ev_ = mined /\ mined > 0
  /\ armed \subseteq {mine_ev_} /\ active = {} /\ pipe = <<mined>>

Phase == Created \/ Waiting \/ Expired \/ Mined

MinerInv == MinerTypeOK /\ Phase

-------------------------------------------------------------------------------
(* Each phase is left by one action of the miner thread only, and the      *)
(* main thread disturbs none of them.                                      *)
LEMMA PhaseStep ==
  ASSUME MinerInv, [MinerNext]_minerVars
  PROVE  Phase'
<1> USE MinerAssumption
<1>1. CASE mine
  <2>1. Created
    BY <1>1 DEF MinerInv, Phase, Created, Waiting, Expired, Mined, mine
  <2> QED  BY <1>1, <2>1 DEF Created, Phase, Waiting, mine, NewTimer, NULL
<1>2. CASE Poll
  <2>1. Waiting
    BY <1>2 DEF MinerInv, Phase, Created, Waiting, Expired, Mined, Poll, NothingActive
  <2>2. active' = {mine_ev_} /\ armed' = {}
    <3>1. PICK expired \in SUBSET armed :
            (expired = {} => armed = {}) /\ active' = expired /\ armed' = armed \ expired
      BY <1>2 DEF Poll
    <3>2. expired = {mine_ev_}
      BY <2>1, <3>1 DEF Waiting
    <3> QED  BY <2>1, <3>1, <3>2 DEF Waiting
  <2> QED  BY <1>2, <2>1, <2>2 DEF Waiting, Phase, Expired, Poll, NothingActive
<1>3. ASSUME NEW ev \in active, on_mine(ev)
      PROVE  Phase'
  <2>1. Expired /\ ev = mine_ev_
    BY <1>3 DEF MinerInv, Phase, Created, Waiting, Expired, Mined
  <2>2. mined \in Nat /\ active' = {} /\ armed' \subseteq {mine_ev_}
    BY <1>3, <2>1 DEF MinerInv, MinerTypeOK, Expired, on_mine, Readd
  <2>3. pipe' = <<mined'>>
    BY <1>3, <2>1 DEF Expired, on_mine
  <2> QED  BY <1>3, <2>1, <2>2, <2>3 DEF Phase, Expired, Mined, on_mine
<1>4. CASE main_on_read
  <2>1. Mined
    BY <1>4 DEF MinerInv, Phase, Created, Waiting, Expired, Mined, main_on_read
  <2>2. /\ mine_ev_' = mined' + 1 /\ miner' = "loop"
        /\ armed' = {mine_ev_'} /\ active' = {} /\ pipe' = <<>>
    BY <1>4, <2>1 DEF Mined, main_on_read, reset_mining, NewTimer
  <2> QED  BY <2>2 DEF Phase, Waiting
<1>5. CASE UNCHANGED <<miner, timers, mined, pipe>>
  BY <1>5 DEF MinerInv, Phase, Created, Waiting, Expired, Mined, timers
<1> QED
  BY <1>1, <1>2, <1>3, <1>4, <1>5
  DEF MinerNext, MinerThread, MainThread, Flush, on_kill, minerVars

(* The types: numbers of blocks and timers stay below their bounds because *)
(* a timer is made once per block.                                         *)
LEMMA MinerTypeStep ==
  ASSUME MinerInv, [MinerNext]_minerVars
  PROVE  MinerTypeOK'
<1> USE MinerAssumption DEF MinerTypeOK, Message
<1> MinerTypeOK
  BY DEF MinerInv
<1>1. CASE mine
  <2>1. Created
    BY <1>1 DEF MinerInv, Phase, Created, Waiting, Expired, Mined, mine
  <2>2. mine_ev_' \in Events /\ mine_ev_' \in 0..(mined' + 1)
    BY <1>1, <2>1 DEF Created, mine, NewTimer, NULL, Events
  <2> QED  BY <1>1, <2>2 DEF mine, NewTimer
<1>2. CASE Poll
  BY <1>2 DEF Poll
<1>3. ASSUME NEW ev \in active, on_mine(ev)
      PROVE  MinerTypeOK'
  <2>1. Expired
    BY <1>3 DEF MinerInv, Phase, Created, Waiting, Mined
  <2>2. mined' \in 1..MaxBlocks /\ mine_ev_' \in 0..(mined' + 1)
    BY <1>3, <2>1 DEF Expired, on_mine
  <2>3. pipe' \in Seq(1..MaxBlocks)
    BY <1>3, <2>2 DEF on_mine
  <2> QED  BY <1>3, <2>2, <2>3 DEF on_mine, Readd
<1>4. CASE main_on_read
  <2>1. Mined
    BY <1>4 DEF MinerInv, Phase, Created, Waiting, Expired, main_on_read
  <2>2. mine_ev_' \in Events /\ mine_ev_' \in 0..(mined' + 1)
    BY <1>4, <2>1 DEF Mined, main_on_read, reset_mining, NewTimer, Events
  <2>3. pipe \in Seq(0..MaxBlocks) /\ <<PAD>> \in Seq(0..MaxBlocks)
    BY DEF PAD
  <2>4. ASSUME NEW p \in Peers
        PROVE  out[p] \o pipe \o <<PAD>> \in Seq(0..MaxBlocks)
    BY <2>3, ConcatProperties
  <2>5. out' \in [Peers -> Seq(0..MaxBlocks)]
    BY <1>4, <2>4 DEF main_on_read, broadcast_block
  <2> QED  BY <1>4, <2>2, <2>5 DEF main_on_read, reset_mining, NewTimer
<1>5. ASSUME NEW p \in Peers, Flush(p)
      PROVE  MinerTypeOK'
  <2>1. wire[p] \o out[p] \in Seq(0..MaxBlocks)
    BY ConcatProperties
  <2>2. <<>> \in Seq(0..MaxBlocks)
    OBVIOUS
  <2> QED  BY <1>5, <2>1, <2>2 DEF Flush, timers
<1>6. CASE on_kill
  BY <1>6 DEF on_kill, timers
<1>7. CASE UNCHANGED minerVars
  BY <1>7 DEF minerVars, timers
<1> QED
  BY <1>1, <1>2, <1>3, <1>4, <1>5, <1>6, <1>7 DEF MinerNext, MinerThread, MainThread

(* Every variable keeps its type and the miner thread one of its phases.   *)
THEOREM MinerCorrect == MinerSpec => []MinerInv
<1>1. MinerInit => MinerInv
  <2> SUFFICES ASSUME MinerInit PROVE MinerInv
    OBVIOUS
  <2>1. MinerTypeOK
    BY MinerAssumption DEF MinerInit, MinerTypeOK, Message, NULL
  <2>2. Created
    BY DEF MinerInit, Created
  <2> QED  BY <2>1, <2>2 DEF MinerInv, Phase
<1>2. MinerInv /\ [MinerNext]_minerVars => MinerInv'
  BY PhaseStep, MinerTypeStep DEF MinerInv
<1> QED  BY <1>1, <1>2, PTL DEF MinerSpec

(* The state keeps its type.                                               *)
THEOREM MinerTypeCorrect == MinerSpec => []MinerTypeOK
  BY MinerCorrect, PTL DEF MinerInv

(* A process never mines on two timers.                                    *)
THEOREM OneTimerCorrect == MinerSpec => []OneTimer
<1>1. MinerInv => OneTimer
  BY DEF MinerInv, Phase, Created, Waiting, Expired, Mined, OneTimer
<1> QED  BY <1>1, MinerCorrect, PTL

(* The miner's loop always has a timer or a callback left.                 *)
THEOREM NeverDry == MinerSpec => []LoopNeverRunsDry
<1>1. MinerInv => LoopNeverRunsDry
  BY DEF MinerInv, Phase, Created, Waiting, Expired, Mined, LoopNeverRunsDry, NothingActive
<1> QED  BY <1>1, MinerCorrect, PTL

-------------------------------------------------------------------------------
(* One more block and its padding continue a padded stream.                *)
LEMMA PaddedGrows ==
  ASSUME NEW n \in Nat
  PROVE  Padded(n) \o <<n + 1>> \o <<PAD>> = Padded(n + 1)
<1> DEFINE s == Padded(n) \o <<n + 1>> \o <<PAD>>
<1>1. Padded(n) \in Seq(Nat) /\ Len(Padded(n)) = 2 * n
  BY DEF Padded, PAD
<1>2. /\ s \in Seq(Nat) /\ Len(s) = 2 * n + 2
      /\ \A i \in 1..(2 * n) : s[i] = Padded(n)[i]
      /\ s[2 * n + 1] = n + 1
      /\ s[2 * n + 2] = PAD
  BY <1>1 DEF PAD
<1>3. Padded(n + 1) \in Seq(Nat) /\ Len(Padded(n + 1)) = 2 * n + 2
  BY DEF Padded, PAD
<1>4. ASSUME NEW i \in 1..(2 * n + 2)
      PROVE  s[i] = Padded(n + 1)[i]
  <2>1. CASE i \in 1..(2 * n)
    <3>1. s[i] = Padded(n)[i]
      BY <1>2, <2>1
    <3>2. i \in 1..(2 * (n + 1))
      BY <2>1
    <3>3. Padded(n)[i] = Padded(n + 1)[i]
      BY <2>1, <3>2 DEF Padded
    <3> QED  BY <3>1, <3>3
  <2>2. CASE i = 2 * n + 1
    <3>1. (2 * n + 1) % 2 = 1 /\ (2 * n + 2) \div 2 = n + 1
      OBVIOUS
    <3> QED  BY <1>2, <2>2, <3>1 DEF Padded
  <2>3. CASE i = 2 * n + 2
    <3>1. (2 * n + 2) % 2 = 0
      OBVIOUS
    <3> QED  BY <1>2, <2>3, <3>1 DEF Padded
  <2>4. i \in 1..(2 * n) \/ i = 2 * n + 1 \/ i = 2 * n + 2
    OBVIOUS
  <2> HIDE DEF s
  <2> QED  BY <2>1, <2>2, <2>3, <2>4
<1> HIDE DEF s
<1>5. s = Padded(n + 1)
  BY <1>2, <1>3, <1>4
<1> QED  BY <1>5 DEF s

(* Concatenation of messages is associative.                               *)
LEMMA ConcatAssoc ==
  ASSUME NEW x \in Message, NEW y \in Message, NEW z \in Message
  PROVE  x \o (y \o z) = (x \o y) \o z
<1> DEFINE l == x \o (y \o z)
           r == (x \o y) \o z
<1>0. /\ Len(x) \in Nat /\ Len(y) \in Nat /\ Len(z) \in Nat
      /\ x \o y \in Message /\ y \o z \in Message
      /\ Len(x \o y) = Len(x) + Len(y) /\ Len(y \o z) = Len(y) + Len(z)
  BY DEF Message
<1>1. l \in Message /\ Len(l) = Len(x) + Len(y) + Len(z)
  BY <1>0 DEF Message
<1>2. r \in Message /\ Len(r) = Len(x) + Len(y) + Len(z)
  BY <1>0 DEF Message
<1>3. ASSUME NEW i \in 1..(Len(x) + Len(y) + Len(z))  PROVE l[i] = r[i]
  <2>1. CASE i <= Len(x)
    <3>1. l[i] = x[i]
      BY <1>0, <2>1 DEF Message
    <3>2. r[i] = (x \o y)[i] /\ (x \o y)[i] = x[i]
      BY <1>0, <2>1 DEF Message
    <3> QED  BY <3>1, <3>2
  <2>2. CASE i > Len(x) /\ i <= Len(x) + Len(y)
    <3>1. l[i] = (y \o z)[i - Len(x)] /\ (y \o z)[i - Len(x)] = y[i - Len(x)]
      BY <1>0, <2>2 DEF Message
    <3>2. r[i] = (x \o y)[i] /\ (x \o y)[i] = y[i - Len(x)]
      BY <1>0, <2>2 DEF Message
    <3> QED  BY <3>1, <3>2
  <2>3. CASE i > Len(x) + Len(y)
    <3>1. l[i] = (y \o z)[i - Len(x)] /\ (y \o z)[i - Len(x)] = z[i - Len(x) - Len(y)]
      BY <1>0, <2>3 DEF Message
    <3>2. r[i] = z[i - (Len(x) + Len(y))] /\ i - (Len(x) + Len(y)) = i - Len(x) - Len(y)
      BY <1>0, <2>3 DEF Message
    <3> QED  BY <3>1, <3>2
  <2> QED  BY <1>0, <2>1, <2>2, <2>3
<1> HIDE DEF l, r
<1>4. l = r
  BY <1>0, <1>1, <1>2, <1>3 DEF Message
<1> QED  BY <1>4 DEF l, r

(* What is appended to the output buffer is appended to all that was sent. *)
LEMMA AppendTwice ==
  ASSUME NEW w \in Message, NEW o \in Message,
         NEW a \in 0..MaxBlocks, NEW b \in 0..MaxBlocks
  PROVE  w \o (o \o <<a>> \o <<b>>) = (w \o o) \o <<a>> \o <<b>>
<1>1. <<a>> \in Message /\ <<b>> \in Message
  BY DEF Message
<1>2. ASSUME NEW x \in Message, NEW y \in Message
      PROVE  w \o (o \o x \o y) = (w \o o) \o x \o y
  <2> DEFINE ox == o \o x
  <2>1. ox \in Message
    BY DEF Message
  <2> HIDE DEF ox
  <2>2. w \o (ox \o y) = (w \o ox) \o y
    BY <2>1, ConcatAssoc
  <2>3. w \o (o \o x) = (w \o o) \o x
    BY ConcatAssoc
  <2> QED  BY <2>2, <2>3 DEF ox
<1> QED  BY <1>1, <1>2

(* Writing to a socket moves bytes, and a broadcast adds the one block of  *)
(* the pipe with its padding.                                              *)
LEMMA PaddedStep ==
  ASSUME MinerInv, EachBlockIsPadded, [MinerNext]_minerVars
  PROVE  EachBlockIsPadded'
<1> USE MinerAssumption
<1> MinerTypeOK
  BY DEF MinerInv
<1> SUFFICES ASSUME NEW p \in Peers
             PROVE  wire'[p] \o out'[p] = Padded(mined' - Len(pipe'))
  BY DEF EachBlockIsPadded
<1>0. /\ wire[p] \o out[p] = Padded(mined - Len(pipe))
      /\ wire[p] \in Message /\ out[p] \in Message /\ mined \in Nat
  BY DEF EachBlockIsPadded, MinerTypeOK
<1>1. CASE main_on_read
  <2>1. mined > 0 /\ pipe = <<mined>> /\ Len(pipe) = 1
    BY <1>1 DEF MinerInv, Phase, Created, Waiting, Expired, Mined, main_on_read
  <2>2. out'[p] = out[p] \o <<mined>> \o <<PAD>> /\ wire'[p] = wire[p]
    BY <1>1, <2>1 DEF main_on_read, broadcast_block
  <2>3. mined \in 0..MaxBlocks /\ PAD \in 0..MaxBlocks
    BY DEF MinerTypeOK, PAD
  <2>4. wire[p] \o (out[p] \o <<mined>> \o <<PAD>>)
          = (wire[p] \o out[p]) \o <<mined>> \o <<PAD>>
    <3>1. \A w, o \in Message, a, b \in 0..MaxBlocks :
             w \o (o \o <<a>> \o <<b>>) = (w \o o) \o <<a>> \o <<b>>
      BY AppendTwice, Zenon
    <3> QED  BY <1>0, <2>3, <3>1
  <2>6. Padded(mined - 1) \o <<mined>> \o <<PAD>> = Padded(mined)
    <3>1. mined - 1 \in Nat /\ (mined - 1) + 1 = mined
      BY <1>0, <2>1
    <3> QED  BY <3>1, PaddedGrows
  <2>7. mined' - Len(pipe') = mined
    BY <1>0, <1>1 DEF main_on_read
  <2> QED  BY <1>0, <2>1, <2>2, <2>4, <2>6, <2>7
<1>2. ASSUME NEW ev \in active, on_mine(ev)
      PROVE  wire'[p] \o out'[p] = Padded(mined' - Len(pipe'))
  <2>1. mined' - Len(pipe') = mined - Len(pipe)
    BY <1>0, <1>2 DEF on_mine, MinerTypeOK
  <2> QED  BY <1>0, <1>2, <2>1 DEF on_mine
<1>3. ASSUME NEW q \in Peers, Flush(q)
      PROVE  wire'[p] \o out'[p] = Padded(mined' - Len(pipe'))
  <2>1. wire'[p] \o out'[p] = wire[p] \o out[p]
    <3>1. CASE p = q
      <4>1. wire[p] \o out[p] \in Message
        BY <1>0, ConcatProperties DEF Message
      <4>2. wire'[p] = wire[p] \o out[p] /\ out'[p] = <<>>
        BY <1>3, <3>1 DEF Flush, MinerTypeOK
      <4> QED  BY <4>1, <4>2, ConcatEmptySeq DEF Message
    <3>2. CASE p # q
      BY <1>3, <3>2 DEF Flush, MinerTypeOK
    <3> QED  BY <3>1, <3>2
  <2> QED  BY <1>0, <1>3, <2>1 DEF Flush
<1>4. CASE UNCHANGED <<mined, pipe, out, wire>>
  BY <1>0, <1>4
<1> QED
  BY <1>1, <1>2, <1>3, <1>4
  DEF MinerNext, MinerThread, MainThread, mine, Poll, on_kill, minerVars

(* Every peer is sent every block once, in order, with its own padding.    *)
THEOREM PaddedCorrect == MinerSpec => []EachBlockIsPadded
<1>1. MinerInit => EachBlockIsPadded
  <2> SUFFICES ASSUME MinerInit, NEW p \in Peers
               PROVE  wire[p] \o out[p] = Padded(mined - Len(pipe))
    BY DEF EachBlockIsPadded
  <2>1. mined = 0 /\ pipe = <<>> /\ wire[p] = <<>> /\ out[p] = <<>>
    BY DEF MinerInit
  <2>2. Padded(0) = <<>>
    BY DEF Padded
  <2> QED  BY <2>1, <2>2
<1>2. MinerInv /\ EachBlockIsPadded /\ [MinerNext]_minerVars => EachBlockIsPadded'
  BY PaddedStep
<1> QED  BY <1>1, <1>2, MinerCorrect, PTL DEF MinerSpec
===============================================================================
