----------------------------- MODULE Configuration -----------------------------
(***************************************************************************)
(* util.cpp's parse_config: what a node is configured with, from the tree  *)
(* of its file, the table that is element 1.                               *)
(***************************************************************************)
EXTENDS TomlTree

CONSTANTS
  my_port_default, miner_timeout_default, msg_size_default, log_level_default

Root == 1

(* The operator * of an option that is empty gives what the option was     *)
(* made with: "" for a string, and for a number whatever was there, which  *)
(* the model keeps as {}.                                                  *)
EmptyString == 0

Text(option) == IF option = {} THEN EmptyString ELSE CHOOSE s \in option : TRUE
value_or(option, alternative) == IF option = {} THEN alternative ELSE CHOOSE v \in option : TRUE

Peer(h, t) ==
  [host |-> Text(get_as(h, "string", t, <<"peer-host">>).option),
   port |-> get_as(h, "int", t, <<"peer-port">>).option]

Setting == {<<"my-port">>, <<"miner-timeout">>, <<"msg-size">>, <<"log-level">>}

ASSUME ConfigurationAssumption ==
  /\ Setting \cup {<<"peers">>, <<"my-addr">>, <<"peer-host">>, <<"peer-port">>} \subseteq Key
  /\ \A input \in Inputs : Root \in DOMAIN input.heap

Default ==
  [key \in Setting |->
     CASE key = <<"my-port">> -> my_port_default [] key = <<"miner-timeout">> -> miner_timeout_default
       [] key = <<"msg-size">> -> msg_size_default [] key = <<"log-level">> -> log_level_default]

parse_config(h) ==
  LET peers == get_table_array(h, Root, <<"peers">>)
      tables == h[peers].array_
      setting == [key \in Setting |-> get_as(h, "int", Root, key)]
  IN  CASE peers = Null -> [is |-> "null dereferenced"]
        [] OTHER ->
             IF \/ \E i \in DOMAIN tables : get_as(h, "int", tables[i], <<"peer-port">>).thrown
                \/ \E key \in Setting : setting[key].thrown
             THEN [is |-> "thrown"]
             ELSE [is |-> "config",
                   peers |-> [i \in DOMAIN tables |-> Peer(h, tables[i])],
                   my_addr |-> Text(get_as(h, "string", Root, <<"my-addr">>).option),
                   settings |-> [key \in Setting |-> value_or(setting[key].option, Default[key])]]

-------------------------------------------------------------------------------
(* An element of a type at a key; what the file has there.                 *)
Has(t, key, type) == contains(heap, t, key) /\ heap[heap[t].map_[key]].type = type
Data(t, key) == heap[heap[t].map_[key]].data

IsInt(n) == n \in (-IntMax - 1)..IntMax

Peers == heap[Root].map_[<<"peers">>]
PeerTables == heap[Peers].array_
HasPeers == Peers # Null /\ heap[Peers].is \in {"table_array", "static"}

(***************************************************************************)
(* A node runs with its file's peers in their order and with its file's    *)
(* settings, or with the defaults of those the file has no number for; it  *)
(* stops at a number that is no int, and at a file without peers (a null   *)
(* pointer is dereferenced).  It goes on with an indeterminate port and an *)
(* empty host where a peer has none ("FIXME: unwrapping values").          *)
(***************************************************************************)
ConfigIsOfTheFile ==
  LET config == parse_config(heap)
      Numbers == {<<Root, key>> : key \in Setting} \cup
                 (IF HasPeers THEN {<<PeerTables[i], <<"peer-port">>>> : i \in DOMAIN PeerTables} ELSE {})
      AllInts == \A at \in Numbers : Has(at[1], at[2], "int") => IsInt(Data(at[1], at[2]))
  IN  /\ config.is = "config" <=> HasPeers /\ AllInts
      /\ config.is = "config" =>
           /\ DOMAIN config.peers = DOMAIN PeerTables
           /\ \A i \in DOMAIN PeerTables :
                 /\ Has(PeerTables[i], <<"peer-host">>, "string") =>
                      config.peers[i].host = Data(PeerTables[i], <<"peer-host">>)
                 /\ config.peers[i].port =
                      IF Has(PeerTables[i], <<"peer-port">>, "int")
                      THEN {Data(PeerTables[i], <<"peer-port">>)} ELSE {}
           /\ \A key \in Setting :
                 config.settings[key] = IF Has(Root, key, "int") THEN Data(Root, key) ELSE Default[key]
===============================================================================
