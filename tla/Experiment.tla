------------------------------ MODULE Experiment ------------------------------
(***************************************************************************)
(* The experiment scripts: run_exp.py calls do_experiment for one sample   *)
(* after another; each call makes a graph, writes one configuration file   *)
(* per process and the list of hosts, runs Shadow, reads one line out of   *)
(* every log and appends a row to the result file.  The scripts are single *)
(* threaded, but they talk to Shadow through files that outlive a call,    *)
(* and os.system's exit status is ignored, so a call may find what another *)
(* one left.                                                               *)
(***************************************************************************)
EXTENDS Topology, Sequences

CONSTANTS
  Plans,        \* the sequences of samples the scripts may be asked for
  FaultSets,    \* the sets of faults a series of simulations may meet
  Earlier       \* of how many processes an earlier invocation may have left
                \* logs, 0 if there was none

(***************************************************************************)
(* "fails": shadow ends without having written anything, for instance      *)
(* because it is not found or refuses its arguments; "stoptime": the 100   *)
(* simulated seconds of example.xml end before the flood does.             *)
(***************************************************************************)
ASSUME ExperimentAssumption ==
  /\ Plans \subseteq Seq(Arguments)
  /\ FaultSets \subseteq SUBSET {"fails", "stoptime"}
  /\ Earlier \subseteq Nat

VARIABLES
  plan,     \* the samples of this invocation
  faults,   \* what may go wrong in its simulations
  exp,      \* how many of them have been begun
  at,       \* where do_experiment is
  hosts,    \* example_multiple_generated.xml: the hosts Shadow starts
  data,     \* ./data: the [[peers]] of every configuration file
  logs,     \* ./shadow.data: per process, the sample it is of, 0 for one of
            \* an earlier invocation, and whether it holds a "****" line
  node_id,  \* report_stat's loop variable
  samples,  \* the samples whose logs report_stat has read so far
  rows      \* the rows of the result file

disk == <<hosts, data, logs>>
script == <<plan, faults, exp, at, node_id, samples, rows>>
topology == <<node_num, peer_cnt, graph, base, todo, pc>>

EmptyFile == [p \in {} |-> {}]

(* No script empties ./shadow.data; the other files are written again      *)
(* before they are read.                                                   *)
EarlierLogs ==
  UNION {{[p \in 0..(n - 1) |-> [sample |-> 0, line |-> p \in printed]] :
            printed \in SUBSET (1..(n - 1))} : n \in Earlier}

ExperimentInit ==
  /\ plan \in Plans /\ faults \in FaultSets
  /\ exp = 0 /\ at = "next" /\ node_id = 0 /\ samples = {} /\ rows = <<>>
  /\ hosts = {} /\ data = EmptyFile /\ logs \in EarlierLogs
  /\ node_num = 0 /\ peer_cnt = 0 /\ graph = EmptyFile
  /\ base = {} /\ todo = {} /\ pc = "done"

(* The loops of run_exp.py, as far as the first line of connect_graph.     *)
NextSample ==
  /\ at = "next"
  /\ exp < Len(plan)
  /\ exp' = exp + 1
  /\ node_num' = plan[exp'][1] /\ peer_cnt' = plan[exp'][2]
  /\ graph' \in generate_graph'
  /\ base' = {} /\ todo' = {} /\ pc' = "check"
  /\ at' = "graph"
  /\ UNCHANGED <<plan, faults, node_id, samples, rows, disk>>

ConnectGraph ==
  /\ at = "graph"
  /\ connect_graph
  /\ UNCHANGED <<script, disk>>

ConfigFiles_from_one == [p \in Node |-> {q + 1 : q \in graph[p]}]

ConfigFiles == [p \in Node |-> graph[p]]

(* setup_multiple_node_xml and setup_multiple_node_data, which empties     *)
(* ./data before it writes.                                                *)
SetupNodes ==
  /\ at = "graph"
  /\ pc = "done"
  /\ hosts' = Node
  /\ data' = ConfigFiles
  /\ at' = "shadow"
  /\ UNCHANGED <<plan, faults, exp, node_id, samples, rows, logs, topology>>

(* latency = [] and hop = [].                                              *)
NoSamples_kept == samples

NoSamples == {}

(***************************************************************************)
(* The processes that print a "****" line: those the flood of process 0    *)
(* reaches.  A process whose file has no [[peers]] dereferences a null     *)
(* pointer in parse_config, and one with a peer that is no host an         *)
(* uninitialised one in connect_peer; neither gets to listen.              *)
(***************************************************************************)
Runs(p) == data[p] # {} /\ data[p] \subseteq hosts

Flooded ==
  LET running == [p \in Node |-> IF Runs(p) THEN data[p] ELSE {}]
  IN  {p \in Node \ {0} : Runs(p) /\ Reaches(running, 0, p)}

run_shadow ==
  /\ at = "shadow"
  /\ \/ "fails" \in faults /\ UNCHANGED logs
     \/ \E printed \in IF "stoptime" \in faults THEN SUBSET Flooded ELSE {Flooded} :
           logs' = [p \in hosts |-> [sample |-> exp, line |-> p \in printed]]
  /\ at' = "report" /\ node_id' = 1 /\ samples' = NoSamples
  /\ UNCHANGED <<plan, faults, exp, rows, hosts, data, topology>>

(* parse_log: a log that is not there, or has no line, is an exception     *)
(* nobody catches: no later sample is run.                                 *)
parse_log ==
  /\ at = "report"
  /\ node_id < node_num
  /\ IF node_id \in DOMAIN logs /\ logs[node_id].line
     THEN /\ samples' = samples \cup {logs[node_id].sample}
          /\ node_id' = node_id + 1
          /\ UNCHANGED at
     ELSE at' = "failed" /\ UNCHANGED <<samples, node_id>>
  /\ UNCHANGED <<plan, faults, exp, rows, disk, topology>>

(* The rest of report_stat.                                                *)
WriteRow ==
  /\ at = "report"
  /\ node_id = node_num
  /\ rows' = Append(rows, [nodenum |-> node_num, peercnt |-> peer_cnt, of |-> samples])
  /\ at' = "next"
  /\ UNCHANGED <<plan, faults, exp, node_id, samples, disk, topology>>

ExperimentNext ==
  NextSample \/ ConnectGraph \/ SetupNodes \/ run_shadow \/ parse_log \/ WriteRow

ExperimentSpec == ExperimentInit /\ [][ExperimentNext]_<<script, disk, topology>>

-------------------------------------------------------------------------------
(***************************************************************************)
(* util.cpp:60 and main.cpp:776 use what the configuration file and the    *)
(* resolver give them unchecked: every file the scripts write names at     *)
(* least one peer, and only peers that will be hosts of the simulation.    *)
(***************************************************************************)
ConfigsAreDeployable == at = "shadow" => \A p \in hosts : p \in DOMAIN data /\ Runs(p)

(***************************************************************************)
(* parse_log needs a "****" line of every process but 0.  Unless a         *)
(* simulation goes wrong there is one: what connect_graph returns lets the *)
(* flood reach everybody, and the logs are those of the hosts just run.    *)
(***************************************************************************)
NoSampleFails == faults = {} => at # "failed" /\ \A i \in 1..Len(rows) : rows[i].of = {i}

(***************************************************************************)
(* A simulation that wrote nothing goes unnoticed if an earlier one, of    *)
(* this invocation or of one before, left logs of enough processes: the    *)
(* row then holds the figures of that one.  They are never those of two,   *)
(* and if they are old, all rows since then hold the same.                 *)
(***************************************************************************)
RowIsBacked ==
  \A i \in 1..Len(rows) : \E j \in 0..i :
     /\ rows[i].of = {j}
     /\ j > 0 => plan[j][1] >= rows[i].nodenum
     /\ j < i => "fails" \in faults
     /\ \A h \in 1..i : h >= j => rows[h].of = {j}

===============================================================================
