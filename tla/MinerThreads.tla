----------------------------- MODULE MinerThreads -----------------------------
(***************************************************************************)
(* The two threads of a mining process once init() calls create_miner      *)
(* (main.cpp:537): the main thread in event_base_dispatch, the miner       *)
(* thread in event_base_loop of a base of its own, and what they share.    *)
(*                                                                         *)
(* The bufferevent pair from the miner to the main thread, main_bev_pair,  *)
(* is created on the miner's base (main.cpp:637), and libevent defers the  *)
(* callbacks of a pair.  main_on_read therefore runs on the miner thread,  *)
(* from the queue of active callbacks, after the timer callback that wrote *)
(* the block has returned and before the loop looks at the clock again.    *)
(*                                                                         *)
(* Nothing writes to the pair in the other direction (state->w_bev_), so   *)
(* miner_on_read is never called and reset_mining runs on one thread only. *)
(* A block is its number in the order of mining; what accept_block does    *)
(* with it is specified in Ledger.                                         *)
(***************************************************************************)
EXTENDS Naturals, Sequences, FiniteSets

CONSTANTS
  Peers,      \* keys of out_clients_, which does not change after init()
  MaxBlocks   \* bound: no timer expires after so many blocks

ASSUME MinerAssumption == MaxBlocks \in Nat

NULL == 0     \* mine_ev_ before the miner thread has set it
PAD  == 0     \* the "*" of broadcast_block; blocks are numbered from 1
Events == 1..(MaxBlocks + 1)   \* timers, in the order of event_new

VARIABLES
  main,      \* the main thread: "dispatch", or "join", waiting for the miner
  miner,     \* the miner thread: "created", "loop", "exited"
  mine_ev_,
  armed,     \* timers added to the miner's base
  repeats,   \* timers with a non-zero interval, which libevent adds again
  active,    \* timers that have expired and whose callback is still to run
  mined,     \* number of blocks on_mine has produced
  pipe,      \* blocks in main_bev_pair; not empty: main_on_read is deferred
  out,       \* output buffer of the bufferevent to each peer
  wire       \* what the main thread has written to each peer's socket

timers == <<mine_ev_, armed, repeats, active>>
minerVars == <<main, miner, timers, mined, pipe, out, wire>>

Message == Seq(0..MaxBlocks)

MinerTypeOK ==
  /\ main \in {"dispatch", "join"}
  /\ miner \in {"created", "loop", "exited"}
  /\ mine_ev_ \in 0..(mined + 1)
  /\ armed \in SUBSET Events
  /\ repeats \in SUBSET Events
  /\ active \in SUBSET Events
  /\ mined \in 0..MaxBlocks
  /\ pipe \in Seq(1..MaxBlocks)
  /\ out \in [Peers -> Message]
  /\ wire \in [Peers -> Message]

-------------------------------------------------------------------------------
(* create_miner; the main thread goes on to event_base_dispatch.           *)
MinerInit ==
  /\ main = "dispatch"
  /\ miner = "created"
  /\ mine_ev_ = NULL
  /\ armed = {} /\ repeats = {} /\ active = {}
  /\ mined = 0
  /\ pipe = <<>>
  /\ out = [p \in Peers |-> <<>>]
  /\ wire = [p \in Peers |-> <<>>]

(***************************************************************************)
(* event_new and event_add of the next timer, given the timers that stay   *)
(* armed.  (int)num of an exponential variate may be 0 seconds, and a      *)
(* persistent event with a zero interval is not added again.               *)
(***************************************************************************)
NewTimer(ev, staying) ==
  /\ mine_ev_' = ev
  /\ armed' = staying \cup {ev}
  /\ repeats' \in {repeats, repeats \cup {ev}}

mine ==
  /\ miner = "created"
  /\ miner' = "loop"
  /\ NewTimer(mine_ev_ + 1, armed)
  /\ UNCHANGED <<main, active, mined, pipe, out, wire>>

(***************************************************************************)
(* libevent, on the miner's base.  Only when no callback is waiting does   *)
(* the loop wait for timers; those that expire leave the heap together.    *)
(* With nothing left to wait for, event_base_loop returns.                 *)
(***************************************************************************)
NothingActive == miner = "loop" /\ active = {} /\ pipe = <<>>

Poll ==
  /\ NothingActive
  /\ mined < MaxBlocks
  /\ \E expired \in SUBSET armed :
        /\ expired = {} => armed = {}
        /\ active' = expired
        /\ armed' = armed \ expired
  /\ miner' = IF armed = {} THEN "exited" ELSE miner
  /\ UNCHANGED <<main, mine_ev_, repeats, mined, pipe, out, wire>>

(* A repeating timer is added again before its callback runs.              *)
Readd(ev) == armed' = armed \cup ({ev} \cap repeats)

(***************************************************************************)
(* on_mine: the new block goes into the pipe, whose read callback is then  *)
(* deferred.                                                               *)
(***************************************************************************)
on_mine(ev) ==
  /\ ev \in active
  /\ active' = active \ {ev}
  /\ Readd(ev)
  /\ mined' = mined + 1
  /\ pipe' = Append(pipe, mined')
  /\ UNCHANGED <<main, miner, mine_ev_, repeats, out, wire>>

(* broadcast_block: one padding for all that was read.                     *)
broadcast_block_returns(data) ==
  \E unset \in SUBSET Peers :
     out' = [p \in Peers |-> IF p \in unset THEN out[p] ELSE out[p] \o data \o <<PAD>>]

broadcast_block(data) == out' = [p \in Peers |-> out[p] \o data \o <<PAD>>]

(* reset_mining: event_del of the old timer, wherever it is, and a new one. *)
reset_mining_keeps_old ==
  /\ NewTimer(mine_ev_ + 1, armed)
  /\ UNCHANGED active

reset_mining_cancels_only ==
  /\ armed' = armed \ {mine_ev_}
  /\ active' = active \ {mine_ev_}
  /\ UNCHANGED <<mine_ev_, repeats>>

reset_mining ==
  /\ NewTimer(mine_ev_ + 1, armed \ {mine_ev_})
  /\ active' = active \ {mine_ev_}

(* Its 8192 bytes hold more blocks than the pipe ever has.                 *)
main_on_read ==
  /\ active = {}
  /\ pipe # <<>>
  /\ broadcast_block(pipe)
  /\ reset_mining
  /\ pipe' = <<>>
  /\ UNCHANGED <<main, miner, mined, wire>>

-------------------------------------------------------------------------------
(* The main thread's loop: it writes what a bufferevent holds to its       *)
(* socket, and calls on_kill when the process gets a SIGINT: the loop ends *)
(* and main waits in pthread_join until the miner thread has exited.       *)
Flush(p) ==
  /\ main = "dispatch"
  /\ out[p] # <<>>
  /\ wire' = [wire EXCEPT ![p] = @ \o out[p]]
  /\ out' = [out EXCEPT ![p] = <<>>]
  /\ UNCHANGED <<main, miner, timers, mined, pipe>>

on_kill ==
  /\ main = "dispatch"
  /\ main' = "join"
  /\ UNCHANGED <<miner, timers, mined, pipe, out, wire>>

MinerThread == mine \/ Poll \/ (\E ev \in active : on_mine(ev)) \/ main_on_read

MainThread == (\E p \in Peers : Flush(p)) \/ on_kill

MinerNext == MinerThread \/ MainThread

MinerSpec == MinerInit /\ [][MinerNext]_minerVars

(***************************************************************************)
(* Timers expire and the miner's loop runs what is ready; the main thread  *)
(* writes to a socket that takes data.  Nobody has to send a SIGINT.       *)
(***************************************************************************)
MinerFairness == WF_minerVars(MinerThread) /\ \A p \in Peers : WF_minerVars(Flush(p))

MinerFairSpec == MinerSpec /\ MinerFairness

-------------------------------------------------------------------------------
(***************************************************************************)
(* The only timer that can still fire is mine_ev_, the one reset_mining    *)
(* cancels: although a repeating timer is added again before its callback  *)
(* and a new one is made after it, a process never mines on two timers.    *)
(***************************************************************************)
OneTimer == armed \cup active \subseteq {mine_ev_}

(***************************************************************************)
(* The miner's loop, which returns when its base has no event, never gets  *)
(* there: a timer with a zero interval is gone once it has fired, but then *)
(* main_on_read is waiting and makes the next one.                         *)
(***************************************************************************)
LoopNeverRunsDry == NothingActive => armed # {}

(* The blocks from 1 to n, each with its padding.                          *)
Padded(n) == [i \in 1..(2 * n) |-> IF i % 2 = 1 THEN (i + 1) \div 2 ELSE PAD]

(***************************************************************************)
(* broadcast_block: "Pad the data, so that multiple blocks in buffer can   *)
(* be read".  Every peer is sent every block once, in the order of mining, *)
(* each with a padding of its own, however the threads take turns: the     *)
(* pipe never hands two blocks to one main_on_read.                        *)
(***************************************************************************)
EachBlockIsPadded == \A p \in Peers : wire[p] \o out[p] = Padded(mined - Len(pipe))

(* Mining goes on: every expiry is followed by another.                    *)
KeepsMining == <>(mined = MaxBlocks)

(***************************************************************************)
(* A block that has been mined is written to every peer's socket, unless   *)
(* the main thread's loop has ended before.                                *)
(***************************************************************************)
MinedIsSent ==
  \A b \in 1..MaxBlocks, p \in Peers :
    (mined >= b) ~> (main = "join" \/ \E i \in DOMAIN wire[p] : wire[p][i] = b)

===============================================================================
