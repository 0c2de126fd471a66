-------------------------------- MODULE Ledger --------------------------------
(***************************************************************************)
(* The block tree of one process (block.cpp): the index of accepted        *)
(* blocks, the best chain, and the orphans whose parent has not arrived.   *)
(* Blocks of other processes enter through process_block, blocks this      *)
(* process mines through on_mine, which calls accept_block directly.       *)
(*                                                                         *)
(* process_block runs on the main thread and on_mine on the miner thread   *)
(* (create_miner puts the bufferevent of miner_on_read on the main base).  *)
(* Nothing locks the index or the best chain, so accept_block and          *)
(* add_to_chain are taken apart: a step for each access to what both       *)
(* threads use, with pc[t] naming the access thread t makes next.  One     *)
(* operation of a map is one step; a race inside it is not modelled.       *)
(*                                                                         *)
(* A hash is the tuple of the fields get_hash feeds to SHA-1; nbit_ is 5   *)
(* in every block and left out.  A BlockIndex* is <<hash, thread>>: what   *)
(* thread allocated for the block with this hash.                          *)
(***************************************************************************)
EXTENDS Integers, FiniteSets, Sequences

CONSTANTS
  Me,           \* the miner_ name of this process
  Nonce,        \* the values of rand() % 100
  PeerBlock,    \* the blocks other processes may mine and send
  MaxHeight,    \* bound: this process stops mining at this height
  OrphanReads,  \* what reading through a stored Block* may yield: see Deref
  NULL,         \* the null pointer
  EmptyString,  \* prev_hash_ of the genesis block
  DEADBEEF,     \* initial g_best_chain_hash
  g_genesis_hash \* the literal of block.cpp:26

(***************************************************************************)
(* Peers build their blocks with the same constructor as on_mine, so a     *)
(* block's index_ is one more than its parent's.  g_genesis_hash has 37    *)
(* digits, which no sha1 has.  The empty string is no hash.                *)
(***************************************************************************)
ASSUME LedgerAssumption ==
  /\ Nonce \subseteq Nat
  /\ MaxHeight \in Nat
  /\ \A b \in PeerBlock :
        /\ DOMAIN b = {"prev_hash_", "index_", "nonce_", "miner_"}
        /\ b.prev_hash_ # EmptyString
        /\ b.index_ \in Nat
        /\ b.index_ = b.prev_hash_[2] + 1
        /\ b.miner_ # Me
  /\ NULL \notin PeerBlock
  /\ EmptyString # <<EmptyString, 0, 0>>
  /\ OrphanReads \subseteq {"kept", "slot", "crash"}

VARIABLES
  g_block_index,        \* hash |-> the BlockIndex* of an accepted block
  heap,                 \* BlockIndex* |-> BlockIndex, in the index or not
  g_orphan_blocks,      \* the keys of g_orphan_blocks
  g_orphan_prev_blocks, \* multimap: prev_hash_ |-> orphans, in insertion order
  g_best_height,
  g_best_chain_hash,
  g_best_index,
  g_genesis_indexblk,
  pc,                   \* where each thread is: see Place
  this,                 \* the block each thread has in accept_block, add_to_chain
  work_q,               \* main: hashes connect_orphans has still to look up
  block,                \* main: the block process_block is running on
  failed,               \* what has ended the process, or "nothing"
  raced                 \* history: two threads have been in add_to_chain at once

index   == <<g_block_index, heap>>
best    == <<g_best_height, g_best_chain_hash, g_best_index, g_genesis_indexblk>>
orphans == <<g_orphan_blocks, g_orphan_prev_blocks>>
locals  == <<work_q, block>>
vars    == <<index, best, orphans, pc, this, locals, failed, raced>>

Thread == {"main", "miner"}

(* Idle is the event loop; connect is connect_orphans.  The others are the *)
(* accesses of add_to_chain still to come, and its two results.            *)
Linking == {"link", "compare", "next", "hash", "index", "height"}
Place   == {"start", "idle", "connect", "accept", "insert", "done", "refused"} \cup Linking

get_hash(b) == <<b.prev_hash_, b.index_, b.nonce_>>

Genesis == [prev_hash_ |-> EmptyString, index_ |-> 0, nonce_ |-> 0, miner_ |-> EmptyString]

Hashes == DOMAIN g_block_index

(* The function f with f[k] = v, for k in its domain or new.               *)
Put(f, k, v) == [x \in DOMAIN f \cup {k} |-> IF x = k THEN v ELSE f[x]]

Pointer == DOMAIN heap \cup {NULL}

BlockIndex == [n_height_ : Nat, pprev_ : Pointer, pnext_ : Pointer]

TypeOK ==
  /\ g_block_index \in [Hashes -> DOMAIN heap]
  /\ heap \in [DOMAIN heap -> BlockIndex]
  /\ \A k \in DOMAIN g_orphan_prev_blocks :
        g_orphan_prev_blocks[k] \in Seq(PeerBlock)
  /\ g_best_height \in Nat \cup {-1}
  /\ g_best_index \in Pointer
  /\ g_genesis_indexblk \in Pointer
  /\ pc \in [Thread -> Place]
  /\ block \in PeerBlock \cup {NULL}
  /\ failed \in {"nothing", "debug_chains", "accept_block", "on_mine", "read"}
  /\ raced \in BOOLEAN

Init ==
  /\ g_block_index = [h \in {} |-> NULL]
  /\ heap = [o \in {} |-> NULL]
  /\ g_orphan_blocks = {}
  /\ g_orphan_prev_blocks = [h \in {} |-> NULL]
  /\ g_best_height = -1
  /\ g_best_chain_hash = DEADBEEF
  /\ g_best_index = NULL
  /\ g_genesis_indexblk = NULL
  /\ pc = [t \in Thread |-> IF t = "main" THEN "start" ELSE "idle"]
  /\ this = [t \in Thread |-> IF t = "main" THEN Genesis ELSE NULL]
  /\ work_q = <<>>
  /\ block = NULL
  /\ failed = "nothing"
  /\ raced = FALSE

-------------------------------------------------------------------------------
(* Thread t has made the access named from, and makes the one named to.    *)
Goes(t, from, to) ==
  /\ pc[t] = from
  /\ pc' = [pc EXCEPT ![t] = to]

Hash(t) == get_hash(this[t])
New(t)  == <<Hash(t), t>>

(***************************************************************************)
(* accept_block (69, 74) and the first line of add_to_chain (100).  The    *)
(* index only grows, so the three lookups together give what some order    *)
(* of them with the other thread's insertions gives.                       *)
(***************************************************************************)
AssertFails_never(t) == FALSE

AssertFails(t) == this[t].prev_hash_ \notin Hashes

accept_block(t) ==
  /\ pc[t] = "accept"
  /\ IF Hash(t) \in Hashes
     THEN pc' = [pc EXCEPT ![t] = "refused"] /\ UNCHANGED failed
     ELSE IF AssertFails(t)
          THEN failed' = "accept_block" /\ UNCHANGED pc
          ELSE pc' = [pc EXCEPT ![t] = "insert"] /\ UNCHANGED failed
  /\ UNCHANGED <<index, best, orphans, this, locals>>

(* Line 107: insert leaves the entry of the other thread, if there is one, *)
(* as it is; the new BlockIndex is then in no map, but used all the same.  *)
Entered_overwriting(t) == Put(g_block_index, Hash(t), New(t))

Entered(t) ==
  IF Hash(t) \in Hashes THEN g_block_index ELSE Put(g_block_index, Hash(t), New(t))

insert(t) ==
  /\ Goes(t, "insert", "link")
  /\ heap' = Put(heap, New(t), [n_height_ |-> 0, pprev_ |-> NULL, pnext_ |-> NULL])
  /\ g_block_index' = Entered(t)
  /\ UNCHANGED <<best, orphans, this, locals, failed>>

(* Lines 111-115.  The parent may be one the other thread has still to link*)
link(t) ==
  LET prev == this[t].prev_hash_
  IN  /\ Goes(t, "link", "compare")
      /\ heap' = IF prev \in Hashes
                 THEN [heap EXCEPT ![New(t)].pprev_ = g_block_index[prev],
                                   ![New(t)].n_height_ = heap[g_block_index[prev]].n_height_ + 1]
                 ELSE heap
      /\ UNCHANGED <<g_block_index, best, orphans, this, locals, failed>>

IsNewBest_extending(t) == g_best_index = NULL \/ this[t].prev_hash_ = g_best_chain_hash

IsNewBest(t) == heap[New(t)].n_height_ > g_best_height

compare(t) ==
  /\ Goes(t, "compare", IF IsNewBest(t) THEN "next" ELSE "done")
  /\ UNCHANGED <<index, best, orphans, this, locals, failed>>

IsCase1(t) == g_genesis_indexblk = NULL /\ Hash(t) = g_genesis_hash

IsCase2(t) == ~ IsCase1(t) /\ this[t].prev_hash_ = g_best_chain_hash

Below_best(t) == g_best_index

Below(t) == heap[New(t)].pprev_

(* Lines 119-126.                                                          *)
next(t) ==
  /\ Goes(t, "next", "hash")
  /\ g_genesis_indexblk' = IF IsCase1(t) THEN New(t) ELSE g_genesis_indexblk
  /\ heap' = IF IsCase2(t) THEN [heap EXCEPT ![Below(t)].pnext_ = New(t)] ELSE heap
  /\ UNCHANGED <<g_block_index, g_best_height, g_best_chain_hash, g_best_index,
                 orphans, this, locals, failed>>

(* Lines 133, 134 and 135.                                                 *)
best_chain_hash(t) ==
  /\ Goes(t, "hash", "index")
  /\ g_best_chain_hash' = Hash(t)
  /\ UNCHANGED <<index, g_best_height, g_best_index, g_genesis_indexblk,
                 orphans, this, locals, failed>>

best_index(t) ==
  /\ Goes(t, "index", "height")
  /\ g_best_index' = New(t)
  /\ UNCHANGED <<index, g_best_height, g_best_chain_hash, g_genesis_indexblk,
                 orphans, this, locals, failed>>

best_height(t) ==
  /\ Goes(t, "height", "done")
  /\ g_best_height' = heap[New(t)].n_height_
  /\ UNCHANGED <<index, g_best_chain_hash, g_best_index, g_genesis_indexblk,
                 orphans, this, locals, failed>>

add_to_chain(t) ==
  \/ insert(t) \/ link(t) \/ compare(t) \/ next(t)
  \/ best_chain_hash(t) \/ best_index(t) \/ best_height(t)

-------------------------------------------------------------------------------
(***************************************************************************)
(* Start-up: create_miner first (main.cpp:537), so that the miner thread   *)
(* is running when genesis.add_to_chain is called (541).                   *)
(***************************************************************************)
genesis ==
  /\ Goes("main", "start", "insert")
  /\ UNCHANGED <<index, best, orphans, this, locals, failed>>

(***************************************************************************)
(* on_mine, on the miner thread: a new block on the one that is the best   *)
(* when it starts.  accept_block is called directly, so no orphan is       *)
(* looked up, and its result is not (main.cpp:461).                        *)
(***************************************************************************)
NewBlock(blk_idx, nonce) ==
  [prev_hash_ |-> blk_idx[1],
   index_     |-> heap[blk_idx].n_height_ + 1,
   nonce_     |-> nonce,
   miner_     |-> Me]

on_mine(nonce) ==
  /\ pc["miner"] = "idle"
  /\ IF g_best_index = NULL
     THEN failed' = "on_mine" /\ UNCHANGED <<pc, this>>
     ELSE /\ heap[g_best_index].n_height_ < MaxHeight
          /\ this' = [this EXCEPT !["miner"] = NewBlock(g_best_index, nonce)]
          /\ pc' = [pc EXCEPT !["miner"] = "accept"]
          /\ UNCHANGED failed
  /\ UNCHANGED <<index, best, orphans, locals>>

Mined ==
  /\ pc["miner"] \in {"done", "refused"}
  /\ pc' = [pc EXCEPT !["miner"] = "idle"]
  /\ this' = [this EXCEPT !["miner"] = NULL]
  /\ UNCHANGED <<index, best, orphans, locals, failed>>

(***************************************************************************)
(* process_block, up to its call of accept_block or connect_orphans.  A    *)
(* block it already has, in the tree or as an orphan, changes nothing.     *)
(***************************************************************************)
Waiting(key) ==
  IF key \in DOMAIN g_orphan_prev_blocks THEN g_orphan_prev_blocks[key] ELSE <<>>

IsDuplicate(b) == get_hash(b) \in Hashes \/ get_hash(b) \in g_orphan_blocks

process_block(b) ==
  /\ pc["main"] = "idle"
  /\ IF g_best_index = NULL
     THEN failed' = "debug_chains" /\ UNCHANGED <<orphans, pc, this, locals>>
     ELSE /\ ~ IsDuplicate(b)
          /\ block' = b
          /\ IF b.prev_hash_ \in Hashes
             THEN /\ this' = [this EXCEPT !["main"] = b]
                  /\ pc' = [pc EXCEPT !["main"] = "accept"]
                  /\ UNCHANGED <<orphans, work_q>>
             ELSE /\ g_orphan_blocks' = g_orphan_blocks \cup {get_hash(b)}
                  /\ g_orphan_prev_blocks' =
                        Put(g_orphan_prev_blocks, b.prev_hash_, Append(Waiting(b.prev_hash_), b))
                  /\ pc' = [pc EXCEPT !["main"] = "connect"]
                  /\ work_q' = <<get_hash(b)>>
                  /\ UNCHANGED this
          /\ UNCHANGED failed
  /\ UNCHANGED <<index, best>>

(***************************************************************************)
(* The orphan maps keep `this', a local variable of miner_on_read that is  *)
(* gone after its iteration.  Reading it is undefined: in the same stack   *)
(* slot is the block now being processed ("slot"), what was in the freed   *)
(* memory may still be there ("kept"), or the read faults ("crash").       *)
(***************************************************************************)
Deref(b, how) == IF how = "kept" THEN b ELSE block

(* connect_orphans: one orphan that waits for the hash at the head of      *)
(* work_q goes to accept_block.                                            *)
ConnectOrphan(how) ==
  /\ pc["main"] = "connect"
  /\ Waiting(Head(work_q)) # <<>>
  /\ IF how = "crash"
     THEN failed' = "read" /\ UNCHANGED <<pc, this>>
     ELSE /\ this' = [this EXCEPT !["main"] = Deref(Head(Waiting(Head(work_q))), how)]
          /\ pc' = [pc EXCEPT !["main"] = "accept"]
          /\ UNCHANGED failed
  /\ UNCHANGED <<index, best, orphans, locals>>

ForgottenOrphans_by_parent(b) == {h \in g_orphan_blocks : h[1] = b.prev_hash_}

ForgottenOrphans(b) == {get_hash(b)}

(***************************************************************************)
(* accept_block returns to the main thread: to genesis (block is NULL), to *)
(* connect_orphans (work_q is not empty), which forgets the orphan, or to  *)
(* process_block, which calls connect_orphans unless it was refused.  An   *)
(* orphan's multimap entry goes now rather than with the whole key.        *)
(***************************************************************************)
Accepted == pc["main"] = "done"

(* connect_orphans is called with one hash to look up.                     *)
Calls(q) ==
  /\ pc' = [pc EXCEPT !["main"] = "connect"]
  /\ work_q' = q

(* process_block returns.                                                  *)
Returns ==
  /\ pc' = [pc EXCEPT !["main"] = "idle"]
  /\ block' = NULL

ReturnToStart ==
  /\ Accepted
  /\ block = NULL
  /\ pc' = [pc EXCEPT !["main"] = "idle"]
  /\ this' = [this EXCEPT !["main"] = NULL]
  /\ UNCHANGED <<index, best, orphans, locals, failed>>

ReturnToProcess ==
  /\ pc["main"] \in {"done", "refused"}
  /\ block # NULL
  /\ work_q = <<>>
  /\ this' = [this EXCEPT !["main"] = NULL]
  /\ IF Accepted
     THEN Calls(<<Hash("main")>>) /\ UNCHANGED block
     ELSE Returns /\ UNCHANGED work_q
  /\ UNCHANGED <<index, best, orphans, failed>>

ReturnToConnect ==
  /\ pc["main"] \in {"done", "refused"}
  /\ work_q # <<>>
  /\ work_q' = IF Accepted THEN Append(work_q, Hash("main")) ELSE work_q
  /\ g_orphan_blocks' = g_orphan_blocks \ ForgottenOrphans(this["main"])
  /\ g_orphan_prev_blocks' =
        Put(g_orphan_prev_blocks, Head(work_q), Tail(Waiting(Head(work_q))))
  /\ pc' = [pc EXCEPT !["main"] = "connect"]
  /\ this' = [this EXCEPT !["main"] = NULL]
  /\ UNCHANGED <<index, best, block, failed>>

Advance_stays(q) == q

Advance(q) == Tail(q)

(* No orphan waits for the head of work_q any more: on to the next hash,   *)
(* and back to the caller after the last one.                              *)
ConnectNext ==
  /\ pc["main"] = "connect"
  /\ Waiting(Head(work_q)) = <<>>
  /\ g_orphan_prev_blocks' =
        [k \in DOMAIN g_orphan_prev_blocks \ {Head(work_q)} |-> g_orphan_prev_blocks[k]]
  /\ work_q' = Advance(work_q)
  /\ IF Advance(work_q) = <<>> THEN Returns ELSE UNCHANGED <<pc, block>>
  /\ UNCHANGED <<index, best, g_orphan_blocks, this, failed>>

-------------------------------------------------------------------------------
(* A step of a thread, while nothing has ended the process.                *)
Runs(step) ==
  /\ failed = "nothing"
  /\ step
  /\ raced' = (raced \/ \A t \in Thread : pc'[t] \in Linking)

(* What the main thread does inside a callback.                            *)
InCallback ==
  \/ accept_block("main")
  \/ add_to_chain("main")
  \/ ReturnToStart \/ ReturnToProcess \/ ReturnToConnect
  \/ \E how \in OrphanReads : ConnectOrphan(how)
  \/ ConnectNext

main ==
  \/ genesis
  \/ \E b \in PeerBlock : process_block(b)
  \/ InCallback

miner ==
  \/ \E nonce \in Nonce : on_mine(nonce)
  \/ accept_block("miner")
  \/ add_to_chain("miner")
  \/ Mined

Next == Runs(main) \/ Runs(miner)

Spec == Init /\ [][Next]_vars

(* A callback that has started runs on until it returns.                   *)
FairSpec == Spec /\ WF_vars(Runs(InCallback))

-------------------------------------------------------------------------------
Root == get_hash(Genesis)

(* The BlockIndex o is being linked by the thread that has allocated it.   *)
BeingLinked(o) == pc[o[2]] = "link" /\ New(o[2]) = o

(***************************************************************************)
(* Whatever the order blocks arrive in and however the two threads         *)
(* interleave: every BlockIndex but that of the genesis block hangs below  *)
(* the accepted block its block names as the parent, unless its thread is  *)
(* just about to link it, and is one higher.  The height is 1 where the    *)
(* parent came from the other thread, which had not linked it yet.         *)
(***************************************************************************)
IsATree ==
  \A o \in DOMAIN heap :
     LET h == o[1]
         e == heap[o]
     IN IF h = Root \/ BeingLinked(o)
        THEN e.n_height_ = 0 /\ e.pprev_ = NULL
        ELSE /\ h[1] \in Hashes
             /\ e.pprev_ = g_block_index[h[1]]
             /\ \/ e.n_height_ = heap[e.pprev_].n_height_ + 1
                \/ e.n_height_ = 1 /\ e.pprev_[2] # o[2]

(***************************************************************************)
(* pnext_ leads to a child: a BlockIndex that is linked below this one,    *)
(* also when g_best_index, g_best_chain_hash and the entry of the index    *)
(* are of three different blocks because both threads have written them.   *)
(***************************************************************************)
NextIsAChild ==
  \A o \in DOMAIN heap : heap[o].pnext_ # NULL => heap[heap[o].pnext_].pprev_ = o

(***************************************************************************)
(* The three variables of the best chain agree and no accepted block is    *)
(* higher, when no thread is changing them and never two threads at once   *)
(* have been: all that the missing lock costs comes from such an overlap.  *)
(***************************************************************************)
Quiet == \A t \in Thread : pc[t] \notin Linking

HeadIsHighest ==
  Quiet /\ Hashes # {} =>
     /\ g_best_index \in DOMAIN heap
     /\ g_best_chain_hash = g_best_index[1]
     /\ g_best_height = heap[g_best_index].n_height_
     /\ \A o \in DOMAIN heap : heap[o].n_height_ <= g_best_height

HeadIsHighestUnlessRaced == ~ raced => HeadIsHighest

(***************************************************************************)
(* connect_orphans leaves no orphan behind whose parent it has connected   *)
(* (block.cpp:193: "Recursively add orphans that depend on this block"):   *)
(* between two calls, an orphan's parent is missing, or is a block that    *)
(* this process mined itself (on_mine looks no orphan up).                 *)
(***************************************************************************)
NoOrphanLeftBehind ==
  pc["main"] = "idle" =>
     \A h \in g_orphan_blocks : h[1] \in Hashes => g_block_index[h[1]][2] = "miner"

(***************************************************************************)
(* A block that is forgotten as an orphan has been connected: what was     *)
(* received once is never asked for again and so must not get lost,        *)
(* whatever block is read through the pointer in the orphan map.           *)
(***************************************************************************)
OrphansAreNotLost ==
  [][\A h \in g_orphan_blocks : h \in g_orphan_blocks' \/ h \in Hashes']_vars

(***************************************************************************)
(* Accepted blocks are never removed or replaced, and a BlockIndex that is *)
(* linked stays where it is: a reorganisation adds a branch and leaves the *)
(* old one as it was, and a thread that loses the race to insert a block   *)
(* does not take the winner's children away.                               *)
(***************************************************************************)
AppendOnly ==
  [][/\ \A h \in Hashes : h \in Hashes' /\ g_block_index'[h] = g_block_index[h]
     /\ \A o \in DOMAIN heap :
           /\ o \in DOMAIN heap'
           /\ BeingLinked(o) \/
              /\ heap'[o].pprev_ = heap[o].pprev_
              /\ heap'[o].n_height_ = heap[o].n_height_]_vars

(* block.cpp:75 asserts that accept_block always finds the parent.         *)
NoAbort == failed # "accept_block"

(***************************************************************************)
(* connect_orphans returns: each hash it queues is that of a newly         *)
(* accepted block, so a cascade of orphans runs out.                       *)
(***************************************************************************)
ConnectEnds == work_q # <<>> ~> work_q = <<>> \/ failed # "nothing"
===============================================================================
