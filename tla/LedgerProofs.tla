----------------------------- MODULE LedgerProofs -----------------------------
(***************************************************************************)
(* Proofs about Ledger, for every set of peer blocks, every order of       *)
(* arrival, every interleaving of the two threads, and whatever reading a  *)
(* dangling orphan pointer yields.                                         *)
(***************************************************************************)
EXTENDS Ledger, TLAPS

-------------------------------------------------------------------------------
(* Places in add_to_chain after its first lookup.                          *)
InAdd == {"insert", "done"} \cup Linking
Busy  == {"accept", "refused"} \cup InAdd

(* Index and heap fit each other.                                          *)
ShapeInv ==
  /\ \A o \in DOMAIN heap :
        /\ o = <<o[1], o[2]>>
        /\ o[1] \in Hashes
        /\ o[2] \in Thread
        /\ heap[o] \in BlockIndex
  /\ heap = [o \in DOMAIN heap |-> heap[o]]
  /\ \A h \in Hashes : g_block_index[h] \in DOMAIN heap /\ g_block_index[h][1] = h
  /\ g_block_index = [h \in Hashes |-> g_block_index[h]]

BestInv ==
  /\ g_best_height \in Nat \cup {-1}
  /\ g_best_index \in Pointer
  /\ g_genesis_indexblk \in Pointer

(* The block a thread has in hand is a peer's, the genesis block, or an    *)
(* own one, which is above height 0.                                       *)
ThisInv ==
  /\ pc \in [Thread -> Place]
  /\ this = [t \in Thread |-> this[t]]
  /\ pc["miner"] \notin {"start", "connect"}
  /\ pc["main"] = "start" => this["main"] = Genesis
  /\ pc["main"] = "accept" => this["main"] \in PeerBlock
  /\ pc["main"] \in Busy => this["main"] \in PeerBlock \cup {Genesis}
  /\ pc["miner"] \in Busy => this["miner"].index_ \in Nat \ {0}

(* Where a thread is says what is there of its block.                      *)
PlaceInv ==
  \A t \in Thread :
     /\ pc[t] \in InAdd =>
           Hash(t) = Root \/ (this[t].prev_hash_ \in Hashes /\ this[t].prev_hash_ # Hash(t))
     /\ pc[t] \in Linking \cup {"done"} => New(t) \in DOMAIN heap
     /\ pc[t] \in {"start", "insert"} => New(t) \notin DOMAIN heap
     /\ pc[t] = "refused" => Hash(t) \in Hashes

(* Nobody but the other thread's blocks hangs below an entry before it is  *)
(* linked, and no pnext_ leads to it before it is compared.                *)
FreshInv ==
  \A t \in Thread :
     /\ pc[t] = "link" =>
           \A o \in DOMAIN heap :
              o[2] = t /\ o # New(t) /\ o[1] # Root => heap[o].pprev_ # New(t)
     /\ pc[t] \in {"link", "compare", "next"} =>
           \A o \in DOMAIN heap : heap[o].pnext_ # NULL => heap[o].pnext_ # New(t)

(* Until the genesis block is the best one, the miner finds no best block. *)
StartInv ==
  this["main"] = Genesis /\ pc["main"] \in {"start", "insert", "link", "compare", "next", "hash", "index"}
     => /\ pc["miner"] = "idle"
        /\ g_best_index = NULL
        /\ g_best_height = -1
        /\ DOMAIN heap = IF pc["main"] \in {"start", "insert"} THEN {} ELSE {<<Root, "main">>}
        /\ Hashes = IF pc["main"] \in {"start", "insert"} THEN {} ELSE {Root}

(* What holds of the best chain while one thread is changing it.           *)
Upto(t) ==
  /\ \A o \in DOMAIN heap \ {New(t)} : heap[o].n_height_ <= g_best_height
  /\ pc[t] \in {"next", "hash", "index", "height"} => heap[New(t)].n_height_ > g_best_height
  /\ pc[t] \in {"index", "height"} => g_best_chain_hash = Hash(t)
  /\ pc[t] = "height" => g_best_index = New(t)
  /\ pc[t] \in {"link", "compare", "next"} /\ Hash(t) # Root =>
        /\ g_best_index \in DOMAIN heap \ {New(t)}
        /\ g_best_height = heap[g_best_index].n_height_
        /\ g_best_chain_hash = g_best_index[1]

HeadInv ==
  ~ raced =>
     /\ ~ \A t \in Thread : pc[t] \in Linking
     /\ \A t \in Thread : pc[t] \in Linking => Upto(t)
     /\ HeadIsHighest

(* The orphan maps and the locals of the main thread.                      *)
OrphanInv ==
  /\ \A k \in DOMAIN g_orphan_prev_blocks : g_orphan_prev_blocks[k] \in Seq(PeerBlock)
  /\ block \in PeerBlock \cup {NULL}
  /\ pc["main"] = "connect" \/ work_q # <<>> => block \in PeerBlock
  /\ pc["main"] \in {"start", "idle"} => work_q = <<>>
  /\ pc["main"] \in Busy /\ work_q # <<>> => Waiting(Head(work_q)) # <<>>

IInv ==
  /\ ShapeInv /\ BestInv /\ ThisInv /\ PlaceInv /\ FreshInv /\ StartInv
  /\ IsATree /\ NextIsAChild
  /\ raced \in BOOLEAN /\ HeadInv
  /\ OrphanInv
  /\ failed \in {"nothing", "debug_chains", "accept_block", "on_mine", "read"}

-------------------------------------------------------------------------------
(* A block in hand has the hash of the genesis block only if it is it.     *)
LEMMA RootHash ==
  ASSUME ThisInv, NEW t \in Thread, pc[t] \in Busy, Hash(t) = Root
  PROVE  t = "main" /\ this["main"] = Genesis
<1>1. \A b \in PeerBlock : get_hash(b) # Root
  BY LedgerAssumption DEF get_hash, Root, Genesis
<1>2. t # "miner"
  <2> SUFFICES ASSUME t = "miner"  PROVE FALSE
    OBVIOUS
  <2>1. this["miner"].index_ # 0
    BY DEF ThisInv
  <2> QED  BY <2>1 DEF Hash, get_hash, Root, Genesis
<1> QED  BY <1>1, <1>2 DEF ThisInv, Thread, Hash

(* The genesis block has the hash Root.                                    *)
LEMMA GenesisHash ==
  ASSUME this["main"] = Genesis
  PROVE  Hash("main") = Root /\ this["main"].prev_hash_ = EmptyString /\ New("main") = <<Root, "main">>
BY DEF Hash, Root, New, Genesis

(* The two threads.                                                        *)
LEMMA Threads ==
  /\ "main" \in Thread /\ "miner" \in Thread /\ "main" # "miner"
  /\ \A t, u \in Thread : \A h, k : <<h, t>> = <<k, u>> <=> h = k /\ t = u
BY DEF Thread

(* Thread t alone has moved, from and to a place outside of the part of    *)
(* add_to_chain that the other thread can see.                             *)
Moves(t) ==
  /\ \A u \in Thread \ {t} : pc'[u] = pc[u] /\ this'[u] = this[u]
  /\ pc[t] \notin Linking
  /\ pc'[t] \notin Linking

(* Such a step changes nothing in the tree and in what is known of it.     *)
LEMMA LocalStep ==
  ASSUME IInv, NEW t \in Thread, Moves(t), UNCHANGED <<index, best>>,
         raced' = (raced \/ \A u \in Thread : pc'[u] \in Linking)
  PROVE  /\ ShapeInv' /\ BestInv' /\ FreshInv' /\ IsATree' /\ NextIsAChild'
         /\ raced' \in BOOLEAN /\ HeadInv'
<1>1. UNCHANGED <<g_block_index, heap, g_best_height, g_best_chain_hash, g_best_index, g_genesis_indexblk>>
  BY DEF index, best
<1>2. \A u \in Thread : pc[u] \in Linking \/ pc'[u] \in Linking =>
         pc'[u] = pc[u] /\ New(u)' = New(u) /\ Hash(u)' = Hash(u)
  BY DEF Moves, New, Hash
<1>3. "link" \in Linking /\ "compare" \in Linking /\ "next" \in Linking
  BY DEF Linking
<1>4. raced' = raced
  <2>1. ~ \A u \in Thread : pc'[u] \in Linking
    BY DEF Moves
  <2> QED  BY <2>1 DEF IInv
<1>5. ShapeInv' /\ BestInv'
  BY <1>1 DEF IInv, ShapeInv, BestInv, Hashes, BlockIndex, Pointer
<1>6. FreshInv'
  <2> SUFFICES ASSUME NEW u \in Thread
               PROVE /\ pc'[u] = "link" =>
                          \A o \in DOMAIN heap :
                             o[2] = u /\ o # New(u)' /\ o[1] # Root => heap[o].pprev_ # New(u)'
                     /\ pc'[u] \in {"link", "compare", "next"} =>
                          \A o \in DOMAIN heap : heap[o].pnext_ # NULL => heap[o].pnext_ # New(u)'
    BY <1>1 DEF FreshInv, Root, Genesis
  <2>1. CASE pc'[u] \in Linking
    BY <1>2, <2>1 DEF IInv, FreshInv
  <2>2. CASE pc'[u] \notin Linking
    BY <1>3, <2>2
  <2> QED  BY <2>1, <2>2
<1>7. IsATree' /\ NextIsAChild'
  <2>1. \A o \in DOMAIN heap : BeingLinked(o)' = BeingLinked(o)
    <3> SUFFICES ASSUME NEW o \in DOMAIN heap  PROVE BeingLinked(o)' = BeingLinked(o)
      OBVIOUS
    <3>1. o[2] \in Thread
      BY DEF IInv, ShapeInv
    <3>2. CASE pc[o[2]] = "link" \/ pc'[o[2]] = "link"
      BY <1>2, <1>3, <3>1, <3>2 DEF BeingLinked
    <3>3. CASE pc[o[2]] # "link" /\ pc'[o[2]] # "link"
      BY <3>3 DEF BeingLinked
    <3> QED  BY <3>2, <3>3
  <2> QED  BY <1>1, <2>1 DEF IInv, IsATree, NextIsAChild, Hashes, Root
<1>8. HeadInv'
  <2> SUFFICES ASSUME ~ raced  PROVE HeadInv'
    BY <1>4 DEF HeadInv
  <2>1. ~ \A u \in Thread : pc'[u] \in Linking
    BY DEF Moves
  <2>2. Quiet' = Quiet
    BY <1>2 DEF Quiet, Moves
  <2>3. HeadIsHighest'
    BY <1>1, <2>2 DEF IInv, HeadInv, HeadIsHighest, Hashes
  <2>4. ASSUME NEW u \in Thread, pc'[u] \in Linking  PROVE Upto(u)'
    <3>1. Upto(u)
      BY <1>2, <2>4 DEF IInv, HeadInv
    <3>2. pc'[u] = pc[u] /\ New(u)' = New(u) /\ Hash(u)' = Hash(u)
      BY <1>2, <2>4
    <3> QED  BY <1>1, <3>1, <3>2 DEF Upto, Root
  <2> QED  BY <2>1, <2>3, <2>4 DEF HeadInv
<1> QED  BY <1>4, <1>5, <1>6, <1>7, <1>8 DEF IInv

(* What of the invariant is about the threads' own affairs.                *)
OwnInv ==
  /\ ThisInv /\ PlaceInv /\ StartInv /\ OrphanInv
  /\ failed \in {"nothing", "debug_chains", "accept_block", "on_mine", "read"}

(* For a step outside of add_to_chain only OwnInv is left to show.         *)
LEMMA LocalRest ==
  ASSUME IInv, NEW t \in Thread, Moves(t), UNCHANGED <<index, best>>,
         raced' = (raced \/ \A u \in Thread : pc'[u] \in Linking), OwnInv'
  PROVE  IInv'
BY LocalStep DEF IInv, OwnInv

(* Steps that leave the orphan maps and the main thread's locals alone.    *)
LEMMA OrphansStay ==
  ASSUME IInv, UNCHANGED <<orphans, locals>>,
         pc'["main"] = "connect" => pc["main"] = "connect",
         pc'["main"] \in {"start", "idle"} => pc["main"] = pc'["main"],
         pc'["main"] \in Busy => pc["main"] \in Busy \cup {"start"}
  PROVE  OrphanInv'
BY DEF IInv, OrphanInv, orphans, locals, Waiting, Busy

(* A step that only ends the process.                                      *)
LEMMA FailStep ==
  ASSUME IInv, UNCHANGED <<index, best, orphans, pc, this, locals>>,
         raced' = (raced \/ \A u \in Thread : pc'[u] \in Linking),
         failed' \in {"debug_chains", "accept_block", "on_mine", "read"}
  PROVE  IInv'
<1>1. UNCHANGED <<g_block_index, heap, g_best_height, g_best_chain_hash, g_best_index,
                  g_genesis_indexblk, g_orphan_blocks, g_orphan_prev_blocks, pc, this, work_q, block>>
  BY DEF index, best, orphans, locals
<1>2. raced' = (raced \/ \A u \in Thread : pc[u] \in Linking)
  BY <1>1
<1>3. HeadInv'
  <2> SUFFICES ASSUME ~ raced'  PROVE HeadInv'
    BY DEF HeadInv
  <2>1. ~ raced
    BY <1>2
  <2>2. \A t \in Thread : Upto(t)' = Upto(t)
    BY <1>1 DEF Upto, New, Hash, Root
  <2>3. HeadIsHighest' = HeadIsHighest
    BY <1>1 DEF HeadIsHighest, Quiet, Hashes
  <2> QED  BY <1>1, <2>1, <2>2, <2>3 DEF IInv, HeadInv
<1>4. ShapeInv' /\ BestInv'
  BY <1>1 DEF IInv, ShapeInv, BestInv, Hashes, Pointer, BlockIndex
<1>5. ThisInv' /\ PlaceInv' /\ StartInv'
  BY <1>1 DEF IInv, ThisInv, PlaceInv, StartInv, Hashes, New, Hash, Root
<1>6. FreshInv' /\ IsATree' /\ NextIsAChild'
  BY <1>1 DEF IInv, FreshInv, IsATree, NextIsAChild, BeingLinked, New, Hash, Hashes, Root
<1>7. OrphanInv'
  BY <1>1 DEF IInv, OrphanInv, Waiting
<1>8. raced' \in BOOLEAN
  BY <1>2 DEF IInv
<1> QED  BY <1>3, <1>4, <1>5, <1>6, <1>7, <1>8 DEF IInv

LEMMA AcceptStep ==
  ASSUME IInv, NEW t \in Thread, accept_block(t),
         failed = "nothing", raced' = (raced \/ \A u \in Thread : pc'[u] \in Linking)
  PROVE  IInv'
<1>1. UNCHANGED <<g_block_index, heap, g_best_height, g_best_chain_hash, g_best_index,
                  g_genesis_indexblk, g_orphan_blocks, g_orphan_prev_blocks, this, work_q, block>>
  BY DEF accept_block, index, best, orphans, locals
<1>2. CASE pc' = pc
  <2>1. failed' = "accept_block"
    BY <1>2, Threads DEF accept_block, IInv, ThisInv
  <2> QED  BY <1>2, <2>1, FailStep DEF accept_block
<1>3. CASE pc' # pc
  <2>1. /\ pc[t] = "accept"
        /\ \/ Hash(t) \in Hashes /\ pc' = [pc EXCEPT ![t] = "refused"]
           \/ /\ Hash(t) \notin Hashes /\ this[t].prev_hash_ \in Hashes
              /\ pc' = [pc EXCEPT ![t] = "insert"]
        /\ failed' = failed
    BY <1>3 DEF accept_block, AssertFails
  <2>2. Moves(t)
    BY <1>1, <2>1 DEF Moves, Linking, IInv, ThisInv
  <2>3. ThisInv'
    BY <1>1, <2>1 DEF IInv, ThisInv, Busy, InAdd, Linking, Place, Thread
  <2>4. PlaceInv'
    <3> SUFFICES ASSUME NEW u \in Thread
                 PROVE /\ pc'[u] \in InAdd =>
                            Hash(u) = Root \/ (this[u].prev_hash_ \in Hashes /\ this[u].prev_hash_ # Hash(u))
                       /\ pc'[u] \in Linking \cup {"done"} => New(u) \in DOMAIN heap
                       /\ pc'[u] \in {"start", "insert"} => New(u) \notin DOMAIN heap
                       /\ pc'[u] = "refused" => Hash(u) \in Hashes
      BY <1>1 DEF PlaceInv, Hash, New, Hashes, Root
    <3>1. CASE u # t
      BY <2>1, <3>1 DEF IInv, PlaceInv, ThisInv
    <3>2. CASE u = t
      <4>1. Hash(t) \notin Hashes => New(t) \notin DOMAIN heap
        BY DEF IInv, ShapeInv, New
      <4>2. pc'[t] \in {"refused", "insert"}
        BY <2>1 DEF IInv, ThisInv
      <4>3. pc'[t] \notin Linking \cup {"done", "start"}
        BY <4>2 DEF Linking
      <4>4. pc'[t] = "insert" => Hash(t) \notin Hashes /\ this[t].prev_hash_ \in Hashes
        BY <2>1 DEF IInv, ThisInv
      <4>5. pc'[t] = "refused" => Hash(t) \in Hashes
        BY <2>1 DEF IInv, ThisInv
      <4> QED  BY <3>2, <4>1, <4>2, <4>3, <4>4, <4>5 DEF InAdd
    <3> QED  BY <3>1, <3>2
  <2>5. StartInv'
    <3>1. t = "main" => this["main"] \in PeerBlock
      BY <2>1 DEF IInv, ThisInv
    <3>2. \A b \in PeerBlock : b # Genesis
      BY LedgerAssumption DEF Genesis
    <3> QED  BY <1>1, <2>1, <3>1, <3>2, Threads DEF IInv, StartInv, ThisInv, Thread, Hashes, Root, Genesis
  <2>6. OrphanInv'
    <3>1. \/ pc'["main"] = pc["main"]
          \/ pc["main"] = "accept" /\ pc'["main"] \in {"insert", "refused"}
      BY <2>1, Threads DEF IInv, ThisInv
    <3>2. UNCHANGED <<orphans, locals>>
      BY DEF accept_block
    <3> QED  BY <3>1, <3>2, OrphansStay DEF Busy, InAdd
  <2>7. UNCHANGED <<index, best>>
    BY DEF accept_block
  <2>8. OwnInv'
    BY <2>1, <2>3, <2>4, <2>5, <2>6 DEF OwnInv, IInv
  <2> QED  BY <2>2, <2>7, <2>8, LocalRest
<1> QED  BY <1>2, <1>3

(* The place of a thread that does not move keeps what PlaceInv says.      *)
PlaceOf(t) ==
  /\ pc[t] \in InAdd =>
        Hash(t) = Root \/ (this[t].prev_hash_ \in Hashes /\ this[t].prev_hash_ # Hash(t))
  /\ pc[t] \in Linking \cup {"done"} => New(t) \in DOMAIN heap
  /\ pc[t] \in {"start", "insert"} => New(t) \notin DOMAIN heap
  /\ pc[t] = "refused" => Hash(t) \in Hashes

LEMMA PlaceStays ==
  ASSUME IInv, NEW t \in Thread, Moves(t), UNCHANGED <<index, best>>,
         pc'[t] \notin InAdd \cup {"start", "refused"}
  PROVE  PlaceInv'
<1> SUFFICES ASSUME NEW u \in Thread  PROVE PlaceOf(u)'
  BY DEF PlaceInv, PlaceOf
<1>1. UNCHANGED <<g_block_index, heap>>
  BY DEF index
<1>2. CASE u = t
  <2>1. pc'[t] \notin Linking \cup {"done", "start", "insert", "refused"}
    BY DEF InAdd
  <2> QED  BY <1>2, <2>1 DEF PlaceOf, InAdd
<1>3. CASE u # t
  <2>1. PlaceOf(u)
    BY DEF IInv, PlaceInv, PlaceOf
  <2>2. pc'[u] = pc[u] /\ this'[u] = this[u]
    BY <1>3 DEF Moves
  <2> QED  BY <1>1, <2>1, <2>2 DEF PlaceOf, Hash, New, Hashes, Root
<1> QED  BY <1>2, <1>3

LEMMA GenesisStep ==
  ASSUME IInv, genesis,
         failed = "nothing", raced' = (raced \/ \A u \in Thread : pc'[u] \in Linking)
  PROVE  IInv'
<1>1. /\ UNCHANGED <<g_block_index, heap, g_best_height, g_best_chain_hash, g_best_index,
                     g_genesis_indexblk, g_orphan_blocks, g_orphan_prev_blocks, this, work_q, block, failed>>
      /\ UNCHANGED <<index, best>>
  BY DEF genesis, index, best, orphans, locals
<1>2. pc["main"] = "start" /\ pc' = [pc EXCEPT !["main"] = "insert"] /\ this["main"] = Genesis
  BY DEF genesis, Goes, IInv, ThisInv
<1>3. Moves("main")
  BY <1>1, <1>2 DEF Moves, Linking, IInv, ThisInv
<1>4. ThisInv'
  BY <1>1, <1>2 DEF IInv, ThisInv, Busy, InAdd, Linking, Place, Thread
<1>5. PlaceInv'
  <2> SUFFICES ASSUME NEW u \in Thread  PROVE PlaceOf(u)'
    BY DEF PlaceInv, PlaceOf
  <2>1. PlaceOf(u)
    BY DEF IInv, PlaceInv, PlaceOf
  <2>2. CASE u = "main"
    <3>1. pc'["main"] = "insert"
      BY <1>2, Threads DEF IInv, ThisInv
    <3>2. Hash("main")' = Root /\ New("main")' = New("main") /\ New("main") \notin DOMAIN heap
      BY <1>1, <1>2, <2>1, <2>2, GenesisHash DEF PlaceOf, Hash, New
    <3>3. pc'["main"] \notin Linking \cup {"done", "refused"}
      BY <3>1 DEF Linking
    <3> QED  BY <1>1, <2>2, <3>1, <3>2, <3>3 DEF PlaceOf, Root
  <2>3. CASE u # "main"
    <3>1. pc'[u] = pc[u] /\ this'[u] = this[u]
      BY <1>3, <2>3 DEF Moves
    <3> QED  BY <1>1, <2>1, <3>1 DEF PlaceOf, Hash, New, Hashes, Root
  <2> QED  BY <2>2, <2>3
<1>6. StartInv'
  BY <1>1, <1>2, Threads DEF IInv, StartInv, ThisInv, Hashes, Root, Genesis
<1>7. OrphanInv'
  <2>1. pc'["main"] = "insert"
    BY <1>2, Threads DEF IInv, ThisInv
  <2>2. UNCHANGED <<orphans, locals>>
    BY DEF genesis
  <2> QED  BY <1>2, <2>1, <2>2, OrphansStay DEF Busy, InAdd
<1> QED  BY <1>1, <1>3, <1>4, <1>5, <1>6, <1>7, LocalRest, Threads DEF OwnInv, IInv

LEMMA MineStep ==
  ASSUME IInv, NEW nonce \in Nonce, on_mine(nonce),
         failed = "nothing", raced' = (raced \/ \A u \in Thread : pc'[u] \in Linking)
  PROVE  IInv'
<1>1. /\ UNCHANGED <<g_block_index, heap, g_best_height, g_best_chain_hash, g_best_index,
                     g_genesis_indexblk, g_orphan_blocks, g_orphan_prev_blocks, work_q, block>>
      /\ UNCHANGED <<index, best, orphans, locals>>
  BY DEF on_mine, index, best, orphans, locals
<1>2. CASE g_best_index = NULL
  BY <1>1, <1>2, FailStep DEF on_mine
<1>3. CASE g_best_index # NULL
  <2>1. /\ pc["miner"] = "idle" /\ pc' = [pc EXCEPT !["miner"] = "accept"]
        /\ this' = [this EXCEPT !["miner"] = NewBlock(g_best_index, nonce)]
        /\ failed' = failed
    BY <1>3 DEF on_mine
  <2>2. NewBlock(g_best_index, nonce).index_ \in Nat \ {0}
    BY <1>3 DEF NewBlock, IInv, BestInv, ShapeInv, Pointer, BlockIndex
  <2>3. Moves("miner")
    BY <2>1, Threads DEF Moves, Linking, IInv, ThisInv
  <2>4. ThisInv'
    <3> HIDE DEF NewBlock
    <3> QED  BY <2>1, <2>2 DEF IInv, ThisInv, Busy, InAdd, Linking, Place, Thread
  <2>5. PlaceInv'
    BY <1>1, <2>1, <2>3, PlaceStays, Threads DEF IInv, ThisInv, InAdd, Linking
  <2>6. StartInv'
    BY <1>1, <1>3, <2>1, Threads DEF IInv, StartInv, ThisInv, Hashes, Root
  <2>7. OrphanInv'
    BY <1>1, <2>1, Threads, OrphansStay DEF IInv, ThisInv
  <2> QED  BY <1>1, <2>1, <2>3, <2>4, <2>5, <2>6, <2>7, LocalRest, Threads DEF OwnInv, IInv
<1> QED  BY <1>2, <1>3

LEMMA MinedStep ==
  ASSUME IInv, Mined,
         failed = "nothing", raced' = (raced \/ \A u \in Thread : pc'[u] \in Linking)
  PROVE  IInv'
<1>1. /\ UNCHANGED <<g_block_index, heap, g_best_height, g_best_chain_hash, g_best_index,
                     g_genesis_indexblk, g_orphan_blocks, g_orphan_prev_blocks, work_q, block, failed>>
      /\ UNCHANGED <<index, best>>
  BY DEF Mined, index, best, orphans, locals
<1>2. /\ pc["miner"] \in {"done", "refused"} /\ pc' = [pc EXCEPT !["miner"] = "idle"]
      /\ this' = [this EXCEPT !["miner"] = NULL]
  BY DEF Mined
<1>3. Moves("miner")
  BY <1>2, Threads DEF Moves, Linking, IInv, ThisInv
<1>4. ThisInv'
  BY <1>2 DEF IInv, ThisInv, Busy, InAdd, Linking, Place, Thread
<1>5. PlaceInv'
  BY <1>1, <1>2, <1>3, PlaceStays, Threads DEF IInv, ThisInv, InAdd, Linking
<1>6. StartInv'
  BY <1>1, <1>2, Threads DEF IInv, StartInv, ThisInv, Hashes, Root
<1>7. OrphanInv'
  BY <1>2, Threads, OrphansStay DEF IInv, ThisInv, Mined
<1> QED  BY <1>1, <1>3, <1>4, <1>5, <1>6, <1>7, LocalRest, Threads DEF OwnInv, IInv

LEMMA ProcessStep ==
  ASSUME IInv, NEW b \in PeerBlock, process_block(b),
         failed = "nothing", raced' = (raced \/ \A u \in Thread : pc'[u] \in Linking)
  PROVE  IInv'
<1>1. /\ UNCHANGED <<g_block_index, heap, g_best_height, g_best_chain_hash, g_best_index,
                     g_genesis_indexblk>>
      /\ UNCHANGED <<index, best>>
  BY DEF process_block, index, best
<1>2. CASE g_best_index = NULL
  BY <1>1, <1>2, FailStep DEF process_block
<1>3. CASE g_best_index # NULL
  <2>1. pc["main"] = "idle" /\ block' = b /\ failed' = failed
    BY <1>3 DEF process_block
  <2>2. /\ pc'["main"] \in {"accept", "connect"}
        /\ pc' = [pc EXCEPT !["main"] = pc'["main"]]
        /\ this' = [this EXCEPT !["main"] = this'["main"]]
        /\ pc'["main"] = "accept" => this'["main"] = b
    BY <1>3, Threads DEF process_block, IInv, ThisInv
  <2>3. Moves("main")
    BY <2>1, <2>2, Threads DEF Moves, Linking, IInv, ThisInv
  <2>4. ThisInv'
    BY <2>1, <2>2 DEF IInv, ThisInv, Busy, InAdd, Linking, Place, Thread
  <2>5. PlaceInv'
    BY <1>1, <2>2, <2>3, PlaceStays, Threads DEF InAdd, Linking
  <2>6. StartInv'
    BY <2>2 DEF StartInv
  <2>7. OrphanInv'
    <3>1. Waiting(b.prev_hash_) \in Seq(PeerBlock)
      BY DEF Waiting, IInv, OrphanInv
    <3>2. Append(Waiting(b.prev_hash_), b) \in Seq(PeerBlock)
      BY <3>1
    <3>3. \A k \in DOMAIN g_orphan_prev_blocks' : g_orphan_prev_blocks'[k] \in Seq(PeerBlock)
      BY <1>3, <3>2 DEF process_block, orphans, Put, IInv, OrphanInv
    <3>4. pc'["main"] \in Busy => work_q' = <<>>
      <4>1. work_q = <<>>
        BY <2>1 DEF IInv, OrphanInv
      <4>2. "connect" \notin Busy
        BY DEF Busy, InAdd, Linking
      <4>3. pc'["main"] = "accept" => work_q' = work_q
        BY <1>3, Threads DEF process_block, IInv, ThisInv
      <4> QED  BY <2>2, <4>1, <4>2, <4>3
    <3>5. pc'["main"] \notin {"start", "idle"}
      BY <2>2
    <3> QED  BY <2>1, <3>3, <3>4, <3>5 DEF OrphanInv
  <2> QED  BY <1>1, <2>1, <2>3, <2>4, <2>5, <2>6, <2>7, LocalRest, Threads DEF OwnInv, IInv
<1> QED  BY <1>2, <1>3

LEMMA OrphanStep ==
  ASSUME IInv, NEW how \in OrphanReads, ConnectOrphan(how),
         failed = "nothing", raced' = (raced \/ \A u \in Thread : pc'[u] \in Linking)
  PROVE  IInv'
<1>1. /\ UNCHANGED <<g_block_index, heap, g_best_height, g_best_chain_hash, g_best_index,
                     g_genesis_indexblk, g_orphan_blocks, g_orphan_prev_blocks, work_q, block>>
      /\ UNCHANGED <<index, best, orphans, locals>>
  BY DEF ConnectOrphan, index, best, orphans, locals
<1>2. CASE how = "crash"
  BY <1>1, <1>2, FailStep DEF ConnectOrphan
<1>3. CASE how # "crash"
  <2> DEFINE b == Deref(Head(Waiting(Head(work_q))), how)
  <2>1. /\ pc["main"] = "connect" /\ pc' = [pc EXCEPT !["main"] = "accept"]
        /\ this' = [this EXCEPT !["main"] = b]
        /\ failed' = failed
    BY <1>3 DEF ConnectOrphan
  <2>2. b \in PeerBlock
    <3>1. Waiting(Head(work_q)) \in Seq(PeerBlock) /\ Waiting(Head(work_q)) # <<>>
      BY DEF ConnectOrphan, Waiting, IInv, OrphanInv
    <3>2. block \in PeerBlock
      BY <2>1 DEF IInv, OrphanInv
    <3> QED  BY <3>1, <3>2 DEF Deref
  <2> HIDE DEF b
  <2>3. Moves("main")
    BY <2>1, Threads DEF Moves, Linking, IInv, ThisInv
  <2>4. ThisInv'
    BY <2>1, <2>2 DEF IInv, ThisInv, Busy, InAdd, Linking, Place, Thread
  <2>5. PlaceInv'
    BY <1>1, <2>1, <2>3, PlaceStays, Threads DEF IInv, ThisInv, InAdd, Linking
  <2>6. StartInv'
    BY <2>1, Threads DEF StartInv, IInv, ThisInv
  <2>7. OrphanInv'
    <3>1. Waiting(Head(work_q))' # <<>>
      BY <1>1 DEF ConnectOrphan, Waiting
    <3>2. pc'["main"] \notin {"start", "idle", "connect"}
      BY <2>1, Threads DEF IInv, ThisInv
    <3> QED  BY <1>1, <2>1, <3>1, <3>2 DEF IInv, OrphanInv
  <2> QED  BY <1>1, <2>1, <2>3, <2>4, <2>5, <2>6, <2>7, LocalRest, Threads DEF OwnInv, IInv
<1> QED  BY <1>2, <1>3

LEMMA ReturnStep ==
  ASSUME IInv, ReturnToStart \/ ReturnToProcess \/ ReturnToConnect,
         failed = "nothing", raced' = (raced \/ \A u \in Thread : pc'[u] \in Linking)
  PROVE  IInv'
<1>1. /\ UNCHANGED <<g_block_index, heap, g_best_height, g_best_chain_hash, g_best_index,
                     g_genesis_indexblk, failed>>
      /\ UNCHANGED <<index, best>>
  BY DEF ReturnToStart, ReturnToProcess, ReturnToConnect, index, best
<1>2. /\ pc["main"] \in {"done", "refused"}
      /\ pc'["main"] \in {"idle", "connect"}
      /\ pc' = [pc EXCEPT !["main"] = pc'["main"]]
      /\ this' = [this EXCEPT !["main"] = NULL]
  BY Threads DEF ReturnToStart, ReturnToProcess, ReturnToConnect, Accepted, Calls, Returns,
                 IInv, ThisInv
<1>3. Moves("main")
  BY <1>2, Threads DEF Moves, Linking, IInv, ThisInv
<1>4. ThisInv'
  BY <1>2 DEF IInv, ThisInv, Busy, InAdd, Linking, Place, Thread
<1>5. PlaceInv'
  BY <1>1, <1>2, <1>3, PlaceStays, Threads DEF InAdd, Linking
<1>6. StartInv'
  BY <1>2 DEF StartInv
<1>7. OrphanInv'
  <2>0. pc'["main"] \notin Busy \cup {"start"}
    BY <1>2 DEF Busy, InAdd, Linking
  <2>1. CASE ReturnToStart
    BY <1>2, <2>0, <2>1, LedgerAssumption DEF ReturnToStart, orphans, locals, IInv, OrphanInv, ThisInv
  <2>2. CASE ReturnToProcess
    <3>1. /\ block \in PeerBlock
          /\ block' \in PeerBlock \cup {NULL}
          /\ pc'["main"] = "idle" => work_q' = <<>>
          /\ work_q' # <<>> \/ pc'["main"] = "connect" => block' = block
      BY <1>2, <2>2 DEF ReturnToProcess, Calls, Returns, IInv, OrphanInv, ThisInv
    <3> QED  BY <2>0, <2>2, <3>1 DEF ReturnToProcess, orphans, IInv, OrphanInv
  <2>3. CASE ReturnToConnect
    <3>1. block' = block /\ block \in PeerBlock /\ pc'["main"] = "connect"
      BY <2>3, Threads DEF ReturnToConnect, IInv, OrphanInv, ThisInv
    <3>2. ASSUME NEW k \in DOMAIN g_orphan_prev_blocks'
          PROVE  g_orphan_prev_blocks'[k] \in Seq(PeerBlock)
      <4> DEFINE w == Waiting(Head(work_q))
      <4>1. CASE k # Head(work_q)
        BY <2>3, <3>2, <4>1 DEF ReturnToConnect, Put, IInv, OrphanInv
      <4>2. CASE k = Head(work_q)
        <5>1. w \in Seq(PeerBlock)
          BY DEF Waiting, IInv, OrphanInv
        <5>2. w # <<>>
          BY <1>2, <2>3 DEF ReturnToConnect, IInv, OrphanInv, Busy, InAdd
        <5>3. g_orphan_prev_blocks'[k] = Tail(w)
          BY <2>3, <3>2, <4>2 DEF ReturnToConnect, Put
        <5> HIDE DEF w
        <5> QED  BY <5>1, <5>2, <5>3
      <4> QED  BY <4>1, <4>2
    <3> QED  BY <2>0, <3>1, <3>2 DEF OrphanInv
  <2> QED  BY <2>1, <2>2, <2>3
<1> QED  BY <1>1, <1>3, <1>4, <1>5, <1>6, <1>7, LocalRest, Threads DEF OwnInv, IInv

LEMMA NextStep ==
  ASSUME IInv, ConnectNext,
         failed = "nothing", raced' = (raced \/ \A u \in Thread : pc'[u] \in Linking)
  PROVE  IInv'
<1>1. /\ UNCHANGED <<g_block_index, heap, g_best_height, g_best_chain_hash, g_best_index,
                     g_genesis_indexblk, this, failed>>
      /\ UNCHANGED <<index, best>>
  BY DEF ConnectNext, index, best
<1>2. /\ pc["main"] = "connect"
      /\ pc'["main"] \in {"idle", "connect"}
      /\ pc' = [pc EXCEPT !["main"] = pc'["main"]]
  BY Threads DEF ConnectNext, Returns, IInv, ThisInv
<1>3. Moves("main")
  BY <1>1, <1>2, Threads DEF Moves, Linking, IInv, ThisInv
<1>4. ThisInv'
  BY <1>1, <1>2 DEF IInv, ThisInv, Busy, InAdd, Linking, Place, Thread
<1>5. PlaceInv'
  BY <1>1, <1>2, <1>3, PlaceStays, Threads DEF InAdd, Linking
<1>6. StartInv'
  BY <1>2 DEF StartInv
<1>7. OrphanInv'
  <2>1. pc'["main"] \notin Busy \cup {"start"}
    BY <1>2 DEF Busy, InAdd, Linking
  <2>2. /\ block \in PeerBlock
        /\ block' \in PeerBlock \cup {NULL}
        /\ pc'["main"] = "idle" => work_q' = <<>>
        /\ work_q' # <<>> \/ pc'["main"] = "connect" => block' = block
    BY <1>2, Threads DEF ConnectNext, Advance, Returns, IInv, OrphanInv, ThisInv
  <2>3. \A k \in DOMAIN g_orphan_prev_blocks' : g_orphan_prev_blocks'[k] \in Seq(PeerBlock)
    BY DEF ConnectNext, IInv, OrphanInv
  <2> QED  BY <2>1, <2>2, <2>3 DEF OrphanInv
<1> QED  BY <1>1, <1>3, <1>4, <1>5, <1>6, <1>7, LocalRest, Threads DEF OwnInv, IInv

-------------------------------------------------------------------------------
(* Each step of add_to_chain, by thread t.                                 *)
InAddStep(t) ==
  /\ \A u \in Thread \ {t} : pc'[u] = pc[u]
  /\ UNCHANGED <<this, failed>>
  /\ UNCHANGED <<orphans, locals>>
  /\ pc[t] \in InAdd /\ pc'[t] \in InAdd
  /\ pc' = [pc EXCEPT ![t] = pc'[t]]
  /\ pc'[t] # "insert"

LEMMA AddStays ==
  ASSUME IInv, NEW t \in Thread, InAddStep(t)
  PROVE  /\ ThisInv' /\ OrphanInv' /\ failed' = failed
         /\ \A u \in Thread : Hash(u)' = Hash(u) /\ New(u)' = New(u)
         /\ Root' = Root
<1>1. "accept" \notin InAdd /\ "start" \notin InAdd /\ "connect" \notin InAdd /\ "idle" \notin InAdd
  BY DEF InAdd, Linking
<1>2. ThisInv'
  <2>1. InAdd \subseteq Place /\ InAdd \subseteq Busy
    BY DEF InAdd, Place, Busy
  <2>2. pc' \in [Thread -> Place]
    BY <2>1 DEF InAddStep, IInv, ThisInv
  <2>3. \A u \in Thread :
           \/ pc'[u] = pc[u]
           \/ pc[u] \in Busy /\ pc'[u] \notin {"start", "connect", "accept"}
    BY <1>1, <2>1 DEF InAddStep
  <2>4. this' = this
    BY DEF InAddStep
  <2>5. \A u \in Thread : pc'[u] \in Busy => pc[u] \in Busy
    BY <2>3
  <2> QED  BY <2>2, <2>3, <2>4, <2>5, Threads DEF IInv, ThisInv
<1>3. OrphanInv'
  <2>1. \/ pc'["main"] = pc["main"]
        \/ pc'["main"] \in InAdd /\ pc["main"] \in InAdd
    BY Threads DEF InAddStep
  <2> QED  BY <1>1, <2>1, OrphansStay DEF InAddStep, Busy
<1> QED  BY <1>2, <1>3 DEF InAddStep, Hash, New, Root

(* A step that leaves the index, the links and the heights alone.          *)
LEMMA SameTree ==
  ASSUME IInv, NEW t \in Thread, InAddStep(t), pc[t] \notin {"insert", "link"},
         pc'[t] # "link",
         g_block_index' = g_block_index,
         DOMAIN heap' = DOMAIN heap,
         heap' = [o \in DOMAIN heap |-> heap'[o]],
         \A o \in DOMAIN heap :
            /\ heap'[o] \in BlockIndex
            /\ heap'[o].pprev_ = heap[o].pprev_
            /\ heap'[o].n_height_ = heap[o].n_height_
  PROVE  /\ ShapeInv' /\ PlaceInv' /\ IsATree'
<1>1. Hashes' = Hashes /\ \A u \in Thread : Hash(u)' = Hash(u) /\ New(u)' = New(u)
  BY AddStays DEF Hashes
<1>2. ShapeInv'
  BY <1>1 DEF IInv, ShapeInv, BlockIndex, Pointer
<1>3. PlaceInv'
  <2> SUFFICES ASSUME NEW u \in Thread  PROVE PlaceOf(u)'
    BY DEF PlaceInv, PlaceOf
  <2>1. PlaceOf(u)
    BY DEF IInv, PlaceInv, PlaceOf
  <2>2. /\ this'[u] = this[u] /\ Root' = Root
        /\ pc'[u] \in InAdd => pc[u] \in InAdd
        /\ pc'[u] \in Linking \cup {"done"} => pc[u] \in Linking \cup {"done"}
        /\ pc'[u] \in {"start", "insert"} => pc'[u] = pc[u]
        /\ pc'[u] = "refused" => pc[u] = "refused"
    <3>1. CASE u = t
      BY <3>1, AddStays DEF InAddStep, InAdd, Linking
    <3>2. CASE u # t
      BY <3>2, AddStays DEF InAddStep
    <3> QED  BY <3>1, <3>2
  <2> QED  BY <1>1, <2>1, <2>2 DEF PlaceOf
<1>4. IsATree'
  <2>1. \A o \in DOMAIN heap : BeingLinked(o)' = BeingLinked(o)
    <3> SUFFICES ASSUME NEW o \in DOMAIN heap  PROVE BeingLinked(o)' = BeingLinked(o)
      OBVIOUS
    <3>1. o[2] \in Thread
      BY DEF IInv, ShapeInv
    <3>2. (pc'[o[2]] = "link") = (pc[o[2]] = "link")
      BY <3>1 DEF InAddStep
    <3> QED  BY <1>1, <3>1, <3>2 DEF BeingLinked
  <2>2. \A o \in DOMAIN heap : o[1] # Root /\ ~ BeingLinked(o) => heap[o].pprev_ \in DOMAIN heap
    BY DEF IInv, IsATree, ShapeInv
  <2> QED  BY <1>1, <2>1, <2>2, AddStays DEF IInv, IsATree
<1> QED  BY <1>2, <1>3, <1>4

LEMMA InsertStep ==
  ASSUME IInv, NEW t \in Thread, insert(t),
         failed = "nothing", raced' = (raced \/ \A u \in Thread : pc'[u] \in Linking)
  PROVE  IInv'
<1> DEFINE fresh == [n_height_ |-> 0, pprev_ |-> NULL, pnext_ |-> NULL]
<1>1. /\ pc[t] = "insert" /\ pc' = [pc EXCEPT ![t] = "link"]
      /\ heap' = Put(heap, New(t), fresh)
      /\ g_block_index' = Entered(t)
      /\ UNCHANGED <<g_best_height, g_best_chain_hash, g_best_index, g_genesis_indexblk, this, failed>>
      /\ UNCHANGED <<orphans, locals>>
  BY DEF insert, Goes, best, orphans, locals
<1>2. pc'[t] = "link" /\ \A u \in Thread \ {t} : pc'[u] = pc[u]
  BY <1>1 DEF IInv, ThisInv
<1>3. InAddStep(t)
  BY <1>1, <1>2 DEF InAddStep, InAdd, Linking
<1>4. New(t) \notin DOMAIN heap /\ New(t)[1] = Hash(t) /\ New(t)[2] = t /\ New(t) = <<Hash(t), t>>
  BY <1>1 DEF IInv, PlaceInv, New
<1>5. /\ DOMAIN heap' = DOMAIN heap \cup {New(t)}
      /\ heap'[New(t)] = fresh
      /\ \A o \in DOMAIN heap : heap'[o] = heap[o]
      /\ heap' = [o \in DOMAIN heap' |-> heap'[o]]
  BY <1>1, <1>4 DEF Put
<1>6. /\ Hashes' = Hashes \cup {Hash(t)}
      /\ \A h \in Hashes : g_block_index'[h] = g_block_index[h]
      /\ g_block_index'[Hash(t)] = IF Hash(t) \in Hashes THEN g_block_index[Hash(t)] ELSE New(t)
      /\ g_block_index' = [h \in Hashes' |-> g_block_index'[h]]
  BY <1>1 DEF Entered, Put, Hashes, IInv, ShapeInv
<1>7. ShapeInv'
  <2>1. ASSUME NEW o \in DOMAIN heap'
        PROVE  o = <<o[1], o[2]>> /\ o[1] \in Hashes' /\ o[2] \in Thread /\ heap'[o] \in BlockIndex'
    <3>1. CASE o = New(t)
      BY <1>4, <1>5, <1>6, <3>1 DEF BlockIndex, Pointer
    <3>2. CASE o \in DOMAIN heap
      BY <1>5, <1>6, <3>2 DEF IInv, ShapeInv, BlockIndex, Pointer
    <3> QED  BY <1>5, <3>1, <3>2
  <2>2. ASSUME NEW h \in Hashes'
        PROVE  g_block_index'[h] \in DOMAIN heap' /\ g_block_index'[h][1] = h
    BY <1>4, <1>5, <1>6 DEF IInv, ShapeInv
  <2> QED  BY <1>5, <1>6, <2>1, <2>2 DEF ShapeInv
<1>8. BestInv'
  BY <1>1, <1>5 DEF IInv, BestInv, Pointer
<1>9. Hash(t) = Root \/ (this[t].prev_hash_ \in Hashes /\ this[t].prev_hash_ # Hash(t))
  BY <1>1 DEF IInv, PlaceInv, InAdd
<1>10. PlaceInv'
  <2> SUFFICES ASSUME NEW u \in Thread  PROVE PlaceOf(u)'
    BY DEF PlaceInv, PlaceOf
  <2>1. PlaceOf(u) /\ this'[u] = this[u] /\ Hash(u)' = Hash(u) /\ New(u)' = New(u) /\ Root' = Root
    BY <1>1, <1>3, AddStays DEF IInv, PlaceInv, PlaceOf
  <2>2. CASE u = t
    <3>1. pc'[t] \notin {"start", "insert", "refused"}
      BY <1>2
    <3> QED  BY <1>5, <1>6, <1>9, <2>1, <2>2, <3>1 DEF PlaceOf
  <2>3. CASE u # t
    <3>1. New(u) # New(t)
      BY <2>3 DEF New
    <3> QED  BY <1>2, <1>5, <1>6, <2>1, <2>3, <3>1 DEF PlaceOf
  <2> QED  BY <2>2, <2>3
<1>11. \A o \in DOMAIN heap : BeingLinked(o)' = BeingLinked(o)
  <2> SUFFICES ASSUME NEW o \in DOMAIN heap  PROVE BeingLinked(o)' = BeingLinked(o)
    OBVIOUS
  <2>1. o[2] \in Thread
    BY DEF IInv, ShapeInv
  <2>2. New(o[2])' = New(o[2])
    BY <1>3, <2>1, AddStays
  <2>3. CASE o[2] = t
    BY <1>1, <1>4, <2>2, <2>3 DEF BeingLinked
  <2>4. CASE o[2] # t
    BY <1>2, <2>1, <2>2, <2>4 DEF BeingLinked
  <2> QED  BY <2>3, <2>4
<1>12. \A o \in DOMAIN heap : o[1] # Root /\ ~ BeingLinked(o) => heap[o].pprev_ \in DOMAIN heap
  BY DEF IInv, IsATree, ShapeInv
<1>13. IsATree'
  <2> SUFFICES ASSUME NEW o \in DOMAIN heap'
               PROVE  IF o[1] = Root \/ BeingLinked(o)'
                      THEN heap'[o].n_height_ = 0 /\ heap'[o].pprev_ = NULL
                      ELSE /\ o[1][1] \in Hashes'
                           /\ heap'[o].pprev_ = g_block_index'[o[1][1]]
                           /\ \/ heap'[o].n_height_ = heap'[heap'[o].pprev_].n_height_ + 1
                              \/ heap'[o].n_height_ = 1 /\ heap'[o].pprev_[2] # o[2]
    BY <1>3, AddStays DEF IsATree
  <2>1. CASE o = New(t)
    <3>1. BeingLinked(o)'
      BY <1>2, <1>3, <1>4, <2>1, AddStays DEF BeingLinked
    <3> QED  BY <1>5, <2>1, <3>1
  <2>2. CASE o \in DOMAIN heap
    <3>1. CASE o[1] = Root \/ BeingLinked(o)
      BY <1>5, <1>11, <2>2, <3>1 DEF IInv, IsATree
    <3>2. CASE ~ (o[1] = Root \/ BeingLinked(o))
      <4>1. heap[o].pprev_ \in DOMAIN heap
        BY <1>12, <2>2, <3>2
      <4> QED  BY <1>5, <1>6, <1>11, <2>2, <3>2, <4>1 DEF IInv, IsATree
    <3> QED  BY <3>1, <3>2
  <2> QED  BY <1>5, <2>1, <2>2
<1>14. \A o \in DOMAIN heap : heap[o].pnext_ # NULL => heap[o].pnext_ \in DOMAIN heap
  BY DEF IInv, ShapeInv, BlockIndex, Pointer
<1>15. NextIsAChild'
  BY <1>5, <1>14 DEF IInv, NextIsAChild
<1>16. FreshInv'
  <2> SUFFICES ASSUME NEW u \in Thread
               PROVE /\ pc'[u] = "link" =>
                          \A o \in DOMAIN heap' :
                             o[2] = u /\ o # New(u) /\ o[1] # Root => heap'[o].pprev_ # New(u)
                     /\ pc'[u] \in {"link", "compare", "next"} =>
                          \A o \in DOMAIN heap' : heap'[o].pnext_ # NULL => heap'[o].pnext_ # New(u)
    BY <1>3, AddStays DEF FreshInv
  <2>1. CASE u = t
    <3>1. ASSUME NEW o \in DOMAIN heap', o[2] = t, o # New(t), o[1] # Root
          PROVE  heap'[o].pprev_ # New(t)
      <4>1. o \in DOMAIN heap /\ ~ BeingLinked(o)
        BY <1>1, <1>5, <3>1 DEF BeingLinked
      <4> QED  BY <1>4, <1>5, <1>12, <3>1, <4>1
    <3>2. ASSUME NEW o \in DOMAIN heap', heap'[o].pnext_ # NULL
          PROVE  heap'[o].pnext_ # New(t)
      BY <1>4, <1>5, <1>14, <3>2
    <3> QED  BY <2>1, <3>1, <3>2
  <2>2. CASE u # t
    <3>1. pc'[u] = pc[u]
      BY <1>2, <2>2
    <3>2. New(t)[2] # u
      BY <1>4, <2>2
    <3> QED  BY <1>5, <2>2, <3>1, <3>2 DEF IInv, FreshInv
  <2> QED  BY <2>1, <2>2
<1>17. StartInv'
  <2> SUFFICES ASSUME this["main"] = Genesis,
                      pc'["main"] \in {"start", "insert", "link", "compare", "next", "hash", "index"}
               PROVE  /\ pc'["miner"] = "idle" /\ g_best_index = NULL /\ g_best_height = -1
                      /\ DOMAIN heap' = IF pc'["main"] \in {"start", "insert"} THEN {} ELSE {<<Root, "main">>}
                      /\ Hashes' = IF pc'["main"] \in {"start", "insert"} THEN {} ELSE {Root}
    BY <1>1 DEF StartInv, Root, Genesis
  <2>1. CASE t = "main"
    <3>1. pc["miner"] = "idle" /\ g_best_index = NULL /\ g_best_height = -1 /\ DOMAIN heap = {} /\ Hashes = {}
      BY <1>1, <2>1 DEF IInv, StartInv
    <3>2. pc'["miner"] = pc["miner"] /\ pc'["main"] = "link"
      BY <1>2, <2>1, Threads
    <3>3. New(t) = <<Root, "main">> /\ Hash(t) = Root
      BY <2>1, GenesisHash
    <3> QED  BY <1>5, <1>6, <3>1, <3>2, <3>3
  <2>2. CASE t # "main"
    BY <1>1, <1>2, <2>2, Threads DEF IInv, StartInv, Thread
  <2> QED  BY <2>1, <2>2
<1>18. raced' \in BOOLEAN
  BY DEF IInv
<1>19. HeadInv'
  <2> SUFFICES ASSUME ~ raced'  PROVE HeadInv'
    BY DEF HeadInv
  <2>1. /\ ~ raced /\ HeadIsHighest
        /\ \E u \in Thread : pc'[u] \notin Linking
    BY DEF IInv, HeadInv
  <2>2. Quiet
    <3> SUFFICES ASSUME NEW u \in Thread  PROVE pc[u] \notin Linking
      BY DEF Quiet
    <3>1. "link" \in Linking /\ "insert" \notin Linking
      BY DEF Linking
    <3> QED  BY <1>1, <1>2, <2>1, <3>1 DEF Thread
  <2>3. ~ Quiet'
    BY <1>2 DEF Quiet, Linking
  <2>4. Upto(t)'
    <3>1. /\ Hash(t)' = Hash(t) /\ New(t)' = New(t) /\ Root' = Root
          /\ pc'[t] = "link"
          /\ UNCHANGED <<g_best_height, g_best_index, g_best_chain_hash>>
      BY <1>1, <1>2, <1>3, AddStays
    <3>2. CASE Hash(t) = Root
      <4>1. DOMAIN heap = {}
        BY <1>1, <3>2, RootHash DEF IInv, StartInv, Busy, InAdd
      <4> QED  BY <1>5, <3>1, <3>2, <4>1 DEF Upto
    <3>3. CASE Hash(t) # Root
      <4>1. /\ g_best_index \in DOMAIN heap
            /\ g_best_chain_hash = g_best_index[1]
            /\ g_best_height = heap[g_best_index].n_height_
            /\ \A o \in DOMAIN heap : heap[o].n_height_ <= g_best_height
        BY <1>9, <2>1, <2>2, <3>3 DEF HeadIsHighest
      <4>2. g_best_index # New(t)
        BY <1>4, <4>1
      <4> QED  BY <1>5, <3>1, <4>1, <4>2 DEF Upto
    <3> QED  BY <3>2, <3>3
  <2>5. \A u \in Thread : pc'[u] \in Linking => u = t
    BY <1>2, <2>2 DEF Quiet
  <2> QED  BY <2>1, <2>3, <2>4, <2>5 DEF HeadInv, HeadIsHighest
<1> QED  BY <1>3, <1>7, <1>8, <1>10, <1>13, <1>15, <1>16, <1>17, <1>18, <1>19, AddStays DEF IInv

LEMMA LinkStep ==
  ASSUME IInv, NEW t \in Thread, link(t),
         failed = "nothing", raced' = (raced \/ \A u \in Thread : pc'[u] \in Linking)
  PROVE  IInv'
<1> DEFINE prev == this[t].prev_hash_
           p    == g_block_index[prev]
           n    == New(t)
<1>1. /\ pc[t] = "link" /\ pc' = [pc EXCEPT ![t] = "compare"]
      /\ UNCHANGED <<g_block_index, g_best_height, g_best_chain_hash, g_best_index,
                     g_genesis_indexblk, this, failed>>
      /\ UNCHANGED <<orphans, locals>>
  BY DEF link, Goes, best, orphans, locals
<1>2. pc'[t] = "compare" /\ \A u \in Thread \ {t} : pc'[u] = pc[u]
  BY <1>1 DEF IInv, ThisInv
<1>3. InAddStep(t)
  BY <1>1, <1>2 DEF InAddStep, InAdd, Linking
<1>4. /\ n \in DOMAIN heap /\ n = <<Hash(t), t>> /\ n[1] = Hash(t) /\ n[2] = t
      /\ Hash(t) = Root \/ (prev \in Hashes /\ prev # Hash(t))
  BY <1>1 DEF IInv, PlaceInv, New, InAdd, Linking
<1>5. Hash(t) = Root => prev \notin Hashes
  <2> SUFFICES ASSUME Hash(t) = Root  PROVE prev \notin Hashes
    OBVIOUS
  <2>1. t = "main" /\ this["main"] = Genesis
    BY <1>1, RootHash DEF IInv, Busy, InAdd, Linking
  <2>2. Hashes = {Root} /\ prev = EmptyString
    BY <1>1, <2>1, GenesisHash DEF IInv, StartInv
  <2> QED  BY <2>2, LedgerAssumption DEF Root, Genesis, get_hash
<1>6. prev \in Hashes => p \in DOMAIN heap /\ p # n /\ p[1] = prev /\ heap[p].n_height_ \in Nat
  BY <1>4, <1>5 DEF IInv, ShapeInv, BlockIndex
<1>7. /\ DOMAIN heap' = DOMAIN heap
      /\ heap' = [o \in DOMAIN heap' |-> heap'[o]]
      /\ \A o \in DOMAIN heap : o # n => heap'[o] = heap[o]
      /\ heap'[n].pnext_ = heap[n].pnext_
      /\ prev \notin Hashes => heap'[n] = heap[n]
      /\ prev \in Hashes =>
           heap'[n] = [heap[n] EXCEPT !.pprev_ = p, !.n_height_ = heap[p].n_height_ + 1]
  <2>1. CASE prev \notin Hashes
    BY <1>4, <2>1 DEF link, IInv, ShapeInv
  <2>2. CASE prev \in Hashes
    <3>1. heap' = [heap EXCEPT ![n].pprev_ = p, ![n].n_height_ = heap[p].n_height_ + 1]
      BY <2>2 DEF link
    <3>2. heap[n] \in BlockIndex
      BY <1>4 DEF IInv, ShapeInv
    <3> HIDE DEF n, p, prev
    <3> QED  BY <1>4, <2>2, <3>1, <3>2 DEF BlockIndex
  <2> QED  BY <2>1, <2>2
<1>8. prev \in Hashes => heap'[n].pprev_ = p /\ heap'[n].n_height_ = heap[p].n_height_ + 1
  <2>1. heap[n] \in BlockIndex
    BY <1>4 DEF IInv, ShapeInv
  <2> HIDE DEF n, p, prev
  <2> QED  BY <1>7, <2>1 DEF BlockIndex
<1>9. /\ BeingLinked(n)
      /\ \A o \in DOMAIN heap : o = n => ~ BeingLinked(o)'
      /\ \A o \in DOMAIN heap : o # n => BeingLinked(o)' = BeingLinked(o)
  <2>1. /\ BeingLinked(n)
        /\ \A o \in DOMAIN heap : o = n => ~ BeingLinked(o)'
    BY <1>1, <1>2, <1>4 DEF BeingLinked
  <2>2. ASSUME NEW o \in DOMAIN heap, o # n  PROVE BeingLinked(o)' = BeingLinked(o)
    <3>1. o[2] \in Thread /\ New(o[2])' = New(o[2])
      BY <1>3, AddStays DEF IInv, ShapeInv
    <3>2. CASE o[2] = t
      BY <1>2, <2>2, <3>1, <3>2 DEF BeingLinked
    <3>3. CASE o[2] # t
      BY <1>2, <3>1, <3>3 DEF BeingLinked
    <3> QED  BY <3>2, <3>3
  <2> QED  BY <2>1, <2>2
<1>10. Hashes' = Hashes /\ Root' = Root
  BY <1>1 DEF Hashes, Root
<1>11. \A o \in DOMAIN heap : heap'[o] \in BlockIndex
  <2>1. heap'[n] \in BlockIndex
    <3>1. heap[n] \in BlockIndex
      BY <1>4 DEF IInv, ShapeInv
    <3>2. CASE prev \notin Hashes
      BY <1>7, <3>1, <3>2
    <3>3. CASE prev \in Hashes
      <4>1. p \in Pointer /\ heap[p].n_height_ + 1 \in Nat
        BY <1>6, <3>3 DEF Pointer
      <4> HIDE DEF n, p, prev
      <4> QED  BY <1>7, <3>1, <3>3, <4>1 DEF BlockIndex
    <3> QED  BY <3>2, <3>3
  <2> QED  BY <1>7, <2>1 DEF IInv, ShapeInv
<1>12. ShapeInv'
  BY <1>1, <1>7, <1>10, <1>11 DEF IInv, ShapeInv, BlockIndex, Pointer, Hashes
<1>13. BestInv'
  BY <1>1, <1>7 DEF IInv, BestInv, Pointer
<1>14. PlaceInv'
  <2> SUFFICES ASSUME NEW u \in Thread  PROVE PlaceOf(u)'
    BY DEF PlaceInv, PlaceOf
  <2>1. PlaceOf(u) /\ this'[u] = this[u] /\ Hash(u)' = Hash(u) /\ New(u)' = New(u)
    BY <1>1, <1>3, AddStays DEF IInv, PlaceInv, PlaceOf
  <2>2. CASE u = t
    <3>1. pc[t] \in InAdd /\ pc[t] \in Linking /\ pc'[t] \notin {"start", "insert", "refused"}
      BY <1>1, <1>2 DEF InAdd, Linking
    <3> QED  BY <1>7, <1>10, <2>1, <2>2, <3>1 DEF PlaceOf
  <2>3. CASE u # t
    BY <1>2, <1>7, <1>10, <2>1, <2>3 DEF PlaceOf
  <2> QED  BY <2>2, <2>3
<1>15. IsATree'
  <2> SUFFICES ASSUME NEW o \in DOMAIN heap
               PROVE  IF o[1] = Root \/ BeingLinked(o)'
                      THEN heap'[o].n_height_ = 0 /\ heap'[o].pprev_ = NULL
                      ELSE /\ o[1][1] \in Hashes
                           /\ heap'[o].pprev_ = g_block_index[o[1][1]]
                           /\ \/ heap'[o].n_height_ = heap'[heap'[o].pprev_].n_height_ + 1
                              \/ heap'[o].n_height_ = 1 /\ heap'[o].pprev_[2] # o[2]
    BY <1>1, <1>7, <1>10 DEF IsATree
  <2>1. CASE o = n
    <3>1. CASE Hash(t) = Root
      <4>1. heap[n].n_height_ = 0 /\ heap[n].pprev_ = NULL
        BY <1>4, <3>1 DEF IInv, IsATree
      <4> QED  BY <1>4, <1>5, <1>7, <2>1, <3>1, <4>1
    <3>2. CASE Hash(t) # Root
      <4>1. n[1][1] = prev
        BY <1>4 DEF Hash, get_hash
      <4>2. heap'[p] = heap[p]
        BY <1>4, <1>6, <1>7, <3>2
      <4> QED  BY <1>4, <1>8, <1>9, <2>1, <3>2, <4>1, <4>2
    <3> QED  BY <3>1, <3>2
  <2>2. CASE o # n
    <3>1. CASE o[1] = Root \/ BeingLinked(o)
      BY <1>7, <1>9, <2>2, <3>1 DEF IInv, IsATree
    <3>2. CASE ~ (o[1] = Root \/ BeingLinked(o))
      <4> DEFINE q == heap[o].pprev_
      <4>1. /\ o[1][1] \in Hashes /\ q = g_block_index[o[1][1]] /\ q \in DOMAIN heap
            /\ heap[o].n_height_ = heap[q].n_height_ + 1 \/ (heap[o].n_height_ = 1 /\ q[2] # o[2])
        BY <3>2 DEF IInv, IsATree, ShapeInv
      <4>2. CASE q # n
        BY <1>7, <1>9, <2>2, <3>2, <4>1, <4>2
      <4>3. CASE q = n
        <5>1. o[2] # t
          BY <1>1, <2>2, <3>2, <4>3 DEF IInv, FreshInv
        <5>2. heap[n].n_height_ = 0
          BY <1>4, <1>9 DEF IInv, IsATree
        <5> QED  BY <1>4, <1>7, <1>9, <2>2, <3>2, <4>1, <4>3, <5>1, <5>2
      <4> QED  BY <4>2, <4>3
    <3> QED  BY <3>1, <3>2
  <2> QED  BY <2>1, <2>2
<1>16. \A o \in DOMAIN heap : heap'[o].pnext_ = heap[o].pnext_
  BY <1>7
<1>17. NextIsAChild'
  <2> SUFFICES ASSUME NEW o \in DOMAIN heap, heap[o].pnext_ # NULL
               PROVE  heap'[heap[o].pnext_].pprev_ = o
    BY <1>7, <1>16 DEF NextIsAChild
  <2>1. heap[o].pnext_ \in DOMAIN heap /\ heap[o].pnext_ # n
    BY <1>1 DEF IInv, ShapeInv, BlockIndex, Pointer, FreshInv
  <2> QED  BY <1>7, <2>1 DEF IInv, NextIsAChild
<1>18. FreshInv'
  <2> SUFFICES ASSUME NEW u \in Thread
               PROVE /\ pc'[u] = "link" =>
                          \A o \in DOMAIN heap :
                             o[2] = u /\ o # New(u) /\ o[1] # Root => heap'[o].pprev_ # New(u)
                     /\ pc'[u] \in {"link", "compare", "next"} =>
                          \A o \in DOMAIN heap : heap'[o].pnext_ # NULL => heap'[o].pnext_ # New(u)
    BY <1>3, <1>7, <1>10, AddStays DEF FreshInv
  <2>1. CASE u = t
    BY <1>1, <1>2, <1>16, <2>1 DEF IInv, FreshInv
  <2>2. CASE u # t
    <3>1. n[2] # u
      BY <1>4, <2>2
    <3> QED  BY <1>2, <1>7, <1>16, <2>2, <3>1 DEF IInv, FreshInv
  <2> QED  BY <2>1, <2>2
<1>19. StartInv'
  <2>1. CASE t = "main"
    BY <1>1, <1>2, <1>7, <1>10, <2>1, Threads DEF IInv, StartInv
  <2>2. CASE t # "main"
    BY <1>1, <1>2, <1>7, <1>10, <2>2, Threads DEF IInv, StartInv, Thread
  <2> QED  BY <2>1, <2>2
<1>20. HeadInv'
  <2> SUFFICES ASSUME ~ raced'  PROVE HeadInv'
    BY DEF HeadInv
  <2>1. ~ raced /\ Upto(t) /\ \E u \in Thread : pc'[u] \notin Linking
    BY <1>1 DEF IInv, HeadInv, Linking
  <2>2. "compare" \in Linking
    BY DEF Linking
  <2>3. ~ Quiet'
    BY <1>2, <2>2 DEF Quiet
  <2>4. Upto(t)'
    <3>1. Hash(t)' = Hash(t) /\ New(t)' = n
      BY <1>3, AddStays
    <3>2. /\ \A o \in DOMAIN heap \ {n} : heap[o].n_height_ <= g_best_height
          /\ Hash(t) # Root =>
                /\ g_best_index \in DOMAIN heap \ {n}
                /\ g_best_height = heap[g_best_index].n_height_
                /\ g_best_chain_hash = g_best_index[1]
      BY <1>1, <2>1 DEF Upto
    <3> QED  BY <1>1, <1>2, <1>7, <1>10, <3>1, <3>2 DEF Upto
  <2>5. \A u \in Thread : pc'[u] \in Linking => u = t
    BY <1>2, <2>1, <2>2 DEF Thread
  <2> QED  BY <2>1, <2>3, <2>4, <2>5 DEF HeadInv, HeadIsHighest
<1>21. raced' \in BOOLEAN
  BY DEF IInv
<1> QED  BY <1>3, <1>12, <1>13, <1>14, <1>15, <1>17, <1>18, <1>19, <1>20, <1>21, AddStays DEF IInv

(* A step of add_to_chain that leaves the tree alone, and goes on past     *)
(* what FreshInv is about or stays in it.                                  *)
LEMMA SameHeap ==
  ASSUME IInv, NEW t \in Thread, InAddStep(t), UNCHANGED index,
         pc[t] \notin {"insert", "link"}, pc'[t] # "link",
         pc'[t] \in {"compare", "next"} => pc[t] \in {"compare", "next"},
         raced' = (raced \/ \A u \in Thread : pc'[u] \in Linking),
         BestInv', StartInv', HeadInv'
  PROVE  IInv'
<1>1. g_block_index' = g_block_index /\ heap' = heap
  BY DEF index
<1>2. ShapeInv' /\ PlaceInv' /\ IsATree'
  BY <1>1, SameTree DEF IInv, ShapeInv
<1>3. NextIsAChild'
  BY <1>1 DEF IInv, NextIsAChild
<1>4. FreshInv'
  <2> SUFFICES ASSUME NEW u \in Thread
               PROVE /\ pc'[u] = "link" =>
                          \A o \in DOMAIN heap :
                             o[2] = u /\ o # New(u) /\ o[1] # Root => heap[o].pprev_ # New(u)
                     /\ pc'[u] \in {"link", "compare", "next"} =>
                          \A o \in DOMAIN heap : heap[o].pnext_ # NULL => heap[o].pnext_ # New(u)
    BY <1>1, AddStays DEF FreshInv
  <2>1. pc'[u] = "link" => pc[u] = "link"
    BY DEF InAddStep
  <2>2. pc'[u] \in {"link", "compare", "next"} => pc[u] \in {"link", "compare", "next"}
    BY DEF InAddStep
  <2> QED  BY <2>1, <2>2 DEF IInv, FreshInv
<1> QED  BY <1>2, <1>3, <1>4, AddStays DEF IInv

(* The genesis block is in the tree, alone, until it is the best one.      *)
LEMMA StartStays ==
  ASSUME IInv, NEW t \in Thread, InAddStep(t), pc[t] \in Linking,
         DOMAIN heap' = DOMAIN heap, g_block_index' = g_block_index, pc'[t] # "link",
         t = "main" /\ pc'[t] \in {"compare", "next", "hash", "index"} =>
            pc[t] # "height" /\ UNCHANGED <<g_best_index, g_best_height>>
  PROVE  StartInv'
<1>1. Hashes' = Hashes /\ Root' = Root /\ Genesis' = Genesis /\ this' = this
  BY AddStays DEF Hashes, Genesis, InAddStep
<1>2. pc[t] # "idle" /\ pc[t] \notin {"start", "insert"} /\ pc'[t] \notin {"start", "insert"}
  BY DEF Linking, InAddStep, InAdd
<1> SUFFICES ASSUME this["main"] = Genesis,
                    pc'["main"] \in {"start", "insert", "link", "compare", "next", "hash", "index"}
             PROVE  /\ pc'["miner"] = "idle" /\ g_best_index' = NULL /\ g_best_height' = -1
                    /\ DOMAIN heap = IF pc'["main"] \in {"start", "insert"} THEN {} ELSE {<<Root, "main">>}
                    /\ Hashes = IF pc'["main"] \in {"start", "insert"} THEN {} ELSE {Root}
  BY <1>1 DEF StartInv
<1>3. CASE t = "miner"
  BY <1>2, <1>3, Threads DEF IInv, StartInv, InAddStep
<1>4. CASE t = "main"
  <2>1. pc["main"] \in {"link", "compare", "next", "hash", "index"} \/ pc["main"] = "height"
    BY <1>4 DEF Linking
  <2>2. pc["main"] \in {"start", "insert", "link", "compare", "next", "hash", "index"}
        /\ pc["miner"] = "idle" /\ pc'["miner"] = pc["miner"]
        /\ g_best_index' = g_best_index /\ g_best_height' = g_best_height
        /\ pc["main"] \notin {"start", "insert"} /\ pc'["main"] \notin {"start", "insert"}
    BY <1>2, <1>4, <2>1, Threads DEF IInv, StartInv, InAddStep
  <2> QED  BY <2>2 DEF IInv, StartInv
<1> QED  BY <1>3, <1>4 DEF Thread

(* While no two threads have met, the one in add_to_chain is alone there.  *)
LEMMA Alone ==
  ASSUME IInv, NEW t \in Thread, InAddStep(t), pc[t] \in Linking,
         raced' = (raced \/ \A u \in Thread : pc'[u] \in Linking),
         ~ raced', pc'[t] \notin Linking => HeadIsHighest',
         pc'[t] \in Linking => Upto(t)'
  PROVE  HeadInv'
<1>1. ~ raced /\ \E u \in Thread : pc[u] \notin Linking
  BY DEF IInv, HeadInv
<1>2. \A u \in Thread : pc'[u] \in Linking => u = t
  BY <1>1 DEF InAddStep, Thread
<1>3. \E u \in Thread : pc'[u] \notin Linking
  BY <1>1 DEF InAddStep
<1>4. HeadIsHighest'
  BY DEF HeadIsHighest, Quiet
<1> QED  BY <1>1, <1>2, <1>3, <1>4 DEF HeadInv

LEMMA AloneNow ==
  ASSUME IInv, NEW t \in Thread, pc[t] \in Linking, ~ raced
  PROVE  Upto(t)
BY DEF IInv, HeadInv

LEMMA CompareStep ==
  ASSUME IInv, NEW t \in Thread, compare(t),
         failed = "nothing", raced' = (raced \/ \A u \in Thread : pc'[u] \in Linking)
  PROVE  IInv'
<1>1. /\ pc[t] = "compare" /\ pc' = [pc EXCEPT ![t] = IF IsNewBest(t) THEN "next" ELSE "done"]
      /\ UNCHANGED <<g_block_index, heap, g_best_height, g_best_chain_hash, g_best_index,
                     g_genesis_indexblk, this, failed>>
      /\ UNCHANGED <<index, best>> /\ UNCHANGED <<orphans, locals>>
  BY DEF compare, Goes, index, best, orphans, locals
<1>2. pc'[t] = (IF IsNewBest(t) THEN "next" ELSE "done") /\ \A u \in Thread \ {t} : pc'[u] = pc[u]
  BY <1>1 DEF IInv, ThisInv
<1>3. "compare" \in Linking /\ "next" \in Linking /\ "done" \notin Linking /\ "done" \in InAdd
  BY DEF Linking, InAdd
<1>4. InAddStep(t)
  <2>1. pc'[t] \in {"next", "done"} /\ pc' = [pc EXCEPT ![t] = pc'[t]]
    BY <1>1, <1>2
  <2>2. pc[t] \in InAdd /\ pc'[t] \in InAdd /\ pc'[t] # "insert"
    BY <1>1, <1>3, <2>1 DEF InAdd
  <2> QED  BY <1>1, <1>2, <2>1, <2>2 DEF InAddStep
<1>5. BestInv'
  BY <1>1 DEF IInv, BestInv, Pointer
<1>6. StartInv'
  BY <1>1, <1>2, <1>3, <1>4, StartStays
<1>7. New(t) \in DOMAIN heap
  BY <1>1, <1>3 DEF IInv, PlaceInv
<1>8. HeadInv'
  <2> SUFFICES ASSUME ~ raced'  PROVE HeadInv'
    BY DEF HeadInv
  <2>1. Upto(t)
    BY <1>1, <1>3, AloneNow
  <2>2. Hash(t)' = Hash(t) /\ New(t)' = New(t) /\ Root' = Root
    BY <1>4, AddStays
  <2>3. CASE IsNewBest(t)
    <3>1. Upto(t)'
      BY <1>1, <1>2, <2>1, <2>2, <2>3 DEF Upto, IsNewBest
    <3> QED  BY <1>1, <1>2, <1>3, <1>4, <2>3, <3>1, Alone
  <2>4. CASE ~ IsNewBest(t)
    <3>1. Hash(t) # Root
      <4> SUFFICES ASSUME Hash(t) = Root  PROVE FALSE
        OBVIOUS
      <4>1. t = "main" /\ this["main"] = Genesis
        BY <1>1, <1>3, RootHash DEF IInv, Busy, InAdd
      <4>2. g_best_height = -1 /\ New(t)[1] = Root
        BY <1>1, <4>1, GenesisHash DEF IInv, StartInv
      <4>3. heap[New(t)].n_height_ = 0
        BY <1>7, <4>2 DEF IInv, IsATree
      <4> QED  BY <2>4, <4>2, <4>3 DEF IsNewBest
    <3>2. heap[New(t)].n_height_ <= g_best_height
      BY <1>7, <2>4 DEF IsNewBest, IInv, ShapeInv, BlockIndex, BestInv
    <3>3. /\ g_best_index \in DOMAIN heap
          /\ g_best_height = heap[g_best_index].n_height_
          /\ g_best_chain_hash = g_best_index[1]
          /\ \A o \in DOMAIN heap : heap[o].n_height_ <= g_best_height
      BY <1>1, <2>1, <3>1, <3>2 DEF Upto
    <3>4. HeadIsHighest'
      BY <1>1, <3>3 DEF HeadIsHighest
    <3> QED  BY <1>1, <1>2, <1>3, <1>4, <2>4, <3>4, Alone
  <2> QED  BY <2>3, <2>4
<1> QED  BY <1>1, <1>2, <1>4, <1>5, <1>6, <1>8, SameHeap

LEMMA HashStep ==
  ASSUME IInv, NEW t \in Thread, best_chain_hash(t),
         failed = "nothing", raced' = (raced \/ \A u \in Thread : pc'[u] \in Linking)
  PROVE  IInv'
<1>1. /\ pc[t] = "hash" /\ pc' = [pc EXCEPT ![t] = "index"]
      /\ UNCHANGED <<g_block_index, heap, g_best_height, g_best_index,
                     g_genesis_indexblk, this, failed>>
      /\ UNCHANGED index /\ UNCHANGED <<orphans, locals>>
      /\ g_best_chain_hash' = Hash(t)
  BY DEF best_chain_hash, Goes, index, orphans, locals
<1>2. pc'[t] = "index" /\ \A u \in Thread \ {t} : pc'[u] = pc[u]
  BY <1>1 DEF IInv, ThisInv
<1>3. "hash" \in Linking /\ "index" \in Linking
  BY DEF Linking
<1>4. InAddStep(t)
  BY <1>1, <1>2, <1>3 DEF InAddStep, InAdd
<1>5. BestInv'
  BY <1>1 DEF IInv, BestInv, Pointer
<1>6. StartInv'
  BY <1>1, <1>2, <1>3, <1>4, StartStays
<1>7. HeadInv'
  <2> SUFFICES ASSUME ~ raced'  PROVE HeadInv'
    BY DEF HeadInv
  <2>1. Upto(t)
    BY <1>1, <1>3, AloneNow
  <2>2. Hash(t)' = Hash(t) /\ New(t)' = New(t) /\ Root' = Root
    BY <1>4, AddStays
  <2>3. Upto(t)'
    BY <1>1, <1>2, <2>1, <2>2 DEF Upto
  <2> QED  BY <1>1, <1>2, <1>3, <1>4, <2>3, Alone
<1> QED  BY <1>1, <1>2, <1>4, <1>5, <1>6, <1>7, SameHeap

LEMMA IndexStep ==
  ASSUME IInv, NEW t \in Thread, best_index(t),
         failed = "nothing", raced' = (raced \/ \A u \in Thread : pc'[u] \in Linking)
  PROVE  IInv'
<1>1. /\ pc[t] = "index" /\ pc' = [pc EXCEPT ![t] = "height"]
      /\ UNCHANGED <<g_block_index, heap, g_best_height, g_best_chain_hash,
                     g_genesis_indexblk, this, failed>>
      /\ UNCHANGED index /\ UNCHANGED <<orphans, locals>>
      /\ g_best_index' = New(t)
  BY DEF best_index, Goes, index, orphans, locals
<1>2. pc'[t] = "height" /\ \A u \in Thread \ {t} : pc'[u] = pc[u]
  BY <1>1 DEF IInv, ThisInv
<1>3. "index" \in Linking /\ "height" \in Linking
  BY DEF Linking
<1>4. InAddStep(t)
  BY <1>1, <1>2, <1>3 DEF InAddStep, InAdd
<1>5. BestInv'
  <2>1. New(t) \in DOMAIN heap
    BY <1>1, <1>3 DEF IInv, PlaceInv
  <2> QED  BY <1>1, <2>1 DEF IInv, BestInv, Pointer
<1>6. StartInv'
  BY <1>1, <1>2, <1>3, <1>4, StartStays
<1>7. HeadInv'
  <2> SUFFICES ASSUME ~ raced'  PROVE HeadInv'
    BY DEF HeadInv
  <2>1. Upto(t)
    BY <1>1, <1>3, AloneNow
  <2>2. Hash(t)' = Hash(t) /\ New(t)' = New(t) /\ Root' = Root
    BY <1>4, AddStays
  <2>3. Upto(t)'
    BY <1>1, <1>2, <2>1, <2>2 DEF Upto
  <2> QED  BY <1>1, <1>2, <1>3, <1>4, <2>3, Alone
<1> QED  BY <1>1, <1>2, <1>4, <1>5, <1>6, <1>7, SameHeap

LEMMA HeightStep ==
  ASSUME IInv, NEW t \in Thread, best_height(t),
         failed = "nothing", raced' = (raced \/ \A u \in Thread : pc'[u] \in Linking)
  PROVE  IInv'
<1>1. /\ pc[t] = "height" /\ pc' = [pc EXCEPT ![t] = "done"]
      /\ UNCHANGED <<g_block_index, heap, g_best_index, g_best_chain_hash,
                     g_genesis_indexblk, this, failed>>
      /\ UNCHANGED index /\ UNCHANGED <<orphans, locals>>
      /\ g_best_height' = heap[New(t)].n_height_
  BY DEF best_height, Goes, index, orphans, locals
<1>2. pc'[t] = "done" /\ \A u \in Thread \ {t} : pc'[u] = pc[u]
  BY <1>1 DEF IInv, ThisInv
<1>3. "height" \in Linking /\ "done" \notin Linking /\ "done" \in InAdd
  BY DEF Linking, InAdd
<1>4. InAddStep(t)
  BY <1>1, <1>2, <1>3 DEF InAddStep, InAdd
<1>5. New(t) \in DOMAIN heap /\ heap[New(t)].n_height_ \in Nat
  BY <1>1, <1>3 DEF IInv, PlaceInv, ShapeInv, BlockIndex
<1>6. BestInv'
  BY <1>1, <1>5 DEF IInv, BestInv, Pointer
<1>7. StartInv'
  BY <1>1, <1>2, <1>3, <1>4, StartStays
<1>8. HeadInv'
  <2> SUFFICES ASSUME ~ raced'  PROVE HeadInv'
    BY DEF HeadInv
  <2>1. Upto(t)
    BY <1>1, <1>3, AloneNow
  <2>2. /\ g_best_index = New(t) /\ g_best_chain_hash = Hash(t) /\ New(t)[1] = Hash(t)
        /\ \A o \in DOMAIN heap : heap[o].n_height_ <= heap[New(t)].n_height_
    <3>1. \A o \in DOMAIN heap : heap[o].n_height_ \in Nat
      BY DEF IInv, ShapeInv, BlockIndex
    <3> QED  BY <1>1, <1>5, <2>1, <3>1 DEF Upto, New, IInv, BestInv
  <2>3. HeadIsHighest'
    BY <1>1, <1>5, <2>2 DEF HeadIsHighest
  <2> QED  BY <1>1, <1>2, <1>3, <1>4, <2>3, Alone
<1> QED  BY <1>1, <1>2, <1>4, <1>6, <1>7, <1>8, SameHeap

(* The step that may set the pnext_ of the parent.                         *)
LEMMA PnextStep ==
  ASSUME IInv, NEW t \in Thread, next(t),
         failed = "nothing", raced' = (raced \/ \A u \in Thread : pc'[u] \in Linking)
  PROVE  IInv'
<1> DEFINE n == New(t)
           p == heap[n].pprev_
<1>1. /\ pc[t] = "next" /\ pc' = [pc EXCEPT ![t] = "hash"]
      /\ UNCHANGED <<g_block_index, g_best_height, g_best_index, g_best_chain_hash, this, failed>>
      /\ UNCHANGED <<orphans, locals>>
      /\ g_genesis_indexblk' \in {n, g_genesis_indexblk}
      /\ heap' = heap \/ heap' = [heap EXCEPT ![p].pnext_ = n]
  BY DEF next, Goes, orphans, locals, Below
<1>2. pc'[t] = "hash" /\ \A u \in Thread \ {t} : pc'[u] = pc[u]
  BY <1>1 DEF IInv, ThisInv
<1>3. "next" \in Linking /\ "hash" \in Linking
  BY DEF Linking
<1>4. InAddStep(t)
  BY <1>1, <1>2, <1>3 DEF InAddStep, InAdd
<1>5. n \in DOMAIN heap
  BY <1>1, <1>3 DEF IInv, PlaceInv
<1>6. /\ DOMAIN heap' = DOMAIN heap
      /\ heap' = [o \in DOMAIN heap |-> heap'[o]]
      /\ \A o \in DOMAIN heap : /\ heap'[o] \in BlockIndex
                                /\ heap'[o].pprev_ = heap[o].pprev_
                                /\ heap'[o].n_height_ = heap[o].n_height_
                                /\ heap'[o].pnext_ = heap[o].pnext_ \/ (o = p /\ heap'[o].pnext_ = n)
  <2>0. /\ heap = [o \in DOMAIN heap |-> heap[o]]
        /\ \A o \in DOMAIN heap : heap[o] \in BlockIndex
    BY DEF IInv, ShapeInv
  <2>1. CASE heap' = heap
    BY <2>0, <2>1
  <2>2. CASE heap' = [heap EXCEPT ![p].pnext_ = n]
    <3>1. n \in Pointer
      BY <1>5 DEF Pointer
    <3> HIDE DEF n, p
    <3> QED  BY <2>0, <2>2, <3>1 DEF BlockIndex
  <2> QED  BY <1>1, <2>1, <2>2
<1>7. ShapeInv' /\ PlaceInv' /\ IsATree'
  BY <1>1, <1>2, <1>4, <1>6, SameTree
<1>8. BestInv'
  BY <1>1, <1>5, <1>6 DEF IInv, BestInv, Pointer
<1>9. StartInv'
  BY <1>1, <1>2, <1>3, <1>4, <1>6, StartStays
<1>10. NextIsAChild'
  <2> SUFFICES ASSUME NEW o \in DOMAIN heap, heap'[o].pnext_ # NULL
               PROVE  heap'[heap'[o].pnext_].pprev_ = o
    BY <1>6 DEF NextIsAChild
  <2>1. CASE heap'[o].pnext_ = heap[o].pnext_
    <3>1. heap[o].pnext_ \in DOMAIN heap
      BY <2>1 DEF IInv, ShapeInv, BlockIndex, Pointer
    <3> QED  BY <1>6, <2>1, <3>1 DEF IInv, NextIsAChild
  <2>2. CASE o = p /\ heap'[o].pnext_ = n
    BY <1>5, <1>6, <2>2
  <2> QED  BY <1>6, <2>1, <2>2
<1>11. FreshInv'
  <2> SUFFICES ASSUME NEW u \in Thread
               PROVE /\ pc'[u] = "link" =>
                          \A o \in DOMAIN heap :
                             o[2] = u /\ o # New(u) /\ o[1] # Root => heap'[o].pprev_ # New(u)
                     /\ pc'[u] \in {"link", "compare", "next"} =>
                          \A o \in DOMAIN heap : heap'[o].pnext_ # NULL => heap'[o].pnext_ # New(u)
    BY <1>4, <1>6, AddStays DEF FreshInv
  <2>1. CASE u = t
    BY <1>2, <2>1
  <2>2. CASE u # t
    <3>1. New(u) # n
      BY <2>2 DEF New
    <3> QED  BY <1>2, <1>6, <2>2, <3>1 DEF IInv, FreshInv
  <2> QED  BY <2>1, <2>2
<1>12. HeadInv'
  <2> SUFFICES ASSUME ~ raced'  PROVE HeadInv'
    BY DEF HeadInv
  <2>1. Upto(t)
    BY <1>1, <1>3, AloneNow
  <2>2. Hash(t)' = Hash(t) /\ New(t)' = New(t) /\ Root' = Root
    BY <1>4, AddStays
  <2>3. Upto(t)'
    BY <1>1, <1>2, <1>5, <1>6, <2>1, <2>2 DEF Upto
  <2> QED  BY <1>1, <1>2, <1>3, <1>4, <2>3, Alone
<1>13. raced' \in BOOLEAN
  BY DEF IInv
<1> QED  BY <1>4, <1>7, <1>8, <1>9, <1>10, <1>11, <1>12, <1>13, AddStays DEF IInv

-------------------------------------------------------------------------------
LEMMA InitInv == Init => IInv
<1> SUFFICES ASSUME Init  PROVE IInv
  OBVIOUS
<1>1. Hashes = {} /\ DOMAIN heap = {}
  BY DEF Init, Hashes
<1>2. ShapeInv /\ BestInv /\ FreshInv /\ IsATree /\ NextIsAChild
  <2>1. ShapeInv
    BY <1>1 DEF Init, ShapeInv
  <2>2. BestInv
    BY DEF Init, BestInv, Pointer
  <2> QED  BY <1>1, <2>1, <2>2 DEF FreshInv, IsATree, NextIsAChild
<1>3. pc["main"] = "start" /\ pc["miner"] = "idle" /\ this["main"] = Genesis
  BY Threads DEF Init
<1>4. ThisInv
  BY <1>3, Threads DEF Init, ThisInv, Place, Busy, InAdd, Linking
<1>5. \A t \in Thread : pc[t] \in {"start", "idle"}
  BY DEF Init
<1>6. PlaceInv
  BY <1>1, <1>5 DEF PlaceInv, InAdd, Linking
<1>7. StartInv
  BY <1>1, <1>3 DEF Init, StartInv
<1>8. HeadInv
  BY <1>1, <1>5, Threads DEF HeadInv, Linking, HeadIsHighest
<1>9. OrphanInv
  BY <1>3 DEF Init, OrphanInv, Busy, InAdd, Linking
<1> QED  BY <1>2, <1>4, <1>6, <1>7, <1>8, <1>9 DEF Init, IInv

LEMMA ThreadStep ==
  ASSUME IInv, NEW t \in Thread, add_to_chain(t),
         failed = "nothing", raced' = (raced \/ \A u \in Thread : pc'[u] \in Linking)
  PROVE  IInv'
<1>1. CASE insert(t)           BY <1>1, InsertStep
<1>2. CASE link(t)             BY <1>2, LinkStep
<1>3. CASE compare(t)          BY <1>3, CompareStep
<1>4. CASE next(t)             BY <1>4, PnextStep
<1>5. CASE best_chain_hash(t)  BY <1>5, HashStep
<1>6. CASE best_index(t)       BY <1>6, IndexStep
<1>7. CASE best_height(t)      BY <1>7, HeightStep
<1> QED  BY <1>1, <1>2, <1>3, <1>4, <1>5, <1>6, <1>7 DEF add_to_chain

LEMMA MainStep == IInv /\ Runs(main) => IInv'
<1> SUFFICES ASSUME IInv, Runs(main)  PROVE IInv'
  OBVIOUS
<1>0. failed = "nothing" /\ main /\ raced' = (raced \/ \A u \in Thread : pc'[u] \in Linking)
  BY DEF Runs
<1>1. CASE genesis
  BY <1>0, <1>1, GenesisStep
<1>2. CASE \E b \in PeerBlock : process_block(b)
  BY <1>0, <1>2, ProcessStep
<1>3. CASE accept_block("main")
  BY <1>0, <1>3, AcceptStep, Threads
<1>4. CASE add_to_chain("main")
  BY <1>0, <1>4, ThreadStep, Threads
<1>5. CASE ReturnToStart \/ ReturnToProcess \/ ReturnToConnect
  BY <1>0, <1>5, ReturnStep
<1>6. CASE \E how \in OrphanReads : ConnectOrphan(how)
  BY <1>0, <1>6, OrphanStep
<1>7. CASE ConnectNext
  BY <1>0, <1>7, NextStep
<1> QED  BY <1>0, <1>1, <1>2, <1>3, <1>4, <1>5, <1>6, <1>7 DEF main, InCallback

LEMMA MinerStep == IInv /\ Runs(miner) => IInv'
<1> SUFFICES ASSUME IInv, Runs(miner)  PROVE IInv'
  OBVIOUS
<1>0. failed = "nothing" /\ miner /\ raced' = (raced \/ \A u \in Thread : pc'[u] \in Linking)
  BY DEF Runs
<1>1. CASE \E nonce \in Nonce : on_mine(nonce)
  BY <1>0, <1>1, MineStep
<1>2. CASE accept_block("miner")
  BY <1>0, <1>2, AcceptStep, Threads
<1>3. CASE add_to_chain("miner")
  BY <1>0, <1>3, ThreadStep, Threads
<1>4. CASE Mined
  BY <1>0, <1>4, MinedStep
<1> QED  BY <1>0, <1>1, <1>2, <1>3, <1>4 DEF miner

LEMMA StutterStep == IInv /\ UNCHANGED vars => IInv'
<1> SUFFICES ASSUME IInv, UNCHANGED vars  PROVE IInv'
  OBVIOUS
<1>1. UNCHANGED <<g_block_index, heap, g_best_height, g_best_chain_hash, g_best_index,
                  g_genesis_indexblk, g_orphan_blocks, g_orphan_prev_blocks, pc, this,
                  work_q, block, failed, raced>>
  BY DEF vars, index, best, orphans, locals
<1>2. ShapeInv' /\ BestInv'
  BY <1>1 DEF IInv, ShapeInv, BestInv, Hashes, Pointer, BlockIndex
<1>3. ThisInv' /\ PlaceInv' /\ StartInv'
  BY <1>1 DEF IInv, ThisInv, PlaceInv, StartInv, Hashes, New, Hash, Root
<1>4. FreshInv' /\ IsATree' /\ NextIsAChild'
  BY <1>1 DEF IInv, FreshInv, IsATree, NextIsAChild, BeingLinked, New, Hash, Hashes, Root
<1>5. OrphanInv'
  BY <1>1 DEF IInv, OrphanInv, Waiting
<1>6. HeadInv'
  <2>1. \A t \in Thread : Upto(t)' = Upto(t)
    BY <1>1 DEF Upto, New, Hash, Root
  <2>2. HeadIsHighest' = HeadIsHighest
    BY <1>1 DEF HeadIsHighest, Quiet, Hashes
  <2> QED  BY <1>1, <2>1, <2>2 DEF IInv, HeadInv
<1> QED  BY <1>1, <1>2, <1>3, <1>4, <1>5, <1>6 DEF IInv

LEMMA InvStep == IInv /\ [Next]_vars => IInv'
BY MainStep, MinerStep, StutterStep DEF Next

THEOREM Inductive == Spec => []IInv
<1>1. Init => IInv
  BY InitInv
<1>2. IInv /\ [Next]_vars => IInv'
  BY InvStep
<1> QED  BY <1>1, <1>2, PTL DEF Spec

(* The ledger's state keeps its type, whatever reading a stored orphan     *)
(* yields and however the threads interleave.                              *)
THEOREM TypeCorrect == Spec => []TypeOK
<1>1. IInv => TypeOK
  BY DEF IInv, ShapeInv, BestInv, ThisInv, OrphanInv, TypeOK
<1> QED  BY <1>1, Inductive, PTL

(* Accepted blocks form a tree with the heights their miners wrote, but    *)
(* for those whose parent the other thread had in the index and had not    *)
(* linked yet.                                                             *)
THEOREM TreeCorrect == Spec => []IsATree
<1>1. IInv => IsATree
  BY DEF IInv
<1> QED  BY <1>1, Inductive, PTL

(* pnext_ leads to a child, whichever of the two threads has set it.       *)
THEOREM NextCorrect == Spec => []NextIsAChild
<1>1. IInv => NextIsAChild
  BY DEF IInv
<1> QED  BY <1>1, Inductive, PTL

(* Until the two threads have been in add_to_chain at once, the best block *)
(* is one of the highest, and its three variables agree.                   *)
THEOREM HeadCorrect == Spec => []HeadIsHighestUnlessRaced
<1>1. IInv => HeadIsHighestUnlessRaced
  BY DEF IInv, HeadInv, HeadIsHighestUnlessRaced
<1> QED  BY <1>1, Inductive, PTL

(* A block that stops being an orphan is in the tree, whatever a stored    *)
(* pointer names by then.                                                  *)
NotLost == \A h \in g_orphan_blocks : h \in g_orphan_blocks' \/ h \in Hashes'

THEOREM NotLostCorrect == Spec => OrphansAreNotLost
<1>1. IInv /\ [Next]_vars => [NotLost]_vars
  <2> SUFFICES ASSUME IInv, Next  PROVE NotLost
    OBVIOUS
  <2>1. CASE g_orphan_blocks \subseteq g_orphan_blocks'
    BY <2>1 DEF NotLost
  <2>2. CASE ReturnToConnect
    <3>1. Hash("main") \in Hashes
      BY <2>2, Threads DEF ReturnToConnect, IInv, PlaceInv, ShapeInv, New
    <3>2. Hashes' = Hashes
      BY <2>2 DEF ReturnToConnect, index, Hashes
    <3> QED  BY <2>2, <3>1, <3>2 DEF NotLost, ReturnToConnect, ForgottenOrphans, Hash
  <2>3. CASE ~ ReturnToConnect
    <3>1. g_orphan_blocks \subseteq g_orphan_blocks'
      BY <2>3 DEF Next, Runs, main, miner, InCallback, genesis, process_block, accept_block,
            add_to_chain, insert, link, compare, next, best_chain_hash, best_index, best_height,
            ReturnToStart, ReturnToProcess, ConnectOrphan, ConnectNext, on_mine, Mined, orphans
    <3> QED  BY <3>1 DEF NotLost
  <2> QED  BY <2>2, <2>3
<1> QED  BY <1>1, Inductive, PTL DEF Spec, OrphansAreNotLost, NotLost

(* Accepted blocks are never removed or replaced, and a BlockIndex stays   *)
(* where it has been linked.                                               *)
Grows ==
  /\ \A h \in Hashes : h \in Hashes' /\ g_block_index'[h] = g_block_index[h]
  /\ \A o \in DOMAIN heap :
        /\ o \in DOMAIN heap'
        /\ BeingLinked(o) \/
           /\ heap'[o].pprev_ = heap[o].pprev_
           /\ heap'[o].n_height_ = heap[o].n_height_

LEMMA GrowStep ==
  ASSUME IInv, NEW t \in Thread, insert(t) \/ link(t) \/ next(t)
  PROVE  Grows
<1>0. /\ heap = [o \in DOMAIN heap |-> heap[o]]
      /\ \A o \in DOMAIN heap : heap[o] \in BlockIndex
  BY DEF IInv, ShapeInv
<1>1. CASE insert(t)
  <2>1. New(t) \notin DOMAIN heap
    BY <1>1 DEF insert, Goes, IInv, PlaceInv
  <2>2. \A o \in DOMAIN heap : o \in DOMAIN heap' /\ heap'[o] = heap[o]
    BY <1>1, <2>1 DEF insert, Put
  <2>3. \A h \in Hashes : h \in Hashes' /\ g_block_index'[h] = g_block_index[h]
    BY <1>1 DEF insert, Entered, Put, Hashes
  <2> QED  BY <2>2, <2>3 DEF Grows
<1>2. CASE link(t)
  <2>1. \A o \in DOMAIN heap : o \in DOMAIN heap' /\ (o # New(t) => heap'[o] = heap[o])
    BY <1>0, <1>2 DEF link
  <2>2. BeingLinked(New(t))
    BY <1>2 DEF link, Goes, BeingLinked, New
  <2>3. g_block_index' = g_block_index /\ Hashes' = Hashes
    BY <1>2 DEF link, Hashes
  <2> QED  BY <2>1, <2>2, <2>3 DEF Grows
<1>3. CASE next(t)
  <2> DEFINE n == New(t)
             p == Below(t)
  <2>1. heap' = heap \/ heap' = [heap EXCEPT ![p].pnext_ = n]
    BY <1>3 DEF next
  <2> HIDE DEF n, p
  <2>2. \A o \in DOMAIN heap : /\ o \in DOMAIN heap'
                               /\ heap'[o].pprev_ = heap[o].pprev_
                               /\ heap'[o].n_height_ = heap[o].n_height_
    BY <1>0, <2>1 DEF BlockIndex
  <2>3. g_block_index' = g_block_index /\ Hashes' = Hashes
    BY <1>3 DEF next, Hashes
  <2> QED  BY <2>2, <2>3 DEF Grows
<1> QED  BY <1>1, <1>2, <1>3

THEOREM AppendOnlyCorrect == Spec => AppendOnly
<1>1. IInv /\ [Next]_vars => [Grows]_vars
  <2> SUFFICES ASSUME IInv, Next  PROVE Grows
    OBVIOUS
  <2>1. CASE \E t \in Thread : insert(t) \/ link(t) \/ next(t)
    BY <2>1, GrowStep
  <2>2. CASE ~ \E t \in Thread : insert(t) \/ link(t) \/ next(t)
    <3>1. UNCHANGED index
      BY <2>2, Threads DEF Next, Runs, main, miner, InCallback, genesis, process_block, accept_block,
            add_to_chain, compare, best_chain_hash, best_index, best_height,
            ReturnToStart, ReturnToProcess, ReturnToConnect, ConnectOrphan, ConnectNext, on_mine, Mined
    <3> QED  BY <3>1 DEF Grows, index, Hashes
  <2> QED  BY <2>1, <2>2
<1> QED  BY <1>1, Inductive, PTL DEF Spec, AppendOnly, Grows
===============================================================================
