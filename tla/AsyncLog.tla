------------------------------ MODULE AsyncLog ------------------------------
(***************************************************************************)
(* spdlog's asynchronous logging into a rotating file: threads post        *)
(* messages into the bounded queue of a thread pool, its workers take them *)
(* out and write them, and the last one to let go of the pool, which the   *)
(* registry, and every thread inside a call, holds by a shared_ptr, tells  *)
(* the workers to terminate and joins them.  The queue is a ring with one  *)
(* slot spare; a thread that finds it full waits on pop_cv_ without a      *)
(* timeout, or, with the policy overrun_oldest, does away with the oldest. *)
(***************************************************************************)
EXTENDS RotatingFile, FiniteSets

CONSTANTS
  Thread,          \* threads that log; any of them may shut logging down
  MaxWorkers,      \* bound: worker threads of the pool
  overflow_policy, \* what each thread's logger does when the queue is full
  max_items,       \* what the queue may hold
  Flushes,         \* the sizes of messages at or above flush_level_
  MaxPosts,        \* bound: messages posted
  Nothing

(* A message in a file; id is its number in the order they were posted.    *)
Message == [type : {"log"}, size : Sizes, id : 1..MaxPosts]

PoolItem == Message \cup [type : {"flush"}, id : 1..MaxPosts] \cup [type : {"terminate"}]

ASSUME PoolAssumption ==
  /\ overflow_policy \in [Thread -> {"block", "overrun_oldest"}]
  /\ max_items \in Nat \ {0} /\ MaxWorkers \in 1..1000 /\ MaxPosts \in Nat
  /\ Flushes \subseteq Sizes /\ IsFiniteSet(Thread) /\ Nothing \notin PoolItem
  /\ Before \in [DOMAIN Before -> Seq(Message)]
  /\ \A i \in DOMAIN KeptIn(Before) : KeptIn(Before)[i].id = i

VARIABLES
  tp_,              \* whether the registry holds the pool
  v_, head_, tail_, overrun_counter_,  \* the ring
  pc,               \* where each thread is
  call,             \* the item each thread is posting
  asleep,           \* the threads that wait on pop_cv_
  left,             \* terminate items ~thread_pool has still to post
  worker,           \* where each worker is
  hand,             \* the item each worker has taken
  posted            \* what threads have posted, in the order it entered the queue

ring == <<v_, head_, tail_, overrun_counter_>>
threads == <<pc, call, asleep, left>>
workers == <<worker, hand>>
vars == <<sink, tp_, ring, threads, workers, posted>>

Worker == 1..MaxWorkers

max_items_ == max_items + 1

-----------------------------------------------------------------------------
(* circular_q *)

After(i) == (i + 1) % max_items_

empty == tail_ = head_

full_if_wrapped == tail_ = max_items

full == After(tail_) = head_

push_back_keeping_head(item) ==
  /\ v_' = [v_ EXCEPT ![tail_] = item]
  /\ tail_' = After(tail_)
  /\ UNCHANGED <<head_, overrun_counter_>>

push_back(item) ==
  /\ v_' = [v_ EXCEPT ![tail_] = item]
  /\ tail_' = After(tail_)
  /\ head_' = IF tail_' = head_ THEN After(head_) ELSE head_
  /\ overrun_counter_' = IF tail_' = head_ THEN overrun_counter_ + 1 ELSE overrun_counter_

pop_front(w) ==
  /\ hand' = [hand EXCEPT ![w] = v_[head_]]
  /\ v_' = [v_ EXCEPT ![head_] = Nothing]
  /\ head_' = After(head_)
  /\ UNCHANGED <<tail_, overrun_counter_>>

(* The items in the ring, oldest first.                                    *)
Items ==
  LET count == (tail_ - head_ + max_items_) % max_items_
  IN  [i \in 1..count |-> v_[(head_ + i - 1) % max_items_]]

-----------------------------------------------------------------------------
(* A process begins: its ring is empty and its threads, any number of      *)
(* workers among them, have done nothing yet.                              *)
EmptyRing == [i \in 0..max_items |-> Nothing]
Unborn == [t \in Thread |-> "idle"]
NoCalls == [t \in Thread |-> Nothing]
Started == {[w \in Worker |-> IF w <= threads_n THEN "waiting" ELSE "none"] : threads_n \in Worker}
NoHands == [w \in Worker |-> Nothing]

Init ==
  /\ InitSink
  /\ tp_ = TRUE
  /\ v_ = EmptyRing /\ head_ = 0 /\ tail_ = 0 /\ overrun_counter_ = 0
  /\ pc = Unborn /\ call = NoCalls /\ asleep = {} /\ left = 0
  /\ worker \in Started /\ hand = NoHands
  /\ posted = Kept

threads_ == {w \in Worker : worker[w] # "none"}

Holders_unlocked == {}

(* The threads that hold the pool, having locked the weak_ptr to it.       *)
Holders == {t \in Thread : pc[t] \in {"posting", "returning"}}

(***************************************************************************)
(* log and flush of a logger, until they reach the queue.  The weak_ptr    *)
(* to the pool is locked; without a pool, async_logger throws, and the     *)
(* logger reports that on stderr.                                          *)
(***************************************************************************)
Call(t) ==
  /\ pc[t] = "idle"
  /\ tp_ \/ Holders # {}
  /\ Len(posted) + Cardinality({u \in Thread : pc[u] = "posting"}) < MaxPosts
  /\ \E item \in [type : {"log"}, size : Sizes, id : {0}] \cup [type : {"flush"}, id : {0}] :
        call' = [call EXCEPT ![t] = item]
  /\ pc' = [pc EXCEPT ![t] = "posting"]
  /\ UNCHANGED <<sink, tp_, ring, asleep, left, workers, posted>>

(* enqueue waits while the queue is full; enqueue_nowait does not.         *)
MustWait(policy) == policy = "block" /\ full

Wait(t, policy) ==
  /\ MustWait(policy)
  /\ asleep' = asleep \cup {t}
  /\ UNCHANGED <<ring, pc, call, left, posted>>

post_async_msg_(t) ==
  /\ pc[t] = "posting" /\ t \notin asleep
  /\ \/ Wait(t, overflow_policy[t])
     \/ /\ ~MustWait(overflow_policy[t])
        /\ posted' = Append(posted, [call[t] EXCEPT !.id = Len(posted) + 1])
        /\ push_back([call[t] EXCEPT !.id = Len(posted) + 1])
        /\ call' = [call EXCEPT ![t] = Nothing]
        /\ pc' = [pc EXCEPT ![t] = "returning"]
        /\ UNCHANGED <<asleep, left>>
  /\ UNCHANGED <<sink, tp_, workers>>

(* Whoever lets go of the pool last runs ~thread_pool.                     *)
LetGo(t, others) ==
  IF others THEN pc' = [pc EXCEPT ![t] = "idle"] /\ UNCHANGED left
  ELSE pc' = [pc EXCEPT ![t] = "destroying"] /\ left' = Cardinality(threads_)

Return(t) ==
  /\ pc[t] = "returning"
  /\ LetGo(t, tp_ \/ Holders # {t})
  /\ UNCHANGED <<sink, tp_, ring, call, asleep, workers, posted>>

(* registry::shutdown.                                                     *)
shutdown(t) ==
  /\ pc[t] = "idle" /\ tp_
  /\ tp_' = FALSE
  /\ LetGo(t, Holders # {})
  /\ UNCHANGED <<sink, ring, call, asleep, workers, posted>>

(* ~thread_pool: one item for each worker, and then they are joined.       *)
PostTerminate(t) ==
  /\ pc[t] = "destroying" /\ left > 0 /\ t \notin asleep
  /\ \/ Wait(t, "block")
     \/ /\ ~MustWait("block")
        /\ push_back([type |-> "terminate"])
        /\ left' = left - 1
        /\ UNCHANGED <<pc, call, asleep, posted>>
  /\ UNCHANGED <<sink, tp_, workers>>

Join(t) ==
  /\ pc[t] = "destroying" /\ left = 0
  /\ \A w \in threads_ : worker[w] = "done"
  /\ pc' = [pc EXCEPT ![t] = "idle"]
  /\ UNCHANGED <<sink, tp_, ring, call, asleep, left, workers, posted>>

(* A wakeup without a notification.                                        *)
SpuriousWakeup(t) ==
  /\ t \in asleep
  /\ asleep' = asleep \ {t}
  /\ UNCHANGED <<sink, tp_, ring, pc, call, left, workers, posted>>

-----------------------------------------------------------------------------
(***************************************************************************)
(* dequeue_for, under queue_mutex_.  It waits for ten seconds at most and  *)
(* is called again, so that no worker depends on push_cv_ being notified.  *)
(***************************************************************************)
dequeue_for(w) ==
  /\ worker[w] = "waiting" /\ ~empty
  /\ pop_front(w)
  /\ worker' = [worker EXCEPT ![w] = "notifying"]
  /\ UNCHANGED <<sink, tp_, threads, posted>>

(* pop_cv_.notify_one(), after the mutex has been unlocked.                *)
Woken == IF asleep = {} THEN {{}} ELSE {{t} : t \in asleep}

notify_one(w) ==
  /\ worker[w] = "notifying"
  /\ \E woken \in Woken : asleep' = asleep \ woken
  /\ worker' = [worker EXCEPT ![w] = "processing"]
  /\ UNCHANGED <<sink, tp_, ring, pc, call, left, hand, posted>>

(* backend_log_: the message is written, or an exception is reported;      *)
(* one that should_flush_ is followed by backend_flush_.                   *)
backend_log_(w) ==
  /\ worker[w] = "processing" /\ hand[w].type = "log"
  /\ Write(hand[w]) \/ FailToWrite(hand[w])
  /\ hand' = [hand EXCEPT ![w] = Nothing]
  /\ worker' = [worker EXCEPT ![w] = IF hand[w].size \in Flushes THEN "flushing" ELSE "waiting"]
  /\ UNCHANGED <<tp_, ring, threads, posted>>

backend_flush_(w) ==
  /\ \/ worker[w] = "flushing"
     \/ worker[w] = "processing" /\ hand[w].type = "flush"
  /\ flush_
  /\ hand' = [hand EXCEPT ![w] = Nothing]
  /\ worker' = [worker EXCEPT ![w] = "waiting"]
  /\ UNCHANGED <<tp_, ring, threads, posted>>

Terminated(w) ==
  /\ worker[w] = "processing" /\ hand[w].type = "terminate"
  /\ hand' = [hand EXCEPT ![w] = Nothing]
  /\ worker' = [worker EXCEPT ![w] = "done"]
  /\ UNCHANGED <<sink, tp_, ring, threads, posted>>

(* The process dies at any point; the next one opens the same file.        *)
Crash ==
  /\ CrashAndOpen
  /\ tp_' = TRUE
  /\ v_' = EmptyRing /\ head_' = 0 /\ tail_' = 0 /\ overrun_counter_' = 0
  /\ pc' = Unborn /\ call' = NoCalls /\ asleep' = {} /\ left' = 0
  /\ worker' = [w \in Worker |-> IF w \in threads_ THEN "waiting" ELSE "none"]
  /\ hand' = NoHands
  /\ UNCHANGED posted

-----------------------------------------------------------------------------
ThreadStep(t) == post_async_msg_(t) \/ Return(t) \/ PostTerminate(t) \/ Join(t)

WorkerStep(w) ==
  dequeue_for(w) \/ notify_one(w) \/ backend_log_(w) \/ backend_flush_(w) \/ Terminated(w)

Next ==
  \/ \E t \in Thread : ThreadStep(t) \/ Call(t) \/ shutdown(t) \/ SpuriousWakeup(t)
  \/ \E w \in Worker : WorkerStep(w)
  \/ Crash

(* Threads are scheduled; nobody has to log, to shut down or to crash.     *)
Spec ==
  /\ Init /\ [][Next]_vars
  /\ \A t \in Thread : WF_vars(ThreadStep(t))
  /\ \A w \in Worker : WF_vars(WorkerStep(w))

-----------------------------------------------------------------------------
(***************************************************************************)
(* The ring, with its two indices and a spare slot, is a queue that gives  *)
(* up nothing but its oldest items, and counts them (circular_q.h:25), as  *)
(* long as the process runs.                                               *)
(***************************************************************************)
Queue == INSTANCE LogQueue WITH
  Capacity <- max_items,
  Item <- PoolItem,
  queue <- Items, overrun <- overrun_counter_, hands <- hand, failures <- faults

IsAQueue == Queue!Spec

(***************************************************************************)
(* With one worker, the default of async.h, the files and the queue always *)
(* hold messages in the order they were posted, whatever was overrun, not  *)
(* written or lost in a crash; and where nothing was overrun and nothing   *)
(* has failed, neither a rotation nor a write, flush or close of the file, *)
(* they hold all messages but the oldest, and all of them until there is a *)
(* file with the number max_files_.                                        *)
(***************************************************************************)
Logs(items) ==
  FoldLeft(LAMBDA logs, item : IF item.type = "log" THEN Append(logs, item) ELSE logs, <<>>, items)

InHand == SetToSeq({hand[w] : w \in threads_} \ {Nothing})

Accounted == Kept \o Logs(InHand \o Items)

NothingIsLost ==
  Cardinality(threads_) = 1 =>
    /\ \A i, j \in DOMAIN Accounted : i < j => Accounted[i].id < Accounted[j].id
    /\ overrun_counter_ = 0 /\ faults = 0 =>
         /\ IsSuffix(Accounted, Logs(posted))
         /\ Accounted = Logs(posted) \/ max_files_ \in DOMAIN file

(***************************************************************************)
(* Once ~thread_pool has joined the workers, nothing is left in the queue  *)
(* or in their hands: each has taken one terminate item, after all others. *)
(***************************************************************************)
NothingIsLeftBehind ==
  ~tp_ /\ Holders = {} /\ (\A t \in Thread : pc[t] # "destroying") =>
     empty /\ \A w \in Worker : hand[w] = Nothing

(***************************************************************************)
(* Every call of log, flush and shutdown comes to an end, however full the *)
(* queue is: no thread is left on pop_cv_, and ~thread_pool can join.      *)
(***************************************************************************)
EveryCallReturns == \A t \in Thread : pc[t] # "idle" ~> pc[t] = "idle"
=============================================================================
