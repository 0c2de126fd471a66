------------------------------ MODULE LogQueue ------------------------------
(***************************************************************************)
(* What the queue of an asynchronous logger promises: its items come out   *)
(* in the order they went in, each to one worker, and none disappears but  *)
(* the oldest ones a full queue is made to give up, which are counted, as  *)
(* is the end of a process, with which its queue is gone.                  *)
(***************************************************************************)
EXTENDS Naturals, Sequences

CONSTANTS Capacity, Item, Worker, Nothing

VARIABLES
  queue,    \* the items, oldest first
  overrun,  \* how many a full queue has given up
  hands,    \* the item each worker is busy with, or Nothing
  failures  \* how often something has failed, or the process ended

Init ==
  /\ queue = <<>>
  /\ overrun = 0
  /\ hands = [w \in Worker |-> Nothing]
  /\ failures = 0

Push(item) ==
  /\ Len(queue) < Capacity
  /\ queue' = Append(queue, item)
  /\ UNCHANGED <<overrun, hands, failures>>

Overrun(item) ==
  /\ Len(queue) = Capacity
  /\ queue' = Append(Tail(queue), item)
  /\ overrun' = overrun + 1
  /\ UNCHANGED <<hands, failures>>

Pop(w) ==
  /\ queue # <<>> /\ hands[w] = Nothing
  /\ hands' = [hands EXCEPT ![w] = Head(queue)]
  /\ queue' = Tail(queue)
  /\ UNCHANGED <<overrun, failures>>

(* What a worker does with an item may fail.                               *)
Finish(w) ==
  /\ hands' = [hands EXCEPT ![w] = Nothing]
  /\ failures' \in {failures, failures + 1}
  /\ UNCHANGED <<queue, overrun>>

(* The process ends, and another one starts.                               *)
Restart ==
  /\ queue' = <<>> /\ overrun' = 0
  /\ hands' = [w \in Worker |-> Nothing]
  /\ failures' = failures + 1

Next ==
  \/ \E item \in Item : Push(item) \/ Overrun(item)
  \/ \E w \in Worker : Pop(w) \/ Finish(w)
  \/ Restart

Spec == Init /\ [][Next]_<<queue, overrun, hands, failures>>
=============================================================================
