----------------------------- MODULE MCAsyncLog -----------------------------
(* An instance of AsyncLog: one thread that waits and one that overruns.   *)
EXTENDS AsyncLog

CONSTANTS t1, t2

MCBefore ==
  0 :> <<[type |-> "log", size |-> 1, id |-> 2]>> @@ 1 :> <<[type |-> "log", size |-> 1, id |-> 1]>>

MCPolicy == t1 :> "block" @@ t2 :> "overrun_oldest"
=============================================================================
