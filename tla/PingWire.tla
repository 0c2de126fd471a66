------------------------------- MODULE PingWire -------------------------------
(***************************************************************************)
(* One connection in bytes: how buf_read_cb puts a ping together again     *)
(* from the portions in which its bytes arrive.  PingGossip, where a ping  *)
(* is handled in one step, shows that no connection carries a second one   *)
(* (OnePingPerConnection); so there is one ping here.                      *)
(*                                                                         *)
(* Bytes are numbered from 0, the header first.  In the source HeaderSize  *)
(* is 8, and BodySize at least 1024 times msg_size_; libevent moves at     *)
(* most 4096 bytes from a socket before it calls buf_read_cb.              *)
(***************************************************************************)
EXTENDS Naturals

CONSTANTS
  HeaderSize,   \* sizeof(MsgHeader)
  BodySize,     \* length of PingMsg::save()
  ReadMax,      \* most bytes libevent adds to the input buffer before a call
  BufSize,      \* size of buf in buf_read_cb
  MinFirst      \* fewest bytes the first call finds

ASSUME WireAssumption ==
  /\ HeaderSize \in Nat \ {0} /\ BodySize \in Nat \ {0}
  /\ ReadMax \in Nat /\ BufSize \in Nat /\ ReadMax < BufSize
  /\ HeaderSize <= ReadMax /\ MinFirst \in 1..HeaderSize

MSG_TYPE_PING == 1

VARIABLES
  pos,       \* bytes taken out of the input buffer so far
  input,     \* bytes in the input buffer
  to_read_,  \* of the Client
  buf_ss_,   \* of the Client: which bytes it holds, in ascending order
  ping       \* "waiting", "handled", or "garbled": deserialize throws

wireVars == <<pos, input, to_read_, buf_ss_, ping>>

Total == HeaderSize + BodySize

WireTypeOK ==
  /\ pos \in 0..Total
  /\ input \in 0..Total
  /\ to_read_ \in 0..BodySize
  /\ buf_ss_ \in SUBSET (0..(Total - 1))
  /\ ping \in {"waiting", "handled", "garbled"}

WireInit ==
  /\ pos = 0 /\ input = 0 /\ to_read_ = 0 /\ buf_ss_ = {}
  /\ ping = "waiting"

(* MsgHeader header(MSG_TYPE_PING, data.size()), in broadcast_ping.        *)
SentHeader_with_own_size == [type |-> MSG_TYPE_PING, size |-> Total]

SentHeader == [type |-> MSG_TYPE_PING, size |-> BodySize]

(***************************************************************************)
(* evbuffer_remove of a header, with available bytes in the buffer.  The   *)
(* constructor MsgHeader() initialises nothing, so a header of which not   *)
(* all bytes are there has arbitrary fields, as has one read from elsewhere *)
(* in the stream.  Bound: a size is at most BodySize.                      *)
(***************************************************************************)
Headers(available) ==
  IF pos = 0 /\ available >= HeaderSize THEN {SentHeader}
  ELSE [type : {0, MSG_TYPE_PING}, size : 0..BodySize]

Smaller(m, n) == IF m < n THEN m ELSE n

(* PingMsg::deserialize reads back what save wrote, or throws.             *)
Deserialized(bytes) == IF bytes = HeaderSize..(Total - 1) THEN "handled" ELSE "garbled"

(***************************************************************************)
(* The loop of buf_read_cb: portions of at most BufSize bytes until the    *)
(* buffer is empty or the message complete.  start and available are the   *)
(* position and number of the bytes in the buffer.                         *)
(***************************************************************************)
ReadBody_uncounted(start, available, size) ==
  LET read == Smaller(size, available) IN
  /\ pos' = start + read
  /\ input' = available - read
  /\ to_read_' = size
  /\ buf_ss_' = buf_ss_ \cup start..(start + read - 1)
  /\ ping' = IF read > 0 /\ to_read_' = 0 THEN Deserialized(buf_ss_') ELSE ping

ReadBody(start, available, size) ==
  LET read == Smaller(size, available) IN
  /\ pos' = start + read
  /\ input' = available - read
  /\ to_read_' = size - read
  /\ buf_ss_' = buf_ss_ \cup start..(start + read - 1)
  /\ ping' = IF read > 0 /\ to_read_' = 0 THEN Deserialized(buf_ss_') ELSE ping

(* The first if: a header, when no message is being read.                  *)
ReadHeader(available) ==
  LET taken == Smaller(HeaderSize, available) IN
  \E header \in Headers(available) :
    IF header.type = MSG_TYPE_PING
    THEN ReadBody(pos + taken, available - taken, header.size)
    ELSE /\ pos' = pos + taken
         /\ input' = available - taken
         /\ to_read_' = header.size
         /\ UNCHANGED <<buf_ss_, ping>>

(* libevent has moved n more bytes into the input buffer and calls back.   *)
buf_read_cb_of(n) ==
  /\ ping = "waiting"
  /\ pos + input + n <= Total
  /\ pos = 0 => n >= MinFirst
  /\ IF to_read_ = 0 THEN ReadHeader(input + n) ELSE ReadBody(pos, input + n, to_read_)

WireNext == \E n \in 1..ReadMax : buf_read_cb_of(n)

WireSpec == WireInit /\ [][WireNext]_wireVars

(* TCP delivers all bytes, and libevent calls back for them.               *)
FairWireSpec == WireSpec /\ WF_wireVars(WireNext)

-------------------------------------------------------------------------------
(***************************************************************************)
(* Whatever the portions: from the first call on, the Client holds exactly *)
(* the part of the body that has arrived, nothing is left in the input     *)
(* buffer when a call ends (there would be no call for it, and a later one *)
(* might then find BufSize bytes and read buf without a NUL), and the ping *)
(* is handled in the call that completes it.                               *)
(***************************************************************************)
Framed ==
  pos > 0 =>
    /\ input = 0
    /\ buf_ss_ = HeaderSize..(pos - 1)
    /\ ping = IF pos = Total THEN "handled" ELSE "waiting"

(* main.cpp:154: to_read_ is the "size of msg data to be read".            *)
ToReadIsRemaining == pos > 0 => to_read_ = Total - pos

(* The ping is handled in the end, however its bytes are cut.              *)
PingIsHandled == <>(ping = "handled")
===============================================================================
