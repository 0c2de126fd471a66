---------------------------- MODULE RotatingFile ----------------------------
(***************************************************************************)
(* spdlog's rotating_file_sink: messages are appended to a file until it   *)
(* would grow beyond max_size_; then log.txt becomes log.1.txt, log.1.txt  *)
(* becomes log.2.txt, and so on, and the last one is deleted.  Every call  *)
(* runs under the mutex of the sink, so that a call is one step; opening,  *)
(* renaming and writing may fail, and whoever crashes loses what stdio     *)
(* buffers.  A message that got into a file in part is not one of it.      *)
(***************************************************************************)
EXTENDS Integers, Sequences, SequencesExt

CONSTANTS
  max_size_,   \* how much a file may hold
  max_files_,  \* how many rotated files are kept
  Sizes,       \* the sizes of messages
  Before,      \* the files an earlier process has left, with their messages
  MaxFaults    \* bound: calls in which something fails, and crashes

ASSUME SinkAssumption ==
  /\ max_size_ \in Nat /\ max_files_ \in Nat /\ MaxFaults \in Nat
  /\ Sizes \subseteq Nat \ {0}
  /\ 0 \in DOMAIN Before /\ DOMAIN Before \subseteq 0..max_files_

VARIABLES
  file,           \* the files there are, by index: the messages written to each
  unflushed,      \* how many of the last messages of file 0 stdio still has
  fd_,            \* whether file_helper has an open file
  current_size_,  \* what the sink believes to be the size of file 0
  faults          \* calls in which something failed, and crashes

sink == <<file, unflushed, fd_, current_size_, faults>>

SizeOf(messages) == FoldLeft(LAMBDA total, m : total + m.size, 0, messages)

FilesAreBounded(files) ==
  \A i \in DOMAIN files : SizeOf(files[i]) <= max_size_ \/ Len(files[i]) = 1

(* The earlier process had the same limits.                                *)
ASSUME BeforeAssumption == FilesAreBounded(Before)

(* The files with s in file 0.                                             *)
WithFirst(files, s) == [i \in DOMAIN files \cup {0} |-> IF i = 0 THEN s ELSE files[i]]

(* The constructor: the file is opened for appending.  In its size is also *)
(* what there is of messages of which a part has been written.             *)
Open(files) ==
  /\ file' = WithFirst(files, IF 0 \in DOMAIN files THEN files[0] ELSE <<>>)
  /\ fd_' = TRUE /\ unflushed' = 0
  /\ current_size_' \in SizeOf(file'[0])..(IF 0 \in DOMAIN files THEN current_size_ ELSE 0)

InitSink ==
  /\ file = Before
  /\ unflushed = 0 /\ fd_ = TRUE /\ current_size_ = SizeOf(Before[0]) /\ faults = 0

(***************************************************************************)
(* The files when rotate_ has gone from max_files_ down to k + 1.  A file  *)
(* whose predecessor does not exist has only been moved on.                *)
(***************************************************************************)
Moved_one_only(files, k) ==
  [i \in (DOMAIN files \ {k}) \cup {j \in {k + 1} : j <= max_files_ /\ k \in DOMAIN files} |->
     IF i = k + 1 /\ k \in DOMAIN files THEN files[k] ELSE files[i]]

Moved(files, k) ==
  LET targets == {i \in (k + 1)..max_files_ : i - 1 \in DOMAIN files}
      last == {i \in DOMAIN files : i = max_files_ /\ (i > k \/ i = 0)}
  IN  [i \in {j \in DOMAIN files : j < k} \cup targets \cup last |->
         IF i \in targets THEN files[i - 1] ELSE files[i]]

(* file_helper's reopen(true), which tries five times and then throws.     *)
Reopen(files) ==
  /\ fd_' = TRUE
  /\ file' = WithFirst(files, <<>>)

FailToReopen(files) == fd_' = FALSE /\ file' = files

Fits(size) == current_size_ + size <= max_size_

(* sink_it_ for a message that gets into the file, with no failure.        *)
Write(m) ==
  \/ /\ Fits(m.size)
     /\ current_size_' = current_size_ + m.size
     /\ file' = [file EXCEPT ![0] = Append(@, m)]
     /\ unflushed' = unflushed + 1
     /\ UNCHANGED <<fd_, faults>>
  \/ /\ ~Fits(m.size)
     /\ file' = WithFirst(Moved(file, 0), <<m>>)
     /\ fd_' = TRUE
     /\ current_size_' = m.size
     /\ unflushed' = 1
     /\ UNCHANGED faults

-----------------------------------------------------------------------------
(* The files when the last n messages in the buffer could not be written:  *)
(* stdio drops them, and what came before is in the file.                  *)
Cut(n) == [file EXCEPT ![0] = SubSeq(@, 1, Len(@) - n)]

(* Something fails, and what was in the buffer is written or dropped.      *)
Fails ==
  /\ faults < MaxFaults
  /\ faults' = faults + 1

(* The message is not written: fwrite comes up short, and write throws.    *)
fwrite_throws(m) ==
  /\ unflushed' = 0
  /\ \E n \in 0..unflushed :
        \/ /\ Fits(m.size)
           /\ file' = Cut(n)
           /\ current_size_' = current_size_ + m.size
           /\ UNCHANGED fd_
        \/ /\ ~Fits(m.size)
           /\ Reopen(Moved(Cut(n), 0))
           /\ current_size_' = m.size

(* The message is written, but the fclose of the file it did not fit into  *)
(* has failed, which nobody looks at.                                      *)
fclose_fails(m) ==
  /\ ~Fits(m.size)
  /\ \E n \in 1..unflushed : file' = WithFirst(Moved(Cut(n), 0), <<m>>)
  /\ fd_' = TRUE
  /\ current_size_' = m.size
  /\ unflushed' = 1

Throw_resets(m) == 0

Throw(m) == current_size_ + m.size

(* rotate_ throws if a file cannot be renamed, its target being removed by *)
(* then and file 0 truncated all the same, or if file 0 cannot be opened.  *)
(* The message is not written; current_size_ keeps what was added for it.  *)
rotate_throws(m) ==
  /\ ~Fits(m.size)
  /\ \E n \in 0..unflushed :
        \/ FailToReopen(Moved(Cut(n), 0))
        \/ \E k \in {i \in 1..max_files_ : i - 1 \in DOMAIN file} :
              Reopen(Moved(Cut(n), k)) \/ FailToReopen(Moved(Cut(n), k))
  /\ current_size_' = Throw(m)
  /\ unflushed' = 0

(* sink_it_ when something fails.                                          *)
FailToWrite(m) == Fails /\ (fwrite_throws(m) \/ fclose_fails(m) \/ rotate_throws(m))

(* fflush, whose result nobody looks at either.                            *)
flush_ ==
  /\ unflushed' = 0
  /\ \/ UNCHANGED <<file, faults>>
     \/ Fails /\ \E n \in 1..unflushed : file' = Cut(n)
  /\ UNCHANGED <<fd_, current_size_>>

(* The process ends without closing the file, and another one opens it:    *)
(* any number of the buffered messages may have been written out before.   *)
CrashAndOpen ==
  /\ Fails
  /\ \E n \in 0..unflushed : Open(Cut(n))

-----------------------------------------------------------------------------
(* What the files hold, oldest first.                                     *)
KeptIn(files) ==
  FlattenSeq([k \in 1..(max_files_ + 1) |->
    IF max_files_ + 1 - k \in DOMAIN files THEN files[max_files_ + 1 - k] ELSE <<>>])

Kept == KeptIn(file)

(* While a file is open, current_size_ is its size, or more after          *)
(* something has failed.                                                   *)
NeverWritesToNull ==
  /\ ~fd_ => \A size \in Sizes : ~Fits(size)
  /\ fd_ => 0 \in DOMAIN file /\ SizeOf(file[0]) <= current_size_

(***************************************************************************)
(* A rotation that fails may leave no open file.  Nothing is written until *)
(* there is one again, because current_size_ then makes every message      *)
(* rotate first; and no file grows beyond max_size_ (rotating_file_sink.h: *)
(* 104: "to prevent it to grow beyond its limit!"), unless it is by a      *)
(* single message.                                                         *)
(***************************************************************************)
RotationIsSafe == NeverWritesToNull /\ FilesAreBounded(file)
=============================================================================
