------------------------------ MODULE OutputFile ------------------------------
(***************************************************************************)
(* The output streams of the profiler: class OUTPUT of io.cpp over the     *)
(* buffer of hpcio-buffer.c.                                               *)
(*                                                                         *)
(* A stream is written by one thread. writeb opens the file at the first   *)
(* write, under the first name made of the given one and as many "f" as it *)
(* takes to find one that does not exist; copies the line to a buffer; and *)
(* writes the buffer out when the next line does not fit, or when the      *)
(* stream is deleted. write() may write a part, or fail. Streams of other  *)
(* threads, of an earlier attachment of the thread or of an earlier run    *)
(* ask for the same names.                                                 *)
(*                                                                         *)
(* A byte is the pair of its stream and its position in that stream.       *)
(***************************************************************************)
EXTENDS Integers, Sequences, SequencesExt

CONSTANTS
  Streams,    \* OUTPUT objects that are given the same file name
  BufSize,    \* PRINT_BUFFER_SIZE, also writef's LOCAL_BUFFER_SIZE
  MaxSuffix,  \* how many "f" the name buffer has room for
  MaxBytes,   \* bound: bytes written to one stream
  Failures    \* when write() may fail: "first" before a flush has written
              \* anything, "later" after it has written a part

ASSUME BufSizeAssumption == BufSize \in Nat \ {0}
ASSUME SuffixAssumption == MaxSuffix \in Nat
ASSUME MaxBytesAssumption == MaxBytes \in Nat
ASSUME FailuresAssumption == Failures \subseteq {"first", "later"}

VARIABLES
  created,  \* the names that exist in the directory
  files,    \* per name, the content
  suffix,   \* per stream, the number of "f" appended to _file_name
  fd,       \* per stream, _output_buffer.fd: "none", "open", "closed", "leaked"
  buf,      \* per stream, _print_buffer, what lies above in_use included
  in_use,   \* per stream, the bytes of it in use
  line,     \* per stream, the rest of the line that writeb is writing
  amt_done, \* per stream, amt_done of hpcio_outbuf_write
  flushed,  \* per stream, amt_done of outbuf_flush_buffer
  pc,       \* per stream, the next step of the call that is under way
  copied    \* history: per stream, the bytes taken into the buffer, in order

streamVars == <<suffix, fd, buf, in_use, line, amt_done, flushed, pc>>
dirVars == <<created, files>>
vars == <<dirVars, streamVars, copied>>

-----------------------------------------------------------------------------
Names == 0..MaxSuffix
Byte == Streams \X (1..MaxBytes)
Unused == <<"unused", 0>>
EarlierByte == <<"earlier", 0>>

Init ==
  /\ created \in SUBSET Names    \* left by earlier runs
  /\ files = [n \in Names |-> IF n \in created THEN <<EarlierByte>> ELSE <<>>]
  /\ suffix = [s \in Streams |-> 0] /\ fd = [s \in Streams |-> "none"]
  /\ buf = [s \in Streams |-> [i \in 1..BufSize |-> Unused]]
  /\ in_use = [s \in Streams |-> 0]
  /\ line = [s \in Streams |-> <<>>] /\ amt_done = [s \in Streams |-> 0]
  /\ flushed = [s \in Streams |-> 0] /\ pc = [s \in Streams |-> "idle"]
  /\ copied = [s \in Streams |-> <<>>]

(* The bytes lo + 1 to lo + n of stream s.                                  *)
Bytes(s, lo, n) == [i \in 1..n |-> <<s, lo + i>>]

Goto(s, p) == pc' = [pc EXCEPT ![s] = p]

-----------------------------------------------------------------------------
(* writef and writeb. A line of BufSize bytes or more fails the assertion   *)
(* of writef and is not considered here.                                    *)
Write(s, n) ==
  /\ pc[s] = "idle"
  /\ Len(copied[s]) + n <= MaxBytes
  /\ line' = [line EXCEPT ![s] = Bytes(s, Len(copied[s]), n)]
  /\ Goto(s, IF fd[s] = "none" THEN "openFile" ELSE "write")
  /\ UNCHANGED <<dirVars, suffix, fd, buf, in_use, amt_done, flushed, copied>>

(* _openFile: the name is free, the file is created and attached.           *)
OpenNewFile(s) ==
  /\ pc[s] = "openFile"
  /\ suffix[s] \notin created
  /\ created' = created \cup {suffix[s]}
  /\ fd' = [fd EXCEPT ![s] = "open"]
  /\ Goto(s, "write")
  /\ UNCHANGED <<files, suffix, buf, in_use, line, amt_done, flushed, copied>>

(* EEXIST: the name gets another "f" if there is room for one.              *)
OpenNextName(s) ==
  /\ pc[s] = "openFile"
  /\ suffix[s] \in created /\ suffix[s] < MaxSuffix
  /\ suffix' = [suffix EXCEPT ![s] = @ + 1]
  /\ UNCHANGED <<dirVars, fd, buf, in_use, line, amt_done, flushed, pc, copied>>

(* No room for a longer name, or another error: writeb returns 0, and the   *)
(* line is not written.                                                     *)
OpenFails(s) ==
  /\ pc[s] = "openFile"
  /\ line' = [line EXCEPT ![s] = <<>>]
  /\ Goto(s, "idle")
  /\ UNCHANGED <<dirVars, suffix, fd, buf, in_use, amt_done, flushed, copied>>

-----------------------------------------------------------------------------
(* hpcio_outbuf_write.                                                      *)

Size(s) == Len(line[s])
Free(s) == BufSize - in_use[s]

(* The loop's test, and the test whether to flush first, which compares the *)
(* size of the whole request with the space.                                *)
WriteLoop(s) ==
  /\ pc[s] = "write"
  /\ amt_done[s] < Size(s)
  /\ flushed' = [flushed EXCEPT ![s] = 0]
  /\ Goto(s, IF Size(s) > Free(s) THEN "flush" ELSE "copy")
  /\ UNCHANGED <<dirVars, suffix, fd, buf, in_use, line, amt_done, copied>>

(* Variant for validation: the loop of writeb tests sent_size <= data_size  *)
(* and goes on writing an empty rest.                                       *)
WriteReturnsTooLate(s) ==
  /\ pc[s] = "write"
  /\ amt_done[s] = Size(s)
  /\ line' = [line EXCEPT ![s] = <<>>]
  /\ amt_done' = [amt_done EXCEPT ![s] = 0]
  /\ UNCHANGED <<dirVars, suffix, fd, buf, in_use, flushed, pc, copied>>

(* Everything was copied: hpcio_outbuf_write and writeb return.             *)
WriteReturns(s) ==
  /\ pc[s] = "write"
  /\ amt_done[s] = Size(s)
  /\ line' = [line EXCEPT ![s] = <<>>]
  /\ amt_done' = [amt_done EXCEPT ![s] = 0]
  /\ Goto(s, "idle")
  /\ UNCHANGED <<dirVars, suffix, fd, buf, in_use, flushed, copied>>

(* The flush left no space: hpcio_outbuf_write returns what it has copied,  *)
(* and writeb calls it again for the rest.                                  *)
WriteRetries(s) ==
  /\ pc[s] = "copy" /\ Free(s) = 0
  /\ line' = [line EXCEPT ![s] = SubSeq(@, amt_done[s] + 1, Len(@))]
  /\ amt_done' = [amt_done EXCEPT ![s] = 0]
  /\ Goto(s, "write")
  /\ UNCHANGED <<dirVars, suffix, fd, buf, in_use, flushed, copied>>

(* Copy as much as possible.                                                *)
Copy(s) ==
  LET rest == Size(s) - amt_done[s]
      amt == IF rest < Free(s) THEN rest ELSE Free(s)
      piece == SubSeq(line[s], amt_done[s] + 1, amt_done[s] + amt)
  IN /\ pc[s] = "copy" /\ Free(s) > 0
     /\ buf' = [buf EXCEPT ![s] =
          [i \in 1..BufSize |->
             IF i \in (in_use[s] + 1)..(in_use[s] + amt) THEN piece[i - in_use[s]]
                                                        ELSE @[i]]]
     /\ in_use' = [in_use EXCEPT ![s] = @ + amt]
     /\ amt_done' = [amt_done EXCEPT ![s] = @ + amt]
     /\ copied' = [copied EXCEPT ![s] = @ \o piece]
     /\ Goto(s, "write")
     /\ UNCHANGED <<dirVars, suffix, fd, line, flushed>>

-----------------------------------------------------------------------------
(* outbuf_flush_buffer, for hpcio_outbuf_write ("flush") and for            *)
(* hpcio_outbuf_close ("close").                                            *)

Flushes(s) == pc[s] \in {"flush", "close"}

(* Variant for validation: a short write is taken for a complete one.       *)
FlushWriteTakenForAll(s, n) ==
  /\ Flushes(s) /\ flushed[s] + n <= in_use[s]
  /\ files' = [files EXCEPT ![suffix[s]] =
                 @ \o [i \in 1..n |-> buf[s][flushed[s] + i]]]
  /\ flushed' = [flushed EXCEPT ![s] = in_use[s]]
  /\ UNCHANGED <<created, suffix, fd, buf, in_use, line, amt_done, pc, copied>>

(* write() writes n of the remaining bytes.                                 *)
FlushWrite(s, n) ==
  /\ Flushes(s) /\ flushed[s] + n <= in_use[s]
  /\ files' = [files EXCEPT ![suffix[s]] =
                 @ \o [i \in 1..n |-> buf[s][flushed[s] + i]]]
  /\ flushed' = [flushed EXCEPT ![s] = @ + n]
  /\ UNCHANGED <<created, suffix, fd, buf, in_use, line, amt_done, pc, copied>>

(* All is written: the buffer is empty. hpcio_outbuf_close closes the       *)
(* descriptor.                                                              *)
FlushDone(s) ==
  /\ Flushes(s) /\ flushed[s] = in_use[s]
  /\ in_use' = [in_use EXCEPT ![s] = 0]
  /\ fd' = [fd EXCEPT ![s] = IF pc[s] = "close" THEN "closed" ELSE @]
  /\ Goto(s, IF pc[s] = "close" THEN "deleted" ELSE "copy")
  /\ UNCHANGED <<dirVars, suffix, buf, line, amt_done, flushed, copied>>

(* All is written, but close() fails: the descriptor stays in the object    *)
(* that is being deleted.                                                   *)
CloseFails(s) ==
  /\ pc[s] = "close" /\ flushed[s] = in_use[s]
  /\ in_use' = [in_use EXCEPT ![s] = 0]
  /\ fd' = [fd EXCEPT ![s] = "leaked"]
  /\ Goto(s, "deleted")
  /\ UNCHANGED <<dirVars, suffix, buf, line, amt_done, flushed, copied>>

(* write() fails: what is left is moved to the front of the buffer, whose   *)
(* fill is set to the number of bytes written. hpcio_outbuf_write goes on   *)
(* with the space there is; the destructor of OUTPUT ignores the failure.   *)
FlushFails(s) ==
  /\ Flushes(s) /\ flushed[s] < in_use[s]
  /\ (IF flushed[s] = 0 THEN "first" ELSE "later") \in Failures
  /\ IF flushed[s] = 0
       THEN UNCHANGED <<buf, in_use>>
       ELSE /\ buf' = [buf EXCEPT ![s] =
                 [i \in 1..BufSize |-> IF i <= in_use[s] - flushed[s]
                                         THEN @[flushed[s] + i] ELSE @[i]]]
            /\ in_use' = [in_use EXCEPT ![s] = flushed[s]]
  /\ fd' = [fd EXCEPT ![s] = IF pc[s] = "close" THEN "leaked" ELSE @]
  /\ Goto(s, IF pc[s] = "close" THEN "deleted" ELSE "copy")
  /\ UNCHANGED <<dirVars, suffix, line, amt_done, flushed, copied>>

(* threadEnd deletes the stream: ~OUTPUT closes an open file.               *)
Delete(s) ==
  /\ pc[s] = "idle"
  /\ flushed' = [flushed EXCEPT ![s] = 0]
  /\ Goto(s, IF fd[s] = "open" THEN "close" ELSE "deleted")
  /\ UNCHANGED <<dirVars, suffix, fd, buf, in_use, line, amt_done, copied>>

-----------------------------------------------------------------------------
Flush(s) ==
  \/ FlushDone(s) \/ CloseFails(s) \/ FlushFails(s)
  \/ \E n \in 1..BufSize : FlushWrite(s, n)

CallStep(s) ==
  \/ OpenNewFile(s) \/ OpenNextName(s) \/ OpenFails(s)
  \/ WriteLoop(s) \/ WriteReturns(s) \/ WriteRetries(s) \/ Copy(s)
  \/ Flush(s)

Next ==
  \E s \in Streams :
    CallStep(s) \/ Delete(s) \/ \E n \in 0..(BufSize - 1) : Write(s, n)

Spec == Init /\ [][Next]_vars

(* A thread inside a call keeps running.                                    *)
FairSpec == Spec /\ \A s \in Streams : WF_vars(CallStep(s))

-----------------------------------------------------------------------------
(* Properties.                                                              *)

(* The type of every variable.                                              *)
TypeOK ==
  /\ created \subseteq Names
  /\ \A n \in Names : \A i \in DOMAIN files[n] : files[n][i] \in Byte \cup {EarlierByte}
  /\ suffix \in [Streams -> Names]
  /\ fd \in [Streams -> {"none", "open", "closed", "leaked"}]
  /\ buf \in [Streams -> [1..BufSize -> Byte \cup {Unused}]]
  /\ in_use \in [Streams -> 0..BufSize]
  /\ \A s \in Streams : /\ Len(line[s]) < BufSize
                        /\ amt_done[s] \in 0..Len(line[s])
                        /\ flushed[s] \in 0..BufSize
  /\ pc \in [Streams -> {"idle", "openFile", "write", "copy", "flush", "close", "deleted"}]

(* The content of the file of stream s.                                     *)
FileOf(s) == IF fd[s] = "none" THEN <<>> ELSE files[suffix[s]]

(* A stream as the append-only log of AppendLog: what was copied is the     *)
(* log, what is in the file is durable.                                     *)
Status(s) == CASE fd[s] = "leaked" -> "abandoned"
               [] pc[s] = "deleted" /\ fd[s] # "leaked" -> "closed"
               [] OTHER -> "open"

Log == INSTANCE AppendLog
         WITH log <- copied,
              durable <- [s \in Streams |-> FileOf(s)],
              status <- [s \in Streams |-> Status(s)]

(* OUTPUT implements AppendLog as long as write() does not fail in the      *)
(* middle of a flush: whatever the short writes, the failures at the start  *)
(* of a flush, the retries of writeb and the other streams that want the    *)
(* same file name, no byte is lost, doubled, reordered or written to the    *)
(* file of another stream.                                                  *)
ImplementsLog == Log!Spec

(* writeb returns: neither its loop, which goes on until the whole line is  *)
(* taken, nor those below it go round for ever, unless the device keeps     *)
(* failing.                                                                 *)
CallReturns ==
  \A s \in Streams :
    \/ (pc[s] # "idle") ~> (pc[s] \in {"idle", "deleted"})
    \/ []<><<FlushFails(s)>>_vars

(* outbuf_flush_buffer: "Note: EINTR is not failure." The file always holds *)
(* a prefix of what was handed to the stream.                               *)
FileIntact == \A s \in Streams : IsPrefix(FileOf(s), copied[s])
=============================================================================
