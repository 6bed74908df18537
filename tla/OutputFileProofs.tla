-------------------------- MODULE OutputFileProofs ---------------------------
(***************************************************************************)
(* OutputFile implements AppendLog for any number of streams, size of the  *)
(* buffer and length of the lines, as long as write() does not fail in the *)
(* middle of a flush.                                                      *)
(***************************************************************************)
EXTENDS OutputFile, SequenceTheorems, TLAPS

(* The case that the run output_file_eintr leaves out of ImplementsLog.     *)
NoLateFailure == "later" \notin Failures

Cell == (Streams \X Nat) \cup {Unused, EarlierByte}
PCs == {"idle", "openFile", "write", "copy", "flush", "close", "deleted"}

Types ==
  /\ created \subseteq Names
  /\ files \in [Names -> Seq(Cell)]
  /\ suffix \in [Streams -> Names]
  /\ fd \in [Streams -> {"none", "open", "closed", "leaked"}]
  /\ buf \in [Streams -> [1..BufSize -> Cell]]
  /\ in_use \in [Streams -> 0..BufSize]
  /\ line \in [Streams -> Seq(Cell)]
  /\ amt_done \in [Streams -> Nat]
  /\ flushed \in [Streams -> Nat]
  /\ pc \in [Streams -> PCs]
  /\ copied \in [Streams -> Seq(Cell)]

(* A file belongs to the stream that has created it.                        *)
OwnFile ==
  /\ \A n \in Names \ created : files[n] = <<>>
  /\ \A s \in Streams : fd[s] # "none" => suffix[s] \in created
  /\ \A s, u \in Streams : s # u /\ fd[s] # "none" /\ fd[u] # "none" => suffix[s] # suffix[u]

(* Where a stream can be in its life and in the loops of writeb.            *)
Flow(s) ==
  /\ pc[s] \in {"write", "copy", "flush", "close"} => fd[s] = "open"
  /\ pc[s] = "openFile" => fd[s] = "none"
  /\ pc[s] = "idle" => fd[s] \in {"none", "open"}
  /\ pc[s] = "deleted" => fd[s] # "open"
  /\ fd[s] = "none" => in_use[s] = 0 /\ copied[s] = <<>>
  /\ fd[s] = "closed" => in_use[s] = 0
  /\ Flushes(s) => flushed[s] <= in_use[s]
  /\ amt_done[s] <= Len(line[s]) /\ (pc[s] \in {"idle", "openFile"} => amt_done[s] = 0)
  /\ pc[s] \in {"copy", "flush"} => amt_done[s] < Len(line[s])

(* What the flush under way has written of the buffer.                      *)
Off(s) == IF Flushes(s) THEN flushed[s] ELSE 0

(* What was copied is the file followed by the rest of the buffer.          *)
Content(s) ==
  /\ Len(copied[s]) = Len(FileOf(s)) + in_use[s] - Off(s)
  /\ \A i \in 1..Len(FileOf(s)) : copied[s][i] = FileOf(s)[i]
  /\ \A i \in 1..(in_use[s] - Off(s)) : copied[s][Len(FileOf(s)) + i] = buf[s][Off(s) + i]

IInv == Types /\ OwnFile /\ \A s \in Streams : Flow(s) /\ Content(s)

-----------------------------------------------------------------------------
(* Prefixes, element by element.                                            *)
LEMMA PrefixByElements ==
  ASSUME NEW S, NEW p \in Seq(S), NEW q \in Seq(S), Len(p) <= Len(q),
         \A i \in 1..Len(p) : p[i] = q[i]
  PROVE  IsPrefix(p, q) /\ Log!IsPrefix(p, q)
<1>1. Len(p) \in Nat /\ Len(q) \in Nat
  BY LenProperties
<1>2. \A i \in 1..Len(p) : p[i] \in S /\ q[i] \in S
  BY <1>1, ElementOfSeq
<1> DEFINE a == SubSeq(p, 1, Len(p))
           b == SubSeq(q, 1, Len(p))
<1>3. a \in Seq(S) /\ Len(a) = Len(p) /\ \A i \in 1..Len(p) : a[i] = p[i]
  BY <1>1, <1>2, SubSeqProperties
<1>4. b \in Seq(S) /\ Len(b) = Len(p) /\ \A i \in 1..Len(p) : b[i] = q[i]
  BY <1>1, <1>2, SubSeqProperties
<1> HIDE DEF a, b
<1>5. a = b
  BY <1>3, <1>4, SeqEqual
<1> QED
  BY <1>5 DEF IsPrefix, Log!IsPrefix, a, b

(* The same stream with the same file.                                      *)
SameStream(u) ==
  /\ suffix'[u] = suffix[u] /\ fd'[u] = fd[u] /\ buf'[u] = buf[u] /\ in_use'[u] = in_use[u]
  /\ line'[u] = line[u] /\ amt_done'[u] = amt_done[u] /\ flushed'[u] = flushed[u]
  /\ pc'[u] = pc[u] /\ copied'[u] = copied[u] /\ FileOf(u)' = FileOf(u)

LEMMA SameKeeps ==
  ASSUME NEW u \in Streams, Flow(u), Content(u), SameStream(u)
  PROVE  Flow(u)' /\ Content(u)'
<1>1. Flow(u)'
  BY DEF Flow, Flushes, SameStream
<1>2. Off(u)' = Off(u)
  BY DEF Off, Flushes, SameStream
<1>3. Content(u)'
  BY <1>2 DEF Content, SameStream
<1> QED
  BY <1>1, <1>3

LEMMA SameContent ==
  ASSUME NEW s \in Streams, Types, Content(s),
         copied'[s] = copied[s], FileOf(s)' = FileOf(s), buf'[s] = buf[s],
         \/ in_use'[s] = in_use[s] /\ Off(s)' = Off(s)
         \/ in_use[s] = Off(s) /\ in_use'[s] = 0 /\ Off(s)' = 0
  PROVE  Content(s)'
<1>1. in_use[s] \in Nat
  BY BufSizeAssumption DEF Types
<1>2. CASE in_use'[s] = in_use[s] /\ Off(s)' = Off(s)
  BY <1>2 DEF Content
<1>3. CASE in_use[s] = Off(s) /\ in_use'[s] = 0 /\ Off(s)' = 0
  <2>1. Len(FileOf(s)) \in Nat
    BY LenProperties DEF Types, FileOf
  <2> QED
    BY <1>1, <1>3, <2>1 DEF Content
<1> QED
  BY <1>2, <1>3

(* The log as it was.                                                       *)
SameLog(u) == copied'[u] = copied[u] /\ FileOf(u)' = FileOf(u) /\ Status(u)' = Status(u)

LEMMA SameStreamSameLog ==
  ASSUME NEW u \in Streams, SameStream(u)
  PROVE  SameLog(u)
  BY DEF SameStream, SameLog, Status

Simulates == [Log!Next]_(Log!logVars)

LEMMA Stutters ==
  ASSUME Types, Types', \A u \in Streams : SameLog(u)
  PROVE  Simulates
<1>1. copied' = copied
  BY DEF Types, SameLog
<1>2. [u \in Streams |-> FileOf(u)]' = [u \in Streams |-> FileOf(u)]
  BY DEF SameLog
<1>3. [u \in Streams |-> Status(u)]' = [u \in Streams |-> Status(u)]
  BY DEF SameLog
<1> QED
  BY <1>1, <1>2, <1>3 DEF Simulates, Log!logVars

LEMMA InitHolds ==
  ASSUME Init
  PROVE  IInv /\ Log!Init
<1>1. <<>> \in Seq(Cell) /\ <<EarlierByte>> \in Seq(Cell) /\ Len(<<>>) = 0
  BY DEF Cell
<1>2. files \in [Names -> Seq(Cell)]
  BY <1>1 DEF Init
<1>3. buf \in [Streams -> [1..BufSize -> Cell]]
  BY DEF Init, Cell
<1>4. Types
  <2>1. 0 \in Names /\ 0 \in 0..BufSize
    BY BufSizeAssumption, SuffixAssumption DEF Names
  <2>2. in_use \in [Streams -> 0..BufSize] /\ suffix \in [Streams -> Names]
    BY <2>1 DEF Init
  <2>3. created \subseteq Names /\ line \in [Streams -> Seq(Cell)] /\ copied \in [Streams -> Seq(Cell)]
    BY <1>1 DEF Init
  <2> QED
    BY <1>2, <1>3, <2>2, <2>3 DEF Init, Types, PCs
<1>5. OwnFile
  BY DEF Init, OwnFile
<1>6. ASSUME NEW s \in Streams PROVE Flow(s) /\ Content(s)
  <2>1. /\ fd[s] = "none" /\ pc[s] = "idle" /\ in_use[s] = 0 /\ copied[s] = <<>>
        /\ amt_done[s] = 0 /\ line[s] = <<>>
    BY DEF Init
  <2>2. FileOf(s) = <<>> /\ Off(s) = 0
    BY <2>1 DEF FileOf, Off, Flushes
  <2>3. Flow(s)
    BY <1>1, <2>1 DEF Flow, Flushes
  <2> QED
    BY <1>1, <2>1, <2>2, <2>3 DEF Content
<1>7. \A s \in Streams : FileOf(s) = <<>> /\ Status(s) = "open"
  BY DEF Init, FileOf, Status
<1>8. Log!Init
  BY <1>7 DEF Init, Log!Init
<1> QED
  BY <1>4, <1>5, <1>6, <1>8 DEF IInv

(* A step of s that neither copies nor writes.                              *)
LEMMA QuietStep ==
  ASSUME IInv, NEW s \in Streams, Types', OwnFile', Flow(s)',
         \A u \in Streams : u # s => SameStream(u),
         copied'[s] = copied[s], FileOf(s)' = FileOf(s), buf'[s] = buf[s],
         \/ in_use'[s] = in_use[s] /\ Off(s)' = Off(s)
         \/ in_use[s] = Off(s) /\ in_use'[s] = 0 /\ Off(s)' = 0
  PROVE  IInv' /\ (Status(s)' = Status(s) => Simulates)
<1>1. Content(s)'
  BY SameContent DEF IInv
<1>2. \A u \in Streams : Flow(u)' /\ Content(u)'
  BY <1>1, SameKeeps DEF IInv
<1>3. ASSUME Status(s)' = Status(s) PROVE \A u \in Streams : SameLog(u)
  BY <1>3, SameStreamSameLog DEF SameLog
<1> QED
  BY <1>2, <1>3, Stutters DEF IInv

LEMMA WriteStep ==
  ASSUME IInv, NEW s \in Streams, NEW n \in 0..(BufSize - 1), Write(s, n)
  PROVE  IInv' /\ Simulates
<1>1. /\ pc[s] = "idle"
      /\ line' = [line EXCEPT ![s] = Bytes(s, Len(copied[s]), n)]
      /\ pc' = [pc EXCEPT ![s] = IF fd[s] = "none" THEN "openFile" ELSE "write"]
      /\ UNCHANGED <<created, files, suffix, fd, buf, in_use, amt_done, flushed, copied>>
  BY DEF Write, Goto, dirVars
<1>2. n \in Nat /\ Len(copied[s]) \in Nat
  BY BufSizeAssumption, LenProperties DEF IInv, Types
<1> DEFINE b == Bytes(s, Len(copied[s]), n)
<1>3. b \in [1..n -> Cell]
  BY <1>2 DEF Bytes, Cell
<1>4. b \in Seq(Cell) /\ Len(b) = n
  BY <1>2, <1>3, SeqDef, LenProperties
<1> HIDE DEF b
<1>5. /\ line' \in [Streams -> Seq(Cell)] /\ line'[s] = b
      /\ \A u \in Streams : u # s => line'[u] = line[u]
  BY <1>1, <1>4 DEF IInv, Types, b
<1>6. /\ pc' \in [Streams -> PCs]
      /\ pc'[s] = IF fd[s] = "none" THEN "openFile" ELSE "write"
      /\ \A u \in Streams : u # s => pc'[u] = pc[u]
  BY <1>1 DEF IInv, Types, PCs
<1>7. Types'
  BY <1>1, <1>5, <1>6 DEF IInv, Types
<1>8. OwnFile'
  BY <1>1 DEF IInv, OwnFile
<1>9. \A u \in Streams : u # s => SameStream(u)
  BY <1>1, <1>5, <1>6 DEF SameStream, FileOf
<1>10. Flow(s) /\ fd[s] \in {"none", "open"}
  BY <1>1 DEF IInv, Flow
<1>11. amt_done[s] = 0
  BY <1>1 DEF IInv, Flow
<1>12. Flow(s)'
  BY <1>1, <1>2, <1>4, <1>5, <1>6, <1>10, <1>11 DEF Flow, Flushes
<1>13. FileOf(s)' = FileOf(s) /\ Off(s)' = Off(s) /\ Status(s)' = Status(s)
  BY <1>1, <1>6 DEF FileOf, Off, Flushes, Status
<1> QED
  BY <1>1, <1>7, <1>8, <1>9, <1>12, <1>13, QuietStep
(* A new file is empty, and no other stream has it.                         *)
LEMMA OpenNewFileStep ==
  ASSUME IInv, NEW s \in Streams, OpenNewFile(s)
  PROVE  IInv' /\ Simulates
<1>1. /\ pc[s] = "openFile" /\ suffix[s] \notin created
      /\ created' = created \cup {suffix[s]}
      /\ fd' = [fd EXCEPT ![s] = "open"] /\ pc' = [pc EXCEPT ![s] = "write"]
      /\ UNCHANGED <<files, suffix, buf, in_use, line, amt_done, flushed, copied>>
  BY DEF OpenNewFile, Goto
<1>2. /\ fd' \in [Streams -> {"none", "open", "closed", "leaked"}] /\ fd'[s] = "open"
      /\ pc' \in [Streams -> PCs] /\ pc'[s] = "write"
      /\ \A u \in Streams : u # s => fd'[u] = fd[u] /\ pc'[u] = pc[u]
  BY <1>1 DEF IInv, Types, PCs
<1>3. suffix[s] \in Names /\ Flow(s) /\ fd[s] = "none"
  BY <1>1 DEF IInv, Types, Flow
<1>4. Types'
  BY <1>1, <1>2, <1>3 DEF IInv, Types
<1>5. OwnFile'
  BY <1>1, <1>2, <1>3 DEF IInv, OwnFile
<1>6. \A u \in Streams : u # s => SameStream(u)
  BY <1>1, <1>2 DEF SameStream, FileOf
<1>7. Flow(s)'
  BY <1>1, <1>2, <1>3 DEF Flow, Flushes
<1>8. FileOf(s)' = FileOf(s)
  BY <1>1, <1>2, <1>3 DEF FileOf, IInv, OwnFile
<1>9. Off(s)' = Off(s) /\ Status(s)' = Status(s)
  BY <1>1, <1>2, <1>3 DEF Off, Flushes, Status
<1> QED
  BY <1>1, <1>4, <1>5, <1>6, <1>7, <1>8, <1>9, QuietStep

LEMMA OpenNextNameStep ==
  ASSUME IInv, NEW s \in Streams, OpenNextName(s)
  PROVE  IInv' /\ Simulates
<1>1. /\ pc[s] = "openFile" /\ suffix[s] < MaxSuffix
      /\ suffix' = [suffix EXCEPT ![s] = @ + 1]
      /\ UNCHANGED <<created, files, fd, buf, in_use, line, amt_done, flushed, pc, copied>>
  BY DEF OpenNextName, dirVars
<1>2. suffix[s] \in Names /\ Flow(s) /\ fd[s] = "none"
  BY <1>1 DEF IInv, Types, Flow
<1>3. suffix[s] + 1 \in Names
  BY <1>1, <1>2, SuffixAssumption DEF Names
<1>4. /\ suffix' \in [Streams -> Names]
      /\ \A u \in Streams : u # s => suffix'[u] = suffix[u]
  BY <1>1, <1>3 DEF IInv, Types
<1>5. Types'
  BY <1>1, <1>4 DEF IInv, Types
<1>6. OwnFile'
  BY <1>1, <1>2, <1>4 DEF IInv, OwnFile
<1>7. \A u \in Streams : u # s => SameStream(u)
  BY <1>1, <1>4 DEF SameStream, FileOf
<1>8. Flow(s)'
  BY <1>1, <1>2 DEF Flow, Flushes
<1>9. FileOf(s)' = FileOf(s) /\ Off(s)' = Off(s) /\ Status(s)' = Status(s)
  BY <1>1, <1>2 DEF FileOf, Off, Flushes, Status
<1> QED
  BY <1>1, <1>5, <1>6, <1>7, <1>8, <1>9, QuietStep

(* The steps of writeb that only change the line and the place in it.       *)
LEMMA LineStep ==
  ASSUME IInv, NEW s \in Streams, NEW p \in PCs \ {"deleted"}, pc[s] # "deleted",
         pc' = [pc EXCEPT ![s] = p],
         line' \in [Streams -> Seq(Cell)], amt_done' \in [Streams -> Nat],
         flushed' \in [Streams -> Nat],
         \A u \in Streams : u # s =>
           line'[u] = line[u] /\ amt_done'[u] = amt_done[u] /\ flushed'[u] = flushed[u],
         UNCHANGED <<created, files, suffix, fd, buf, in_use, copied>>,
         Flow(s)', Off(s)' = Off(s)
  PROVE  IInv' /\ Simulates
<1>1. /\ pc' \in [Streams -> PCs] /\ pc'[s] = p
      /\ \A u \in Streams : u # s => pc'[u] = pc[u]
  BY DEF IInv, Types
<1>2. Types'
  BY <1>1 DEF IInv, Types
<1>3. OwnFile'
  BY DEF IInv, OwnFile
<1>4. \A u \in Streams : u # s => SameStream(u)
  BY <1>1 DEF SameStream, FileOf
<1>5. FileOf(s)' = FileOf(s) /\ Status(s)' = Status(s)
  BY <1>1 DEF FileOf, Status, PCs
<1> QED
  BY <1>2, <1>3, <1>4, <1>5, QuietStep

LEMMA OpenFailsStep ==
  ASSUME IInv, NEW s \in Streams, OpenFails(s)
  PROVE  IInv' /\ Simulates
<1>1. /\ pc[s] = "openFile" /\ pc' = [pc EXCEPT ![s] = "idle"]
      /\ line' = [line EXCEPT ![s] = <<>>]
      /\ UNCHANGED <<created, files, suffix, fd, buf, in_use, amt_done, flushed, copied>>
  BY DEF OpenFails, Goto, dirVars
<1>2. <<>> \in Seq(Cell) /\ Len(<<>>) = 0 /\ "idle" \in PCs \ {"deleted"}
  BY EmptySeq DEF PCs
<1>3. /\ line' \in [Streams -> Seq(Cell)] /\ line'[s] = <<>>
      /\ \A u \in Streams : u # s => line'[u] = line[u]
  BY <1>1, <1>2 DEF IInv, Types
<1>4. /\ amt_done \in [Streams -> Nat] /\ flushed \in [Streams -> Nat] /\ Flow(s)
      /\ pc'[s] = "idle"
  BY <1>1 DEF IInv, Types
<1>5. Flow(s)'
  BY <1>1, <1>2, <1>3, <1>4 DEF Flow, Flushes
<1>6. Off(s)' = Off(s)
  BY <1>1, <1>4 DEF Off, Flushes
<1> QED
  BY <1>1, <1>2, <1>3, <1>4, <1>5, <1>6, LineStep

LEMMA WriteLoopStep ==
  ASSUME IInv, NEW s \in Streams, WriteLoop(s)
  PROVE  IInv' /\ Simulates
<1> DEFINE p == IF Size(s) > Free(s) THEN "flush" ELSE "copy"
<1>1. /\ pc[s] = "write" /\ pc' = [pc EXCEPT ![s] = p] /\ amt_done[s] < Len(line[s])
      /\ flushed' = [flushed EXCEPT ![s] = 0]
      /\ UNCHANGED <<created, files, suffix, fd, buf, in_use, line, amt_done, copied>>
  BY DEF WriteLoop, Goto, dirVars, Size
<1>2. p \in PCs \ {"deleted"} /\ p \in {"flush", "copy"}
  BY DEF PCs
<1> HIDE DEF p
<1>3. /\ flushed' \in [Streams -> Nat] /\ flushed'[s] = 0
      /\ \A u \in Streams : u # s => flushed'[u] = flushed[u]
  BY <1>1 DEF IInv, Types
<1>4. /\ amt_done \in [Streams -> Nat] /\ line \in [Streams -> Seq(Cell)] /\ Flow(s)
      /\ pc'[s] = p /\ in_use[s] \in Nat
  BY <1>1, BufSizeAssumption DEF IInv, Types
<1>5. Flow(s)'
  BY <1>1, <1>2, <1>3, <1>4 DEF Flow, Flushes
<1>6. Off(s)' = Off(s)
  BY <1>1, <1>3 DEF Off, Flushes
<1> QED
  BY <1>1, <1>2, <1>3, <1>4, <1>5, <1>6, LineStep

LEMMA WriteReturnsStep ==
  ASSUME IInv, NEW s \in Streams, WriteReturns(s)
  PROVE  IInv' /\ Simulates
<1>1. /\ pc[s] = "write" /\ pc' = [pc EXCEPT ![s] = "idle"]
      /\ line' = [line EXCEPT ![s] = <<>>] /\ amt_done' = [amt_done EXCEPT ![s] = 0]
      /\ UNCHANGED <<created, files, suffix, fd, buf, in_use, flushed, copied>>
  BY DEF WriteReturns, Goto, dirVars
<1>2. <<>> \in Seq(Cell) /\ Len(<<>>) = 0 /\ "idle" \in PCs \ {"deleted"}
  BY EmptySeq DEF PCs
<1>3. /\ line' \in [Streams -> Seq(Cell)] /\ line'[s] = <<>>
      /\ amt_done' \in [Streams -> Nat] /\ amt_done'[s] = 0
      /\ \A u \in Streams : u # s => line'[u] = line[u] /\ amt_done'[u] = amt_done[u]
  BY <1>1, <1>2 DEF IInv, Types
<1>4. flushed \in [Streams -> Nat] /\ Flow(s) /\ pc'[s] = "idle"
  BY <1>1 DEF IInv, Types
<1>5. Flow(s)'
  BY <1>1, <1>2, <1>3, <1>4 DEF Flow, Flushes
<1>6. Off(s)' = Off(s)
  BY <1>1, <1>4 DEF Off, Flushes
<1> QED
  BY <1>1, <1>2, <1>3, <1>4, <1>5, <1>6, LineStep

LEMMA WriteRetriesStep ==
  ASSUME IInv, NEW s \in Streams, WriteRetries(s)
  PROVE  IInv' /\ Simulates
<1> DEFINE l == SubSeq(line[s], amt_done[s] + 1, Len(line[s]))
<1>1. /\ pc[s] = "copy" /\ pc' = [pc EXCEPT ![s] = "write"]
      /\ line' = [line EXCEPT ![s] = l] /\ amt_done' = [amt_done EXCEPT ![s] = 0]
      /\ UNCHANGED <<created, files, suffix, fd, buf, in_use, flushed, copied>>
  BY DEF WriteRetries, Goto, dirVars
<1>2. "write" \in PCs \ {"deleted"}
  BY DEF PCs
<1>3. line[s] \in Seq(Cell) /\ amt_done[s] \in Nat /\ Len(line[s]) \in Nat
  BY LenProperties DEF IInv, Types
<1>4. \A i \in (amt_done[s] + 1)..Len(line[s]) : line[s][i] \in Cell
  BY <1>3, ElementOfSeq
<1>5. l \in Seq(Cell) /\ Len(l) \in Nat
  BY <1>3, <1>4, SubSeqProperties, LenProperties
<1> HIDE DEF l
<1>6. /\ line' \in [Streams -> Seq(Cell)] /\ line'[s] = l
      /\ amt_done' \in [Streams -> Nat] /\ amt_done'[s] = 0
      /\ \A u \in Streams : u # s => line'[u] = line[u] /\ amt_done'[u] = amt_done[u]
  BY <1>1, <1>5 DEF IInv, Types
<1>7. flushed \in [Streams -> Nat] /\ Flow(s) /\ pc'[s] = "write"
  BY <1>1 DEF IInv, Types
<1>8. Flow(s)'
  BY <1>1, <1>5, <1>6, <1>7 DEF Flow, Flushes
<1>9. Off(s)' = Off(s)
  BY <1>1, <1>7 DEF Off, Flushes
<1> QED
  BY <1>1, <1>2, <1>6, <1>7, <1>8, <1>9, LineStep
-----------------------------------------------------------------------------
(* A stream ends, with all of its log in the file or abandoned.             *)
LEMMA EndSimulates ==
  ASSUME NEW s \in Streams, \A u \in Streams : u # s => SameLog(u),
         copied'[s] = copied[s], FileOf(s)' = FileOf(s), Status(s) = "open",
         \/ Status(s)' = "closed" /\ FileOf(s) = copied[s]
         \/ Status(s)' = "abandoned"
  PROVE  Simulates
<1>1. Log!Others(s)
  BY DEF Log!Others, SameLog
<1>2. CASE Status(s)' = "closed" /\ FileOf(s) = copied[s]
  <2>1. Log!Close(s)
    BY <1>1, <1>2 DEF Log!Close
  <2> QED
    BY <2>1 DEF Simulates, Log!Next
<1>3. CASE Status(s)' = "abandoned"
  <2>1. Log!Abandon(s)
    BY <1>1, <1>3 DEF Log!Abandon
  <2> QED
    BY <2>1 DEF Simulates, Log!Next
<1> QED
  BY <1>2, <1>3

(* With nothing left in the buffer, the file has all that was copied.       *)
LEMMA EmptyBuffer ==
  ASSUME IInv, NEW s \in Streams, in_use[s] = Off(s)
  PROVE  FileOf(s) = copied[s]
<1>1. FileOf(s) \in Seq(Cell) /\ copied[s] \in Seq(Cell)
  BY EmptySeq DEF IInv, Types, FileOf
<1>2. Len(FileOf(s)) \in Nat /\ in_use[s] \in Nat
  BY <1>1, LenProperties, BufSizeAssumption DEF IInv, Types
<1>3. Len(copied[s]) = Len(FileOf(s)) /\ \A i \in 1..Len(FileOf(s)) : FileOf(s)[i] = copied[s][i]
  BY <1>2 DEF IInv, Content
<1> QED
  BY <1>1, <1>3, SeqEqual

(* A step of s that changes only its descriptor, the fill of its buffer and *)
(* where it is.                                                             *)
LEMMA BufferStep ==
  ASSUME IInv, NEW s \in Streams, NEW p \in PCs, NEW f \in {"none", "open", "closed", "leaked"},
         NEW n \in 0..BufSize, fd[s] # "none" <=> f # "none",
         pc' = [pc EXCEPT ![s] = p], fd' = [fd EXCEPT ![s] = f],
         in_use' = [in_use EXCEPT ![s] = n],
         flushed' \in [Streams -> Nat], \A u \in Streams : u # s => flushed'[u] = flushed[u],
         UNCHANGED <<created, files, suffix, buf, line, amt_done, copied>>,
         Flow(s)',
         \/ n = in_use[s] /\ Off(s)' = Off(s)
         \/ in_use[s] = Off(s) /\ n = 0 /\ Off(s)' = 0
  PROVE  /\ IInv' /\ (Status(s)' = Status(s) => Simulates)
         /\ FileOf(s)' = FileOf(s) /\ \A u \in Streams : u # s => SameLog(u)
<1>1. /\ pc' \in [Streams -> PCs] /\ pc'[s] = p
      /\ fd' \in [Streams -> {"none", "open", "closed", "leaked"}] /\ fd'[s] = f
      /\ in_use' \in [Streams -> 0..BufSize] /\ in_use'[s] = n
      /\ \A u \in Streams : u # s => pc'[u] = pc[u] /\ fd'[u] = fd[u] /\ in_use'[u] = in_use[u]
  BY DEF IInv, Types
<1>2. Types'
  BY <1>1 DEF IInv, Types
<1>3. OwnFile'
  BY <1>1 DEF IInv, OwnFile
<1>4. \A u \in Streams : u # s => SameStream(u)
  BY <1>1 DEF SameStream, FileOf
<1>5. FileOf(s)' = FileOf(s)
  BY <1>1 DEF FileOf
<1> QED
  BY <1>1, <1>2, <1>3, <1>4, <1>5, QuietStep, SameStreamSameLog

LEMMA DeleteStep ==
  ASSUME IInv, NEW s \in Streams, Delete(s)
  PROVE  IInv' /\ Simulates
<1> DEFINE p == IF fd[s] = "open" THEN "close" ELSE "deleted"
<1>1. /\ pc[s] = "idle" /\ pc' = [pc EXCEPT ![s] = p] /\ flushed' = [flushed EXCEPT ![s] = 0]
      /\ UNCHANGED <<created, files, suffix, fd, buf, in_use, line, amt_done, copied>>
  BY DEF Delete, Goto, dirVars
<1>2. /\ flushed' \in [Streams -> Nat] /\ flushed'[s] = 0
      /\ \A u \in Streams : u # s => flushed'[u] = flushed[u]
      /\ pc'[s] = p /\ p \in PCs
  BY <1>1 DEF IInv, Types, PCs
<1>3. /\ fd' = [fd EXCEPT ![s] = fd[s]] /\ in_use' = [in_use EXCEPT ![s] = in_use[s]]
      /\ fd[s] \in {"none", "open"} /\ in_use[s] \in 0..BufSize /\ in_use[s] \in Nat /\ Flow(s)
  BY <1>1, BufSizeAssumption DEF IInv, Types, Flow
<1>4. Flow(s)'
  BY <1>1, <1>2, <1>3 DEF Flow, Flushes
<1>5. Off(s)' = Off(s) /\ Off(s) = 0
  BY <1>1, <1>2 DEF Off, Flushes
<1>6. /\ IInv' /\ (Status(s)' = Status(s) => Simulates)
      /\ FileOf(s)' = FileOf(s) /\ \A u \in Streams : u # s => SameLog(u)
  BY <1>1, <1>2, <1>3, <1>4, <1>5, BufferStep
<1>7. CASE fd[s] = "open"
  BY <1>1, <1>2, <1>6, <1>7 DEF Status
<1>8. CASE fd[s] = "none"
  <2>1. FileOf(s) = copied[s]
    BY <1>3, <1>5, <1>8, EmptyBuffer DEF Flow
  <2>2. Status(s) = "open" /\ Status(s)' = "closed"
    BY <1>1, <1>2, <1>8 DEF Status
  <2> QED
    BY <1>1, <1>6, <2>1, <2>2, EndSimulates
<1> QED
  BY <1>3, <1>6, <1>7, <1>8

LEMMA FlushDoneStep ==
  ASSUME IInv, NEW s \in Streams, FlushDone(s) \/ CloseFails(s)
  PROVE  IInv' /\ Simulates
<1>1. /\ pc[s] \in {"flush", "close"} /\ flushed[s] = in_use[s]
      /\ in_use' = [in_use EXCEPT ![s] = 0]
      /\ UNCHANGED <<created, files, suffix, buf, line, amt_done, flushed, copied>>
      /\ \E f \in {"open", "closed", "leaked"} :
           /\ fd' = [fd EXCEPT ![s] = f] /\ (f = "open" <=> pc[s] = "flush")
           /\ pc' = [pc EXCEPT ![s] = IF pc[s] = "close" THEN "deleted" ELSE "copy"]
  BY DEF FlushDone, CloseFails, Flushes, Goto, dirVars, IInv, Flow
<1>2. PICK f \in {"open", "closed", "leaked"} :
           /\ fd' = [fd EXCEPT ![s] = f] /\ (f = "open" <=> pc[s] = "flush")
           /\ pc' = [pc EXCEPT ![s] = IF pc[s] = "close" THEN "deleted" ELSE "copy"]
  BY <1>1
<1> DEFINE p == IF pc[s] = "close" THEN "deleted" ELSE "copy"
<1>3. /\ p \in PCs /\ 0 \in 0..BufSize /\ pc'[s] = p /\ fd'[s] = f /\ in_use'[s] = 0
      /\ flushed \in [Streams -> Nat] /\ Flow(s) /\ fd[s] = "open"
  BY <1>1, <1>2, BufSizeAssumption DEF IInv, Types, PCs, Flow
<1>4. Flow(s)'
  BY <1>1, <1>2, <1>3 DEF Flow, Flushes
<1>5. Off(s)' = 0 /\ in_use[s] = Off(s)
  BY <1>1, <1>3 DEF Off, Flushes
<1>6. /\ IInv' /\ (Status(s)' = Status(s) => Simulates)
      /\ FileOf(s)' = FileOf(s) /\ \A u \in Streams : u # s => SameLog(u)
  <2>1. p \in PCs /\ f \in {"none", "open", "closed", "leaked"}
    BY <1>3
  <2> HIDE DEF p
  <2>2. pc' = [pc EXCEPT ![s] = p]
    BY <1>2 DEF p
  <2>3. fd[s] # "none" <=> f # "none"
    BY <1>3
  <2> QED
    BY <1>1, <1>2, <1>3, <1>4, <1>5, <2>1, <2>2, <2>3, BufferStep
<1>7. CASE pc[s] = "flush"
  BY <1>2, <1>3, <1>6, <1>7 DEF Status
<1>8. CASE pc[s] = "close"
  <2>1. FileOf(s) = copied[s]
    BY <1>5, EmptyBuffer
  <2>2. Status(s) = "open" /\ Status(s)' \in {"closed", "abandoned"}
    BY <1>2, <1>3, <1>8 DEF Status
  <2> QED
    BY <1>1, <1>6, <2>1, <2>2, EndSimulates
<1> QED
  BY <1>1, <1>7, <1>8

(* A failure at the start of a flush leaves the buffer as it is.            *)
LEMMA FlushFailsStep ==
  ASSUME NoLateFailure, IInv, NEW s \in Streams, FlushFails(s)
  PROVE  IInv' /\ Simulates
<1> DEFINE p == IF pc[s] = "close" THEN "deleted" ELSE "copy"
           f == IF pc[s] = "close" THEN "leaked" ELSE fd[s]
<1>1. pc[s] \in {"flush", "close"} /\ flushed[s] = 0
  BY DEF FlushFails, Flushes, NoLateFailure
<1>2. /\ fd' = [fd EXCEPT ![s] = f] /\ pc' = [pc EXCEPT ![s] = p]
      /\ UNCHANGED <<created, files, suffix, buf, in_use, line, amt_done, flushed, copied>>
  BY <1>1 DEF FlushFails, Goto, dirVars
<1>3. /\ p \in PCs /\ f \in {"none", "open", "closed", "leaked"} /\ pc'[s] = p /\ fd'[s] = f
      /\ flushed \in [Streams -> Nat] /\ Flow(s) /\ fd[s] = "open"
      /\ in_use' = [in_use EXCEPT ![s] = in_use[s]] /\ in_use[s] \in 0..BufSize
  BY <1>1, <1>2 DEF IInv, Types, PCs, Flow
<1>4. Flow(s)'
  BY <1>1, <1>2, <1>3 DEF Flow, Flushes
<1>5. Off(s)' = Off(s)
  BY <1>1, <1>2, <1>3 DEF Off, Flushes
<1>6. /\ IInv' /\ (Status(s)' = Status(s) => Simulates)
      /\ FileOf(s)' = FileOf(s) /\ \A u \in Streams : u # s => SameLog(u)
  <2>1. fd[s] # "none" <=> f # "none"
    BY <1>3
  <2> HIDE DEF p, f
  <2> QED
    BY <1>2, <1>3, <1>4, <1>5, <2>1, BufferStep
<1>7. CASE pc[s] = "flush"
  BY <1>2, <1>3, <1>6, <1>7 DEF Status
<1>8. CASE pc[s] = "close"
  <2>1. Status(s) = "open" /\ Status(s)' = "abandoned"
    BY <1>3, <1>8 DEF Status
  <2> QED
    BY <1>2, <1>6, <2>1, EndSimulates
<1> QED
  BY <1>1, <1>7, <1>8
(* What is copied to the buffer is appended to the log.                     *)
LEMMA CopyStep ==
  ASSUME IInv, NEW s \in Streams, Copy(s)
  PROVE  IInv' /\ Simulates
<1> DEFINE rest == Size(s) - amt_done[s]
           amt == IF rest < Free(s) THEN rest ELSE Free(s)
           piece == SubSeq(line[s], amt_done[s] + 1, amt_done[s] + amt)
           new == [i \in 1..BufSize |->
                     IF i \in (in_use[s] + 1)..(in_use[s] + amt) THEN piece[i - in_use[s]]
                                                                ELSE buf[s][i]]
           c == copied[s]
           f == FileOf(s)
<1>1. /\ pc[s] = "copy" /\ Free(s) > 0 /\ pc' = [pc EXCEPT ![s] = "write"]
      /\ buf' = [buf EXCEPT ![s] = new]
      /\ in_use' = [in_use EXCEPT ![s] = @ + amt]
      /\ amt_done' = [amt_done EXCEPT ![s] = @ + amt]
      /\ copied' = [copied EXCEPT ![s] = @ \o piece]
      /\ UNCHANGED <<created, files, suffix, fd, line, flushed>>
  BY DEF Copy, Goto, dirVars
<1>2. /\ line[s] \in Seq(Cell) /\ Len(line[s]) \in Nat /\ amt_done[s] \in Nat
      /\ in_use[s] \in Nat /\ in_use[s] <= BufSize /\ BufSize \in Nat
      /\ amt_done[s] < Len(line[s]) /\ fd[s] = "open" /\ Flow(s) /\ Content(s)
      /\ buf[s] \in [1..BufSize -> Cell] /\ c \in Seq(Cell) /\ f \in Seq(Cell)
      /\ Len(c) \in Nat /\ Len(f) \in Nat
  <2>1. Flow(s) /\ Content(s)
    BY DEF IInv
  <2>2. fd[s] = "open" /\ amt_done[s] < Len(line[s])
    BY <1>1, <2>1 DEF Flow
  <2>3. f \in Seq(Cell) /\ c \in Seq(Cell) /\ line[s] \in Seq(Cell)
    BY <2>2 DEF IInv, Types, FileOf
  <2> QED
    BY <2>1, <2>2, <2>3, LenProperties, BufSizeAssumption DEF IInv, Types
<1>3. /\ amt \in Nat /\ amt > 0 /\ amt_done[s] + amt <= Len(line[s])
      /\ in_use[s] + amt <= BufSize
  BY <1>1, <1>2 DEF Size, Free
<1> HIDE DEF amt
<1>4. \A i \in (amt_done[s] + 1)..(amt_done[s] + amt) : line[s][i] \in Cell
  BY <1>2, <1>3, ElementOfSeq
<1>5. piece \in Seq(Cell) /\ Len(piece) = amt
  <2>1. /\ piece \in Seq(Cell)
        /\ Len(piece) = IF amt_done[s] + 1 <= amt_done[s] + amt
                          THEN amt_done[s] + amt - (amt_done[s] + 1) + 1 ELSE 0
    BY <1>2, <1>3, <1>4, SubSeqProperties
  <2> QED
    BY <1>2, <1>3, <2>1
<1> HIDE DEF piece
<1>6. \A i \in 1..Len(piece) : piece[i] \in Cell
  BY <1>5, ElementOfSeq
<1>7. new \in [1..BufSize -> Cell]
  BY <1>2, <1>3, <1>5, <1>6
<1>8. /\ c \o piece \in Seq(Cell) /\ Len(c \o piece) = Len(c) + Len(piece)
      /\ \A i \in 1..(Len(c) + Len(piece)) :
           (c \o piece)[i] = IF i <= Len(c) THEN c[i] ELSE piece[i - Len(c)]
  BY <1>2, <1>5, ConcatProperties, Zenon
<1>9. /\ Len(c) = Len(f) + in_use[s]
      /\ \A i \in 1..Len(f) : c[i] = f[i]
      /\ \A i \in 1..in_use[s] : c[Len(f) + i] = buf[s][i]
  <2>1. Off(s) = 0
    BY <1>1 DEF Off, Flushes
  <2> QED
    BY <1>2, <2>1 DEF Content
<1>10. \A i \in 1..BufSize :
         new[i] = IF in_use[s] < i /\ i <= in_use[s] + amt THEN piece[i - in_use[s]] ELSE buf[s][i]
  BY <1>2, <1>3
<1> DEFINE d == c \o piece
<1> HIDE DEF new, c, f, d
<1>11. /\ buf' \in [Streams -> [1..BufSize -> Cell]] /\ buf'[s] = new
       /\ in_use' \in [Streams -> 0..BufSize] /\ in_use'[s] = in_use[s] + amt
       /\ amt_done' \in [Streams -> Nat] /\ amt_done'[s] = amt_done[s] + amt
       /\ pc' \in [Streams -> PCs] /\ pc'[s] = "write"
       /\ \A u \in Streams : u # s => /\ buf'[u] = buf[u] /\ in_use'[u] = in_use[u]
                                     /\ amt_done'[u] = amt_done[u] /\ pc'[u] = pc[u]
  BY <1>1, <1>2, <1>3, <1>7 DEF IInv, Types, PCs
<1>12. /\ copied' \in [Streams -> Seq(Cell)] /\ copied'[s] = d
       /\ \A u \in Streams : u # s => copied'[u] = copied[u]
  BY <1>1, <1>8 DEF IInv, Types, c, d
<1>13. Types'
  BY <1>1, <1>11, <1>12 DEF IInv, Types
<1>14. OwnFile'
  BY <1>1 DEF IInv, OwnFile
<1>15. \A u \in Streams : u # s => SameStream(u)
  BY <1>1, <1>11, <1>12 DEF SameStream, FileOf
<1>16. FileOf(s)' = f /\ Off(s)' = 0
  BY <1>1, <1>11 DEF FileOf, f, Off, Flushes
<1>17. Flow(s)'
  BY <1>1, <1>2, <1>3, <1>11 DEF Flow, Flushes
<1>18. Content(s)'
  <2>1. Len(d) = Len(f) + (in_use[s] + amt)
    BY <1>2, <1>3, <1>5, <1>8, <1>9 DEF d
  <2>2. \A i \in 1..Len(f) : d[i] = f[i]
    BY <1>2, <1>3, <1>5, <1>8, <1>9 DEF d
  <2>3. ASSUME NEW i \in 1..(in_use[s] + amt) PROVE d[Len(f) + i] = new[i]
    <3>1. /\ Len(f) + i \in 1..(Len(c) + Len(piece)) /\ i \in 1..BufSize
          /\ (Len(f) + i <= Len(c) <=> i <= in_use[s])
          /\ Len(f) + i - Len(c) = i - in_use[s]
      BY <1>2, <1>3, <1>5, <1>9
    <3>2. d[Len(f) + i] = IF i <= in_use[s] THEN c[Len(f) + i] ELSE piece[i - in_use[s]]
      BY <1>8, <3>1 DEF d
    <3>3. new[i] = IF i <= in_use[s] THEN buf[s][i] ELSE piece[i - in_use[s]]
      BY <1>2, <1>3, <1>10, <3>1
    <3> QED
      BY <1>2, <1>9, <3>2, <3>3
  <2> QED
    <3> DEFINE k == in_use[s] + amt
    <3>1. k - 0 = k /\ k \in Nat /\ \A i \in 1..k : 0 + i = i
      BY <1>2, <1>3
    <3>2. in_use'[s] - Off(s)' = k /\ in_use'[s] = k
      BY <1>11, <1>16, <3>1
    <3>3. Len(copied'[s]) = Len(FileOf(s)') + in_use'[s] - Off(s)'
      BY <1>2, <1>12, <1>16, <2>1, <3>1, <3>2
    <3>4. \A i \in 1..(in_use'[s] - Off(s)') :
            copied'[s][Len(FileOf(s)') + i] = buf'[s][Off(s)' + i]
      BY <1>11, <1>12, <1>16, <2>3, <3>1, <3>2
    <3>5. \A i \in 1..Len(FileOf(s)') : copied'[s][i] = FileOf(s)'[i]
      BY <1>12, <1>16, <2>2
    <3> QED
      BY <3>3, <3>4, <3>5 DEF Content
<1>19. IInv'
  BY <1>13, <1>14, <1>15, <1>17, <1>18, SameKeeps DEF IInv
<1>20. Log!IsStrictPrefix(copied[s], copied'[s])
  <2>1. /\ c \in Seq(Cell) /\ d \in Seq(Cell) /\ Len(c) <= Len(d) /\ Len(c) # Len(d)
        /\ \A i \in 1..Len(c) : c[i] = d[i]
    BY <1>2, <1>3, <1>5, <1>8 DEF d
  <2>2. Log!IsPrefix(c, d) /\ c # d
    BY <2>1, PrefixByElements
  <2> QED
    BY <1>12, <2>2 DEF Log!IsStrictPrefix, Log!IsPrefix, c
<1>21. Log!Others(s)
  BY <1>15, SameStreamSameLog DEF Log!Others, SameLog
<1>22. FileOf(s)' = FileOf(s) /\ Status(s) = "open" /\ Status(s)' = "open"
  BY <1>1, <1>2, <1>11, <1>16 DEF Status, f
<1>23. Log!AppendBytes(s)
  BY <1>20, <1>21, <1>22 DEF Log!AppendBytes
<1> QED
  BY <1>19, <1>23 DEF Simulates, Log!Next

(* What write() takes comes next in the log and goes to the stream's file.  *)
LEMMA FlushWriteStep ==
  ASSUME IInv, NEW s \in Streams, NEW n \in 1..BufSize, FlushWrite(s, n)
  PROVE  IInv' /\ Simulates
<1> DEFINE piece == [i \in 1..n |-> buf[s][flushed[s] + i]]
           c == copied[s]
           f == FileOf(s)
           g == f \o piece
           x == suffix[s]
<1>1. /\ pc[s] \in {"flush", "close"} /\ flushed[s] + n <= in_use[s]
      /\ files' = [files EXCEPT ![x] = @ \o piece]
      /\ flushed' = [flushed EXCEPT ![s] = @ + n]
      /\ UNCHANGED <<created, suffix, fd, buf, in_use, line, amt_done, pc, copied>>
  BY DEF FlushWrite, Flushes
<1>2. fd[s] = "open" /\ x \in Names /\ x \in created /\ Flow(s) /\ Content(s)
  BY <1>1 DEF IInv, Flow, Types, OwnFile
<1>3. f = files[x] /\ f \in Seq(Cell) /\ c \in Seq(Cell)
  BY <1>2 DEF FileOf, IInv, Types
<1>4. /\ Len(c) \in Nat /\ Len(f) \in Nat /\ in_use[s] \in Nat /\ in_use[s] <= BufSize
      /\ flushed[s] \in Nat /\ BufSize \in Nat /\ n \in Nat /\ n > 0
      /\ buf[s] \in [1..BufSize -> Cell]
  BY <1>3, LenProperties, BufSizeAssumption DEF IInv, Types
<1>5. piece \in Seq(Cell) /\ Len(piece) = n /\ \A i \in 1..n : piece[i] = buf[s][flushed[s] + i]
  <2>1. \A i \in 1..n : flushed[s] + i \in 1..BufSize
    BY <1>1, <1>4
  <2>2. piece \in [1..n -> Cell]
    BY <1>4, <2>1
  <2>3. piece \in Seq(Cell)
    BY <1>4, <2>2, SeqDef
  <2>4. Len(piece) = n
    BY <1>4, <2>2, <2>3, LenProperties
  <2> QED
    BY <2>3, <2>4
<1> HIDE DEF piece
<1>6. /\ g \in Seq(Cell) /\ Len(g) = Len(f) + Len(piece)
      /\ \A i \in 1..(Len(f) + Len(piece)) :
           g[i] = IF i <= Len(f) THEN f[i] ELSE piece[i - Len(f)]
  BY <1>3, <1>5, ConcatProperties, Zenon
<1>7. /\ Len(c) = Len(f) + in_use[s] - flushed[s]
      /\ \A i \in 1..Len(f) : c[i] = f[i]
      /\ \A i \in 1..(in_use[s] - flushed[s]) : c[Len(f) + i] = buf[s][flushed[s] + i]
  <2>1. Off(s) = flushed[s]
    BY <1>1 DEF Off, Flushes
  <2> QED
    BY <1>2, <2>1 DEF Content
<1>8. /\ files' \in [Names -> Seq(Cell)] /\ files'[x] = g
      /\ \A m \in Names : m # x => files'[m] = files[m]
  <2>1. files \in [Names -> Seq(Cell)]
    BY DEF IInv, Types
  <2>2. files' = [files EXCEPT ![x] = g]
    BY <1>1, <1>3
  <2> HIDE DEF x, g
  <2> QED
    BY <1>2, <1>6, <2>1, <2>2
<1> HIDE DEF g, c, f, x
<1>9. /\ flushed' \in [Streams -> Nat] /\ flushed'[s] = flushed[s] + n
      /\ \A u \in Streams : u # s => flushed'[u] = flushed[u]
  BY <1>1, <1>4 DEF IInv, Types
<1>10. Types'
  BY <1>1, <1>8, <1>9 DEF IInv, Types
<1>11. OwnFile'
  BY <1>1, <1>2, <1>8 DEF IInv, OwnFile
<1>12. \A u \in Streams : u # s => FileOf(u)' = FileOf(u)
  <2>1. \A u \in Streams : u # s /\ fd[u] # "none" => suffix[u] # x /\ suffix[u] \in Names
    BY <1>2 DEF IInv, OwnFile, Types, x
  <2> QED
    BY <1>1, <1>8, <2>1 DEF FileOf
<1>13. \A u \in Streams : u # s => SameStream(u)
  BY <1>1, <1>9, <1>12 DEF SameStream
<1>14. FileOf(s)' = g /\ Off(s)' = flushed[s] + n
  BY <1>1, <1>2, <1>8, <1>9 DEF FileOf, Off, Flushes, x
<1>15. Flow(s)'
  BY <1>1, <1>2, <1>9 DEF Flow, Flushes
<1>16. \A i \in 1..Len(g) : c[i] = g[i]
  <2> SUFFICES ASSUME NEW i \in 1..Len(g) PROVE c[i] = g[i]
    OBVIOUS
  <2>1. CASE i <= Len(f)
    <3>1. i \in 1..Len(f) /\ i \in 1..(Len(f) + Len(piece))
      BY <1>4, <1>5, <1>6, <2>1
    <3> QED
      BY <1>6, <1>7, <2>1, <3>1
  <2>2. CASE i > Len(f)
    <3>1. i - Len(f) \in 1..n /\ i - Len(f) \in 1..(in_use[s] - flushed[s]) /\ i \in Int
      BY <1>1, <1>4, <1>5, <1>6, <2>2
    <3>2. c[Len(f) + (i - Len(f))] = buf[s][flushed[s] + (i - Len(f))]
      BY <1>7, <3>1
    <3>3. g[i] = piece[i - Len(f)] /\ Len(f) + (i - Len(f)) = i
      <4>1. Len(f) \in Nat /\ i \in Int /\ ~(i <= Len(f))
        BY <1>4, <2>2, <3>1
      <4>2. i \in 1..(Len(f) + Len(piece))
        BY <1>6
      <4>3. g[i] = piece[i - Len(f)]
        BY <1>6, <4>1, <4>2
      <4>4. Len(f) + (i - Len(f)) = i
        BY <4>1
      <4> QED
        BY <4>3, <4>4
    <3> QED
      BY <1>5, <3>1, <3>2, <3>3
  <2> QED
    BY <1>4, <2>1, <2>2
<1>17. Len(g) = Len(f) + n /\ Len(g) <= Len(c) /\ Len(c) = Len(g) + in_use[s] - (flushed[s] + n)
  BY <1>1, <1>4, <1>5, <1>6, <1>7
<1>18. Content(s)'
  <2>1. ASSUME NEW i \in 1..(in_use[s] - (flushed[s] + n))
        PROVE  c[Len(g) + i] = buf[s][(flushed[s] + n) + i]
    <3>1. /\ n + i \in 1..(in_use[s] - flushed[s])
          /\ Len(g) + i = Len(f) + (n + i) /\ (flushed[s] + n) + i = flushed[s] + (n + i)
      BY <1>4, <1>17
    <3>2. c[Len(f) + (n + i)] = buf[s][flushed[s] + (n + i)]
      BY <1>7, <3>1
    <3> QED
      BY <3>1, <3>2
  <2> QED
    BY <1>1, <1>14, <1>16, <1>17, <2>1 DEF Content, c
<1>19. IInv'
  BY <1>10, <1>11, <1>13, <1>15, <1>18, SameKeeps DEF IInv
<1>20. Log!IsStrictPrefix(f, g)
  <2>1. Len(f) <= Len(g) /\ Len(f) # Len(g) /\ \A i \in 1..Len(f) : f[i] = g[i]
    BY <1>4, <1>5, <1>6, <1>17
  <2> QED
    BY <1>3, <1>6, <2>1, PrefixByElements DEF Log!IsStrictPrefix, g
<1>21. Log!IsPrefix(g, c)
  BY <1>3, <1>6, <1>16, <1>17, PrefixByElements DEF g
<1>22. Log!Others(s)
  BY <1>13, SameStreamSameLog DEF Log!Others, SameLog
<1>23. Status(s) = "open" /\ Status(s)' = "open"
  BY <1>1, <1>2 DEF Status
<1>24. Log!Persist(s)
  BY <1>1, <1>14, <1>20, <1>21, <1>22, <1>23 DEF Log!Persist, f, c
<1> QED
  BY <1>19, <1>24 DEF Simulates, Log!Next
(* Every step keeps the invariant and is a step of AppendLog or none.       *)
LEMMA NextStep ==
  ASSUME NoLateFailure, IInv, [Next]_vars
  PROVE  IInv' /\ Simulates
<1>1. CASE UNCHANGED vars
  <2>1. UNCHANGED <<created, files, suffix, fd, buf, in_use, line, amt_done, flushed, pc, copied>>
    BY <1>1 DEF vars, dirVars, streamVars
  <2>2. \A u \in Streams : SameStream(u)
    BY <2>1 DEF SameStream, FileOf
  <2>3. Types' /\ OwnFile'
    BY <2>1 DEF IInv, Types, OwnFile
  <2>4. \A u \in Streams : Flow(u)' /\ Content(u)'
    BY <2>2, SameKeeps DEF IInv
  <2> QED
    BY <2>2, <2>3, <2>4, SameStreamSameLog, Stutters DEF IInv
<1>2. ASSUME NEW s \in Streams, CallStep(s) PROVE IInv' /\ Simulates
  BY <1>2, OpenNewFileStep, OpenNextNameStep, OpenFailsStep, WriteLoopStep, WriteReturnsStep,
     WriteRetriesStep, CopyStep, FlushDoneStep, FlushFailsStep, FlushWriteStep
     DEF CallStep, Flush
<1> QED
  BY <1>1, <1>2, DeleteStep, WriteStep DEF Next

-----------------------------------------------------------------------------
(* The invariant, for all streams and sizes.                                *)
THEOREM InductiveInvariant == NoLateFailure => (Spec => []IInv)
<1> SUFFICES ASSUME NoLateFailure PROVE Spec => []IInv
  OBVIOUS
<1>1. Init => IInv
  BY InitHolds
<1>2. IInv /\ [Next]_vars => IInv'
  BY NextStep
<1> QED
  BY <1>1, <1>2, PTL DEF Spec

(* OUTPUT implements AppendLog unless write() fails in the middle of a      *)
(* flush: whatever the short writes, the failures at the start of a flush,  *)
(* the retries of writeb and the other streams with the same file name.     *)
THEOREM ImplementsLogAlways == NoLateFailure => (Spec => ImplementsLog)
<1> SUFFICES ASSUME NoLateFailure PROVE Spec => ImplementsLog
  OBVIOUS
<1>1. Init => Log!Init
  BY InitHolds
<1>2. IInv /\ [Next]_vars => [Log!Next]_(Log!logVars)
  BY NextStep DEF Simulates
<1>3. Spec => []IInv
  BY InductiveInvariant
<1> QED
  BY <1>1, <1>2, <1>3, PTL DEF Spec, ImplementsLog, Log!Spec

(* The file holds a prefix of what was handed to the stream; the run        *)
(* output_file_eintr shows that a failure in the middle of a flush, EINTR   *)
(* among them, breaks this.                                                 *)
THEOREM FileIntactAlways == NoLateFailure => (Spec => []FileIntact)
<1> SUFFICES ASSUME NoLateFailure PROVE Spec => []FileIntact
  OBVIOUS
<1>1. IInv => FileIntact
  <2> SUFFICES ASSUME IInv, NEW s \in Streams PROVE IsPrefix(FileOf(s), copied[s])
    BY DEF FileIntact
  <2>1. FileOf(s) \in Seq(Cell) /\ copied[s] \in Seq(Cell)
    BY EmptySeq DEF IInv, Types, FileOf
  <2>2. /\ Len(FileOf(s)) \in Nat /\ in_use[s] \in Nat /\ flushed[s] \in Nat
        /\ Flow(s) /\ Content(s)
    BY <2>1, LenProperties, BufSizeAssumption DEF IInv, Types
  <2>3. Off(s) \in Nat /\ Off(s) <= in_use[s]
    BY <2>2 DEF Off, Flow
  <2>4. Len(FileOf(s)) <= Len(copied[s])
    BY <2>2, <2>3 DEF Content
  <2> QED
    BY <2>1, <2>2, <2>4, PrefixByElements DEF Content
<1>2. Spec => []IInv
  BY InductiveInvariant
<1> QED
  BY <1>1, <1>2, PTL
=============================================================================
