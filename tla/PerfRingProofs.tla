---------------------------- MODULE PerfRingProofs ----------------------------
(***************************************************************************)
(* Proofs about PerfRing for every number of CPUs, every buffer size and   *)
(* every bound on the words written: what a handler run makes of the       *)
(* mapped buffer.                                                          *)
(*                                                                         *)
(* The inductive invariant says where every record of the history lies in  *)
(* the buffer, word for word (Layout, Stored), that the words from the     *)
(* oldest record on are not overwritten (Room), and at which of those      *)
(* places the handler can stand (Place). Arithmetic modulo the size of the *)
(* buffer is confined to the lemmas about Put and ReadWords.               *)
(***************************************************************************)
EXTENDS PerfRing, SequenceTheorems, TLAPS

(* The records of the mapped buffer, and the word at a head position.       *)
Records == queued[MappedCpu]
HeadPos == data_head[MappedCpu]
TailPos == data_tail[MappedCpu]
Word(p) == data[MappedCpu][p % Size]

Entry == [type : {"sample", "lost", "throttle"}, n : Nat, at : Nat]

(* What the kernel writes for an entry of the history.                      *)
RecordWords(r) ==
  IF r.type = "sample" THEN SampleRecord(MappedCpu, r.n)
  ELSE IF r.type = "lost" THEN LostRecord ELSE ThrottleRecord

Width(r) == IF r.type = "sample" THEN 12 ELSE IF r.type = "lost" THEN 6 ELSE 8

(* Where record i starts; the position after the last one is the head.      *)
Pos(i) == IF i \in DOMAIN Records THEN Records[i].at ELSE HeadPos

Types ==
  /\ TypeOK
  /\ queued \in [Cpus -> Seq(Entry)]

Layout ==
  \A i \in DOMAIN Records :
    /\ Pos(1) <= Pos(i)
    /\ Pos(i) + Width(Records[i]) = Pos(i + 1)
    /\ Pos(i + 1) <= HeadPos

Stored ==
  \A i \in DOMAIN Records : \A j \in 1..Width(Records[i]) :
    Word(Pos(i) + j - 1) = RecordWords(Records[i])[j]

Room ==
  /\ Pos(1) <= TailPos
  /\ HeadPos - Pos(1) < Size

(* No sample before record i.                                               *)
Unsampled(i) == \A j \in 1..(i - 1) : ~IsSample(Records[j])

Outcome ==
  \/ /\ \A j \in DOMAIN Records : ~IsSample(Records[j])
     /\ user_sample = <<>>
  \/ \E k \in DOMAIN Records : Oldest(k) /\ user_sample = <<Intact(Records[k])>>

(* In front of a record, no sample met so far.                              *)
AtRecord ==
  /\ user_sample = <<>>
  /\ \E k \in 1..(Len(Records) + 1) : Unsampled(k) /\ TailPos = Pos(k)

(* In the unread end of the oldest sample.                                  *)
InSample ==
  \E k \in DOMAIN Records :
    /\ Oldest(k)
    /\ user_sample = <<Intact(Records[k])>>
    /\ TailPos = Pos(k) + HeaderWords + SampleWords

(* Behind everything.                                                       *)
AtHead == TailPos = HeadPos /\ Outcome

(* Behind the header of the oldest sample.                                  *)
AfterHeader ==
  /\ user_sample = <<>>
  /\ \E k \in DOMAIN Records : Oldest(k) /\ TailPos = Pos(k) + HeaderWords

Place ==
  /\ pc = "idle" => TailPos = Pos(1)
  /\ pc = "loop" => AtRecord \/ InSample \/ AtHead
  /\ pc = "sample" => AfterHeader
  /\ pc = "finished" => AtHead

(* The inductive invariant.                                                 *)
IInv == Types /\ Layout /\ Stored /\ Room /\ Place

-----------------------------------------------------------------------------
(* Arithmetic modulo the size of the buffer.                                *)

LEMMA ModUnique ==
  ASSUME NEW s \in Nat \ {0}, NEW q \in Int, NEW r \in 0..(s - 1), NEW a \in Int,
         a = q * s + r
  PROVE  a % s = r
OBVIOUS

LEMMA ModSplit ==
  ASSUME NEW s \in Nat \ {0}, NEW a \in Int
  PROVE  \E q \in Int : a % s \in 0..(s - 1) /\ a = q * s + (a % s)
<1> DEFINE d == a \div s
           r == a % s
<1>1. d \in Int /\ r \in 0..(s - 1)
  OBVIOUS
<1>2. a = s * (a \div s) + (a % s)
  BY Z3
<1>3. a = d * s + r
  BY <1>1, <1>2
<1>. QED
  BY <1>1, <1>3

(* The index of position p counted from position h on.                      *)
LEMMA ModDistance ==
  ASSUME NEW s \in Nat \ {0}, NEW p \in Int, NEW h \in Int
  PROVE  /\ p - h \in 0..(s - 1) => ((p % s) - h) % s = p - h
         /\ h - p \in 1..s => ((p % s) - h) % s = s - (h - p)
<1>1. PICK q \in Int : p % s \in 0..(s - 1) /\ p = q * s + (p % s)
  BY ModSplit
<1> DEFINE i == p % s
<1>2. i \in Int /\ i = p - q * s
  BY <1>1
<1> HIDE DEF i
<1>3. ASSUME p - h \in 0..(s - 1)
      PROVE  (i - h) % s = p - h
  <2>1. i - h = (-q) * s + (p - h)
    BY <1>2
  <2>. QED
    BY <1>2, <1>3, <2>1, ModUnique
<1>4. ASSUME h - p \in 1..s
      PROVE  (i - h) % s = s - (h - p)
  <2> DEFINE a == i - h
             m == -q - 1
             d == s - (h - p)
  <2>1. a = m * s + d
    BY <1>2
  <2>2. d \in 0..(s - 1) /\ a \in Int /\ m \in Int
    BY <1>2, <1>4
  <2> HIDE DEF a, m, d
  <2>3. a % s = d
    BY <2>1, <2>2, ModUnique
  <2>. QED
    BY <2>3 DEF a, d
<1>. QED
  BY <1>3, <1>4 DEF i

(* The index of the word i words after position t.                          *)
LEMMA ModOffset ==
  ASSUME NEW s \in Nat \ {0}, NEW t \in Nat, NEW i \in 0..(s - 1)
  PROVE  /\ t % s \in 0..(s - 1)
         /\ (t % s) + i < s => (t + i) % s = (t % s) + i
         /\ (t % s) + i >= s => (t + i) % s = (t % s) + i - s
<1>1. PICK q \in Int : t % s \in 0..(s - 1) /\ t = q * s + (t % s)
  <2>1. t \in Int
    OBVIOUS
  <2>. QED
    BY <2>1, ModSplit
<1> DEFINE r == t % s
<1>2. r \in 0..(s - 1) /\ t = q * s + r
  BY <1>1
<1> HIDE DEF r
<1>3. ASSUME r + i < s
      PROVE  (t + i) % s = r + i
  <2> DEFINE a == t + i
             d == r + i
  <2>1. a = q * s + d /\ d \in 0..(s - 1) /\ a \in Int
    BY <1>2, <1>3
  <2> HIDE DEF a, d
  <2>2. a % s = d
    BY <2>1, ModUnique
  <2>. QED
    BY <2>2 DEF a, d
<1>4. ASSUME r + i >= s
      PROVE  (t + i) % s = r + i - s
  <2> DEFINE a == t + i
             d == r + i - s
             m == q + 1
  <2>1. a = m * s + d
    BY <1>2
  <2>2. d \in 0..(s - 1) /\ a \in Int /\ m \in Int
    BY <1>2, <1>4
  <2> HIDE DEF a, d, m
  <2>3. a % s = d
    BY <2>1, <2>2, ModUnique
  <2>. QED
    BY <2>3 DEF a, d
<1>. QED
  BY <1>2, <1>3, <1>4 DEF r

-----------------------------------------------------------------------------
(* Words and records.                                                       *)

LEMMA MappedCpuType == MappedCpu \in Cpus
BY NumCpusAssumption DEF MappedCpu, Cpus

(* perf_read_buffer_nbytes returns the words from the tail on, wherever     *)
(* they wrap.                                                               *)
LEMMA ReadWordsAre ==
  ASSUME Types, NEW n \in 1..Size, NEW i \in 1..n
  PROVE  ReadWords(n)[i] = Word(TailPos + i - 1)
<1> DEFINE r == TailPos % Size
           j == i - 1
<1>1. TailPos \in Nat /\ Size \in Nat \ {0}
  BY MappedCpuType, SizeAssumption, MaxHeadAssumption DEF Types, TypeOK, TailPos
<1>2. j \in 0..(Size - 1) /\ TailPos + i - 1 = TailPos + j
  BY <1>1
<1> HIDE DEF j
<1>3. /\ r \in 0..(Size - 1)
      /\ r + j < Size => (TailPos + j) % Size = r + j
      /\ r + j >= Size => (TailPos + j) % Size = r + j - Size
  BY <1>1, <1>2, ModOffset
<1> HIDE DEF r
<1>4. ReadWords(n)[i] =
        LET right == IF Size - r < n THEN Size - r ELSE n
        IN  IF i <= right THEN data[MappedCpu][r + i - 1]
                          ELSE data[MappedCpu][i - right - 1]
  BY DEF ReadWords, r, TailPos
<1>5. CASE r + j < Size
  BY <1>1, <1>2, <1>3, <1>4, <1>5 DEF Word, j
<1>6. CASE r + j >= Size
  BY <1>1, <1>2, <1>3, <1>4, <1>6 DEF Word, j
<1>. QED
  BY <1>1, <1>2, <1>3, <1>5, <1>6

LEMMA RecordWordsType ==
  ASSUME NEW r \in Entry
  PROVE  /\ Width(r) \in {6, 8, 12} /\ Len(RecordWords(r)) = Width(r)
         /\ RecordWords(r) \in Seq(Int)
         /\ RecordWords(r)[2] = Width(r)
         /\ RecordWords(r)[1] = PERF_RECORD_SAMPLE <=> IsSample(r)
<1>1. MappedCpu \in Int /\ r.n \in Int
  BY MappedCpuType, NumCpusAssumption DEF Cpus, Entry
<1>2. CASE r.type = "sample"
  <2>1. RecordWords(r) = <<9, 12, r.n, r.n, 7, 7, r.n, r.n, MappedCpu, 0, 0, 0>>
    BY <1>2 DEF RecordWords, SampleRecord, PERF_RECORD_SAMPLE
  <2>. QED
    BY <1>1, <1>2, <2>1 DEF Width, IsSample, PERF_RECORD_SAMPLE
<1>3. CASE r.type = "lost"
  BY <1>3 DEF RecordWords, Width, IsSample, LostRecord, PERF_RECORD_SAMPLE, PERF_RECORD_LOST
<1>4. CASE r.type = "throttle"
  BY <1>4 DEF RecordWords, Width, IsSample, ThrottleRecord, PERF_RECORD_SAMPLE,
              PERF_RECORD_THROTTLE
<1>. QED
  BY <1>2, <1>3, <1>4 DEF Entry

LEMMA ConcatWords ==
  ASSUME NEW T, NEW a \in Seq(T), NEW b \in Seq(T)
  PROVE  /\ a \o b \in Seq(T) /\ Len(a \o b) = Len(a) + Len(b)
         /\ \A j \in 1..Len(a) : (a \o b)[j] = a[j]
         /\ \A j \in 1..Len(b) : (a \o b)[Len(a) + j] = b[j]
<1> DEFINE c == a \o b
<1>1. /\ c \in Seq(T) /\ Len(c) = Len(a) + Len(b)
      /\ \A j \in 1..(Len(a) + Len(b)) :
           c[j] = IF j <= Len(a) THEN a[j] ELSE b[j - Len(a)]
  BY ConcatProperties, Zenon
<1>2. Len(a) \in Nat /\ Len(b) \in Nat
  BY LenProperties
<1> HIDE DEF c
<1>3. ASSUME NEW j \in 1..Len(a)
      PROVE  c[j] = a[j]
  BY <1>1, <1>2
<1>4. ASSUME NEW j \in 1..Len(b)
      PROVE  c[Len(a) + j] = b[j]
  BY <1>1, <1>2
<1>. QED
  BY <1>1, <1>3, <1>4 DEF c

(* What Put writes, and what it leaves alone.                               *)
LEMMA PutWords ==
  ASSUME Types, NEW words \in Seq(Int), Put(MappedCpu, words), NEW p \in Int
  PROVE  /\ p - HeadPos \in 0..(Len(words) - 1) /\ Len(words) < Size
              => data'[MappedCpu][p % Size] = words[p - HeadPos + 1]
         /\ HeadPos - p \in 1..(Size - Len(words))
              => data'[MappedCpu][p % Size] = data[MappedCpu][p % Size]
<1> DEFINE i == p % Size
           k == (i - HeadPos) % Size
<1>1. HeadPos \in Nat /\ Size \in Nat \ {0} /\ Len(words) \in Nat
  BY MappedCpuType, SizeAssumption, MaxHeadAssumption DEF Types, TypeOK, HeadPos
<1>2. i \in 0..(Size - 1)
  BY <1>1
<1>3. data'[MappedCpu][i] = IF k < Len(words) THEN words[k + 1] ELSE data[MappedCpu][i]
  BY <1>2, MappedCpuType DEF Put, Types, TypeOK, HeadPos
<1>4. /\ p - HeadPos \in 0..(Size - 1) => k = p - HeadPos
      /\ HeadPos - p \in 1..Size => k = Size - (HeadPos - p)
  <2>1. HeadPos \in Int
    BY <1>1
  <2>. QED
    BY <1>1, <2>1, ModDistance, Zenon
<1> HIDE DEF i, k
<1>5. ASSUME p - HeadPos \in 0..(Len(words) - 1), Len(words) < Size
      PROVE  data'[MappedCpu][i] = words[p - HeadPos + 1]
  BY <1>1, <1>3, <1>4, <1>5
<1>6. ASSUME HeadPos - p \in 1..(Size - Len(words))
      PROVE  data'[MappedCpu][i] = data[MappedCpu][i]
  BY <1>1, <1>3, <1>4, <1>6
<1>. QED
  BY <1>5, <1>6 DEF i

(* The entries the kernel adds describe, in order and without gaps, the     *)
(* words it writes.                                                         *)
Describes(entries, words, h) ==
  /\ entries \in Seq(Entry) /\ words \in Seq(Int)
  /\ Len(entries) \in {1, 2}
  /\ entries[1].at = h
  /\ Len(entries) = 2 => entries[2].at = h + Width(entries[1])
  /\ entries[Len(entries)].at + Width(entries[Len(entries)]) = h + Len(words)
  /\ \A i \in 1..Len(entries) : \A j \in 1..Width(entries[i]) :
       words[entries[i].at - h + j] = RecordWords(entries[i])[j]

LEMMA EntriesDescribe ==
  ASSUME Types, NEW type \in {"sample", "throttle"}, NEW n \in Nat, NEW record,
         record = IF type = "sample" THEN SampleRecord(MappedCpu, n) ELSE ThrottleRecord
  PROVE  Describes(Entries(MappedCpu, type, n), Output(MappedCpu, record), HeadPos)
<1> DEFINE h == HeadPos
           lost == [type |-> "lost", n |-> 0, at |-> h]
           second == [type |-> type, n |-> n, at |-> h + 6]
           only == [type |-> type, n |-> n, at |-> h]
<1>1. h \in Nat
  BY MappedCpuType, MaxHeadAssumption DEF Types, TypeOK, HeadPos
<1>2. lost \in Entry /\ second \in Entry /\ only \in Entry
  BY <1>1 DEF Entry
<1>3. /\ record = RecordWords(second) /\ record = RecordWords(only)
      /\ LostRecord = RecordWords(lost)
  BY DEF RecordWords
<1>4. /\ record \in Seq(Int) /\ Len(record) = Width(only)
      /\ Width(second) = Width(only) /\ Width(only) \in {8, 12}
      /\ LostRecord \in Seq(Int) /\ Len(LostRecord) = 6 /\ Width(lost) = 6
  BY <1>2, <1>3, RecordWordsType DEF Width
<1> HIDE DEF lost, second, only
<1>5. CASE dropped[MappedCpu]
  <2> DEFINE e == <<lost, second>>
             w == LostRecord \o record
  <2>1. Entries(MappedCpu, type, n) = e
    BY <1>4, <1>5 DEF Entries, lost, second, HeadPos
  <2>2. Output(MappedCpu, record) = w
    BY <1>5 DEF Output
  <2>3. /\ w \in Seq(Int) /\ Len(w) = 6 + Width(only)
        /\ \A j \in 1..6 : w[j] = LostRecord[j]
        /\ \A j \in 1..Width(only) : w[6 + j] = record[j]
    <3>1. /\ w \in Seq(Int) /\ Len(w) = Len(LostRecord) + Len(record)
          /\ \A j \in 1..Len(LostRecord) : w[j] = LostRecord[j]
          /\ \A j \in 1..Len(record) : w[Len(LostRecord) + j] = record[j]
      <4>1. LostRecord \in Seq(Int) /\ record \in Seq(Int)
        BY <1>4
      <4>. QED
        BY <4>1, ConcatWords
    <3> HIDE DEF w
    <3>. QED
      BY <1>4, <3>1
  <2>4. /\ e \in Seq(Entry) /\ Len(e) = 2 /\ e[1] = lost /\ e[2] = second
    BY <1>2
  <2>5. lost.at = h /\ second.at = h + 6
    BY DEF lost, second
  <2> HIDE DEF e, w
  <2>6. ASSUME NEW i \in 1..Len(e), NEW j \in 1..Width(e[i])
        PROVE  w[e[i].at - h + j] = RecordWords(e[i])[j]
    <3>1. CASE i = 1
      <4>1. e[i].at - h + j = j /\ j \in 1..6
        BY <1>1, <1>4, <2>4, <2>5, <3>1
      <4>. QED
        BY <1>3, <2>3, <2>4, <3>1, <4>1
    <3>2. CASE i = 2
      <4>1. e[i].at - h + j = 6 + j /\ j \in 1..Width(only)
        BY <1>1, <1>4, <2>4, <2>5, <3>2
      <4>. QED
        BY <1>3, <2>3, <2>4, <3>2, <4>1
    <3>. QED
      BY <2>4, <3>1, <3>2
  <2>7. /\ e[2].at = h + Width(e[1])
        /\ e[Len(e)].at + Width(e[Len(e)]) = h + Len(w)
    <3>1. e[Len(e)] = second /\ e[1] = lost /\ e[2] = second
      BY <2>4
    <3>2. h + 6 + Width(only) = h + (6 + Width(only))
      BY <1>1, <1>4
    <3>. QED
      BY <1>4, <2>3, <2>5, <3>1, <3>2
  <2>8. Describes(e, w, h)
    BY <2>3, <2>4, <2>5, <2>6, <2>7 DEF Describes
  <2>. QED
    BY <2>1, <2>2, <2>8
<1>6. CASE ~dropped[MappedCpu]
  <2> DEFINE e == <<only>>
  <2>1. Entries(MappedCpu, type, n) = e
    BY <1>6 DEF Entries, only, HeadPos
  <2>2. Output(MappedCpu, record) = record
    BY <1>6 DEF Output
  <2>3. e \in Seq(Entry) /\ Len(e) = 1 /\ e[1] = only
    BY <1>2
  <2>4. only.at = h
    BY DEF only
  <2> HIDE DEF e
  <2>5. ASSUME NEW i \in 1..Len(e), NEW j \in 1..Width(e[i])
        PROVE  record[e[i].at - h + j] = RecordWords(e[i])[j]
    BY <1>1, <1>3, <1>4, <2>3, <2>4
  <2>. QED
    BY <1>1, <1>4, <2>1, <2>2, <2>3, <2>4, <2>5 DEF Describes
<1>. QED
  BY <1>5, <1>6

-----------------------------------------------------------------------------
(* The steps of the kernel.                                                 *)

LEMMA Numbers ==
  ASSUME Types
  PROVE  /\ HeadPos \in Nat /\ TailPos \in Nat /\ Size \in Nat \ {0}
         /\ TailPos <= HeadPos
         /\ Records \in Seq(Entry) /\ Len(Records) \in Nat
         /\ DOMAIN Records = 1..Len(Records)
         /\ \A i \in Int : Pos(i) \in Nat
         /\ \A i \in DOMAIN Records : Records[i] \in Entry
<1>1. /\ HeadPos \in Nat /\ TailPos \in Nat /\ Size \in Nat \ {0}
      /\ TailPos <= HeadPos
  BY MappedCpuType, SizeAssumption, MaxHeadAssumption
     DEF Types, TypeOK, HeadPos, TailPos
<1>2. Records \in Seq(Entry)
  BY MappedCpuType DEF Types, Records
<1>3. /\ Len(Records) \in Nat /\ DOMAIN Records = 1..Len(Records)
      /\ \A i \in DOMAIN Records : Records[i] \in Entry
  BY <1>2, ElementOfSeq, LenProperties
<1>4. \A i \in Int : Pos(i) \in Nat
  BY <1>1, <1>3 DEF Pos, Entry
<1>. QED
  BY <1>1, <1>2, <1>3, <1>4

(* The mapped buffer stays laid out when its words, its head and its        *)
(* history do not change.                                                   *)
LEMMA LayoutKept ==
  ASSUME Layout, Stored, data'[MappedCpu] = data[MappedCpu],
         HeadPos' = HeadPos, Records' = Records
  PROVE  Layout' /\ Stored' /\ \A i \in Int : Pos(i)' = Pos(i)
BY DEF Layout, Stored, Pos, Word

(* A record written to the mapped buffer.                                   *)
LEMMA Extend ==
  ASSUME IInv, NEW words, NEW entries, Describes(entries, words, HeadPos),
         pc = "idle", UNCHANGED <<data_tail, pc>>,
         Fits(MappedCpu, words), Put(MappedCpu, words),
         Records' = Records \o entries
  PROVE  Layout' /\ Stored' /\ Room' /\ Place'
<1>0. PICK h \in Nat, l \in Nat, m \in Nat, w \in Nat :
        h = HeadPos /\ l = Len(Records) /\ m = Len(entries) /\ w = Len(words)
  <2>1. HeadPos \in Nat /\ Len(Records) \in Nat
    BY Numbers DEF IInv
  <2>2. Len(entries) \in Nat /\ Len(words) \in Nat
    BY LenProperties DEF Describes
  <2>. QED
    BY <2>1, <2>2
<1>1. /\ Records \in Seq(Entry) /\ DOMAIN Records = 1..l
      /\ \A i \in 1..l : Records[i] \in Entry
  BY <1>0, Numbers DEF IInv
<1>2. TailPos \in Nat /\ Size \in Nat \ {0} /\ TailPos <= h
  BY <1>0, Numbers DEF IInv
<1>3. \A i \in Int : Pos(i) \in Nat
  BY Numbers DEF IInv
<1>4. m \in {1, 2}
  BY <1>0 DEF Describes
<1>5. /\ entries \in Seq(Entry) /\ words \in Seq(Int)
      /\ \A i \in 1..m : entries[i] \in Entry
  <2>1. entries \in Seq(Entry) /\ words \in Seq(Int)
    BY DEF Describes
  <2>. QED
    BY <1>0, <2>1, ElementOfSeq, LenProperties
<1>6. /\ Records' \in Seq(Entry) /\ Len(Records') = l + m
      /\ \A i \in 1..l : Records'[i] = Records[i]
      /\ \A i \in 1..m : Records'[l + i] = entries[i]
  BY <1>0, <1>1, <1>5, ConcatWords
<1>7. DOMAIN Records' = 1..(l + m)
  BY <1>6, LenProperties
<1>8. HeadPos' = h + w /\ TailPos' = TailPos
  BY <1>0, MappedCpuType DEF Put, IInv, Types, TypeOK, HeadPos, TailPos
<1>9. TailPos = Pos(1) /\ h - Pos(1) + w < Size
  BY <1>0 DEF IInv, Place, Fits, HeadPos, TailPos
<1>10. \A i \in 1..l : Pos(i)' = Pos(i)
  BY <1>1, <1>4, <1>6, <1>7 DEF Pos
<1>11. Pos(l + 1) = h
  BY <1>0, <1>1 DEF Pos
<1>12. \A i \in 1..m : Pos(l + i)' = entries[i].at
  BY <1>4, <1>6, <1>7 DEF Pos
<1>13. Pos(l + m + 1)' = h + w
  BY <1>4, <1>7, <1>8 DEF Pos
<1>14. \A i \in 1..m : Width(entries[i]) \in {6, 8, 12} /\ entries[i].at \in Nat
  BY <1>5, RecordWordsType DEF Entry
<1>15. /\ entries[1].at = h
       /\ m = 2 => entries[2].at = h + Width(entries[1])
       /\ entries[m].at + Width(entries[m]) = h + w
  BY <1>0 DEF Describes
<1>16. Pos(l + 1)' = h
  BY <1>4, <1>12, <1>15
<1>17. Pos(1)' = Pos(1)
  <2>1. CASE l = 0
    BY <1>11, <1>16, <2>1
  <2>2. CASE l # 0
    BY <1>10, <2>2
  <2>. QED
    BY <2>1, <2>2
<1>18. \A i \in 1..l : /\ Pos(1) <= Pos(i) /\ Pos(i) + Width(Records[i]) = Pos(i + 1)
                       /\ Pos(i + 1) <= h
  BY <1>0, <1>1 DEF IInv, Layout
<1>19. Pos(1) \in Nat /\ Pos(1) <= h
  BY <1>2, <1>9
<1>20. Layout'
  <2>1. SUFFICES ASSUME NEW i \in 1..(l + m)
                 PROVE  /\ Pos(1)' <= Pos(i)'
                        /\ Pos(i)' + Width(Records'[i]) = Pos(i + 1)'
                        /\ Pos(i + 1)' <= HeadPos'
    BY <1>7 DEF Layout
  <2>2. CASE i \in 1..l
    <3>1. Pos(i + 1)' = Pos(i + 1)
      <4>1. CASE i = l
        BY <1>11, <1>16, <4>1
      <4>2. CASE i # l
        <5>1. i + 1 \in 1..l
          BY <2>2, <4>2
        <5>. QED
          BY <1>10, <5>1
      <4>. QED
        BY <4>1, <4>2
    <3>2. Pos(i)' = Pos(i) /\ Records'[i] = Records[i]
      BY <1>6, <1>10, <2>2
    <3>3. Pos(i + 1) \in Nat
      BY <1>3
    <3>4. /\ Pos(1) <= Pos(i) /\ Pos(i) + Width(Records[i]) = Pos(i + 1)
          /\ Pos(i + 1) <= h
      BY <1>18, <2>2
    <3>5. Pos(i + 1) <= h + w
      BY <3>3, <3>4
    <3>. QED
      BY <1>8, <1>17, <3>1, <3>2, <3>4, <3>5
  <2>3. CASE i = l + 1 /\ m = 1
    <3>1. Pos(i)' = h /\ Pos(i + 1)' = h + w /\ Records'[i] = entries[1]
      BY <1>6, <1>13, <1>16, <2>3
    <3>. QED
      BY <1>8, <1>15, <1>17, <1>19, <2>3, <3>1
  <2>4. CASE i = l + 1 /\ m = 2
    <3>1. /\ Pos(i)' = h /\ Records'[i] = entries[1]
          /\ Pos(i + 1)' = h + Width(entries[1])
      <4>1. Pos(l + 2)' = entries[2].at /\ i + 1 = l + 2
        BY <1>12, <2>4
      <4>. QED
        BY <1>6, <1>15, <1>16, <2>4, <4>1
    <3>2. h + Width(entries[1]) <= h + w
      BY <1>14, <1>15, <2>4
    <3>. QED
      BY <1>8, <1>17, <1>19, <3>1, <3>2
  <2>5. CASE i = l + 2 /\ m = 2
    <3>1. Pos(i)' = entries[2].at /\ Records'[i] = entries[2] /\ Pos(i + 1)' = h + w
      BY <1>6, <1>12, <1>13, <2>5
    <3>2. entries[2].at + Width(entries[2]) = h + w /\ h <= entries[2].at
      BY <1>14, <1>15, <2>5
    <3>3. Pos(1) <= entries[2].at
      BY <1>14, <1>19, <2>5, <3>2
    <3>. QED
      BY <1>8, <1>17, <3>1, <3>2, <3>3
  <2>6. CASE i = l + 1
    BY <1>4, <2>3, <2>4, <2>6
  <2>7. CASE i = l + 2
    <3>1. m = 2
      BY <1>4, <2>7
    <3>. QED
      BY <2>5, <2>7, <3>1
  <2>8. i \in 1..l \/ i = l + 1 \/ i = l + 2
    BY <1>4
  <2>. QED
    BY <2>2, <2>6, <2>7, <2>8
<1>21. Stored'
  <2>1. SUFFICES ASSUME NEW i \in 1..(l + m), NEW j \in 1..Width(Records'[i])
                 PROVE  data'[MappedCpu][(Pos(i)' + j - 1) % Size] = RecordWords(Records'[i])[j]
    BY <1>7 DEF Stored, Word
  <2>2. CASE i \in 1..l
    <3> DEFINE p == Pos(i) + j - 1
    <3>1. Records'[i] = Records[i] /\ Pos(i)' = Pos(i)
      BY <1>6, <1>10, <2>2
    <3>2. Width(Records[i]) \in {6, 8, 12}
      BY <1>1, <2>2, RecordWordsType
    <3>3. data[MappedCpu][p % Size] = RecordWords(Records[i])[j]
      BY <1>1, <2>2, <3>1 DEF IInv, Stored, Word
    <3>4. /\ Pos(1) <= Pos(i) /\ Pos(i) + Width(Records[i]) <= h
          /\ Pos(i) \in Nat /\ j \in 1..Width(Records[i])
      BY <1>3, <1>18, <2>2, <3>1
    <3>5. p \in Int /\ h - p \in 1..(Size - w)
      <4>1. j \in Int /\ 1 <= j /\ j <= Width(Records[i])
        BY <3>2, <3>4
      <4>2. p \in Int /\ p < h /\ Pos(1) <= p
        BY <1>19, <3>2, <3>4, <4>1
      <4>. QED
        BY <1>2, <1>9, <1>19, <4>2
    <3> HIDE DEF p
    <3>6. data'[MappedCpu][p % Size] = data[MappedCpu][p % Size]
      BY <1>0, <1>5, <3>5, PutWords DEF IInv
    <3>. QED
      BY <3>1, <3>3, <3>6 DEF p
  <2>3. ASSUME NEW k \in 1..m, i = l + k
        PROVE  data'[MappedCpu][(Pos(i)' + j - 1) % Size] = RecordWords(Records'[i])[j]
    <3> DEFINE a == entries[k].at
               p == a + j - 1
    <3>1. Records'[i] = entries[k] /\ Pos(i)' = a
      BY <1>6, <1>12, <2>3
    <3>2. a \in Nat /\ Width(entries[k]) \in {6, 8, 12} /\ j \in 1..Width(entries[k])
      BY <1>14, <3>1
    <3>3. words[a - h + j] = RecordWords(entries[k])[j]
      BY <1>0, <3>2 DEF Describes
    <3>4. h <= a /\ a + Width(entries[k]) <= h + w
      <4>1. CASE k = 1 /\ m = 1
        BY <1>15, <4>1
      <4>2. CASE k = 1 /\ m = 2
        <5>1. h + Width(entries[1]) + Width(entries[2]) = h + w
          BY <1>15, <4>2
        <5>2. Width(entries[1]) \in Nat /\ Width(entries[2]) \in Nat
          BY <1>14, <4>2
        <5>. QED
          BY <1>15, <4>2, <5>1, <5>2
      <4>3. CASE k = 2 /\ m = 2
        BY <1>14, <1>15, <4>3
      <4>. QED
        BY <1>4, <4>1, <4>2, <4>3
    <3> HIDE DEF a
    <3>5. /\ p \in Int /\ p - h \in 0..(w - 1) /\ w < Size
          /\ p - h + 1 = a - h + j
      <4>1. j \in Int /\ 1 <= j /\ j <= Width(entries[k]) /\ Width(entries[k]) \in Int
        BY <3>2
      <4>2. p \in Int /\ p - h \in 0..(w - 1) /\ p - h + 1 = a - h + j
        BY <3>2, <3>4, <4>1
      <4>3. w < Size
        BY <1>2, <1>9, <1>19
      <4>. QED
        BY <4>2, <4>3
    <3> HIDE DEF p
    <3>6. data'[MappedCpu][p % Size] = words[p - h + 1]
      BY <1>0, <1>5, <3>5, PutWords DEF IInv
    <3>. QED
      BY <3>1, <3>3, <3>5, <3>6 DEF p
  <2>4. CASE i \in (l + 1)..(l + m)
    <3>1. i - l \in 1..m /\ i = l + (i - l)
      BY <1>4, <2>4
    <3>. QED
      BY <2>3, <3>1
  <2>5. i \in 1..l \/ i \in (l + 1)..(l + m)
    BY <1>4
  <2>. QED
    BY <2>2, <2>4, <2>5
<1>22. Room'
  <2>1. h + w - Pos(1) < Size
    BY <1>2, <1>9, <1>19
  <2>. QED
    BY <1>8, <1>9, <1>17, <1>19, <2>1 DEF Room
<1>23. Place'
  BY <1>8, <1>9, <1>17 DEF Place
<1>. QED
  BY <1>20, <1>21, <1>22, <1>23

(* What the kernel writes to the buffer of any CPU has its type.            *)
LEMMA KernelTypes ==
  ASSUME Types, NEW c \in Cpus, NEW type \in {"sample", "throttle"}, NEW n \in Nat,
         NEW record,
         record = IF type = "sample" THEN SampleRecord(c, n) ELSE ThrottleRecord,
         KernelWrites(c, record, Entries(c, type, n)), signals' \subseteq Cpus
  PROVE  Types'
<1> DEFINE words == Output(c, record)
           entries == Entries(c, type, n)
<1>1. words \in Seq(Int)
  <2>1. record \in Seq(Int) /\ LostRecord \in Seq(Int)
    <3>1. c \in Int
      BY NumCpusAssumption DEF Cpus
    <3>2. SampleRecord(c, n) \in Seq(Int)
      BY <3>1 DEF SampleRecord, PERF_RECORD_SAMPLE
    <3>3. ThrottleRecord \in Seq(Int) /\ LostRecord \in Seq(Int)
      BY DEF ThrottleRecord, LostRecord, PERF_RECORD_THROTTLE, PERF_RECORD_LOST
    <3>. QED
      BY <3>2, <3>3
  <2>2. LostRecord \o record \in Seq(Int)
    BY <2>1, ConcatWords
  <2>. QED
    BY <2>1, <2>2 DEF Output
<1>2. entries \in Seq(Entry)
  <2>1. data_head[c] \in Nat /\ Len(LostRecord) = 6
    BY MaxHeadAssumption DEF Types, TypeOK, LostRecord
  <2>2. /\ [type |-> "lost", n |-> 0, at |-> data_head[c]] \in Entry
        /\ [type |-> type, n |-> n, at |-> data_head[c] + Len(LostRecord)] \in Entry
        /\ [type |-> type, n |-> n, at |-> data_head[c]] \in Entry
    BY <2>1 DEF Entry
  <2>. QED
    BY <2>2 DEF Entries
<1> HIDE DEF words, entries
<1>3. /\ pc = "idle" /\ data_head[c] + Len(words) <= MaxHead
      /\ UNCHANGED <<data_tail, pc, user_sample>>
      /\ \/ Put(c, words) /\ dropped' = [dropped EXCEPT ![c] = FALSE]
            /\ queued' = [queued EXCEPT ![c] = @ \o entries]
         \/ /\ dropped' = [dropped EXCEPT ![c] = TRUE]
            /\ UNCHANGED <<data, data_head, queued>>
  BY DEF KernelWrites, words, entries
<1>4. Len(words) \in Nat /\ \A k \in 0..(Len(words) - 1) : words[k + 1] \in Int
  BY <1>1, ElementOfSeq, LenProperties
<1>5. CASE Put(c, words) /\ dropped' = [dropped EXCEPT ![c] = FALSE]
           /\ queued' = [queued EXCEPT ![c] = @ \o entries]
  <2>1. queued' \in [Cpus -> Seq(Entry)]
    <3>1. queued[c] \o entries \in Seq(Entry)
      <4>1. queued[c] \in Seq(Entry)
        BY DEF Types
      <4>. QED
        BY <1>2, <4>1, ConcatWords
    <3>. QED
      BY <1>5, <3>1 DEF Types
  <2>2. data' \in [Cpus -> [0..(Size - 1) -> Int]]
    <3> DEFINE row == [i \in 0..(Size - 1) |->
                         IF (i - data_head[c]) % Size < Len(words)
                         THEN words[((i - data_head[c]) % Size) + 1] ELSE data[c][i]]
    <3>1. data' = [data EXCEPT ![c] = row]
      BY <1>5 DEF Put
    <3>2. row \in [0..(Size - 1) -> Int]
      <4>1. ASSUME NEW i \in 0..(Size - 1)
            PROVE  (i - data_head[c]) % Size \in Nat /\ data[c][i] \in Int
        BY SizeAssumption, MaxHeadAssumption DEF Types, TypeOK
      <4>. QED
        BY <1>4, <4>1
    <3> HIDE DEF row
    <3>. QED
      BY <3>1, <3>2 DEF Types, TypeOK
  <2>3. /\ data_head' \in [Cpus -> 0..MaxHead]
        /\ \A x \in Cpus : data_tail[x] <= data_head'[x]
    <3>1. data_head' = [data_head EXCEPT ![c] = @ + Len(words)]
      BY <1>5 DEF Put
    <3>2. /\ data_head \in [Cpus -> 0..MaxHead] /\ data_tail \in [Cpus -> 0..MaxHead]
          /\ \A x \in Cpus : data_tail[x] <= data_head[x]
      BY DEF Types, TypeOK
    <3>3. data_head[c] + Len(words) \in 0..MaxHead /\ data_head[c] <= data_head[c] + Len(words)
      BY <1>3, <1>4, <3>2, MaxHeadAssumption
    <3>. QED
      BY <1>4, <3>1, <3>2, <3>3, MaxHeadAssumption
  <2>4. dropped' \in [Cpus -> BOOLEAN]
    BY <1>5 DEF Types, TypeOK
  <2>. QED
    BY <1>3, <2>1, <2>2, <2>3, <2>4 DEF Types, TypeOK
<1>6. CASE /\ dropped' = [dropped EXCEPT ![c] = TRUE]
           /\ UNCHANGED <<data, data_head, queued>>
  <2>1. dropped' \in [Cpus -> BOOLEAN]
    BY <1>6 DEF Types, TypeOK
  <2>. QED
    BY <1>3, <1>6, <2>1 DEF Types, TypeOK
<1>. QED
  BY <1>3, <1>5, <1>6

(* A record written by the kernel, or refused, on any CPU.                  *)
LEMMA KernelStep ==
  ASSUME IInv, NEW c \in Cpus, NEW type \in {"sample", "throttle"}, NEW n \in Nat,
         NEW record,
         record = IF type = "sample" THEN SampleRecord(c, n) ELSE ThrottleRecord,
         KernelWrites(c, record, Entries(c, type, n)), signals' \subseteq Cpus
  PROVE  IInv'
<1> DEFINE words == Output(c, record)
           entries == Entries(c, type, n)
<1>1. Types'
  BY KernelTypes DEF IInv
<1>2. pc = "idle" /\ UNCHANGED <<data_tail, pc, user_sample>>
  BY DEF KernelWrites
<1>3. CASE c = MappedCpu /\ Fits(c, words)
  <2>1. Put(MappedCpu, words) /\ queued' = [queued EXCEPT ![c] = @ \o entries]
    BY <1>3 DEF KernelWrites
  <2>2. Records' = Records \o entries
    BY <1>3, <2>1 DEF IInv, Types, Records
  <2>3. Describes(entries, words, HeadPos)
    BY <1>3, EntriesDescribe DEF IInv
  <2> HIDE DEF words, entries
  <2>4. Layout' /\ Stored' /\ Room' /\ Place'
    BY <1>2, <1>3, <2>1, <2>2, <2>3, Extend
  <2>. QED
    BY <1>1, <2>4 DEF IInv
<1>4. CASE ~(c = MappedCpu /\ Fits(c, words))
  <2>1. /\ data'[MappedCpu] = data[MappedCpu] /\ HeadPos' = HeadPos
        /\ Records' = Records
    <3>1. CASE c # MappedCpu /\ Fits(c, words)
      BY <3>1, MappedCpuType
         DEF KernelWrites, Put, IInv, Types, TypeOK, HeadPos, Records
    <3>2. CASE ~Fits(c, words)
      BY <3>2 DEF KernelWrites, HeadPos, Records
    <3>. QED
      BY <1>4, <3>1, <3>2
  <2>2. TailPos' = TailPos
    BY <1>2 DEF TailPos
  <2>3. Layout' /\ Stored' /\ \A i \in Int : Pos(i)' = Pos(i)
    BY <2>1, LayoutKept DEF IInv
  <2>4. Room' /\ Place'
    BY <1>2, <2>1, <2>2, <2>3 DEF IInv, Room, Place
  <2>. QED
    BY <1>1, <2>3, <2>4 DEF IInv
<1>. QED
  BY <1>3, <1>4

-----------------------------------------------------------------------------
(* The steps of the handler.                                                *)

(* A step that only moves the tail, no further than the head.               *)
LEMMA TailStep ==
  ASSUME IInv, NEW n \in Nat, Consume(n), n <= Remaining,
         UNCHANGED <<data, data_head, dropped, signals, queued>>,
         pc' \in {"idle", "loop", "sample", "finished"}
  PROVE  /\ Types' /\ Layout' /\ Stored' /\ Room'
         /\ TailPos' = TailPos + n /\ HeadPos' = HeadPos /\ Records' = Records
         /\ \A i \in Int : Pos(i)' = Pos(i)
<1>1. /\ HeadPos \in Nat /\ TailPos \in Nat /\ TailPos <= HeadPos
      /\ Pos(1) \in Nat
  BY Numbers DEF IInv
<1>2. /\ data_tail' = [data_tail EXCEPT ![MappedCpu] = @ + n]
      /\ n <= HeadPos - TailPos
  BY DEF Consume, Remaining, HeadPos, TailPos
<1>3. TailPos' = TailPos + n
  BY <1>2, MappedCpuType DEF IInv, Types, TypeOK, TailPos
<1>4. HeadPos' = HeadPos /\ Records' = Records
  BY DEF HeadPos, Records
<1>5. Layout' /\ Stored' /\ \A i \in Int : Pos(i)' = Pos(i)
  BY <1>4, LayoutKept DEF IInv
<1>6. Room'
  BY <1>1, <1>3, <1>4, <1>5 DEF IInv, Room
<1>7. /\ data_tail' \in [Cpus -> 0..MaxHead]
      /\ \A x \in Cpus : data_tail'[x] <= data_head[x]
  <2>1. /\ data_head \in [Cpus -> 0..MaxHead] /\ data_tail \in [Cpus -> 0..MaxHead]
        /\ \A x \in Cpus : data_tail[x] <= data_head[x]
    BY DEF IInv, Types, TypeOK
  <2>2. data_tail[MappedCpu] + n \in 0..MaxHead /\ data_tail[MappedCpu] + n <= data_head[MappedCpu]
    BY <1>1, <1>2, <2>1, MappedCpuType, MaxHeadAssumption DEF HeadPos, TailPos
  <2>. QED
    BY <1>2, <2>1, <2>2, MappedCpuType
<1>8. Types'
  BY <1>7 DEF IInv, Types, TypeOK
<1>. QED
  BY <1>3, <1>4, <1>5, <1>6, <1>8

(* Where the handler stands in front of record k, the record is all there.  *)
LEMMA RecordAhead ==
  ASSUME IInv, NEW k \in DOMAIN Records
  PROVE  /\ k \in Int /\ Pos(k) \in Nat /\ Width(Records[k]) \in {6, 8, 12}
         /\ Pos(k) + Width(Records[k]) <= HeadPos
         /\ Pos(k) + Width(Records[k]) = Pos(k + 1)
         /\ IsSample(Records[k]) => Width(Records[k]) = 12
         /\ \A j \in 1..Width(Records[k]) : Word(Pos(k) + j - 1) = RecordWords(Records[k])[j]
<1>1. k \in Int /\ Pos(k) \in Nat /\ Records[k] \in Entry
  BY Numbers DEF IInv
<1>2. Width(Records[k]) \in {6, 8, 12}
  BY <1>1, RecordWordsType
<1>3. Pos(k) + Width(Records[k]) = Pos(k + 1) /\ Pos(k + 1) <= HeadPos
  BY DEF IInv, Layout
<1>4. IsSample(Records[k]) => Width(Records[k]) = 12
  BY DEF IsSample, Width
<1>5. \A j \in 1..Width(Records[k]) : Word(Pos(k) + j - 1) = RecordWords(Records[k])[j]
  BY DEF IInv, Stored
<1>. QED
  BY <1>1, <1>2, <1>3, <1>4, <1>5

(* The two words of a header.                                               *)
LEMMA HeaderIs ==
  ASSUME IInv, Remaining >= HeaderWords
  PROVE  Header.type = Word(TailPos) /\ Header.size = Word(TailPos + 1)
<1>1. /\ HeadPos \in Nat /\ TailPos \in Nat /\ Size \in Nat \ {0} /\ Pos(1) \in Nat
  BY Numbers DEF IInv
<1>2. Pos(1) <= TailPos /\ HeadPos - Pos(1) < Size /\ HeadPos - TailPos >= 2
  BY DEF IInv, Room, Remaining, HeaderWords, HeadPos, TailPos
<1>3. 2 \in 1..Size
  BY <1>1, <1>2
<1>4. ReadWords(2)[1] = Word(TailPos + 1 - 1) /\ ReadWords(2)[2] = Word(TailPos + 2 - 1)
  BY <1>3, ReadWordsAre DEF IInv
<1>5. TailPos + 1 - 1 = TailPos /\ TailPos + 2 - 1 = TailPos + 1
  BY <1>1
<1>. QED
  BY <1>4, <1>5 DEF Header, HeaderWords

(* The header read in front of a record is that record's.                   *)
LEMMA HeaderOfRecord ==
  ASSUME IInv, Remaining >= HeaderWords, NEW k \in DOMAIN Records, TailPos = Pos(k)
  PROVE  /\ Header.type = PERF_RECORD_SAMPLE <=> IsSample(Records[k])
         /\ Header.size = Width(Records[k])
<1> DEFINE r == Records[k]
<1>1. /\ k \in Int /\ Pos(k) \in Nat /\ Width(r) \in {6, 8, 12}
      /\ \A j \in 1..Width(r) : Word(Pos(k) + j - 1) = RecordWords(r)[j]
  BY RecordAhead
<1>2. Word(Pos(k) + 1 - 1) = RecordWords(r)[1] /\ Word(Pos(k) + 2 - 1) = RecordWords(r)[2]
  BY <1>1
<1>3. Pos(k) + 1 - 1 = Pos(k) /\ Pos(k) + 2 - 1 = Pos(k) + 1
  BY <1>1
<1>4. Header.type = RecordWords(r)[1] /\ Header.size = RecordWords(r)[2]
  BY <1>2, <1>3, HeaderIs
<1>5. r \in Entry
  BY Numbers DEF IInv
<1>. QED
  BY <1>4, <1>5, RecordWordsType

(* The header read in the unread end of a sample is empty.                  *)
LEMMA HeaderInSample ==
  ASSUME IInv, Remaining >= HeaderWords, InSample
  PROVE  Header.type = 0 /\ Header.size = 0
<1>1. PICK k \in DOMAIN Records : Oldest(k) /\ TailPos = Pos(k) + 2 + 7
  BY DEF InSample, HeaderWords, SampleWords
<1> DEFINE r == Records[k]
<1>2. IsSample(r)
  BY <1>1 DEF Oldest, Records
<1>3. /\ Pos(k) \in Nat /\ Width(r) = 12
      /\ \A j \in 1..12 : Word(Pos(k) + j - 1) = RecordWords(r)[j]
  BY <1>2, RecordAhead
<1>4. RecordWords(r)[10] = 0 /\ RecordWords(r)[11] = 0
  BY <1>2 DEF IsSample, RecordWords, SampleRecord
<1>5. Word(Pos(k) + 10 - 1) = 0 /\ Word(Pos(k) + 11 - 1) = 0
  BY <1>3, <1>4
<1>6. Pos(k) + 10 - 1 = TailPos /\ Pos(k) + 11 - 1 = TailPos + 1
  BY <1>1, <1>3
<1>. QED
  BY <1>5, <1>6, HeaderIs

LEMMA HandleStep ==
  ASSUME IInv, NEW c \in Cpus, Handle(c)
  PROVE  IInv'
<1>1. /\ pc = "idle" /\ pc' = "loop" /\ user_sample' = <<>>
      /\ UNCHANGED <<data, data_head, data_tail, dropped, queued>>
      /\ signals' \subseteq signals
  BY DEF Handle, ringVars
<1>2. Types'
  BY <1>1 DEF IInv, Types, TypeOK
<1>3. HeadPos' = HeadPos /\ TailPos' = TailPos /\ Records' = Records
  BY <1>1 DEF HeadPos, TailPos, Records
<1>4. Layout' /\ Stored' /\ \A i \in Int : Pos(i)' = Pos(i)
  BY <1>1, <1>3, LayoutKept DEF IInv
<1>5. Room'
  BY <1>3, <1>4 DEF IInv, Room
<1>6. AtRecord'
  <2>1. TailPos = Pos(1)
    BY <1>1 DEF IInv, Place
  <2>2. Unsampled(1)'
    BY DEF Unsampled
  <2>3. 1 \in 1..(Len(Records) + 1)
    BY Numbers DEF IInv
  <2>4. Pos(1)' = Pos(1)
    BY <1>4
  <2>. QED
    BY <1>1, <1>3, <2>1, <2>2, <2>3, <2>4 DEF AtRecord
<1>. QED
  BY <1>1, <1>2, <1>4, <1>5, <1>6 DEF IInv, Place

LEMMA ReturnStep ==
  ASSUME IInv, Return
  PROVE  IInv'
<1>1. /\ pc = "finished" /\ pc' = "idle"
      /\ queued' = [queued EXCEPT ![MappedCpu] = <<>>]
      /\ UNCHANGED <<data, data_head, data_tail, dropped, signals>>
  BY DEF Return, ringVars
<1>2. Types'
  <2>1. <<>> \in Seq(Entry)
    OBVIOUS
  <2>2. queued' \in [Cpus -> Seq(Entry)]
    BY <1>1, <2>1 DEF IInv, Types
  <2>. QED
    BY <1>1, <2>2 DEF IInv, Types, TypeOK
<1>3. HeadPos' = HeadPos /\ TailPos' = TailPos /\ Records' = <<>>
  BY <1>1, MappedCpuType DEF HeadPos, TailPos, Records, IInv, Types
<1>4. Layout' /\ Stored'
  BY <1>3 DEF Layout, Stored
<1>5. Pos(1)' = HeadPos
  BY <1>3 DEF Pos
<1>6. TailPos = HeadPos
  BY <1>1 DEF IInv, Place, AtHead
<1>7. HeadPos \in Nat /\ Size \in Nat \ {0}
  BY Numbers DEF IInv
<1>8. Room'
  BY <1>3, <1>5, <1>6, <1>7 DEF Room
<1>. QED
  BY <1>1, <1>2, <1>3, <1>4, <1>5, <1>6, <1>8 DEF IInv, Place

(* In front of a record with words left, there is a record.                 *)
LEMMA RecordThere ==
  ASSUME IInv, NEW k \in 1..(Len(Records) + 1), TailPos = Pos(k), TailPos # HeadPos
  PROVE  k \in DOMAIN Records
BY DEF Pos

(* The places of the handler survive what does not concern them.            *)
LEMMA OutcomeKept ==
  ASSUME Outcome, Records' = Records, UNCHANGED user_sample
  PROVE  Outcome'
BY DEF Outcome, Oldest, Records

LEMMA LoopEndsStep ==
  ASSUME IInv, LoopEnds
  PROVE  IInv'
<1>1. /\ pc = "loop" /\ pc' = "finished" /\ Remaining < 2
      /\ UNCHANGED <<data, data_head, dropped, signals, user_sample, queued>>
  BY DEF LoopEnds, HeaderWords
<1>2. /\ HeadPos \in Nat /\ TailPos \in Nat /\ TailPos <= HeadPos
      /\ Len(Records) \in Nat /\ DOMAIN Records = 1..Len(Records)
  BY Numbers DEF IInv
<1>3. Remaining = HeadPos - TailPos
  BY DEF Remaining, HeadPos, TailPos
<1>4. Consume(Remaining) /\ Remaining \in Nat
  BY <1>2, <1>3 DEF LoopEnds, Skip
<1>5. /\ Types' /\ Layout' /\ Stored' /\ Room'
      /\ TailPos' = TailPos + Remaining /\ HeadPos' = HeadPos /\ Records' = Records
  BY <1>1, <1>4, TailStep
<1>6. Outcome
  <2>1. CASE AtRecord
    <3>1. PICK k \in 1..(Len(Records) + 1) : Unsampled(k) /\ TailPos = Pos(k)
      BY <2>1 DEF AtRecord
    <3>2. k \notin DOMAIN Records
      <4>1. ASSUME k \in DOMAIN Records PROVE FALSE
        <5>1. Pos(k) \in Nat /\ Width(Records[k]) \in {6, 8, 12}
              /\ Pos(k) + Width(Records[k]) <= HeadPos
          BY <4>1, RecordAhead
        <5>. QED
          BY <1>1, <1>2, <1>3, <3>1, <5>1
      <4>. QED
        BY <4>1
    <3>3. k = Len(Records) + 1
      BY <1>2, <3>2
    <3>4. \A j \in DOMAIN Records : ~IsSample(Records[j])
      BY <1>2, <3>1, <3>3 DEF Unsampled
    <3>. QED
      BY <2>1, <3>4 DEF AtRecord, Outcome
  <2>2. CASE InSample
    <3>1. PICK k \in DOMAIN Records : Oldest(k) /\ TailPos = Pos(k) + 2 + 7
      BY <2>2 DEF InSample, HeaderWords, SampleWords
    <3>2. IsSample(Records[k])
      BY <3>1 DEF Oldest, Records
    <3>3. Pos(k) \in Nat /\ Pos(k) + 12 <= HeadPos
      BY <3>2, RecordAhead
    <3>. QED
      BY <1>1, <1>2, <1>3, <3>1, <3>3
  <2>3. CASE AtHead
    BY <2>3 DEF AtHead
  <2>. QED
    BY <1>1, <2>1, <2>2, <2>3 DEF IInv, Place
<1>7. Outcome'
  BY <1>1, <1>5, <1>6, OutcomeKept
<1>8. TailPos' = HeadPos'
  BY <1>2, <1>3, <1>5
<1>. QED
  BY <1>1, <1>5, <1>7, <1>8 DEF IInv, Place, AtHead

LEMMA ReadSampleHeaderStep ==
  ASSUME IInv, ReadSampleHeader
  PROVE  IInv'
<1>1. /\ pc = "loop" /\ pc' = "sample" /\ Remaining >= HeaderWords
      /\ Header.type = PERF_RECORD_SAMPLE /\ Consume(2)
      /\ UNCHANGED <<data, data_head, dropped, signals, user_sample, queued>>
  BY DEF ReadSampleHeader, HeaderWords
<1>2. /\ HeadPos \in Nat /\ TailPos \in Nat /\ TailPos <= HeadPos
  BY Numbers DEF IInv
<1>3. Remaining = HeadPos - TailPos
  BY DEF Remaining, HeadPos, TailPos
<1>4. 2 <= Remaining /\ TailPos # HeadPos
  BY <1>1, <1>2, <1>3 DEF HeaderWords
<1>5. /\ Types' /\ Layout' /\ Stored' /\ Room'
      /\ TailPos' = TailPos + 2 /\ HeadPos' = HeadPos /\ Records' = Records
      /\ \A i \in Int : Pos(i)' = Pos(i)
  BY <1>1, <1>4, TailStep
<1>6. ~InSample
  BY <1>1, HeaderInSample DEF PERF_RECORD_SAMPLE
<1>7. AtRecord
  BY <1>1, <1>4, <1>6 DEF IInv, Place, AtHead
<1>8. PICK k \in 1..(Len(Records) + 1) : Unsampled(k) /\ TailPos = Pos(k)
  BY <1>7 DEF AtRecord
<1>9. k \in DOMAIN Records /\ k \in Int
  BY <1>4, <1>8, RecordThere, Numbers DEF IInv
<1>10. Oldest(k)
  BY <1>1, <1>8, <1>9, HeaderOfRecord DEF Oldest, Unsampled, Records
<1>11. Oldest(k)' /\ TailPos' = Pos(k)' + 2 /\ k \in DOMAIN Records'
  BY <1>1, <1>5, <1>8, <1>9, <1>10 DEF Oldest
<1>12. AfterHeader'
  BY <1>1, <1>7, <1>11 DEF AfterHeader, AtRecord, HeaderWords
<1>. QED
  BY <1>1, <1>5, <1>12 DEF IInv, Place

(* The fields perf_read_record_sample finds behind the header of a sample.  *)
LEMMA SampleFields ==
  ASSUME IInv, NEW k \in DOMAIN Records, Oldest(k), TailPos = Pos(k) + 2
  PROVE  /\ 7 <= Remaining
         /\ \A i \in 1..7 : ReadWords(7)[i] = RecordWords(Records[k])[i + 2]
<1> DEFINE r == Records[k]
<1>1. IsSample(r)
  BY DEF Oldest, Records
<1>2. /\ k \in Int /\ Pos(k) \in Nat /\ Pos(k) + 12 <= HeadPos
      /\ \A j \in 1..12 : Word(Pos(k) + j - 1) = RecordWords(r)[j]
  BY <1>1, RecordAhead
<1>3. /\ HeadPos \in Nat /\ TailPos \in Nat /\ Size \in Nat \ {0} /\ Pos(1) \in Nat
  BY Numbers DEF IInv
<1>4. Pos(1) <= Pos(k) /\ HeadPos - Pos(1) < Size
  BY DEF IInv, Layout, Room
<1>5. 7 \in 1..Size
  BY <1>2, <1>3, <1>4
<1>6. ASSUME NEW i \in 1..7
      PROVE  ReadWords(7)[i] = RecordWords(r)[i + 2]
  <2>1. ReadWords(7)[i] = Word(TailPos + i - 1)
    BY <1>5, ReadWordsAre DEF IInv
  <2>2. TailPos + i - 1 = Pos(k) + (i + 2) - 1 /\ i + 2 \in 1..12
    BY <1>2
  <2>. QED
    BY <1>2, <2>1, <2>2
<1>7. Remaining = HeadPos - TailPos
  BY DEF Remaining, HeadPos, TailPos
<1>. QED
  BY <1>2, <1>3, <1>6, <1>7

LEMMA ReadSampleStep ==
  ASSUME IInv, ReadSample
  PROVE  IInv'
<1> DEFINE w == ReadWords(7)
<1>1. /\ pc = "sample" /\ pc' = "loop" /\ Consume(7)
      /\ user_sample' = Append(user_sample,
                               [ip |-> <<w[1], w[2]>>, addr |-> <<w[5], w[6]>>, cpu |-> w[7]])
      /\ UNCHANGED <<data, data_head, dropped, signals, queued>>
  BY DEF ReadSample, SampleWords
<1> HIDE DEF w
<1>2. AfterHeader
  BY <1>1 DEF IInv, Place
<1>3. PICK k \in DOMAIN Records : Oldest(k) /\ TailPos = Pos(k) + 2
  BY <1>2 DEF AfterHeader, HeaderWords
<1> DEFINE r == Records[k]
<1>4. IsSample(r)
  BY <1>3 DEF Oldest, Records
<1>5. 7 <= Remaining /\ \A i \in 1..7 : w[i] = RecordWords(r)[i + 2]
  BY <1>3, SampleFields DEF w
<1>6. /\ w[1] = r.n /\ w[2] = r.n /\ w[5] = r.n /\ w[6] = r.n /\ w[7] = MappedCpu
  <2>1. RecordWords(r) = <<9, 12, r.n, r.n, 7, 7, r.n, r.n, MappedCpu, 0, 0, 0>>
    BY <1>4 DEF IsSample, RecordWords, SampleRecord, PERF_RECORD_SAMPLE
  <2>2. /\ w[1] = RecordWords(r)[3] /\ w[2] = RecordWords(r)[4]
        /\ w[5] = RecordWords(r)[7] /\ w[6] = RecordWords(r)[8]
        /\ w[7] = RecordWords(r)[9]
    BY <1>5
  <2>. QED
    BY <2>1, <2>2
<1>7. user_sample' = <<Intact(r)>>
  <2>1. user_sample = <<>>
    BY <1>2 DEF AfterHeader
  <2>2. user_sample' = Append(<<>>, Intact(r))
    BY <1>1, <1>6, <2>1 DEF Intact
  <2>. QED
    BY <2>2
<1>8. /\ Types' /\ Layout' /\ Stored' /\ Room'
      /\ TailPos' = TailPos + 7 /\ HeadPos' = HeadPos /\ Records' = Records
      /\ \A i \in Int : Pos(i)' = Pos(i)
  BY <1>1, <1>5, TailStep
<1>9. k \in Int
  BY RecordAhead
<1>10. InSample'
  <2>1. Oldest(k)' /\ k \in DOMAIN Records' /\ Intact(Records'[k]) = Intact(r)
    BY <1>1, <1>3, <1>8 DEF Oldest
  <2>2. TailPos' = Pos(k)' + 2 + 7
    BY <1>3, <1>8, <1>9
  <2>3. user_sample' = <<Intact(Records'[k])>>
    BY <1>7, <2>1
  <2>. QED
    BY <2>1, <2>2, <2>3 DEF InSample, HeaderWords, SampleWords, Intact
<1>. QED
  BY <1>1, <1>8, <1>10 DEF IInv, Place

LEMMA SkipRecordStep ==
  ASSUME IInv, SkipRecord
  PROVE  IInv'
<1>1. /\ pc = "loop" /\ pc' = "loop" /\ Remaining >= HeaderWords
      /\ Header.type # PERF_RECORD_SAMPLE
      /\ Skip(IF Header.size = 0 THEN Remaining ELSE Header.size)
      /\ UNCHANGED <<data, data_head, dropped, signals, user_sample, queued>>
  BY DEF SkipRecord
<1>2. /\ HeadPos \in Nat /\ TailPos \in Nat /\ TailPos <= HeadPos
      /\ Len(Records) \in Nat /\ DOMAIN Records = 1..Len(Records)
  BY Numbers DEF IInv
<1>3. Remaining = HeadPos - TailPos
  BY DEF Remaining, HeadPos, TailPos
<1>4. TailPos # HeadPos /\ Remaining \in Nat
  BY <1>1, <1>2, <1>3 DEF HeaderWords
<1>5. CASE AtRecord
  <2>1. PICK k \in 1..(Len(Records) + 1) : Unsampled(k) /\ TailPos = Pos(k)
    BY <1>5 DEF AtRecord
  <2>2. k \in DOMAIN Records
    BY <1>4, <2>1, RecordThere
  <2> DEFINE n == Width(Records[k])
  <2>3. /\ k \in Int /\ Pos(k) \in Nat /\ n \in {6, 8, 12} /\ Pos(k) + n <= HeadPos
        /\ Pos(k) + n = Pos(k + 1)
    BY <2>2, RecordAhead
  <2>4. Header.size = n /\ ~IsSample(Records[k])
    BY <1>1, <2>1, <2>2, HeaderOfRecord
  <2> HIDE DEF n
  <2>5. n \in Nat /\ n <= Remaining
    BY <1>2, <1>3, <2>1, <2>3
  <2>6. Consume(n)
    <3>1. Skip(n)
      BY <1>1, <2>3, <2>4
    <3>2. ~(n > Remaining)
      BY <1>4, <2>5
    <3>. QED
      BY <3>1, <3>2 DEF Skip
  <2>7. /\ Types' /\ Layout' /\ Stored' /\ Room'
        /\ TailPos' = TailPos + n /\ HeadPos' = HeadPos /\ Records' = Records
        /\ \A i \in Int : Pos(i)' = Pos(i)
    BY <1>1, <2>5, <2>6, TailStep
  <2>8. Unsampled(k + 1)
    <3>1. SUFFICES ASSUME NEW j \in 1..((k + 1) - 1) PROVE ~IsSample(Records[j])
      BY DEF Unsampled
    <3>2. j \in 1..(k - 1) \/ j = k
      BY <2>3
    <3>. QED
      BY <2>1, <2>4, <3>2 DEF Unsampled
  <2>9. /\ Unsampled(k + 1)' /\ TailPos' = Pos(k + 1)'
        /\ k + 1 \in 1..(Len(Records') + 1) /\ user_sample' = <<>>
    <3>1. Unsampled(k + 1)'
      BY <2>7, <2>8 DEF Unsampled
    <3>2. k + 1 \in Int /\ k + 1 \in 1..(Len(Records) + 1)
      BY <1>2, <2>2
    <3>3. TailPos' = Pos(k + 1)'
      BY <2>1, <2>3, <2>7, <3>2
    <3>. QED
      BY <1>1, <1>5, <2>7, <3>1, <3>2, <3>3 DEF AtRecord
  <2>10. AtRecord'
    BY <2>9 DEF AtRecord
  <2>. QED
    BY <1>1, <2>7, <2>10 DEF IInv, Place
<1>6. CASE InSample
  <2>1. Consume(Remaining)
    BY <1>1, <1>4, <1>6, HeaderInSample DEF Skip
  <2>2. /\ Types' /\ Layout' /\ Stored' /\ Room'
        /\ TailPos' = TailPos + Remaining /\ HeadPos' = HeadPos /\ Records' = Records
    BY <1>1, <1>4, <2>1, TailStep
  <2>3. Outcome
    BY <1>6 DEF InSample, Outcome
  <2>4. Outcome'
    BY <1>1, <2>2, <2>3, OutcomeKept
  <2>5. TailPos' = HeadPos'
    BY <1>2, <1>3, <2>2
  <2>. QED
    BY <1>1, <2>2, <2>4, <2>5 DEF IInv, Place, AtHead
<1>. QED
  BY <1>1, <1>4, <1>5, <1>6 DEF IInv, Place, AtHead

-----------------------------------------------------------------------------
LEMMA InitIInv == Init => IInv
<1> SUFFICES ASSUME Init PROVE IInv
  OBVIOUS
<1>1. /\ HeadPos = 0 /\ TailPos = 0 /\ Records = <<>> /\ pc = "idle"
  BY MappedCpuType DEF Init, HeadPos, TailPos, Records
<1>2. Types
  <2>1. <<>> \in Seq(Entry)
    OBVIOUS
  <2>2. queued \in [Cpus -> Seq(Entry)]
    BY <2>1 DEF Init
  <2>. QED
    BY <2>2, MaxHeadAssumption DEF Init, Types, TypeOK
<1>3. Layout /\ Stored
  BY <1>1 DEF Layout, Stored
<1>4. Pos(1) = 0
  BY <1>1 DEF Pos
<1>5. Room /\ Place
  BY <1>1, <1>4, SizeAssumption DEF Room, Place
<1>. QED
  BY <1>2, <1>3, <1>5 DEF IInv

LEMMA NextIInv == IInv /\ [Next]_vars => IInv'
<1> SUFFICES ASSUME IInv, [Next]_vars PROVE IInv'
  OBVIOUS
<1>1. ASSUME NEW c \in Cpus, Overflow(c) PROVE IInv'
  <2> DEFINE n == data_head[c] + 1
  <2>1. n \in Nat
    BY MaxHeadAssumption DEF IInv, Types, TypeOK
  <2>2. KernelWrites(c, SampleRecord(c, n), Entries(c, "sample", n))
    BY <1>1 DEF Overflow
  <2>3. signals' \subseteq Cpus
    BY <1>1 DEF Overflow, IInv, Types, TypeOK
  <2> HIDE DEF n
  <2>. QED
    BY <2>1, <2>2, <2>3, KernelStep
<1>2. ASSUME NEW c \in Cpus, Throttle(c) PROVE IInv'
  <2>1. KernelWrites(c, ThrottleRecord, Entries(c, "throttle", 0))
    BY <1>2 DEF Throttle
  <2>2. signals' \subseteq Cpus
    BY <1>2 DEF Throttle, IInv, Types, TypeOK
  <2>. QED
    BY <2>1, <2>2, KernelStep
<1>3. ASSUME NEW c \in Cpus, Handle(c) PROVE IInv'
  BY <1>3, HandleStep
<1>4. CASE Parse
  BY <1>4, LoopEndsStep, ReadSampleHeaderStep, ReadSampleStep, SkipRecordStep DEF Parse
<1>5. CASE Return
  BY <1>5, ReturnStep
<1>6. CASE UNCHANGED vars
  <2>1. /\ UNCHANGED <<data, data_head, data_tail, dropped, signals, pc>>
        /\ UNCHANGED <<user_sample, queued>>
    BY <1>6 DEF vars, ringVars
  <2>2. Types'
    BY <2>1 DEF IInv, Types, TypeOK
  <2>3. HeadPos' = HeadPos /\ TailPos' = TailPos /\ Records' = Records
    BY <2>1 DEF HeadPos, TailPos, Records
  <2>4. Layout' /\ Stored'
    BY <2>1, <2>3, LayoutKept DEF IInv
  <2>5. Room' /\ Place'
    BY <2>1 DEF IInv, Room, Place, AtRecord, InSample, AtHead, AfterHeader, Outcome,
                Oldest, Unsampled, Pos, HeadPos, TailPos, Records
  <2>. QED
    BY <2>2, <2>4, <2>5 DEF IInv
<1>. QED
  BY <1>1, <1>2, <1>3, <1>4, <1>5, <1>6 DEF Next

(* Every record of the mapped buffer lies where the history says, word for  *)
(* word, and the handler of perf_event_handler stands at a record, behind   *)
(* the header of the oldest sample, in its unread end, or at the head.      *)
THEOREM InductiveInvariant == Spec => []IInv
BY InitIInv, NextIInv, PTL DEF Spec

(* Every variable of the ring buffers keeps its type, and data_tail is      *)
(* never moved past data_head (perf_mmap.cpp).                              *)
THEOREM TypeCorrect == Spec => []TypeOK
<1>1. IInv => TypeOK
  BY DEF IInv, Types
<1>. QED
  BY <1>1, InductiveInvariant, PTL

(* For every size of the buffer and every place at which the records wrap:  *)
(* a run of perf_event_handler empties the mapped buffer and hands out its  *)
(* oldest sample only, with the fields the kernel wrote.                    *)
THEOREM OldestSampleOnlyAlways == Spec => []OldestSampleOnly
<1>1. IInv => OldestSampleOnly
  <2> SUFFICES ASSUME IInv PROVE OldestSampleOnly
    OBVIOUS
  <2>1. SUFFICES ASSUME pc = "finished" PROVE Remaining = 0 /\ Outcome
    BY DEF OldestSampleOnly, Outcome, Records
  <2>2. AtHead
    BY <2>1 DEF IInv, Place
  <2>3. HeadPos \in Nat /\ Remaining = HeadPos - TailPos
    BY Numbers DEF IInv, Remaining, HeadPos, TailPos
  <2>. QED
    BY <2>2, <2>3 DEF AtHead
<1>. QED
  BY <1>1, InductiveInvariant, PTL

(* For every size of the buffer: perf_read_record_sample follows the header *)
(* of a real sample, the oldest one, and every field it asserts is there.   *)
THEOREM NoShortReadAlways == Spec => []NoShortRead
<1>1. IInv => NoShortRead
  <2> SUFFICES ASSUME IInv PROVE NoShortRead
    OBVIOUS
  <2>1. SUFFICES ASSUME pc = "sample"
                 PROVE  /\ Remaining >= 7
                        /\ \E k \in DOMAIN Records :
                             Oldest(k) /\ ReadWords(7)[1] = Records[k].n
    BY DEF NoShortRead, SampleWords, Records
  <2>2. PICK k \in DOMAIN Records : Oldest(k) /\ TailPos = Pos(k) + 2
    BY <2>1 DEF IInv, Place, AfterHeader, HeaderWords
  <2>3. Remaining >= 7 /\ ReadWords(7)[1] = RecordWords(Records[k])[3]
    <3>1. /\ 7 <= Remaining
          /\ \A i \in 1..7 : ReadWords(7)[i] = RecordWords(Records[k])[i + 2]
      BY <2>2, SampleFields
    <3>2. Remaining \in Int
      <4>1. HeadPos \in Nat /\ TailPos \in Nat
        BY Numbers DEF IInv
      <4>. QED
        BY <4>1 DEF Remaining, HeadPos, TailPos
    <3>. QED
      BY <3>1, <3>2
  <2>4. RecordWords(Records[k])[3] = Records[k].n
    BY <2>2 DEF Oldest, Records, IsSample, RecordWords, SampleRecord
  <2>. QED
    BY <2>2, <2>3, <2>4
<1>. QED
  BY <1>1, InductiveInvariant, PTL
=============================================================================
