------------------------------- MODULE PerfRing -------------------------------
(***************************************************************************)
(* The ring buffers of one perf event and the loop of perf_event_handler   *)
(* that parses them (perf_mmap.cpp, perf_interface.cpp).                   *)
(*                                                                         *)
(* setupEvents maps one buffer per CPU but keeps the address of the last   *)
(* one only (perf_event_thread_t::mmap_buf), so a signal from the counter  *)
(* of any CPU makes the handler parse the buffer of the last CPU.          *)
(*                                                                         *)
(* The buffer is modelled in words of four bytes. The kernel writes whole  *)
(* records; the handler reads a header of two words, then either the       *)
(* fields of a sample that it knows or nothing, and moves data_tail by     *)
(* what it read. A sample of the type perf_attr_init asks for has twelve   *)
(* words, of which perf_read_header and perf_read_record_sample read nine: *)
(* the padding of the CPU field and the empty call chain stay unread.      *)
(*                                                                         *)
(* All counters of the event are disabled while the handler parses         *)
(* (perf_stop_all, see AgentThread), so the kernel writes between two      *)
(* handler runs only.                                                      *)
(***************************************************************************)
EXTENDS Integers, Sequences

CONSTANTS
  NumCpus,     \* CPUs, 1 to NumCpus; 8 in the code
  Size,        \* words of a buffer: one page, page_mask + 1
  MaxHead      \* bound: words the kernel writes to one buffer

ASSUME NumCpusAssumption == NumCpus \in Nat \ {0}
ASSUME SizeAssumption == Size \in Nat \ {0} /\ \E k \in 1..10 : Size = 2^k
ASSUME MaxHeadAssumption == MaxHead \in Nat

Cpus == 1..NumCpus

(* event_thread.mmap_buf is overwritten for every CPU.                      *)
MappedCpu == NumCpus

VARIABLES
  data,        \* per CPU, the words of the data pages
  data_head,   \* per CPU, words written by the kernel since the mapping
  data_tail,   \* per CPU, words consumed by the handler
  dropped,     \* per CPU, the kernel has discarded a record for lack of space
  signals,     \* CPUs whose counter has a signal queued
  pc,          \* "idle", "loop", "sample", "finished"
  user_sample, \* samples given to user_sample_cb by this handler run
  queued       \* history: per CPU, the records in the buffer, oldest first

ringVars == <<data, data_head, data_tail>>
vars == <<ringVars, dropped, signals, pc, user_sample, queued>>

-----------------------------------------------------------------------------
(* Records. A word is a number; the serial number of a sample, the first    *)
(* head position after it, stands for its instruction and data addresses.   *)

PERF_RECORD_LOST == 2
PERF_RECORD_THROTTLE == 5
PERF_RECORD_SAMPLE == 9

HeaderWords == 2

(* header; ip; pid, tid; addr; cpu and padding; call chain of length 0.     *)
SampleRecord(cpu, n) ==
  <<PERF_RECORD_SAMPLE, 12, n, n, 7, 7, n, n, cpu, 0, 0, 0>>
(* header; id; number of lost records.                                      *)
LostRecord == <<PERF_RECORD_LOST, 6, 7, 7, 1, 1>>
(* header; time; id; stream id.                                             *)
ThrottleRecord == <<PERF_RECORD_THROTTLE, 8, 7, 7, 7, 7, 7, 7>>

Init ==
  /\ data = [c \in Cpus |-> [i \in 0..(Size - 1) |-> 0]]
  /\ data_head = [c \in Cpus |-> 0] /\ data_tail = [c \in Cpus |-> 0]
  /\ dropped = [c \in Cpus |-> FALSE]
  /\ signals = {}
  /\ pc = "idle" /\ user_sample = <<>>
  /\ queued = [c \in Cpus |-> <<>>]

-----------------------------------------------------------------------------
(* The kernel, external to the repository: perf_output_begin refuses a      *)
(* record that would fill the buffer completely, and reports a refusal in   *)
(* front of the next record that fits.                                      *)

Fits(c, words) == data_head[c] - data_tail[c] + Len(words) < Size

Put(c, words) ==
  /\ data' = [data EXCEPT ![c] =
       [i \in 0..(Size - 1) |->
          LET k == (i - data_head[c]) % Size
          IN  IF k < Len(words) THEN words[k + 1] ELSE data[c][i]]]
  /\ data_head' = [data_head EXCEPT ![c] = @ + Len(words)]

(* The record the kernel would write next.                                  *)
Output(c, record) == IF dropped[c] THEN LostRecord \o record ELSE record

(* History: what that adds to the buffer, and from which position on.       *)
Entries(c, type, n) ==
  IF dropped[c]
  THEN <<[type |-> "lost", n |-> 0, at |-> data_head[c]],
         [type |-> type, n |-> n, at |-> data_head[c] + Len(LostRecord)]>>
  ELSE <<[type |-> type, n |-> n, at |-> data_head[c]]>>

KernelWrites(c, record, entries) ==
  LET words == Output(c, record)
  IN /\ pc = "idle"
     /\ data_head[c] + Len(words) <= MaxHead
     /\ \/ /\ Fits(c, words)
           /\ Put(c, words)
           /\ dropped' = [dropped EXCEPT ![c] = FALSE]
           /\ queued' = [queued EXCEPT ![c] = @ \o entries]
        \/ /\ ~Fits(c, words)
           /\ dropped' = [dropped EXCEPT ![c] = TRUE]
           /\ UNCHANGED <<data, data_head, queued>>
     /\ UNCHANGED <<data_tail, pc, user_sample>>

(* A counter overflows: a sample is written if there is room for it, and    *)
(* the signal is sent in any case.                                          *)
Overflow(c) ==
  LET n == data_head[c] + 1
  IN /\ KernelWrites(c, SampleRecord(c, n), Entries(c, "sample", n))
     /\ signals' = signals \cup {c}

(* The kernel throttles the counter and says so in the buffer.              *)
Throttle(c) ==
  /\ KernelWrites(c, ThrottleRecord, Entries(c, "throttle", 0))
  /\ UNCHANGED signals

-----------------------------------------------------------------------------
(* Reading, always from the mapped buffer.                                  *)

(* perf_num_of_remaining_data.                                              *)
Remaining == data_head[MappedCpu] - data_tail[MappedCpu]

(* Variant for validation: the part after the wrap starts one word late.    *)
ReadWordsWrapsLate(n) ==
  LET tail == data_tail[MappedCpu] % Size
      atRight == Size - tail
      right == IF atRight < n THEN atRight ELSE n
  IN  [i \in 1..n |-> IF i <= right THEN data[MappedCpu][tail + i - 1]
                                   ELSE data[MappedCpu][i - right]]

(* perf_read_buffer_nbytes: the words to the right of the tail, then the    *)
(* rest from the left edge of the buffer.                                   *)
ReadWords(n) ==
  LET tail == data_tail[MappedCpu] % Size
      atRight == Size - tail
      right == IF atRight < n THEN atRight ELSE n
  IN  [i \in 1..n |-> IF i <= right THEN data[MappedCpu][tail + i - 1]
                                   ELSE data[MappedCpu][i - right - 1]]

(* perf_read_buffer_nbytes: data_tail += n.                                 *)
Consume(n) == data_tail' = [data_tail EXCEPT ![MappedCpu] = @ + n]

(* perf_skip_buffer_nbytes: as far as the head at most.                     *)
Skip(n) == Consume(IF n > Remaining THEN Remaining ELSE n)

(* The fields perf_read_record_sample reads: ip, pid, tid, addr, cpu.       *)
SampleWords == 7

(* perf_event_handler starts to parse for a signal of CPU c's counter; of   *)
(* the list entry it finds, mmap_buf is the buffer of the last CPU whatever *)
(* c is.                                                                    *)
Handle(c) ==
  /\ pc = "idle" /\ c \in signals
  /\ signals' = signals \ {c}
  /\ pc' = "loop" /\ user_sample' = <<>>
  /\ UNCHANGED <<ringVars, dropped, queued>>

(* Nothing left, or less than a header, which perf_skip_all discards: the   *)
(* loop ends.                                                               *)
LoopEnds ==
  /\ pc = "loop" /\ Remaining < HeaderWords
  /\ Skip(Remaining)
  /\ pc' = "finished"
  /\ UNCHANGED <<data, data_head, dropped, signals, user_sample, queued>>

Header == [type |-> ReadWords(HeaderWords)[1], size |-> ReadWords(HeaderWords)[2]]

(* A sample's header was read.                                              *)
ReadSampleHeader ==
  /\ pc = "loop" /\ Remaining >= HeaderWords
  /\ Header.type = PERF_RECORD_SAMPLE
  /\ Consume(HeaderWords)
  /\ pc' = "sample"
  /\ UNCHANGED <<data, data_head, dropped, signals, user_sample, queued>>

(* perf_read_record_sample and user_sample_cb.                              *)
ReadSample ==
  /\ pc = "sample"
  /\ LET w == ReadWords(SampleWords)
     IN user_sample' = Append(user_sample,
                              [ip |-> <<w[1], w[2]>>, addr |-> <<w[5], w[6]>>, cpu |-> w[7]])
  /\ Consume(SampleWords)
  /\ pc' = "loop"
  /\ UNCHANGED <<data, data_head, dropped, signals, queued>>

(* Variant for validation: a record of size 0 is skipped by its size.       *)
SkipRecordBySizeOnly ==
  /\ pc = "loop" /\ Remaining >= HeaderWords
  /\ Header.type # PERF_RECORD_SAMPLE
  /\ Skip(Header.size)
  /\ UNCHANGED <<data, data_head, dropped, signals, pc, user_sample, queued>>

(* Variant for validation: perf_skip_record forgets that the header was     *)
(* consumed already.                                                        *)
SkipRecordAndHeader ==
  /\ pc = "loop" /\ Remaining >= HeaderWords
  /\ Header.type # PERF_RECORD_SAMPLE
  /\ Skip(IF Header.size = 0 THEN Remaining ELSE Header.size + HeaderWords)
  /\ UNCHANGED <<data, data_head, dropped, signals, pc, user_sample, queued>>

(* Another record: perf_skip_all when its size is 0, else perf_skip_record, *)
(* which skips size minus the header already read.                          *)
SkipRecord ==
  /\ pc = "loop" /\ Remaining >= HeaderWords
  /\ Header.type # PERF_RECORD_SAMPLE
  /\ Skip(IF Header.size = 0 THEN Remaining ELSE Header.size)
  /\ UNCHANGED <<data, data_head, dropped, signals, pc, user_sample, queued>>

(* The counters are restarted and the handler returns.                      *)
Return ==
  /\ pc = "finished"
  /\ pc' = "idle"
  /\ queued' = [queued EXCEPT ![MappedCpu] = <<>>]
  /\ user_sample' = <<>>
  /\ UNCHANGED <<ringVars, dropped, signals>>

-----------------------------------------------------------------------------
Parse == LoopEnds \/ ReadSampleHeader \/ ReadSample \/ SkipRecord

Next ==
  \/ \E c \in Cpus : Overflow(c) \/ Throttle(c) \/ Handle(c)
  \/ Parse \/ Return

Spec == Init /\ [][Next]_vars

(* A running handler keeps running.                                         *)
FairSpec == Spec /\ WF_vars(Parse \/ Return)

-----------------------------------------------------------------------------
(* Properties.                                                              *)

(* The type of every variable; the handler never moves the tail past the    *)
(* head.                                                                    *)
TypeOK ==
  /\ data \in [Cpus -> [0..(Size - 1) -> Int]]
  /\ data_head \in [Cpus -> 0..MaxHead]
  /\ data_tail \in [Cpus -> 0..MaxHead]
  /\ \A c \in Cpus : data_tail[c] <= data_head[c]
  /\ dropped \in [Cpus -> BOOLEAN] /\ signals \subseteq Cpus
  /\ pc \in {"idle", "loop", "sample", "finished"}

IsSample(r) == r.type = "sample"

(* Record k of the mapped buffer is the oldest sample in it.                *)
Oldest(k) ==
  /\ IsSample(queued[MappedCpu][k])
  /\ \A j \in 1..(k - 1) : ~IsSample(queued[MappedCpu][j])

(* The sample the handler should hand out for record r of the mapped CPU.   *)
Intact(r) == [ip |-> <<r.n, r.n>>, addr |-> <<r.n, r.n>>, cpu |-> MappedCpu]

(* What a handler run makes of the mapped buffer: it empties it, and of the *)
(* samples in it exactly the oldest one reaches user_sample_cb, with the    *)
(* address fields the kernel wrote wherever the record wraps. The unread    *)
(* tail of that sample reads as a header of size 0, on which the loop skips *)
(* everything else.                                                         *)
OldestSampleOnly ==
  pc = "finished" =>
    /\ Remaining = 0
    /\ \/ /\ \A j \in DOMAIN queued[MappedCpu] : ~IsSample(queued[MappedCpu][j])
          /\ user_sample = <<>>
       \/ \E k \in DOMAIN queued[MappedCpu] :
            Oldest(k) /\ user_sample = <<Intact(queued[MappedCpu][k])>>

(* perf_read_record_sample asserts that every field it reads is there: the  *)
(* header it follows was that of a real sample, not of bytes in between.    *)
NoShortRead ==
  pc = "sample" =>
    /\ Remaining >= SampleWords
    /\ \E k \in DOMAIN queued[MappedCpu] :
         Oldest(k) /\ ReadWords(SampleWords)[1] = queued[MappedCpu][k].n

(* The parsing loop ends, whatever the kernel put in the buffer.            *)
ParsingEnds == (pc = "loop") ~> (pc = "finished")
=============================================================================
