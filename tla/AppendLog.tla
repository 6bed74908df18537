------------------------------- MODULE AppendLog -------------------------------
(***************************************************************************)
(* What an output stream of the profiler promises to the code that writes  *)
(* to it: bytes are only ever appended, the file holds a prefix of what    *)
(* was appended, and a stream that was closed has lost nothing. OutputFile *)
(* implements it.                                                          *)
(***************************************************************************)
EXTENDS Sequences, SequencesExt

CONSTANT Streams

VARIABLES
  log,       \* per stream, the bytes appended to it so far
  durable,   \* per stream, the bytes of its file
  status     \* per stream, "open", "closed", or "abandoned"

logVars == <<log, durable, status>>

Init ==
  /\ log = [s \in Streams |-> <<>>]
  /\ durable = [s \in Streams |-> <<>>]
  /\ status = [s \in Streams |-> "open"]

Others(s) ==
  \A t \in Streams \ {s} :
    log'[t] = log[t] /\ durable'[t] = durable[t] /\ status'[t] = status[t]

(* The writer appends bytes at the end.                                     *)
AppendBytes(s) ==
  /\ status[s] = "open"
  /\ IsStrictPrefix(log[s], log'[s])
  /\ durable'[s] = durable[s] /\ status'[s] = "open"
  /\ Others(s)

(* More of the log reaches the file.                                        *)
Persist(s) ==
  /\ status[s] = "open"
  /\ IsStrictPrefix(durable[s], durable'[s])
  /\ IsPrefix(durable'[s], log[s])
  /\ log'[s] = log[s] /\ status'[s] = "open"
  /\ Others(s)

(* The stream is closed when all of the log is in the file.                 *)
Close(s) ==
  /\ status[s] = "open"
  /\ durable[s] = log[s]
  /\ status'[s] = "closed"
  /\ log'[s] = log[s] /\ durable'[s] = durable[s]
  /\ Others(s)

(* The device refuses the rest; what is in the file stays a prefix.         *)
Abandon(s) ==
  /\ status[s] = "open"
  /\ status'[s] = "abandoned"
  /\ log'[s] = log[s] /\ durable'[s] = durable[s]
  /\ Others(s)

Next ==
  \E s \in Streams : AppendBytes(s) \/ Persist(s) \/ Close(s) \/ Abandon(s)

Spec == Init /\ [][Next]_logVars
=============================================================================
