----------------------------- MODULE MCPerfRing -----------------------------
(* Small instances of PerfRing: a buffer of 32 words holds two samples and  *)
(* a lost or a throttle record, and a record wraps at every even offset.    *)
EXTENDS PerfRing
=============================================================================
