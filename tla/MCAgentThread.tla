---------------------------- MODULE MCAgentThread ----------------------------
(* Small instances of AgentThread.                                          *)
EXTENDS AgentThread, TLC

CONSTANTS c1, c2

CpuSymmetry == Permutations({c1, c2})
=============================================================================
