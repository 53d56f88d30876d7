----------------------------- MODULE MCCpuFreq -----------------------------
(* Bounded instances of CpuFreq: two drivers, three quiet windows at most.   *)
EXTENDS CpuFreq
=============================================================================
