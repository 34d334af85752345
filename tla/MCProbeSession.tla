---------------------------- MODULE MCProbeSession ----------------------------
(* Instances of ProbeSession for TLC.                                          *)
EXTENDS ProbeSession

CONSTANTS n1, n2
================================================================================
