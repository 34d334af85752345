----------------------------- MODULE MCConfigApply -----------------------------
(* Instances of ConfigApply for TLC. *)
EXTENDS ConfigApply

CONSTANTS c1, t1, n1, n2, s1, r1, r2

\* n1 and n2 are the same server with rotated credentials: one subscription, one
\* name, two fingerprints.
MCSubOf == [n \in Nodes |-> s1]
MCNameOf == [n \in Nodes |-> "name"]
================================================================================
