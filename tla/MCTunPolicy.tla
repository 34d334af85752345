------------------------------ MODULE MCTunPolicy ------------------------------
(* Instances of TunPolicy for TLC.  Its state is finite as it stands.          *)
EXTENDS TunPolicy

\* A fault may occur and need not, so behaviours with fewer faults are behaviours
\* with more; beside all of them together, the sets that leave out what the
\* properties of a success or a failure exclude.
WorstFaults == {Faults, {"add", "crash"}, {"add", "boot"}}
AddFaults == {{"add"}}
================================================================================
