------------------------------- MODULE MCCommand -------------------------------
(* Instances of Command for TLC.                                               *)
EXTENDS Command

CONSTANTS b1, b2

\* The second release has been compiled without nftables.
MCCompiled == [b \in Builds |-> IF b = b1 THEN Backends ELSE Backends \ {7}]

\* At most a choice for the firewall.
Choosing(id) == [NoChoices EXCEPT !["firewall"] = id]
MCCliChoices == {NoChoices, Choosing(7)}
MCConfigChoices == {NoChoices, Choosing(AutoId)}
================================================================================
