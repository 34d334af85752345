---------------------------- MODULE MCSubscriptions ----------------------------
(* Instances of Subscriptions for TLC.                                         *)
EXTENDS Subscriptions, TLC

CONSTANTS c1, t1, s1

Link(scheme, user, name, params) ==
    [scheme |-> scheme, user |-> user, server |-> "host", name |-> name, params |-> params]

NoParams == [key \in {} |-> "none"]

\* A server whose user is rotated and whose name is kept, a second of the same name, a
\* Hysteria2 node that gets a parameter nobody knows, and links that warn or are refused.
Old == Link("vless", "u1", "a", NoParams)
Rotated == Link("vless", "u2", "a", NoParams)
Hysteria == Link("hysteria2", "u1", "b", NoParams)
Unmapped == Link("hysteria2", "u1", "b", "hop" :> "1")
Broken == Link("vless", Malformed, "a", NoParams)

Vless == {Link("vless", "u1", "a", ps) :
            ps \in {"seed" :> "1", "fm" :> "bad tcp" @@ "fragment" :> "range"}}
Plugin == Link("ss", "u1", "a", "plugin" :> "obfs-local")

MCResponses == {{Old}, {Rotated}, {Old, Rotated, Broken}, {Hysteria}, {Unmapped, Plugin},
                {Broken}, Vless}
================================================================================
