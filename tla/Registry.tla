-------------------------------- MODULE Registry --------------------------------
(***************************************************************************)
(* Which backend serves each capability: `resolve` and `instantiate` of    *)
(* crates/xray-manager-platform/src/registry.rs.                           *)
(*                                                                         *)
(* `found` is what the factories answered: per id of a compiled backend    *)
(* the capabilities it provides, its contract version, whether its probe   *)
(* succeeded, and whether what is missing are programs (the reason starts  *)
(* with "missing:").  Ids are numbers, in the order of the names.  `prefs` *)
(* are the choices of the command line, of config.toml and of state.json.  *)
(***************************************************************************)
EXTENDS Integers, FiniteSets

CONSTANTS
    None,       \* nothing was chosen
    AutoId        \* "auto" was chosen

ASSUME ChoiceAssumption == None \notin Nat /\ AutoId \notin Nat

\* enum Capability.
Capabilities == {"layout", "install", "identity", "service", "firewall", "policy_routing",
                 "tun", "app_runner", "mount_isolation", "desktop_proxy", "package_advice"}

\* enum SelectionSource, the explicit ones in the order in which they are asked.
Sources == {"cli", "config", "installed"}
Precedence == [cli |-> 1, config |-> 2, installed |-> 3, automatic |-> 4]

Preferences == [Sources -> [Capabilities -> Nat \cup {None, AutoId}]]
Descriptions == [provides : SUBSET Capabilities, contract : Nat,
                 available : BOOLEAN, missing : BOOLEAN]

\* A backend of another contract is unavailable, whatever its probe said, and its
\* reason is replaced.
Probed(found) ==
    [i \in DOMAIN found |->
        [found[i] EXCEPT !.available = @ /\ found[i].contract = 1,
                         !.missing = @ /\ found[i].contract = 1]]

\* The sources that ask for a backend by name; "auto" asks for none, and does not stop
\* the next source from being asked.
Asking(prefs, c) == {s \in Sources : prefs[s][c] \in Nat}

ExplicitSource(prefs, c) ==
    CHOOSE s \in Asking(prefs, c) :
        \A t \in Asking(prefs, c) : Precedence[s] <= Precedence[t]

Least(S) == CHOOSE i \in S : \A j \in S : i <= j

\* Without a request, the first available backend; if none is available the first that
\* might become so.
Providers(found, c) == {i \in DOMAIN found : c \in found[i].provides}
Automatic(found, c) ==
    LET up == {i \in Providers(found, c) : found[i].available}
        compiled == {i \in Providers(found, c) : found[i].contract = 1}
    IN  IF up # {} THEN Least(up) ELSE IF compiled # {} THEN Least(compiled) ELSE None

\* The source and the backend a capability would get.
Source(prefs, c) ==
    IF Asking(prefs, c) # {} THEN ExplicitSource(prefs, c) ELSE "automatic"
Picked(found, prefs, c) ==
    IF Asking(prefs, c) # {} THEN prefs[ExplicitSource(prefs, c)][c]
    ELSE Automatic(Probed(found), c)

\* An explicit choice must be compiled in and provide the capability; it must also be
\* available, unless it is what an earlier installation chose.
Refused(found, prefs, c) ==
    /\ Asking(prefs, c) # {}
    /\ LET i == Picked(found, prefs, c)
       IN  \/ i \notin DOMAIN found
           \/ c \notin found[i].provides
           \/ ~Probed(found)[i].available /\ Source(prefs, c) # "installed"

\* resolve: the first refusal fails the whole call.
Resolvable(found, prefs) == \A c \in Capabilities : ~Refused(found, prefs, c)

\* Of a call that succeeded: the backends, ...
Selections(found, prefs) == [c \in Capabilities |-> Picked(found, prefs, c)]

\* ... the capabilities with a backend whose probe succeeded, ...
Supported(found, prefs) ==
    {c \in Capabilities : Picked(found, prefs, c) # None
                          /\ Probed(found)[Picked(found, prefs, c)].available}

\* ... and those that only lack programs, of a backend nobody asked for this time.
Restorable(found, prefs) ==
    {c \in Capabilities : /\ Picked(found, prefs, c) # None
                          /\ c \notin Supported(found, prefs)
                          /\ Probed(found)[Picked(found, prefs, c)].missing
                          /\ Source(prefs, c) \in {"automatic", "installed"}}

\* instantiate: every selected backend has a factory and can make the component.
Instantiable(found, selections) ==
    \A c \in Capabilities :
        selections[c] # None => /\ selections[c] \in DOMAIN found
                                /\ c \in found[selections[c]].provides
================================================================================
