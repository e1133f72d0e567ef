---------------------------- MODULE MCListeners ----------------------------
(***************************************************************************)
(* Small instances of Listeners for TLC.                                   *)
(***************************************************************************)
EXTENDS Listeners, TLC

\* the code treats gateways and callers alike
ListenerSymmetry == Permutations(Gateways) \cup Permutations(Clients)

SomeAsks ==
    [op : {"create", "delete", "open", "close"}]
    \cup [op : {"listen"}, host : Gateways, addr : Addrs, secure : BOOLEAN, verify : {FALSE}]
    \cup [op : {"listen"}, host : Gateways, addr : Addrs, secure : {FALSE}, verify : {TRUE}]
    \cup [op : {"unlisten"}, host : Gateways, addr : Addrs, force : BOOLEAN]
    \cup [op : {"unlisten"}, host : {Star}, addr : Addrs, force : {TRUE}]

Plain(sub, any, all) ==
    [sub |-> sub, any |-> any,
     lst |-> [g \in Gateways |-> [a \in Addrs |-> IF all THEN FALSE ELSE None]]]

\* a listener at every address of every gateway, or nothing but open access
SomeStarts == {Plain(0, FALSE, TRUE), Plain(0, TRUE, FALSE), EmptyContent}

\* a subsystem with nothing else
BareStarts == {Plain(0, FALSE, FALSE)}

=============================================================================
