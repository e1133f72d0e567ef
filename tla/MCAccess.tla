------------------------------ MODULE MCAccess ------------------------------
(***************************************************************************)
(* Small instances of Access for TLC.                                      *)
(***************************************************************************)
EXTENDS Access, TLC

\* the code treats gateways and callers alike
AccessSymmetry == Permutations(Gateways) \cup Permutations(Clients)

SomeAsks ==
    {[op |-> "create", serial |-> None, key |-> 0],
     [op |-> "create", serial |-> 0, key |-> 1],
     [op |-> "delete"],
     [op |-> "add", host |-> 1, psk |-> 0, key |-> 0],
     [op |-> "add", host |-> 1, psk |-> 1, key |-> 2],
     [op |-> "add", host |-> 3, psk |-> 0, key |-> 2],
     [op |-> "add", host |-> Star, psk |-> 0, key |-> 0],
     [op |-> "remove", host |-> 1], [op |-> "remove", host |-> Star],
     [op |-> "hostkey", host |-> 1, key |-> 0],
     [op |-> "hostkey", host |-> 1, key |-> 2],
     [op |-> "subkey", key |-> 0], [op |-> "subkey", key |-> 2]}

\* a subsystem with a key and two hosts, one without key and one host, none,
\* one open to any host
SomeStarts ==
    {[sub |-> [inst |-> 0, key |-> 1],
      hosts |-> [h \in HostKeys |-> IF h \in {3, Star} THEN None ELSE [psk |-> 0, key |-> 1]]],
     [sub |-> [inst |-> 0, key |-> 0],
      hosts |-> [NoHosts EXCEPT ![1] = [psk |-> 1, key |-> 0]]],
     EmptyContent,
     [sub |-> [inst |-> 0, key |-> 0],
      hosts |-> [NoHosts EXCEPT ![Star] = [psk |-> 0, key |-> 0]]]}

\* a change of the subsystem's key next to another change
KeyAsks ==
    {[op |-> "subkey", key |-> 2], [op |-> "remove", host |-> 1]}

=============================================================================
