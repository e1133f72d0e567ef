------------------------- MODULE MCNamespaceEntries -------------------------
(***************************************************************************)
(* Small instances of NamespaceEntries for TLC.                            *)
(***************************************************************************)
EXTENDS NamespaceEntries, TLC

\* the code treats gateways and callers alike
EntrySymmetry == Permutations(Gateways) \cup Permutations(Clients)

SomeAsks ==
    {[op |-> "add", grp |-> 1, vis |-> FALSE, trash |-> TRUE],
     [op |-> "delete", sure |-> TRUE],
     [op |-> "group", grp |-> 2],
     [op |-> "vis", vis |-> TRUE, force |-> TRUE],
     [op |-> "vis", vis |-> TRUE, force |-> FALSE],
     [op |-> "vis", vis |-> FALSE, force |-> FALSE],
     [op |-> "trash", trash |-> TRUE], [op |-> "trash", trash |-> FALSE],
     [op |-> "qos", limit |-> 1, value |-> 1], [op |-> "qos", limit |-> 2, value |-> 1],
     [op |-> "addhost", host |-> 1], [op |-> "delhost", host |-> 1]}

SomeStarts ==
    {[ns |-> [inst |-> 0, grp |-> 1, vis |-> FALSE, trash |-> FALSE],
      qos |-> [l \in Limits |-> 1], hosts |-> Hosts],
     [ns |-> [inst |-> 0, grp |-> 1, vis |-> TRUE, trash |-> TRUE],
      qos |-> [NoLimits EXCEPT ![1] = 1], hosts |-> {}],
     [ns |-> [inst |-> 0, grp |-> 2, vis |-> FALSE, trash |-> TRUE],
      qos |-> NoLimits, hosts |-> {}]}

=============================================================================
