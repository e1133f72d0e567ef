---------------------------- MODULE MCRebalance ----------------------------
(***************************************************************************)
(* Small instances of Rebalance for TLC.                                   *)
(***************************************************************************)
EXTENDS Rebalance, TLC

CONSTANTS s1, s2

\* two namespaces of one subsystem, the others of another
TwoSubsystems == [n \in Namespaces |-> IF n \in {1, 2} THEN s2 ELSE s1]

\* everything in group 1
AllInOne == [n \in Namespaces |-> 1]

\* in two of the groups, and one that is yet to be added
TwoGroups == [n \in Namespaces |-> IF n = 4 THEN 0 ELSE 1 + (n % 2)]

=============================================================================
