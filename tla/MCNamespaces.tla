---------------------------- MODULE MCNamespaces ----------------------------
(***************************************************************************)
(* A small instance of Namespaces for TLC.                                 *)
(***************************************************************************)
EXTENDS Namespaces, TLC

\* the code treats gateways, callers and UUIDs alike
NsSymmetry == Permutations(Gateways) \cup Permutations(Clients) \cup Permutations(Uuids)

=============================================================================
