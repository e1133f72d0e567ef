---------------------------- MODULE MCOmapGroup ----------------------------
(***************************************************************************)
(* Instances of OmapGroup for TLC: two gateways, worker threads as model   *)
(* values.                                                                 *)
(***************************************************************************)
EXTENDS OmapGroupInv, TLC

CONSTANTS ga, gb, wa, wb, wc

\* one worker thread: the second gateway only follows
OwnerOfOne == wa :> ga
\* one worker thread in each gateway
OwnerOfTwo == wa :> ga @@ wb :> gb
\* a second one in the first gateway
OwnerOfThree == wa :> ga @@ wb :> gb @@ wc :> ga

=============================================================================
