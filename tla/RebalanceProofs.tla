--------------------------- MODULE RebalanceProofs ---------------------------
(***************************************************************************)
(* Proofs about Rebalance for every number of gateways, namespaces and     *)
(* subsystems, and whatever the users and the monitor do.                  *)
(***************************************************************************)
EXTENDS Rebalance, FiniteSetTheorems, WellFoundedInduction, TLAPS

\* A source above the target only fits a destination that has at least two
\* namespaces less: rebalance_logic's three conditions, for all loads.
LEMMA FittingMoveNarrows ==
    ASSUME NEW src \in Nat, NEW min \in Nat, NEW total \in Nat, NEW groups \in Nat,
           AboveTarget(src, total, groups), Fits(src, min, total, groups)
    PROVE  src >= min + 2
  <1>1. CASE (min + 1) * groups <= total
    <2>1. (min + 1) * groups < src * groups
      BY <1>1 DEF AboveTarget
    <2>2. ASSUME src <= min + 1
          PROVE  FALSE
      <3>1. PICK k \in Nat : min + 1 = src + k
        <4>1. min + 1 - src \in Nat
          BY <2>2
        <4> QED
          BY <4>1
      <3>2. (src + k) * groups = src * groups + k * groups
        OBVIOUS
      <3>3. k * groups \in Nat /\ src * groups \in Nat
        OBVIOUS
      <3> QED
        BY <2>1, <3>1, <3>2, <3>3
    <2> QED
      BY <2>2
  <1>2. CASE src > 1 /\ min = 0
    BY <1>2
  <1>3. CASE src - 1 = min + 1
    BY <1>3
  <1> QED
    BY <1>1, <1>2, <1>3 DEF Fits

(***************************************************************************)
(* The list of a gateway whose version is current is what the OMAP holds   *)
(***************************************************************************)
FreshInv ==
    /\ created \subseteq Groups
    /\ fresh \subseteq created
    /\ view = [g \in Groups |-> view[g]]
    /\ pending = [g \in Groups |-> pending[g]]
    /\ \A g \in fresh : view[g] = omap

LEMMA FreshInit == RebalanceInit => FreshInv
  BY DEF RebalanceInit, FreshInv

\* One gateway writes: it is the only one that is fresh afterwards.
LEMMA FreshWrite ==
    ASSUME FreshInv, NEW g, NEW n, NEW a, Write(g, n, a), UNCHANGED created
    PROVE  /\ fresh' \subseteq created'
           /\ view' = [h \in Groups |-> view'[h]]
           /\ \A h \in fresh' : view'[h] = omap'
  BY DEF FreshInv, Write

LEMMA FreshRefresh ==
    ASSUME FreshInv, NEW g \in Groups, Refresh(g), UNCHANGED omap, g \in created',
           created \subseteq created'
    PROVE  /\ fresh' \subseteq created'
           /\ view' = [h \in Groups |-> view'[h]]
           /\ \A h \in fresh' : view'[h] = omap'
  BY DEF FreshInv, Refresh

LEMMA FreshStep ==
    ASSUME FreshInv, [RebalanceNext]_rebalanceVars
    PROVE  FreshInv'
  <1>1. ASSUME NEW g \in Groups, Decide(g)
        PROVE  FreshInv'
    BY <1>1 DEF FreshInv, Decide, DecideWith, monitorVars
  <1>2. ASSUME NEW g \in Groups, Move(g)
        PROVE  FreshInv'
    <2>1. CASE Write(g, pending[g].ns, pending[g].dst)
      BY <1>2, <2>1, FreshWrite DEF FreshInv, Move, monitorVars
    <2>2. CASE UNCHANGED <<omap, view, fresh, loaded>>
      BY <1>2, <2>2 DEF FreshInv, Move, monitorVars
    <2> QED
      BY <1>2, <2>1, <2>2 DEF Move, ChangeGroup
  <1>3. ASSUME NEW g \in Groups, Update(g)
        PROVE  FreshInv'
    BY <1>3, FreshRefresh DEF FreshInv, Update, monitorVars
  <1>4. ASSUME NEW g \in Groups, Retry(g)
        PROVE  FreshInv'
    BY <1>4, FreshRefresh DEF FreshInv, Retry, monitorVars
  <1>5. ASSUME NEW g \in Groups, Ask(g)
        PROVE  FreshInv'
    BY <1>5 DEF FreshInv, Ask, monitorVars
  <1>6. CASE Serve
    <2>1. PICK n, a : Write(req.gw, n, a)
      BY <1>6 DEF Serve, ServeAdd, ServeDelete, ServeChange
    <2> QED
      BY <1>6, <2>1, FreshWrite DEF FreshInv, Serve, monitorVars
  <1>7. CASE Reject
    BY <1>7 DEF FreshInv, Reject, gatewayVars, monitorVars
  <1>8. CASE Rotate
    BY <1>8 DEF FreshInv, Rotate, gatewayVars
  <1>9. ASSUME NEW g \in Groups, ScaleDown(g)
        PROVE  FreshInv'
    BY <1>9 DEF FreshInv, ScaleDown
  <1>10. ASSUME NEW g \in Groups, Purge(g)
         PROVE  FreshInv'
    BY <1>10 DEF FreshInv, Purge, gatewayVars
  <1>11. ASSUME NEW g \in Groups, ScaleUp(g)
         PROVE  FreshInv'
    BY <1>11, FreshRefresh DEF FreshInv, ScaleUp
  <1>12. CASE UNCHANGED rebalanceVars
    BY <1>12 DEF FreshInv, rebalanceVars, gatewayVars, monitorVars
  <1> QED
    BY <1>1, <1>2, <1>3, <1>4, <1>5, <1>6, <1>7, <1>8, <1>9, <1>10, <1>11, <1>12
       DEF RebalanceNext

(***************************************************************************)
(* Decisions of a current gateway narrow the distribution                  *)
(***************************************************************************)
Narrows(p, m) == SubsLoad(p, m.src, Nqn[m.ns]) >= SubsLoad(p, m.dst, Nqn[m.ns]) + 2

LEMMA CountsAreNatural ==
    ASSUME NEW p, NEW a, NEW q
    PROVE  SubsLoad(p, a, q) \in Nat /\ Total(p, q) \in Nat
  <1>1. IsFiniteSet({n \in Namespaces : p[n] = a /\ Nqn[n] = q})
    BY NamespaceAssumption, FS_Subset
  <1>2. IsFiniteSet({n \in Namespaces : p[n] # 0 /\ Nqn[n] = q})
    BY NamespaceAssumption, FS_Subset
  <1> QED
    BY <1>1, <1>2, FS_CardinalityType DEF SubsLoad, Total

LEMMA RegularMovesNarrow ==
    ASSUME NEW list \in SUBSET Groups, NEW g \in Groups, NEW a \in Groups,
           NEW m \in RegularMoves(list, g, a)
    PROVE  Narrows(view[g], m)
  <1> DEFINE p == view[g]
             size == Cardinality(list)
  <1>1. size \in Nat
    <2>1. IsFiniteSet(Groups)
      BY FS_Interval, GroupAssumption DEF Groups
    <2> QED
      BY <2>1, FS_Subset, FS_CardinalityType
  <1>2. PICK n \in Namespaces, b \in list :
            /\ m = MoveOf("regular", n, a, b)
            /\ AboveTarget(SubsLoad(p, a, Nqn[n]), Total(p, Nqn[n]), size)
            /\ Fits(SubsLoad(p, a, Nqn[n]), SubsLoad(p, b, Nqn[n]), Total(p, Nqn[n]), size)
    BY DEF RegularMoves
  <1>3. SubsLoad(p, a, Nqn[n]) >= SubsLoad(p, b, Nqn[n]) + 2
    BY <1>1, <1>2, CountsAreNatural, FittingMoveNarrows
  <1> QED
    BY <1>2, <1>3 DEF Narrows, MoveOf

LEMMA DecisionNarrows ==
    ASSUME NEW list \in SUBSET Groups, NEW g \in Groups, NEW m \in Decisions(list, g),
           m.kind = "regular"
    PROVE  Narrows(view[g], m)
  <1>1. PICK a \in Groups : m \in GroupMoves(list, g, a)
    BY DEF Decisions
  <1>2. \A b, kind : m \in ToMinGroup(list, g, kind, b) => m.kind = kind
    BY DEF ToMinGroup, MoveOf
  <1>3. m \in RegularMoves(list, g, a)
    BY <1>1, <1>2 DEF GroupMoves
  <1> QED
    BY <1>3, RegularMovesNarrow

\* No regular move that a gateway with a current list decides on can be undone
\* by another such decision: each takes two groups closer to each other.
THEOREM DecisionsAlwaysNarrow == RebalanceSpec => DecisionsNarrow
  <1>1. RebalanceInit => FreshInv
    BY FreshInit
  <1>2. FreshInv /\ [RebalanceNext]_rebalanceVars => FreshInv'
    BY FreshStep
  <1> DEFINE Narrow ==
        \A g \in Groups :
          LET m == pending'[g] IN
          g \in fresh \ drifted /\ pending[g] = None /\ m # None /\ m.kind = "regular" =>
             SubsLoad(omap, m.src, Nqn[m.ns]) >= SubsLoad(omap, m.dst, Nqn[m.ns]) + 2
  <1>3. FreshInv /\ [RebalanceNext]_rebalanceVars => [Narrow]_rebalanceVars
    <2> SUFFICES ASSUME FreshInv, RebalanceNext, NEW g \in Groups,
                        g \in fresh \ drifted, pending[g] = None, pending'[g] # None,
                        pending'[g].kind = "regular"
                 PROVE  Narrows(omap, pending'[g])
      BY DEF Narrows
    <2>1. ASSUME NEW h \in Groups, Decide(h)
          PROVE  Narrows(omap, pending'[g])
      <3>1. PICK list, again \in Answers : DecideWith(h, list, again)
        BY <2>1 DEF Decide
      <3>2. list \in SUBSET Groups
        BY DEF Answers, FreshInv
      <3>3. h = g
        BY <3>1 DEF DecideWith, FreshInv
      <3>4. pending'[g] \in Decisions(list, g)
        BY <3>1, <3>3 DEF DecideWith, FreshInv
      <3> QED
        BY <3>2, <3>4, DecisionNarrows DEF FreshInv
    <2>2. ASSUME pending' = pending \/ \E h \in Groups : pending' = [pending EXCEPT ![h] = None]
          PROVE  FALSE
      BY <2>2 DEF FreshInv
    <2> QED
      BY <2>1, <2>2 DEF RebalanceNext, Move, Update, Retry, Ask, Serve, Reject, Rotate,
                        ScaleDown, Purge, ScaleUp, gatewayVars
  <1> QED
    BY <1>1, <1>2, <1>3, PTL DEF RebalanceSpec, DecisionsNarrow

(***************************************************************************)
(* The groups with the least load                                          *)
(***************************************************************************)
LEMMA Smallest ==
    ASSUME NEW T \in SUBSET Nat, T # {}
    PROVE  \E m \in T : \A n \in T : m <= n
  <1> DEFINE R == OpToRel(<, Nat)
  <1>1. IsWellFoundedOn(R, Nat)
    BY NatLessThanWellFounded
  <1>2. \A x, y \in Nat : x < y => <<x, y>> \in R
    BY DEF OpToRel
  <1> HIDE DEF R
  <1>3. \E m \in T : \A n \in T : ~ (<<n, m>> \in R)
    BY <1>1, WFMin
  <1>4. PICK m \in T : \A n \in T : <<n, m>> \notin R
    BY <1>3
  <1>5. ASSUME NEW n \in T
        PROVE  m <= n
    <2>1. m \in Nat /\ n \in Nat
      OBVIOUS
    <2>2. ~ (n < m)
      BY <1>2, <1>4, <2>1
    <2> QED
      BY <2>1, <2>2
  <1> QED
    BY <1>5

LEMMA Least ==
    ASSUME NEW S, S # {}, NEW f \in [S -> Nat]
    PROVE  \E x \in S : \A y \in S : f[x] <= f[y]
  <1> DEFINE T == {f[x] : x \in S}
  <1>1. T \in SUBSET Nat /\ T # {}
    OBVIOUS
  <1>2. PICK m \in T : \A n \in T : m <= n
    BY <1>1, Smallest
  <1>3. PICK x \in S : f[x] = m
    OBVIOUS
  <1> QED
    BY <1>2, <1>3

\* A set of groups has a last one.
LEMMA LastGroup ==
    ASSUME NEW S \in SUBSET Groups, S # {}
    PROVE  \E x \in S : \A y \in S : y <= x
  <1>1. \A x \in S : x \in Nat /\ NumGroups - x \in Nat
    BY GroupAssumption DEF Groups
  <1> DEFINE f == [x \in S |-> NumGroups - x]
  <1>2. f \in [S -> Nat]
    BY <1>1
  <1>3. PICK x \in S : \A y \in S : f[x] <= f[y]
    BY <1>2, Least
  <1>4. ASSUME NEW y \in S
        PROVE  y <= x
    <2>1. NumGroups - x <= NumGroups - y
      BY <1>3
    <2> QED
      BY <1>1, <2>1, GroupAssumption
  <1> QED
    BY <1>4

\* The last group without a gateway is one, if there is any.
LEMMA LastInvalidIsGroup ==
    ASSUME NEW list, NEW p, Invalid(list, p) # {}
    PROVE  LastInvalid(list, p) \in Groups
  <1>1. Invalid(list, p) \in SUBSET Groups
    BY DEF Invalid
  <1>2. \E x \in Invalid(list, p) : \A y \in Invalid(list, p) : y <= x
    BY <1>1, LastGroup
  <1> QED
    BY <1>1, <1>2 DEF LastInvalid

(***************************************************************************)
(* Types                                                                   *)
(***************************************************************************)
\* What a group's turn in rebalance_logic gives goes from a group to the group
\* of an answer, or to none.
LEMMA MovesToMinAreMoves ==
    ASSUME NEW list \in SUBSET Groups, NEW g, NEW kind \in {"scale_down", "deadlock"},
           NEW a \in Groups, NEW m \in ToMinGroup(list, g, kind, a), m.dst \in Groups
    PROVE  m \in Moves
  <1>1. PICK n \in Namespaces : m = MoveOf(kind, n, a, MinGroup(list, view[g]))
    BY DEF ToMinGroup
  <1> QED
    BY <1>1 DEF Moves, MoveOf

\* What rebalance_logic decides, and the monitor's second answer lets pass, is a
\* move of a namespace between two groups.
LEMMA DecisionsAreMoves ==
    ASSUME NEW list \in SUBSET Groups, NEW g, NEW m \in Decisions(list, g),
           m.kind = "regular" \/ m.dst \in Groups
    PROVE  m \in Moves
  <1>1. PICK a \in Groups : m \in GroupMoves(list, g, a)
    BY DEF Decisions
  <1>2. CASE m \in RegularMoves(list, g, a)
    <2>1. PICK n \in Namespaces, b \in list : m = MoveOf("regular", n, a, b)
      BY <1>2 DEF RegularMoves
    <2> QED
      BY <2>1 DEF Moves, MoveOf
  <1>3. ASSUME NEW kind \in {"scale_down", "deadlock"}, NEW b \in Groups,
               m \in ToMinGroup(list, g, kind, b)
        PROVE  m \in Moves
    <2>1. m.kind = kind
      BY <1>3 DEF ToMinGroup, MoveOf
    <2> QED
      BY <1>3, <2>1, MovesToMinAreMoves
  <1>4. Invalid(list, view[g]) # {} => LastInvalid(list, view[g]) \in Groups
    BY LastInvalidIsGroup
  <1> QED
    BY <1>1, <1>2, <1>3, <1>4 DEF GroupMoves

LEMMA TypeInit ==
    ASSUME RebalanceInit
    PROVE  RebalanceTypeOK
  <1>1. \A n \in Namespaces : Placed[n] \in Groups \cup {0}
    BY PlacedAssumption DEF Placement
  <1>2. {Placed[n] : n \in Namespaces} \ {0} \subseteq Groups
    BY <1>1
  <1> QED
    BY <1>2, PlacedAssumption, RebalanceBounds DEF RebalanceInit, RebalanceTypeOK, Placement

LEMMA TypeWrite ==
    ASSUME RebalanceTypeOK, NEW g \in Groups, NEW n \in Namespaces, NEW a \in Groups \cup {0},
           Write(g, n, a), UNCHANGED created
    PROVE  /\ omap' \in Placement
           /\ view' \in [Groups -> Placement]
           /\ fresh' \subseteq created'
           /\ loaded' \in [Groups -> SUBSET Groups]
  <1>1. omap \in Placement /\ view \in [Groups -> Placement] /\ fresh \subseteq created
        /\ loaded \in [Groups -> SUBSET Groups]
    BY DEF RebalanceTypeOK
  <1>2. omap' \in Placement
    BY <1>1 DEF Write, Placement
  <1>3. view' \in [Groups -> Placement]
    <2>1. [view[g] EXCEPT ![n] = a] \in Placement
      BY <1>1 DEF Placement
    <2> QED
      BY <1>1, <2>1 DEF Write
  <1>4. loaded' \in [Groups -> SUBSET Groups]
    <2>1. loaded[g] \cup ({a} \ {0}) \in SUBSET Groups
      BY <1>1
    <2> QED
      BY <1>1, <2>1 DEF Write
  <1> QED
    BY <1>1, <1>2, <1>3, <1>4 DEF Write

LEMMA TypeRefresh ==
    ASSUME RebalanceTypeOK, NEW g \in Groups, Refresh(g)
    PROVE  /\ view' \in [Groups -> Placement]
           /\ renewed' \subseteq Groups \X Namespaces
           /\ fresh' = fresh \cup {g}
           /\ Served \subseteq Groups
  <1>1. omap \in Placement /\ view \in [Groups -> Placement]
        /\ renewed \subseteq Groups \X Namespaces
    BY DEF RebalanceTypeOK
  <1>2. view' \in [Groups -> Placement]
    BY <1>1 DEF Refresh
  <1>3. \A n \in Namespaces : omap[n] \in Groups \cup {0}
    BY <1>1 DEF Placement
  <1>4. Served \subseteq Groups
    BY <1>3 DEF Served
  <1> QED
    BY <1>1, <1>2, <1>4 DEF Refresh

\* The group that namespace_add looks for is one, or none was asked for.
LEMMA LooksForGroups ==
    ASSUME NEW list \in SUBSET Groups, NEW p, NEW kind, NEW n
    PROVE  LooksFor(list, p, kind, n) \subseteq Groups \cup {0}
  BY DEF LooksFor, MinInSubsys

LEMMA TypeStep ==
    ASSUME RebalanceTypeOK, [RebalanceNext]_rebalanceVars
    PROVE  RebalanceTypeOK'
  <1> USE DEF RebalanceTypeOK
  <1>0. created \subseteq Groups /\ created # {}
    OBVIOUS
  <1>1. ASSUME NEW g \in Groups, Decide(g)
        PROVE  RebalanceTypeOK'
    <2>1. PICK list, again \in Answers : DecideWith(g, list, again)
      BY <1>1 DEF Decide
    <2>2. list \in SUBSET Groups /\ again \in SUBSET Groups
      BY <1>0 DEF Answers
    <2>3. PICK m \in IF g \in drifted THEN AnyMoves(list, g) ELSE Decisions(list, g) :
              /\ pending' = IF m.dst \in again THEN [pending EXCEPT ![g] = m] ELSE pending
              /\ loaded' = IF m.kind = "regular"
                           THEN [loaded EXCEPT ![g] = @ \cup {m.dst}] ELSE loaded
      BY <2>1 DEF DecideWith
    <2>4. m.kind = "regular" \/ m.dst \in Groups => m \in Moves
      BY <2>2, <2>3, DecisionsAreMoves DEF AnyMoves
    <2>5. m \in Moves => m.dst \in Groups
      BY DEF Moves
    <2>6. pending' \in [Groups -> Moves \cup {None}]
      BY <2>2, <2>3, <2>4
    <2>7. loaded' \in [Groups -> SUBSET Groups]
      BY <2>3, <2>4, <2>5
    <2> QED
      BY <2>1, <2>6, <2>7 DEF DecideWith, monitorVars
  <1>2. ASSUME NEW g \in Groups, Move(g)
        PROVE  RebalanceTypeOK'
    <2>1. pending[g] \in Moves
      BY <1>2 DEF Move
    <2>2. pending[g].ns \in Namespaces /\ pending[g].dst \in Groups
      BY <2>1 DEF Moves
    <2>3. /\ pending' \in [Groups -> Moves \cup {None}]
          /\ renewed' \subseteq Groups \X Namespaces /\ drifted' \subseteq Groups
      BY <1>2 DEF Move, Finds
    <2>4. CASE Write(g, pending[g].ns, pending[g].dst)
      BY <1>2, <2>2, <2>3, <2>4, TypeWrite DEF Move, monitorVars
    <2>5. CASE UNCHANGED <<omap, view, fresh, loaded>>
      BY <1>2, <2>3, <2>5 DEF Move, monitorVars
    <2> QED
      BY <1>2, <2>4, <2>5 DEF Move, ChangeGroup
  <1>3. ASSUME NEW g \in Groups, Update(g)
        PROVE  RebalanceTypeOK'
    <2>1. loaded' \in [Groups -> SUBSET Groups]
      BY <1>3, TypeRefresh DEF Update
    <2> QED
      BY <1>3, <2>1, TypeRefresh DEF Update, monitorVars
  <1>4. ASSUME NEW g \in Groups, Retry(g)
        PROVE  RebalanceTypeOK'
    <2>1. Refresh(g) /\ Served \subseteq Groups
      BY <1>4, TypeRefresh DEF Retry
    <2>2. CASE /\ pending' = [pending EXCEPT ![g] = None]
               /\ loaded' = [loaded EXCEPT ![g] = @ \cup Served]
               /\ UNCHANGED <<req, requests>>
      <3>1. loaded' \in [Groups -> SUBSET Groups]
        BY <2>1, <2>2
      <3> QED
        BY <1>4, <2>1, <2>2, <3>1, TypeRefresh DEF Retry, monitorVars
    <2>3. ASSUME NEW list \in Answers,
                 req' = IF req.kind = "del" \/ req.grp \in list THEN req ELSE None,
                 NEW b \in LooksFor(list, omap, req.kind, req.ns),
                 loaded' = [loaded EXCEPT ![g] = @ \cup Served \cup ({b} \ {0})],
                 UNCHANGED <<pending, requests>>
          PROVE  RebalanceTypeOK'
      <3>1. list \in SUBSET Groups
        BY <1>0, <2>3 DEF Answers
      <3>2. b \in Groups \cup {0}
        BY <2>3, <3>1, LooksForGroups
      <3>3. loaded' \in [Groups -> SUBSET Groups]
        BY <2>1, <2>3, <3>2
      <3>4. req' \in Requests \cup {None}
        BY <2>3
      <3> QED
        BY <1>4, <2>1, <2>3, <3>3, <3>4, TypeRefresh DEF Retry, monitorVars
    <2> QED
      BY <1>4, <2>2, <2>3 DEF Retry
  <1>5. ASSUME NEW g \in Groups, Ask(g)
        PROVE  RebalanceTypeOK'
    <2>1. PICK n \in Namespaces, a \in created, k \in {"add", "change", "del"} :
              /\ req' = [kind |-> k, gw |-> g, ns |-> n, grp |-> a]
              /\ \E b \in LooksFor(created, view[g], k, n) :
                    loaded' = [loaded EXCEPT ![g] = @ \cup ({b} \ {0})]
      BY <1>5 DEF Ask
    <2>2. req' \in Requests
      BY <2>1 DEF Requests
    <2>3. LooksFor(created, view[g], k, n) \subseteq Groups \cup {0}
      BY <1>0, LooksForGroups
    <2>4. loaded' \in [Groups -> SUBSET Groups]
      BY <2>1, <2>3
    <2>5. requests' \in 0..MaxRequests
      BY <1>5, RebalanceBounds DEF Ask
    <2> QED
      BY <1>5, <2>2, <2>4, <2>5 DEF Ask, monitorVars
  <1>6. CASE Serve
    <2>1. req \in Requests
      BY <1>6 DEF Serve
    <2>2. req.gw \in Groups /\ req.ns \in Namespaces /\ req.grp \in Groups
      BY <2>1 DEF Requests
    <2>3. PICK a \in Groups \cup {0} : Write(req.gw, req.ns, a)
      BY <1>6, <2>2 DEF Serve, ServeAdd, ServeDelete, ServeChange
    <2>4. Renewed(req.gw, req.ns) \subseteq Groups \X Namespaces
      BY <2>2 DEF Renewed
    <2>5. renewed' \subseteq Groups \X Namespaces
      BY <1>6, <2>4 DEF Serve, ServeAdd, ServeDelete, ServeChange
    <2> QED
      BY <1>6, <2>2, <2>3, <2>5, TypeWrite DEF Serve, monitorVars
  <1>7. CASE Reject
    BY <1>7 DEF Reject, gatewayVars, monitorVars
  <1>8. CASE Rotate
    BY <1>8 DEF Rotate, gatewayVars
  <1>9. ASSUME NEW g \in Groups, ScaleDown(g)
        PROVE  RebalanceTypeOK'
    <2>1. PICK h \in created' :
              optimized' = [optimized EXCEPT ![g] = {}, ![h] = @ \cup optimized[g]]
      BY <1>9 DEF ScaleDown
    <2>2. h \in Groups /\ h # g
      BY <1>9 DEF ScaleDown
    <2>3. optimized' \in [Groups -> SUBSET Groups]
      BY <2>1, <2>2
    <2>4. worker' \in created'
      BY <1>9 DEF ScaleDown
    <2>5. scalings' \in 0..MaxScaling
      BY <1>9, RebalanceBounds DEF ScaleDown
    <2> QED
      BY <1>9, <2>3, <2>4, <2>5 DEF ScaleDown
  <1>10. ASSUME NEW g \in Groups, Purge(g)
         PROVE  RebalanceTypeOK'
    BY <1>10 DEF Purge, gatewayVars
  <1>11. ASSUME NEW g \in Groups, ScaleUp(g)
         PROVE  RebalanceTypeOK'
    <2>1. scalings' \in 0..MaxScaling
      BY <1>11, RebalanceBounds DEF ScaleUp
    <2>2. loaded' \in [Groups -> SUBSET Groups]
      BY <1>11, TypeRefresh DEF ScaleUp
    <2> QED
      BY <1>11, <2>1, <2>2, TypeRefresh DEF ScaleUp
  <1>12. CASE UNCHANGED rebalanceVars
    BY <1>12 DEF rebalanceVars, gatewayVars, monitorVars
  <1> QED
    BY <1>1, <1>2, <1>3, <1>4, <1>5, <1>6, <1>7, <1>8, <1>9, <1>10, <1>11, <1>12
       DEF RebalanceNext

\* Every variable keeps its type for every number of groups (RebalanceTypeOK):
\* there is always a gateway that is the monitor's rebalance_ana_group, and
\* what a gateway waits to do, however the monitor answered when it was asked,
\* is to move a namespace to a group.
THEOREM RebalanceTypeCorrect == RebalanceSpec => []RebalanceTypeOK
  <1>1. RebalanceInit => RebalanceTypeOK
    BY TypeInit
  <1>2. RebalanceTypeOK /\ [RebalanceNext]_rebalanceVars => RebalanceTypeOK'
    BY TypeStep
  <1> QED
    BY <1>1, <1>2, PTL DEF RebalanceSpec

(***************************************************************************)
(* Rest is even.  With at most three groups, a group with the most         *)
(* namespaces of a subsystem that has two more than another one is above   *)
(* the target, and one of them fits the group with the fewest.             *)
(***************************************************************************)
LEMMA TwoOrThree ==
    ASSUME NEW S, IsFiniteSet(S), Cardinality(S) <= 3, NEW a \in S, NEW c \in S, a # c
    PROVE  \/ S = {a, c} /\ Cardinality(S) = 2
           \/ \E d \in S \ {a, c} : S = {a, c, d} /\ Cardinality(S) = 3
  <1> DEFINE A == S \ {a}
             C == A \ {c}
  <1>1. IsFiniteSet(A) /\ Cardinality(A) = Cardinality(S) - 1
    BY FS_RemoveElement
  <1>2. c \in A
    OBVIOUS
  <1>3. IsFiniteSet(C) /\ Cardinality(C) = Cardinality(A) - 1
    BY <1>1, <1>2, FS_RemoveElement
  <1>4. Cardinality(S) \in Nat /\ Cardinality(C) \in Nat
    BY <1>3, FS_CardinalityType
  <1>5. CASE C = {}
    <2>1. Cardinality(C) = 0
      BY <1>5, FS_EmptySet
    <2>2. S = {a, c}
      BY <1>5
    <2> QED
      BY <1>1, <1>3, <1>4, <2>1, <2>2
  <1>6. CASE C # {}
    <2>1. PICK d \in C : TRUE
      BY <1>6
    <2>2. Cardinality(C) # 0
      BY <1>3, <1>6, FS_EmptySet
    <2>3. Cardinality(C) = 1 /\ Cardinality(S) = 3
      BY <1>1, <1>3, <1>4, <2>2
    <2>4. IsFiniteSet(C \ {d}) /\ Cardinality(C \ {d}) = Cardinality(C) - 1
      BY <1>3, <2>1, FS_RemoveElement
    <2>5. Cardinality(C \ {d}) = 0
      BY <2>3, <2>4
    <2>6. C \ {d} = {}
      BY <2>4, <2>5, FS_EmptySet
    <2>7. S = {a, c, d} /\ d \in S \ {a, c}
      BY <2>1, <2>6
    <2> QED
      BY <2>3, <2>7
  <1> QED
    BY <1>5, <1>6

On(p, a, q) == {n \in Namespaces : p[n] = a /\ Nqn[n] = q}

LEMMA OnIsFinite ==
    ASSUME NEW p, NEW a, NEW q
    PROVE  /\ IsFiniteSet(On(p, a, q))
           /\ Cardinality(On(p, a, q)) = SubsLoad(p, a, q)
           /\ SubsLoad(p, a, q) \in Nat
           /\ SubsLoad(p, a, q) # 0 => \E n \in Namespaces : p[n] = a /\ Nqn[n] = q
           /\ Load(p, a) = 0 => SubsLoad(p, a, q) = 0
  <1>1. On(p, a, q) \in SUBSET {n \in Namespaces : p[n] = a}
    BY DEF On
  <1>2. IsFiniteSet({n \in Namespaces : p[n] = a})
    BY NamespaceAssumption, FS_Subset
  <1>3. IsFiniteSet(On(p, a, q))
    BY <1>1, <1>2, FS_Subset
  <1>4. Cardinality(On(p, a, q)) = SubsLoad(p, a, q)
    BY DEF On, SubsLoad
  <1>5. SubsLoad(p, a, q) # 0 => On(p, a, q) # {}
    BY <1>4, FS_EmptySet
  <1>6. Load(p, a) = 0 => On(p, a, q) = {}
    BY <1>1, <1>2, FS_EmptySet DEF Load
  <1> QED
    BY <1>3, <1>4, <1>5, <1>6, FS_CardinalityType, FS_EmptySet DEF On

\* Without namespaces in groups that have no gateway the total of a subsystem
\* is the sum over the groups that have one.
LEMMA TotalIsSum ==
    ASSUME NEW p \in Placement, Invalid(created, p) = {}, created \subseteq Groups, NEW q,
           NEW a \in created, NEW c \in created, a # c
    PROVE  /\ created = {a, c} => Total(p, q) = SubsLoad(p, a, q) + SubsLoad(p, c, q)
           /\ \A d \in created \ {a, c} : created = {a, c, d} =>
                 Total(p, q) = SubsLoad(p, a, q) + SubsLoad(p, c, q) + SubsLoad(p, d, q)
  <1> DEFINE All == {n \in Namespaces : p[n] # 0 /\ Nqn[n] = q}
             A == On(p, a, q)
             C == On(p, c, q)
  <1>1. ASSUME NEW n \in All
        PROVE  p[n] \in created
    <2>1. p[n] \in Groups
      BY DEF Placement
    <2>2. n \in {m \in Namespaces : p[m] = p[n]}
      OBVIOUS
    <2>3. Load(p, p[n]) # 0
      <3>1. IsFiniteSet({m \in Namespaces : p[m] = p[n]})
        BY NamespaceAssumption, FS_Subset
      <3> QED
        BY <2>2, <3>1, FS_EmptySet DEF Load
    <2> QED
      BY <2>1, <2>3 DEF Invalid
  <1>2. 0 \notin created
    BY DEF Groups
  <1>3. IsFiniteSet(A) /\ IsFiniteSet(C) /\ A \cap C = {}
    <2>1. IsFiniteSet(A) /\ IsFiniteSet(C)
      BY OnIsFinite
    <2>2. A \cap C = {}
      BY DEF On
    <2> QED
      BY <2>1, <2>2
  <1>4. IsFiniteSet(A \cup C) /\ Cardinality(A \cup C) = Cardinality(A) + Cardinality(C)
    <2>1. Cardinality(A \cap C) = 0
      BY <1>3, FS_EmptySet
    <2>2. /\ IsFiniteSet(A \cup C)
          /\ Cardinality(A \cup C) = Cardinality(A) + Cardinality(C) - Cardinality(A \cap C)
      BY <1>3, FS_Union
    <2>3. Cardinality(A) \in Nat /\ Cardinality(C) \in Nat
      BY OnIsFinite
    <2> QED
      BY <2>1, <2>2, <2>3
  <1>5. ASSUME created = {a, c}
        PROVE  Total(p, q) = SubsLoad(p, a, q) + SubsLoad(p, c, q)
    <2>1. All = A \cup C
      BY <1>1, <1>2, <1>5 DEF On
    <2>2. Total(p, q) = Cardinality(A \cup C)
      BY <2>1 DEF Total
    <2>3. Cardinality(A) = SubsLoad(p, a, q) /\ Cardinality(C) = SubsLoad(p, c, q)
      BY OnIsFinite
    <2> QED
      BY <1>4, <2>2, <2>3
  <1>6. ASSUME NEW d \in created \ {a, c}, created = {a, c, d}
        PROVE  Total(p, q) = SubsLoad(p, a, q) + SubsLoad(p, c, q) + SubsLoad(p, d, q)
    <2> DEFINE D == On(p, d, q)
    <2>1. All = (A \cup C) \cup D
      BY <1>1, <1>2, <1>6 DEF On
    <2>2. IsFiniteSet(D) /\ (A \cup C) \cap D = {}
      <3>1. IsFiniteSet(D)
        BY OnIsFinite
      <3>2. (A \cup C) \cap D = {}
        BY DEF On
      <3> QED
        BY <3>1, <3>2
    <2>3. Cardinality((A \cup C) \cap D) = 0
      BY <2>2, FS_EmptySet
    <2>4. Cardinality((A \cup C) \cup D)
              = Cardinality(A \cup C) + Cardinality(D) - Cardinality((A \cup C) \cap D)
      BY <1>4, <2>2, FS_Union
    <2>5. Cardinality(A) \in Nat /\ Cardinality(C) \in Nat /\ Cardinality(D) \in Nat
      BY OnIsFinite
    <2>6. Total(p, q) = Cardinality((A \cup C) \cup D)
      BY <2>1 DEF Total
    <2>7. /\ Cardinality(A) = SubsLoad(p, a, q)
          /\ Cardinality(C) = SubsLoad(p, c, q)
          /\ Cardinality(D) = SubsLoad(p, d, q)
      BY OnIsFinite
    <2> HIDE DEF A, C, D
    <2> QED
      BY <1>4, <2>3, <2>4, <2>5, <2>6, <2>7
  <1> QED
    BY <1>5, <1>6

\* find_min_loaded_group_in_subsys finds a group with the fewest namespaces.
LEMMA MinInSubsysHasFewest ==
    ASSUME NEW p, NEW q, created # {}
    PROVE  \E c \in MinInSubsys(created, p, q) :
              c \in created /\ \A b \in created : SubsLoad(p, c, q) <= SubsLoad(p, b, q)
  <1>1. CASE \E c \in created : Load(p, c) = 0
    <2>1. PICK c \in created : Load(p, c) = 0
      BY <1>1
    <2>2. SubsLoad(p, c, q) = 0 /\ \A b \in created : SubsLoad(p, b, q) \in Nat
      BY <2>1, OnIsFinite
    <2>3. \A b \in created : SubsLoad(p, c, q) <= SubsLoad(p, b, q)
      BY <2>2
    <2> QED
      BY <1>1, <2>1, <2>3 DEF MinInSubsys
  <1>2. CASE ~ \E c \in created : Load(p, c) = 0
    <2> DEFINE f == [c \in created |-> SubsLoad(p, c, q)]
    <2>1. f \in [created -> Nat]
      BY OnIsFinite
    <2>2. PICK c \in created : \A b \in created : f[c] <= f[b]
      BY <2>1, Least
    <2> QED
      BY <1>2, <2>2 DEF MinInSubsys
  <1> QED
    BY <1>1, <1>2

\* Something fits as long as two of at most three groups are apart by two.
LEMMA UnevenMoves ==
    ASSUME RebalanceTypeOK, NEW p \in Placement, Invalid(created, p) = {}, Cardinality(created) <= 3,
           NEW q, NEW a \in created, NEW b \in created,
           SubsLoad(p, a, q) >= SubsLoad(p, b, q) + 2,
           \A d \in created : SubsLoad(p, d, q) <= SubsLoad(p, a, q)
    PROVE  \E n \in Namespaces, c \in created :
              /\ p[n] = a /\ Nqn[n] = q
              /\ AboveTarget(SubsLoad(p, a, q), Total(p, q), Cardinality(created))
              /\ c \in MinInSubsys(created, p, q)
              /\ Fits(SubsLoad(p, a, q), SubsLoad(p, c, q), Total(p, q), Cardinality(created))
  <1>1. created \subseteq Groups /\ IsFiniteSet(created)
    <2>1. IsFiniteSet(Groups)
      BY FS_Interval, GroupAssumption DEF Groups
    <2> QED
      BY <2>1, FS_Subset DEF RebalanceTypeOK
  <1>2. PICK c \in MinInSubsys(created, p, q) :
            c \in created /\ \A d \in created : SubsLoad(p, c, q) <= SubsLoad(p, d, q)
    BY MinInSubsysHasFewest
  <1> DEFINE x == SubsLoad(p, a, q)
             z == SubsLoad(p, c, q)
             t == Total(p, q)
             size == Cardinality(created)
  <1>3. x \in Nat /\ z \in Nat /\ SubsLoad(p, b, q) \in Nat /\ t \in Nat
    BY OnIsFinite, CountsAreNatural
  <1>4. x >= z + 2
    <2>1. z <= SubsLoad(p, b, q)
      BY <1>2
    <2> QED
      BY <1>3, <2>1
  <1>5. a # c
    BY <1>3, <1>4
  <1>6. PICK n \in Namespaces : p[n] = a /\ Nqn[n] = q
    <2>1. x # 0
      BY <1>3, <1>4
    <2> QED
      BY <2>1, OnIsFinite
  <1>7. AboveTarget(x, t, size) /\ Fits(x, z, t, size)
    <2>1. CASE created = {a, c} /\ size = 2
      <3>1. t = x + z
        BY <1>1, <1>2, <1>5, <2>1, TotalIsSum
      <3> HIDE DEF x, z, t, size
      <3>2. x * size = x + x /\ (z + 1) * size = z + z + 2
        BY <1>3, <2>1
      <3>3. x * size > t /\ (z + 1) * size <= t
        BY <1>3, <1>4, <3>1, <3>2
      <3> QED
        BY <3>3 DEF AboveTarget, Fits
    <2>2. ASSUME NEW d \in created \ {a, c}, created = {a, c, d}, size = 3
          PROVE  AboveTarget(x, t, size) /\ Fits(x, z, t, size)
      <3> PICK y : y = SubsLoad(p, d, q)
        OBVIOUS
      <3>1. y \in Nat /\ z <= y /\ y <= x
        BY <1>2, OnIsFinite
      <3>2. t = x + z + y
        BY <1>1, <1>2, <1>5, <2>2, TotalIsSum
      <3> HIDE DEF x, z, t, size
      <3>3. x * size = x + x + x /\ (z + 1) * size = z + z + z + 3
        BY <1>3, <2>2
      <3>4. x * size > t
        BY <1>3, <1>4, <3>1, <3>2, <3>3
      <3>5. x - 1 = z + 1 \/ (z + 1) * size <= t
        BY <1>3, <1>4, <3>1, <3>2, <3>3
      <3> QED
        BY <3>4, <3>5 DEF AboveTarget, Fits
    <2> QED
      BY <1>1, <1>2, <1>5, <2>1, <2>2, TwoOrThree
  <1> QED
    BY <1>2, <1>6, <1>7

\* Every group that has a gateway is optimized at one of the gateways.
OptimizedInv == \A a \in created : \E g \in created : a \in optimized[g]

LEMMA OptimizedStep ==
    ASSUME RebalanceTypeOK, OptimizedInv, [RebalanceNext]_rebalanceVars
    PROVE  OptimizedInv'
  <1> USE DEF OptimizedInv
  <1>0. optimized \in [Groups -> SUBSET Groups] /\ created \subseteq Groups
    BY DEF RebalanceTypeOK
  <1>1. CASE UNCHANGED <<created, optimized>>
    BY <1>1
  <1>2. ASSUME NEW g \in Groups, ScaleDown(g)
        PROVE  OptimizedInv'
    <2>1. PICK h \in created' :
              optimized' = [optimized EXCEPT ![g] = {}, ![h] = @ \cup optimized[g]]
      BY <1>2 DEF ScaleDown
    <2>2. created' = created \ {g} /\ h \in created /\ h # g
      BY <1>2 DEF ScaleDown
    <2>3. ASSUME NEW a \in created'
          PROVE  \E k \in created' : a \in optimized'[k]
      <3>1. PICK k \in created : a \in optimized[k]
        BY <2>2
      <3>2. CASE k = g
        BY <1>0, <2>1, <2>2, <3>1, <3>2
      <3>3. CASE k # g
        BY <1>0, <2>1, <2>2, <3>1, <3>3
      <3> QED
        BY <3>2, <3>3
    <2> QED
      BY <2>3
  <1>3. ASSUME NEW g \in Groups, Purge(g)
        PROVE  OptimizedInv'
    <2>1. g \notin created /\ created' = created
      BY <1>3 DEF Purge, RebalanceTypeOK
    <2>2. \A h \in Groups : optimized'[h] = optimized[h] \ {g}
      BY <1>3 DEF Purge
    <2> QED
      BY <1>0, <2>1, <2>2
  <1>4. ASSUME NEW g \in Groups, ScaleUp(g)
        PROVE  OptimizedInv'
    <2>1. created' = created \cup {g} /\ g \notin created
      BY <1>4 DEF ScaleUp
    <2>2. optimized' = [optimized EXCEPT ![g] = {g}]
      BY <1>4 DEF ScaleUp
    <2> QED
      BY <1>0, <2>1, <2>2
  <1> QED
    BY <1>1, <1>2, <1>3, <1>4
    DEF RebalanceNext, Decide, DecideWith, Move, Update, Retry, Ask, Serve, ServeAdd, ServeDelete, ServeChange,
        Reject, Rotate, monitorVars,
        rebalanceVars

LEMMA RestIsEven ==
    ASSUME RebalanceTypeOK, FreshInv, OptimizedInv
    PROVE  EvenAtRest
  <1> SUFFICES ASSUME AtRest, Cardinality(created) <= 3,
                      NEW q \in Subsystems, NEW a \in created, NEW b \in created
               PROVE  SubsLoad(omap, a, q) <= SubsLoad(omap, b, q) + 1
    BY DEF EvenAtRest
  <1>1. \A d \in created : SubsLoad(omap, d, q) \in Nat
    BY OnIsFinite
  <1>2. PICK m \in created : \A d \in created : SubsLoad(omap, d, q) <= SubsLoad(omap, m, q)
    <2> DEFINE f == [d \in created |-> Total(omap, q) - SubsLoad(omap, d, q)]
    <2>1. ASSUME NEW d \in created
          PROVE  Total(omap, q) - SubsLoad(omap, d, q) \in Nat
      <3>1. 0 \notin created
        BY DEF RebalanceTypeOK, Groups
      <3>2. {n \in Namespaces : omap[n] = d /\ Nqn[n] = q}
                \in SUBSET {n \in Namespaces : omap[n] # 0 /\ Nqn[n] = q}
        BY <3>1
      <3>3. IsFiniteSet({n \in Namespaces : omap[n] # 0 /\ Nqn[n] = q})
        BY NamespaceAssumption, FS_Subset
      <3>4. SubsLoad(omap, d, q) <= Total(omap, q)
        BY <3>2, <3>3, FS_Subset DEF SubsLoad, Total
      <3> QED
        BY <3>4, CountsAreNatural
    <2>2. f \in [created -> Nat]
      BY <2>1
    <2>3. PICK m \in created : \A d \in created : f[m] <= f[d]
      BY <2>2, Least
    <2>4. ASSUME NEW d \in created
          PROVE  SubsLoad(omap, d, q) <= SubsLoad(omap, m, q)
      <3>1. Total(omap, q) - SubsLoad(omap, m, q) <= Total(omap, q) - SubsLoad(omap, d, q)
        BY <2>3
      <3>2. Total(omap, q) \in Nat
        BY CountsAreNatural
      <3> QED
        BY <1>1, <3>1, <3>2
    <2> QED
      BY <2>4
  <1>3. PICK g \in created : m \in optimized[g]
    BY DEF OptimizedInv
  <1>4. view[g] = omap /\ RegularMoves(created, g, m) = {} /\ Invalid(created, omap) = {}
    BY <1>3 DEF AtRest, FreshInv
  <1>5. ASSUME SubsLoad(omap, m, q) >= SubsLoad(omap, b, q) + 2
        PROVE  FALSE
    <2>1. omap \in Placement
      BY DEF RebalanceTypeOK
    <2>2. PICK n \in Namespaces, c \in created :
              /\ omap[n] = m /\ Nqn[n] = q
              /\ AboveTarget(SubsLoad(omap, m, q), Total(omap, q), Cardinality(created))
              /\ c \in MinInSubsys(created, omap, q)
              /\ Fits(SubsLoad(omap, m, q), SubsLoad(omap, c, q), Total(omap, q),
                      Cardinality(created))
      BY <1>2, <1>4, <1>5, <2>1, UnevenMoves
    <2>3. MoveOf("regular", n, m, c) \in RegularMoves(created, g, m)
      BY <1>4, <2>2 DEF RegularMoves
    <2> QED
      BY <1>4, <2>3
  <1>6. SubsLoad(omap, a, q) <= SubsLoad(omap, m, q)
    BY <1>2
  <1>7. SubsLoad(omap, m, q) \in Nat /\ SubsLoad(omap, a, q) \in Nat
        /\ SubsLoad(omap, b, q) \in Nat
    BY <1>1
  <1> QED
    BY <1>5, <1>6, <1>7

\* When no gateway would move anything any more, whichever were the monitor's
\* choice, and up to three gateways are left, no group has two namespaces of a
\* subsystem more than another (EvenAtRest): le_target, load_less and load_eq
\* together leave no other place to rest, for any number of namespaces.
THEOREM RebalancingEndsEven == RebalanceSpec => []EvenAtRest
  <1> DEFINE Inv == RebalanceTypeOK /\ FreshInv /\ OptimizedInv
  <1>1. RebalanceInit => Inv
    BY TypeInit, FreshInit DEF RebalanceInit, OptimizedInv
  <1>2. Inv /\ [RebalanceNext]_rebalanceVars => Inv'
    BY TypeStep, FreshStep, OptimizedStep
  <1>3. Inv => EvenAtRest
    BY RestIsEven
  <1> HIDE DEF Inv
  <1> QED
    BY <1>1, <1>2, <1>3, PTL DEF RebalanceSpec

=============================================================================
