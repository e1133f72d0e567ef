------------------------- MODULE BdevClustersProofs -------------------------
(***************************************************************************)
(* Proofs about BdevClusters for every number of bdevs, ANA groups, bdevs  *)
(* per context and faults, and for the three allocation strategies alike.  *)
(***************************************************************************)
EXTENDS BdevClusters, FiniteSetTheorems, WellFoundedInduction, TLAPS

(***************************************************************************)
(* The inductive invariant: a bdev whose parameters are kept is counted at *)
(* the context its entry names.                                            *)
(***************************************************************************)
CountInv ==
    /\ ClusterTypeOK
    /\ IsFiniteSet(DOMAIN usage)
    /\ CountsAreCovered

\* Faults are counted and remembered, never forgotten.
LEMMA FaultStep ==
    ASSUME FaultsOK, (\E kind \in Faults : Fault(kind)) \/ UNCHANGED faultVars
    PROVE  FaultsOK'
  BY DEF FaultsOK, Fault, faultVars

\* Contexts are named after the ANA group or after nothing.
LEMMA ScopeType ==
    ASSUME NEW g \in Groups
    PROVE  Scope(g) \in Groups \cup {None}
  BY DEF Scope

\* What the three get_cluster return: a context of the dictionary, with room in
\* it unless it is the pool's, or a new one, which the pool never needs.
LEMMA ChoiceIsContext ==
    ASSUME CountInv, NEW g \in Groups, NEW c \in Choices(g)
    PROVE  /\ c \in Contexts
           /\ strategy = "pool" => c \in DOMAIN usage
           /\ strategy # "pool" /\ c \in DOMAIN usage => usage[c] < Limit
  <1>1. CASE strategy = "pool"
    BY <1>1 DEF CountInv, ClusterTypeOK, Choices, LeastUsed
  <1>2. CASE strategy # "pool" /\ Room(g) # {}
    BY <1>2 DEF CountInv, ClusterTypeOK, Choices, Room
  <1>3. CASE strategy # "pool" /\ Room(g) = {}
    <2>1. c \in NewContext(g)
      BY <1>3 DEF Choices
    <2>2. Cardinality(DOMAIN usage) \in Nat
      BY FS_CardinalityType DEF CountInv
    <2>3. PICK n \in 0..Cardinality(DOMAIN usage) : c = <<Scope(g), n>>
      BY <2>1 DEF NewContext
    <2>4. n \in Nat
      BY <2>2, <2>3
    <2>5. c \in Contexts
      BY <2>3, <2>4, ScopeType DEF Contexts
    <2>6. c \notin DOMAIN usage
      BY <2>1 DEF NewContext
    <2> QED
      BY <1>3, <2>5, <2>6
  <1> QED
    BY <1>1, <1>2, <1>3

\* get_cluster counts one more bdev, and nothing else changes.
LEMMA GetUsageCounts ==
    ASSUME CountInv, NEW c \in Contexts
    PROVE  /\ DOMAIN GetUsage(c) = DOMAIN usage \cup {c}
           /\ GetUsage(c) \in [DOMAIN usage \cup {c} -> Nat]
           /\ GetUsage(c)[c] = IF c \in DOMAIN usage THEN usage[c] + 1 ELSE 1
           /\ \A d \in DOMAIN usage \ {c} : GetUsage(c)[d] = usage[d]
           /\ IsFiniteSet(DOMAIN GetUsage(c))
  <1>1. DOMAIN GetUsage(c) = DOMAIN usage \cup {c}
    BY DEF GetUsage
  <1>2. \A d \in DOMAIN usage : usage[d] \in Nat
    BY DEF CountInv, ClusterTypeOK
  <1>3. IsFiniteSet(DOMAIN usage \cup {c})
    BY FS_AddElement DEF CountInv
  <1> QED
    BY <1>1, <1>2, <1>3 DEF GetUsage

LEMMA CountedOnIsFinite ==
    ASSUME ClusterTypeOK, NEW c
    PROVE  /\ IsFiniteSet(CountedOn(c))
           /\ Cardinality(CountedOn(c)) \in Nat
  <1>1. CountedOn(c) \in SUBSET Bdevs
    BY DEF CountedOn, ClusterTypeOK
  <1>2. IsFiniteSet(CountedOn(c))
    BY <1>1, FS_Subset, BdevAssumption
  <1> QED
    BY <1>2, FS_CardinalityType

\* put_cluster is called for a counted bdev, so it finds its context and a
\* count above zero.
LEMMA CoveredPutNeverAsserts ==
    ASSUME CountInv
    PROVE  PutNeverAsserts
  <1> SUFFICES ASSUME NEW b \in bdevParams
               PROVE  /\ bdevCluster[b] \in DOMAIN usage
                      /\ usage[bdevCluster[b]] > 0
    BY DEF PutNeverAsserts
  <1> DEFINE c == bdevCluster[b]
  <1>1. c \in DOMAIN usage /\ usage[c] \in Nat
    BY DEF CountInv, CountsAreCovered, ClusterTypeOK
  <1>2. b \in CountedOn(c)
    BY DEF CountedOn
  <1>3. Cardinality(CountedOn(c)) \in Nat /\ Cardinality(CountedOn(c)) # 0
    BY <1>2, CountedOnIsFinite, FS_EmptySet DEF CountInv
  <1>4. Cardinality(CountedOn(c)) <= usage[c]
    BY <1>1 DEF CountInv, CountsAreCovered
  <1> QED
    BY <1>1, <1>3, <1>4

(***************************************************************************)
(* Every step keeps the inductive invariant                                *)
(***************************************************************************)
LEMMA PoolIsFinite == IsFiniteSet({None} \X (1..Limit))
  <1>1. IsFiniteSet({None})
    BY FS_Singleton
  <1>2. IsFiniteSet(1..Limit)
    BY FS_Interval, LimitAssumption
  <1> QED
    BY ONLY <1>1, <1>2, FS_Product

LEMMA InitCount ==
    ASSUME ClusterInit
    PROVE  CountInv
  <1>1. DOMAIN usage = IF strategy = "pool" THEN {None} \X (1..Limit) ELSE {}
    BY DEF ClusterInit, NewUsage
  <1>3. IsFiniteSet(DOMAIN usage)
    BY <1>1, PoolIsFinite, FS_EmptySet
  <1>4. ClusterTypeOK
    BY <1>1, LimitAssumption DEF ClusterInit, ClusterTypeOK, FaultsOK, NewUsage, Contexts
  <1>5. CountsAreCovered
    <2>1. \A c : CountedOn(c) = {}
      BY DEF ClusterInit, CountedOn
    <2>2. \A c \in DOMAIN usage : usage[c] \in Nat
      BY <1>4 DEF ClusterTypeOK
    <2> QED
      BY <2>1, <2>2, FS_EmptySet DEF ClusterInit, CountsAreCovered
  <1> QED
    BY <1>3, <1>4, <1>5 DEF CountInv

\* A gateway that aborts starts again from a new allocator.
LEMMA AbortCount ==
    ASSUME ClusterAbort, FaultsOK'
    PROVE  CountInv'
  <1>1. DOMAIN usage' = IF strategy' = "pool" THEN {None} \X (1..Limit) ELSE {}
    BY DEF ClusterAbort, NewUsage
  <1>3. IsFiniteSet(DOMAIN usage')
    BY <1>1, PoolIsFinite, FS_EmptySet
  <1>4. ClusterTypeOK'
    BY <1>1, LimitAssumption DEF ClusterAbort, ClusterTypeOK, NewUsage, Contexts
  <1>5. CountsAreCovered'
    <2>1. \A c : CountedOn(c)' = {}
      BY DEF ClusterAbort, CountedOn
    <2>2. \A c \in DOMAIN usage' : usage'[c] \in Nat
      BY <1>4 DEF ClusterTypeOK
    <2>3. bdevParams' = {}
      BY DEF ClusterAbort
    <2> QED
      BY <2>1, <2>2, <2>3, FS_EmptySet DEF CountsAreCovered
  <1> QED
    BY <1>3, <1>4, <1>5 DEF CountInv

\* get_cluster counts the bdev before create_bdev records it.
LEMMA CreateCount ==
    ASSUME CountInv, NEW b \in Bdevs, NEW g \in Groups, Create(b, g), FaultsOK'
    PROVE  CountInv'
  <1>1. PICK c \in Choices(g) :
            /\ CanGet(c)
            /\ usage' = GetUsage(c)
            /\ registered' = registered \cup {c}
            /\ spdkBdev' \in {spdkBdev, [spdkBdev EXCEPT ![b] = c]}
            /\ bdevCluster' = [bdevCluster EXCEPT ![b] = c]
            /\ bdevParams' = bdevParams \cup {b}
            /\ UNCHANGED strategy
    BY DEF Create
  <1>2. c \in Contexts
    BY ChoiceIsContext
  <1>3. /\ DOMAIN usage' = DOMAIN usage \cup {c}
        /\ usage' \in [DOMAIN usage' -> Nat]
        /\ usage'[c] = IF c \in DOMAIN usage THEN usage[c] + 1 ELSE 1
        /\ \A d \in DOMAIN usage \ {c} : usage'[d] = usage[d]
        /\ IsFiniteSet(DOMAIN usage')
    BY <1>1, <1>2, GetUsageCounts
  <1>4. ClusterTypeOK'
    BY <1>1, <1>2, <1>3 DEF CountInv, ClusterTypeOK
  <1>5. \A a \in bdevParams' : bdevCluster'[a] \in DOMAIN usage'
    BY <1>1, <1>3 DEF CountInv, ClusterTypeOK, CountsAreCovered
  <1>6. ASSUME NEW d \in DOMAIN usage'
        PROVE  Cardinality(CountedOn(d)') <= usage'[d]
    <2>1. Cardinality(CountedOn(d)) \in Nat /\ IsFiniteSet(CountedOn(d))
      BY CountedOnIsFinite DEF CountInv
    <2>2. CASE d = c
      <3>1. CountedOn(d)' = CountedOn(d) \cup {b}
        BY <1>1, <2>2 DEF CountedOn, CountInv, ClusterTypeOK
      <3>2. Cardinality(CountedOn(d)') <= Cardinality(CountedOn(d)) + 1
        <4>1. Cardinality(CountedOn(d) \cup {b})
                  = IF b \in CountedOn(d) THEN Cardinality(CountedOn(d))
                    ELSE Cardinality(CountedOn(d)) + 1
          BY <2>1, FS_AddElement
        <4> QED
          BY <2>1, <3>1, <4>1
      <3>3. CASE d \in DOMAIN usage
        <4>1. Cardinality(CountedOn(d)) <= usage[d] /\ usage[d] \in Nat
          BY <3>3 DEF CountInv, CountsAreCovered, ClusterTypeOK
        <4>2. usage'[d] = usage[d] + 1
          BY <1>3, <2>2, <3>3
        <4>3. IsFiniteSet(CountedOn(d) \cup {b})
          BY <2>1, FS_AddElement
        <4>4. Cardinality(CountedOn(d)') \in Nat
          BY <3>1, <4>3, FS_CardinalityType
        <4> QED
          BY <2>1, <3>2, <4>1, <4>2, <4>4
      <3>4. CASE d \notin DOMAIN usage
        <4>1. CountedOn(d) = {}
          BY <3>4 DEF CountInv, CountsAreCovered, CountedOn
        <4>2. Cardinality(CountedOn(d)') = 1
          BY <3>1, <4>1, FS_Singleton
        <4> QED
          BY <1>3, <2>2, <3>4, <4>2
      <3> QED
        BY <3>3, <3>4
    <2>3. CASE d # c
      <3>1. d \in DOMAIN usage /\ usage'[d] = usage[d]
        BY <1>3, <2>3
      <3>2. CountedOn(d)' \in SUBSET CountedOn(d)
        BY <1>1, <2>3 DEF CountedOn, CountInv, ClusterTypeOK
      <3>3. /\ Cardinality(CountedOn(d)') <= Cardinality(CountedOn(d))
            /\ Cardinality(CountedOn(d)') \in Nat
        BY <2>1, <3>2, FS_Subset, FS_CardinalityType
      <3>4. Cardinality(CountedOn(d)) <= usage[d] /\ usage[d] \in Nat
        BY <3>1 DEF CountInv, CountsAreCovered, ClusterTypeOK
      <3> QED
        BY <2>1, <3>1, <3>3, <3>4
    <2> QED
      BY <2>2, <2>3
  <1>7. CountsAreCovered'
    BY <1>5, <1>6 DEF CountsAreCovered
  <1> QED
    BY <1>3, <1>4, <1>7 DEF CountInv

\* put_cluster takes one count of the bdev's context, which only goes from the
\* dictionary when that was the last one.
LEMMA ForgetCount ==
    ASSUME CountInv, NEW b \in Bdevs, NEW freed \in BOOLEAN, Forget(b, freed),
           spdkBdev' \in [Bdevs -> Contexts \cup {None}], FaultsOK'
    PROVE  CountInv'
  <1>1. CASE b \notin bdevParams
    <2>1. /\ UNCHANGED <<strategy, usage, registered, bdevCluster>>
          /\ bdevParams' = bdevParams
      BY <1>1 DEF Forget
    <2>2. ClusterTypeOK'
      BY <2>1 DEF CountInv, ClusterTypeOK
    <2>3. \A c : CountedOn(c)' = CountedOn(c)
      BY <2>1 DEF CountedOn
    <2>4. CountsAreCovered'
      BY <2>1, <2>3 DEF CountInv, CountsAreCovered
    <2> QED
      BY <2>1, <2>2, <2>4 DEF CountInv
  <1>2. CASE b \in bdevParams
    <2> PICK c : c = bdevCluster[b]
      OBVIOUS
    <2> DEFINE kept == DOMAIN usage'
    <2>1. /\ usage' = PutUsage(c, freed)
          /\ registered' = IF usage[c] = 1 /\ freed THEN registered \ {c} ELSE registered
          /\ bdevParams' = bdevParams \ {b}
          /\ UNCHANGED <<strategy, bdevCluster>>
      BY <1>2 DEF Forget, Put
    <2>2. c \in DOMAIN usage /\ usage[c] \in Nat /\ usage[c] > 0
      BY <1>2, CoveredPutNeverAsserts DEF PutNeverAsserts, CountInv, ClusterTypeOK
    <2>3. kept = IF strategy # "pool" /\ usage[c] = 1 /\ freed
                 THEN DOMAIN usage \ {c} ELSE DOMAIN usage
      BY <2>1 DEF PutUsage
    <2>4. \A d \in kept : usage'[d] = IF d = c THEN usage[c] - 1 ELSE usage[d]
      BY <2>1, <2>3 DEF PutUsage
    <2>5. usage' = [d \in kept |-> IF d = c THEN usage[c] - 1 ELSE usage[d]]
      BY <2>1, <2>3 DEF PutUsage
    <2>6. usage' \in [kept -> Nat]
      BY <2>2, <2>3, <2>5 DEF CountInv, ClusterTypeOK
    <2>7. ClusterTypeOK'
      BY <2>1, <2>3, <2>6 DEF CountInv, ClusterTypeOK
    <2>8. IsFiniteSet(kept)
      BY <2>3, FS_RemoveElement DEF CountInv
    <2>9. /\ CountedOn(c)' = CountedOn(c) \ {b}
          /\ b \in CountedOn(c)
          /\ \A d : d # c => CountedOn(d)' = CountedOn(d)
      BY <1>2, <2>1 DEF CountedOn
    <2>10. /\ Cardinality(CountedOn(c)) \in Nat
           /\ IsFiniteSet(CountedOn(c))
           /\ Cardinality(CountedOn(c)) <= usage[c]
      BY <2>2, CountedOnIsFinite DEF CountInv, CountsAreCovered
    <2>11. /\ Cardinality(CountedOn(c)') = Cardinality(CountedOn(c)) - 1
           /\ IsFiniteSet(CountedOn(c)')
      <3>1. /\ IsFiniteSet(CountedOn(c) \ {b})
            /\ Cardinality(CountedOn(c) \ {b})
                  = IF b \in CountedOn(c) THEN Cardinality(CountedOn(c)) - 1
                    ELSE Cardinality(CountedOn(c))
        BY <2>10, FS_RemoveElement
      <3> QED
        BY <2>9, <3>1
    <2>12. \A d \in kept : Cardinality(CountedOn(d)') <= usage'[d]
      <3> SUFFICES ASSUME NEW d \in kept
                   PROVE  Cardinality(CountedOn(d)') <= usage'[d]
        OBVIOUS
      <3>1. CASE d = c
        BY <2>2, <2>4, <2>10, <2>11, <3>1
      <3>2. CASE d # c
        BY <2>3, <2>4, <2>9, <3>2 DEF CountInv, CountsAreCovered
      <3> QED
        BY <3>1, <3>2
    <2>13. ASSUME NEW a \in bdevParams'
           PROVE  bdevCluster'[a] \in kept
      <3>1. a \in bdevParams /\ a # b /\ bdevCluster'[a] = bdevCluster[a]
        BY <2>1
      <3>2. bdevCluster[a] \in DOMAIN usage
        BY <3>1 DEF CountInv, CountsAreCovered
      <3>3. ASSUME bdevCluster[a] = c, usage[c] = 1
            PROVE  FALSE
        <4>1. a \in CountedOn(c)'
          BY <2>9, <3>1, <3>3 DEF CountedOn
        <4>2. Cardinality(CountedOn(c)') # 0
          BY <2>11, <4>1, FS_EmptySet
        <4>3. Cardinality(CountedOn(c)') \in Nat
          BY <2>11, FS_CardinalityType
        <4> QED
          BY <2>10, <2>11, <3>3, <4>2, <4>3
      <3> QED
        BY <2>3, <3>1, <3>2, <3>3
    <2>14. CountsAreCovered'
      BY <2>12, <2>13 DEF CountsAreCovered
    <2> QED
      BY <2>7, <2>8, <2>14 DEF CountInv
  <1> QED
    BY <1>1, <1>2

\* The end of a context that no bdev is counted on.
LEMMA CreateFailsCount ==
    ASSUME CountInv, NEW g \in Groups, CreateFails(g)
    PROVE  CountInv'
  <1>1. CASE ClusterAbort /\ FaultsOK'
    BY <1>1, AbortCount
  <1>2. ASSUME NEW c \in Choices(g), Alone(c),
               usage' = [d \in IF strategy = "pool" THEN DOMAIN usage
                               ELSE DOMAIN usage \ {c} |-> usage[d]],
               registered' = registered \ {c},
               UNCHANGED <<strategy, bdevVars, faultVars>>
        PROVE  CountInv'
    <2> DEFINE kept == IF strategy = "pool" THEN DOMAIN usage ELSE DOMAIN usage \ {c}
    <2>1. DOMAIN usage' = kept /\ \A d \in kept : usage'[d] = usage[d]
      BY <1>2
    <2>2. IsFiniteSet(kept)
      BY FS_RemoveElement DEF CountInv
    <2>3. usage' \in [kept -> Nat]
      BY <1>2, <2>1 DEF CountInv, ClusterTypeOK
    <2>4. ClusterTypeOK'
      <3>1. FaultsOK'
        BY <1>2, FaultStep DEF CountInv, ClusterTypeOK
      <3> QED
        BY <1>2, <2>1, <2>3, <3>1 DEF CountInv, ClusterTypeOK, bdevVars
    <2>5. \A d : CountedOn(d)' = CountedOn(d)
      BY <1>2 DEF CountedOn, bdevVars
    <2>6. c \in DOMAIN usage => CountedOn(c) = {}
      <3> SUFFICES ASSUME c \in DOMAIN usage
                   PROVE  CountedOn(c) = {}
        OBVIOUS
      <3>1. GetUsage(c)[c] = usage[c] + 1
        BY GetUsageCounts, ChoiceIsContext
      <3>2. usage[c] = 0
        BY <1>2, <3>1 DEF Alone, CountInv, ClusterTypeOK
      <3>3. /\ Cardinality(CountedOn(c)) <= usage[c]
            /\ Cardinality(CountedOn(c)) \in Nat
            /\ IsFiniteSet(CountedOn(c))
        BY CountedOnIsFinite DEF CountInv, CountsAreCovered
      <3> QED
        BY <3>2, <3>3, FS_EmptySet
    <2>7. CountsAreCovered'
      <3>1. \A d \in kept : Cardinality(CountedOn(d)') <= usage'[d]
        BY <2>1, <2>5 DEF CountInv, CountsAreCovered
      <3>2. ASSUME NEW a \in bdevParams'
            PROVE  bdevCluster'[a] \in kept
        <4>1. a \in bdevParams /\ bdevCluster'[a] = bdevCluster[a]
          BY <1>2 DEF bdevVars
        <4>2. bdevCluster[a] \in DOMAIN usage /\ a \in CountedOn(bdevCluster[a])
          BY <4>1 DEF CountInv, CountsAreCovered, CountedOn
        <4> QED
          BY <2>6, <4>1, <4>2
      <3> QED
        BY <2>1, <3>1, <3>2 DEF CountsAreCovered
    <2> QED
      BY <2>1, <2>2, <2>4, <2>7 DEF CountInv
  <1>3. Fault("free") \/ UNCHANGED faultVars => FaultsOK'
    BY FaultStep DEF CountInv, ClusterTypeOK, Fault
  <1> QED
    BY <1>1, <1>2, <1>3 DEF CreateFails

LEMMA CountStep ==
    ASSUME CountInv, [ClusterNext]_clusterVars
    PROVE  CountInv'
  <1>1. FaultsOK /\ spdkBdev \in [Bdevs -> Contexts \cup {None}]
    BY DEF CountInv, ClusterTypeOK
  <1>f. (\E kind : Fault(kind)) \/ UNCHANGED faultVars => FaultsOK'
    BY <1>1, FaultStep DEF Fault
  <1>2. \A b \in Bdevs : Gone(b) \in [Bdevs -> Contexts \cup {None}]
    BY <1>1 DEF Gone
  <1>3. ASSUME NEW b \in Bdevs, NEW g \in Groups, CreateBdev(b, g)
        PROVE  CountInv'
    BY <1>f, <1>3, CreateCount DEF CreateBdev
  <1>4. ASSUME NEW b \in Bdevs, NEW g \in Groups, CreateNameless(b, g)
        PROVE  CountInv'
    BY <1>f, <1>4, CreateCount DEF CreateNameless
  <1>5. ASSUME NEW b \in Bdevs, NEW g \in Groups, CreateTimesOut(b, g)
        PROVE  CountInv'
    <2>0. FaultsOK'
      BY <1>f, <1>5 DEF CreateTimesOut
    <2>1. CASE ClusterAbort
      BY <2>0, <2>1, AbortCount
    <2>2. CASE Forget(b, CanFree(bdevCluster[b], spdkBdev)) /\ UNCHANGED spdkBdev
      <3>1. PICK freed \in BOOLEAN : Forget(b, freed)
        BY <2>2 DEF CanFree
      <3>2. FaultsOK'
        BY <2>0
      <3> QED
        BY <1>1, <2>2, <3>1, <3>2, ForgetCount
    <2> QED
      BY <1>5, <2>1, <2>2 DEF CreateTimesOut
  <1>6. ASSUME NEW g \in Groups, CreateFails(g)
        PROVE  CountInv'
    BY <1>6, CreateFailsCount
  <1>7. ASSUME NEW b \in Bdevs, DeleteBdev(b)
        PROVE  CountInv'
    <2>1. PICK freed \in BOOLEAN : Forget(b, freed)
      BY <1>7 DEF DeleteBdev, CanFree
    <2>2. spdkBdev' \in [Bdevs -> Contexts \cup {None}]
      BY <1>2, <1>7 DEF DeleteBdev
    <2>3. FaultsOK'
      BY <1>f, <1>7 DEF DeleteBdev
    <2> QED
      BY <1>1, <2>1, <2>2, <2>3, ForgetCount
  <1>8. ASSUME NEW b \in Bdevs, DeleteTimesOut(b)
        PROVE  CountInv'
    <2>1. /\ spdkBdev' \in [Bdevs -> Contexts \cup {None}]
          /\ FaultsOK'
          /\ UNCHANGED <<strategy, usage, registered, bdevCluster, bdevParams>>
      BY <1>f, <1>2, <1>8 DEF DeleteTimesOut
    <2>2. \A c : CountedOn(c)' = CountedOn(c)
      BY <2>1 DEF CountedOn
    <2> QED
      BY <2>1, <2>2 DEF CountInv, ClusterTypeOK, CountsAreCovered
  <1>9. ASSUME NEW b \in Bdevs, DeleteRefused(b)
        PROVE  CountInv'
    <2>1. PICK freed \in BOOLEAN : Forget(b, freed)
      BY <1>9 DEF DeleteRefused, CanFree
    <2>2. UNCHANGED spdkBdev /\ FaultsOK'
      BY <1>f, <1>9 DEF DeleteRefused
    <2> QED
      BY <1>1, <2>1, <2>2, ForgetCount
  <1>10. CASE UNCHANGED clusterVars
    <2>1. \A c : CountedOn(c)' = CountedOn(c)
      BY <1>10 DEF CountedOn, clusterVars, bdevVars
    <2>2. FaultsOK'
      BY <1>f, <1>10 DEF clusterVars
    <2> QED
      BY <1>10, <2>1, <2>2 DEF CountInv, ClusterTypeOK, CountsAreCovered, clusterVars, bdevVars
  <1> QED
    BY <1>3, <1>4, <1>5, <1>6, <1>7, <1>8, <1>9, <1>10 DEF ClusterNext

\* The dictionaries of the allocators, the contexts of SPDK and the tables of
\* bdevs keep their types under all three strategies.
THEOREM ClusterTypeCorrect == ClusterSpec => []ClusterTypeOK
  <1>1. ClusterInit => CountInv
    BY InitCount
  <1>2. CountInv /\ [ClusterNext]_clusterVars => CountInv'
    BY CountStep
  <1>3. CountInv => ClusterTypeOK
    BY DEF CountInv
  <1> QED
    BY <1>1, <1>2, <1>3, PTL DEF ClusterSpec

\* However many SPDK calls fail, and in whatever order, a context is counted
\* at least once for each bdev that will put it back (get_cluster, put_cluster).
THEOREM CountsStayCovered == ClusterSpec => []CountsAreCovered
  <1>1. ClusterInit => CountInv
    BY InitCount
  <1>2. CountInv /\ [ClusterNext]_clusterVars => CountInv'
    BY CountStep
  <1>3. CountInv => CountsAreCovered
    BY DEF CountInv
  <1> QED
    BY <1>1, <1>2, <1>3, PTL DEF ClusterSpec

\* No assertion of put_cluster ever fails: the context is in the dictionary
\* and its count above zero whenever delete_bdev calls it.
THEOREM NoPutAsserts == ClusterSpec => []PutNeverAsserts
  <1>1. ClusterInit => CountInv
    BY InitCount
  <1>2. CountInv /\ [ClusterNext]_clusterVars => CountInv'
    BY CountStep
  <1>3. CountInv => PutNeverAsserts
    BY CoveredPutNeverAsserts
  <1> QED
    BY <1>1, <1>2, <1>3, PTL DEF ClusterSpec

(***************************************************************************)
(* The limit of bdevs per context.  A deletion that SPDK refuses takes the *)
(* count of a bdev that stays, so LimitInv holds until the first one.      *)
(***************************************************************************)
LimitInv ==
    /\ CountInv
    /\ \A b \in Bdevs : spdkBdev[b] # None => b \in bdevParams /\ bdevCluster[b] = spdkBdev[b]
    /\ strategy # "pool" => \A c \in DOMAIN usage : usage[c] <= Limit

LEMMA LimitInvHolds ==
    ASSUME LimitInv
    PROVE  LimitIsKept /\ BdevClusterIsCurrent
  <1>1. BdevClusterIsCurrent
    BY DEF LimitInv, BdevClusterIsCurrent
  <1>2. ASSUME strategy # "pool", NEW c \in DOMAIN usage
        PROVE  Cardinality(BdevsOn(c)) <= Limit
    <2>1. c # None
      BY NoneAssumption DEF LimitInv, CountInv, ClusterTypeOK
    <2>2. BdevsOn(c) \in SUBSET CountedOn(c)
      BY <2>1 DEF LimitInv, BdevsOn, CountedOn
    <2>3. IsFiniteSet(CountedOn(c)) /\ Cardinality(CountedOn(c)) \in Nat
      BY CountedOnIsFinite DEF LimitInv, CountInv
    <2>4. /\ Cardinality(BdevsOn(c)) <= Cardinality(CountedOn(c))
          /\ Cardinality(BdevsOn(c)) \in Nat
      BY <2>2, <2>3, FS_Subset, FS_CardinalityType
    <2>5. Cardinality(CountedOn(c)) <= usage[c] /\ usage[c] <= Limit /\ usage[c] \in Nat
      BY <1>2 DEF LimitInv, CountInv, CountsAreCovered, ClusterTypeOK
    <2> QED
      BY <2>3, <2>4, <2>5, LimitAssumption
  <1> QED
    BY <1>1, <1>2 DEF LimitIsKept

LEMMA LimitCreate ==
    ASSUME LimitInv, NEW b \in Bdevs, NEW g \in Groups, Create(b, g), FaultsOK',
           spdkBdev[b] = None
    PROVE  LimitInv'
  <1>1. PICK c \in Choices(g) :
            /\ usage' = GetUsage(c)
            /\ spdkBdev' \in {spdkBdev, [spdkBdev EXCEPT ![b] = c]}
            /\ bdevCluster' = [bdevCluster EXCEPT ![b] = c]
            /\ bdevParams' = bdevParams \cup {b}
            /\ UNCHANGED strategy
    BY DEF Create
  <1>2. CountInv'
    BY CreateCount DEF LimitInv
  <1>3. \A a \in Bdevs : spdkBdev'[a] # None =>
            a \in bdevParams' /\ bdevCluster'[a] = spdkBdev'[a]
    BY <1>1 DEF LimitInv, CountInv, ClusterTypeOK
  <1>4. ASSUME strategy # "pool", NEW d \in DOMAIN usage'
        PROVE  usage'[d] <= Limit
    <2>1. /\ DOMAIN usage' = DOMAIN usage \cup {c}
          /\ usage'[c] = IF c \in DOMAIN usage THEN usage[c] + 1 ELSE 1
          /\ \A e \in DOMAIN usage \ {c} : usage'[e] = usage[e]
      BY <1>1, GetUsageCounts, ChoiceIsContext DEF LimitInv
    <2>2. c \in DOMAIN usage => usage[c] < Limit /\ usage[c] \in Nat
      BY <1>4, ChoiceIsContext DEF LimitInv, CountInv, ClusterTypeOK
    <2> QED
      BY <1>4, <2>1, <2>2, LimitAssumption DEF LimitInv
  <1> QED
    BY <1>1, <1>2, <1>3, <1>4 DEF LimitInv

LEMMA LimitForget ==
    ASSUME LimitInv, NEW b \in Bdevs, NEW freed \in BOOLEAN, Forget(b, freed),
           spdkBdev' = spdkBdev \/ spdkBdev' = Gone(b),
           spdkBdev'[b] = None, FaultsOK'
    PROVE  LimitInv'
  <1>1. CountInv'
    <2>1. spdkBdev' \in [Bdevs -> Contexts \cup {None}]
      BY DEF LimitInv, CountInv, ClusterTypeOK, Gone
    <2> QED
      BY <2>1, ForgetCount DEF LimitInv
  <1>2. bdevParams' = bdevParams \ {b} /\ UNCHANGED <<strategy, bdevCluster>>
    BY DEF Forget
  <1>3. \A a \in Bdevs : spdkBdev'[a] # None =>
            a \in bdevParams' /\ bdevCluster'[a] = spdkBdev'[a]
    BY <1>2 DEF LimitInv, CountInv, ClusterTypeOK, Gone
  <1>4. ASSUME strategy # "pool", NEW d \in DOMAIN usage'
        PROVE  usage'[d] <= Limit
    <2>1. CASE b \notin bdevParams
      BY <1>4, <2>1 DEF Forget, LimitInv
    <2>2. CASE b \in bdevParams
      <3>1. usage' = PutUsage(bdevCluster[b], freed)
        BY <2>2 DEF Forget, Put
      <3>2. d \in DOMAIN usage /\ usage[d] \in Nat /\ usage[d] <= Limit
        BY <1>4, <3>1 DEF PutUsage, LimitInv, CountInv, ClusterTypeOK
      <3>3. usage'[d] = usage[d] \/ usage'[d] = usage[d] - 1
        BY <1>4, <3>1 DEF PutUsage
      <3> QED
        BY <3>2, <3>3, LimitAssumption
    <2> QED
      BY <2>1, <2>2
  <1> QED
    BY <1>1, <1>2, <1>3, <1>4 DEF LimitInv

LEMMA LimitAbort ==
    ASSUME ClusterAbort, FaultsOK'
    PROVE  LimitInv'
  <1>1. CountInv'
    BY AbortCount
  <1>2. \A b \in Bdevs : spdkBdev'[b] = None
    BY DEF ClusterAbort
  <1>3. strategy' # "pool" => DOMAIN usage' = {}
    BY DEF ClusterAbort, NewUsage
  <1> QED
    BY <1>1, <1>2, <1>3 DEF LimitInv

LEMMA LimitStep ==
    ASSUME LimitInv, "refused" \notin failed', [ClusterNext]_clusterVars
    PROVE  LimitInv'
  <1>1. CountInv /\ ClusterTypeOK
    BY DEF LimitInv, CountInv
  <1>f. (\E kind : Fault(kind)) \/ UNCHANGED faultVars => FaultsOK'
    BY <1>1, FaultStep DEF Fault, ClusterTypeOK
  <1>2. CountInv'
    BY <1>1, CountStep
  <1>3. ASSUME NEW b \in Bdevs, NEW g \in Groups, CreateBdev(b, g)
        PROVE  LimitInv'
    BY <1>f, <1>3, LimitCreate DEF CreateBdev
  <1>4. ASSUME NEW b \in Bdevs, NEW g \in Groups, CreateNameless(b, g)
        PROVE  LimitInv'
    BY <1>f, <1>4, LimitCreate DEF CreateNameless
  <1>5. ASSUME NEW b \in Bdevs, NEW g \in Groups, CreateTimesOut(b, g)
        PROVE  LimitInv'
    <2>1. spdkBdev[b] = None /\ FaultsOK'
      BY <1>f, <1>5 DEF CreateTimesOut
    <2>2. CASE ClusterAbort
      BY <1>1, <2>1, <2>2, LimitAbort
    <2>3. CASE Forget(b, CanFree(bdevCluster[b], spdkBdev)) /\ UNCHANGED spdkBdev
      <3>1. PICK freed \in BOOLEAN : Forget(b, freed)
        BY <2>3 DEF CanFree
      <3> QED
        BY <1>1, <2>1, <2>3, <3>1, LimitForget
    <2> QED
      BY <1>5, <2>2, <2>3 DEF CreateTimesOut
  <1>6. ASSUME NEW g \in Groups, CreateFails(g)
        PROVE  LimitInv'
    <2>1. CASE ClusterAbort /\ FaultsOK'
      BY <2>1, LimitAbort
    <2>2. ASSUME NEW c,
                 usage' = [d \in IF strategy = "pool" THEN DOMAIN usage
                                 ELSE DOMAIN usage \ {c} |-> usage[d]],
                 UNCHANGED <<strategy, bdevVars>>
          PROVE  LimitInv'
      BY <1>2, <2>2 DEF LimitInv, bdevVars
    <2> QED
      BY <1>f, <1>6, <2>1, <2>2 DEF CreateFails
  <1>7. ASSUME NEW b \in Bdevs, DeleteBdev(b)
        PROVE  LimitInv'
    <2>1. PICK freed \in BOOLEAN : Forget(b, freed)
      BY <1>7 DEF DeleteBdev, CanFree
    <2>2. spdkBdev' = Gone(b) /\ spdkBdev'[b] = None
      BY <1>1, <1>7 DEF DeleteBdev, Gone, ClusterTypeOK
    <2>3. FaultsOK'
      BY <1>f, <1>7 DEF DeleteBdev
    <2> QED
      BY <1>1, <2>1, <2>2, <2>3, LimitForget
  <1>8. ASSUME NEW b \in Bdevs, DeleteTimesOut(b)
        PROVE  LimitInv'
    BY <1>1, <1>2, <1>8 DEF DeleteTimesOut, LimitInv, Gone, ClusterTypeOK
  <1>9. ASSUME NEW b \in Bdevs, DeleteRefused(b)
        PROVE  LimitInv'
    BY <1>9 DEF DeleteRefused, Fault
  <1>10. CASE UNCHANGED clusterVars
    BY <1>2, <1>10 DEF LimitInv, clusterVars, bdevVars
  <1> QED
    BY <1>3, <1>4, <1>5, <1>6, <1>7, <1>8, <1>9, <1>10 DEF ClusterNext

LEMMA LimitStepUntilRefused ==
    ASSUME CountInv, "refused" \notin failed => LimitInv, [ClusterNext]_clusterVars
    PROVE  /\ CountInv'
           /\ "refused" \notin failed' => LimitInv'
  <1>1. CountInv'
    BY CountStep
  <1>2. failed \subseteq failed'
    BY DEF ClusterNext, CreateBdev, CreateNameless, CreateTimesOut, CreateFails, DeleteBdev,
           DeleteTimesOut, DeleteRefused, Fault, faultVars, clusterVars
  <1> QED
    BY <1>1, <1>2, LimitStep

\* Until SPDK refuses to delete a bdev, no context has more bdevs than
\* bdevs_per_cluster or flat_bdevs_per_cluster, whatever else fails.
THEOREM LimitStaysKept == ClusterSpec => []LimitIsKept
  <1> DEFINE Inv == CountInv /\ ("refused" \notin failed => LimitInv)
  <1>1. ClusterInit => Inv
    BY InitCount DEF ClusterInit, NewUsage, LimitInv
  <1>2. Inv /\ [ClusterNext]_clusterVars => Inv'
    BY LimitStepUntilRefused
  <1>3. Inv => LimitIsKept
    BY LimitInvHolds DEF LimitIsKept
  <1> HIDE DEF Inv
  <1> QED
    BY <1>1, <1>2, <1>3, PTL DEF ClusterSpec

\* Until then a bdev's entry in bdev_cluster also names the context SPDK has
\* it on, which set_ana_state relies on.
THEOREM BdevClusterStaysCurrent == ClusterSpec => []BdevClusterIsCurrent
  <1> DEFINE Inv == CountInv /\ ("refused" \notin failed => LimitInv)
  <1>1. ClusterInit => Inv
    BY InitCount DEF ClusterInit, NewUsage, LimitInv
  <1>2. Inv /\ [ClusterNext]_clusterVars => Inv'
    BY LimitStepUntilRefused
  <1>3. Inv => BdevClusterIsCurrent
    BY LimitInvHolds DEF BdevClusterIsCurrent
  <1> HIDE DEF Inv
  <1> QED
    BY <1>1, <1>2, <1>3, PTL DEF ClusterSpec

(***************************************************************************)
(* The counts while nothing has failed: each context is counted once for   *)
(* each of its bdevs, it is registered as long as it is counted, and only  *)
(* the pool keeps contexts that are not.                                   *)
(***************************************************************************)
ExactInv ==
    /\ LimitInv
    /\ \A b \in bdevParams : spdkBdev[b] # None
    /\ \A c \in DOMAIN usage : usage[c] = Cardinality(BdevsOn(c))
    /\ strategy = "pool" => DOMAIN usage = {None} \X (1..Limit)
    /\ strategy # "pool" => \A c \in DOMAIN usage : usage[c] > 0
    /\ registered = {c \in DOMAIN usage : usage[c] > 0}

LEMMA BdevsOnIsFinite ==
    ASSUME NEW c
    PROVE  /\ IsFiniteSet(BdevsOn(c))
           /\ Cardinality(BdevsOn(c)) \in Nat
           /\ Cardinality(BdevsOn(c)) = 0 <=> \A b \in Bdevs : spdkBdev[b] # c
  <1>1. BdevsOn(c) \in SUBSET Bdevs
    BY DEF BdevsOn
  <1>2. IsFiniteSet(BdevsOn(c))
    BY <1>1, FS_Subset, BdevAssumption
  <1>3. Cardinality(BdevsOn(c)) = 0 <=> BdevsOn(c) = {}
    BY <1>2, FS_EmptySet
  <1>4. BdevsOn(c) = {} <=> \A b \in Bdevs : spdkBdev[b] # c
    BY DEF BdevsOn
  <1> QED
    BY <1>2, <1>3, <1>4, FS_CardinalityType

\* A context with a bdev is in the dictionary.
LEMMA ContextOfBdev ==
    ASSUME LimitInv, NEW b \in Bdevs, spdkBdev[b] # None
    PROVE  /\ b \in bdevParams
           /\ bdevCluster[b] = spdkBdev[b]
           /\ spdkBdev[b] \in DOMAIN usage
           /\ spdkBdev[b] \in Contexts
           /\ usage[spdkBdev[b]] \in Nat \ {0}
  <1>1. b \in bdevParams /\ bdevCluster[b] = spdkBdev[b]
    BY DEF LimitInv
  <1>2. CountInv /\ ClusterTypeOK
    BY DEF LimitInv, CountInv
  <1>3. PutNeverAsserts
    BY <1>2, CoveredPutNeverAsserts
  <1>4. spdkBdev[b] \in DOMAIN usage /\ usage[spdkBdev[b]] > 0
    BY <1>1, <1>3 DEF PutNeverAsserts
  <1> QED
    BY <1>1, <1>2, <1>4 DEF ClusterTypeOK

LEMMA ExactInvHolds ==
    ASSUME ExactInv
    PROVE  CountsAreExact
  <1> DEFINE used == {spdkBdev[b] : b \in {d \in Bdevs : spdkBdev[d] # None}}
  <1>1. ASSUME NEW c \in registered
        PROVE  c \in used
    <2>1. c \in DOMAIN usage /\ usage[c] = Cardinality(BdevsOn(c)) /\ usage[c] > 0
      BY DEF ExactInv
    <2>2. PICK b \in Bdevs : spdkBdev[b] = c
      BY <2>1, BdevsOnIsFinite
    <2>3. c # None
      BY <2>1, NoneAssumption DEF ExactInv, LimitInv, CountInv, ClusterTypeOK
    <2> QED
      BY <2>2, <2>3
  <1>2. ASSUME NEW b \in Bdevs, spdkBdev[b] # None
        PROVE  spdkBdev[b] \in registered
    <2>1. spdkBdev[b] \in DOMAIN usage /\ usage[spdkBdev[b]] \in Nat \ {0}
      BY <1>2, ContextOfBdev DEF ExactInv
    <2>2. usage[spdkBdev[b]] > 0
      BY <2>1
    <2> QED
      BY <2>1, <2>2 DEF ExactInv
  <1>3. registered = used
    BY <1>1, <1>2
  <1> QED
    BY <1>3 DEF CountsAreExact, ExactInv

\* An allocator that is new counts nothing.
LEMMA NewIsExact ==
    ASSUME strategy' \in Strategies,
           usage' = NewUsage(strategy'),
           registered' = {},
           spdkBdev' = [b \in Bdevs |-> None],
           bdevParams' = {},
           LimitInv'
    PROVE  ExactInv'
  <1>1. \A c \in DOMAIN usage' : usage'[c] = 0
    BY DEF NewUsage
  <1>2. DOMAIN usage' = IF strategy' = "pool" THEN {None} \X (1..Limit) ELSE {}
    BY DEF NewUsage
  <1>3. ASSUME NEW c \in DOMAIN usage'
        PROVE  usage'[c] = Cardinality(BdevsOn(c)')
    <2>1. c # None
      BY NoneAssumption DEF LimitInv, CountInv, ClusterTypeOK
    <2>2. BdevsOn(c)' = {}
      BY <2>1 DEF BdevsOn
    <2> QED
      BY <1>1, <2>2, FS_EmptySet
  <1>4. registered' = {c \in DOMAIN usage' : usage'[c] > 0}
    BY <1>1
  <1> QED
    BY <1>2, <1>3, <1>4 DEF ExactInv

LEMMA ExactCreate ==
    ASSUME ExactInv, NEW b \in Bdevs, NEW g \in Groups, CreateBdev(b, g)
    PROVE  ExactInv'
  <1>1. CountInv /\ ClusterTypeOK /\ LimitInv
    BY DEF ExactInv, LimitInv, CountInv
  <1>2. LimitInv'
    <2>1. FaultsOK'
      BY <1>1, FaultStep DEF CreateBdev, ClusterTypeOK
    <2> QED
      BY <1>1, <2>1, LimitCreate DEF CreateBdev
  <1>3. PICK c \in Choices(g) :
            /\ usage' = GetUsage(c)
            /\ registered' = registered \cup {c}
            /\ spdkBdev' \in {spdkBdev, [spdkBdev EXCEPT ![b] = c]}
            /\ bdevParams' = bdevParams \cup {b}
            /\ UNCHANGED strategy
    BY DEF CreateBdev, Create
  <1>4. spdkBdev[b] = None /\ spdkBdev' = [spdkBdev EXCEPT ![b] = c]
    BY <1>3 DEF CreateBdev
  <1>5. c \in Contexts /\ c # None /\ (strategy = "pool" => c \in DOMAIN usage)
    BY <1>1, ChoiceIsContext, NoneAssumption
  <1>6. /\ DOMAIN usage' = DOMAIN usage \cup {c}
        /\ usage'[c] = IF c \in DOMAIN usage THEN usage[c] + 1 ELSE 1
        /\ \A d \in DOMAIN usage \ {c} : usage'[d] = usage[d]
    BY <1>1, <1>3, <1>5, GetUsageCounts
  <1>7. \A d \in DOMAIN usage : usage[d] \in Nat
    BY <1>1 DEF ClusterTypeOK
  <1>8. BdevsOn(c)' = BdevsOn(c) \cup {b} /\ b \notin BdevsOn(c)
    BY <1>1, <1>4, <1>5 DEF BdevsOn, ClusterTypeOK
  <1>9. Cardinality(BdevsOn(c)') = Cardinality(BdevsOn(c)) + 1
    BY <1>8, BdevsOnIsFinite, FS_AddElement
  <1>10. c \notin DOMAIN usage => Cardinality(BdevsOn(c)) = 0
    BY <1>1, <1>5, ContextOfBdev, BdevsOnIsFinite
  <1>11. usage'[c] = Cardinality(BdevsOn(c)') /\ usage'[c] > 0
    BY <1>6, <1>7, <1>9, <1>10, BdevsOnIsFinite DEF ExactInv
  <1>12. ASSUME NEW d \in DOMAIN usage', d # c
         PROVE  usage'[d] = Cardinality(BdevsOn(d)') /\ usage'[d] = usage[d]
    <2>1. d \in DOMAIN usage /\ d # None
      BY <1>1, <1>6, <1>12, NoneAssumption DEF ClusterTypeOK
    <2>2. BdevsOn(d)' = BdevsOn(d)
      BY <1>1, <1>4, <1>12, <2>1 DEF BdevsOn, ClusterTypeOK
    <2> QED
      BY <1>6, <1>12, <2>1, <2>2 DEF ExactInv
  <1>13. \A d \in DOMAIN usage' : usage'[d] = Cardinality(BdevsOn(d)')
    BY <1>11, <1>12
  <1>14. strategy' = "pool" => DOMAIN usage' = {None} \X (1..Limit)
    BY <1>3, <1>5, <1>6 DEF ExactInv
  <1>15. strategy' # "pool" => \A d \in DOMAIN usage' : usage'[d] > 0
    BY <1>3, <1>6, <1>11 DEF ExactInv
  <1>16. registered' = {d \in DOMAIN usage' : usage'[d] > 0}
    BY <1>3, <1>6, <1>11 DEF ExactInv
  <1>17. \A a \in bdevParams' : spdkBdev'[a] # None
    BY <1>1, <1>3, <1>4, <1>5 DEF ExactInv, ClusterTypeOK
  <1> QED
    BY <1>2, <1>13, <1>14, <1>15, <1>16, <1>17 DEF ExactInv

\* put_cluster frees the context with its last bdev.
LEMMA ExactDelete ==
    ASSUME ExactInv, NEW b \in Bdevs, spdkBdev[b] # None, spdkBdev' = Gone(b),
           Forget(b, CanFree(bdevCluster[b], spdkBdev')), LimitInv'
    PROVE  ExactInv'
  <1>1. CountInv /\ ClusterTypeOK /\ LimitInv
    BY DEF ExactInv, LimitInv, CountInv
  <1> PICK c : c = bdevCluster[b]
    OBVIOUS
  <1> PICK freed \in BOOLEAN : freed = CanFree(c, spdkBdev')
    BY DEF CanFree
  <1>2. /\ b \in bdevParams
        /\ c = spdkBdev[b]
        /\ c \in DOMAIN usage
        /\ c \in Contexts
        /\ usage[c] \in Nat \ {0}
    BY <1>1, ContextOfBdev
  <1>3. c # None
    BY <1>2
  <1>4. /\ usage' = PutUsage(c, freed)
        /\ registered' = IF usage[c] = 1 /\ freed THEN registered \ {c} ELSE registered
        /\ bdevParams' = bdevParams \ {b}
        /\ UNCHANGED strategy
    BY <1>2 DEF Forget, Put
  <1>5. /\ DOMAIN usage' = IF strategy # "pool" /\ usage[c] = 1 /\ freed
                           THEN DOMAIN usage \ {c} ELSE DOMAIN usage
        /\ \A d \in DOMAIN usage' : usage'[d] = IF d = c THEN usage[c] - 1 ELSE usage[d]
    BY <1>4 DEF PutUsage
  <1>6. \A d \in DOMAIN usage : usage[d] \in Nat /\ d # None
    BY <1>1, NoneAssumption DEF ClusterTypeOK
  <1>7. BdevsOn(c)' = BdevsOn(c) \ {b} /\ b \in BdevsOn(c)
    BY <1>1, <1>2, <1>3 DEF BdevsOn, Gone, ClusterTypeOK
  <1>8. Cardinality(BdevsOn(c)') = usage[c] - 1 /\ usage[c] = Cardinality(BdevsOn(c))
    <2>1. usage[c] = Cardinality(BdevsOn(c))
      BY <1>2 DEF ExactInv
    <2>2. IsFiniteSet(BdevsOn(c))
      BY BdevsOnIsFinite
    <2>3. Cardinality(BdevsOn(c) \ {b}) = Cardinality(BdevsOn(c)) - 1
      BY <1>7, <2>2, FS_RemoveElement
    <2> QED
      BY <1>7, <2>1, <2>3
  <1>9. usage[c] = 1 => freed
    <2> SUFFICES ASSUME usage[c] = 1
                 PROVE  freed
      OBVIOUS
    <2>1. BdevsOn(c)' = {}
      BY <1>7, <1>8, BdevsOnIsFinite, FS_RemoveElement, FS_EmptySet
    <2> QED
      BY <2>1 DEF CanFree, BdevsOn
  <1>10. ASSUME NEW d \in DOMAIN usage', d # c
         PROVE  usage'[d] = Cardinality(BdevsOn(d)') /\ usage'[d] = usage[d]
    <2>1. d \in DOMAIN usage /\ d # None
      BY <1>5, <1>6
    <2>2. BdevsOn(d)' = BdevsOn(d)
      BY <1>1, <1>2, <1>10, <2>1 DEF BdevsOn, Gone, ClusterTypeOK
    <2> QED
      BY <1>5, <1>10, <2>1, <2>2 DEF ExactInv
  <1>11. \A d \in DOMAIN usage' : usage'[d] = Cardinality(BdevsOn(d)')
    BY <1>5, <1>8, <1>10
  <1>12. strategy' # "pool" => \A d \in DOMAIN usage' : usage'[d] > 0
    <2> SUFFICES ASSUME strategy # "pool", NEW d \in DOMAIN usage'
                 PROVE  usage'[d] > 0
      BY <1>4
    <2>1. CASE d = c
      <3>1. usage[c] # 1
        BY <1>5, <1>9, <2>1
      <3>2. usage[c] - 1 > 0
        BY <1>2, <3>1
      <3> QED
        BY <1>5, <2>1, <3>2
    <2>2. CASE d # c
      BY <1>5, <1>10, <2>2 DEF ExactInv
    <2> QED
      BY <2>1, <2>2
  <1>13. registered' = {d \in DOMAIN usage' : usage'[d] > 0}
    <2>1. CASE usage[c] = 1
      <3>1. registered' = registered \ {c}
        BY <1>4, <1>9, <2>1
      <3>2. c \in DOMAIN usage' => ~(usage'[c] > 0)
        BY <1>5, <2>1
      <3>3. DOMAIN usage' \ {c} = DOMAIN usage \ {c}
        BY <1>5
      <3>4. \A d \in DOMAIN usage \ {c} : usage'[d] = usage[d]
        BY <1>5, <3>3
      <3> QED
        BY <3>1, <3>2, <3>3, <3>4 DEF ExactInv
    <2>2. CASE usage[c] # 1
      <3>1. usage[c] > 0 /\ usage[c] - 1 > 0
        BY <1>2, <2>2
      <3>2. DOMAIN usage' = DOMAIN usage /\ registered' = registered
        BY <1>4, <1>5, <2>2
      <3>3. \A d \in DOMAIN usage : usage'[d] > 0 <=> usage[d] > 0
        BY <1>5, <3>1, <3>2
      <3> QED
        BY <3>2, <3>3 DEF ExactInv
    <2> QED
      BY <2>1, <2>2
  <1>14. \A a \in bdevParams' : spdkBdev'[a] # None
    BY <1>1, <1>4 DEF ExactInv, Gone, ClusterTypeOK
  <1> QED
    BY <1>4, <1>5, <1>11, <1>12, <1>13, <1>14 DEF ExactInv

\* A failed creation without an earlier fault undoes what it did.
LEMMA ExactFails ==
    ASSUME ExactInv, NEW g \in Groups, CreateFails(g), failed' = {}, LimitInv'
    PROVE  ExactInv'
  <1>1. CountInv /\ ClusterTypeOK /\ LimitInv
    BY DEF ExactInv, LimitInv, CountInv
  <1>2. CASE ClusterAbort
    BY <1>2, NewIsExact DEF ClusterAbort
  <1>3. ASSUME NEW c \in Choices(g), Alone(c),
               usage' = [d \in IF strategy = "pool" THEN DOMAIN usage
                               ELSE DOMAIN usage \ {c} |-> usage[d]],
               registered' = registered \ {c},
               UNCHANGED <<strategy, bdevVars>>
        PROVE  ExactInv'
    <2>1. GetUsage(c)[c] = IF c \in DOMAIN usage THEN usage[c] + 1 ELSE 1
      BY <1>1, ChoiceIsContext, GetUsageCounts
    <2>2. c \in DOMAIN usage => usage[c] \in Nat /\ usage[c] = 0
      BY <1>1, <1>3, <2>1 DEF Alone, ClusterTypeOK
    <2>3. c \notin registered
      BY <2>2 DEF ExactInv
    <2>4. strategy # "pool" => c \notin DOMAIN usage
      BY <2>2 DEF ExactInv
    <2>5. DOMAIN usage' = DOMAIN usage /\ \A d \in DOMAIN usage : usage'[d] = usage[d]
      BY <1>3, <2>4
    <2>6. registered' = registered
      BY <1>3, <2>3
    <2>7. \A d : BdevsOn(d)' = BdevsOn(d)
      BY <1>3 DEF BdevsOn, bdevVars
    <2> QED
      BY <1>3, <2>5, <2>6, <2>7 DEF ExactInv, bdevVars
  <1> QED
    BY <1>2, <1>3 DEF CreateFails

LEMMA ExactStep ==
    ASSUME ExactInv, failed' = {}, [ClusterNext]_clusterVars
    PROVE  ExactInv'
  <1>1. LimitInv'
    BY LimitStep DEF ExactInv
  <1>2. \A kind : ~Fault(kind)
    BY DEF Fault
  <1>3. ASSUME NEW b \in Bdevs, NEW g \in Groups, CreateBdev(b, g)
        PROVE  ExactInv'
    BY <1>3, ExactCreate
  <1>4. ASSUME NEW g \in Groups, CreateFails(g)
        PROVE  ExactInv'
    BY <1>1, <1>4, ExactFails
  <1>5. ASSUME NEW b \in Bdevs, DeleteBdev(b)
        PROVE  ExactInv'
    BY <1>1, <1>2, <1>5, ExactDelete DEF DeleteBdev
  <1>6. CASE UNCHANGED clusterVars
    <2>1. \A d : BdevsOn(d)' = BdevsOn(d)
      BY <1>6 DEF BdevsOn, clusterVars, bdevVars
    <2> QED
      BY <1>1, <1>6, <2>1 DEF ExactInv, clusterVars, bdevVars
  <1> QED
    BY <1>2, <1>3, <1>4, <1>5, <1>6
    DEF ClusterNext, CreateNameless, CreateTimesOut, DeleteTimesOut, DeleteRefused

\* The invariant of a gateway from its first state until something fails.
UntilFailure ==
    /\ CountInv
    /\ failed = {} => ExactInv

LEMMA AlwaysUntilFailure == ClusterSpec => []UntilFailure
  <1>1. ASSUME ClusterInit
        PROVE  UntilFailure
    <2>1. CountInv
      BY <1>1, InitCount
    <2>2. LimitInv
      BY <1>1, <2>1 DEF ClusterInit, NewUsage, LimitInv
    <2>3. ASSUME NEW c \in DOMAIN usage
          PROVE  usage[c] = Cardinality(BdevsOn(c)) /\ usage[c] = 0
      <3>1. c # None
        BY <2>1, NoneAssumption DEF CountInv, ClusterTypeOK
      <3>2. BdevsOn(c) = {}
        BY <1>1, <3>1 DEF ClusterInit, BdevsOn
      <3> QED
        BY <1>1, <3>2, FS_EmptySet DEF ClusterInit, NewUsage
    <2>4. DOMAIN usage = IF strategy = "pool" THEN {None} \X (1..Limit) ELSE {}
      BY <1>1 DEF ClusterInit, NewUsage
    <2>5. registered = {c \in DOMAIN usage : usage[c] > 0}
      BY <1>1, <2>3 DEF ClusterInit
    <2>6. ExactInv
      BY <1>1, <2>2, <2>3, <2>4, <2>5 DEF ClusterInit, ExactInv
    <2> QED
      BY <2>1, <2>6 DEF UntilFailure
  <1>2. ASSUME UntilFailure, [ClusterNext]_clusterVars
        PROVE  UntilFailure'
    <2>1. failed \subseteq failed'
      BY <1>2 DEF ClusterNext, CreateBdev, CreateNameless, CreateTimesOut, CreateFails,
                  DeleteBdev, DeleteTimesOut, DeleteRefused, Fault, faultVars, clusterVars
    <2> QED
      BY <1>2, <2>1, CountStep, ExactStep DEF UntilFailure
  <1> QED
    BY <1>1, <1>2, PTL DEF ClusterSpec

\* As long as SPDK keeps to its contract the counts of the allocators are the
\* numbers of bdevs, and the contexts registered are those in use
\* (CountsAreExact): none is freed under a bdev, none is left behind.
THEOREM CountsStayExact == ClusterSpec => []CountsAreExact
  <1>1. UntilFailure => CountsAreExact
    BY ExactInvHolds DEF UntilFailure, CountsAreExact
  <1> QED
    BY <1>1, AlwaysUntilFailure, PTL

\* A new bdev of the pool goes to a context with the fewest bdevs
\* (FewestBdevsFirst), as min() over the counts of the pool means it to.
THEOREM FewestComeFirst == ClusterSpec => FewestBdevsFirst
  <1> DEFINE Fewest(b) ==
          strategy = "pool" /\ failed = {} /\ spdkBdev[b] = None /\ spdkBdev'[b] # None =>
              \A c \in DOMAIN usage :
                  Cardinality(BdevsOn(spdkBdev'[b])) <= Cardinality(BdevsOn(c))
  <1>1. ASSUME UntilFailure, [ClusterNext]_clusterVars, NEW b \in Bdevs
        PROVE  Fewest(b)
    <2> SUFFICES ASSUME strategy = "pool", failed = {},
                        spdkBdev[b] = None, spdkBdev'[b] # None,
                        NEW d \in DOMAIN usage
                 PROVE  Cardinality(BdevsOn(spdkBdev'[b])) <= Cardinality(BdevsOn(d))
      OBVIOUS
    <2>1. ExactInv /\ CountInv /\ ClusterTypeOK
      BY <1>1 DEF UntilFailure, CountInv
    <2>2. PICK a \in Bdevs, g \in Groups : CreateBdev(a, g) \/ CreateNameless(a, g)
      BY <1>1, <2>1
      DEF ClusterNext, CreateTimesOut, CreateFails, ClusterAbort, DeleteBdev, DeleteTimesOut,
          DeleteRefused, Gone, clusterVars, bdevVars, ClusterTypeOK
    <2>3. PICK c \in Choices(g) : spdkBdev' \in {spdkBdev, [spdkBdev EXCEPT ![a] = c]}
      BY <2>2 DEF CreateBdev, CreateNameless, Create
    <2>4. spdkBdev'[b] = c
      BY <2>1, <2>3 DEF ClusterTypeOK
    <2>5. c \in DOMAIN usage /\ usage[c] <= usage[d]
      BY <2>3 DEF Choices, LeastUsed
    <2> QED
      BY <2>1, <2>4, <2>5 DEF ExactInv
  <1>2. UntilFailure /\ [ClusterNext]_clusterVars => \A b \in Bdevs : Fewest(b)
    BY <1>1
  <1> QED
    BY <1>2, AlwaysUntilFailure, PTL DEF ClusterSpec, FewestBdevsFirst

(***************************************************************************)
(* The next context                                                        *)
(***************************************************************************)
LEMMA Smallest ==
    ASSUME NEW T \in SUBSET Nat, T # {}
    PROVE  \E m \in T : \A n \in T : m <= n
  <1> DEFINE R == OpToRel(<, Nat)
  <1>1. IsWellFoundedOn(R, Nat)
    BY NatLessThanWellFounded
  <1>2. \A x, y \in Nat : x < y => <<x, y>> \in R
    BY DEF OpToRel
  <1> HIDE DEF R
  <1>3. \E m \in T : \A n \in T : ~ (<<n, m>> \in R)
    BY <1>1, WFMin
  <1>4. PICK m \in T : \A n \in T : <<n, m>> \notin R
    BY <1>3
  <1>5. ASSUME NEW n \in T
        PROVE  m <= n
    <2>1. m \in Nat /\ n \in Nat
      OBVIOUS
    <2>2. ~ (n < m)
      BY <1>2, <1>4, <2>1
    <2> QED
      BY <2>1, <2>2
  <1> QED
    BY <1>5

\* The pool has a context with the fewest bdevs.
LEMMA PoolHasLeast ==
    ASSUME ExactInv, strategy = "pool"
    PROVE  LeastUsed # {}
  <1>1. \A c \in DOMAIN usage : usage[c] \in Nat
    BY DEF ExactInv, LimitInv, CountInv, ClusterTypeOK
  <1>2. <<None, 1>> \in DOMAIN usage
    BY LimitAssumption DEF ExactInv
  <1> DEFINE counts == {usage[c] : c \in DOMAIN usage}
  <1>3. counts \in SUBSET Nat /\ counts # {}
    BY <1>1, <1>2
  <1>4. PICK m \in counts : \A n \in counts : m <= n
    BY <1>3, Smallest
  <1>5. PICK c \in DOMAIN usage : usage[c] = m
    OBVIOUS
  <1>6. c \in LeastUsed
    BY <1>4, <1>5 DEF LeastUsed
  <1> QED
    BY <1>6

\* A dictionary of n contexts leaves one of the first n + 1 numbers of a group
\* free, and _alloc_cluster_name stops at the first one that is.
LEMMA NewContextExists ==
    ASSUME CountInv, NEW g \in Groups
    PROVE  NewContext(g) # {}
  <1> PICK N : N = Cardinality(DOMAIN usage)
    OBVIOUS
  <1> PICK s : s = Scope(g)
    OBVIOUS
  <1>1. IsFiniteSet(DOMAIN usage) /\ N \in Nat
    BY FS_CardinalityType DEF CountInv
  <1> DEFINE free == {n \in 0..N : <<s, n>> \notin DOMAIN usage}
             f == [n \in 0..N |-> <<s, n>>]
  <1>2. free # {}
    <2> SUFFICES ASSUME free = {}
                 PROVE  FALSE
      OBVIOUS
    <2>1. f \in [0..N -> DOMAIN usage]
      OBVIOUS
    <2>2. \A m, n \in 0..N : f[m] = f[n] => m = n
      OBVIOUS
    <2>3. f \in Injection(0..N, DOMAIN usage)
      BY <2>1, <2>2 DEF Injection, IsInjective
    <2>4. Cardinality(0..N) <= N
      BY <1>1, <2>3, FS_Injection
    <2>5. Cardinality(0..N) = N + 1
      <3>1. 0 \in Int /\ N \in Int /\ ~(0 > N) /\ N - 0 + 1 = N + 1
        BY <1>1
      <3> QED
        BY <3>1, FS_Interval
    <2> QED
      BY <1>1, <2>4, <2>5
  <1>3. free \in SUBSET Nat
    BY <1>1
  <1>4. PICK m \in free : \A n \in free : m <= n
    BY <1>2, <1>3, Smallest
  <1>5. m \in 0..N /\ m \in Nat /\ <<s, m>> \notin DOMAIN usage
    BY <1>3
  <1>6. ASSUME NEW n \in 0..(m - 1)
        PROVE  <<s, n>> \in DOMAIN usage
    <2>1. n \in 0..N /\ n \in Nat /\ ~(m <= n)
      BY <1>1, <1>5
    <2>2. n \notin free
      BY <1>4, <2>1
    <2> QED
      BY <2>1, <2>2
  <1>7. <<s, m>> \in NewContext(g)
    BY <1>5, <1>6 DEF NewContext
  <1> QED
    BY <1>7

\* As long as nothing failed get_cluster finds a context for the next bdev of
\* any group, and SPDK accepts its name (NextContextIsAvailable).
THEOREM NextContextStaysAvailable == ClusterSpec => []NextContextIsAvailable
  <1>1. ASSUME ExactInv, NEW g \in Groups
        PROVE  \E c \in Choices(g) : CanGet(c)
    <2>1. CountInv
      BY <1>1 DEF ExactInv, LimitInv
    <2>2. CASE strategy = "pool"
      <3>1. PICK c \in LeastUsed : TRUE
        BY <1>1, <2>2, PoolHasLeast
      <3>2. CanGet(c)
        BY <1>1, <2>2 DEF ExactInv, CanGet, IsNew
      <3> QED
        BY <2>2, <3>1, <3>2 DEF Choices
    <2>3. CASE strategy # "pool" /\ Room(g) # {}
      <3>1. PICK c \in Room(g) : TRUE
        BY <2>3
      <3>2. CanGet(c)
        BY <2>3, <3>1 DEF Room, CanGet, IsNew
      <3> QED
        BY <2>3, <3>1, <3>2 DEF Choices
    <2>4. CASE strategy # "pool" /\ Room(g) = {}
      <3>1. PICK c \in NewContext(g) : TRUE
        BY <2>1, NewContextExists
      <3>2. CanGet(c)
        BY <1>1, <3>1 DEF NewContext, ExactInv, CanGet
      <3> QED
        BY <2>4, <3>1, <3>2 DEF Choices
    <2> QED
      BY <2>2, <2>3, <2>4
  <1>2. UntilFailure => NextContextIsAvailable
    BY <1>1 DEF UntilFailure, NextContextIsAvailable
  <1> QED
    BY <1>2, AlwaysUntilFailure, PTL

=============================================================================
