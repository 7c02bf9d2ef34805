-------------------------- MODULE LedgerTypesProofs --------------------------
(***************************************************************************)
(* Lemmas about SumOverShards, for the proofs about Sync and Pull: what    *)
(* happens to a total when one shard changes.                              *)
(***************************************************************************)
EXTENDS LedgerTypes, FiniteSetTheorems, TLAPS

\* The positions that senders_receivers_total counts.
Positions(f) == UNION {{s} \X (0..(f[s] - 1)) : s \in Shard}

LEMMA PositionsFinite ==
  ASSUME NEW f \in [Shard -> Nat]
  PROVE  IsFiniteSet(Positions(f))
<1> DEFINE G == [s \in Shard |-> {s} \X (0..(f[s] - 1))]
           P == {{s} \X (0..(f[s] - 1)) : s \in Shard}
<1>1. IsFiniteSet(Shard)
  BY FS_Interval, ForestWidthAssumption DEF Shard
<1>2. IsFiniteSet(P)
  <2>1. G \in [Shard -> P]
    OBVIOUS
  <2>2. \A T \in P : \E s \in Shard : G[s] = T
    OBVIOUS
  <2>3. G \in Surjection(Shard, P)
    BY <2>1, <2>2 DEF Surjection
  <2>4. QED
    BY <1>1, <2>3, FS_Surjection
<1>3. ASSUME NEW T \in P PROVE IsFiniteSet(T)
  <2>1. PICK s \in Shard : T = {s} \X (0..(f[s] - 1))
    OBVIOUS
  <2>2. IsFiniteSet({s})
    BY FS_Singleton, Zenon
  <2>3. f[s] - 1 \in Int
    OBVIOUS
  <2>4. IsFiniteSet(0..(f[s] - 1))
    BY <2>3, FS_Interval
  <2>5. QED
    BY <2>1, <2>2, <2>4, FS_Product
<1>4. QED
  BY <1>2, <1>3, FS_UNION DEF Positions

\* More receivers in every shard, no smaller a total.
LEMMA SumMonotone ==
  ASSUME NEW f \in [Shard -> Nat], NEW g \in [Shard -> Nat],
         \A s \in Shard : f[s] <= g[s]
  PROVE  /\ SumOverShards(f) \in Nat /\ SumOverShards(g) \in Nat
         /\ SumOverShards(f) <= SumOverShards(g)
<1>1. \A s \in Shard : 0..(f[s] - 1) \subseteq 0..(g[s] - 1)
  OBVIOUS
<1>2. Positions(f) \subseteq Positions(g)
  BY <1>1 DEF Positions
<1>3. IsFiniteSet(Positions(f)) /\ IsFiniteSet(Positions(g))
  BY PositionsFinite
<1>4. QED
  BY <1>2, <1>3, FS_Subset, FS_CardinalityType DEF SumOverShards, Positions

LEMMA SumZero ==
  SumOverShards([s \in Shard |-> 0]) = 0
<1>1. UNION {{s} \X (0..([t \in Shard |-> 0][s] - 1)) : s \in Shard} = {}
  <2>1. \A s \in Shard : 0..([t \in Shard |-> 0][s] - 1) = {}
    OBVIOUS
  <2>2. QED
    BY <2>1
<1>2. QED
  BY <1>1, FS_EmptySet DEF SumOverShards

\* n positions of one shard.
LEMMA ShardPositions ==
  ASSUME NEW s, NEW n \in Nat
  PROVE  /\ IsFiniteSet({s} \X (0..(n - 1)))
         /\ Cardinality({s} \X (0..(n - 1))) = n
<1>1. IsFiniteSet({s}) /\ Cardinality({s}) = 1
  BY FS_Singleton, Zenon
<1>2. IsFiniteSet(0..(n - 1)) /\ Cardinality(0..(n - 1)) = n
  BY FS_Interval
<1>3. IsFiniteSet({s} \X (0..(n - 1)))
  BY <1>1, <1>2, FS_Product
<1>4. Cardinality({s} \X (0..(n - 1))) = Cardinality({s}) * Cardinality(0..(n - 1))
  BY <1>1, <1>2, FS_Product
<1>5. QED
  BY <1>1, <1>2, <1>3, <1>4

\* When one shard gets n receivers instead of f[s], the total changes by the
\* difference.
LEMMA SumExcept ==
  ASSUME NEW f \in [Shard -> Nat], NEW s \in Shard, NEW n \in Nat
  PROVE  /\ SumOverShards(f) \in Nat
         /\ f[s] <= SumOverShards(f)
         /\ SumOverShards([f EXCEPT ![s] = n]) = (SumOverShards(f) - f[s]) + n
<1> DEFINE g == [f EXCEPT ![s] = n]
           others == UNION {{t} \X (0..(f[t] - 1)) : t \in Shard \ {s}}
           old == {s} \X (0..(f[s] - 1))
           new == {s} \X (0..(n - 1))
<1>1. g \in [Shard -> Nat]
  OBVIOUS
<1>2. Positions(f) = others \cup old
  BY DEF Positions
<1>3. Positions(g) = others \cup new
  <2>1. \A t \in Shard : g[t] = IF t = s THEN n ELSE f[t]
    OBVIOUS
  <2>2. QED
    BY <2>1 DEF Positions
<1>4. others \cap old = {} /\ others \cap new = {}
  OBVIOUS
<1>5. IsFiniteSet(Positions(f))
  BY PositionsFinite
<1>6. IsFiniteSet(others) /\ Cardinality(others) \in Nat
  BY <1>2, <1>5, FS_Subset, FS_CardinalityType
<1>7. /\ IsFiniteSet(old) /\ Cardinality(old) = f[s]
      /\ IsFiniteSet(new) /\ Cardinality(new) = n
  BY ShardPositions
<1> HIDE DEF g, others, old, new
<1>8. /\ Cardinality(Positions(f)) = Cardinality(others) + f[s] - Cardinality({})
      /\ Cardinality(Positions(g)) = Cardinality(others) + n - Cardinality({})
  BY <1>2, <1>3, <1>4, <1>6, <1>7, FS_Union
<1>9. Cardinality({}) = 0
  BY FS_EmptySet
<1>10. SumOverShards(f) = Cardinality(Positions(f)) /\ SumOverShards(g) = Cardinality(Positions(g))
  BY DEF SumOverShards, Positions
<1>11. QED
  BY <1>6, <1>8, <1>9, <1>10 DEF g
==============================================================================
