--------------------------- MODULE LruKeysProofs ---------------------------
(***************************************************************************)
(* The keys of different items are different, whatever the widths of the   *)
(* fields are.                                                             *)
(***************************************************************************)
EXTENDS LruKeys, TLAPS

\* The key of a number in base V determines both of its digits.
LEMMA DigitsUnique ==
  ASSUME NEW V \in Nat \ {0},
         NEW a \in Nat, NEW b \in Nat,
         NEW u \in 0..(V - 1), NEW v \in 0..(V - 1),
         a * V + u = b * V + v
  PROVE  a = b /\ u = v
<1>1. ASSUME NEW x \in Nat, NEW y \in Nat, x < y
      PROVE  x * V + V <= y * V
  <2>1. PICK d \in Nat : y = x + 1 + d
    <3>1. y - x - 1 \in Nat /\ y = x + 1 + (y - x - 1)
      BY <1>1
    <3>2. QED
      BY <3>1
  <2>2. y * V = x * V + V + d * V
    BY <2>1
  <2>3. d * V >= 0 /\ d * V \in Int
    OBVIOUS
  <2>4. x * V \in Int /\ y * V \in Int
    OBVIOUS
  <2>5. QED
    BY <2>2, <2>3, <2>4
<1>2. a * V \in Int /\ b * V \in Int
  OBVIOUS
<1>3. ~(a < b)
  BY <1>1, <1>2
<1>4. ~(b < a)
  BY <1>1, <1>2
<1>5. a = b
  BY <1>3, <1>4
<1>6. QED
  BY <1>2, <1>5

\* A field that fits is not cut.
LEMMA FieldFits ==
  ASSUME NEW N \in Nat \ {0}, NEW x \in 0..(N - 1)
  PROVE  x % N = x
  OBVIOUS

\* The packing loses nothing: a key determines its three fields.
LEMMA PackedUnique ==
  ASSUME NEW p \in Nat, NEW q \in Nat,
         NEW s \in 0..(SubFields - 1), NEW t \in 0..(SubFields - 1),
         NEW u \in 0..(Values - 1), NEW v \in 0..(Values - 1),
         Packed(p, s, u) = Packed(q, t, v)
  PROVE  p = q /\ s = t /\ u = v
<1>1. (p * SubFields + s) * Values + u = (q * SubFields + t) * Values + v
  BY DEF Packed
<1>2. p * SubFields + s \in Nat /\ q * SubFields + t \in Nat
  BY LruKeysAssumption
<1>3. p * SubFields + s = q * SubFields + t /\ u = v
  BY <1>1, <1>2, DigitsUnique, LruKeysAssumption
<1>4. QED
  BY <1>3, DigitsUnique, LruKeysAssumption

\* In receiver_key and sender_key: two receivers, two senders, or a receiver
\* and a sender never share a key of LEDGER_LRU, if shards and indices fit
\* their fields (256 shards in 12 bits, fewer than 2 ^ 48 items).
THEOREM KeysDistinct ==
  ASSUME NEW s \in 0..(SubFields - 1), NEW t \in 0..(SubFields - 1),
         NEW u \in 0..(Values - 1), NEW v \in 0..(Values - 1)
  PROVE  /\ receiver_key(s, u) = receiver_key(t, v) => s = t /\ u = v
         /\ sender_key(u) = sender_key(v) => u = v
         /\ receiver_key(s, u) # sender_key(v)
<1>1. 0 \in 0..(SubFields - 1)
  BY LruKeysAssumption
<1>2. s % SubFields = s /\ t % SubFields = t /\ u % Values = u /\ v % Values = v
  BY FieldFits, LruKeysAssumption
<1>3. /\ receiver_key(s, u) = Packed(1, s, u)
      /\ receiver_key(t, v) = Packed(1, t, v)
      /\ sender_key(u) = Packed(2, 0, u)
      /\ sender_key(v) = Packed(2, 0, v)
  BY <1>2 DEF receiver_key, sender_key, RECEIVER_KEY_PREFIX, SENDER_KEY_PREFIX
<1>4. receiver_key(s, u) = receiver_key(t, v) => s = t /\ u = v
  BY <1>3, PackedUnique
<1>5. sender_key(u) = sender_key(v) => u = v
  BY <1>1, <1>3, PackedUnique
<1>6. receiver_key(s, u) # sender_key(v)
  BY <1>1, <1>3, PackedUnique
<1>7. QED
  BY <1>4, <1>5, <1>6
=============================================================================
