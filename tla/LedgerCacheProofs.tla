------------------------- MODULE LedgerCacheProofs -------------------------
(***************************************************************************)
(* The ledger cache as it is built, for any number of maps, any capacity,  *)
(* any widths of the key's fields, any number of readers and tables of any *)
(* length: it never holds anything but items of the tables under their own *)
(* keys, and a reader gets what it asked for, whatever the job and other   *)
(* readers put and evict between two of its visits.                        *)
(***************************************************************************)
EXTENDS LedgerCache, LruKeysProofs, SequenceTheorems, FiniteSetTheorems

\* A request at p: what it wants (w), what it has of it (res and f), what is
\* left of its batch (l), and what the tables had at the start (h), when the
\* tables hold the entries in E.
ReaderOK(p, w, res, f, l, h, E) ==
  /\ p \in {"idle", "get", "put"}
  /\ w \in Seq(AnyEntry)
  /\ DOMAIN res = DOMAIN w
  /\ f \cup l \cup h \subseteq DOMAIN w
  /\ \A i, j \in DOMAIN w : w[i] = w[j] => i = j
  /\ \A i \in DOMAIN w : res[i] \in {NoItem, w[i].item}
  /\ \A i \in f : w[i] \in E
  /\ p = "idle" => f = {}
  /\ p = "get" => \A i \in h : w[i] \in E
  /\ p = "put" => l \subseteq f /\ \A i \in h : i \in f \/ res[i] = w[i].item

ReadersInv ==
  /\ DOMAIN pc = Reader /\ DOMAIN want = Reader /\ DOMAIN result = Reader
  /\ DOMAIN found = Reader /\ DOMAIN left = Reader /\ DOMAIN had = Reader
  /\ \A r \in Reader :
       ReaderOK(pc[r], want[r], result[r], found[r], left[r], had[r], StoredEntry)

\* The tables, without the cache.
TablesOK == rows \in [Shard -> Count] /\ nulls \in Count /\ hasTotal \in BOOLEAN

IInv ==
  /\ TablesOK
  /\ shard_num \in ShardNums
  /\ MapsOK
  /\ LocksOK
  /\ JobOK
  /\ ReadersInv

-----------------------------------------------------------------------------
(***************************************************************************)
(* Entries: the key of an entry determines its item, and the item its key. *)
(***************************************************************************)
\* The constants, as the proofs use them.
LEMMA Constants ==
  /\ Values \in Nat \ {0} /\ SubFields \in Nat \ {0}
  /\ Shard \subseteq 0..(SubFields - 1)
  /\ Count \subseteq 0..Values
  /\ Capacity \in Nat /\ ShardNums \subseteq 1..Capacity
  /\ \A n \in Count, a \in Amount : n + a \in 0..Values
<1>1. Values \in Nat \ {0} /\ SubFields \in Nat \ {0}
  BY LruKeysAssumption
<1>2. Shard \subseteq 0..(SubFields - 1)
  BY <1>1, LedgerCacheAssumption DEF Shard
<1>3. Count \subseteq Nat /\ Amount \subseteq Nat
  BY LedgerCacheAssumption
<1>4. QED
  BY <1>1, <1>2, <1>3, LedgerCacheAssumption

\* An entry is that of a receiver or that of a sender.
LEMMA EntryCases ==
  ASSUME NEW r, NEW n, NEW e
  PROVE  e \in EntriesUpTo(r, n) <=>
           \/ \E s \in Shard : \E u \in 0..(r[s] - 1) : e = receiver_entry(s, u)
           \/ \E i \in 0..(n - 1) : e = sender_entry(i)
BY DEF EntriesUpTo

LEMMA AnyEntryCases ==
  ASSUME NEW e
  PROVE  e \in AnyEntry <=>
           \/ \E s \in Shard : \E u \in 0..(Values - 1) : e = receiver_entry(s, u)
           \/ \E i \in 0..(Values - 1) : e = sender_entry(i)
<1> DEFINE all == [s \in Shard |-> Values]
<1>1. \A s \in Shard : all[s] = Values
  OBVIOUS
<1>2. e \in AnyEntry <=>
        \/ \E s \in Shard : \E u \in 0..(all[s] - 1) : e = receiver_entry(s, u)
        \/ \E i \in 0..(Values - 1) : e = sender_entry(i)
  BY EntryCases DEF AnyEntry
<1> HIDE DEF all
<1>3. QED
  BY <1>1, <1>2

LEMMA KeyCases ==
  ASSUME NEW r, NEW n, NEW k
  PROVE  k \in Mirror!KeysUpTo(r, n) <=>
           \/ \E s \in Shard : \E u \in 0..(r[s] - 1) : k = Mirror!receiver_key(s, u)
           \/ \E i \in 0..(n - 1) : k = Mirror!sender_key(i)
BY DEF Mirror!KeysUpTo, Mirror!Shard, Shard

\* The key of an entry determines it, and so does its item.
LEMMA EntryUnique ==
  ASSUME NEW e \in AnyEntry, NEW f \in AnyEntry,
         e.key = f.key \/ e.item = f.item
  PROVE  e = f
<1>1. ASSUME NEW s \in Shard, NEW u \in 0..(Values - 1), e = receiver_entry(s, u)
      PROVE  e = f
  <2>1. e.key = receiver_key(s, u) /\ e.item = <<1, s, u>>
    BY <1>1 DEF receiver_entry, Mirror!receiver_key, Mirror!RECEIVER_KEY_PREFIX
  <2>2. ASSUME NEW t \in Shard, NEW v \in 0..(Values - 1), f = receiver_entry(t, v)
        PROVE  e = f
    <3>1. f.key = receiver_key(t, v) /\ f.item = <<1, t, v>>
      BY <2>2 DEF receiver_entry, Mirror!receiver_key, Mirror!RECEIVER_KEY_PREFIX
    <3>2. s = t /\ u = v
      BY <2>1, <3>1, KeysDistinct, Constants
    <3>3. QED
      BY <1>1, <2>2, <3>2
  <2>3. ASSUME NEW i \in 0..(Values - 1), f = sender_entry(i)
        PROVE  FALSE
    <3>1. f.key = sender_key(i) /\ f.item = <<2, 0, i>>
      BY <2>3 DEF sender_entry, Mirror!sender_key, Mirror!SENDER_KEY_PREFIX
    <3>2. receiver_key(s, u) # sender_key(i)
      BY KeysDistinct, Constants
    <3>3. QED
      BY <2>1, <3>1, <3>2
  <2>4. QED
    BY <2>2, <2>3, AnyEntryCases
<1>2. ASSUME NEW v \in 0..(Values - 1), e = sender_entry(v)
      PROVE  e = f
  <2>1. e.key = sender_key(v) /\ e.item = <<2, 0, v>>
    BY <1>2 DEF sender_entry, Mirror!sender_key, Mirror!SENDER_KEY_PREFIX
  <2>2. ASSUME NEW s \in Shard, NEW u \in 0..(Values - 1), f = receiver_entry(s, u)
        PROVE  FALSE
    <3>1. f.key = receiver_key(s, u) /\ f.item = <<1, s, u>>
      BY <2>2 DEF receiver_entry, Mirror!receiver_key, Mirror!RECEIVER_KEY_PREFIX
    <3>2. receiver_key(s, u) # sender_key(v)
      BY KeysDistinct, Constants
    <3>3. QED
      BY <2>1, <3>1, <3>2
  <2>3. ASSUME NEW i \in 0..(Values - 1), f = sender_entry(i)
        PROVE  e = f
    <3>1. f.key = sender_key(i) /\ f.item = <<2, 0, i>>
      BY <2>3 DEF sender_entry, Mirror!sender_key, Mirror!SENDER_KEY_PREFIX
    <3>2. 0 \in 0..(SubFields - 1)
      BY Constants
    <3>3. i = v
      BY <2>1, <3>1, <3>2, KeysDistinct
    <3>4. QED
      BY <1>2, <2>3, <3>3
  <2>4. QED
    BY <2>2, <2>3, AnyEntryCases
<1>3. QED
  BY <1>1, <1>2, AnyEntryCases

\* A key is a number, so that it belongs to one of the maps.
LEMMA KeyType ==
  ASSUME NEW e \in AnyEntry
  PROVE  e.key \in Nat
<1>1. ASSUME NEW p \in Nat, NEW s \in Nat, NEW u \in Nat
      PROVE  Packed(p, s, u) \in Nat
  <2>1. p * SubFields + s \in Nat
    BY Constants
  <2>2. (p * SubFields + s) * Values \in Nat
    BY <2>1, Constants
  <2>3. QED
    BY <2>2 DEF Packed
<1>2. ASSUME NEW s \in Shard, NEW u \in 0..(Values - 1)
      PROVE  receiver_key(s, u) \in Nat
  <2>1. s \in 0..(SubFields - 1)
    BY Constants
  <2>2. s % SubFields = s /\ u % Values = u
    BY <2>1, FieldFits, Constants
  <2>3. receiver_key(s, u) = Packed(1, s, u)
    BY <2>2 DEF receiver_key, RECEIVER_KEY_PREFIX
  <2>4. s \in Nat /\ u \in Nat
    BY <2>1
  <2>5. QED
    BY <1>1, <2>3, <2>4
<1>3. ASSUME NEW i \in 0..(Values - 1)
      PROVE  sender_key(i) \in Nat
  <2>1. i % Values = i
    BY FieldFits, Constants
  <2>2. sender_key(i) = Packed(2, 0, i)
    BY <2>1 DEF sender_key, SENDER_KEY_PREFIX
  <2>3. QED
    BY <1>1, <2>2
<1>4. CASE \E s \in Shard : \E u \in 0..(Values - 1) : e = receiver_entry(s, u)
  BY <1>2, <1>4 DEF receiver_entry
<1>5. CASE \E i \in 0..(Values - 1) : e = sender_entry(i)
  BY <1>3, <1>5 DEF sender_entry
<1>6. QED
  BY <1>4, <1>5, AnyEntryCases

\* The tables only hold what has an index that fits.
LEMMA StoredFits ==
  ASSUME NEW r \in [Shard -> Count], NEW n \in Count
  PROVE  EntriesUpTo(r, n) \subseteq AnyEntry
<1> SUFFICES ASSUME NEW e \in EntriesUpTo(r, n) PROVE e \in AnyEntry
  OBVIOUS
<1>1. n \in 0..Values /\ \A s \in Shard : r[s] \in 0..Values
  BY Constants
<1>2. 0..(n - 1) \subseteq 0..(Values - 1)
  BY <1>1, Constants
<1>3. \A s \in Shard : 0..(r[s] - 1) \subseteq 0..(Values - 1)
  BY <1>1, Constants
<1>4. QED
  BY <1>2, <1>3, EntryCases, AnyEntryCases

\* The tables that have the item of an entry have the entry, and the other way.
LEMMA InTablesStored ==
  ASSUME NEW r \in [Shard -> Count], NEW n \in Count, NEW e \in AnyEntry
  PROVE  e \in EntriesUpTo(r, n) <=> e.item \in Mirror!KeysUpTo(r, n)
<1>1. ASSUME e \in EntriesUpTo(r, n) PROVE e.item \in Mirror!KeysUpTo(r, n)
  BY <1>1, EntryCases, KeyCases DEF receiver_entry, sender_entry
<1>2. ASSUME e.item \in Mirror!KeysUpTo(r, n) PROVE e \in EntriesUpTo(r, n)
  <2>1. PICK f \in EntriesUpTo(r, n) : f.item = e.item
    <3>1. CASE \E s \in Shard : \E u \in 0..(r[s] - 1) :
                 e.item = Mirror!receiver_key(s, u)
      <4>1. PICK s \in Shard, u \in Nat :
              u \in 0..(r[s] - 1) /\ e.item = Mirror!receiver_key(s, u)
        BY <3>1
      <4>2. receiver_entry(s, u) \in EntriesUpTo(r, n)
        BY <4>1, EntryCases
      <4>3. receiver_entry(s, u).item = e.item
        BY <4>1 DEF receiver_entry
      <4>4. QED
        BY <4>2, <4>3
    <3>2. CASE \E i \in 0..(n - 1) : e.item = Mirror!sender_key(i)
      <4>1. PICK i \in 0..(n - 1) : e.item = Mirror!sender_key(i)
        BY <3>2
      <4>2. sender_entry(i) \in EntriesUpTo(r, n)
        BY <4>1, EntryCases
      <4>3. sender_entry(i).item = e.item
        BY <4>1 DEF sender_entry
      <4>4. QED
        BY <4>2, <4>3
    <3>3. QED
      BY <1>2, <3>1, <3>2, KeyCases
  <2>2. f \in AnyEntry
    BY StoredFits
  <2>3. QED
    BY <2>1, <2>2, EntryUnique
<1>3. QED
  BY <1>1, <1>2

\* What is stored stays so while the tables grow.
LEMMA StoredGrows ==
  ASSUME NEW r \in [Shard -> Count], NEW n \in Count,
         NEW q \in [Shard -> Count], NEW m \in Count,
         \A s \in Shard : r[s] <= q[s], n <= m
  PROVE  EntriesUpTo(r, n) \subseteq EntriesUpTo(q, m)
<1> SUFFICES ASSUME NEW e \in EntriesUpTo(r, n) PROVE e \in EntriesUpTo(q, m)
  OBVIOUS
<1>1. /\ n \in Nat /\ m \in Nat
      /\ \A s \in Shard : r[s] \in Nat /\ q[s] \in Nat
  <2>1. Count \subseteq Nat
    BY LedgerCacheAssumption
  <2>2. QED
    BY <2>1
<1>2. 0..(n - 1) \subseteq 0..(m - 1)
  BY <1>1
<1>3. \A s \in Shard : 0..(r[s] - 1) \subseteq 0..(q[s] - 1)
  BY <1>1
<1>4. QED
  BY <1>2, <1>3, EntryCases

-----------------------------------------------------------------------------
(***************************************************************************)
(* A map: the place of an entry, and the entry at the front.               *)
(***************************************************************************)
LEMMA EmptyMap ==
  ASSUME NEW E
  PROVE  << >> \in Seq(E) /\ Len(<< >>) = 0 /\ DOMAIN << >> = {}
OBVIOUS

\* A map for at most cap of the entries in E, number d of num maps.
MapOK(map, d, num, cap, E) ==
  /\ map \in Seq(E)
  /\ Len(map) <= cap
  /\ \A j, k \in DOMAIN map : map[j].key = map[k].key => j = k
  /\ \A j \in DOMAIN map : map[j].key % num = d

\* There is room for an entry in every map.
LEMMA RoomForOne ==
  ASSUME NEW n \in ShardNums
  PROVE  /\ n \in Nat \ {0}
         /\ Capacity \div n \in Nat \ {0}
<1>1. Capacity \in Nat /\ n \in 1..Capacity
  BY Constants
<1>2. QED
  BY <1>1

\* LruCache::get and put: with the entry at the front, in the place of the
\* entry of the same key, in a new one, or in that of the last, the map is a
\* map as before.
LEMMA FrontOK ==
  ASSUME NEW E, NEW map, NEW d, NEW num \in Nat \ {0}, NEW cap \in Nat \ {0},
         MapOK(map, d, num, cap, E),
         NEW e \in E, e.key % num = d,
         NEW j \in Nat,
         \/ j \in Places(map, e.key)
         \/ /\ Places(map, e.key) = {}
            /\ j = IF Len(map) < cap THEN Len(map) + 1 ELSE Len(map)
  PROVE  MapOK(AtFront(map, j, e), d, num, cap, E)
<1>1. PICK len \in Nat : len = Len(map) /\ DOMAIN map = 1..len /\ len <= cap
  BY DEF MapOK
<1> DEFINE n == IF j <= len THEN len ELSE j
           new == AtFront(map, j, e)
<1>2. j \in 1..n /\ n \in Nat /\ n <= cap /\ (n = len \/ (n = j /\ j = len + 1))
  <2>1. CASE j \in Places(map, e.key)
    BY <1>1, <2>1 DEF Places
  <2>2. CASE j = IF len < cap THEN len + 1 ELSE len
    BY <1>1, <2>2
  <2>3. QED
    BY <1>1, <2>1, <2>2
<1>3. new = [k \in 1..n |-> IF k = 1 THEN e ELSE IF k <= j THEN map[k - 1] ELSE map[k]]
  BY <1>1 DEF AtFront
<1> HIDE DEF new, n
\* Where the entry at place k comes from.
<1> DEFINE from(k) == IF k <= j THEN k - 1 ELSE k
<1>4. ASSUME NEW k \in 1..n, k # 1
      PROVE  from(k) \in DOMAIN map /\ new[k] = map[from(k)] /\ from(k) # j
  <2>1. from(k) \in DOMAIN map /\ from(k) # j
    <3>1. from(k) \in 1..len /\ from(k) # j
      BY <1>2, <1>4
    <3>2. QED
      BY <1>1, <3>1
  <2>2. new[k] = map[from(k)]
    BY <1>3, <1>4
  <2>3. QED
    BY <2>1, <2>2
<1>5. ASSUME NEW k \in 1..n, NEW l \in 1..n, from(k) = from(l), k # 1, l # 1 PROVE k = l
  BY <1>2, <1>5
<1>6. 1 \in 1..n /\ new[1] = e
  BY <1>2, <1>3
<1> HIDE DEF from
<1>7. \A k \in DOMAIN map : map[k] \in E
  BY DEF MapOK
<1>8. new \in Seq(E) /\ Len(new) = n /\ DOMAIN new = 1..n
  <2>1. \A k \in 1..n : new[k] \in E
    BY <1>4, <1>6, <1>7
  <2>2. new \in [1..n -> E]
    BY <1>3, <2>1
  <2>3. QED
    BY <1>2, <2>2
\* An entry that stays has another key than the one at the front.
<1>9. ASSUME NEW k \in 1..n, k # 1 PROVE new[k].key # e.key
  <2>1. PICK i \in DOMAIN map : new[k] = map[i] /\ i # j
    BY <1>4, <1>9
  <2>2. CASE j \in Places(map, e.key)
    <3>1. j \in DOMAIN map /\ map[j].key = e.key
      BY <2>2 DEF Places
    <3>2. map[i].key # map[j].key
      BY <2>1, <3>1 DEF MapOK
    <3>3. QED
      BY <2>1, <3>1, <3>2
  <2>3. CASE Places(map, e.key) = {}
    BY <2>1, <2>3 DEF Places
  <2>4. QED
    BY <2>2, <2>3
<1>10. ASSUME NEW k \in 1..n, NEW l \in 1..n, new[k].key = new[l].key PROVE k = l
  <2>1. CASE k = 1 \/ l = 1
    BY <1>6, <1>9, <1>10, <2>1
  <2>2. CASE k # 1 /\ l # 1
    <3>1. /\ map[from(k)].key = map[from(l)].key
          /\ from(k) \in DOMAIN map /\ from(l) \in DOMAIN map
      BY <1>4, <1>10, <2>2
    <3>2. from(k) = from(l)
      BY <3>1 DEF MapOK
    <3>3. QED
      BY <1>5, <2>2, <3>2
  <2>3. QED
    BY <2>1, <2>2
<1>11. ASSUME NEW k \in 1..n PROVE new[k].key % num = d
  <2>1. CASE k = 1
    BY <1>6, <2>1
  <2>2. CASE k # 1
    <3>1. PICK i \in DOMAIN map : new[k] = map[i]
      BY <1>4, <2>2
    <3>2. map[i].key % num = d
      BY DEF MapOK
    <3>3. QED
      BY <3>1, <3>2
  <2>3. QED
    BY <2>1, <2>2
<1>12. QED
  BY <1>2, <1>8, <1>10, <1>11 DEF MapOK, new

-----------------------------------------------------------------------------
(***************************************************************************)
(* Batches of consecutive items.                                           *)
(***************************************************************************)
LEMMA ReceiverRun ==
  ASSUME NEW r, NEW n, NEW s \in Shard, r[s] \in Nat,
         NEW from \in Nat, NEW to \in Nat, from <= to, to <= r[s]
  PROVE  receiver_entries(s, from, to) \in Seq(EntriesUpTo(r, n))
<1> DEFINE run == receiver_entries(s, from, to)
<1>1. PICK len \in Nat : len = to - from
  OBVIOUS
<1>2. run = [i \in 1..len |-> receiver_entry(s, from + (i - 1))]
  BY <1>1 DEF receiver_entries
<1> HIDE DEF run
<1>3. ASSUME NEW i \in 1..len PROVE run[i] \in EntriesUpTo(r, n)
  <2>1. from + (i - 1) \in 0..(r[s] - 1)
    BY <1>1
  <2>2. receiver_entry(s, from + (i - 1)) \in EntriesUpTo(r, n)
    BY <2>1, EntryCases
  <2>3. QED
    BY <1>2, <2>2
<1>4. run \in [1..len -> EntriesUpTo(r, n)]
  BY <1>2, <1>3
<1>5. QED
  BY <1>4 DEF run

LEMMA SenderRun ==
  ASSUME NEW r, NEW n \in Nat,
         NEW from \in Nat, NEW to \in Nat, from <= to, to <= n
  PROVE  sender_entries(from, to) \in Seq(EntriesUpTo(r, n))
<1> DEFINE run == sender_entries(from, to)
<1>1. PICK len \in Nat : len = to - from
  OBVIOUS
<1>2. run = [i \in 1..len |-> sender_entry(from + (i - 1))]
  BY <1>1 DEF sender_entries
<1> HIDE DEF run
<1>3. ASSUME NEW i \in 1..len PROVE run[i] \in EntriesUpTo(r, n)
  <2>1. from + (i - 1) \in 0..(n - 1)
    BY <1>1
  <2>2. sender_entry(from + (i - 1)) \in EntriesUpTo(r, n)
    BY <2>1, EntryCases
  <2>3. QED
    BY <1>2, <2>2
<1>4. run \in [1..len -> EntriesUpTo(r, n)]
  BY <1>2, <1>3
<1>5. QED
  BY <1>4 DEF run

\* No entry is twice in a batch.
LEMMA ReceiversDistinct ==
  ASSUME NEW s, NEW from \in Nat, NEW to \in Nat, from <= to,
         NEW i \in DOMAIN receiver_entries(s, from, to),
         NEW j \in DOMAIN receiver_entries(s, from, to),
         receiver_entries(s, from, to)[i] = receiver_entries(s, from, to)[j]
  PROVE  i = j
<1>1. /\ i \in Int /\ j \in Int
      /\ receiver_entry(s, from + (i - 1)) = receiver_entry(s, from + (j - 1))
  BY DEF receiver_entries
<1>2. \A u : receiver_entry(s, u).item = <<1, s, u>>
  BY DEF receiver_entry, Mirror!receiver_key, Mirror!RECEIVER_KEY_PREFIX
<1>3. <<1, s, from + (i - 1)>> = <<1, s, from + (j - 1)>>
  BY <1>1, <1>2
<1>4. from + (i - 1) = from + (j - 1)
  BY <1>3
<1>5. QED
  BY <1>1, <1>4

LEMMA SendersDistinct ==
  ASSUME NEW from \in Nat, NEW to \in Nat, from <= to,
         NEW i \in DOMAIN sender_entries(from, to),
         NEW j \in DOMAIN sender_entries(from, to),
         sender_entries(from, to)[i] = sender_entries(from, to)[j]
  PROVE  i = j
<1>1. /\ i \in Int /\ j \in Int
      /\ sender_entry(from + (i - 1)) = sender_entry(from + (j - 1))
  BY DEF sender_entries
<1>2. \A u : sender_entry(u).item = <<2, 0, u>>
  BY DEF sender_entry, Mirror!sender_key, Mirror!SENDER_KEY_PREFIX
<1>3. <<2, 0, from + (i - 1)>> = <<2, 0, from + (j - 1)>>
  BY <1>1, <1>2
<1>4. from + (i - 1) = from + (j - 1)
  BY <1>3
<1>5. QED
  BY <1>1, <1>4

\* What the job puts after a transaction is in the tables.
LEMMA BatchesStored ==
  ASSUME NEW r \in [Shard -> Count], NEW n \in Count,
         rows \in [Shard -> Count], nulls \in Count,
         \A s \in Shard : rows[s] <= r[s], nulls <= n,
         NEW order \in Orders({s \in Shard : rows[s] < r[s]})
  PROVE  Batches(order, r, n) \in Seq(Seq(EntriesUpTo(r, n)))
<1> DEFINE S == {s \in Shard : rows[s] < r[s]}
           first == [k \in DOMAIN order |->
                       receiver_entries(order[k], rows[order[k]], r[order[k]])]
           E == EntriesUpTo(r, n)
<1>1. Count \subseteq Nat
  BY LedgerCacheAssumption
<1>2. order \in [1..Cardinality(S) -> S]
  BY DEF Orders, Bijection, Injection
<1>3. IsFiniteSet(S)
  <2>1. IsFiniteSet(Shard)
    BY FS_Interval, LedgerCacheAssumption DEF Shard
  <2>2. QED
    BY <2>1, FS_Subset
<1>4. PICK len \in Nat : len = Cardinality(S)
  BY <1>3, FS_CardinalityType
<1>5. DOMAIN order = 1..len /\ \A k \in 1..len : order[k] \in Shard
  BY <1>2, <1>4
<1>6. ASSUME NEW s \in Shard PROVE receiver_entries(s, rows[s], r[s]) \in Seq(E)
  <2>1. rows[s] \in Nat /\ r[s] \in Nat
    BY <1>1
  <2>2. QED
    BY <2>1, ReceiverRun
<1>7. sender_entries(nulls, n) \in Seq(E)
  <2>1. nulls \in Nat /\ n \in Nat
    BY <1>1
  <2>2. QED
    BY <2>1, SenderRun
<1> HIDE DEF E
<1>8. first \in [1..len -> Seq(E)]
  BY <1>5, <1>6
<1>9. first \in Seq(Seq(E))
  BY <1>8
<1>10. Batches(order, r, n) = Append(first, sender_entries(nulls, n))
  BY DEF Batches
<1> HIDE DEF first
<1>11. QED
  BY <1>7, <1>9, <1>10 DEF E

-----------------------------------------------------------------------------
(***************************************************************************)
(* The parts of the invariant, one by one.                                 *)
(***************************************************************************)
\* What good maps hold is in the tables.
LEMMA HeldStored ==
  ASSUME NEW m, NEW r \in [Shard -> Count], NEW n \in Count,
         \A d \in DOMAIN m : m[d] \in Seq(EntriesUpTo(r, n))
  PROVE  UNION {{m[d][j].item : j \in DOMAIN m[d]} : d \in DOMAIN m}
           \subseteq Mirror!KeysUpTo(r, n)
<1> SUFFICES ASSUME NEW d \in DOMAIN m, NEW j \in DOMAIN m[d]
             PROVE  m[d][j].item \in Mirror!KeysUpTo(r, n)
  OBVIOUS
<1>1. m[d][j] \in EntriesUpTo(r, n)
  OBVIOUS
<1>2. m[d][j] \in AnyEntry
  BY <1>1, StoredFits
<1>3. QED
  BY <1>1, <1>2, InTablesStored

LEMMA MirrorOK ==
  ASSUME TablesOK', MapsOK'
  PROVE  Mirror!MirrorTypeOK'
<1>1. rows' \in [Shard -> Count] /\ nulls' \in Count /\ hasTotal' \in BOOLEAN
  BY DEF TablesOK
<1>2. \A d \in DOMAIN maps' : maps'[d] \in Seq(EntriesUpTo(rows', nulls'))
  BY DEF MapsOK, StoredEntry
<1>3. HeldItems' \subseteq Mirror!KeysUpTo(rows', nulls')
  BY <1>1, <1>2, HeldStored DEF HeldItems
<1>4. QED
  BY <1>1, <1>3 DEF Mirror!MirrorTypeOK, Mirror!Shard, Shard

\* Every entry has a map.
LEMMA EntryHome ==
  ASSUME shard_num \in ShardNums, MapsOK, NEW e \in AnyEntry
  PROVE  shard_id(e.key) \in DOMAIN maps
<1>1. shard_num \in Nat \ {0} /\ e.key \in Nat
  BY RoomForOne, KeyType
<1>2. e.key % shard_num \in 0..(shard_num - 1)
  BY <1>1
<1>3. QED
  BY <1>2 DEF shard_id, MapsOK

\* An entry comes to the front of its map.
LEMMA FrontStep ==
  ASSUME shard_num \in ShardNums, MapsOK, UNCHANGED <<rows, nulls, shard_num>>,
         NEW e \in StoredEntry, NEW d \in DOMAIN maps, d = shard_id(e.key),
         NEW j \in Nat,
         \/ j \in Places(maps[d], e.key)
         \/ /\ Places(maps[d], e.key) = {}
            /\ j = IF Len(maps[d]) < Capacity \div shard_num
                     THEN Len(maps[d]) + 1 ELSE Len(maps[d]),
         maps' = [maps EXCEPT ![d] = AtFront(maps[d], j, e)]
  PROVE  MapsOK' /\ DOMAIN maps' = DOMAIN maps
<1> DEFINE cap == Capacity \div shard_num
<1>1. shard_num \in Nat \ {0} /\ cap \in Nat \ {0}
  BY RoomForOne
<1>2. \A c \in DOMAIN maps : MapOK(maps[c], c, shard_num, cap, StoredEntry)
  BY DEF MapsOK, MapOK, shard_id
<1>3. e.key % shard_num = d
  BY DEF shard_id
<1> HIDE DEF cap
<1>4. MapOK(AtFront(maps[d], j, e), d, shard_num, cap, StoredEntry)
  BY <1>1, <1>2, <1>3, FrontOK DEF cap
<1>5. /\ DOMAIN maps' = DOMAIN maps
      /\ \A c \in DOMAIN maps :
           maps'[c] = IF c = d THEN AtFront(maps[d], j, e) ELSE maps[c]
  OBVIOUS
<1>6. \A c \in DOMAIN maps : MapOK(maps'[c], c, shard_num, cap, StoredEntry)
  BY <1>2, <1>4, <1>5
<1>7. StoredEntry' = StoredEntry /\ shard_num' = shard_num
  BY DEF StoredEntry
<1>8. DOMAIN maps' = 0..(shard_num' - 1)
  BY <1>5, <1>7 DEF MapsOK
<1>9. ASSUME NEW c \in DOMAIN maps'
      PROVE  /\ maps'[c] \in Seq(StoredEntry')
             /\ Len(maps'[c]) <= Capacity \div shard_num'
             /\ \A k, l \in DOMAIN maps'[c] : maps'[c][k].key = maps'[c][l].key => k = l
             /\ \A k \in DOMAIN maps'[c] : maps'[c][k].key % shard_num' = c
  <2>1. MapOK(maps'[c], c, shard_num, cap, StoredEntry)
    BY <1>5, <1>6
  <2>2. QED
    BY <1>7, <2>1 DEF MapOK, cap
<1>10. QED
  BY <1>5, <1>8, <1>9 DEF MapsOK, shard_id

LEMMA PutStep ==
  ASSUME shard_num \in ShardNums, MapsOK, TablesOK, UNCHANGED <<rows, nulls, shard_num>>,
         NEW e \in StoredEntry, Put(e)
  PROVE  MapsOK' /\ DOMAIN maps' = DOMAIN maps
<1>1. e \in AnyEntry
  BY StoredFits DEF StoredEntry, TablesOK
<1>2. PICK d \in DOMAIN maps : d = shard_id(e.key)
  BY <1>1, EntryHome
<1>3. PICK j \in Room(maps[d], e.key) : maps' = [maps EXCEPT ![d] = AtFront(maps[d], j, e)]
  BY <1>2 DEF Put
<1>4. Len(maps[d]) \in Nat /\ DOMAIN maps[d] \subseteq Nat
  BY DEF MapsOK
<1>5. CASE Places(maps[d], e.key) # {}
  <2>1. j \in Places(maps[d], e.key)
    BY <1>3, <1>5 DEF Room
  <2>2. j \in Nat
    BY <1>4, <2>1 DEF Places
  <2>3. QED
    BY <1>2, <1>3, <2>1, <2>2, FrontStep
<1>6. CASE Places(maps[d], e.key) = {}
  <2>1. j = IF Len(maps[d]) < Capacity \div shard_num
              THEN Len(maps[d]) + 1 ELSE Len(maps[d])
    BY <1>3, <1>6 DEF Room
  <2>2. j \in Nat
    BY <1>4, <2>1
  <2>3. QED
    BY <1>2, <1>3, <1>6, <2>1, <2>2, FrontStep
<1>7. QED
  BY <1>5, <1>6

\* Whoever visits a map has no other.
LEMMA VisitStep ==
  ASSUME LocksOK, NEW p \in Reader \cup {Job}, NEW batch, NEW todo, NEW i,
         Visit(p, batch, todo, i), DOMAIN maps' = DOMAIN maps
  PROVE  LocksOK'
<1> DEFINE d == shard_id(batch[i].key)
<1>1. \A c \in DOMAIN maps : c # d => lock[c] # p
  BY DEF Visit
<1>2. PICK x \in {Nobody, p} : lock' = [lock EXCEPT ![d] = x]
  BY DEF Visit
<1> HIDE DEF d
<1>3. lock' \in [DOMAIN maps' -> Reader \cup {Nobody, Job}]
  BY <1>2 DEF LocksOK
<1>4. ASSUME NEW b \in DOMAIN maps, NEW c \in DOMAIN maps, lock'[b] = lock'[c]
      PROVE  b = c \/ lock'[b] = Nobody
  <2>1. /\ lock'[b] = IF b = d THEN x ELSE lock[b]
        /\ lock'[c] = IF c = d THEN x ELSE lock[c]
    BY <1>2 DEF LocksOK
  <2>2. CASE b = d
    BY <1>1, <1>4, <2>1, <2>2
  <2>3. CASE c = d
    BY <1>1, <1>4, <2>1, <2>3
  <2>4. CASE b # d /\ c # d
    BY <1>4, <2>1, <2>4 DEF LocksOK
  <2>5. QED
    BY <2>2, <2>3, <2>4
<1>5. QED
  BY <1>3, <1>4 DEF LocksOK

\* The readers when none of them takes a step.
LEMMA ReadersKeep ==
  ASSUME ReadersInv, UNCHANGED readers, StoredEntry \subseteq StoredEntry'
  PROVE  ReadersInv'
<1>1. UNCHANGED <<pc, want, result, found, left, had>>
  BY DEF readers
<1>2. ASSUME NEW r \in Reader
      PROVE  ReaderOK(pc[r], want[r], result[r], found[r], left[r], had[r], StoredEntry')
  <2>1. ReaderOK(pc[r], want[r], result[r], found[r], left[r], had[r], StoredEntry)
    BY DEF ReadersInv
  <2>2. QED
    BY <2>1 DEF ReaderOK
<1>3. QED
  BY <1>1, <1>2 DEF ReadersInv

\* A step of r that leaves the other readers alone.
OthersKeep(r) ==
  /\ DOMAIN pc' = Reader /\ DOMAIN want' = Reader /\ DOMAIN result' = Reader
  /\ DOMAIN found' = Reader /\ DOMAIN left' = Reader /\ DOMAIN had' = Reader
  /\ \A q \in Reader \ {r} :
       /\ pc'[q] = pc[q] /\ want'[q] = want[q] /\ result'[q] = result[q]
       /\ found'[q] = found[q] /\ left'[q] = left[q] /\ had'[q] = had[q]

LEMMA OneReader ==
  ASSUME ReadersInv, NEW r \in Reader, StoredEntry' = StoredEntry,
         OthersKeep(r),
         ReaderOK(pc'[r], want'[r], result'[r], found'[r], left'[r], had'[r], StoredEntry)
  PROVE  ReadersInv'
<1>1. /\ DOMAIN pc' = Reader /\ DOMAIN want' = Reader /\ DOMAIN result' = Reader
      /\ DOMAIN found' = Reader /\ DOMAIN left' = Reader /\ DOMAIN had' = Reader
  BY DEF OthersKeep
<1>2. ASSUME NEW q \in Reader
      PROVE  ReaderOK(pc'[q], want'[q], result'[q], found'[q], left'[q], had'[q],
                      StoredEntry)
  <2>1. CASE q = r
    BY <2>1
  <2>2. CASE q # r
    <3>1. /\ pc'[q] = pc[q] /\ want'[q] = want[q] /\ result'[q] = result[q]
          /\ found'[q] = found[q] /\ left'[q] = left[q] /\ had'[q] = had[q]
      BY <2>2 DEF OthersKeep
    <3>2. ReaderOK(pc[q], want[q], result[q], found[q], left[q], had[q], StoredEntry)
      BY DEF ReadersInv
    <3>3. QED
      BY <3>1, <3>2
  <2>3. QED
    BY <2>1, <2>2
<1>3. QED
  BY <1>1, <1>2 DEF ReadersInv

\* A request that is over.
LEMMA IdleReader ==
  ASSUME NEW E
  PROVE  ReaderOK("idle", << >>, << >>, {}, {}, {}, E)
BY DEF ReaderOK

LEMMA ForgetStep ==
  ASSUME ReadersInv, NEW R, ForgetRequests(R), StoredEntry' = StoredEntry
  PROVE  ReadersInv'
<1>1. /\ DOMAIN pc' = Reader /\ DOMAIN want' = Reader /\ DOMAIN result' = Reader
      /\ DOMAIN found' = Reader /\ DOMAIN left' = Reader /\ DOMAIN had' = Reader
  BY DEF ForgetRequests
<1>2. ASSUME NEW q \in Reader
      PROVE  ReaderOK(pc'[q], want'[q], result'[q], found'[q], left'[q], had'[q],
                      StoredEntry)
  <2>1. CASE q \in R
    <3>1. /\ pc'[q] = "idle" /\ want'[q] = << >> /\ result'[q] = << >>
          /\ found'[q] = {} /\ left'[q] = {} /\ had'[q] = {}
      BY <2>1 DEF ForgetRequests
    <3>2. QED
      BY <3>1, IdleReader
  <2>2. CASE q \notin R
    <3>1. /\ pc'[q] = pc[q] /\ want'[q] = want[q] /\ result'[q] = result[q]
          /\ found'[q] = found[q] /\ left'[q] = left[q] /\ had'[q] = had[q]
      BY <2>2 DEF ForgetRequests
    <3>2. ReaderOK(pc[q], want[q], result[q], found[q], left[q], had[q], StoredEntry)
      BY DEF ReadersInv
    <3>3. QED
      BY <3>1, <3>2
  <2>3. QED
    BY <2>1, <2>2
<1>3. QED
  BY <1>1, <1>2 DEF ReadersInv

\* The job with a new batch, or none.
LEMMA StartStep ==
  ASSUME NEW b \in Seq(Seq(StoredEntry')), StartBatch(b)
  PROVE  JobOK'
BY DEF StartBatch, JobOK

\* The job's next entry is in the tables.
LEMMA JobEntry ==
  ASSUME JobOK, NEW i \in jobLeft
  PROVE  job # << >> /\ Head(job)[i] \in StoredEntry
<1>1. job # << >> /\ i \in DOMAIN Head(job)
  BY DEF JobOK
<1>2. Head(job) \in Seq(StoredEntry)
  BY <1>1 DEF JobOK
<1>3. QED
  BY <1>1, <1>2

-----------------------------------------------------------------------------
(***************************************************************************)
(* Every action keeps the invariant.                                       *)
(***************************************************************************)
LEMMA InitIInv ==
  ASSUME Init
  PROVE  IInv
<1>1. TablesOK
  BY LedgerCacheAssumption DEF Init, TablesOK
<1>2. shard_num \in ShardNums /\ shard_num \in Nat \ {0} /\ Capacity \div shard_num \in Nat
  BY RoomForOne DEF Init
<1>3. DOMAIN maps = 0..(shard_num - 1) /\ \A d \in DOMAIN maps : maps[d] = << >>
  BY DEF Init, NoMaps
<1>4. MapsOK
  <2>1. \A d \in DOMAIN maps :
          /\ maps[d] \in Seq(StoredEntry) /\ Len(maps[d]) = 0 /\ DOMAIN maps[d] = {}
    BY <1>3, EmptyMap
  <2>2. \A d \in DOMAIN maps : Len(maps[d]) <= Capacity \div shard_num
    BY <1>2, <2>1
  <2>3. QED
    BY <1>3, <2>1, <2>2 DEF MapsOK
<1>5. LocksOK
  <2>1. lock = [d \in DOMAIN maps |-> Nobody]
    BY DEF Init
  <2>2. QED
    BY <2>1 DEF LocksOK
<1>6. JobOK
  BY DEF Init, JobOK
<1>7. ReadersInv
  BY IdleReader DEF Init, ReadersInv
<1>8. QED
  BY <1>1, <1>2, <1>4, <1>5, <1>6, <1>7 DEF IInv

LEMMA CommitStep ==
  ASSUME IInv, NEW r \in [Shard -> Count], NEW n \in Count, Commit(r, n)
  PROVE  IInv'
<1>1. /\ \A s \in Shard : rows[s] <= r[s]
      /\ nulls <= n
      /\ rows' = r /\ nulls' = n /\ hasTotal' = TRUE
      /\ UNCHANGED <<shard_num, maps, lock>> /\ UNCHANGED readers
  BY DEF Commit
<1>2. TablesOK' /\ TablesOK
  BY <1>1 DEF TablesOK, IInv
<1>3. StoredEntry \subseteq StoredEntry' /\ StoredEntry' = EntriesUpTo(r, n)
  BY <1>1, <1>2, StoredGrows DEF StoredEntry, TablesOK
<1>4. MapsOK'
  <2>1. \A d \in DOMAIN maps : maps[d] \in Seq(StoredEntry')
    BY <1>3 DEF IInv, MapsOK
  <2>2. QED
    BY <1>1, <2>1 DEF IInv, MapsOK, shard_id
<1>5. LocksOK'
  BY <1>1 DEF IInv, LocksOK
<1>6. JobOK'
  <2>1. PICK order \in Orders({s \in Shard : rows[s] < r[s]}) :
          StartBatch(Batches(order, r, n))
    BY DEF Commit
  <2>2. Batches(order, r, n) \in Seq(Seq(EntriesUpTo(r, n)))
    BY <1>1, <1>2, BatchesStored DEF TablesOK
  <2>3. PICK b \in Seq(Seq(StoredEntry')) : StartBatch(b)
    BY <1>3, <2>1, <2>2
  <2>4. QED
    BY <2>3, StartStep
<1>7. ReadersInv'
  BY <1>1, <1>3, ReadersKeep DEF IInv
<1>8. shard_num' \in ShardNums
  BY <1>1 DEF IInv
<1>9. QED
  BY <1>2, <1>4, <1>5, <1>6, <1>7, <1>8 DEF IInv

LEMMA JobPutsStep ==
  ASSUME IInv, NEW i \in jobLeft, JobPuts(i)
  PROVE  IInv'
<1>1. /\ Visit(Job, Head(job), jobLeft, i) /\ Put(Head(job)[i])
      /\ jobLeft' = jobLeft \ {i}
      /\ UNCHANGED <<rows, nulls, hasTotal, shard_num, job>> /\ UNCHANGED readers
  BY DEF JobPuts, tables
<1>2. TablesOK' /\ shard_num' \in ShardNums /\ StoredEntry' = StoredEntry
  BY <1>1 DEF IInv, TablesOK, StoredEntry
<1>3. MapsOK' /\ DOMAIN maps' = DOMAIN maps
  <2>1. Head(job)[i] \in StoredEntry
    BY JobEntry DEF IInv
  <2>2. QED
    BY <1>1, <2>1, PutStep DEF IInv
<1>4. LocksOK'
  BY <1>1, <1>3, VisitStep DEF IInv
<1>5. JobOK'
  BY <1>1, <1>2 DEF IInv, JobOK
<1>6. ReadersInv'
  BY <1>1, <1>2, ReadersKeep DEF IInv
<1>7. QED
  BY <1>2, <1>3, <1>4, <1>5, <1>6 DEF IInv

LEMMA JobGoesOnStep ==
  ASSUME IInv, JobGoesOn
  PROVE  IInv'
<1>1. /\ job # << >> /\ StartBatch(Tail(job))
      /\ UNCHANGED <<rows, nulls, hasTotal, shard_num, maps, lock>> /\ UNCHANGED readers
  BY DEF JobGoesOn, tables
<1>2. TablesOK' /\ shard_num' \in ShardNums /\ StoredEntry' = StoredEntry
  BY <1>1 DEF IInv, TablesOK, StoredEntry
<1>3. MapsOK' /\ LocksOK'
  BY <1>1, <1>2 DEF IInv, MapsOK, LocksOK, shard_id
<1>4. JobOK'
  <2>1. Tail(job) \in Seq(Seq(StoredEntry))
    BY <1>1 DEF IInv, JobOK
  <2>2. PICK b \in Seq(Seq(StoredEntry')) : StartBatch(b)
    BY <1>1, <1>2, <2>1
  <2>3. QED
    BY <2>2, StartStep
<1>5. ReadersInv'
  BY <1>1, <1>2, ReadersKeep DEF IInv
<1>6. QED
  BY <1>2, <1>3, <1>4, <1>5 DEF IInv

LEMMA AskStep ==
  ASSUME IInv, NEW r \in Reader, NEW w \in Seq(AnyEntry),
         \A i, j \in DOMAIN w : w[i] = w[j] => i = j,
         Ask(r, w)
  PROVE  IInv'
<1> DEFINE res == [i \in DOMAIN w |-> NoItem]
           h == {i \in DOMAIN w : InTables(w[i].item)}
<1>1. /\ pc[r] = "idle"
      /\ pc' = [pc EXCEPT ![r] = "get"]
      /\ want' = [want EXCEPT ![r] = w]
      /\ result' = [result EXCEPT ![r] = res]
      /\ left' = [left EXCEPT ![r] = DOMAIN w]
      /\ had' = [had EXCEPT ![r] = h]
      /\ UNCHANGED <<rows, nulls, hasTotal, shard_num, maps, lock, job, jobLeft, found>>
  BY DEF Ask, tables, writer
<1>2. TablesOK /\ TablesOK' /\ shard_num' \in ShardNums /\ StoredEntry' = StoredEntry
  BY <1>1 DEF IInv, TablesOK, StoredEntry
<1>3. MapsOK' /\ LocksOK' /\ JobOK'
  BY <1>1, <1>2 DEF IInv, MapsOK, LocksOK, JobOK, shard_id
<1>4. \A i \in h : w[i] \in StoredEntry
  <2>1. ASSUME NEW i \in DOMAIN w, InTables(w[i].item) PROVE w[i] \in StoredEntry
    <3>1. w[i] \in AnyEntry
      OBVIOUS
    <3>2. w[i].item \in Mirror!KeysUpTo(rows, nulls)
      BY <2>1 DEF InTables
    <3>3. QED
      BY <1>2, <3>1, <3>2, InTablesStored DEF TablesOK, StoredEntry
  <2>2. QED
    BY <2>1
<1>5. found[r] = {}
  BY <1>1 DEF IInv, ReadersInv, ReaderOK
<1>6. DOMAIN res = DOMAIN w /\ (\A i \in DOMAIN w : res[i] = NoItem) /\ h \subseteq DOMAIN w
  OBVIOUS
<1> HIDE DEF res, h
<1>7. ReaderOK("get", w, res, {}, DOMAIN w, h, StoredEntry)
  BY <1>4, <1>6 DEF ReaderOK
<1>8. ReadersInv'
  <2>1. OthersKeep(r)
    BY <1>1 DEF IInv, ReadersInv, OthersKeep
  <2>2. /\ pc'[r] = "get" /\ want'[r] = w /\ result'[r] = res
        /\ found'[r] = {} /\ left'[r] = DOMAIN w /\ had'[r] = h
    BY <1>1, <1>5 DEF IInv, ReadersInv
  <2>3. QED
    BY <1>2, <1>7, <2>1, <2>2, OneReader DEF IInv
<1>9. QED
  BY <1>2, <1>3, <1>8 DEF IInv

LEMMA AskReceiversStep ==
  ASSUME IInv, NEW r \in Reader, NEW s \in Shard, NEW from \in Count, NEW amount \in Amount,
         AskReceivers(r, s, from, amount)
  PROVE  IInv'
<1> DEFINE all == [t \in Shard |-> Values]
<1>1. PICK to \in Nat : /\ to = from + amount /\ from <= to /\ to <= Values
                        /\ from \in Nat /\ Values \in Nat
  BY Constants, LedgerCacheAssumption
<1> DEFINE w == receiver_entries(s, from, to)
<1>2. all[s] \in Nat /\ to <= all[s]
  BY <1>1
<1> HIDE DEF all
<1>3. w \in Seq(EntriesUpTo(all, Values))
  BY <1>1, <1>2, ReceiverRun
<1>4. \A i, j \in DOMAIN w : w[i] = w[j] => i = j
  BY <1>1, ReceiversDistinct
<1>5. w \in Seq(AnyEntry)
  BY <1>3 DEF AnyEntry, all
<1>6. Ask(r, w)
  BY <1>1 DEF AskReceivers
<1> HIDE DEF w
<1>7. QED
  BY <1>4, <1>5, <1>6, AskStep

LEMMA AskSendersStep ==
  ASSUME IInv, NEW r \in Reader, NEW from \in Count, NEW amount \in Amount,
         AskSenders(r, from, amount)
  PROVE  IInv'
<1>1. PICK to \in Nat : /\ to = from + amount /\ from <= to /\ to <= Values
                        /\ from \in Nat /\ Values \in Nat
  BY Constants, LedgerCacheAssumption
<1> DEFINE w == sender_entries(from, to)
<1>2. w \in Seq(AnyEntry)
  BY <1>1, SenderRun DEF AnyEntry
<1>3. \A i, j \in DOMAIN w : w[i] = w[j] => i = j
  BY <1>1, SendersDistinct
<1>4. Ask(r, w)
  BY <1>1 DEF AskSenders
<1> HIDE DEF w
<1>5. QED
  BY <1>2, <1>3, <1>4, AskStep

\* What a reader finds under a key is the item of that key.
LEMMA GetStep ==
  ASSUME IInv, NEW r \in Reader, NEW i \in left[r], Get(r, i)
  PROVE  IInv'
<1> DEFINE key == want[r][i].key
           d == shard_id(key)
<1>1. /\ pc[r] = "get"
      /\ Visit(r, want[r], left[r], i)
      /\ left' = [left EXCEPT ![r] = left[r] \ {i}]
      /\ UNCHANGED <<rows, nulls, hasTotal, shard_num, job, jobLeft, pc, want, found, had>>
  BY DEF Get, tables, writer
<1>2. \/ \E j \in Places(maps[d], key) :
            /\ Got(r, i, maps[d][j].item)
            /\ maps' = [maps EXCEPT ![d] = AtFront(maps[d], j, maps[d][j])]
      \/ UNCHANGED <<result, maps>>
  BY DEF Get
<1>3. TablesOK /\ TablesOK' /\ shard_num' \in ShardNums /\ StoredEntry' = StoredEntry
  BY <1>1 DEF IInv, TablesOK, StoredEntry
<1>4. ReaderOK("get", want[r], result[r], found[r], left[r], had[r], StoredEntry)
  BY <1>1 DEF IInv, ReadersInv
<1>5. i \in DOMAIN want[r] /\ want[r][i] \in AnyEntry
  BY <1>4 DEF ReaderOK
<1>6. d \in DOMAIN maps
  BY <1>5, EntryHome DEF IInv
<1> HIDE DEF d, key
<1>7. PICK res : /\ \/ result' = [result EXCEPT ![r] = res]
                    \/ result' = result /\ res = result[r]
                 /\ DOMAIN res = DOMAIN want[r]
                 /\ \A k \in DOMAIN want[r] : res[k] \in {result[r][k], want[r][k].item}
                 /\ MapsOK' /\ DOMAIN maps' = DOMAIN maps
  <2>1. CASE UNCHANGED <<result, maps>>
    <3>1. MapsOK'
      BY <1>1, <1>3, <2>1 DEF IInv, MapsOK, shard_id
    <3>2. DOMAIN result[r] = DOMAIN want[r]
      BY <1>4 DEF ReaderOK
    <3>3. QED
      BY <2>1, <3>1, <3>2
  <2>2. CASE \E j \in Places(maps[d], key) :
               /\ Got(r, i, maps[d][j].item)
               /\ maps' = [maps EXCEPT ![d] = AtFront(maps[d], j, maps[d][j])]
    <3>1. PICK j \in Places(maps[d], key) :
               /\ Got(r, i, maps[d][j].item)
               /\ maps' = [maps EXCEPT ![d] = AtFront(maps[d], j, maps[d][j])]
      BY <2>2
    <3>2. j \in DOMAIN maps[d] /\ maps[d][j].key = key
      BY <3>1 DEF Places
    <3>3. maps[d][j] \in StoredEntry /\ j \in Nat
      BY <1>6, <3>2 DEF IInv, MapsOK
    <3>4. maps[d][j] \in AnyEntry
      BY <1>3, <3>3, StoredFits DEF StoredEntry, TablesOK
    <3>5. maps[d][j] = want[r][i]
      BY <1>5, <3>2, <3>4, EntryUnique DEF key
    <3>6. want[r][i] \in StoredEntry /\ j \in Places(maps[d], want[r][i].key)
      BY <3>1, <3>3, <3>5 DEF key
    <3>7. MapsOK' /\ DOMAIN maps' = DOMAIN maps
      BY <1>1, <1>6, <3>1, <3>3, <3>5, <3>6, FrontStep DEF IInv, d, key
    <3> DEFINE res == [result[r] EXCEPT ![i] = want[r][i].item]
    <3>8. result' = [result EXCEPT ![r] = res]
      BY <3>1, <3>5 DEF Got
    <3>9. DOMAIN res = DOMAIN want[r]
      BY <1>4 DEF ReaderOK
    <3>10. \A k \in DOMAIN want[r] : res[k] \in {result[r][k], want[r][k].item}
      BY <1>4 DEF ReaderOK
    <3>11. QED
      BY <3>7, <3>8, <3>9, <3>10
  <2>3. QED
    BY <1>2, <2>1, <2>2
<1>8. LocksOK'
  BY <1>1, <1>7, VisitStep DEF IInv
<1>9. JobOK'
  BY <1>1, <1>3 DEF IInv, JobOK
<1>10. ReaderOK("get", want[r], res, found[r], left[r] \ {i}, had[r], StoredEntry)
  BY <1>4, <1>7 DEF ReaderOK
<1>11. ReadersInv'
  <2>1. OthersKeep(r)
    BY <1>1, <1>7 DEF IInv, ReadersInv, OthersKeep
  <2>2. /\ pc'[r] = "get" /\ want'[r] = want[r] /\ result'[r] = res
        /\ found'[r] = found[r] /\ left'[r] = left[r] \ {i} /\ had'[r] = had[r]
    BY <1>1, <1>7 DEF IInv, ReadersInv
  <2>3. QED
    BY <1>3, <1>10, <2>1, <2>2, OneReader DEF IInv
<1>12. QED
  BY <1>3, <1>7, <1>8, <1>9, <1>11 DEF IInv

\* What the cache did not have and the tables have is found.
LEMMA QueryStep ==
  ASSUME IInv, NEW r \in Reader, Query(r)
  PROVE  IInv'
<1> DEFINE f == {i \in Misses(r) : InTables(want[r][i].item)}
<1>1. /\ pc[r] = "get"
      /\ found' = [found EXCEPT ![r] = f]
      /\ pc' = [pc EXCEPT ![r] = "put"]
      /\ left' = [left EXCEPT ![r] = found'[r]]
      /\ UNCHANGED <<rows, nulls, hasTotal, shard_num, maps, lock, job, jobLeft,
                     want, result, had>>
  BY DEF Query, tables, writer
<1>2. TablesOK /\ TablesOK' /\ shard_num' \in ShardNums /\ StoredEntry' = StoredEntry
  BY <1>1 DEF IInv, TablesOK, StoredEntry
<1>3. MapsOK' /\ LocksOK' /\ JobOK'
  BY <1>1, <1>2 DEF IInv, MapsOK, LocksOK, JobOK, shard_id
<1>4. ReaderOK("get", want[r], result[r], found[r], left[r], had[r], StoredEntry)
  BY <1>1 DEF IInv, ReadersInv
<1>5. ASSUME NEW i \in DOMAIN want[r]
      PROVE  i \in f <=> result[r][i] = NoItem /\ want[r][i] \in StoredEntry
  <2>1. want[r][i] \in AnyEntry
    BY <1>4 DEF ReaderOK
  <2>2. want[r][i] \in StoredEntry <=> InTables(want[r][i].item)
    BY <1>2, <2>1, InTablesStored DEF TablesOK, StoredEntry, InTables
  <2>3. QED
    BY <2>2 DEF Misses
<1>6. f \subseteq DOMAIN want[r]
  BY DEF Misses
<1> HIDE DEF f
<1>7. ReaderOK("put", want[r], result[r], f, f, had[r], StoredEntry)
  BY <1>4, <1>5, <1>6 DEF ReaderOK
<1>8. ReadersInv'
  <2>1. found'[r] = f
    BY <1>1 DEF IInv, ReadersInv
  <2>2. OthersKeep(r)
    BY <1>1 DEF IInv, ReadersInv, OthersKeep
  <2>3. /\ pc'[r] = "put" /\ want'[r] = want[r] /\ result'[r] = result[r]
        /\ left'[r] = f /\ had'[r] = had[r]
    BY <1>1, <2>1 DEF IInv, ReadersInv
  <2>4. QED
    BY <1>2, <1>7, <2>1, <2>2, <2>3, OneReader DEF IInv
<1>9. QED
  BY <1>2, <1>3, <1>8 DEF IInv

\* What is written back is in the tables.
LEMMA WriteBackStep ==
  ASSUME IInv, NEW r \in Reader, NEW i \in left[r], WriteBack(r, i)
  PROVE  IInv'
<1>1. /\ pc[r] = "put"
      /\ Visit(r, want[r], left[r], i) /\ Put(want[r][i])
      /\ left' = [left EXCEPT ![r] = left[r] \ {i}]
      /\ UNCHANGED <<rows, nulls, hasTotal, shard_num, job, jobLeft,
                     pc, want, result, found, had>>
  BY DEF WriteBack, tables, writer
<1>2. TablesOK /\ TablesOK' /\ shard_num' \in ShardNums /\ StoredEntry' = StoredEntry
  BY <1>1 DEF IInv, TablesOK, StoredEntry
<1>3. ReaderOK("put", want[r], result[r], found[r], left[r], had[r], StoredEntry)
  BY <1>1 DEF IInv, ReadersInv
<1>4. want[r][i] \in StoredEntry
  BY <1>3 DEF ReaderOK
<1>5. MapsOK' /\ DOMAIN maps' = DOMAIN maps
  BY <1>1, <1>2, <1>4, PutStep DEF IInv
<1>6. LocksOK'
  BY <1>1, <1>5, VisitStep DEF IInv
<1>7. JobOK'
  BY <1>1, <1>2 DEF IInv, JobOK
<1>8. ReaderOK("put", want[r], result[r], found[r], left[r] \ {i}, had[r], StoredEntry)
  BY <1>3 DEF ReaderOK
<1>9. ReadersInv'
  <2>1. OthersKeep(r)
    BY <1>1 DEF IInv, ReadersInv, OthersKeep
  <2>2. /\ pc'[r] = "put" /\ want'[r] = want[r] /\ result'[r] = result[r]
        /\ found'[r] = found[r] /\ left'[r] = left[r] \ {i} /\ had'[r] = had[r]
    BY <1>1 DEF IInv, ReadersInv
  <2>3. QED
    BY <1>2, <1>8, <2>1, <2>2, OneReader DEF IInv
<1>10. QED
  BY <1>2, <1>5, <1>6, <1>7, <1>9 DEF IInv

LEMMA EndStep ==
  ASSUME IInv, NEW r \in Reader, QueryFails(r) \/ Done(r)
  PROVE  IInv'
<1>1. /\ ForgetRequests({r})
      /\ UNCHANGED <<rows, nulls, hasTotal, shard_num, maps, lock, job, jobLeft>>
  BY DEF QueryFails, Done, tables, writer
<1>2. TablesOK' /\ shard_num' \in ShardNums /\ StoredEntry' = StoredEntry
  BY <1>1 DEF IInv, TablesOK, StoredEntry
<1>3. MapsOK' /\ LocksOK' /\ JobOK'
  BY <1>1, <1>2 DEF IInv, MapsOK, LocksOK, JobOK, shard_id
<1>4. ReadersInv'
  BY <1>1, <1>2, ForgetStep DEF IInv
<1>5. QED
  BY <1>2, <1>3, <1>4 DEF IInv

LEMMA RestartStep ==
  ASSUME IInv, Restart
  PROVE  IInv'
<1>1. /\ maps' = NoMaps(shard_num)
      /\ lock' = [d \in DOMAIN lock |-> Nobody]
      /\ StartBatch(<< >>)
      /\ ForgetRequests(Reader)
      /\ UNCHANGED <<rows, nulls, hasTotal, shard_num>>
  BY DEF Restart, tables
<1>2. TablesOK' /\ shard_num' \in ShardNums /\ StoredEntry' = StoredEntry
  BY <1>1 DEF IInv, TablesOK, StoredEntry
<1>3. DOMAIN maps' = 0..(shard_num' - 1) /\ \A d \in DOMAIN maps' : maps'[d] = << >>
  BY <1>1 DEF NoMaps
<1>4. MapsOK'
  <2>1. \A d \in DOMAIN maps' :
          /\ maps'[d] \in Seq(StoredEntry') /\ Len(maps'[d]) = 0 /\ DOMAIN maps'[d] = {}
    BY <1>3, EmptyMap
  <2>2. Capacity \div shard_num' \in Nat
    BY <1>2, RoomForOne
  <2>3. \A d \in DOMAIN maps' : Len(maps'[d]) <= Capacity \div shard_num'
    BY <2>1, <2>2
  <2>4. QED
    BY <1>3, <2>1, <2>3 DEF MapsOK
<1>5. LocksOK'
  <2>1. DOMAIN maps' = DOMAIN lock
    BY <1>1, <1>3 DEF IInv, MapsOK, LocksOK
  <2>2. lock' = [d \in DOMAIN maps' |-> Nobody]
    BY <1>1, <2>1
  <2>3. QED
    BY <2>2 DEF LocksOK
<1>6. JobOK'
  <2>1. PICK b \in Seq(Seq(StoredEntry')) : StartBatch(b)
    BY <1>1, EmptyMap
  <2>2. QED
    BY <2>1, StartStep
<1>7. ReadersInv'
  BY <1>1, <1>2, ForgetStep DEF IInv
<1>8. QED
  BY <1>2, <1>4, <1>5, <1>6, <1>7 DEF IInv

LEMMA NextIInv ==
  ASSUME IInv, [Next]_vars
  PROVE  IInv'
<1>1. CASE \E r \in [Shard -> Count], n \in Count : Commit(r, n)
  BY <1>1, CommitStep
<1>2. CASE \E i \in jobLeft : JobPuts(i)
  BY <1>2, JobPutsStep
<1>3. CASE JobGoesOn
  BY <1>3, JobGoesOnStep
<1>4. ASSUME NEW r \in Reader, Serve(r) PROVE IInv'
  <2>1. CASE \E s \in Shard, from \in Count, amount \in Amount :
               AskReceivers(r, s, from, amount)
    BY <2>1, AskReceiversStep
  <2>2. CASE \E from \in Count, amount \in Amount : AskSenders(r, from, amount)
    BY <2>2, AskSendersStep
  <2>3. CASE \E i \in left[r] : Get(r, i) \/ WriteBack(r, i)
    BY <2>3, GetStep, WriteBackStep
  <2>4. CASE Query(r)
    BY <2>4, QueryStep
  <2>5. CASE QueryFails(r) \/ Done(r)
    BY <2>5, EndStep
  <2>6. QED
    BY <1>4, <2>1, <2>2, <2>3, <2>4, <2>5 DEF Serve
<1>5. CASE Restart
  BY <1>5, RestartStep
<1>6. CASE UNCHANGED vars
  <2>1. UNCHANGED <<rows, nulls, hasTotal, shard_num, maps, lock, job, jobLeft>>
    BY <1>6 DEF vars
  <2>2. UNCHANGED readers
    BY <1>6 DEF vars, readers
  <2>3. TablesOK' /\ shard_num' \in ShardNums /\ StoredEntry' = StoredEntry
    BY <2>1 DEF IInv, TablesOK, StoredEntry
  <2>4. MapsOK' /\ LocksOK' /\ JobOK'
    BY <2>1, <2>3 DEF IInv, MapsOK, LocksOK, JobOK, shard_id
  <2>5. ReadersInv'
    BY <2>2, <2>3, ReadersKeep DEF IInv
  <2>6. QED
    BY <2>3, <2>4, <2>5 DEF IInv
<1>7. QED
  BY <1>1, <1>2, <1>3, <1>4, <1>5, <1>6 DEF Next

-----------------------------------------------------------------------------
(***************************************************************************)
(* The theorems.                                                           *)
(***************************************************************************)
\* The inductive invariant of both caches of cache.rs: every entry of a map,
\* of a batch that the job has yet to put, and of what a request has found
\* is that of an item of the tables, under the key of that item.
THEOREM IInvCorrect == Spec => []IInv
<1>1. Init => IInv
  BY InitIInv
<1>2. IInv /\ [Next]_vars => IInv'
  BY NextIInv
<1>3. QED
  BY <1>1, <1>2, PTL DEF Spec

LEMMA HeldNow ==
  ASSUME TablesOK, MapsOK
  PROVE  Mirror!MirrorTypeOK
<1>1. \A d \in DOMAIN maps : maps[d] \in Seq(EntriesUpTo(rows, nulls))
  BY DEF MapsOK, StoredEntry
<1>2. HeldItems \subseteq Mirror!KeysUpTo(rows, nulls)
  BY <1>1, HeldStored DEF HeldItems, TablesOK
<1>3. QED
  BY <1>2 DEF Mirror!MirrorTypeOK, Mirror!Shard, Shard, TablesOK

LEMMA ReadersType ==
  ASSUME ReadersInv
  PROVE  ReadersOK
<1>1. ASSUME NEW r \in Reader
      PROVE  /\ pc[r] \in {"idle", "get", "put"}
             /\ want[r] \in Seq(AnyEntry)
             /\ DOMAIN result[r] = DOMAIN want[r]
             /\ found[r] \cup left[r] \cup had[r] \subseteq DOMAIN want[r]
  BY DEF ReadersInv, ReaderOK
<1>2. QED
  BY <1>1 DEF ReadersInv, ReadersOK

\* batch_get and batch_put: a map has no key twice, none of another map and
\* no more entries than its capacity; nobody holds two locks.
THEOREM TypeCorrect == Spec => []TypeOK
<1>1. IInv => TypeOK
  BY HeldNow, ReadersType DEF IInv, TypeOK
<1>2. QED
  BY <1>1, IInvCorrect, PTL

\* pull_receivers_for_shard and pull_senders: a request is served each item
\* that it asked for and the tables had at its start, at the place of its key,
\* and no other and none twice, whatever happens between its visits.
THEOREM ServedCorrect == Spec => []ServedRight
<1>1. ASSUME IInv, NEW r \in Reader, pc[r] = "put"
      PROVE  /\ \A i \in DOMAIN want[r] :
                  Served(r, i) \in
                    IF i \in had[r] THEN {want[r][i].item} ELSE {NoItem, want[r][i].item}
             /\ \A i, j \in DOMAIN want[r] :
                  Served(r, i) = Served(r, j) => i = j \/ Served(r, i) = NoItem
  <2>1. ReaderOK("put", want[r], result[r], found[r], left[r], had[r], StoredEntry)
    BY <1>1 DEF IInv, ReadersInv
  <2>2. ASSUME NEW i \in DOMAIN want[r]
        PROVE  /\ Served(r, i) \in {NoItem, want[r][i].item}
               /\ i \in had[r] => Served(r, i) = want[r][i].item
    BY <2>1 DEF ReaderOK, Served
  <2>3. ASSUME NEW i \in DOMAIN want[r], NEW j \in DOMAIN want[r],
               want[r][i].item = want[r][j].item
        PROVE  i = j
    <3>1. want[r][i] \in AnyEntry /\ want[r][j] \in AnyEntry
      BY <2>1 DEF ReaderOK
    <3>2. want[r][i] = want[r][j]
      BY <2>3, <3>1, EntryUnique
    <3>3. QED
      BY <2>1, <3>2 DEF ReaderOK
  <2>4. QED
    BY <2>2, <2>3
<1>2. IInv => ServedRight
  BY <1>1 DEF ServedRight
<1>3. QED
  BY <1>2, IInvCorrect, PTL

\* Both caches implement the abstract store: put_batch_lru and batch_put only
\* put what the tables hold, after a commit, from a query, and after a restart.
THEOREM MirrorCorrect == Spec => ImplementsMirror
<1>1. ASSUME Init PROVE Mirror!MirrorInit
  <2>1. \A d \in DOMAIN maps : maps[d] = << >>
    BY <1>1 DEF Init, NoMaps
  <2>2. HeldItems = {}
    BY <2>1, EmptyMap DEF HeldItems
  <2>3. QED
    BY <1>1, <2>2 DEF Init, Mirror!MirrorInit, Mirror!Shard, Shard
<1>2. ASSUME IInv, IInv', [Next]_vars
      PROVE  [Mirror!MirrorNext]_(Mirror!mirrorVars)
  <2>1. ASSUME UNCHANGED <<rows, nulls, hasTotal>>
        PROVE  Mirror!MirrorNext
    <3>1. Mirror!MirrorTypeOK'
      BY <1>2, MirrorOK DEF IInv
    <3>2. HeldItems' \subseteq Mirror!KeysUpTo(rows, nulls)
      BY <2>1, <3>1 DEF Mirror!MirrorTypeOK
    <3>3. Mirror!MirrorCachePut(HeldItems')
      BY <2>1, <3>2 DEF Mirror!MirrorCachePut
    <3>4. QED
      BY <3>3 DEF Mirror!MirrorNext
  <2>2. ASSUME NEW r \in [Shard -> Count], NEW n \in Count, Commit(r, n)
        PROVE  Mirror!MirrorNext
    <3>1. HeldItems' = HeldItems
      BY <2>2 DEF Commit, HeldItems
    <3>2. Mirror!MirrorCommit(r, n)
      BY <2>2, <3>1 DEF Commit, Mirror!MirrorCommit, Mirror!Shard, Shard
    <3>3. QED
      BY <3>2 DEF Mirror!MirrorNext, Mirror!Shard, Shard
  <2>3. CASE \E r \in [Shard -> Count], n \in Count : Commit(r, n)
    BY <2>2, <2>3
  <2>4. CASE (\E i \in jobLeft : JobPuts(i)) \/ JobGoesOn \/ Restart
    BY <2>1, <2>4 DEF JobPuts, JobGoesOn, Restart, tables
  <2>5. CASE \E r \in Reader : Serve(r)
    <3>1. PICK r \in Reader : Serve(r)
      BY <2>5
    <3>2. ASSUME NEW e, Ask(r, e) PROVE UNCHANGED <<rows, nulls, hasTotal>>
      BY <3>2 DEF Ask, tables
    <3>3. ASSUME NEW i, Get(r, i) \/ WriteBack(r, i)
          PROVE  UNCHANGED <<rows, nulls, hasTotal>>
      BY <3>3 DEF Get, WriteBack, tables
    <3>4. ASSUME Query(r) \/ QueryFails(r) \/ Done(r)
          PROVE  UNCHANGED <<rows, nulls, hasTotal>>
      BY <3>4 DEF Query, QueryFails, Done, tables
    <3>5. UNCHANGED <<rows, nulls, hasTotal>>
      BY <3>1, <3>2, <3>3, <3>4 DEF Serve, AskReceivers, AskSenders
    <3>6. QED
      BY <2>1, <3>5
  <2>6. CASE UNCHANGED vars
    BY <2>1, <2>6 DEF vars
  <2>7. QED
    BY <1>2, <2>3, <2>4, <2>5, <2>6 DEF Next
<1>3. QED
  BY <1>1, <1>2, IInvCorrect, PTL DEF Spec, ImplementsMirror, Mirror!MirrorSpec
=============================================================================
