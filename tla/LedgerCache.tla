---------------------------- MODULE LedgerCache ----------------------------
(***************************************************************************)
(* The ledger cache as it is built (indexer/cache.rs): least recently used *)
(* maps with packed keys, filled by the syncing job after each commit and  *)
(* used by requests at the same time.                                      *)
(*                                                                         *)
(* There are two of them in the code.  LEDGER_LRU, the one in use, is one  *)
(* map behind one lock, which is held for a whole batch.  LEDGER_LRU2,     *)
(* meant for more data, has shard_num maps with a lock each: a batch visits*)
(* the maps of its keys one after the other, in any order, and other       *)
(* batches come in between.  Both have the same capacity in all, and the   *)
(* first is the second with a single map.                                  *)
(*                                                                         *)
(* Module Sync leaves open what is evicted and Pull has one request at a   *)
(* time; here the order of use is kept and several readers run.            *)
(***************************************************************************)
EXTENDS LruKeys, Sequences, FiniteSets, Functions

CONSTANTS
  ForestWidth, Count,  (* as in LedgerTypes                                 *)
  ShardNums,  (* the numbers of maps: 1 for LEDGER_LRU, 32 for LEDGER_LRU2  *)
  Capacity,   (* of all maps together, 2 ^ 24 in the code                   *)
  Reader,     (* requests that run at the same time                         *)
  Amount      (* how many items a request may want                          *)

ASSUME LedgerCacheAssumption ==
  /\ ForestWidth \in Nat /\ ForestWidth <= SubFields
  /\ Count \subseteq Nat /\ 0 \in Count /\ Amount \subseteq Nat
  /\ \A n \in Count : n <= Values /\ \A a \in Amount : n + a <= Values
  /\ Capacity \in Nat /\ ShardNums \subseteq 1..Capacity

VARIABLES
  rows, nulls, hasTotal,  (* the tables, as in LedgerMirror                 *)
  shard_num,  (* how many maps there are                                    *)
  maps,       (* maps[d]: the entries of a map, the latest used first       *)
  lock,       (* lock[d]: who is working on it                              *)
  job,        (* the batches that the job has yet to put, in order          *)
  jobLeft,    (* what is left of the first of them, by position             *)
  pc,         (* pc[r]: "idle", "get" or "put"                              *)
  want,       (* want[r]: what r asks for, key and item                     *)
  result,     (* result[r]: what its batch_get has returned so far          *)
  found,      (* found[r]: the positions that its query of the tables found *)
  left,       (* left[r]: what is left of its batch, by position            *)
  had         (* history: had[r]: what the tables had of it at the start    *)

tables == <<rows, nulls, hasTotal>>
writer == <<job, jobLeft>>
readers == <<pc, want, result, found, left, had>>
vars == <<rows, nulls, hasTotal, shard_num, maps, lock, job, jobLeft, pc, want,
          result, found, left, had>>

Shard == 0..(ForestWidth - 1)

-----------------------------------------------------------------------------
(***************************************************************************)
(* Maps and entries.  The item of an entry stands for its encoding.        *)
(***************************************************************************)
HeldItems == UNION {{maps[d][j].item : j \in DOMAIN maps[d]} : d \in DOMAIN maps}

Mirror == INSTANCE LedgerMirror WITH cached <- HeldItems

NoItem == << >>

receiver_entry(s, u) ==
  [key |-> receiver_key(s, u), item |-> Mirror!receiver_key(s, u)]
sender_entry(i) == [key |-> sender_key(i), item |-> Mirror!sender_key(i)]

\* What put_batch_receiver and put_batch_sender hand to the cache for the
\* indices from..(to - 1), and what a get looks for.
receiver_entries(s, from, to) ==
  [i \in 1..(to - from) |-> receiver_entry(s, from + (i - 1))]
sender_entries(from, to) ==
  [i \in 1..(to - from) |-> sender_entry(from + (i - 1))]

\* The map that a key belongs to.
shard_id(key) == key % shard_num

Nobody == "nobody"
Job == "job"

\* batch_get and batch_put: p has the positions in todo of its batch before it
\* and takes the one at i.  It waits for the lock of the map, works through
\* the keys of the map in their order, and lets go of the lock before it goes
\* on to another map.
Visit(p, batch, todo, i) ==
  LET d == shard_id(batch[i].key)
      here == {j \in todo : shard_id(batch[j].key) = d}
  IN  /\ i \in todo
      /\ \A j \in here : i <= j
      /\ lock[d] \in {Nobody, p}
      /\ \A c \in DOMAIN maps \ {d} : lock[c] # p
      /\ lock' = [lock EXCEPT ![d] = IF here = {i} THEN Nobody ELSE p]

\* Where a map has a key.
Places(map, key) == {j \in DOMAIN map : map[j].key = key}

\* The entry goes to the front of the map, those before place j move back by
\* one, and what was at place j is gone.
AtFront(map, j, entry) ==
  [k \in 1..(IF j <= Len(map) THEN Len(map) ELSE j) |->
     IF k = 1 THEN entry ELSE IF k <= j THEN map[k - 1] ELSE map[k]]

\* Mutant: an entry that is there is not replaced.
RoomFresh(map, key) ==
  {IF Len(map) < Capacity \div shard_num THEN Len(map) + 1 ELSE Len(map)}

\* LruCache::put: the place that the entry of a key takes in the map, its own
\* or a new one; in a full map the entry used the longest time ago makes room.
Room(map, key) ==
  IF Places(map, key) # {}
    THEN Places(map, key)
    ELSE {IF Len(map) < Capacity \div shard_num THEN Len(map) + 1 ELSE Len(map)}

Put(entry) ==
  LET d == shard_id(entry.key)
  IN  \E j \in Room(maps[d], entry.key) :
        maps' = [maps EXCEPT ![d] = AtFront(@, j, entry)]

-----------------------------------------------------------------------------
NoMaps(n) == [d \in 0..(n - 1) |-> << >>]

Init ==
  /\ rows = [s \in Shard |-> 0]
  /\ nulls = 0
  /\ hasTotal = FALSE
  /\ shard_num \in ShardNums
  /\ maps = NoMaps(shard_num)
  /\ lock = [d \in DOMAIN maps |-> Nobody]
  /\ job = << >>
  /\ jobLeft = {}
  /\ pc = [r \in Reader |-> "idle"]
  /\ want = [r \in Reader |-> << >>]
  /\ result = [r \in Reader |-> << >>]
  /\ found = [r \in Reader |-> {}]
  /\ left = [r \in Reader |-> {}]
  /\ had = [r \in Reader |-> {}]

\* The requests of the readers in R are over.
ForgetRequests(R) ==
  /\ pc' = [r \in Reader |-> IF r \in R THEN "idle" ELSE pc[r]]
  /\ want' = [r \in Reader |-> IF r \in R THEN << >> ELSE want[r]]
  /\ result' = [r \in Reader |-> IF r \in R THEN << >> ELSE result[r]]
  /\ found' = [r \in Reader |-> IF r \in R THEN {} ELSE found[r]]
  /\ left' = [r \in Reader |-> IF r \in R THEN {} ELSE left[r]]
  /\ had' = [r \in Reader |-> IF r \in R THEN {} ELSE had[r]]

(***************************************************************************)
(* The job: what a transaction has added goes to the cache, one batch per  *)
(* shard in any order, then the senders.                                   *)
(***************************************************************************)
StartBatch(batches) ==
  /\ job' = batches
  /\ jobLeft' = IF batches = << >> THEN {} ELSE DOMAIN Head(batches)

\* The orders in which the shards of a response can come (they are a HashMap).
Orders(S) == Bijection(1..Cardinality(S), S)

\* Mutant: the receivers are numbered from one too high.
BatchesShifted(order, r, n) ==
  Append([k \in DOMAIN order |->
            receiver_entries(order[k], rows[order[k]] + 1, r[order[k]] + 1)],
         sender_entries(nulls, n))

\* The batches of a transaction that makes the tables grow to r and n.
Batches(order, r, n) ==
  Append([k \in DOMAIN order |->
            receiver_entries(order[k], rows[order[k]], r[order[k]])],
         sender_entries(nulls, n))

Commit(r, n) ==
  /\ job = << >>
  /\ \A s \in Shard : rows[s] <= r[s]
  /\ nulls <= n
  /\ rows' = r
  /\ nulls' = n
  /\ hasTotal' = TRUE
  /\ \E order \in Orders({s \in Shard : rows[s] < r[s]}) :
       StartBatch(Batches(order, r, n))
  /\ UNCHANGED <<shard_num, maps, lock, readers>>

JobPuts(i) ==
  /\ Visit(Job, Head(job), jobLeft, i)
  /\ Put(Head(job)[i])
  /\ jobLeft' = jobLeft \ {i}
  /\ UNCHANGED <<tables, shard_num, job, readers>>

JobGoesOn ==
  /\ job # << >>
  /\ jobLeft = {}
  /\ StartBatch(Tail(job))
  /\ UNCHANGED <<tables, shard_num, maps, lock, readers>>

-----------------------------------------------------------------------------
(***************************************************************************)
(* A request: pull_receivers_for_shard or pull_senders.                    *)
(***************************************************************************)
InTables(item) == item \in Mirror!KeysUpTo(rows, nulls)

Ask(r, entries) ==
  /\ pc[r] = "idle"
  /\ pc' = [pc EXCEPT ![r] = "get"]
  /\ want' = [want EXCEPT ![r] = entries]
  /\ result' = [result EXCEPT ![r] = [i \in DOMAIN entries |-> NoItem]]
  /\ left' = [left EXCEPT ![r] = DOMAIN entries]
  /\ had' = [had EXCEPT ![r] = {i \in DOMAIN entries : InTables(entries[i].item)}]
  /\ UNCHANGED <<tables, shard_num, maps, lock, writer, found>>

\* A shard is only asked for what follows an index that it has.
AskReceivers(r, s, from, amount) ==
  /\ from < rows[s]
  /\ Ask(r, receiver_entries(s, from, from + amount))

AskSenders(r, from, amount) == Ask(r, sender_entries(from, from + amount))

\* The result of a key stands where the key did.
Got(r, i, item) == result' = [result EXCEPT ![r] = [@ EXCEPT ![i] = item]]

\* LruCache::get: the item, if there is one, and the entry moves to the front.
Get(r, i) ==
  LET key == want[r][i].key
      d == shard_id(key)
  IN  /\ pc[r] = "get"
      /\ Visit(r, want[r], left[r], i)
      /\ \/ \E j \in Places(maps[d], key) :
              /\ Got(r, i, maps[d][j].item)
              /\ maps' = [maps EXCEPT ![d] = AtFront(@, j, @[j])]
         \/ /\ Places(maps[d], key) = {}
            /\ UNCHANGED <<result, maps>>
      /\ left' = [left EXCEPT ![r] = @ \ {i}]
      /\ UNCHANGED <<tables, shard_num, writer, pc, want, found, had>>

Misses(r) == {i \in DOMAIN want[r] : result[r][i] = NoItem}

\* The rows of those that the tables have; they will be written back, in the
\* order of their indices.
Query(r) ==
  /\ pc[r] = "get"
  /\ left[r] = {}
  /\ found' = [found EXCEPT ![r] = {i \in Misses(r) : InTables(want[r][i].item)}]
  /\ pc' = [pc EXCEPT ![r] = "put"]
  /\ left' = [left EXCEPT ![r] = found'[r]]
  /\ UNCHANGED <<tables, shard_num, maps, lock, writer, want, result, had>>

QueryFails(r) ==
  /\ pc[r] = "get"
  /\ left[r] = {}
  /\ ForgetRequests({r})
  /\ UNCHANGED <<tables, shard_num, maps, lock, writer>>

WriteBack(r, i) ==
  /\ pc[r] = "put"
  /\ Visit(r, want[r], left[r], i)
  /\ Put(want[r][i])
  /\ left' = [left EXCEPT ![r] = @ \ {i}]
  /\ UNCHANGED <<tables, shard_num, writer, pc, want, result, found, had>>

Done(r) ==
  /\ pc[r] = "put"
  /\ left[r] = {}
  /\ ForgetRequests({r})
  /\ UNCHANGED <<tables, shard_num, maps, lock, writer>>

\* The process ends and is started again on the same tables.
Restart ==
  /\ maps' = NoMaps(shard_num)
  /\ lock' = [d \in DOMAIN lock |-> Nobody]
  /\ StartBatch(<< >>)
  /\ ForgetRequests(Reader)
  /\ UNCHANGED <<tables, shard_num>>

-----------------------------------------------------------------------------
Serve(r) ==
  \/ \E s \in Shard, from \in Count, amount \in Amount :
       AskReceivers(r, s, from, amount)
  \/ \E from \in Count, amount \in Amount : AskSenders(r, from, amount)
  \/ \E i \in left[r] : Get(r, i) \/ WriteBack(r, i)
  \/ Query(r)
  \/ QueryFails(r)
  \/ Done(r)

Next ==
  \/ \E r \in [Shard -> Count], n \in Count : Commit(r, n)
  \/ \E i \in jobLeft : JobPuts(i)
  \/ JobGoesOn
  \/ \E r \in Reader : Serve(r)
  \/ Restart

Spec == Init /\ [][Next]_vars

-----------------------------------------------------------------------------
(***************************************************************************)
(* Properties.                                                             *)
(***************************************************************************)
\* The entries of the items before r[s] in shard s and before n among the
\* senders, those of the tables, and all that have an index which fits its field.
EntriesUpTo(r, n) ==
  (UNION {{receiver_entry(s, u) : u \in 0..(r[s] - 1)} : s \in Shard})
    \cup {sender_entry(i) : i \in 0..(n - 1)}
StoredEntry == EntriesUpTo(rows, nulls)
AnyEntry == EntriesUpTo([s \in Shard |-> Values], Values)

\* A map of the cache has no key twice, none of another map, and no more
\* entries than it has room for.
MapsOK ==
  /\ DOMAIN maps = 0..(shard_num - 1)
  /\ \A d \in DOMAIN maps :
       /\ maps[d] \in Seq(StoredEntry)
       /\ Len(maps[d]) <= Capacity \div shard_num
       /\ \A j, k \in DOMAIN maps[d] : maps[d][j].key = maps[d][k].key => j = k
       /\ \A j \in DOMAIN maps[d] : shard_id(maps[d][j].key) = d

\* Nobody works on two maps.
LocksOK ==
  /\ lock \in [DOMAIN maps -> Reader \cup {Nobody, Job}]
  /\ \A c, d \in DOMAIN maps : lock[c] = lock[d] => c = d \/ lock[c] = Nobody

JobOK ==
  /\ job \in Seq(Seq(StoredEntry))
  /\ jobLeft \subseteq IF job = << >> THEN {} ELSE DOMAIN Head(job)

ReadersOK ==
  /\ DOMAIN pc = Reader /\ DOMAIN want = Reader /\ DOMAIN result = Reader
  /\ DOMAIN found = Reader /\ DOMAIN left = Reader /\ DOMAIN had = Reader
  /\ \A r \in Reader :
       /\ pc[r] \in {"idle", "get", "put"}
       /\ want[r] \in Seq(AnyEntry)
       /\ DOMAIN result[r] = DOMAIN want[r]
       /\ found[r] \cup left[r] \cup had[r] \subseteq DOMAIN want[r]

\* Every variable has its type.
TypeOK ==
  /\ Mirror!MirrorTypeOK
  /\ shard_num \in ShardNums
  /\ MapsOK
  /\ LocksOK
  /\ JobOK
  /\ ReadersOK

\* What a request answers for position i of what it wants.
Served(r, i) == IF i \in found[r] THEN want[r][i].item ELSE result[r][i]

\* Whatever other readers and the job put in and the maps evict while a batch
\* goes from map to map, a request gets only items that it asked for, each at
\* the place of its key and so at most once, and all of those that were in
\* the tables when it began.
ServedRight ==
  \A r \in Reader : pc[r] = "put" =>
    /\ \A i \in DOMAIN want[r] :
         Served(r, i) \in
           IF i \in had[r] THEN {want[r][i].item} ELSE {NoItem, want[r][i].item}
    /\ \A i, j \in DOMAIN want[r] :
         Served(r, i) = Served(r, j) => i = j \/ Served(r, i) = NoItem

\* Both caches are what LedgerMirror promises of the cache: nothing that the
\* tables do not hold.
ImplementsMirror == Mirror!MirrorSpec
=============================================================================
