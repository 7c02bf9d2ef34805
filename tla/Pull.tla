-------------------------------- MODULE Pull --------------------------------
(***************************************************************************)
(* mantaPay_pull_ledger_diff and its dense variant (indexer/mod.rs,        *)
(* indexer/pull.rs), served from the tables and the cache, together with   *)
(* one client that polls it and keeps what it gets.                        *)
(*                                                                         *)
(* The request is not a transaction: it awaits before each look at the     *)
(* cache and at the database, and the syncing job commits, other requests  *)
(* fill the cache and the cache evicts in between.  All of these are steps *)
(* of LedgerMirror, which module Sync implements.                          *)
(***************************************************************************)
EXTENDS LedgerMirror, Sequences

CONSTANTS
  MAX_RECEIVERS, MAX_SENDERS,   (* limits of one answer, 4096 in the code   *)
  Amount,                       (* the amounts a client may ask for         *)
  FollowCursor,                 (* does the client use next_checkpoint?     *)
  MaxFaults                     (* bound: failures in one behaviour         *)

ASSUME PullAssumption ==
  /\ MAX_RECEIVERS \in Nat \ {0}
  /\ MAX_SENDERS \in Nat \ {0}
  /\ Amount \subseteq Nat
  /\ FollowCursor \in BOOLEAN
  /\ MaxFaults \in Nat

VARIABLES
  pc,         (* where the request is; "idle" when there is none            *)
  ckp,        (* the client's checkpoint                                    *)
  gotR,       (* gotR[s]: the receivers of shard s that the client has      *)
  gotS,       (* the senders that the client has                            *)
  maxR, maxS, (* max_receivers and max_senders after the limits             *)
  shard,      (* shard_index                                                *)
  recv,       (* recv[s]: what `receivers` holds of shard s, in order       *)
  remain,     (* remain                                                     *)
  found,      (* the indices that the last query of the tables returned     *)
  moreR,      (* more_receivers                                             *)
  send,       (* senders                                                    *)
  moreS,      (* more_senders                                               *)
  faults,     (* failures so far                                            *)
  swallowed,  (* history: an error of this request was taken for "no"       *)
  rows0, nulls0  (* history: the tables when the request began              *)

client == <<ckp, gotR, gotS>>
request == <<maxR, maxS, shard, recv, remain, found, moreR, send, moreS,
             swallowed, rows0, nulls0>>
vars == <<rows, nulls, hasTotal, cached, pc, ckp, gotR, gotS, maxR, maxS, shard,
          recv, remain, found, moreR, send, moreS, faults, swallowed, rows0, nulls0>>

-----------------------------------------------------------------------------
Smaller(a, b) == IF a < b THEN a ELSE b

\* The sequences that list the numbers of S in increasing order: what a look
\* at the cache pushes, and the order in which SQLite returns the rows of an
\* IN query over an index.
Ascending(S) ==
  {q \in [1..Cardinality(S) -> S] :
     \A i, j \in DOMAIN q : i < j => q[i] < q[j]}

Elements(q) == {q[i] : i \in DOMAIN q}

\* The indices asked for: `amount` of them from index `from` on.
Wanted(from, amount) == from..(from + amount - 1)

\* has_shard and has_nullifier, when the query succeeds.
has_shard(s, u) == u < rows[s]
has_nullifier(i) == i < nulls

\* get_batch_shard_receiver and get_batch_sender: the indices that hit.
cached_receivers(s, idxs) == {u \in idxs : receiver_key(s, u) \in cached}
cached_senders(idxs) == {i \in idxs : sender_key(i) \in cached}

\* get_batched_shards_by_idxs and get_batched_nullifier_by_idxs
batched_shards(s, idxs) == {u \in idxs : u < rows[s]}
batched_nullifiers(idxs) == {i \in idxs : i < nulls}

\* receivers.len()
Pulled == SumOverShards([s \in Shard |-> Len(recv[s])])

NoReceivers == [s \in Shard |-> << >>]

-----------------------------------------------------------------------------
ForgetRequest ==
  /\ pc' = "idle"
  /\ maxR' = 0 /\ maxS' = 0
  /\ shard' = 0
  /\ recv' = NoReceivers
  /\ remain' = 0
  /\ found' = {}
  /\ moreR' = FALSE
  /\ send' = << >>
  /\ moreS' = FALSE
  /\ swallowed' = FALSE
  /\ rows0' = [s \in Shard |-> 0]
  /\ nulls0' = 0

Init ==
  /\ MirrorInit
  /\ pc = "idle"
  /\ ckp = ZeroCheckpoint
  /\ gotR = [s \in Shard |-> {}]
  /\ gotS = {}
  /\ maxR = 0 /\ maxS = 0
  /\ shard = 0
  /\ recv = NoReceivers
  /\ remain = 0
  /\ found = {}
  /\ moreR = FALSE
  /\ send = << >>
  /\ moreS = FALSE
  /\ faults = 0
  /\ swallowed = FALSE
  /\ rows0 = [s \in Shard |-> 0]
  /\ nulls0 = 0

(***************************************************************************)
(* pull_ledger_diff_impl: the amounts are cut to the limits.               *)
(***************************************************************************)
\* Mutant: the amounts are passed on as they are.
AskUncut(r, n) ==
  /\ pc = "idle"
  /\ pc' = "has_shard"
  /\ maxR' = r
  /\ maxS' = n
  /\ remain' = maxR'
  /\ rows0' = rows
  /\ nulls0' = nulls
  /\ UNCHANGED <<mirrorVars, client, shard, recv, found, moreR, send, moreS,
                 faults, swallowed>>

Ask(r, n) ==
  /\ pc = "idle"
  /\ pc' = "has_shard"
  /\ maxR' = Smaller(r, MAX_RECEIVERS)
  /\ maxS' = Smaller(n, MAX_SENDERS)
  /\ remain' = maxR'
  /\ rows0' = rows
  /\ nulls0' = nulls
  /\ UNCHANGED <<mirrorVars, client, shard, recv, found, moreR, send, moreS,
                 faults, swallowed>>

(***************************************************************************)
(* pull_receivers: one shard after the other.                              *)
(***************************************************************************)
\* The loop goes on with the next shard, or is left.
LeaveShard(break) ==
  IF break \/ shard = ForestWidth - 1
    THEN pc' = "sender_cache" /\ UNCHANGED shard
    ELSE pc' = "has_shard" /\ shard' = shard + 1

HasShard ==
  /\ pc = "has_shard"
  /\ has_shard(shard, ckp.receiver_index[shard])
  /\ pc' = "cache"
  /\ UNCHANGED <<mirrorVars, client, request, faults>>

\* Mutant: break instead of continue.
SkipShardBreak ==
  /\ pc = "has_shard"
  /\ ~has_shard(shard, ckp.receiver_index[shard])
  /\ LeaveShard(TRUE)
  /\ UNCHANGED <<mirrorVars, client, maxR, maxS, recv, remain, found, moreR, send,
                 moreS, faults, swallowed, rows0, nulls0>>

SkipShard ==
  /\ pc = "has_shard"
  /\ ~has_shard(shard, ckp.receiver_index[shard])
  /\ LeaveShard(FALSE)
  /\ UNCHANGED <<mirrorVars, client, maxR, maxS, recv, remain, found, moreR, send,
                 moreS, faults, swallowed, rows0, nulls0>>

\* pull_receivers_for_shard, step 1: the hits are pushed first.
ReadCache ==
  /\ pc = "cache"
  /\ \E q \in Ascending(cached_receivers(shard,
                Wanted(ckp.receiver_index[shard], remain))) :
       recv' = [recv EXCEPT ![shard] = q]
  /\ pc' = "query"
  /\ UNCHANGED <<mirrorVars, client, maxR, maxS, shard, remain, found, moreR, send,
                 moreS, faults, swallowed, rows0, nulls0>>

\* Mutant: the hits are queried again.
QueryShardHits ==
  /\ pc = "query"
  /\ found' = batched_shards(shard, Wanted(ckp.receiver_index[shard], remain))
  /\ \E q \in Ascending(found') :
       recv' = [recv EXCEPT ![shard] = @ \o q]
  /\ pc' = "write_back"
  /\ UNCHANGED <<mirrorVars, client, maxR, maxS, shard, remain, moreR, send, moreS,
                 faults, swallowed, rows0, nulls0>>

\* Step 2: the rest is read from the tables and pushed after them.
QueryShard ==
  /\ pc = "query"
  /\ found' = batched_shards(shard,
                Wanted(ckp.receiver_index[shard], remain) \ Elements(recv[shard]))
  /\ \E q \in Ascending(found') :
       recv' = [recv EXCEPT ![shard] = @ \o q]
  /\ pc' = "write_back"
  /\ UNCHANGED <<mirrorVars, client, maxR, maxS, shard, remain, moreR, send, moreS,
                 faults, swallowed, rows0, nulls0>>

\* Mutant: everything wanted is written back.
WriteBackWanted ==
  /\ pc = "write_back"
  /\ cached' = cached \cup {receiver_key(shard, u) :
                              u \in Wanted(ckp.receiver_index[shard], remain)}
  /\ found' = {}
  /\ pc' = "more"
  /\ UNCHANGED <<rows, nulls, hasTotal, client, maxR, maxS, shard, recv, remain,
                 moreR, send, moreS, faults, swallowed, rows0, nulls0>>

\* Step 3.
WriteBackReceivers ==
  /\ pc = "write_back"
  /\ cached' = cached \cup {receiver_key(shard, u) : u \in found}
  /\ found' = {}
  /\ pc' = "more"
  /\ UNCHANGED <<rows, nulls, hasTotal, client, maxR, maxS, shard, recv, remain,
                 moreR, send, moreS, faults, swallowed, rows0, nulls0>>

\* Mutant: what is left for the next shards is not updated.
MoreInShardFull(answer) ==
  /\ moreR' = (moreR \/ (Len(recv[shard]) = remain /\ answer))
  /\ UNCHANGED remain
  /\ LeaveShard(Pulled = maxR)

\* The tables are only asked for one more row when all that was wanted is
\* there; `answer` is what has_shard says.
MoreInShard(answer) ==
  /\ moreR' = (moreR \/ (Len(recv[shard]) = remain /\ answer))
  /\ remain' = IF Pulled = maxR THEN remain ELSE maxR - Pulled
  /\ LeaveShard(Pulled = maxR)

\* Mutant: the last row that was wanted is taken for one more.
FinishShardLast ==
  /\ pc = "more"
  /\ MoreInShard(has_shard(shard, ckp.receiver_index[shard] + remain - 1))
  /\ UNCHANGED <<mirrorVars, client, maxR, maxS, recv, found, send, moreS, faults,
                 swallowed, rows0, nulls0>>

FinishShard ==
  /\ pc = "more"
  /\ MoreInShard(has_shard(shard, ckp.receiver_index[shard] + remain))
  /\ UNCHANGED <<mirrorVars, client, maxR, maxS, recv, found, send, moreS, faults,
                 swallowed, rows0, nulls0>>

(***************************************************************************)
(* pull_senders.                                                           *)
(***************************************************************************)
ReadSenderCache ==
  /\ pc = "sender_cache"
  /\ send' \in Ascending(cached_senders(Wanted(ckp.sender_index, maxS)))
  /\ pc' = "sender_query"
  /\ UNCHANGED <<mirrorVars, client, maxR, maxS, shard, recv, remain, found, moreR,
                 moreS, faults, swallowed, rows0, nulls0>>

QuerySenders ==
  /\ pc = "sender_query"
  /\ found' = batched_nullifiers(Wanted(ckp.sender_index, maxS) \ Elements(send))
  /\ \E q \in Ascending(found') : send' = send \o q
  /\ pc' = "sender_write_back"
  /\ UNCHANGED <<mirrorVars, client, maxR, maxS, shard, recv, remain, moreR, moreS,
                 faults, swallowed, rows0, nulls0>>

WriteBackSenders ==
  /\ pc = "sender_write_back"
  /\ cached' = cached \cup {sender_key(i) : i \in found}
  /\ found' = {}
  /\ pc' = "sender_more"
  /\ UNCHANGED <<rows, nulls, hasTotal, client, maxR, maxS, shard, recv, remain,
                 moreR, send, moreS, faults, swallowed, rows0, nulls0>>

FinishSenders ==
  /\ pc = "sender_more"
  /\ moreS' = has_nullifier(ckp.sender_index + maxS)
  /\ pc' = "total"
  /\ UNCHANGED <<mirrorVars, client, maxR, maxS, shard, recv, remain, found, moreR,
                 send, faults, swallowed, rows0, nulls0>>

(***************************************************************************)
(* The answer.  The dense variant adds the cursor for the next request.    *)
(***************************************************************************)
should_continue == moreR \/ moreS

next_checkpoint ==
  [receiver_index |-> [s \in Shard |-> ckp.receiver_index[s] + Len(recv[s])],
   sender_index |-> ckp.sender_index + maxS]

\* What a client that counts goes on with.
calculate_next_checkpoint ==
  [receiver_index |-> [s \in Shard |-> ckp.receiver_index[s] + Len(recv[s])],
   sender_index |-> ckp.sender_index + Len(send)]

\* The client keeps what it got and moves its checkpoint.
TakeAnswer ==
  /\ gotR' = [s \in Shard |-> gotR[s] \cup Elements(recv[s])]
  /\ gotS' = gotS \cup Elements(send)
  /\ ckp' = IF FollowCursor /\ should_continue
              THEN next_checkpoint
              ELSE calculate_next_checkpoint

Respond ==
  /\ pc = "total"
  /\ hasTotal
  /\ TakeAnswer
  /\ ForgetRequest
  /\ UNCHANGED <<mirrorVars, faults>>

\* get_total_senders_receivers fails as long as the table has no row.
NoTotal ==
  /\ pc = "total"
  /\ ~hasTotal
  /\ ForgetRequest
  /\ UNCHANGED <<mirrorVars, client, faults>>

-----------------------------------------------------------------------------
(***************************************************************************)
(* What goes wrong.                                                        *)
(***************************************************************************)
Fault ==
  /\ faults < MaxFaults
  /\ faults' = faults + 1

\* has_shard and has_nullifier take every error for "there is none".
HasShardFails ==
  /\ pc = "has_shard"
  /\ Fault
  /\ swallowed' = TRUE
  /\ LeaveShard(FALSE)
  /\ UNCHANGED <<mirrorVars, client, maxR, maxS, recv, remain, found, moreR, send,
                 moreS, rows0, nulls0>>

HasMoreFails ==
  /\ pc = "more"
  /\ Len(recv[shard]) = remain
  /\ Fault
  /\ swallowed' = TRUE
  /\ MoreInShard(FALSE)
  /\ UNCHANGED <<mirrorVars, client, maxR, maxS, recv, found, send, moreS, rows0, nulls0>>

HasNullifierFails ==
  /\ pc = "sender_more"
  /\ Fault
  /\ swallowed' = TRUE
  /\ moreS' = FALSE
  /\ pc' = "total"
  /\ UNCHANGED <<mirrorVars, client, maxR, maxS, shard, recv, remain, found, moreR,
                 send, rows0, nulls0>>

\* Every other query is followed by `?`; so is the answer lost when the
\* connection of the client is.  The client asks again.
RequestFails ==
  /\ pc \in {"query", "sender_query", "total"}
  /\ Fault
  /\ ForgetRequest
  /\ UNCHANGED <<mirrorVars, client>>

Restart ==
  /\ Fault
  /\ MirrorRestart
  /\ ForgetRequest
  /\ UNCHANGED client

-----------------------------------------------------------------------------
(***************************************************************************)
(* The syncing job and the other requests.                                 *)
(***************************************************************************)
SyncCommit ==
  /\ \E r \in [Shard -> Count], n \in Count : MirrorCommit(r, n)
  /\ UNCHANGED <<pc, client, request, faults>>

OthersFill ==
  /\ \E k \in KeysUpTo(rows, nulls) \ cached : MirrorCachePut(cached \cup {k})
  /\ UNCHANGED <<pc, client, request, faults>>

OthersEvict ==
  /\ \E k \in cached : MirrorCachePut(cached \ {k})
  /\ UNCHANGED <<pc, client, request, faults>>

-----------------------------------------------------------------------------
Serve ==
  \/ HasShard
  \/ SkipShard
  \/ ReadCache
  \/ QueryShard
  \/ WriteBackReceivers
  \/ FinishShard
  \/ ReadSenderCache
  \/ QuerySenders
  \/ WriteBackSenders
  \/ FinishSenders
  \/ Respond
  \/ NoTotal

Next ==
  \/ \E r, n \in Amount : Ask(r, n)
  \/ Serve
  \/ HasShardFails
  \/ HasMoreFails
  \/ HasNullifierFails
  \/ RequestFails
  \/ Restart
  \/ SyncCommit
  \/ OthersFill
  \/ OthersEvict

Spec == Init /\ [][Next]_vars

\* The runtime keeps polling the request, and the client asks again and again
\* for something of both kinds, whatever else it asks for in between.
FairSpec ==
  /\ Spec
  /\ WF_vars(Serve)
  /\ SF_vars(\E r, n \in Amount \ {0} : Ask(r, n))

-----------------------------------------------------------------------------
(***************************************************************************)
(* What a client can rely on.                                              *)
(***************************************************************************)
\* Every variable has its type; the request's counters stay within its limits.
TypeOK ==
  /\ MirrorTypeOK
  /\ pc \in {"idle", "has_shard", "cache", "query", "write_back", "more",
             "sender_cache", "sender_query", "sender_write_back", "sender_more",
             "total"}
  /\ ckp \in Checkpoint
  /\ gotR \in [Shard -> SUBSET Nat] /\ gotS \in SUBSET Nat
  /\ maxR \in 0..MAX_RECEIVERS /\ maxS \in 0..MAX_SENDERS
  /\ shard \in Shard
  /\ recv \in [Shard -> Seq(Nat)] /\ send \in Seq(Nat)
  /\ remain \in 0..maxR
  /\ found \in SUBSET Nat
  /\ moreR \in BOOLEAN /\ moreS \in BOOLEAN /\ swallowed \in BOOLEAN
  /\ faults \in 0..MaxFaults
  /\ rows0 \in [Shard -> Nat] /\ nulls0 \in Nat

\* A client that counts what it gets has every item before its checkpoint
\* and nothing else, whatever was committed, cached, evicted or lost while
\* its requests were served.  (An item served twice would move the
\* checkpoint past one that was never served.)
ExactlyOnce ==
  /\ \A s \in Shard : gotR[s] = 0..(ckp.receiver_index[s] - 1)
  /\ gotS = 0..(ckp.sender_index - 1)

\* An answer stays within both limits ("If the params exceeds the value,
\* pull_ledger_diff still returns limitation data at most in one time").
WithinLimits == Pulled <= maxR /\ Len(send) <= maxS

\* An answer that says there is more is right about it.
MoreIsTrue ==
  pc = "total" =>
    /\ moreR => \E s \in Shard : next_checkpoint.receiver_index[s] < rows[s]
    /\ moreS => ckp.sender_index + Len(send) < nulls

\* An answer that says there is no more leaves out nothing that was in the
\* tables when the request began, unless it is full of receivers or an error
\* was swallowed.
NoMoreIsTrue ==
  pc = "total" /\ ~swallowed =>
    /\ ~moreR /\ Pulled < maxR =>
         \A s \in Shard : rows0[s] <= next_checkpoint.receiver_index[s]
    /\ ~moreS => nulls0 <= ckp.sender_index + Len(send)

\* Serving is a step of LedgerMirror: a request never puts anything into the
\* cache that the tables do not hold.
KeepsMirror == MirrorSpec

\* "more_receivers[bool]: whether exists more receivers.": an answer without
\* should_continue is complete, errors aside.
NoMoreReceivers ==
  pc = "total" /\ ~swallowed /\ ~moreR =>
    \A s \in Shard : rows0[s] <= next_checkpoint.receiver_index[s]

\* "if more_senders, next request index" (pull_senders), and "next cursor works
\* only if pull_response.should_continue = true": a client that then follows
\* it misses no sender.
CursorLosesNothing == 0..(ckp.sender_index - 1) \subseteq gotS

\* The receivers of a shard are served in the order of their indices, as a
\* client that numbers them from its checkpoint on takes for granted, and as
\* the node, whose API the indexer keeps, serves them.
InOrder ==
  pc = "total" =>
    \A s \in Shard : \A j \in DOMAIN recv[s] :
      recv[s][j] = ckp.receiver_index[s] + (j - 1)

\* What is in the tables reaches a client that keeps asking.
Delivered ==
  \A n \in Count :
    /\ \A s \in Shard : rows[s] >= n ~> ckp.receiver_index[s] >= n
    /\ nulls >= n ~> ckp.sender_index >= n
=============================================================================
