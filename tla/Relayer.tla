------------------------------ MODULE Relayer ------------------------------
(***************************************************************************)
(* The server as the Dapps see it: their connections and calls, the        *)
(* methods that MantaRpcRelayServer (relayer/relay_server.rs) relays to    *)
(* the full node over one shared client, and the callbacks by which        *)
(* IndexerMiddleware (monitoring.rs) counts them.                          *)
(*                                                                         *)
(* The server runs one task per connection, which drives all calls of that *)
(* connection.  A subscription method blocks that task, and the thread it  *)
(* runs on, until the worker of SubClientPool has answered (CallsReturn    *)
(* there); while all threads are blocked nobody is served.  A call whose   *)
(* Dapp has gone is still driven to its end.                               *)
(*                                                                         *)
(* What a call asks and what comes back are left out: a call is told apart *)
(* by its number.                                                          *)
(***************************************************************************)
EXTENDS Naturals, Sequences, FiniteSets

CONSTANTS
  Conn,            (* connections that Dapps try to open                    *)
  WorkerThreads,   (* threads of the server's runtime, 8 in the code        *)
  MaxConnections,  (* the values that max_connections may have              *)
  MaxCalls         (* bound: calls in one behaviour                         *)

ASSUME RelayerAssumption ==
  /\ IsFiniteSet(Conn)
  /\ WorkerThreads \in Nat \ {0}
  /\ MaxConnections \subseteq Nat
  /\ MaxCalls \in Nat

(***************************************************************************)
(* The methods of the server by how they are served: relayed by `dmc`,     *)
(* relayed as a subscription, answered by the indexer itself               *)
(* (pull_ledger_diff, rpc_methods), or not there.                          *)
(***************************************************************************)
Method == {"relayed", "subscription", "local", "unknown"}

VARIABLES
  max_connections,  (* of the server's configuration                        *)
  conns,   (* conns[c]: "new", "open", "closed" or "refused"                *)
  calls,   (* the calls received: whose, of what, and "busy", "ok" or "err" *)
  dmc,     (* the shared client: "up" or "down"                             *)
  inbox,   (* calls whose request the node may yet execute                  *)
  answers, (* calls whose answer is on its way back                         *)
  runs,    (* history: runs[i]: how often the node executed call i          *)
  CONN_ON_THE_WAY,         (* gauge, and conn_num with it                   *)
  REQ_ON_THE_WAY,          (* gauge by method                               *)
  TOTAL_RELAYING_COUNTER   (* counter by method and success                 *)

link == <<dmc, inbox, answers, runs>>
gauges == <<CONN_ON_THE_WAY, REQ_ON_THE_WAY, TOTAL_RELAYING_COUNTER>>
vars == <<max_connections, conns, calls, dmc, inbox, answers, runs,
          CONN_ON_THE_WAY, REQ_ON_THE_WAY, TOTAL_RELAYING_COUNTER>>

\* MantaRpcRelayServer::new: the service only starts with a connected client.
Init ==
  /\ max_connections \in MaxConnections
  /\ conns = [c \in Conn |-> "new"]
  /\ calls = << >>
  /\ dmc = "up"
  /\ inbox = {}
  /\ answers = {}
  /\ runs = << >>
  /\ CONN_ON_THE_WAY = 0
  /\ REQ_ON_THE_WAY = [m \in Method |-> 0]
  /\ TOTAL_RELAYING_COUNTER = [key \in Method \X BOOLEAN |-> 0]

Busy == {i \in DOMAIN calls : calls[i].state = "busy"}

\* The connections whose task a subscription call blocks, with its thread.
Blocked == {calls[i].conn : i \in {j \in Busy : calls[j].method = "subscription"}}

\* The task of c can be run.
CanRun(c) == c \notin Blocked /\ Cardinality(Blocked) < WorkerThreads

\* The connections whose task has not ended.
Held == {c \in Conn : conns[c] = "open" \/ \E i \in Busy : calls[i].conn = c}

-----------------------------------------------------------------------------
(***************************************************************************)
(* IndexerMiddleware.  The server calls on_connect and on_disconnect once  *)
(* per accepted connection, on_call and on_result around every call.       *)
(***************************************************************************)
on_connect == CONN_ON_THE_WAY' = CONN_ON_THE_WAY + 1

on_disconnect == CONN_ON_THE_WAY' = CONN_ON_THE_WAY - 1

on_call(method) == REQ_ON_THE_WAY' = [REQ_ON_THE_WAY EXCEPT ![method] = @ + 1]

\* Mutant: a call that failed is not taken off the gauge.
on_result_success(method, success) ==
  /\ TOTAL_RELAYING_COUNTER' =
       [TOTAL_RELAYING_COUNTER EXCEPT ![<<method, success>>] = @ + 1]
  /\ REQ_ON_THE_WAY' =
       [REQ_ON_THE_WAY EXCEPT ![method] = IF success THEN @ - 1 ELSE @]

on_result(method, success) ==
  /\ TOTAL_RELAYING_COUNTER' =
       [TOTAL_RELAYING_COUNTER EXCEPT ![<<method, success>>] = @ + 1]
  /\ REQ_ON_THE_WAY' = [REQ_ON_THE_WAY EXCEPT ![method] = @ - 1]

-----------------------------------------------------------------------------
(***************************************************************************)
(* Connections.                                                            *)
(***************************************************************************)
Connect(c) ==
  /\ conns[c] = "new"
  /\ Cardinality(Held) < max_connections
  /\ conns' = [conns EXCEPT ![c] = "open"]
  /\ on_connect
  /\ UNCHANGED <<max_connections, calls, link, REQ_ON_THE_WAY,
                 TOTAL_RELAYING_COUNTER>>

Refuse(c) ==
  /\ conns[c] = "new"
  /\ Cardinality(Held) >= max_connections
  /\ conns' = [conns EXCEPT ![c] = "refused"]
  /\ UNCHANGED <<max_connections, calls, link, gauges>>

\* The Dapp is gone; its calls go on.
Disconnect(c) ==
  /\ conns[c] = "open"
  /\ CanRun(c)
  /\ conns' = [conns EXCEPT ![c] = "closed"]
  /\ on_disconnect
  /\ UNCHANGED <<max_connections, calls, link, REQ_ON_THE_WAY,
                 TOTAL_RELAYING_COUNTER>>

-----------------------------------------------------------------------------
(***************************************************************************)
(* Calls.                                                                  *)
(***************************************************************************)
\* A call arrives; a relayed method hands its request to the client.
Receive(c, method) ==
  /\ conns[c] = "open"
  /\ CanRun(c)
  /\ Len(calls) < MaxCalls
  /\ calls' = Append(calls, [conn |-> c, method |-> method, state |-> "busy"])
  /\ runs' = Append(runs, 0)
  /\ inbox' = IF method = "relayed" /\ dmc = "up"
                THEN inbox \cup {Len(calls')} ELSE inbox
  /\ on_call(method)
  /\ UNCHANGED <<max_connections, conns, dmc, answers, CONN_ON_THE_WAY,
                 TOTAL_RELAYING_COUNTER>>

\* The method returns, with or without an error, and the server goes on to
\* on_result.
Return(i, success) ==
  /\ calls' = [calls EXCEPT ![i].state = IF success THEN "ok" ELSE "err"]
  /\ on_result(calls[i].method, success)

\* dmc.request(..).await? gets the answer of the node, a result or an error.
RelayAnswered(i) ==
  /\ i \in Busy \cap answers
  /\ CanRun(calls[i].conn)
  /\ answers' = answers \ {i}
  /\ \E success \in BOOLEAN : Return(i, success)
  /\ UNCHANGED <<max_connections, conns, dmc, inbox, runs, CONN_ON_THE_WAY>>

\* Mutant: the request is made again.
RelayTimesOutRetry(i) ==
  /\ i \in Busy
  /\ calls[i].method = "relayed"
  /\ CanRun(calls[i].conn)
  /\ answers' = answers \ {i}
  /\ inbox' = inbox \cup {i}
  /\ UNCHANGED <<max_connections, conns, calls, dmc, runs, gauges>>

\* Mutant: the client waits for the answer.
RelayTimesOutNever(i) ==
  /\ i \in Busy
  /\ calls[i].method = "relayed"
  /\ CanRun(calls[i].conn)
  /\ dmc = "down"
  /\ answers' = answers \ {i}
  /\ Return(i, FALSE)
  /\ UNCHANGED <<max_connections, conns, dmc, inbox, runs, CONN_ON_THE_WAY>>

\* The request_timeout of create_ws_client; an answer that comes later is
\* dropped.  A request that a lost client cannot send fails sooner.
RelayTimesOut(i) ==
  /\ i \in Busy
  /\ calls[i].method = "relayed"
  /\ CanRun(calls[i].conn)
  /\ answers' = answers \ {i}
  /\ Return(i, FALSE)
  /\ UNCHANGED <<max_connections, conns, dmc, inbox, runs, CONN_ON_THE_WAY>>

\* The indexer answers by itself.
ServeLocal(i) ==
  /\ i \in Busy
  /\ calls[i].method = "local"
  /\ CanRun(calls[i].conn)
  /\ \E success \in BOOLEAN : Return(i, success)
  /\ UNCHANGED <<max_connections, conns, link, CONN_ON_THE_WAY>>

\* There is no such method.
Reject(i) ==
  /\ i \in Busy
  /\ calls[i].method = "unknown"
  /\ CanRun(calls[i].conn)
  /\ Return(i, FALSE)
  /\ UNCHANGED <<max_connections, conns, link, CONN_ON_THE_WAY>>

\* sub_clients.subscribe returns, on the thread that it has blocked.
SubscriptionReturns(i) ==
  /\ i \in Busy
  /\ calls[i].method = "subscription"
  /\ \E success \in BOOLEAN : Return(i, success)
  /\ UNCHANGED <<max_connections, conns, link, CONN_ON_THE_WAY>>

-----------------------------------------------------------------------------
(***************************************************************************)
(* The full node and the connection to it.  The node may execute a request *)
(* late, or never, and also after the connection is lost.                  *)
(***************************************************************************)
NodeExecutes(i) ==
  /\ i \in inbox
  /\ inbox' = inbox \ {i}
  /\ runs' = [runs EXCEPT ![i] = @ + 1]
  /\ answers' = IF dmc = "up" /\ i \in Busy THEN answers \cup {i} ELSE answers
  /\ UNCHANGED <<max_connections, conns, calls, dmc, gauges>>

\* Nothing ever replaces the client.
DmcLost ==
  /\ dmc = "up"
  /\ dmc' = "down"
  /\ answers' = {}
  /\ UNCHANGED <<max_connections, conns, calls, inbox, runs, gauges>>

-----------------------------------------------------------------------------
Finish(i) ==
  \/ RelayAnswered(i)
  \/ RelayTimesOut(i)
  \/ ServeLocal(i)
  \/ Reject(i)
  \/ SubscriptionReturns(i)

Next ==
  \/ \E c \in Conn :
       \/ Connect(c)
       \/ Refuse(c)
       \/ Disconnect(c)
       \/ \E m \in Method : Receive(c, m)
  \/ \E i \in 1..MaxCalls : Finish(i) \/ NodeExecutes(i)
  \/ DmcLost

Spec == Init /\ [][Next]_vars

\* The runtime keeps polling a task that can run, a subscription call returns
\* (SubClientPool: CallsReturn), a request is answered or times out.  Nothing
\* is assumed of the node.
FairSpec == Spec /\ \A i \in 1..MaxCalls : WF_vars(Finish(i))

-----------------------------------------------------------------------------
(***************************************************************************)
(* Properties.                                                             *)
(***************************************************************************)
CallsIn(method, states) ==
  {i \in DOMAIN calls : calls[i].method = method /\ calls[i].state \in states}

\* Every variable has its type, and the gauges and counters say what is going
\* on: calls that have not returned, calls that have, connections that are
\* open, whatever calls do after their Dapp is gone.
TypeOK ==
  /\ max_connections \in MaxConnections
  /\ conns \in [Conn -> {"new", "open", "closed", "refused"}]
  /\ calls \in Seq([conn : Conn, method : Method, state : {"busy", "ok", "err"}])
  /\ dmc \in {"up", "down"}
  /\ inbox \subseteq DOMAIN calls
  /\ answers \subseteq DOMAIN calls
  /\ runs \in Seq(Nat) /\ Len(runs) = Len(calls) /\ Len(calls) <= MaxCalls
  /\ CONN_ON_THE_WAY = Cardinality({c \in Conn : conns[c] = "open"})
  /\ \A m \in Method :
       /\ REQ_ON_THE_WAY[m] = Cardinality(CallsIn(m, {"busy"}))
       /\ TOTAL_RELAYING_COUNTER[<<m, TRUE>>] = Cardinality(CallsIn(m, {"ok"}))
       /\ TOTAL_RELAYING_COUNTER[<<m, FALSE>>] = Cardinality(CallsIn(m, {"err"}))

\* The node executes a relayed call at most once (an extrinsic is submitted
\* once), and exactly once if the Dapp is told that it succeeded, although
\* requests time out, answers come late and the client is lost.
AtMostOnce ==
  \A i \in DOMAIN calls :
    /\ runs[i] <= IF calls[i].method = "relayed" THEN 1 ELSE 0
    /\ calls[i].method = "relayed" /\ calls[i].state = "ok" => runs[i] = 1

\* Every call comes to an end: neither a node that does not answer, nor the
\* loss of the client, nor subscription calls that block every thread keep it
\* for ever.
EveryCallEnds ==
  \A i \in 1..MaxCalls :
    (i \in DOMAIN calls /\ i \in Busy) ~> (i \in DOMAIN calls /\ i \notin Busy)
=============================================================================
