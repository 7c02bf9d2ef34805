--------------------------- MODULE RelayerProofs ---------------------------
(***************************************************************************)
(* Relayer: for any number of Dapps, threads, connections and calls, the   *)
(* node executes a relayed call at most once, and the gauges and counters  *)
(* of IndexerMiddleware say what is going on.                              *)
(*                                                                         *)
(* AtMostOnce is not inductive: that a request which the node has yet to   *)
(* execute was never executed, and that an answer on its way is of a call  *)
(* that was, has to be known of `inbox` and `answers` at every step.       *)
(***************************************************************************)
EXTENDS Relayer, FiniteSetTheorems, TLAPS

CallRecord == [conn : Conn, method : Method, state : {"busy", "ok", "err"}]

\* The part of TypeOK that the argument needs.
CallTypes ==
  /\ calls \in Seq(CallRecord)
  /\ runs \in Seq(Nat)
  /\ Len(runs) = Len(calls)
  /\ inbox \subseteq DOMAIN calls
  /\ answers \subseteq DOMAIN calls

\* What a request in the inbox, and an answer on its way, say of the call.
UnderWay ==
  \A i \in DOMAIN calls :
    /\ i \in inbox => calls[i].method = "relayed" /\ runs[i] = 0
    /\ i \in answers => runs[i] = 1

IInv == CallTypes /\ UnderWay /\ AtMostOnce

callVars == <<calls, inbox, answers, runs>>

\* A step that touches none of these variables keeps the invariant.
LEMMA StepElsewhere ==
  ASSUME IInv, UNCHANGED callVars
  PROVE  IInv'
  BY DEF IInv, CallTypes, UnderWay, AtMostOnce, callVars

\* What Return does to the sequence of calls.
LEMMA ReturnCall ==
  ASSUME CallTypes, NEW i \in DOMAIN calls, NEW success \in BOOLEAN,
         Return(i, success)
  PROVE  /\ calls' \in Seq(CallRecord)
         /\ Len(calls') = Len(calls)
         /\ DOMAIN calls' = DOMAIN calls
         /\ \A j \in DOMAIN calls : calls'[j].method = calls[j].method
         /\ \A j \in DOMAIN calls : j # i => calls'[j] = calls[j]
         /\ calls'[i].state = IF success THEN "ok" ELSE "err"
  <1>1. PICK s \in {"ok", "err"} :
          /\ s = IF success THEN "ok" ELSE "err"
          /\ calls' = [calls EXCEPT ![i].state = s]
    BY DEF Return
  <1> DEFINE call == [calls[i] EXCEPT !.state = s]
  <1>2. calls \in Seq(CallRecord) /\ calls[i] \in CallRecord
    BY DEF CallTypes
  <1>3. /\ call \in CallRecord
        /\ call.method = calls[i].method
        /\ call.state = s
    BY <1>2 DEF CallRecord
  <1>4. calls' = [calls EXCEPT ![i] = call]
    BY <1>1
  <1> HIDE DEF call
  <1>5. /\ calls' \in Seq(CallRecord)
        /\ Len(calls') = Len(calls)
        /\ DOMAIN calls' = DOMAIN calls
        /\ calls'[i] = call
        /\ \A j \in DOMAIN calls : j # i => calls'[j] = calls[j]
    BY <1>2, <1>3, <1>4
  <1> QED
    BY <1>1, <1>3, <1>5

\* A call returns, and with success only if it is not relayed or its answer
\* has come; nothing else happens to the requests of the others.
LEMMA ReturnKeeps ==
  ASSUME IInv, NEW i \in Busy, NEW success \in BOOLEAN, Return(i, success),
         inbox' = inbox, answers' \subseteq answers, runs' = runs,
         success /\ calls[i].method = "relayed" => i \in answers
  PROVE  IInv'
  <1>1. i \in DOMAIN calls
    BY DEF Busy
  <1>2. /\ calls' \in Seq(CallRecord)
        /\ Len(calls') = Len(calls)
        /\ DOMAIN calls' = DOMAIN calls
        /\ \A j \in DOMAIN calls : calls'[j].method = calls[j].method
        /\ \A j \in DOMAIN calls : j # i => calls'[j] = calls[j]
        /\ calls'[i].state = IF success THEN "ok" ELSE "err"
    BY <1>1, ReturnCall DEF IInv
  <1>3. CallTypes'
    BY <1>2 DEF IInv, CallTypes
  <1>4. UnderWay'
    BY <1>2 DEF IInv, UnderWay
  <1>5. AtMostOnce'
    <2> SUFFICES ASSUME NEW j \in DOMAIN calls
                 PROVE  /\ runs[j] <= IF calls[j].method = "relayed" THEN 1 ELSE 0
                        /\ calls[j].method = "relayed" /\ calls'[j].state = "ok"
                             => runs[j] = 1
      BY <1>2 DEF AtMostOnce
    <2>1. CASE j = i
      BY <1>2, <2>1 DEF IInv, AtMostOnce, UnderWay
    <2>2. CASE j # i
      BY <1>2, <2>2 DEF IInv, AtMostOnce
    <2> QED
      BY <2>1, <2>2
  <1> QED
    BY <1>3, <1>4, <1>5 DEF IInv

\* A new call has not been executed, and is in the inbox only if it is
\* relayed.
LEMMA ReceiveKeeps ==
  ASSUME IInv, NEW c \in Conn, NEW m \in Method, Receive(c, m)
  PROVE  IInv'
  <1> DEFINE n == Len(calls) + 1
             call == [conn |-> c, method |-> m, state |-> "busy"]
  <1>1. /\ calls \in Seq(CallRecord)
        /\ runs \in Seq(Nat)
        /\ Len(runs) = Len(calls)
    BY DEF IInv, CallTypes
  <1>2. call \in CallRecord
    BY DEF CallRecord
  <1>3. calls' = Append(calls, call) /\ runs' = Append(runs, 0)
    BY DEF Receive
  <1>4. /\ calls' \in Seq(CallRecord)
        /\ Len(calls') = n
        /\ DOMAIN calls' = DOMAIN calls \cup {n}
        /\ n \notin DOMAIN calls
        /\ \A j \in DOMAIN calls : calls'[j] = calls[j]
        /\ calls'[n] = call
    BY <1>1, <1>2, <1>3
  <1>5. /\ runs' \in Seq(Nat)
        /\ Len(runs') = n
        /\ \A j \in DOMAIN calls : runs'[j] = runs[j]
        /\ runs'[n] = 0
    BY <1>1, <1>3
  <1>6. /\ inbox' \subseteq inbox \cup {n}
        /\ n \in inbox' => m = "relayed"
        /\ answers' = answers
    BY <1>4 DEF Receive, IInv, CallTypes
  <1> HIDE DEF n
  <1>7. CallTypes'
    BY <1>4, <1>5, <1>6 DEF IInv, CallTypes
  <1>8. UnderWay'
    BY <1>4, <1>5, <1>6 DEF IInv, CallTypes, UnderWay
  <1>9. AtMostOnce'
    BY <1>4, <1>5 DEF IInv, AtMostOnce
  <1> QED
    BY <1>7, <1>8, <1>9 DEF IInv

\* The node takes a request out of the inbox when it executes it.
LEMMA NodeKeeps ==
  ASSUME IInv, NEW i, NodeExecutes(i)
  PROVE  IInv'
  <1>1. /\ i \in inbox
        /\ inbox' = inbox \ {i}
        /\ answers' \subseteq answers \cup {i}
        /\ calls' = calls
        /\ runs' = [runs EXCEPT ![i] = @ + 1]
    BY DEF NodeExecutes
  <1>2. /\ i \in DOMAIN calls
        /\ i \in DOMAIN runs
        /\ calls[i].method = "relayed"
        /\ runs[i] = 0
    BY <1>1 DEF IInv, CallTypes, UnderWay
  <1>3. /\ runs' \in Seq(Nat)
        /\ Len(runs') = Len(runs)
        /\ runs'[i] = 1
        /\ \A j \in DOMAIN calls : j # i => runs'[j] = runs[j]
    BY <1>1, <1>2 DEF IInv, CallTypes
  <1>4. CallTypes'
    BY <1>1, <1>2, <1>3 DEF IInv, CallTypes
  <1>5. UnderWay'
    BY <1>1, <1>2, <1>3 DEF IInv, UnderWay
  <1>6. AtMostOnce'
    BY <1>1, <1>2, <1>3 DEF IInv, AtMostOnce
  <1> QED
    BY <1>4, <1>5, <1>6 DEF IInv

\* A call that ends keeps the invariant, however it ends.
LEMMA FinishKeeps ==
  ASSUME IInv, NEW i, Finish(i)
  PROVE  IInv'
  <1>1. CASE RelayAnswered(i)
    <2>1. PICK success \in BOOLEAN : Return(i, success)
      BY <1>1 DEF RelayAnswered
    <2>2. /\ i \in Busy
          /\ i \in answers
          /\ inbox' = inbox /\ answers' \subseteq answers /\ runs' = runs
      BY <1>1 DEF RelayAnswered
    <2> QED
      BY <2>1, <2>2, ReturnKeeps
  <1>2. CASE RelayTimesOut(i)
    <2>1. /\ i \in Busy /\ Return(i, FALSE)
          /\ inbox' = inbox /\ answers' \subseteq answers /\ runs' = runs
      BY <1>2 DEF RelayTimesOut
    <2> QED
      BY <2>1, ReturnKeeps
  <1>3. CASE ServeLocal(i) \/ SubscriptionReturns(i)
    <2>1. PICK success \in BOOLEAN : Return(i, success)
      BY <1>3 DEF ServeLocal, SubscriptionReturns
    <2>2. /\ i \in Busy /\ calls[i].method # "relayed"
          /\ inbox' = inbox /\ answers' \subseteq answers /\ runs' = runs
      BY <1>3 DEF ServeLocal, SubscriptionReturns, link
    <2> QED
      BY <2>1, <2>2, ReturnKeeps
  <1>4. CASE Reject(i)
    <2>1. /\ i \in Busy /\ Return(i, FALSE)
          /\ inbox' = inbox /\ answers' \subseteq answers /\ runs' = runs
      BY <1>4 DEF Reject, link
    <2> QED
      BY <2>1, ReturnKeeps
  <1> QED
    BY <1>1, <1>2, <1>3, <1>4 DEF Finish

\* Every step of the server, the Dapps and the node keeps the invariant.
LEMMA NextKeeps ==
  ASSUME IInv, [Next]_vars
  PROVE  IInv'
  <1>1. ASSUME NEW c \in Conn, Connect(c) \/ Refuse(c) \/ Disconnect(c)
        PROVE  IInv'
    <2>1. UNCHANGED callVars
      BY <1>1 DEF Connect, Refuse, Disconnect, link, callVars
    <2> QED
      BY <2>1, StepElsewhere
  <1>2. CASE DmcLost
    BY <1>2 DEF DmcLost, IInv, CallTypes, UnderWay, AtMostOnce
  <1>3. CASE UNCHANGED vars
    BY <1>3, StepElsewhere DEF vars, callVars
  <1> QED
    BY <1>1, <1>2, <1>3, ReceiveKeeps, FinishKeeps, NodeKeeps DEF Next

-----------------------------------------------------------------------------
\* The node executes a relayed call at most once, and exactly once if the Dapp
\* is told that it succeeded: whatever times out, comes late or is lost, the
\* methods of MantaRpcRelayServer make their request once.
THEOREM AtMostOnceCorrect == Spec => []AtMostOnce
  <1>1. Init => IInv
    BY DEF Init, IInv, CallTypes, UnderWay, AtMostOnce
  <1>2. IInv /\ [Next]_vars => IInv'
    BY NextKeeps
  <1>3. IInv => AtMostOnce
    BY DEF IInv
  <1> QED
    BY <1>1, <1>2, <1>3, PTL DEF Spec

-----------------------------------------------------------------------------
(***************************************************************************)
(* The gauges and counters.  Each is the size of a set of calls or of      *)
(* connections, and every step adds one element to that set, removes one   *)
(* from it or leaves it alone.                                             *)
(***************************************************************************)
OpenConns == {c \in Conn : conns[c] = "open"}

Counts ==
  /\ REQ_ON_THE_WAY \in [Method -> Nat]
  /\ TOTAL_RELAYING_COUNTER \in [Method \X BOOLEAN -> Nat]
  /\ \A m \in Method :
       /\ REQ_ON_THE_WAY[m] = Cardinality(CallsIn(m, {"busy"}))
       /\ TOTAL_RELAYING_COUNTER[<<m, TRUE>>] = Cardinality(CallsIn(m, {"ok"}))
       /\ TOTAL_RELAYING_COUNTER[<<m, FALSE>>] = Cardinality(CallsIn(m, {"err"}))

ConnTypes ==
  /\ max_connections \in MaxConnections
  /\ conns \in [Conn -> {"new", "open", "closed", "refused"}]
  /\ dmc \in {"up", "down"}
  /\ Len(calls) <= MaxCalls
  /\ CONN_ON_THE_WAY = Cardinality(OpenConns)

TInv == IInv /\ ConnTypes /\ Counts

LEMMA OpenFinite ==
  IsFiniteSet(OpenConns) /\ Cardinality(OpenConns) \in Nat
BY FS_Subset, FS_CardinalityType, RelayerAssumption DEF OpenConns

LEMMA CallsFinite ==
  ASSUME CallTypes, NEW m, NEW S
  PROVE  IsFiniteSet(CallsIn(m, S)) /\ Cardinality(CallsIn(m, S)) \in Nat
<1>1. DOMAIN calls = 1..Len(calls) /\ Len(calls) \in Nat
  BY DEF CallTypes
<1>2. IsFiniteSet(DOMAIN calls)
  BY <1>1, FS_Interval
<1>3. CallsIn(m, S) \in SUBSET (DOMAIN calls)
  BY DEF CallsIn
<1>4. QED
  BY <1>2, <1>3, FS_Subset, FS_CardinalityType

\* A step that no callback accompanies keeps the counts.
LEMMA SameCounts ==
  ASSUME Counts, UNCHANGED <<calls, REQ_ON_THE_WAY, TOTAL_RELAYING_COUNTER>>
  PROVE  Counts'
<1>1. \A m, S : CallsIn(m, S)' = CallsIn(m, S)
  BY DEF CallsIn
<1>2. QED
  BY <1>1 DEF Counts

\* A connection is opened, refused or closed.
LEMMA ConnStep ==
  ASSUME TInv, NEW c \in Conn, Connect(c) \/ Refuse(c) \/ Disconnect(c)
  PROVE  TInv'
<1>1. UNCHANGED <<max_connections, calls, dmc, inbox, answers, runs, REQ_ON_THE_WAY,
                  TOTAL_RELAYING_COUNTER>>
  BY DEF Connect, Refuse, Disconnect, link, gauges
<1>2. IInv'
  BY <1>1, StepElsewhere DEF TInv, callVars
<1>3. Counts'
  BY <1>1, SameCounts DEF TInv
<1>4. conns \in [Conn -> {"new", "open", "closed", "refused"}]
  BY DEF TInv, ConnTypes
<1>5. conns' \in [Conn -> {"new", "open", "closed", "refused"}]
  BY <1>4 DEF Connect, Refuse, Disconnect
<1>6. CONN_ON_THE_WAY = Cardinality(OpenConns)
  BY DEF TInv, ConnTypes
<1>7. CONN_ON_THE_WAY' = Cardinality(OpenConns')
  <2>1. CASE Connect(c)
    <3>1. OpenConns' = OpenConns \cup {c} /\ c \notin OpenConns
      BY <1>4, <2>1 DEF Connect, OpenConns
    <3>2. Cardinality(OpenConns \cup {c}) = Cardinality(OpenConns) + 1
      BY <3>1, OpenFinite, FS_AddElement
    <3>3. QED
      BY <1>6, <2>1, <3>1, <3>2 DEF Connect, on_connect
  <2>2. CASE Refuse(c)
    <3>1. OpenConns' = OpenConns
      BY <1>4, <2>2 DEF Refuse, OpenConns
    <3>2. QED
      BY <1>6, <2>2, <3>1 DEF Refuse, gauges
  <2>3. CASE Disconnect(c)
    <3>1. OpenConns' = OpenConns \ {c} /\ c \in OpenConns
      BY <1>4, <2>3 DEF Disconnect, OpenConns
    <3>2. Cardinality(OpenConns \ {c}) = Cardinality(OpenConns) - 1
      BY <3>1, OpenFinite, FS_RemoveElement
    <3>3. QED
      BY <1>6, <2>3, <3>1, <3>2 DEF Disconnect, on_disconnect
  <2>4. QED
    BY <2>1, <2>2, <2>3
<1>8. ConnTypes'
  BY <1>1, <1>5, <1>7 DEF TInv, ConnTypes
<1>9. QED
  BY <1>2, <1>3, <1>8 DEF TInv

LEMMA ReceiveStep ==
  ASSUME TInv, NEW c \in Conn, NEW m \in Method, Receive(c, m)
  PROVE  TInv'
<1> DEFINE n == Len(calls) + 1
           call == [conn |-> c, method |-> m, state |-> "busy"]
<1>1. IInv'
  BY ReceiveKeeps DEF TInv
<1>2. calls \in Seq(CallRecord) /\ call \in CallRecord
  BY DEF TInv, IInv, CallTypes, CallRecord
<1>3. /\ calls' = Append(calls, call) /\ Len(calls) < MaxCalls
      /\ REQ_ON_THE_WAY' = [REQ_ON_THE_WAY EXCEPT ![m] = @ + 1]
      /\ UNCHANGED <<max_connections, conns, dmc, CONN_ON_THE_WAY, TOTAL_RELAYING_COUNTER>>
  BY DEF Receive, on_call
<1>4. /\ Len(calls') = n
      /\ DOMAIN calls' = DOMAIN calls \cup {n}
      /\ n \notin DOMAIN calls
      /\ \A j \in DOMAIN calls : calls'[j] = calls[j]
      /\ calls'[n].method = m /\ calls'[n].state = "busy"
  BY <1>2, <1>3
<1>5. ConnTypes'
  <2>1. Len(calls') <= MaxCalls
    BY <1>2, <1>3, <1>4, RelayerAssumption
  <2>2. OpenConns' = OpenConns
    BY <1>3 DEF OpenConns
  <2>3. QED
    BY <1>3, <2>1, <2>2 DEF TInv, ConnTypes
<1> HIDE DEF n, call
<1>6. /\ CallsIn(m, {"busy"})' = CallsIn(m, {"busy"}) \cup {n}
      /\ n \notin CallsIn(m, {"busy"})
      /\ \A k \in Method \ {m} : CallsIn(k, {"busy"})' = CallsIn(k, {"busy"})
      /\ \A k \in Method : /\ CallsIn(k, {"ok"})' = CallsIn(k, {"ok"})
                            /\ CallsIn(k, {"err"})' = CallsIn(k, {"err"})
  BY <1>4 DEF CallsIn
<1>7. Cardinality(CallsIn(m, {"busy"}) \cup {n}) = Cardinality(CallsIn(m, {"busy"})) + 1
  <2>1. IsFiniteSet(CallsIn(m, {"busy"}))
    BY CallsFinite DEF TInv, IInv
  <2>2. QED
    BY <1>6, <2>1, FS_AddElement
<1>8. Counts'
  <2>1. /\ REQ_ON_THE_WAY' \in [Method -> Nat]
        /\ REQ_ON_THE_WAY'[m] = REQ_ON_THE_WAY[m] + 1
        /\ \A k \in Method \ {m} : REQ_ON_THE_WAY'[k] = REQ_ON_THE_WAY[k]
    BY <1>3 DEF TInv, Counts
  <2>2. REQ_ON_THE_WAY'[m] = Cardinality(CallsIn(m, {"busy"})')
    BY <1>6, <1>7, <2>1 DEF TInv, Counts
  <2>3. \A k \in Method : REQ_ON_THE_WAY'[k] = Cardinality(CallsIn(k, {"busy"})')
    BY <1>6, <2>1, <2>2 DEF TInv, Counts
  <2>4. QED
    BY <1>3, <1>6, <2>1, <2>3 DEF TInv, Counts
<1>9. QED
  BY <1>1, <1>5, <1>8 DEF TInv

\* A call leaves the calls that have not returned, and joins those that have
\* with its result.
LEMMA ReturnCounts ==
  ASSUME TInv, NEW i \in Busy, NEW success \in BOOLEAN, Return(i, success)
  PROVE  Counts'
<1>1. i \in DOMAIN calls /\ calls[i].state = "busy"
  BY DEF Busy
<1>2. PICK m \in Method : m = calls[i].method
  <2>1. calls[i] \in CallRecord
    BY <1>1 DEF TInv, IInv, CallTypes
  <2>2. QED
    BY <2>1 DEF CallRecord
<1>3. PICK state \in {"ok", "err"} : state = IF success THEN "ok" ELSE "err"
  OBVIOUS
<1>4. /\ DOMAIN calls' = DOMAIN calls
      /\ \A j \in DOMAIN calls : calls'[j].method = calls[j].method
      /\ \A j \in DOMAIN calls : j # i => calls'[j] = calls[j]
      /\ calls'[i].state = state
  BY <1>1, <1>3, ReturnCall DEF TInv, IInv
<1>5. /\ TOTAL_RELAYING_COUNTER' =
           [TOTAL_RELAYING_COUNTER EXCEPT ![<<m, success>>] = @ + 1]
      /\ REQ_ON_THE_WAY' = [REQ_ON_THE_WAY EXCEPT ![m] = @ - 1]
  BY <1>2 DEF Return, on_result
<1>6. /\ i \in CallsIn(m, {"busy"})
      /\ CallsIn(m, {"busy"})' = CallsIn(m, {"busy"}) \ {i}
      /\ \A k \in Method \ {m} : CallsIn(k, {"busy"})' = CallsIn(k, {"busy"})
  BY <1>1, <1>2, <1>4 DEF CallsIn
<1>7. /\ i \notin CallsIn(m, {state})
      /\ CallsIn(m, {state})' = CallsIn(m, {state}) \cup {i}
  BY <1>1, <1>2, <1>4 DEF CallsIn
<1>8. \A k \in Method, t \in {"ok", "err"} :
        k # m \/ t # state => CallsIn(k, {t})' = CallsIn(k, {t})
  BY <1>1, <1>2, <1>4 DEF CallsIn
<1>9. /\ Cardinality(CallsIn(m, {"busy"})') = Cardinality(CallsIn(m, {"busy"})) - 1
      /\ Cardinality(CallsIn(m, {"busy"})') \in Nat
  <2>1. IsFiniteSet(CallsIn(m, {"busy"}))
    BY CallsFinite DEF TInv, IInv
  <2>2. /\ IsFiniteSet(CallsIn(m, {"busy"}) \ {i})
        /\ Cardinality(CallsIn(m, {"busy"}) \ {i}) = Cardinality(CallsIn(m, {"busy"})) - 1
    BY <1>6, <2>1, FS_RemoveElement
  <2>3. Cardinality(CallsIn(m, {"busy"}) \ {i}) \in Nat
    BY <2>2, FS_CardinalityType
  <2>4. QED
    BY <1>6, <2>2, <2>3
<1>10. Cardinality(CallsIn(m, {state})') = Cardinality(CallsIn(m, {state})) + 1
  <2>1. IsFiniteSet(CallsIn(m, {state}))
    BY CallsFinite DEF TInv, IInv
  <2>2. QED
    BY <1>7, <2>1, FS_AddElement
<1>11. /\ REQ_ON_THE_WAY' \in [Method -> Nat]
       /\ \A k \in Method : REQ_ON_THE_WAY'[k] = Cardinality(CallsIn(k, {"busy"})')
  <2>1. /\ REQ_ON_THE_WAY \in [Method -> Nat]
        /\ \A k \in Method : REQ_ON_THE_WAY[k] = Cardinality(CallsIn(k, {"busy"}))
    BY DEF TInv, Counts
  <2>2. REQ_ON_THE_WAY[m] - 1 = Cardinality(CallsIn(m, {"busy"})')
    BY <1>9, <2>1
  <2>3. REQ_ON_THE_WAY[m] - 1 \in Nat
    BY <1>9, <2>2
  <2>4. /\ REQ_ON_THE_WAY' \in [Method -> Nat]
        /\ REQ_ON_THE_WAY'[m] = REQ_ON_THE_WAY[m] - 1
        /\ \A k \in Method \ {m} : REQ_ON_THE_WAY'[k] = REQ_ON_THE_WAY[k]
    BY <1>5, <2>1, <2>3
  <2>5. QED
    BY <1>6, <2>1, <2>2, <2>4
<1> DEFINE T == TOTAL_RELAYING_COUNTER
<1>12. /\ T \in [Method \X BOOLEAN -> Nat]
       /\ \A k \in Method : /\ T[<<k, TRUE>>] = Cardinality(CallsIn(k, {"ok"}))
                             /\ T[<<k, FALSE>>] = Cardinality(CallsIn(k, {"err"}))
  BY DEF TInv, Counts
<1>13. /\ T' \in [Method \X BOOLEAN -> Nat]
       /\ T'[<<m, success>>] = T[<<m, success>>] + 1
       /\ \A k \in Method, b \in BOOLEAN :
            k # m \/ b # success => T'[<<k, b>>] = T[<<k, b>>]
  BY <1>5, <1>12
<1>14. ASSUME NEW k \in Method
       PROVE  /\ T'[<<k, TRUE>>] = Cardinality(CallsIn(k, {"ok"})')
              /\ T'[<<k, FALSE>>] = Cardinality(CallsIn(k, {"err"})')
  <2>1. CASE k # m
    BY <1>8, <1>12, <1>13, <2>1
  <2>2. CASE k = m /\ success = TRUE
    <3>1. state = "ok"
      BY <1>3, <2>2
    <3>2. T'[<<m, TRUE>>] = T[<<m, TRUE>>] + 1 /\ T'[<<m, FALSE>>] = T[<<m, FALSE>>]
      BY <1>13, <2>2
    <3>3. QED
      BY <1>8, <1>10, <1>12, <2>2, <3>1, <3>2
  <2>3. CASE k = m /\ success = FALSE
    <3>1. state = "err"
      BY <1>3, <2>3
    <3>2. T'[<<m, FALSE>>] = T[<<m, FALSE>>] + 1 /\ T'[<<m, TRUE>>] = T[<<m, TRUE>>]
      BY <1>13, <2>3
    <3>3. QED
      BY <1>8, <1>10, <1>12, <2>3, <3>1, <3>2
  <2>4. QED
    BY <2>1, <2>2, <2>3
<1>15. QED
  BY <1>11, <1>13, <1>14 DEF Counts

LEMMA FinishStep ==
  ASSUME TInv, NEW i, Finish(i)
  PROVE  TInv'
<1>1. IInv'
  BY FinishKeeps DEF TInv
<1>2. PICK success \in BOOLEAN : Return(i, success)
  BY DEF Finish, RelayAnswered, RelayTimesOut, ServeLocal, Reject, SubscriptionReturns
<1>3. i \in Busy /\ UNCHANGED <<max_connections, conns, dmc, CONN_ON_THE_WAY>>
  BY DEF Finish, RelayAnswered, RelayTimesOut, ServeLocal, Reject, SubscriptionReturns, link
<1>4. Counts'
  BY <1>2, <1>3, ReturnCounts
<1>5. Len(calls') = Len(calls)
  <2>1. i \in DOMAIN calls
    BY <1>3 DEF Busy
  <2>2. QED
    BY <1>2, <2>1, ReturnCall DEF TInv, IInv
<1>6. ConnTypes'
  BY <1>3, <1>5 DEF TInv, ConnTypes, OpenConns
<1>7. QED
  BY <1>1, <1>4, <1>6 DEF TInv

\* The node, the loss of the client and stuttering touch no gauge.
LEMMA UncountedStep ==
  ASSUME TInv, IInv', UNCHANGED <<max_connections, conns, calls, gauges>>,
         dmc' \in {"up", "down"}
  PROVE  TInv'
<1>1. Counts'
  BY SameCounts DEF TInv, gauges
<1>2. ConnTypes'
  BY DEF TInv, ConnTypes, OpenConns, gauges
<1>3. QED
  BY <1>1, <1>2 DEF TInv

\* Every variable has its type; CONN_ON_THE_WAY, REQ_ON_THE_WAY and
\* TOTAL_RELAYING_COUNTER are the numbers of open connections, of calls that
\* have not returned and of calls that have, per method and result.
THEOREM TypeCorrect == Spec => []TypeOK
<1>1. Init => TInv
  <2> SUFFICES ASSUME Init PROVE TInv
    OBVIOUS
  <2>1. IInv
    BY DEF Init, IInv, CallTypes, UnderWay, AtMostOnce
  <2>2. Cardinality({}) = 0
    BY FS_EmptySet
  <2>3. OpenConns = {}
    BY DEF Init, OpenConns
  <2>4. ConnTypes
    BY <2>2, <2>3, RelayerAssumption DEF Init, ConnTypes
  <2>5. \A m, S : CallsIn(m, S) = {}
    BY DEF Init, CallsIn
  <2>6. Counts
    BY <2>2, <2>5 DEF Init, Counts
  <2>7. QED
    BY <2>1, <2>4, <2>6 DEF TInv
<1>2. TInv /\ [Next]_vars => TInv'
  <2> SUFFICES ASSUME TInv, [Next]_vars PROVE TInv'
    OBVIOUS
  <2>1. IInv' /\ dmc \in {"up", "down"}
    BY NextKeeps DEF TInv, ConnTypes
  <2>2. ASSUME NEW c \in Conn, Connect(c) \/ Refuse(c) \/ Disconnect(c) PROVE TInv'
    BY <2>2, ConnStep
  <2>3. ASSUME NEW c \in Conn, NEW m \in Method, Receive(c, m) PROVE TInv'
    BY <2>3, ReceiveStep
  <2>4. ASSUME NEW i \in 1..MaxCalls, Finish(i) PROVE TInv'
    BY <2>4, FinishStep
  <2>5. ASSUME NEW i \in 1..MaxCalls, NodeExecutes(i) PROVE TInv'
    BY <2>1, <2>5, UncountedStep DEF NodeExecutes
  <2>6. CASE DmcLost
    BY <2>1, <2>6, UncountedStep DEF DmcLost
  <2>7. CASE UNCHANGED vars
    BY <2>1, <2>7, UncountedStep DEF vars, gauges
  <2>8. QED
    BY <2>2, <2>3, <2>4, <2>5, <2>6, <2>7 DEF Next
<1>3. TInv => TypeOK
  BY DEF TInv, IInv, CallTypes, ConnTypes, Counts, TypeOK, CallRecord, OpenConns
<1>4. QED
  BY <1>1, <1>2, <1>3, PTL DEF Spec
=============================================================================
