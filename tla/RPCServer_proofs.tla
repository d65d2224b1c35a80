-------------------------- MODULE RPCServer_proofs --------------------------
(***************************************************************************)
(* What holds of the RPC server for any number of clients, workers and     *)
(* places.                                                                 *)
(***************************************************************************)
EXTENDS RPCServer, FiniteSetTheorems, TLAPS

\* The variables that say who serves which connection stay in their sets.
ServerTypes ==
    /\ status \in [Conn -> Statuses]
    /\ reading \subseteq Conn
    /\ timer \in [Conn -> {"none", "armed", "expired", "aborted"}]
    /\ mQueue \in Seq(Conn)
    /\ worker \in [Worker -> [at : {"idle", "wait", "ended", "parse", "run", "write"},
                              conn : Conn \cup {NoConn}]]
    /\ event \in [at : {"idle", "write", "ended"}, conn : Conn \cup {NoConn}]
    /\ \A w \in Worker : worker[w].at \in {"parse", "run", "write"} <=> worker[w].conn # NoConn
    /\ event.at = "write" <=> event.conn # NoConn

\* The connections that were accepted are the first so many.
AcceptedInOrder == \E k \in 0..Clients : Arrived = 1..k

\* The event thread, the queue and the workers never have one connection
\* together; what tells them apart is mDispatched.
OwnerInv ==
    /\ \A c \in Conn : status[c] = "new" => c \notin reading /\ timer[c] = "none"
    /\ \A c \in reading : status[c] \in {"open", "answered"}
    /\ \A i \in DOMAIN mQueue : /\ status[mQueue[i]] = "dispatched"
                                /\ mQueue[i] # event.conn
                                /\ \A w \in Worker : worker[w].conn # mQueue[i]
    /\ \A i, j \in DOMAIN mQueue : i # j => mQueue[i] # mQueue[j]
    /\ \A w \in Worker : worker[w].conn # NoConn => /\ status[worker[w].conn] = "dispatched"
                                                    /\ worker[w].conn # event.conn
    /\ \A v, w \in Worker : v # w /\ worker[v].conn = worker[w].conn => worker[w].conn = NoConn
    /\ event.conn # NoConn => status[event.conn] \in {"open", "dispatched"}

ServerInv == ServerTypes /\ AcceptedInOrder /\ OwnerInv

-----------------------------------------------------------------------------
(* The next connection *)

\* The acceptor hands out a connection that was not there before, and keeps the
\* order.
LEMMA ArrivingIsNew ==
    ASSUME status \in [Conn -> Statuses], AcceptedInOrder, NEW c \in Conn, Arriving(c),
           status' = [status EXCEPT ![c] = "open"]
    PROVE  status[c] = "new" /\ AcceptedInOrder'
<1>1. PICK k \in 0..Clients : Arrived = 1..k
  BY DEF AcceptedInOrder
<1>2. k \in Nat /\ Clients \in Nat
  BY RPCAssumption
<1>3. Cardinality(1..k) = k
  BY <1>2, FS_Interval
<1>4. c = k + 1
  BY <1>1, <1>3 DEF Arriving
<1>5. status[c] = "new"
  BY <1>1, <1>2, <1>4 DEF Arrived
<1>6. Arrived' = Arrived \cup {c}
  BY <1>5 DEF Arrived
<1>7. Arrived' = 1..(k + 1)
  BY <1>1, <1>2, <1>4, <1>6
<1>8. k + 1 \in 0..Clients
  BY <1>2, <1>4 DEF Conn
<1> QED BY <1>5, <1>7, <1>8 DEF AcceptedInOrder

\* The order is not touched by what happens to connections that arrived.
LEMMA OrderKept ==
    ASSUME AcceptedInOrder, \A c \in Conn : status'[c] = "new" <=> status[c] = "new"
    PROVE  AcceptedInOrder'
  BY DEF AcceptedInOrder, Arrived

-----------------------------------------------------------------------------
(* The invariant *)

LEMMA ServerInit == Init => ServerInv
<1> SUFFICES ASSUME Init PROVE ServerInv
  OBVIOUS
<1>1. ServerTypes
  BY DEF Init, ServerTypes, At, Statuses, NoConn
<1>2. AcceptedInOrder
  <2>1. Arrived = 1..0 /\ 0 \in 0..Clients
    BY RPCAssumption DEF Init, Arrived
  <2> QED BY <2>1 DEF AcceptedInOrder
<1>3. OwnerInv
  BY DEF Init, OwnerInv, At, NoConn
<1> QED BY <1>1, <1>2, <1>3 DEF ServerInv

\* A step after which everybody has what it had, and what was open may be closed.
LEMMA OwnersKept ==
    ASSUME ServerInv, UNCHANGED <<status, reading, mQueue, event>>,
           timer' \in [Conn -> {"none", "armed", "expired", "aborted"}],
           \A c \in Conn : timer[c] = "none" => timer'[c] = "none",
           worker' \in [Worker -> [at : {"idle", "wait", "ended", "parse", "run", "write"},
                                   conn : Conn \cup {NoConn}]],
           \A w \in Worker : /\ worker'[w].conn = worker[w].conn
                             /\ worker'[w].at \in {"parse", "run", "write"} <=>
                                    worker[w].at \in {"parse", "run", "write"}
    PROVE  ServerInv'
<1>1. ServerTypes'
  BY DEF ServerInv, ServerTypes
<1>2. AcceptedInOrder'
  BY OrderKept DEF ServerInv
<1>3. OwnerInv'
  BY DEF ServerInv, OwnerInv, ServerTypes
<1> QED BY <1>1, <1>2, <1>3 DEF ServerInv

LEMMA ServerStep == ServerInv /\ [Next]_vars => ServerInv'
<1> SUFFICES ASSUME ServerInv, [Next]_vars PROVE ServerInv'
  OBVIOUS
<1> USE DEF ServerInv
<1>0. NoConn \notin Conn
  BY DEF NoConn, Conn
<1>1. CASE UNCHANGED vars
  BY <1>1, OwnersKept DEF vars, clients, serving, ServerTypes
<1>2. ASSUME NEW c \in Conn, OnAccept(c) \/ OnAcceptForbidden(c) PROVE ServerInv'
  <2>1. status' = [status EXCEPT ![c] = "open"] /\ Arriving(c) /\ event.at = "idle"
    BY <1>2 DEF OnAccept, OnAcceptForbidden, EventFree
  <2>2. status[c] = "new" /\ AcceptedInOrder'
    BY <2>1, ArrivingIsNew DEF ServerTypes
  <2>3. UNCHANGED <<mQueue, worker>>
    BY <1>2 DEF OnAccept, OnAcceptForbidden
  <2>4. \/ event' = AtOn("write", c) /\ UNCHANGED <<reading, timer>>
        \/ /\ reading' = reading \cup {c} /\ timer' = [timer EXCEPT ![c] = "armed"]
           /\ UNCHANGED event
    BY <1>2 DEF OnAccept, OnAcceptForbidden
  <2>5. ServerTypes'
    <3>1. status' \in [Conn -> Statuses]
      BY <2>1 DEF ServerTypes, Statuses
    <3>2. /\ event' \in [at : {"idle", "write", "ended"}, conn : Conn \cup {NoConn}]
          /\ event'.at = "write" <=> event'.conn # NoConn
      BY <1>0, <2>4 DEF ServerTypes, AtOn
    <3>3. /\ reading' \subseteq Conn
          /\ timer' \in [Conn -> {"none", "armed", "expired", "aborted"}]
      BY <2>4 DEF ServerTypes
    <3> QED BY <2>3, <3>1, <3>2, <3>3 DEF ServerTypes
  <2>6. /\ event.conn = NoConn /\ c \notin reading
        /\ \A w \in Worker : worker[w].conn # c
        /\ \A i \in DOMAIN mQueue : mQueue[i] # c /\ mQueue[i] \in Conn
    BY <1>0, <2>1, <2>2 DEF OwnerInv, ServerTypes
  <2>7. OwnerInv'
    BY <1>0, <2>1, <2>2, <2>3, <2>4, <2>6 DEF OwnerInv, ServerTypes, AtOn
  <2> QED BY <2>2, <2>5, <2>7
<1>3. ASSUME NEW c \in Conn, OnReadClosed(c) PROVE ServerInv'
  <2>1. reading' = reading \ {c} /\ UNCHANGED <<status, timer, mQueue, worker, event>>
    BY <1>3 DEF OnReadClosed, serving
  <2> QED BY <2>1, OrderKept DEF ServerTypes, OwnerInv
<1>4. ASSUME NEW c \in Conn, OnReadError(c) PROVE ServerInv'
  <2>1. /\ reading' = reading \ {c} /\ UNCHANGED <<mQueue, worker, event>>
        /\ timer' = Cancelled(c) /\ status' = [status EXCEPT ![c] = "gone"]
        /\ c \in reading /\ event.at = "idle"
    BY <1>4 DEF OnReadError, serving, EventFree
  <2>2. ServerTypes'
    BY <2>1 DEF ServerTypes, Cancelled, Statuses
  <2>3. status[c] \in {"open", "answered"} /\ event.conn = NoConn
    BY <2>1 DEF OwnerInv, ServerTypes
  <2>4. AcceptedInOrder'
    BY <2>1, <2>3, OrderKept DEF ServerTypes
  <2>5. OwnerInv'
    BY <1>0, <2>1, <2>3 DEF OwnerInv, ServerTypes, Cancelled
  <2> QED BY <2>2, <2>4, <2>5
<1>5. ASSUME NEW c \in Conn, OnReadBad(c) PROVE ServerInv'
  <2>1. /\ reading' = reading \ {c} /\ UNCHANGED <<status, timer, mQueue, worker>>
        /\ event' = AtOn("write", c)
        /\ c \in reading /\ event.at = "idle" /\ ~mClosed(c)
    BY <1>5 DEF OnReadBad, EventFree
  <2>2. ServerTypes'
    BY <1>0, <2>1 DEF ServerTypes, AtOn
  <2>3. status[c] = "open"
    BY <2>1 DEF OwnerInv, mClosed
  <2>4. OwnerInv'
    BY <1>0, <2>1, <2>3 DEF OwnerInv, ServerTypes, AtOn
  <2> QED BY <2>1, <2>2, <2>4, OrderKept
<1>6. ASSUME NEW c \in Conn, Dispatch(c) PROVE ServerInv'
  <2>1. /\ reading' = reading \ {c} /\ timer' = Cancelled(c)
        /\ status' = [status EXCEPT ![c] = "dispatched"]
        /\ c \in reading /\ event.at = "idle" /\ ~mClosed(c)
    BY <1>6 DEF Dispatch, EventFree
  <2>2. status[c] = "open" /\ event.conn = NoConn
    BY <2>1 DEF OwnerInv, ServerTypes, mClosed
  <2>3. AcceptedInOrder'
    BY <2>1, <2>2, OrderKept DEF ServerTypes
  <2>4. /\ \A w \in Worker : worker[w].conn # c
        /\ \A i \in DOMAIN mQueue : mQueue[i] # c /\ mQueue[i] \in Conn
    BY <1>0, <2>2 DEF OwnerInv, ServerTypes
  <2>5. CASE event' = AtOn("write", c) /\ UNCHANGED <<mQueue, worker>>
    <3>1. ServerTypes'
      BY <1>0, <2>1, <2>5 DEF ServerTypes, AtOn, Cancelled, Statuses
    <3>2. OwnerInv'
      BY <1>0, <2>1, <2>2, <2>4, <2>5 DEF OwnerInv, ServerTypes, AtOn, Cancelled
    <3> QED BY <2>3, <3>1, <3>2
  <2>6. CASE /\ mQueue' = Append(mQueue, c) /\ UNCHANGED event
             /\ \/ UNCHANGED worker
                \/ \E w \in Worker : /\ worker[w].at = "wait"
                                     /\ worker' = [worker EXCEPT ![w] = At("idle")]
    <3>1. /\ worker' \in [Worker -> [at : {"idle", "wait", "ended", "parse", "run", "write"},
                                     conn : Conn \cup {NoConn}]]
          /\ \A w \in Worker : /\ worker'[w].conn = worker[w].conn
                               /\ worker'[w].at \in {"parse", "run", "write"} <=>
                                      worker[w].at \in {"parse", "run", "write"}
      <4>1. CASE UNCHANGED worker
        BY <4>1 DEF ServerTypes
      <4>2. ASSUME NEW w \in Worker, worker[w].at = "wait",
                   worker' = [worker EXCEPT ![w] = At("idle")]
            PROVE  <3>1!1 /\ <3>1!2
        <5>1. /\ At("idle").at = "idle" /\ At("idle").conn = NoConn
              /\ At("idle") \in [at : {"idle", "wait", "ended", "parse", "run", "write"},
                                 conn : Conn \cup {NoConn}]
          BY DEF At
        <5>2. worker[w].conn = NoConn
          BY <4>2 DEF ServerTypes
        <5> QED BY <4>2, <5>1, <5>2 DEF ServerTypes
      <4> QED BY <2>6, <4>1, <4>2
    <3>2. ServerTypes'
      BY <2>1, <2>6, <3>1 DEF ServerTypes, Cancelled, Statuses
    <3>3. \A i \in DOMAIN mQueue' : \/ i \in DOMAIN mQueue /\ mQueue'[i] = mQueue[i]
                                    \/ i = Len(mQueue) + 1 /\ mQueue'[i] = c
      BY <2>6 DEF ServerTypes
    <3>4. OwnerInv'
      BY <1>0, <2>1, <2>2, <2>4, <2>6, <3>1, <3>3 DEF OwnerInv, ServerTypes, Cancelled
    <3> QED BY <2>3, <3>2, <3>4
  <2> QED BY <1>6, <2>5, <2>6 DEF Dispatch, EnqueueConnection
<1>7. ASSUME NEW c \in Conn, OnDeadline(c) PROVE ServerInv'
  <2>1. /\ timer' = [timer EXCEPT ![c] = "none"] /\ UNCHANGED <<status, reading, mQueue, worker>>
        /\ event.at = "idle" /\ timer[c] # "none"
    BY <1>7 DEF OnDeadline, EventFree
  <2>2. CASE UNCHANGED event
    BY <2>1, <2>2, OwnersKept DEF ServerTypes
  <2>3. CASE event' = AtOn("write", c) /\ ~mDispatched(c) /\ ~mClosed(c)
    <3>1. ServerTypes'
      BY <1>0, <2>1, <2>3 DEF ServerTypes, AtOn
    <3>2. status[c] = "open"
      BY <2>1, <2>3 DEF OwnerInv, ServerTypes, Statuses, mDispatched, mClosed
    <3>3. OwnerInv'
      BY <1>0, <2>1, <2>3, <3>2 DEF OwnerInv, ServerTypes, AtOn
    <3> QED BY <2>1, <3>1, <3>3, OrderKept
  <2> QED BY <1>7, <2>2, <2>3 DEF OnDeadline
<1>8. CASE RefusalWritten
  <2>1. /\ event.at = "write" /\ event' = At("idle") /\ UNCHANGED <<reading, mQueue, worker>>
        /\ status' = [status EXCEPT ![event.conn] = "answered"]
        /\ timer' = Cancelled(event.conn)
    BY <1>8 DEF RefusalWritten
  <2>2. event.conn \in Conn /\ status[event.conn] \in {"open", "dispatched"}
    BY <2>1 DEF ServerTypes, OwnerInv
  <2>3. ServerTypes'
    BY <2>1, <2>2 DEF ServerTypes, At, Cancelled, Statuses
  <2>4. AcceptedInOrder'
    BY <2>1, <2>2, OrderKept DEF ServerTypes
  <2>5. OwnerInv'
    BY <1>0, <2>1, <2>2 DEF OwnerInv, ServerTypes, At, Cancelled
  <2> QED BY <2>3, <2>4, <2>5
<1>9. CASE EventThreadEnds
  <2>1. /\ event.conn = NoConn /\ event' = At("ended")
        /\ UNCHANGED <<status, reading, timer, mQueue, worker>>
    BY <1>9 DEF EventThreadEnds, clients, ServerTypes
  <2> QED BY <2>1, OrderKept DEF ServerTypes, OwnerInv, At
<1>10. ASSUME NEW c \in Conn, Expire(c) PROVE ServerInv'
  BY <1>10, OwnersKept DEF Expire, serving, ServerTypes
<1>11. ASSUME NEW w \in Worker, Wait(w) \/ WorkerEnds(w) PROVE ServerInv'
  BY <1>11, OwnersKept DEF Wait, WorkerEnds, At, clients, ServerTypes
<1>12. ASSUME NEW w \in Worker, Take(w) PROVE ServerInv'
  <2>1. /\ worker[w].at = "idle" /\ mQueue # << >> /\ mQueue' = Tail(mQueue)
        /\ worker' = [worker EXCEPT ![w] = AtOn("parse", Head(mQueue))]
        /\ UNCHANGED <<status, reading, timer, event>>
    BY <1>12 DEF Take, clients
  <2>2. /\ mQueue' \in Seq(Conn) /\ 1 \in DOMAIN mQueue /\ Head(mQueue) = mQueue[1]
        /\ \A i \in DOMAIN mQueue' : i + 1 \in DOMAIN mQueue /\ mQueue'[i] = mQueue[i + 1] /\ i + 1 # 1
    BY <2>1 DEF ServerTypes
  <2>3. PICK c \in Conn : c = Head(mQueue)
    BY <2>2 DEF ServerTypes
  <2>4. /\ status[c] = "dispatched" /\ event.conn # c /\ \A v \in Worker : worker[v].conn # c
        /\ \A i \in DOMAIN mQueue' : mQueue'[i] # c
    BY <2>2, <2>3 DEF OwnerInv
  <2>5. ServerTypes'
    BY <1>0, <2>1, <2>2, <2>3 DEF ServerTypes, AtOn
  <2>6. worker'[w].conn = c /\ \A v \in Worker \ {w} : worker'[v] = worker[v]
    BY <2>1, <2>3 DEF ServerTypes, AtOn
  <2>7. \A i, j \in DOMAIN mQueue' : i # j => mQueue'[i] # mQueue'[j]
    <3> SUFFICES ASSUME NEW i \in DOMAIN mQueue', NEW j \in DOMAIN mQueue', i # j
                 PROVE  mQueue'[i] # mQueue'[j]
      OBVIOUS
    <3>1. i \in Nat /\ j \in Nat
      BY <2>2
    <3> QED BY <2>2, <3>1 DEF OwnerInv
  <2>8. \A i \in DOMAIN mQueue' : /\ status[mQueue'[i]] = "dispatched"
                                  /\ mQueue'[i] # event.conn
                                  /\ \A v \in Worker : worker'[v].conn # mQueue'[i]
    BY <2>2, <2>4, <2>6 DEF OwnerInv
  <2>9. OwnerInv'
    BY <2>1, <2>4, <2>6, <2>7, <2>8 DEF OwnerInv
  <2> QED BY <2>1, <2>5, <2>9, OrderKept
<1>13. ASSUME NEW w \in Worker,
              BuildResponseBody(w) \/ \E cmds \in SUBSET Commands : CommandsEnd(w, cmds)
       PROVE  ServerInv'
  <2>1. PICK p \in {"run", "write"} : /\ worker' = [worker EXCEPT ![w].at = p]
                                      /\ worker[w].at \in {"parse", "run"}
    BY <1>13 DEF BuildResponseBody, CommandsEnd
  <2>2. UNCHANGED <<status, reading, timer, mQueue, event>>
    BY <1>13 DEF BuildResponseBody, CommandsEnd, clients
  <2> QED BY <2>1, <2>2, OwnersKept DEF ServerTypes
<1>14. ASSUME NEW w \in Worker, ReplyWritten(w) PROVE ServerInv'
  <2>1. PICK c \in Conn : c = worker[w].conn
    BY <1>14 DEF ReplyWritten, ServerTypes
  <2>2. /\ status' = [status EXCEPT ![c] = "answered"] /\ timer' = Cancelled(c)
        /\ worker' = [worker EXCEPT ![w] = At("idle")]
        /\ UNCHANGED <<reading, mQueue, event>>
    BY <1>14, <2>1 DEF ReplyWritten
  <2>3. /\ status[c] = "dispatched" /\ event.conn # c
        /\ \A v \in Worker \ {w} : worker[v].conn # c
        /\ \A i \in DOMAIN mQueue : mQueue[i] # c
    BY <1>0, <2>1 DEF OwnerInv
  <2>4. ServerTypes'
    BY <2>2 DEF ServerTypes, At, Cancelled, Statuses
  <2>5. AcceptedInOrder'
    BY <2>2, <2>3, OrderKept DEF ServerTypes
  <2>6. OwnerInv'
    BY <1>0, <2>2, <2>3 DEF OwnerInv, ServerTypes, At, Cancelled
  <2> QED BY <2>4, <2>5, <2>6
<1>15. CASE \/ SignalHandler \/ SetWarmupFinished \/ StopMiner \/ Interrupt \/ FreeConnManager
            \/ FreeChainState
  BY <1>15, OwnersKept DEF SignalHandler, SetWarmupFinished, StopMiner, Interrupt,
     FreeConnManager, FreeChainState, clients, serving, ServerTypes
<1>16. CASE InterruptWaiters
  BY <1>16, OwnersKept DEF InterruptWaiters, At, clients, ServerTypes
<1>17. CASE StopServer
  <2>1. mQueue' = << >> /\ UNCHANGED <<status, reading, timer, worker, event>>
    BY <1>17 DEF StopServer, clients
  <2> QED BY <2>1, OrderKept DEF ServerTypes, OwnerInv
<1> QED BY <1>1, <1>2, <1>3, <1>4, <1>5, <1>6, <1>7, <1>8, <1>9, <1>10, <1>11, <1>12, <1>13,
           <1>14, <1>15, <1>16, <1>17
        DEF Next, EventThread, WorkerLoop, Main

\* No two threads write to one socket, and nobody writes to a closed one.
THEOREM SingleWriter == Spec => []OneWriter
<1>1. ServerInv => OneWriter
  <2> SUFFICES ASSUME ServerInv, NEW c \in Conn
               PROVE  Cardinality(Writers(c)) <= 1 /\ (Writers(c) # {} => ~mClosed(c))
    BY DEF OneWriter
  <2> USE DEF ServerInv
  <2>0. c # NoConn
    BY DEF NoConn, Conn
  <2>1. \A v, w \in Worker : worker[v] = AtOn("write", c) /\ worker[w] = AtOn("write", c) => v = w
    BY <2>0 DEF OwnerInv, AtOn
  <2>2. \A w \in Worker : worker[w] = AtOn("write", c) => /\ event # AtOn("write", c)
                                                          /\ status[c] = "dispatched"
    BY <2>0 DEF OwnerInv, AtOn
  <2>3. event = AtOn("write", c) => status[c] \in {"open", "dispatched"}
    BY <2>0 DEF OwnerInv, AtOn
  <2>4. Writers(c) # {} => ~mClosed(c)
    BY <2>2, <2>3 DEF Writers, mClosed
  <2>5. Writers(c) = {} \/ \E x : Writers(c) = {x}
    BY <2>1, <2>2 DEF Writers
  <2>6. Cardinality(Writers(c)) <= 1
    <3>1. CASE Writers(c) = {}
      BY <3>1, FS_EmptySet
    <3>2. ASSUME NEW x, Writers(c) = {x} PROVE Cardinality(Writers(c)) = 1
      BY <3>2, FS_Singleton
    <3> QED BY <2>5, <3>1, <3>2
  <2> QED BY <2>4, <2>6
<1> QED BY <1>1, ServerInit, ServerStep, PTL DEF Spec
=============================================================================
