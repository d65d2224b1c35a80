---------------------------- MODULE Peers_proofs ----------------------------
(***************************************************************************)
(* What holds of the peer connections for any addresses and any limits.    *)
(***************************************************************************)
EXTENDS Peers, FiniteSetTheorems, TLAPS

\* Where each thread can be, and with what.  A connection that was counted and
\* is not in the table yet is with the accept or the connect thread.
ThreadInv ==
    /\ thread \in [Thread -> [at : {"idle", "close", "remove", "capacity", "victim", "insert",
                                    "connecting"},
                              id : NodeId \cup {NoNode}, ip : IP \cup {NoNode}]]
    /\ thread["accept"].at # "connecting"
    /\ thread["connect"].at \in {"idle", "connecting"}
    /\ \A t \in {"io", "loop"} : /\ thread[t].at \in {"idle", "close", "remove"}
                                 /\ thread[t].ip = NoNode
    /\ \A t \in {"accept", "connect"} : thread[t].at = "idle" <=> thread[t].ip = NoNode
    /\ \A t \in Thread : thread[t].at \in {"close", "remove", "victim"} => thread[t].id \in NodeId

\* A node is connected only while it is in the table, and its object is not
\* used again before the last thread that closes it is through.
TableInv ==
    /\ connected \subseteq mNodes /\ inbound \subseteq mNodes
    /\ \A t \in Thread : thread[t].at = "remove" => thread[t].id \notin connected
    /\ TableIsLive

Pending == {t \in Thread : thread[t].ip # NoNode}

\* There is an object for every connection that has begun.
ObjectInv == Cardinality(Free) >= Cardinality(Pending)

Inbound == connected \cap inbound

\* What the accept thread has found or made room for is still there when it
\* uses it, for nobody else lets an inbound peer in.
RoomInv ==
    /\ Cardinality(Inbound) <= MaxConnections
    /\ thread["accept"].at \in {"insert", "remove"} => Cardinality(Inbound) < MaxConnections
    /\ thread["accept"].at \in {"victim", "close"} =>
           Cardinality(Inbound \ {thread["accept"].id}) < MaxConnections

PeersInv == PeersTypeOK /\ ThreadInv /\ TableInv /\ ObjectInv /\ NoPlaceLeaks /\ RoomInv

-----------------------------------------------------------------------------
(* Counting *)

LEMMA NodesFinite ==
    ASSUME NEW S, S \subseteq NodeId
    PROVE  IsFiniteSet(S) /\ Cardinality(S) \in Nat
<1>1. IsFiniteSet(NodeId)
  BY PeersAssumption, FS_Interval DEF NodeId
<1> QED BY <1>1, FS_Subset, FS_CardinalityType

LEMMA ThreadsFinite ==
    ASSUME NEW S, S \subseteq Thread
    PROVE  IsFiniteSet(S) /\ Cardinality(S) \in Nat
<1>1. IsFiniteSet(Thread)
  <2>1. IsFiniteSet({})
    BY FS_EmptySet
  <2>2. IsFiniteSet({} \cup {"accept"})
    BY <2>1, FS_AddElement
  <2>3. IsFiniteSet(({} \cup {"accept"}) \cup {"connect"})
    BY <2>2, FS_AddElement
  <2>4. IsFiniteSet((({} \cup {"accept"}) \cup {"connect"}) \cup {"io"})
    BY <2>3, FS_AddElement
  <2>5. IsFiniteSet(((({} \cup {"accept"}) \cup {"connect"}) \cup {"io"}) \cup {"loop"})
    BY <2>4, FS_AddElement
  <2>6. ((({} \cup {"accept"}) \cup {"connect"}) \cup {"io"}) \cup {"loop"} = Thread
    BY DEF Thread
  <2> QED BY <2>5, <2>6
<1> QED BY <1>1, FS_Subset, FS_CardinalityType

\* One more and one less.
LEMMA NodeAdded ==
    ASSUME NEW S, S \subseteq NodeId, NEW n \in NodeId, n \notin S
    PROVE  Cardinality(S \cup {n}) = Cardinality(S) + 1
  BY NodesFinite, FS_AddElement

LEMMA NodeRemoved ==
    ASSUME NEW S, S \subseteq NodeId, NEW n \in S
    PROVE  Cardinality(S \ {n}) = Cardinality(S) - 1
  BY NodesFinite, FS_RemoveElement

LEMMA ThreadAdded ==
    ASSUME NEW S, S \subseteq Thread, NEW t \in Thread, t \notin S
    PROVE  Cardinality(S \cup {t}) = Cardinality(S) + 1
  BY ThreadsFinite, FS_AddElement

LEMMA ThreadRemoved ==
    ASSUME NEW S, S \subseteq Thread, NEW t \in S
    PROVE  Cardinality(S \ {t}) = Cardinality(S) - 1
  BY ThreadsFinite, FS_RemoveElement

LEMMA FewerNodes ==
    ASSUME NEW S, S \subseteq NodeId, NEW R, R \subseteq S
    PROVE  Cardinality(R) <= Cardinality(S)
  BY NodesFinite, FS_Subset

\* The places an address holds in the table and outside it.
InTable(ip)  == {n \in connected : addr[n] = ip}
Outside(ip)  == {t \in Thread : thread[t].ip = ip}

LEMMA HoldersAre ==
    ASSUME PeersTypeOK, NEW ip \in IP
    PROVE  /\ Holders(ip) = Cardinality(InTable(ip)) + Cardinality(Outside(ip))
           /\ InTable(ip) \subseteq NodeId /\ Cardinality(InTable(ip)) \in Nat
           /\ Outside(ip) \subseteq Thread /\ Cardinality(Outside(ip)) \in Nat
<1>1. InTable(ip) \subseteq NodeId /\ Outside(ip) \subseteq Thread
  BY DEF InTable, Outside, PeersTypeOK
<1>2. Holders(ip) = Cardinality(InTable(ip)) + Cardinality(Outside(ip))
  BY DEF Holders, InTable, Outside
<1> QED BY <1>1, <1>2, NodesFinite, ThreadsFinite

-----------------------------------------------------------------------------
(* What a step that leaves a thing alone does not disturb *)

SameIps == \A t \in Thread : thread'[t].ip = thread[t].ip

LEMMA ObjectsKept ==
    ASSUME ObjectInv, SameIps, Free \subseteq Free'
    PROVE  ObjectInv'
<1>1. Pending' = Pending
  BY DEF Pending, SameIps
<1>2. Free \subseteq NodeId /\ Free' \subseteq NodeId
  BY DEF Free
<1>3. Cardinality(Free) <= Cardinality(Free')
  BY <1>2, FewerNodes
<1>4. Cardinality(Free) \in Nat /\ Cardinality(Free') \in Nat /\ Cardinality(Pending) \in Nat
  BY <1>2, NodesFinite, ThreadsFinite DEF Pending
<1>5. Cardinality(Pending') = Cardinality(Pending)
  BY <1>1
<1>6. Cardinality(Free') >= Cardinality(Pending')
  BY <1>3, <1>4, <1>5 DEF ObjectInv
<1> QED BY <1>6 DEF ObjectInv

LEMMA CountKept ==
    ASSUME NoPlaceLeaks, SameIps, UNCHANGED <<addr, connected, count>>
    PROVE  NoPlaceLeaks'
<1>1. ASSUME NEW ip \in IP PROVE Holders(ip)' = Holders(ip)
  <2>1. {t \in Thread : thread'[t].ip = ip} = {t \in Thread : thread[t].ip = ip}
    BY DEF SameIps
  <2> QED BY <2>1 DEF Holders
<1> QED BY <1>1 DEF NoPlaceLeaks

LEMMA RoomKept ==
    ASSUME PeersTypeOK, RoomInv, Inbound' \subseteq Inbound, thread'["accept"] = thread["accept"]
    PROVE  RoomInv'
<1>1. Inbound \subseteq NodeId
  BY DEF Inbound, PeersTypeOK
<1>2. /\ Cardinality(Inbound') <= Cardinality(Inbound)
      /\ Cardinality(Inbound) \in Nat /\ Cardinality(Inbound') \in Nat
  BY <1>1, FewerNodes, NodesFinite
<1> DEFINE n == thread["accept"].id
<1>3. /\ Cardinality(Inbound' \ {n}) <= Cardinality(Inbound \ {n})
      /\ Cardinality(Inbound \ {n}) \in Nat /\ Cardinality(Inbound' \ {n}) \in Nat
  <2>1. Inbound' \ {n} \subseteq Inbound \ {n} /\ Inbound \ {n} \subseteq NodeId
    BY <1>1
  <2> HIDE DEF n
  <2> QED BY <2>1, FewerNodes, NodesFinite
<1>4. MaxConnections \in Nat
  BY PeersAssumption
<1>5. /\ Cardinality(Inbound') <= MaxConnections
      /\ thread["accept"].at \in {"insert", "remove"} => Cardinality(Inbound') < MaxConnections
      /\ thread["accept"].at \in {"victim", "close"} => Cardinality(Inbound' \ {n}) < MaxConnections
  BY <1>2, <1>3, <1>4 DEF RoomInv
<1> QED BY <1>5 DEF RoomInv

\* A thread takes up a node of the table, or goes on with the one it has, and
\* everything else is left alone.
LEMMA ThreadMoves ==
    ASSUME PeersInv, ThreadInv', SameIps,
           UNCHANGED <<addr, inbound, connected, timer, mNodes, count>>,
           PeersTypeOK', TableInv', thread'["accept"] = thread["accept"],
           \A t \in Thread : thread'[t].id \in {thread[t].id, NoNode} \cup mNodes
    PROVE  PeersInv'
<1>1. Free \subseteq Free'
  BY DEF Free, NodeId, NoNode
<1>2. ObjectInv' /\ NoPlaceLeaks'
  BY <1>1, ObjectsKept, CountKept DEF PeersInv
<1>3. RoomInv'
  BY RoomKept DEF PeersInv, Inbound
<1> QED BY <1>2, <1>3 DEF PeersInv

-----------------------------------------------------------------------------
(* The steps *)

LEMMA PeersInit == Init => PeersInv
<1> SUFFICES ASSUME Init PROVE PeersInv
  OBVIOUS
<1>0. MaxPerIP \in Nat /\ MaxConnections \in Nat
  BY PeersAssumption
<1>1. PeersTypeOK
  BY <1>0 DEF Init, PeersTypeOK, Idle
<1>2. ThreadInv
  BY DEF Init, ThreadInv, Idle, Thread, NoNode
<1>3. TableInv
  BY DEF Init, TableInv, TableIsLive, Idle
<1>4. Pending = {} /\ Free \subseteq NodeId /\ Inbound = {}
  BY DEF Init, Pending, Free, Idle, Inbound
<1>5. ObjectInv
  BY <1>4, NodesFinite, FS_EmptySet DEF ObjectInv
<1>6. NoPlaceLeaks
  <2>1. ASSUME NEW ip \in IP PROVE count[ip] <= Holders(ip)
    <3>1. Holders(ip) \in Nat /\ count[ip] = 0
      BY <1>1, HoldersAre DEF Init
    <3> QED BY <3>1
  <2> QED BY <2>1 DEF NoPlaceLeaks
<1>7. RoomInv
  BY <1>0, <1>4, FS_EmptySet DEF RoomInv, Init, Idle, Thread
<1> QED BY <1>1, <1>2, <1>3, <1>5, <1>6, <1>7 DEF PeersInv

LEMMA EnterStep ==
    ASSUME PeersInv, NEW t \in {"io", "loop"}, NEW n \in NodeId, Enter(t, n)
    PROVE  PeersInv'
<1>1. /\ UNCHANGED <<addr, inbound, versionSent, versionAcked, connected, timer, silent, mNodes, count>>
      /\ n \in connected /\ n \in mNodes /\ t \in Thread /\ thread[t].at = "idle"
      /\ thread' = [thread EXCEPT ![t] = [at |-> "close", id |-> n, ip |-> NoNode]]
  BY DEF Enter, node, PeersInv, TableInv, Thread
<1>2. /\ thread'[t] = [at |-> "close", id |-> n, ip |-> NoNode]
      /\ \A u \in Thread : u # t => thread'[u] = thread[u]
  BY <1>1 DEF PeersInv, ThreadInv
<1>3. PeersTypeOK'
  BY <1>1, <1>2 DEF PeersInv, PeersTypeOK
<1>4. ThreadInv'
  BY <1>1, <1>2 DEF PeersInv, ThreadInv
<1>5. TableInv'
  BY <1>1, <1>2 DEF PeersInv, TableInv, TableIsLive
<1>6. SameIps
  BY <1>1, <1>2 DEF PeersInv, ThreadInv, SameIps
<1>7. thread'["accept"] = thread["accept"]
  BY <1>2 DEF Thread
<1> QED BY <1>1, <1>2, <1>3, <1>4, <1>5, <1>6, <1>7, ThreadMoves

\* The handlers of the io thread that close nothing.
LEMMA HandlerStep ==
    ASSUME PeersInv, NEW n \in NodeId,
           HandleVersion(n) \/ HandleVerack(n) \/ Expire(n) \/ FallsSilent(n)
    PROVE  PeersInv'
<1>1. /\ UNCHANGED <<addr, inbound, connected, mNodes, count, thread>>
      /\ versionSent' \in {versionSent, versionSent \cup {n}}
      /\ versionAcked' \in {versionAcked, versionAcked \cup {n}}
      /\ silent' \in {silent, silent \cup {n}}
      /\ timer' \in [NodeId -> {"off", "armed", "expired"}]
      /\ \A m \in NodeId : timer[m] = "off" => timer'[m] = "off"
  BY DEF HandleVersion, HandleVerack, Expire, FallsSilent, node, PeersInv, PeersTypeOK
<1>2. PeersTypeOK'
  BY <1>1 DEF PeersInv, PeersTypeOK
<1>3. ThreadInv' /\ TableInv'
  BY <1>1 DEF PeersInv, ThreadInv, TableInv, TableIsLive
<1>4. Free \subseteq Free' /\ SameIps
  BY <1>1 DEF Free, SameIps
<1>5. ObjectInv' /\ NoPlaceLeaks'
  BY <1>1, <1>4, ObjectsKept, CountKept DEF PeersInv
<1>6. RoomInv'
  BY <1>1, RoomKept DEF PeersInv, Inbound
<1> QED BY <1>2, <1>3, <1>5, <1>6 DEF PeersInv

LEMMA TimeoutStep ==
    ASSUME PeersInv, NEW n \in NodeId, HandshakeTimeout(n)
    PROVE  PeersInv'
<1>1. /\ UNCHANGED <<addr, inbound, versionSent, versionAcked, connected, silent, mNodes, count>>
      /\ thread["io"].at = "idle" /\ timer' = [timer EXCEPT ![n] = "off"]
      /\ \/ UNCHANGED thread
         \/ /\ n \in connected
            /\ thread' = [thread EXCEPT !["io"] = [at |-> "close", id |-> n, ip |-> NoNode]]
  BY DEF HandshakeTimeout, node, IoFree
<1>2. /\ timer' \in [NodeId -> {"off", "armed", "expired"}]
      /\ \A m \in NodeId : timer[m] = "off" => timer'[m] = "off"
  BY <1>1 DEF PeersInv, PeersTypeOK
<1>3. /\ \/ thread'["io"] = thread["io"]
         \/ n \in connected /\ thread'["io"] = [at |-> "close", id |-> n, ip |-> NoNode]
      /\ \A u \in Thread : u # "io" => thread'[u] = thread[u]
      /\ thread' \in [Thread -> [at : {"idle", "close", "remove", "capacity", "victim", "insert",
                                      "connecting"},
                                id : NodeId \cup {NoNode}, ip : IP \cup {NoNode}]]
  BY <1>1 DEF PeersInv, ThreadInv
<1>4. PeersTypeOK'
  BY <1>1, <1>2, <1>3 DEF PeersInv, PeersTypeOK
<1>5. ThreadInv'
  BY <1>1, <1>3 DEF PeersInv, ThreadInv, Thread
<1>6. TableInv'
  BY <1>1, <1>3 DEF PeersInv, TableInv, TableIsLive, Thread
<1>7. SameIps
  BY <1>3 DEF PeersInv, ThreadInv, SameIps, Thread
<1>8. n \in connected => n \in mNodes
  BY DEF PeersInv, TableInv
<1>9. Free \subseteq Free'
  BY <1>1, <1>2, <1>3, <1>8 DEF Free
<1>10. ObjectInv' /\ NoPlaceLeaks'
  BY <1>1, <1>7, <1>9, ObjectsKept, CountKept DEF PeersInv
<1>11. RoomInv'
  BY <1>1, <1>3, RoomKept DEF PeersInv, Inbound, Thread
<1> QED BY <1>4, <1>5, <1>6, <1>10, <1>11 DEF PeersInv

\* Closing gives back a place at most once: the second thread to close a node
\* finds it out of the table's count already.
LEMMA CloseStep ==
    ASSUME PeersInv, NEW t \in Thread, Close(t)
    PROVE  PeersInv'
<1> DEFINE n == thread[t].id
<1>1. /\ UNCHANGED <<addr, inbound, silent, mNodes>> /\ thread[t].at = "close"
      /\ versionSent' = versionSent \ {n} /\ versionAcked' = versionAcked \ {n}
      /\ thread' = [thread EXCEPT ![t].at = "remove"]
      /\ connected' = connected \ {n}
      /\ timer' = [timer EXCEPT ![n] = IF @ = "armed" THEN "off" ELSE @]
      /\ count' = [count EXCEPT ![addr[n]] = IF @ = 0 THEN 0 ELSE @ - 1]
  BY DEF Close, Goes, DecrementConnectionCount
<1>2. n \in NodeId /\ t # "connect"
  BY <1>1 DEF PeersInv, ThreadInv
<1>3. /\ thread'[t] = [at |-> "remove", id |-> n, ip |-> thread[t].ip]
      /\ \A u \in Thread : u # t => thread'[u] = thread[u]
      /\ \A u \in Thread : thread'[u].id = thread[u].id /\ thread'[u].ip = thread[u].ip
  BY <1>1 DEF PeersInv, ThreadInv
<1> HIDE DEF n
<1>4. /\ timer' \in [NodeId -> {"off", "armed", "expired"}]
      /\ \A m \in NodeId : timer[m] = "off" => timer'[m] = "off"
  BY <1>1 DEF PeersInv, PeersTypeOK
<1>5. /\ count' \in [IP -> 0..MaxPerIP]
      /\ \A ip \in IP : count[ip] \in Nat /\ count'[ip] \in Nat /\ count'[ip] <= count[ip]
      /\ addr[n] \in IP => count'[addr[n]] = IF count[addr[n]] = 0 THEN 0 ELSE count[addr[n]] - 1
  <2>1. MaxPerIP \in Nat /\ count \in [IP -> 0..MaxPerIP]
    BY PeersAssumption DEF PeersInv, PeersTypeOK
  <2>2. ASSUME NEW ip \in IP
        PROVE  /\ count'[ip] = IF ip # addr[n] THEN count[ip]
                               ELSE IF count[ip] = 0 THEN 0 ELSE count[ip] - 1
               /\ count[ip] \in 0..MaxPerIP
    BY <1>1, <2>1
  <2>3. ASSUME NEW ip \in IP
        PROVE  count'[ip] \in 0..MaxPerIP /\ count'[ip] <= count[ip] /\ count[ip] \in Nat
    BY <2>1, <2>2
  <2>4. count' \in [IP -> 0..MaxPerIP]
    BY <1>1, <2>1, <2>3
  <2> QED BY <2>1, <2>2, <2>3, <2>4
<1>6. PeersTypeOK'
  BY <1>1, <1>3, <1>4, <1>5 DEF PeersInv, PeersTypeOK
<1>7. ThreadInv'
  <2>1. thread' \in [Thread -> [at : {"idle", "close", "remove", "capacity", "victim", "insert",
                                     "connecting"},
                               id : NodeId \cup {NoNode}, ip : IP \cup {NoNode}]]
    BY <1>1 DEF PeersInv, ThreadInv
  <2> QED BY <1>1, <1>2, <1>3, <2>1 DEF PeersInv, ThreadInv, Thread
<1>8. TableInv'
  BY <1>1, <1>3 DEF PeersInv, TableInv, TableIsLive
<1>9. SameIps
  BY <1>3 DEF SameIps
<1>10. Free \subseteq Free'
  BY <1>1, <1>3, <1>4 DEF Free
<1>11. ObjectInv'
  BY <1>9, <1>10, ObjectsKept DEF PeersInv
<1>12. NoPlaceLeaks'
  <2>1. ASSUME NEW ip \in IP PROVE count'[ip] <= Holders(ip)'
    <3>1. /\ Holders(ip) = Cardinality(InTable(ip)) + Cardinality(Outside(ip))
          /\ InTable(ip) \subseteq NodeId /\ Cardinality(InTable(ip)) \in Nat
          /\ Cardinality(Outside(ip)) \in Nat
      BY HoldersAre DEF PeersInv
    <3>2. Holders(ip)' = Cardinality(InTable(ip)') + Cardinality(Outside(ip)')
      BY DEF Holders, InTable, Outside
    <3>3. Outside(ip)' = Outside(ip)
      BY <1>3 DEF Outside
    <3>4. InTable(ip)' = InTable(ip) \ {n}
      BY <1>1 DEF InTable
    <3>5. count[ip] <= Holders(ip)
      BY DEF PeersInv, NoPlaceLeaks
    <3>6. CASE n \in InTable(ip)
      <4>1. Cardinality(InTable(ip) \ {n}) = Cardinality(InTable(ip)) - 1
        BY <3>1, <3>6, NodeRemoved
      <4>2. addr[n] = ip
        BY <3>6 DEF InTable
      <4>3. count'[ip] = IF count[ip] = 0 THEN 0 ELSE count[ip] - 1
        BY <1>5, <4>2
      <4>4. Holders(ip)' = Holders(ip) - 1
        BY <3>1, <3>2, <3>3, <3>4, <4>1
      <4>5. Cardinality(InTable(ip)) # 0
        BY <3>1, <3>6, NodesFinite, FS_EmptySet
      <4>6. Holders(ip) \in Nat \ {0}
        BY <3>1, <4>5
      <4>7. count[ip] \in Nat
        BY <1>5
      <4> QED BY <3>5, <4>3, <4>4, <4>6, <4>7
    <3>7. CASE n \notin InTable(ip)
      <4>1. InTable(ip) \ {n} = InTable(ip)
        BY <3>7
      <4> QED BY <1>5, <3>1, <3>2, <3>3, <3>4, <3>5, <4>1
    <3> QED BY <3>6, <3>7
  <2> QED BY <2>1 DEF NoPlaceLeaks
<1>13. RoomInv'
  <2>1. Inbound' = Inbound \ {n} /\ Inbound \subseteq NodeId
    BY <1>1 DEF Inbound, PeersInv, PeersTypeOK
  <2>2. CASE t = "accept"
    <3>1. Cardinality(Inbound') < MaxConnections
      BY <1>1, <2>1, <2>2 DEF PeersInv, RoomInv, n
    <3>2. Cardinality(Inbound') \in Nat /\ MaxConnections \in Nat
      BY <2>1, NodesFinite, PeersAssumption
    <3> QED BY <1>3, <2>2, <3>1, <3>2 DEF RoomInv
  <2>3. CASE t # "accept"
    <3>1. thread'["accept"] = thread["accept"]
      BY <1>3, <2>3 DEF Thread
    <3> QED BY <2>1, <3>1, RoomKept DEF PeersInv
  <2> QED BY <2>2, <2>3
<1> QED BY <1>6, <1>7, <1>8, <1>11, <1>12, <1>13 DEF PeersInv

\* The entry leaves the table with the flag long down.
LEMMA RemoveStep ==
    ASSUME PeersInv, NEW t \in Thread, RemoveNode(t)
    PROVE  PeersInv'
<1> DEFINE n == thread[t].id
<1>1. /\ UNCHANGED <<addr, versionSent, versionAcked, connected, timer, count>>
      /\ thread[t].at = "remove"
      /\ thread' = IF t = "accept" THEN [thread EXCEPT ![t].at = "insert"]
                                    ELSE [thread EXCEPT ![t] = Idle]
      /\ mNodes' = mNodes \ {n} /\ inbound' = inbound \ {n}
      /\ silent' = silent \ {n}
  BY DEF RemoveNode, Goes, Ends
<1>2. n \in NodeId /\ n \notin connected /\ t # "connect"
  BY <1>1 DEF PeersInv, ThreadInv, TableInv
<1>3. /\ thread' \in [Thread -> [at : {"idle", "close", "remove", "capacity", "victim", "insert",
                                       "connecting"},
                                 id : NodeId \cup {NoNode}, ip : IP \cup {NoNode}]]
      /\ thread'[t].at = IF t = "accept" THEN "insert" ELSE "idle"
      /\ thread'[t].id \in {n, NoNode} /\ thread'[t].ip = thread[t].ip
      /\ \A u \in Thread : u # t => thread'[u] = thread[u]
  BY <1>1, <1>2 DEF PeersInv, ThreadInv, Idle, Thread
<1>4. SameIps
  BY <1>3 DEF SameIps
<1>5. thread[t].id = n
  OBVIOUS
<1> HIDE DEF n
<1>6. PeersTypeOK'
  BY <1>1, <1>3 DEF PeersInv, PeersTypeOK
<1>7. ThreadInv'
  BY <1>1, <1>2, <1>3, <1>5 DEF PeersInv, ThreadInv, Thread
<1>8. TableInv'
  BY <1>1, <1>2, <1>3, <1>5 DEF PeersInv, TableInv, TableIsLive
<1>9. Free \subseteq Free'
  BY <1>1, <1>2, <1>3, <1>5 DEF Free, NodeId, NoNode
<1>10. ObjectInv' /\ NoPlaceLeaks'
  BY <1>1, <1>4, <1>9, ObjectsKept, CountKept DEF PeersInv
<1>11. RoomInv'
  <2>1. Inbound' = Inbound
    BY <1>1, <1>2 DEF Inbound
  <2>2. CASE t = "accept"
    BY <1>1, <1>3, <2>1, <2>2 DEF PeersInv, RoomInv
  <2>3. CASE t # "accept"
    <3>1. thread'["accept"] = thread["accept"]
      BY <1>3, <2>3 DEF Thread
    <3> QED BY <2>1, <3>1, RoomKept DEF PeersInv
  <2> QED BY <2>2, <2>3
<1> QED BY <1>6, <1>7, <1>8, <1>10, <1>11 DEF PeersInv

\* A connection begins: its address is counted and an object is left for it.
LEMMA BeginStep ==
    ASSUME PeersInv, NEW t \in {"accept", "connect"}, NEW ip \in IP, NEW p,
           p = IF t = "accept" THEN "capacity" ELSE "connecting",
           thread[t].at = "idle", ObjectLeft, CheckConnectionLimitForIP(ip),
           thread' = [thread EXCEPT ![t] = [at |-> p, id |-> NoNode, ip |-> ip]],
           UNCHANGED <<node, connected, timer, silent, mNodes>>
    PROVE  PeersInv'
<1>1. t \in Thread /\ ip # NoNode /\ thread[t].ip = NoNode /\ ip \in IP
  BY PeersAssumption DEF PeersInv, ThreadInv, Thread
<1>2. /\ thread'[t] = [at |-> p, id |-> NoNode, ip |-> ip]
      /\ \A u \in Thread : u # t => thread'[u] = thread[u]
      /\ thread' \in [Thread -> [at : {"idle", "close", "remove", "capacity", "victim", "insert",
                                      "connecting"},
                                id : NodeId \cup {NoNode}, ip : IP \cup {NoNode}]]
  BY <1>1 DEF PeersInv, ThreadInv
<1>3. /\ count' \in [IP -> 0..MaxPerIP]
      /\ count'[ip] = count[ip] + 1
      /\ \A q \in IP : count[q] \in Nat /\ (q # ip => count'[q] = count[q])
  <2>1. MaxPerIP \in Nat /\ count \in [IP -> 0..MaxPerIP]
    BY PeersAssumption DEF PeersInv, PeersTypeOK
  <2> QED BY <2>1 DEF CheckConnectionLimitForIP
<1>4. PeersTypeOK'
  BY <1>2, <1>3 DEF PeersInv, PeersTypeOK, node
<1>5. ThreadInv'
  BY <1>1, <1>2 DEF PeersInv, ThreadInv, Thread
<1>6. TableInv'
  BY <1>2 DEF PeersInv, TableInv, TableIsLive, node
<1>7. ObjectInv'
  <2>1. Pending' = Pending \cup {t} /\ t \notin Pending /\ Pending \subseteq Thread
    BY <1>1, <1>2 DEF Pending
  <2>2. Cardinality(Pending \cup {t}) = Cardinality(Pending) + 1
    BY <1>1, <2>1, ThreadAdded
  <2>3. Free \subseteq Free' /\ Free \subseteq NodeId /\ Free' \subseteq NodeId
    BY <1>2 DEF Free, NodeId, NoNode
  <2>4. Cardinality(Free) <= Cardinality(Free')
    BY <2>3, FewerNodes
  <2>5. Cardinality(Free) > Cardinality(Pending)
    BY DEF ObjectLeft, Pending
  <2>6. Cardinality(Free) \in Nat /\ Cardinality(Free') \in Nat /\ Cardinality(Pending) \in Nat
    BY <2>1, <2>3, NodesFinite, ThreadsFinite
  <2>7. Cardinality(Pending') = Cardinality(Pending) + 1
    BY <2>1, <2>2
  <2>8. Cardinality(Free') >= Cardinality(Pending')
    BY <2>4, <2>5, <2>6, <2>7
  <2> QED BY <2>8 DEF ObjectInv
<1>8. NoPlaceLeaks'
  <2>1. ASSUME NEW q \in IP PROVE count'[q] <= Holders(q)'
    <3>1. /\ Holders(q) = Cardinality(InTable(q)) + Cardinality(Outside(q))
          /\ Outside(q) \subseteq Thread /\ Cardinality(InTable(q)) \in Nat
          /\ Cardinality(Outside(q)) \in Nat
      BY HoldersAre DEF PeersInv
    <3>2. Holders(q)' = Cardinality(InTable(q)') + Cardinality(Outside(q)')
      BY DEF Holders, InTable, Outside
    <3>3. InTable(q)' = InTable(q)
      BY DEF InTable, node
    <3>4. count[q] <= Holders(q)
      BY DEF PeersInv, NoPlaceLeaks
    <3>5. CASE q = ip
      <4>1. Outside(q)' = Outside(q) \cup {t} /\ t \notin Outside(q)
        BY <1>1, <1>2, <3>5 DEF Outside
      <4>2. Cardinality(Outside(q) \cup {t}) = Cardinality(Outside(q)) + 1
        BY <1>1, <3>1, <4>1, ThreadAdded
      <4> QED BY <1>3, <3>1, <3>2, <3>3, <3>4, <3>5, <4>1, <4>2
    <3>6. CASE q # ip
      <4>1. Outside(q)' = Outside(q)
        BY <1>1, <1>2, <3>6, PeersAssumption DEF Outside
      <4> QED BY <1>3, <3>1, <3>2, <3>3, <3>4, <3>6, <4>1
    <3> QED BY <3>5, <3>6
  <2> QED BY <2>1 DEF NoPlaceLeaks
<1>9. RoomInv'
  <2>1. Inbound' = Inbound
    BY DEF Inbound, node
  <2> QED BY <1>2, <2>1 DEF PeersInv, RoomInv, Thread
<1> QED BY <1>4, <1>5, <1>6, <1>7, <1>8, <1>9 DEF PeersInv

\* The accept thread looks for room: there is some, or a victim is chosen and
\* looked up again.
LEMMA RoomStep ==
    ASSUME PeersInv, HasRoom \/ EvictOneInboundPeer \/ Evict
    PROVE  PeersInv'
<1>1. /\ UNCHANGED <<addr, inbound, versionSent, versionAcked, connected, timer, silent, mNodes, count>>
      /\ thread["accept"].at \in {"capacity", "victim"}
  BY DEF HasRoom, EvictOneInboundPeer, Evict, Goes, node
<1>2. Inbound \subseteq NodeId /\ Inbound \subseteq mNodes /\ mNodes \subseteq NodeId
  BY DEF Inbound, PeersInv, PeersTypeOK, TableInv
<1>3. /\ Cardinality(Inbound) \in Nat /\ Cardinality(mNodes) \in Nat /\ MaxConnections \in Nat
      /\ Cardinality(Inbound) <= Cardinality(mNodes)
  BY <1>2, NodesFinite, FewerNodes, PeersAssumption
<1>4. Inbound' = Inbound
  BY <1>1 DEF Inbound
<1>5. PICK r : r = thread'["accept"]
  OBVIOUS
<1>6. /\ \A u \in Thread : u # "accept" => thread'[u] = thread[u]
      /\ thread' \in [Thread -> [at : {"idle", "close", "remove", "capacity", "victim", "insert",
                                      "connecting"},
                                id : NodeId \cup {NoNode}, ip : IP \cup {NoNode}]]
      /\ r.ip = thread["accept"].ip
      /\ \/ /\ r.at = "insert" /\ r.id = thread["accept"].id
            /\ \/ ~AtCapacity
               \/ thread["accept"].at = "victim" /\ r.id \notin connected
         \/ r.at = "victim" /\ r.id \in Candidates /\ AtCapacity
         \/ r.at = "close" /\ r.id \in connected /\ r.id = thread["accept"].id
            /\ thread["accept"].at = "victim"
  <2>1. CASE HasRoom
    BY <1>5, <2>1 DEF HasRoom, Goes, PeersInv, ThreadInv, Thread
  <2>2. CASE EvictOneInboundPeer
    <3>1. PICK m \in Candidates :
            thread' = [thread EXCEPT !["accept"].at = "victim", !["accept"].id = m]
      BY <2>2 DEF EvictOneInboundPeer
    <3>2. m \in NodeId /\ AtCapacity
      BY <1>2, <2>2 DEF Candidates, EvictOneInboundPeer
    <3>3. thread \in [Thread -> [at : {"idle", "close", "remove", "capacity", "victim", "insert",
                                      "connecting"},
                                id : NodeId \cup {NoNode}, ip : IP \cup {NoNode}]]
      BY DEF PeersInv, ThreadInv
    <3> QED BY <1>5, <3>1, <3>2, <3>3 DEF Thread
  <2>3. CASE Evict
    BY <1>5, <2>3 DEF Evict, Goes, PeersInv, ThreadInv, Thread
  <2> QED BY <2>1, <2>2, <2>3
<1>7. \A m \in Candidates : m \in mNodes /\ m \in Inbound /\ m \in NodeId
  BY <1>2 DEF Candidates, IsFullyConnected, Inbound
<1>8. PeersTypeOK'
  BY <1>1, <1>6 DEF PeersInv, PeersTypeOK
<1>9. ThreadInv'
  BY <1>1, <1>2, <1>5, <1>6, <1>7 DEF PeersInv, ThreadInv, Thread
<1>10. TableInv'
  BY <1>1, <1>5, <1>6 DEF PeersInv, TableInv, TableIsLive, Thread
<1>11. SameIps
  BY <1>5, <1>6 DEF SameIps, Thread
<1>12. Free \subseteq Free'
  BY <1>1, <1>5, <1>6, <1>7 DEF Free
<1>13. ObjectInv' /\ NoPlaceLeaks'
  BY <1>1, <1>11, <1>12, ObjectsKept, CountKept DEF PeersInv
<1>14. RoomInv'
  <2>1. Cardinality(Inbound) <= MaxConnections
    BY DEF PeersInv, RoomInv
  <2>2. r.at = "insert" => Cardinality(Inbound) < MaxConnections
    <3>1. CASE ~AtCapacity
      BY <1>3, <3>1 DEF AtCapacity
    <3>2. CASE thread["accept"].at = "victim" /\ thread["accept"].id \notin connected
      <4>1. Inbound \ {thread["accept"].id} = Inbound
        BY <3>2 DEF Inbound
      <4> QED BY <3>2, <4>1 DEF PeersInv, RoomInv
    <3> QED BY <1>6, <3>1, <3>2
  <2>3. r.at = "victim" => Cardinality(Inbound \ {r.id}) < MaxConnections
    <3>1. SUFFICES ASSUME r.at = "victim" PROVE Cardinality(Inbound \ {r.id}) < MaxConnections
      OBVIOUS
    <3>2. r.id \in Inbound
      BY <1>6, <1>7, <3>1
    <3>3. Cardinality(Inbound \ {r.id}) = Cardinality(Inbound) - 1
      BY <1>2, <3>2, NodeRemoved
    <3> QED BY <1>3, <2>1, <3>3
  <2>4. r.at = "close" => Cardinality(Inbound \ {r.id}) < MaxConnections
    BY <1>6 DEF PeersInv, RoomInv
  <2> QED BY <1>4, <1>5, <1>6, <2>1, <2>2, <2>3, <2>4 DEF RoomInv
<1> QED BY <1>8, <1>9, <1>10, <1>13, <1>14 DEF PeersInv

\* A connection that does not come about gives its place back.
LEMMA RefuseStep ==
    ASSUME PeersInv, NEW t \in {"accept", "connect"}, thread[t].at \in {"capacity", "victim", "connecting"},
           thread' = [thread EXCEPT ![t] = Idle], DecrementConnectionCount(thread[t].ip),
           UNCHANGED <<node, connected, timer, silent, mNodes>>
    PROVE  PeersInv'
<1> DEFINE ip == thread[t].ip
<1>1. t \in Thread /\ ip # NoNode /\ ip \in IP
  BY DEF PeersInv, ThreadInv, Thread
<1>2. /\ thread'[t] = Idle
      /\ \A u \in Thread : u # t => thread'[u] = thread[u]
      /\ thread' \in [Thread -> [at : {"idle", "close", "remove", "capacity", "victim", "insert",
                                      "connecting"},
                                id : NodeId \cup {NoNode}, ip : IP \cup {NoNode}]]
  BY <1>1 DEF PeersInv, ThreadInv, Idle
<1>3. count' = [count EXCEPT ![ip] = IF @ = 0 THEN 0 ELSE @ - 1]
  BY DEF DecrementConnectionCount
<1>4. thread[t].ip = ip
  OBVIOUS
<1> HIDE DEF ip
<1>5. /\ count' \in [IP -> 0..MaxPerIP]
      /\ count'[ip] = IF count[ip] = 0 THEN 0 ELSE count[ip] - 1
      /\ \A q \in IP : count[q] \in Nat /\ (q # ip => count'[q] = count[q])
  <2>1. MaxPerIP \in Nat /\ count \in [IP -> 0..MaxPerIP]
    BY PeersAssumption DEF PeersInv, PeersTypeOK
  <2>2. \A q \in IP : count[q] \in Nat /\ (q # ip => count'[q] = count[q])
    BY <1>3, <2>1
  <2>3. count'[ip] = IF count[ip] = 0 THEN 0 ELSE count[ip] - 1
    BY <1>1, <1>3, <2>1
  <2>4. count[ip] \in 0..MaxPerIP
    BY <1>1, <2>1
  <2>5. count'[ip] \in 0..MaxPerIP
    BY <2>1, <2>3, <2>4
  <2> QED BY <1>1, <1>3, <2>1, <2>2, <2>3, <2>5
<1>6. PeersTypeOK'
  BY <1>2, <1>5 DEF PeersInv, PeersTypeOK, node
<1>7. ThreadInv'
  BY <1>1, <1>2 DEF PeersInv, ThreadInv, Thread, Idle
<1>8. TableInv'
  BY <1>1, <1>2 DEF PeersInv, TableInv, TableIsLive, node, Idle
<1>9. ObjectInv'
  <2>1. Pending' = Pending \ {t} /\ t \in Pending /\ Pending \subseteq Thread
    BY <1>1, <1>2, <1>4 DEF Pending, Idle
  <2>2. Cardinality(Pending \ {t}) = Cardinality(Pending) - 1
    BY <2>1, ThreadRemoved
  <2>3. Free \subseteq Free' /\ Free \subseteq NodeId /\ Free' \subseteq NodeId
    BY <1>2 DEF Free, NodeId, NoNode, Idle
  <2>4. Cardinality(Free) <= Cardinality(Free')
    BY <2>3, FewerNodes
  <2>5. Cardinality(Free) \in Nat /\ Cardinality(Free') \in Nat /\ Cardinality(Pending) \in Nat
    BY <2>1, <2>3, NodesFinite, ThreadsFinite
  <2>6. Cardinality(Pending') = Cardinality(Pending) - 1
    BY <2>1, <2>2
  <2>7. Cardinality(Free') >= Cardinality(Pending')
    BY <2>4, <2>5, <2>6 DEF PeersInv, ObjectInv
  <2> QED BY <2>7 DEF ObjectInv
<1>10. NoPlaceLeaks'
  <2>1. ASSUME NEW q \in IP PROVE count'[q] <= Holders(q)'
    <3>1. /\ Holders(q) = Cardinality(InTable(q)) + Cardinality(Outside(q))
          /\ Outside(q) \subseteq Thread /\ Cardinality(InTable(q)) \in Nat
          /\ Cardinality(Outside(q)) \in Nat
      BY HoldersAre DEF PeersInv
    <3>2. Holders(q)' = Cardinality(InTable(q)') + Cardinality(Outside(q)')
      BY DEF Holders, InTable, Outside
    <3>3. InTable(q)' = InTable(q)
      BY DEF InTable, node
    <3>4. count[q] <= Holders(q)
      BY DEF PeersInv, NoPlaceLeaks
    <3>5. CASE q = ip
      <4>1. Outside(q)' = Outside(q) \ {t} /\ t \in Outside(q)
        BY <1>1, <1>2, <1>4, <3>5 DEF Outside, Idle
      <4>2. Cardinality(Outside(q) \ {t}) = Cardinality(Outside(q)) - 1
        BY <3>1, <4>1, ThreadRemoved
      <4>3. Cardinality(Outside(q)) # 0
        BY <3>1, <4>1, ThreadsFinite, FS_EmptySet
      <4>4. Holders(q)' = Holders(q) - 1 /\ Holders(q) \in Nat \ {0}
        BY <3>1, <3>2, <3>3, <4>1, <4>2, <4>3
      <4>5. count'[q] = (IF count[q] = 0 THEN 0 ELSE count[q] - 1) /\ count[q] \in Nat
        BY <1>1, <1>5, <3>5
      <4> QED BY <3>4, <4>4, <4>5
    <3>6. CASE q # ip
      <4>1. Outside(q)' = Outside(q)
        BY <1>1, <1>2, <1>4, <3>6, PeersAssumption DEF Outside, Idle
      <4> QED BY <1>5, <3>1, <3>2, <3>3, <3>4, <3>6, <4>1
    <3> QED BY <3>5, <3>6
  <2> QED BY <2>1 DEF NoPlaceLeaks
<1>11. RoomInv'
  <2>1. Inbound' = Inbound
    BY DEF Inbound, node
  <2> QED BY <1>2, <2>1 DEF PeersInv, RoomInv, Thread, Idle
<1> QED BY <1>6, <1>7, <1>8, <1>9, <1>10, <1>11 DEF PeersInv

\* A node enters the table.  The object it gets is one nobody refers to, so
\* whatever is being closed is some other node.
LEMMA InsertStep ==
    ASSUME PeersInv, NEW t \in {"accept", "connect"},
           thread[t].at = IF t = "accept" THEN "insert" ELSE "connecting",
           thread' = [thread EXCEPT ![t] = Idle],
           Insert(thread[t].ip, t = "accept")
    PROVE  PeersInv'
<1> DEFINE ip == thread[t].ip
<1>1. t \in Thread /\ ip # NoNode /\ ip \in IP
  BY DEF PeersInv, ThreadInv, Thread
<1>2. PICK n : n = CHOOSE f \in Free : TRUE
  OBVIOUS
<1>3. Pending \subseteq Thread /\ t \in Pending /\ Free \subseteq NodeId
  BY <1>1 DEF Pending, Free
<1>4. n \in Free
  <2>1. Cardinality(Pending) # 0
    BY <1>3, ThreadsFinite, FS_EmptySet
  <2>2. Cardinality(Pending) \in Nat /\ Cardinality(Free) \in Nat
    BY <1>3, ThreadsFinite, NodesFinite
  <2>3. Cardinality(Free) # 0
    BY <2>1, <2>2 DEF PeersInv, ObjectInv
  <2>4. Free # {}
    BY <2>3, FS_EmptySet
  <2> QED BY <1>2, <2>4
<1>5. /\ addr' = [addr EXCEPT ![n] = ip]
      /\ inbound' = IF t = "accept" THEN inbound \cup {n} ELSE inbound
      /\ connected' = connected \cup {n}
      /\ mNodes' = mNodes \cup {n}
      /\ timer' = [timer EXCEPT ![n] = "armed"]
      /\ UNCHANGED <<versionSent, versionAcked, silent, count>>
  BY <1>2 DEF Insert
<1>6. n \in NodeId /\ n \notin mNodes /\ n \notin connected /\ n \notin inbound
  BY <1>4 DEF Free, PeersInv, TableInv
<1>7. \A u \in Thread : thread[u].id # n
  BY <1>4 DEF Free
<1>8. /\ thread'[t] = Idle
      /\ \A u \in Thread : u # t => thread'[u] = thread[u]
      /\ thread' \in [Thread -> [at : {"idle", "close", "remove", "capacity", "victim", "insert",
                                      "connecting"},
                                id : NodeId \cup {NoNode}, ip : IP \cup {NoNode}]]
  BY <1>1 DEF PeersInv, ThreadInv, Idle
<1>9. thread[t].ip = ip
  OBVIOUS
<1> HIDE DEF ip
<1>10. PeersTypeOK'
  BY <1>1, <1>5, <1>6, <1>8 DEF PeersInv, PeersTypeOK
<1>11. ThreadInv'
  BY <1>1, <1>8 DEF PeersInv, ThreadInv, Thread, Idle
<1>12. TableInv'
  <2>1. connected' \subseteq mNodes' /\ inbound' \subseteq mNodes'
    BY <1>5 DEF PeersInv, TableInv
  <2>2. \A u \in Thread : thread'[u].at = "remove" => thread'[u].id \notin connected'
    BY <1>5, <1>7, <1>8 DEF PeersInv, TableInv, Idle
  <2>3. TableIsLive'
    BY <1>5, <1>8 DEF PeersInv, TableInv, TableIsLive
  <2> QED BY <2>1, <2>2, <2>3 DEF TableInv
<1>13. ObjectInv'
  <2>1. Pending' = Pending \ {t}
    BY <1>8 DEF Pending, Idle
  <2>2. Cardinality(Pending') = Cardinality(Pending) - 1
    BY <1>3, <2>1, ThreadRemoved
  <2>3. Free \ {n} \subseteq Free' /\ Free' \subseteq NodeId
    <3>1. ASSUME NEW m \in Free, m # n PROVE m \in Free'
      <4>1. m \in NodeId /\ m \notin mNodes /\ timer[m] = "off" /\ \A u \in Thread : thread[u].id # m
        BY DEF Free
      <4>2. timer'[m] = "off" /\ m \notin mNodes' /\ m # NoNode
        BY <1>5, <3>1, <4>1 DEF PeersInv, PeersTypeOK, NodeId, NoNode
      <4>3. \A u \in Thread : thread'[u].id # m
        BY <1>8, <4>1, <4>2 DEF Idle
      <4> QED BY <4>1, <4>2, <4>3 DEF Free
    <3> QED BY <3>1 DEF Free
  <2>4. Cardinality(Free \ {n}) = Cardinality(Free) - 1
    BY <1>3, <1>4, NodeRemoved
  <2>5. Cardinality(Free \ {n}) <= Cardinality(Free')
    BY <2>3, FewerNodes
  <2>6. Cardinality(Free) \in Nat /\ Cardinality(Free') \in Nat /\ Cardinality(Pending) \in Nat
    BY <1>3, <2>3, NodesFinite, ThreadsFinite
  <2>7. Cardinality(Free') >= Cardinality(Pending')
    BY <2>2, <2>4, <2>5, <2>6 DEF PeersInv, ObjectInv
  <2> QED BY <2>7 DEF ObjectInv
<1>14. NoPlaceLeaks'
  <2>1. ASSUME NEW q \in IP PROVE count'[q] <= Holders(q)'
    <3>1. /\ Holders(q) = Cardinality(InTable(q)) + Cardinality(Outside(q))
          /\ InTable(q) \subseteq NodeId
          /\ Outside(q) \subseteq Thread /\ Cardinality(InTable(q)) \in Nat
          /\ Cardinality(Outside(q)) \in Nat
      BY HoldersAre DEF PeersInv
    <3>2. Holders(q)' = Cardinality(InTable(q)') + Cardinality(Outside(q)')
      BY DEF Holders, InTable, Outside
    <3>3. count'[q] <= Holders(q)
      BY <1>5 DEF PeersInv, NoPlaceLeaks
    <3>4. \A m \in NodeId : addr'[m] = IF m = n THEN ip ELSE addr[m]
      BY <1>5, <1>6 DEF PeersInv, PeersTypeOK
    <3>5. connected \subseteq NodeId
      BY DEF PeersInv, PeersTypeOK
    <3>6. CASE q = ip
      <4>1. Outside(q)' = Outside(q) \ {t} /\ t \in Outside(q)
        BY <1>1, <1>8, <1>9, <3>6 DEF Outside, Idle
      <4>2. InTable(q)' = InTable(q) \cup {n} /\ n \notin InTable(q)
        BY <1>5, <1>6, <3>4, <3>5, <3>6 DEF InTable
      <4>3. Cardinality(Outside(q) \ {t}) = Cardinality(Outside(q)) - 1
        BY <3>1, <4>1, ThreadRemoved
      <4>4. Cardinality(InTable(q) \cup {n}) = Cardinality(InTable(q)) + 1
        BY <1>6, <3>1, <4>2, NodeAdded
      <4>5. Holders(q)' = Holders(q)
        BY <3>1, <3>2, <4>1, <4>2, <4>3, <4>4
      <4> QED BY <3>3, <4>5
    <3>7. CASE q # ip
      <4>1. Outside(q)' = Outside(q)
        BY <1>1, <1>8, <1>9, <3>7, PeersAssumption DEF Outside, Idle
      <4>2. InTable(q)' = InTable(q)
        BY <1>5, <1>6, <3>4, <3>5, <3>7 DEF InTable
      <4> QED BY <3>1, <3>2, <3>3, <4>1, <4>2
    <3> QED BY <3>6, <3>7
  <2> QED BY <2>1 DEF NoPlaceLeaks
<1>15. RoomInv'
  <2>1. CASE t = "accept"
    <3>1. Inbound' = Inbound \cup {n} /\ n \notin Inbound /\ Inbound \subseteq NodeId
      BY <1>5, <1>6, <2>1 DEF Inbound, PeersInv, PeersTypeOK
    <3>2. Cardinality(Inbound') = Cardinality(Inbound) + 1 /\ Cardinality(Inbound) \in Nat
      BY <1>6, <3>1, NodeAdded, NodesFinite
    <3>3. Cardinality(Inbound) < MaxConnections /\ MaxConnections \in Nat
      BY <2>1, PeersAssumption DEF PeersInv, RoomInv
    <3>4. Cardinality(Inbound') <= MaxConnections
      BY <3>2, <3>3
    <3> QED BY <1>8, <2>1, <3>4 DEF RoomInv, Idle
  <2>2. CASE t = "connect"
    <3>1. Inbound' = Inbound
      BY <1>5, <1>6, <2>2 DEF Inbound
    <3>2. thread'["accept"] = thread["accept"]
      BY <1>8, <2>2 DEF Thread
    <3> QED BY <3>1, <3>2, RoomKept DEF PeersInv
  <2> QED BY <2>1, <2>2
<1> QED BY <1>10, <1>11, <1>12, <1>13, <1>14, <1>15 DEF PeersInv

LEMMA PeersStep == PeersInv /\ [Next]_vars => PeersInv'
<1> SUFFICES ASSUME PeersInv, [Next]_vars PROVE PeersInv'
  OBVIOUS
<1>1. CASE UNCHANGED vars
  <2>1. UNCHANGED <<addr, inbound, versionSent, versionAcked, connected, timer, silent, mNodes, count, thread>>
    BY <1>1 DEF vars, node
  <2>2. PeersTypeOK' /\ ThreadInv' /\ TableInv' /\ SameIps
    BY <2>1 DEF PeersInv, PeersTypeOK, ThreadInv, TableInv, TableIsLive, SameIps
  <2> QED BY <2>1, <2>2, ThreadMoves
<1>2. ASSUME NEW t \in Thread, DisconnectNode(t) PROVE PeersInv'
  BY <1>2, CloseStep, RemoveStep DEF DisconnectNode
<1>3. ASSUME NEW ip \in IP, Accept(ip) PROVE PeersInv'
  <2>1. /\ thread["accept"].at = "idle" /\ ObjectLeft /\ CheckConnectionLimitForIP(ip)
        /\ thread' = [thread EXCEPT !["accept"] = [at |-> "capacity", id |-> NoNode, ip |-> ip]]
        /\ UNCHANGED <<node, connected, timer, silent, mNodes>>
    BY <1>3 DEF Accept
  <2>2. "accept" \in {"accept", "connect"}
    OBVIOUS
  <2> QED BY <2>1, <2>2, BeginStep
<1>4. ASSUME NEW ip \in IP, Connect(ip) PROVE PeersInv'
  <2>1. /\ thread["connect"].at = "idle" /\ ObjectLeft /\ CheckConnectionLimitForIP(ip)
        /\ thread' = [thread EXCEPT !["connect"] = [at |-> "connecting", id |-> NoNode, ip |-> ip]]
        /\ UNCHANGED <<node, connected, timer, silent, mNodes>>
    BY <1>4 DEF Connect
  <2>2. "connect" \in {"accept", "connect"} /\ "connect" # "accept"
    OBVIOUS
  <2> QED BY <2>1, <2>2, BeginStep
<1>5. CASE HasRoom \/ EvictOneInboundPeer \/ Evict
  BY <1>5, RoomStep
<1>6. CASE Refuse
  <2>1. /\ thread["accept"].at \in {"capacity", "victim", "connecting"}
        /\ thread' = [thread EXCEPT !["accept"] = Idle]
        /\ DecrementConnectionCount(thread["accept"].ip)
        /\ UNCHANGED <<node, connected, timer, silent, mNodes>>
    BY <1>6 DEF Refuse, Ends
  <2>2. "accept" \in {"accept", "connect"}
    OBVIOUS
  <2> QED BY <2>1, <2>2, RefuseStep
<1>7. CASE ConnectFails
  <2>1. /\ thread["connect"].at \in {"capacity", "victim", "connecting"}
        /\ thread' = [thread EXCEPT !["connect"] = Idle]
        /\ DecrementConnectionCount(thread["connect"].ip)
        /\ UNCHANGED <<node, connected, timer, silent, mNodes>>
    BY <1>7 DEF ConnectFails, Ends
  <2>2. "connect" \in {"accept", "connect"}
    OBVIOUS
  <2> QED BY <2>1, <2>2, RefuseStep
<1>8. CASE AcceptInsert
  <2>1. /\ thread["accept"].at = "insert" /\ thread' = [thread EXCEPT !["accept"] = Idle]
        /\ Insert(thread["accept"].ip, TRUE)
    BY <1>8 DEF AcceptInsert, Ends
  <2>2. "accept" \in {"accept", "connect"} /\ ("accept" = "accept") = TRUE
    OBVIOUS
  <2> QED BY <2>1, <2>2, InsertStep
<1>9. CASE ConnectInsert
  <2>1. /\ thread["connect"].at = "connecting" /\ thread' = [thread EXCEPT !["connect"] = Idle]
        /\ Insert(thread["connect"].ip, FALSE)
    BY <1>9 DEF ConnectInsert, Ends
  <2>2. "connect" \in {"accept", "connect"} /\ ("connect" = "accept") = FALSE
    OBVIOUS
  <2> QED BY <2>1, <2>2, InsertStep
<1>10. ASSUME NEW n \in NodeId, HandleVersion(n) \/ HandleVerack(n) \/ Expire(n) \/ FallsSilent(n)
       PROVE  PeersInv'
  BY <1>10, HandlerStep
<1>11. ASSUME NEW n \in NodeId, HandshakeTimeout(n) PROVE PeersInv'
  BY <1>11, TimeoutStep
<1>12. ASSUME NEW n \in NodeId, ReadError(n) \/ OtherDrop(n) \/ PingTimeout(n) PROVE PeersInv'
  <2>1. \E t \in {"io", "loop"} : Enter(t, n)
    BY <1>12 DEF ReadError, OtherDrop, PingTimeout
  <2> QED BY <2>1, EnterStep
<1> QED
  BY <1>1, <1>2, <1>3, <1>4, <1>5, <1>6, <1>7, <1>8, <1>9, <1>10, <1>11, <1>12
     DEF Next, AcceptLoop, ConnectLoop, AddNode

LEMMA PeersAlways == Spec => []PeersInv
  BY PeersInit, PeersStep, PTL DEF Spec

-----------------------------------------------------------------------------
(* The theorems *)

\* The count of an address is never above the connections that hold it, however
\* they end and however many threads close them.
THEOREM EveryPlaceComesBack == Spec => []NoPlaceLeaks
<1>1. PeersInv => NoPlaceLeaks
  BY DEF PeersInv
<1> QED BY <1>1, PeersAlways, PTL

\* The connections that peers opened stay within maxConnections, although the
\* room is found in one step and used in another.
THEOREM InboundWithinLimit == Spec => []InboundBounded
<1>1. PeersInv => InboundBounded
  BY DEF PeersInv, RoomInv, Inbound, InboundBounded
<1> QED BY <1>1, PeersAlways, PTL

\* An entry of the table with its flag down is being removed by some thread.
THEOREM NoDeadEntries == Spec => []TableIsLive
<1>1. PeersInv => TableIsLive
  BY DEF PeersInv, TableInv
<1> QED BY <1>1, PeersAlways, PTL
=============================================================================
