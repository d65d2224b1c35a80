------------------------------- MODULE Peers -------------------------------
(***************************************************************************)
(* The connections of the node to its peers (net.cpp, ConnManager): who is *)
(* let in, the handshake and its timeout, the eviction that makes room,    *)
(* and DisconnectNode, which any thread may call for any peer.             *)
(*                                                                         *)
(* The threads are those of ConnManager::Start: accept, connect, io, and   *)
(* one, "loop", that stands for the message, ping and download loops and   *)
(* for the commands of the operator, of which addnode is left to the       *)
(* connect thread.  They share the table mNodes and the count of           *)
(* connections of each address, each behind a mutex of its own, and the    *)
(* flag `connected' of every node, behind none: DisconnectNode is taken    *)
(* apart at the points where another thread makes a difference.            *)
(*                                                                         *)
(* Messages are those of the handshake; a peer sends VERSION and VERACK    *)
(* in either order, or one of them, and may fall silent at any moment.     *)
(* The pings, novel blocks and payments by which eviction ranks the        *)
(* inbound peers are left open: when there are more than it protects, any  *)
(* of them may turn out to be worst.  An address has one port.             *)
(***************************************************************************)
EXTENDS Naturals, FiniteSets

CONSTANTS
    IP,              \* addresses
    MaxNodes,        \* bound: the node objects that exist at one time
    MaxPerIP,        \* MAX_CONNECTIONS_PER_IP
    MaxConnections,  \* mOptions.maxConnections
    MaxOutbound,     \* mOptions.maxOutbound
    Protected        \* the peers that eviction spares for what they did

NoNode  == 0    \* no node, and no address

ASSUME PeersAssumption ==
    /\ IsFiniteSet(IP) /\ NoNode \notin IP
    /\ {MaxNodes, MaxPerIP, MaxConnections, MaxOutbound, Protected}
           \subseteq Nat

NodeId  == 1..MaxNodes
Thread  == {"accept", "connect", "io", "loop"}

VARIABLES
    addr,            \* the address of each node
    inbound,         \* those that connected to us
    connected,       \* those whose flag is up
    versionSent,     \* those whose VERSION has come
    versionAcked,    \* those whose VERACK has come
    timer,           \* the handshake timeout of each
    silent,          \* those from which nothing will come any more
    mNodes,          \* the table
    count,           \* mConnectionsPerIP
    thread           \* where each thread is, with which node or address

node  == <<addr, inbound, versionSent, versionAcked>>
vars  == <<node, connected, timer, silent, mNodes, count, thread>>

Idle == [at |-> "idle", id |-> NoNode, ip |-> NoNode]
Goes(t, from, to) == /\ thread[t].at = from
                     /\ thread' = [thread EXCEPT ![t].at = to]
Ends(t, from)     == /\ thread[t].at = from
                     /\ thread' = [thread EXCEPT ![t] = Idle]

IsFullyConnected(n) == n \in connected \cap versionSent \cap versionAcked
-----------------------------------------------------------------------------
(***************************************************************************)
(* The count of connections per address, under mConnPerIPMutex.            *)
(***************************************************************************)
CheckConnectionLimitForIP(ip) ==
    /\ count[ip] < MaxPerIP
    /\ count' = [count EXCEPT ![ip] = @ + 1]

\* An address without connections is erased from the map: the count of one
\* that is not there stays at zero
DecrementConnectionCount(ip) ==
    count' = [count EXCEPT ![ip] = IF @ = 0 THEN 0 ELSE @ - 1]
-----------------------------------------------------------------------------
(***************************************************************************)
(* DisconnectNode(node, reason).  Nothing makes the test of the flag and   *)
(* its reset one step.                                                     *)
(***************************************************************************)
Enter(t, n) ==
    /\ thread[t].at = "idle" /\ n \in connected
    /\ thread' = [thread EXCEPT ![t] = [at |-> "close", id |-> n,
                                        ip |-> NoNode]]
    /\ UNCHANGED <<node, connected, timer, silent, mNodes, count>>

\* The flag goes down, timer and socket are closed, the address is counted
\* down.  What the node heard is not read again
Close(t) ==
    /\ Goes(t, "close", "remove")
    /\ LET n == thread[t].id IN
           /\ connected' = connected \ {n}
           /\ versionSent' = versionSent \ {n}
           /\ versionAcked' = versionAcked \ {n}
           /\ timer' = [timer EXCEPT ![n] = IF @ = "armed" THEN "off" ELSE @]
           /\ DecrementConnectionCount(addr[n])
    /\ UNCHANGED <<addr, inbound, silent, mNodes>>

\* Mutant: the entry is left to whoever looks at the table next.
RemoveNodeLater(t) ==
    /\ IF t = "accept" THEN Goes(t, "remove", "insert") ELSE Ends(t, "remove")
    /\ UNCHANGED <<node, connected, timer, silent, mNodes, count>>

\* The accept thread goes on with the connection it made room for
RemoveNode(t) ==
    /\ IF t = "accept" THEN Goes(t, "remove", "insert") ELSE Ends(t, "remove")
    /\ LET n == thread[t].id IN
           /\ mNodes' = mNodes \ {n}
           /\ inbound' = inbound \ {n}
           /\ silent' = silent \ {n}
    /\ UNCHANGED <<addr, versionSent, versionAcked, connected, timer, count>>

DisconnectNode(t) == Close(t) \/ RemoveNode(t)
-----------------------------------------------------------------------------
(***************************************************************************)
(* A node object is free once neither the table, nor a thread, nor a timer *)
(* refers to it.  The bound: a connection begins only when there will be   *)
(* an object for it.                                                       *)
(***************************************************************************)
Free == {n \in NodeId : /\ n \notin mNodes /\ timer[n] = "off"
                        /\ \A t \in Thread : thread[t].id # n}

ObjectLeft ==
    Cardinality(Free) > Cardinality({t \in Thread : thread[t].ip # NoNode})

\* Mutant: no handshake timeout.
InsertPatiently(ip, in) ==
    LET n == CHOOSE f \in Free : TRUE IN
    /\ addr' = [addr EXCEPT ![n] = ip]
    /\ inbound' = IF in THEN inbound \cup {n} ELSE inbound
    /\ connected' = connected \cup {n}
    /\ mNodes' = mNodes \cup {n}
    /\ UNCHANGED <<versionSent, versionAcked, silent, timer, count>>

\* A node enters the table; its handshake timeout, our VERSION and the first
\* read follow
Insert(ip, in) ==
    LET n == CHOOSE f \in Free : TRUE IN
    /\ addr' = [addr EXCEPT ![n] = ip]
    /\ inbound' = IF in THEN inbound \cup {n} ELSE inbound
    /\ connected' = connected \cup {n}
    /\ mNodes' = mNodes \cup {n}
    /\ timer' = [timer EXCEPT ![n] = "armed"]
    /\ UNCHANGED <<versionSent, versionAcked, silent, count>>

(***************************************************************************)
(* AcceptLoop.                                                             *)
(***************************************************************************)
Accept(ip) ==
    /\ thread["accept"].at = "idle" /\ ObjectLeft
    /\ CheckConnectionLimitForIP(ip)
    /\ thread' = [thread EXCEPT !["accept"] = [at |-> "capacity",
                                               id |-> NoNode, ip |-> ip]]
    /\ UNCHANGED <<node, connected, timer, silent, mNodes>>

AtCapacity == Cardinality(mNodes) >= MaxConnections

HasRoom ==
    /\ Goes("accept", "capacity", "insert") /\ ~AtCapacity
    /\ UNCHANGED <<node, connected, timer, silent, mNodes, count>>

\* Mutant: outbound peers compete too.
CandidatesAll == {n \in mNodes : IsFullyConnected(n)}

\* Fully connected inbound peers compete
Candidates == {n \in mNodes : IsFullyConnected(n) /\ n \in inbound}

EvictOneInboundPeer ==
    /\ AtCapacity
    /\ Cardinality(Candidates) > Protected
    /\ thread["accept"].at = "capacity"
    /\ \E n \in Candidates :
           thread' = [thread EXCEPT !["accept"].at = "victim",
                                    !["accept"].id = n]
    /\ UNCHANGED <<node, connected, timer, silent, mNodes, count>>

\* The victim is looked up again; DisconnectNode returns at once when another
\* thread took the flag down in the meantime
Evict ==
    /\ thread["accept"].id \in mNodes
    /\ Goes("accept", "victim",
            IF thread["accept"].id \in connected THEN "close" ELSE "insert")
    /\ UNCHANGED <<node, connected, timer, silent, mNodes, count>>

\* Mutant: the place that was counted is not given back.
RefuseCounted ==
    /\ \/ AtCapacity /\ Cardinality(Candidates) <= Protected
          /\ Ends("accept", "capacity")
       \/ thread["accept"].id \notin mNodes /\ Ends("accept", "victim")
    /\ UNCHANGED <<node, connected, timer, silent, mNodes, count>>

\* No candidate, or the victim has gone by itself
Refuse ==
    /\ \/ AtCapacity /\ Cardinality(Candidates) <= Protected
          /\ Ends("accept", "capacity")
       \/ thread["accept"].id \notin mNodes /\ Ends("accept", "victim")
    /\ DecrementConnectionCount(thread["accept"].ip)
    /\ UNCHANGED <<node, connected, timer, silent, mNodes>>

AcceptInsert ==
    /\ Ends("accept", "insert")
    /\ Insert(thread["accept"].ip, TRUE)

AcceptLoop == HasRoom \/ EvictOneInboundPeer \/ Evict \/ Refuse \/ AcceptInsert
-----------------------------------------------------------------------------
(***************************************************************************)
(* ConnectToAddress, from ConnectLoop while outbound slots are free, or    *)
(* from AddNode, which the operator calls whether they are or not.         *)
(***************************************************************************)
IsAlreadyConnected(ip) == \E n \in mNodes \ inbound : addr[n] = ip

Connect(ip) ==
    /\ thread["connect"].at = "idle" /\ ObjectLeft
    /\ ~IsAlreadyConnected(ip)
    /\ CheckConnectionLimitForIP(ip)
    /\ thread' = [thread EXCEPT !["connect"] = [at |-> "connecting",
                                                id |-> NoNode, ip |-> ip]]
    /\ UNCHANGED <<node, connected, timer, silent, mNodes>>

ConnectLoop == /\ Cardinality(mNodes \ inbound) < MaxOutbound
               /\ \E ip \in IP : Connect(ip)

AddNode == \E ip \in IP : Connect(ip)

ConnectInsert ==
    /\ Ends("connect", "connecting")
    /\ Insert(thread["connect"].ip, FALSE)

ConnectFails ==
    /\ Ends("connect", "connecting")
    /\ DecrementConnectionCount(thread["connect"].ip)
    /\ UNCHANGED <<node, connected, timer, silent, mNodes>>
-----------------------------------------------------------------------------
(***************************************************************************)
(* The io thread: one handler at a time.                                   *)
(***************************************************************************)
IoFree == thread["io"].at = "idle"

\* The first VERSION; what we send in reply changes nothing here
HandleVersion(n) ==
    /\ IoFree /\ n \in connected \ (silent \cup versionSent)
    /\ versionSent' = versionSent \cup {n}
    /\ UNCHANGED <<addr, inbound, versionAcked, connected, timer, silent,
                   mNodes, count, thread>>

\* The first VERACK cancels the timeout, whether VERSION has come or not
HandleVerack(n) ==
    /\ IoFree /\ n \in connected \ (silent \cup versionAcked)
    /\ versionAcked' = versionAcked \cup {n}
    /\ timer' = [timer EXCEPT ![n] = IF @ = "armed" THEN "off" ELSE @]
    /\ UNCHANGED <<addr, inbound, versionSent, connected, silent, mNodes,
                   count, thread>>

\* Thirty seconds without a handshake
Expire(n) ==
    /\ timer[n] = "armed"
    /\ timer' = [timer EXCEPT ![n] = "expired"]
    /\ UNCHANGED <<node, connected, silent, mNodes, count, thread>>

\* A handler that was already due when the timer was cancelled looks at the
\* handshake again
HandshakeTimeout(n) ==
    /\ IoFree /\ timer[n] = "expired"
    /\ timer' = [timer EXCEPT ![n] = "off"]
    /\ IF n \notin connected \/ IsFullyConnected(n)
       THEN UNCHANGED thread
       ELSE thread' = [thread EXCEPT !["io"] = [at |-> "close", id |-> n,
                                                ip |-> NoNode]]
    /\ UNCHANGED <<node, connected, silent, mNodes, count>>

\* A read that fails, or a message the protocol refuses
ReadError(n) == Enter("io", n)

\* A write that fails, a download that stalls, or the disconnectnode command
OtherDrop(n) == Enter("loop", n)

\* PingLoop: twenty minutes without a word
PingTimeout(n) == IsFullyConnected(n) /\ n \in silent /\ Enter("loop", n)

FallsSilent(n) ==
    /\ n \in connected \ silent
    /\ silent' = silent \cup {n}
    /\ UNCHANGED <<node, connected, timer, mNodes, count, thread>>
-----------------------------------------------------------------------------
Init ==
    /\ addr = [n \in NodeId |-> NoNode]
    /\ inbound = {} /\ connected = {} /\ mNodes = {}
    /\ versionSent = {} /\ versionAcked = {} /\ silent = {}
    /\ timer = [n \in NodeId |-> "off"]
    /\ count = [ip \in IP |-> 0]
    /\ thread = [t \in Thread |-> Idle]

Next ==
    \/ \E t \in Thread : DisconnectNode(t)
    \/ \E ip \in IP : Accept(ip)
    \/ AcceptLoop
    \/ ConnectLoop \/ AddNode \/ ConnectInsert \/ ConnectFails
    \/ \E n \in NodeId : \/ HandleVersion(n) \/ HandleVerack(n)
                         \/ Expire(n) \/ HandshakeTimeout(n)
                         \/ ReadError(n) \/ OtherDrop(n) \/ PingTimeout(n)
                         \/ FallsSilent(n)

(***************************************************************************)
(* Every thread goes on with what it began, and the clocks of the          *)
(* handshake and of the pings run.  Nothing is asked of the peers or of    *)
(* the operator.                                                           *)
(***************************************************************************)
Fairness ==
    /\ \A t \in Thread : WF_vars(DisconnectNode(t))
    /\ WF_vars(\E n \in NodeId : Expire(n))
    /\ WF_vars(\E n \in NodeId : HandshakeTimeout(n))
    /\ WF_vars(\E n \in NodeId : PingTimeout(n))

Spec == Init /\ [][Next]_vars /\ Fairness
-----------------------------------------------------------------------------
\* Every variable stays in its set; in particular no address is ever counted
\* past its limit.
PeersTypeOK ==
    /\ addr \in [NodeId -> IP \cup {NoNode}]
    /\ inbound \subseteq NodeId /\ connected \subseteq NodeId
    /\ mNodes \subseteq NodeId
    /\ versionSent \subseteq NodeId /\ versionAcked \subseteq NodeId /\ silent \subseteq NodeId
    /\ timer \in [NodeId -> {"off", "armed", "expired"}]
    /\ count \in [IP -> 0..MaxPerIP]
    /\ \A t \in Thread :
           /\ thread[t].id \in NodeId \cup {NoNode} /\ thread[t].ip \in IP \cup {NoNode}
           /\ thread[t].at \in {"idle", "close", "remove",
                                "capacity", "victim", "insert", "connecting"}

\* The places an address still holds: nodes not yet counted down, and
\* connections that were counted and are not yet in the table.
Holders(ip) == Cardinality({n \in connected : addr[n] = ip})
                   + Cardinality({t \in Thread : thread[t].ip = ip})

\* No place leaks: the count of an address is never above the connections
\* that hold it, whichever way they end - refused at capacity, failed to
\* connect, evicted, or closed by several threads at once.  So an address
\* with no connection left can always connect again.
NoPlaceLeaks == \A ip \in IP : count[ip] <= Holders(ip)

\* Outbound connections are made past the limit, but the connections that
\* others opened never exceed it, although the room is looked for, made and
\* used in separate steps while nodes come and go.
InboundBounded == Cardinality(connected \cap inbound) <= MaxConnections

\* A node in the table whose connection is closed is being removed: whoever
\* takes the flag down, and whoever finds it down and leaves, no entry stays
\* behind.
TableIsLive ==
    \A n \in mNodes \ connected :
        \E t \in Thread : /\ thread[t].id = n
                          /\ thread[t].at \in {"close", "remove"}

\* Those that sent VERACK and not VERSION: no timer runs for them, and the ping loop
\* and the eviction look at fully connected peers only.
HalfShaken == versionAcked \ versionSent

\* A table full of silent peers does not stay so as long as one of them is not half
\* shaken: whether it fell silent before any word, after VERSION or after both, a
\* timeout gives its slot back.
SlotsComeBack ==
    LET stuck == AtCapacity /\ mNodes \subseteq silent /\ mNodes \ HalfShaken # {}
    IN  stuck ~> ~stuck

\* The same of every table full of silent peers.  It does not hold: after a VERACK
\* without VERSION the handshake counts as complete for its timer and for nothing else,
\* and the slot never comes back.
EverySlotComesBack ==
    LET stuck == AtCapacity /\ mNodes \subseteq silent IN stuck ~> ~stuck
=============================================================================
