----------------------------- MODULE RPCServer -----------------------------
(***************************************************************************)
(* The control port of the node and the shutdown of the process            *)
(* (rpc_server.cpp, main.cpp).  Three kinds of thread meet here:           *)
(*                                                                         *)
(*  - one event thread runs every handler of the io_context: it accepts,   *)
(*    reads, keeps the deadline of each connection and refuses what it     *)
(*    will not serve;                                                      *)
(*  - a pool of workers takes whole requests from a bounded queue,         *)
(*    executes them against the node and writes the replies;               *)
(*  - the main thread starts the server in warmup and, once a shutdown is  *)
(*    asked for, takes the node apart piece by piece.                      *)
(*                                                                         *)
(* A connection is shared by handlers, queue and worker through            *)
(* shared_ptr; it is destroyed, and its slot given back, when the last of  *)
(* them lets go.  What is inside a request is abstracted to the commands   *)
(* of it that act on the server's or the node's threads.  Bytes that do    *)
(* not complete a request only post the next read, which is no step here.  *)
(***************************************************************************)
EXTENDS Naturals, Sequences, FiniteSets

CONSTANTS
    Clients,         \* bound: the connections clients open, each once
    Worker,          \* the threads of the pool
    QueueDepth,      \* mQueueDepth
    MaxConnections,  \* RPC_MAX_CONNECTIONS
    Commands         \* the commands that start or stop threads of the node

ASSUME RPCAssumption == /\ Clients \in Nat /\ IsFiniteSet(Worker)
                        /\ QueueDepth \in Nat \ {0}
                        /\ MaxConnections \in Nat \ {0}
                        /\ Commands \subseteq {"startmining", "stop"}

Conn   == 1..Clients   \* in the order the acceptor hands them out
NoConn == 0

VARIABLES
    status,          \* what mDispatched, mClosed and the client know of each
    reading,         \* those with an asynchronous read outstanding
    timer,           \* the deadline: none, armed, or its handler is queued
    mQueue,          \* requests that wait for a worker
    worker,          \* what each worker is at, and on which connection
    event,           \* what the event thread is at, and on which connection
    mRunning,        \* StartAccept goes on
    mQueueRunning,   \* the queue takes requests and workers wait for more
    stopped,         \* mIO.stop() was called
    mInWarmup,       \* commands are refused
    gShutdown,       \* the main thread was asked to shut down
    mining,          \* the miner's threads run
    gone,            \* the parts of the node that were destroyed
    main             \* where the main thread is

clients  == <<status, reading, timer>>
serving  == <<mQueue, worker, event>>
switches == <<mRunning, mQueueRunning, stopped, mInWarmup>>
process  == <<gShutdown, mining, gone, main>>
vars     == <<clients, serving, switches, process>>

(***************************************************************************)
(* A connection is "new" until the acceptor hands it out, then "open",     *)
(* "dispatched" once mDispatched is set, and closed: "answered" when a     *)
(* reply was written before, "gone" when the caller had left.              *)
(***************************************************************************)
Statuses    == {"new", "open", "dispatched", "answered", "gone"}
Arrived     == {c \in Conn : status[c] # "new"}
mDispatched(c) == status[c] = "dispatched"
mClosed(c)  == status[c] \in {"answered", "gone"}

At(p)       == [at |-> p, conn |-> NoConn]
AtOn(p, c)  == [at |-> p, conn |-> c]
InQueue     == {mQueue[i] : i \in DOMAIN mQueue}

\* Who is writing to the socket of c
Writers(c)  == {w \in Worker : worker[w] = AtOn("write", c)}
                   \cup (IF event = AtOn("write", c) THEN {"event"} ELSE {})

\* The shared_ptrs: an outstanding handler, the queue or a thread holds c
Alive       == {c \in Conn : \/ c \in reading
                             \/ timer[c] # "none"
                             \/ c \in InQueue
                             \/ event.conn = c
                             \/ \E w \in Worker : worker[w].conn = c}

mActiveConnections == Cardinality(Alive)
-----------------------------------------------------------------------------
(***************************************************************************)
(* The event thread.  It runs one handler at a time until mIO.stop().      *)
(***************************************************************************)
EventFree   == event.at = "idle" /\ ~stopped
Arriving(c) == c = Cardinality(Arrived) + 1

\* mTimer.cancel(): a wait that is over keeps its place in the handler queue
\* and will be run with no error
Cancelled(c) == [timer EXCEPT ![c] = IF @ = "armed" THEN "aborted" ELSE @]

\* Mutant: Start arms no deadline.
OnAcceptPatient(c) ==
    /\ EventFree /\ mRunning /\ Arriving(c)
    /\ status' = [status EXCEPT ![c] = "open"]
    /\ IF mActiveConnections + 1 > MaxConnections
       THEN event' = AtOn("write", c) /\ UNCHANGED reading
       ELSE reading' = reading \cup {c} /\ UNCHANGED event
    /\ UNCHANGED <<timer, mQueue, worker, switches, process>>

\* The new connection counts itself before the limit is looked at
OnAccept(c) ==
    /\ EventFree /\ mRunning /\ Arriving(c)
    /\ status' = [status EXCEPT ![c] = "open"]
    /\ IF mActiveConnections + 1 > MaxConnections
       THEN /\ event' = AtOn("write", c)
            /\ UNCHANGED <<reading, timer>>
       ELSE /\ reading' = reading \cup {c}
            /\ timer' = [timer EXCEPT ![c] = "armed"]
            /\ UNCHANGED event
    /\ UNCHANGED <<mQueue, worker, switches, process>>

\* Not on the rpcallowip list: Reject(403)
OnAcceptForbidden(c) ==
    /\ EventFree /\ mRunning /\ Arriving(c)
    /\ status' = [status EXCEPT ![c] = "open"]
    /\ event' = AtOn("write", c)
    /\ UNCHANGED <<reading, timer, mQueue, worker, switches, process>>

\* The handler of a read that a Close aborted
OnReadClosed(c) ==
    /\ EventFree /\ c \in reading /\ mClosed(c)
    /\ reading' = reading \ {c}
    /\ UNCHANGED <<status, timer, serving, switches, process>>

\* The caller went away
OnReadError(c) ==
    /\ EventFree /\ c \in reading /\ ~mClosed(c)
    /\ reading' = reading \ {c}
    /\ timer' = Cancelled(c)
    /\ status' = [status EXCEPT ![c] = "gone"]
    /\ UNCHANGED <<serving, switches, process>>

\* Headers too large, not a POST, a bad length, no authorization, no body
OnReadBad(c) ==
    /\ EventFree /\ c \in reading /\ ~mClosed(c)
    /\ reading' = reading \ {c}
    /\ event' = AtOn("write", c)
    /\ UNCHANGED <<status, timer, mQueue, worker, switches, process>>

\* Mutant: nobody is notified.
EnqueueQuietly(c) ==
    IF mQueueRunning /\ Len(mQueue) < QueueDepth
    THEN mQueue' = Append(mQueue, c) /\ UNCHANGED <<worker, event>>
    ELSE event' = AtOn("write", c) /\ UNCHANGED <<mQueue, worker>>

\* The push under mQueueMutex and the mQueueCv.notify_one() after it: a worker
\* that takes the request in between leaves the one woken nothing to do
EnqueueConnection(c) ==
    LET waiting == {w \in Worker : worker[w].at = "wait"} IN
    IF mQueueRunning /\ Len(mQueue) < QueueDepth
    THEN /\ mQueue' = Append(mQueue, c)
         /\ IF waiting = {} THEN UNCHANGED worker
            ELSE \E w \in waiting : worker' = [worker EXCEPT ![w] = At("idle")]
         /\ UNCHANGED event
    ELSE event' = AtOn("write", c) /\ UNCHANGED <<mQueue, worker>>

\* The request is whole: from here the socket belongs to a worker
Dispatch(c) ==
    /\ EventFree /\ c \in reading /\ ~mClosed(c)
    /\ reading' = reading \ {c}
    /\ status' = [status EXCEPT ![c] = "dispatched"]
    /\ timer' = Cancelled(c)
    /\ EnqueueConnection(c)
    /\ UNCHANGED <<switches, process>>

\* Thirty seconds have gone by since Start
Expire(c) ==
    /\ timer[c] = "armed"
    /\ timer' = [timer EXCEPT ![c] = "expired"]
    /\ UNCHANGED <<status, reading, serving, switches, process>>

\* Mutant: CancelTimer is trusted to keep the handler from running.
OnDeadlineTrusting(c) ==
    /\ EventFree /\ timer[c] \in {"expired", "aborted"}
    /\ timer' = [timer EXCEPT ![c] = "none"]
    /\ IF timer[c] = "aborted" \/ mClosed(c)
       THEN UNCHANGED event
       ELSE event' = AtOn("write", c)
    /\ UNCHANGED <<status, reading, mQueue, worker, switches, process>>

OnDeadline(c) ==
    /\ EventFree /\ timer[c] \in {"expired", "aborted"}
    /\ timer' = [timer EXCEPT ![c] = "none"]
    /\ IF timer[c] = "aborted" \/ mDispatched(c) \/ mClosed(c)
       THEN UNCHANGED event
       ELSE event' = AtOn("write", c)
    /\ UNCHANGED <<status, reading, mQueue, worker, switches, process>>

\* WriteAllAndClose on the event thread: the write is over, within the send
\* timeout it set, and Close follows
RefusalWritten ==
    /\ event.at = "write"
    /\ event' = At("idle")
    /\ status' = [status EXCEPT ![event.conn] = "answered"]
    /\ timer' = Cancelled(event.conn)
    /\ UNCHANGED <<reading, mQueue, worker, switches, process>>

\* mIO.run() returns
EventThreadEnds ==
    /\ event.at = "idle" /\ stopped
    /\ event' = At("ended")
    /\ UNCHANGED <<clients, mQueue, worker, switches, process>>

EventThread == \/ \E c \in Conn : \/ OnAccept(c) \/ OnAcceptForbidden(c)
                                  \/ OnReadClosed(c) \/ OnReadError(c)
                                  \/ OnReadBad(c) \/ Dispatch(c)
                                  \/ OnDeadline(c)
               \/ RefusalWritten \/ EventThreadEnds
-----------------------------------------------------------------------------
(***************************************************************************)
(* The workers.                                                            *)
(***************************************************************************)

\* mQueueCv.wait: the queue is looked at again under the lock on every wake
Wait(w) ==
    /\ worker[w].at = "idle" /\ mQueueRunning /\ mQueue = << >>
    /\ worker' = [worker EXCEPT ![w] = At("wait")]
    /\ UNCHANGED <<clients, mQueue, event, switches, process>>

Take(w) ==
    /\ worker[w].at = "idle" /\ mQueue # << >>
    /\ worker' = [worker EXCEPT ![w] = AtOn("parse", Head(mQueue))]
    /\ mQueue' = Tail(mQueue)
    /\ UNCHANGED <<clients, event, switches, process>>

\* The loop ends only when the queue is drained
WorkerEnds(w) ==
    /\ worker[w].at = "idle" /\ ~mQueueRunning /\ mQueue = << >>
    /\ worker' = [worker EXCEPT ![w] = At("ended")]
    /\ UNCHANGED <<clients, mQueue, event, switches, process>>

\* A request that cannot be read, or that comes in warmup, is answered with
\* an error; the rest reaches the handlers of its commands
BuildResponseBody(w) ==
    /\ worker[w].at = "parse"
    /\ \E p \in {"write"} \cup (IF mInWarmup THEN {} ELSE {"run"}) :
           worker' = [worker EXCEPT ![w].at = p]
    /\ UNCHANGED <<clients, mQueue, event, switches, process>>

\* The handlers return; a batch runs several.  The stop command leaves
\* RequestShutdown to a detached thread, 200 ms later: that delay is part of
\* the time the main thread takes to see it.  Every other command only uses
\* the node while it runs
CommandsEnd(w, cmds) ==
    /\ worker[w].at = "run"
    /\ worker' = [worker EXCEPT ![w].at = "write"]
    /\ mining' = (mining \/ "startmining" \in cmds)
    /\ gShutdown' = (gShutdown \/ "stop" \in cmds)
    /\ UNCHANGED <<clients, mQueue, event, switches, gone, main>>

ReplyWritten(w) ==
    /\ worker[w].at = "write"
    /\ LET c == worker[w].conn IN
           /\ status' = [status EXCEPT ![c] = "answered"]
           /\ timer' = Cancelled(c)
    /\ worker' = [worker EXCEPT ![w] = At("idle")]
    /\ UNCHANGED <<reading, mQueue, event, switches, process>>

WorkerLoop(w) == \/ Wait(w) \/ Take(w) \/ WorkerEnds(w)
                 \/ BuildResponseBody(w) \/ ReplyWritten(w)
                 \/ \E cmds \in SUBSET Commands : CommandsEnd(w, cmds)
-----------------------------------------------------------------------------
(***************************************************************************)
(* The main thread: the end of main() and MoneuNode::Shutdown.             *)
(***************************************************************************)
\* SIGINT or SIGTERM
SignalHandler ==
    /\ ~gShutdown
    /\ gShutdown' = TRUE
    /\ UNCHANGED <<clients, serving, switches, mining, gone,
                   main>>

Goes(from, to) == main = from /\ main' = to

SetWarmupFinished ==
    /\ Goes("warmup", "loop")
    /\ mInWarmup' = FALSE
    /\ UNCHANGED <<clients, serving, mRunning, mQueueRunning, stopped,
                   gShutdown, mining, gone>>

StopMiner ==
    /\ gShutdown /\ Goes("loop", "interrupt")
    /\ mining' = FALSE
    /\ UNCHANGED <<clients, serving, switches, gShutdown, gone>>

\* RPCServer::Interrupt.  What can happen between its first assignment and
\* its second can happen before the first
Interrupt ==
    /\ Goes("interrupt", "notify")
    /\ mRunning' = FALSE /\ mQueueRunning' = FALSE
    /\ UNCHANGED <<clients, serving, stopped, mInWarmup, gShutdown,
                   mining, gone>>

\* Mutant: notify_one.
InterruptOneWaiter ==
    LET waiting == {w \in Worker : worker[w].at = "wait"} IN
    /\ Goes("notify", "peers")
    /\ IF waiting = {} THEN UNCHANGED worker
       ELSE \E w \in waiting : worker' = [worker EXCEPT ![w] = At("idle")]
    /\ stopped' = TRUE
    /\ UNCHANGED <<clients, mQueue, event, mRunning, mQueueRunning, mInWarmup,
                   gShutdown, mining, gone>>

\* mQueueCv.notify_all() and mIO.stop()
InterruptWaiters ==
    /\ Goes("notify", "peers")
    /\ worker' = [w \in Worker |-> IF worker[w].at = "wait" THEN At("idle")
                                                            ELSE worker[w]]
    /\ stopped' = TRUE
    /\ UNCHANGED <<clients, mQueue, event, mRunning, mQueueRunning, mInWarmup,
                   gShutdown, mining, gone>>

\* Peers saved, the connection manager stopped and destroyed, the pool saved
\* and the wallet locked
FreeConnManager ==
    /\ Goes("peers", "chain")
    /\ gone' = gone \cup {"connManager"}
    /\ UNCHANGED <<clients, serving, switches, gShutdown,
                   mining>>

FreeChainState ==
    /\ Goes("chain", "join")
    /\ gone' = gone \cup {"chainState"}
    /\ UNCHANGED <<clients, serving, switches, gShutdown,
                   mining>>

\* RPCServer::Stop: its Interrupt finds nothing left to do, the workers are
\* joined, then the event thread; what is left in the queue is dropped
StopServer ==
    /\ \A w \in Worker : worker[w].at = "ended"
    /\ event.at = "ended"
    /\ Goes("join", "done")
    /\ mQueue' = << >>
    /\ UNCHANGED <<clients, worker, event, switches, gShutdown,
                   mining, gone>>

Main == \/ SetWarmupFinished \/ StopMiner
        \/ Interrupt \/ InterruptWaiters
        \/ FreeConnManager \/ FreeChainState \/ StopServer
-----------------------------------------------------------------------------
\* RPCServer::Start has returned
Init ==
    /\ status = [c \in Conn |-> "new"]
    /\ reading = {}
    /\ timer = [c \in Conn |-> "none"]
    /\ mQueue = << >>
    /\ worker = [w \in Worker |-> At("idle")]
    /\ event = At("idle")
    /\ mRunning = TRUE /\ mQueueRunning = TRUE
    /\ stopped = FALSE /\ mInWarmup = TRUE
    /\ gShutdown = FALSE /\  mining = FALSE
    /\ gone = {} /\ main = "warmup"

Next == \/ EventThread
        \/ \E c \in Conn : Expire(c)
        \/ \E w \in Worker : WorkerLoop(w)
        \/ SignalHandler
        \/ Main

(***************************************************************************)
(* The deadline passes, the event thread runs the handlers that are ready, *)
(* a send ends within its timeout, a command returns, and the scheduler    *)
(* runs every thread.  No client is bound to send anything, and nobody is  *)
(* bound to ask for a shutdown.                                            *)
(***************************************************************************)
Fairness ==
    /\ \A c \in Conn : WF_vars(Expire(c) \/ OnDeadline(c) \/ OnReadClosed(c))
    /\ WF_vars(RefusalWritten \/ EventThreadEnds)
    /\ \A w \in Worker : WF_vars(WorkerLoop(w))
    /\ WF_vars(Main)

Spec == Init /\ [][Next]_vars /\ Fairness
-----------------------------------------------------------------------------
\* Every variable stays in its set, a thread that serves a connection serves
\* one that was accepted, and the queue never holds a request twice or more
\* requests than connections may be open.
RPCTypeOK ==
    /\ status \in [Conn -> Statuses]
    /\ reading \subseteq Arrived /\ InQueue \subseteq Arrived
    /\ timer \in [Conn -> {"none", "armed", "expired", "aborted"}]
    /\ Cardinality(InQueue) = Len(mQueue) /\ Len(mQueue) <= QueueDepth
    /\ \A w \in Worker :
           \/ worker[w].at \in {"idle", "wait", "ended"}
              /\ worker[w].conn = NoConn
           \/ worker[w].at \in {"parse", "run", "write"}
              /\ worker[w].conn \in Arrived
    /\ \/ event.at \in {"idle", "ended"} /\ event.conn = NoConn
       \/ event.at = "write" /\ event.conn \in Arrived
    /\ {mRunning, mQueueRunning, stopped, mInWarmup, gShutdown, mining} \subseteq BOOLEAN
    /\ gone \subseteq {"connManager", "chainState"}
    /\ main \in {"warmup", "loop", "interrupt", "notify", "peers",
                 "chain", "join", "done"}

\* "Nothing else is using the socket at that moment" (WriteAllAndClose): the
\* event thread and the workers never write to one socket together, and
\* never to one that was closed, although a deadline may pass while the
\* request is queued or executed.
OneWriter ==
    \A c \in Conn : /\ Cardinality(Writers(c)) <= 1
                    /\ Writers(c) # {} => ~mClosed(c)

\* The shutdown "mirrors Bitcoin's approach where libevent finishes the
\* active request before shutting down" (the comment on the stop command):
\* when the chain state is destroyed no command is running against it, and
\* no miner either.
ActiveRequestFinishes ==
    "chainState" \in gone =>
        ~mining /\ \A w \in Worker : worker[w].at # "run"

\* A request that entered the queue is answered, also when the server is
\* interrupted behind it.
QueuedIsAnswered == \A c \in Conn : c \in InQueue ~> status[c] = "answered"

\* The slot of every connection comes back while the server accepts: a
\* client that sends nothing costs it for thirty seconds and no longer.
SlotReturns == \A c \in Conn : c \in Alive ~> c \notin Alive \/ ~mRunning

\* A shutdown that was asked for comes to its end: no worker sleeps through
\* it and no thread waits for itself, although the stop command runs on one
\* of the workers that are joined.
ShutdownEnds == gShutdown ~> main = "done"
=============================================================================
