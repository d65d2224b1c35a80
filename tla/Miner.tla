------------------------------- MODULE Miner -------------------------------
(***************************************************************************)
(* node::Miner: worker threads that build a template and search for a      *)
(* nonce, a submitter thread that hands what they find to the chain, and   *)
(* the callers of Start and Stop: RPC workers (startmining, stopmining)    *)
(* and the main thread (Shutdown, ~Miner).                                 *)
(*                                                                         *)
(* No lock is held over Start or Stop.  Each tests mMining, stores the     *)
(* flags, and then reads and writes mWorkers and mSubmitter, which nothing *)
(* protects: two calls may meet at each of these points.                   *)
(*                                                                         *)
(* The threads share two atomic flags and the queue mFound.  A step of a   *)
(* thread is one access to what it shares: an atomic, a critical section   *)
(* of mFoundMutex, or one locked call of ChainState.                       *)
(*                                                                         *)
(* ChainState is outside this module: a sequence of tips, of which the     *)
(* miner sees the height, the bits that follow and the hash, here the      *)
(* position in the sequence (0 for the genesis).  Nonces, times and        *)
(* transactions are left out: a hash succeeds or not, a template is too    *)
(* old or not.                                                             *)
(***************************************************************************)
EXTENDS Naturals, Sequences, FiniteSets

CONSTANTS
    Worker,         \* the worker threads startmining asks for
    Caller,         \* the threads that call Start and Stop
    Bits,           \* Bits[h]: the bits GetExpectedBits gives for height h
    MaxBlocks,      \* bound on the blocks the chain gets from outside
    MaxFound,       \* bound on the blocks found
    MaxStarts       \* bound on the calls of Start

ASSUME MinerAssumption ==
    /\ {MaxBlocks, MaxFound, MaxStarts} \subseteq Nat
    /\ DOMAIN Bits = 1..(MaxBlocks + MaxFound + 1)

VARIABLES
    tips,           \* heights of the blocks that have become the tip, in order
    mMining, mStop,
    mFound,         \* blocks found and not yet taken
    wpc,            \* where each worker stands
    template,       \* its block: [id, height, bits, prev]
    spc,            \* where the submitter stands
    block,          \* the block it submits
    notified,       \* mFoundCv has been notified since the submitter waits
    cpc,            \* where each caller stands
    broken,         \* two calls met on mWorkers or mSubmitter
    found,          \* blocks found so far; the last one's id
    submitted,      \* history: ids given to AcceptBlock
    starts          \* calls of Start so far

flags == <<mMining, mStop>>
workerVars == <<wpc, template>>
submitVars == <<spc, block, submitted>>
controlVars == <<cpc, broken, starts>>
vars == <<tips, flags, mFound, workerVars, submitVars, notified, controlVars, found>>

NoBlock == [id |-> 0, height |-> 0, bits |-> 0, prev |-> 0]

HeightOf(b) == IF b = 0 THEN 0 ELSE tips[b]

tip == Len(tips)

NextHeight == HeightOf(tip) + 1

Init ==
    /\ tips = <<>>
    /\ mMining = FALSE /\ mStop = FALSE
    /\ mFound = <<>>
    /\ wpc = [w \in Worker |-> "off"]
    /\ template = [w \in Worker |-> NoBlock]
    /\ spc = "off" /\ block = NoBlock
    /\ notified = FALSE
    /\ cpc = [c \in Caller |-> "idle"] /\ broken = FALSE /\ starts = 0
    /\ found = 0
    /\ submitted = {}

-----------------------------------------------------------------------------
(* ChainState, as the miner meets it *)

\* A block from a peer or from submitblock moves the tip: to a child, or to another
\* branch with more work that may be no higher.
TipMoves ==
    /\ Len(tips) < MaxBlocks
    /\ \E h \in {HeightOf(tip), HeightOf(tip) + 1} \ {0} : tips' = Append(tips, h)
    /\ UNCHANGED <<flags, mFound, workerVars, submitVars, notified, controlVars, found>>

\* The header agrees with the parent it names.
Intact(b) == b.height = HeightOf(b.prev) + 1 /\ b.bits = Bits[b.height]

-----------------------------------------------------------------------------
(* WorkerLoop *)

Running == mMining /\ ~mStop

\* GetHeight, the first of the three reads of BuildBlockTemplate.
ReadHeight(w) ==
    /\ wpc[w] = "loop" /\ Running
    /\ template' = [template EXCEPT ![w] = [NoBlock EXCEPT !.height = NextHeight]]
    /\ wpc' = [wpc EXCEPT ![w] = "bits"]
    /\ UNCHANGED <<tips, flags, mFound, submitVars, notified, controlVars, found>>

\* GetNextBits.
ReadBits(w) ==
    /\ wpc[w] = "bits"
    /\ template' = [template EXCEPT ![w].bits = Bits[HeightOf(tip) + 1]]
    /\ wpc' = [wpc EXCEPT ![w] = "prev"]
    /\ UNCHANGED <<tips, flags, mFound, submitVars, notified, controlVars, found>>

\* GetBestBlockHash, and the rest of the template.
ReadPrev(w) ==
    /\ wpc[w] = "prev"
    /\ template' = [template EXCEPT ![w].prev = tip]
    /\ wpc' = [wpc EXCEPT ![w] = "nonce"]
    /\ UNCHANGED <<tips, flags, mFound, submitVars, notified, controlVars, found>>

\* The template could not be built: log, sleep, once more.
TemplateFails(w) ==
    /\ wpc[w] \in {"bits", "prev"}
    /\ wpc' = [wpc EXCEPT ![w] = "loop"]
    /\ template' = [template EXCEPT ![w] = NoBlock]
    /\ UNCHANGED <<tips, flags, mFound, submitVars, notified, controlVars, found>>

\* RunNonceLoop finds a nonce.
FindNonce(w) ==
    /\ wpc[w] = "nonce" /\ Running
    /\ found < MaxFound
    /\ found' = found + 1
    /\ template' = [template EXCEPT ![w].id = found + 1]
    /\ wpc' = [wpc EXCEPT ![w] = "push"]
    /\ UNCHANGED <<tips, flags, mFound, submitVars, notified, controlVars>>

\* Mutant: a template never grows too old.
StaleByTip(w) == (IF Running THEN {} ELSE {"stop"})
                 \cup (IF tip = template[w].prev THEN {} ELSE {"tip"})

\* Why RunNonceLoop may return without a nonce.  TEMPLATE_REFRESH_MS may have
\* passed at any time: no step counts it.
Stale(w) == (IF Running THEN {} ELSE {"stop"})
            \cup (IF tip = template[w].prev THEN {} ELSE {"tip"})
            \cup {"age"}

GiveUp(w) ==
    /\ wpc[w] = "nonce" /\ Stale(w) # {}
    /\ wpc' = [wpc EXCEPT ![w] = "loop"]
    /\ template' = [template EXCEPT ![w] = NoBlock]
    /\ UNCHANGED <<tips, flags, mFound, submitVars, notified, controlVars, found>>

\* notify_one and notify_all reach the submitter only if it is waiting.
Notify == notified' = (spc = "wait")

Push(w) ==
    /\ wpc[w] = "push"
    /\ mFound' = Append(mFound, template[w])
    /\ template' = [template EXCEPT ![w] = NoBlock]
    /\ wpc' = [wpc EXCEPT ![w] = "loop"]
    /\ Notify
    /\ UNCHANGED <<tips, flags, submitVars, controlVars, found>>

WorkerEnds(w) ==
    /\ wpc[w] = "loop" /\ ~Running
    /\ wpc' = [wpc EXCEPT ![w] = "exit"]
    /\ UNCHANGED <<tips, flags, mFound, template, submitVars, notified, controlVars, found>>

-----------------------------------------------------------------------------
(* SubmitLoop and SubmitBlock *)

\* Mutant: the loop goes on only while there is something to submit.
KeepSubmittingFound == mFound # <<>>

\* The condition of the loop, read without mFoundMutex.
KeepSubmitting == mMining \/ mFound # <<>>

SubmitLoop ==
    /\ spc = "loop"
    /\ spc' = IF KeepSubmitting THEN "wait" ELSE "exit"
    /\ UNCHANGED <<tips, flags, mFound, workerVars, block, submitted, notified, controlVars, found>>

\* Mutant: wait, not wait_for.
WakeNotified == IF notified THEN {"notify"} ELSE {}

\* What ends the wait_for: a notification, or a second in any case.
Wake == (IF notified THEN {"notify"} ELSE {}) \cup {"timeout"}

Woken ==
    /\ spc = "wait" /\ Wake # {}
    /\ spc' = "drain"
    /\ notified' = FALSE
    /\ UNCHANGED <<tips, flags, mFound, workerVars, block, submitted, controlVars, found>>

Take ==
    /\ spc = "drain" /\ mFound # <<>>
    /\ block' = Head(mFound)
    /\ mFound' = Tail(mFound)
    /\ spc' = "submit"
    /\ UNCHANGED <<tips, flags, workerVars, submitted, notified, controlVars, found>>

\* AcceptBlock, then mChainSync and BroadcastBlock when it accepts.  A block on an
\* older tip is kept on the side.
SubmitBlock ==
    /\ spc = "submit"
    /\ submitted' = submitted \cup {block.id}
    /\ tips' = IF Intact(block) /\ block.prev = tip THEN Append(tips, block.height) ELSE tips
    /\ block' = NoBlock
    /\ spc' = "drain"
    /\ UNCHANGED <<flags, mFound, workerVars, notified, controlVars, found>>

Drained ==
    /\ spc = "drain" /\ mFound = <<>>
    /\ spc' = IF mStop THEN "exit" ELSE "loop"
    /\ UNCHANGED <<tips, flags, mFound, workerVars, block, submitted, notified, controlVars, found>>

-----------------------------------------------------------------------------
(* Start and Stop *)

ThreadsOff == spc = "off" /\ \A w \in Worker : wpc[w] = "off"

\* Between its store of the flags and its return a call uses mWorkers and mSubmitter.
Touching(c) == cpc[c] \in {"threads", "workers", "submitter"}

Alone(c) == \A d \in Caller \ {c} : ~Touching(d)

Goes(c, from, to) == cpc[c] = from /\ cpc' = [cpc EXCEPT ![c] = to]

\* Start passes its test; a miner that is mining is left alone.
Start(c) ==
    /\ Goes(c, "idle", "start") /\ ~mMining
    /\ starts < MaxStarts /\ starts' = starts + 1
    /\ UNCHANGED <<tips, flags, mFound, workerVars, submitVars, notified, broken, found>>

\* Mutant: the queue is emptied for the new threads.
StartFlagsClean(c) ==
    /\ Alone(c) /\ ThreadsOff /\ Goes(c, "start", "threads")
    /\ mStop' = FALSE /\ mMining' = TRUE
    /\ mFound' = <<>>
    /\ UNCHANGED <<tips, workerVars, submitVars, notified, broken, starts, found>>

StartFlags(c) ==
    /\ Alone(c) /\ ThreadsOff /\ Goes(c, "start", "threads")
    /\ mStop' = FALSE /\ mMining' = TRUE
    /\ UNCHANGED <<tips, mFound, workerVars, submitVars, notified, broken, starts, found>>

StartThreads(c) ==
    /\ Goes(c, "threads", "idle")
    /\ wpc' = [w \in Worker |-> "loop"]
    /\ spc' = "loop"
    /\ UNCHANGED <<tips, flags, mFound, template, block, submitted>>
    /\ UNCHANGED <<notified, broken, starts, found>>

\* Stop tests mMining and returns at once when it is down, also when another Stop
\* took it down and has not joined the threads yet.
Stop(c) ==
    /\ Goes(c, "idle", IF mMining THEN "stop" ELSE "returned")
    /\ UNCHANGED <<tips, flags, mFound, workerVars, submitVars, notified, broken, starts, found>>

\* The flags and the notification; then the joins.
StopFlags(c) ==
    /\ Alone(c) /\ Goes(c, "stop", "workers")
    /\ mStop' = TRUE /\ mMining' = FALSE
    /\ Notify
    /\ UNCHANGED <<tips, mFound, workerVars, submitVars, broken, starts, found>>

JoinWorkers(c) ==
    /\ Goes(c, "workers", "submitter")
    /\ \A w \in Worker : wpc[w] \in {"exit", "off"}
    /\ wpc' = [w \in Worker |-> "off"]
    /\ UNCHANGED <<tips, flags, mFound, template, submitVars, notified, broken, starts, found>>

\* Mutant: the submitter is left to itself.
LeaveSubmitter(c) ==
    /\ Goes(c, "submitter", "idle")
    /\ UNCHANGED <<tips, flags, mFound, workerVars, submitVars, notified, broken, starts, found>>

JoinSubmitter(c) ==
    /\ Goes(c, "submitter", "idle")
    /\ spc \in {"exit", "off"} /\ spc' = "off"
    /\ UNCHANGED <<tips, flags, mFound, workerVars, block, submitted>>
    /\ UNCHANGED <<notified, broken, starts, found>>

\* The caller goes on with what it stopped the miner for.
Return(c) ==
    /\ Goes(c, "returned", "idle")
    /\ UNCHANGED <<tips, flags, mFound, workerVars, submitVars, notified, broken, starts, found>>

\* Both calls are between their flags and their return, or Start assigns to a
\* std::thread that still runs: a data race, or std::terminate.  Nothing is said of
\* what comes after.
Collide(c) ==
    /\ \/ cpc[c] = "stop" /\ ~Alone(c)
       \/ cpc[c] = "start" /\ ~(Alone(c) /\ ThreadsOff)
    /\ broken' = TRUE
    /\ UNCHANGED <<tips, flags, mFound, workerVars, submitVars, notified, cpc, starts, found>>

-----------------------------------------------------------------------------
WorkerStep(w) ==
    ReadHeight(w) \/ ReadBits(w) \/ ReadPrev(w) \/ GiveUp(w) \/ Push(w) \/ WorkerEnds(w)

SubmitStep == SubmitLoop \/ Woken \/ Take \/ SubmitBlock \/ Drained

CallStep(c) ==
    StartFlags(c) \/ StartThreads(c) \/ StopFlags(c) \/ JoinWorkers(c) \/ JoinSubmitter(c)

Step ==
    \/ TipMoves
    \/ \E w \in Worker : WorkerStep(w) \/ TemplateFails(w) \/ FindNonce(w)
    \/ SubmitStep
    \/ \E c \in Caller : Start(c) \/ Stop(c) \/ Return(c) \/ CallStep(c) \/ Collide(c)

Next == ~broken /\ Step

\* Threads run, and a call that has begun goes on.  Nobody has to find a nonce, to
\* send a block or to call Start or Stop.
Spec ==
    /\ Init /\ [][Next]_vars
    /\ \A w \in Worker : WF_vars(~broken /\ WorkerStep(w))
    /\ WF_vars(~broken /\ SubmitStep)
    /\ \A c \in Caller : WF_vars(~broken /\ CallStep(c))

-----------------------------------------------------------------------------
(* Properties *)

\* A header over some block that is or was the tip, no higher than the next one.
Template == [id : 0..found, height : 0..(Len(tips) + 1), bits : Nat, prev : 0..Len(tips)]

\* Types: a template never names a block that was no tip, nor a height beyond the next.
MinerTypeOK ==
    /\ tips \in Seq(Nat)
    /\ {mMining, mStop, notified} \subseteq BOOLEAN
    /\ mFound \in Seq(Template)
    /\ template \in [Worker -> Template] /\ block \in Template
    /\ wpc \in [Worker -> {"off", "loop", "bits", "prev", "nonce", "push", "exit"}]
    /\ spc \in {"off", "loop", "wait", "drain", "submit", "exit"}
    /\ cpc \in [Caller -> {"idle", "start", "threads", "stop", "workers", "submitter", "returned"}]
    /\ broken \in BOOLEAN

Queued == {mFound[i].id : i \in DOMAIN mFound}
InHand == ({template[w].id : w \in Worker} \cup {block.id}) \ {0}

\* Every block found is in one place: with its worker, in the queue, with the
\* submitter or behind it.  Neither a Stop that cuts in nor the Start after it
\* loses one or submits one twice.
NoneLost ==
    /\ 1..found = InHand \cup Queued \cup submitted
    /\ (InHand \cup Queued) \cap submitted = {}
    /\ Cardinality(Queued) = Len(mFound)

\* No thread is forgotten: once mMining is down, threads are left only while some
\* Stop has still to join them, whichever of the callers passed the tests of Start and
\* Stop before one another.  So the last Stop to return leaves none; an earlier one
\* may.
StoppedIsJoined ==
    ~mMining /\ ~ThreadsOff => \E c \in Caller : cpc[c] \in {"workers", "submitter"}

\* What Shutdown expects of Stop before it destroys the chain: that it leaves no
\* thread behind.  It does not hold: the second of two Stops returns while the first
\* is still joining.
StopLeavesNobody == \A c \in Caller : cpc[c] = "returned" /\ ~mMining => ThreadsOff

\* Calls of Start and Stop keep out of each other's way.  They do not: a Start passes
\* its test while a Stop joins, and two Starts or two Stops pass theirs together.
CallsKeepApart == ~broken

\* A block in the queue is submitted if the miner is not stopped meanwhile, also
\* one an earlier Stop has left there.
FoundIsSubmitted ==
    \A i \in 1..MaxFound :
        (i \in Queued /\ mMining) ~> (i \in submitted \/ ~mMining \/ broken)

\* Stop returns, whatever the threads were doing when it was called, unless another
\* call collides with it.
StopReturns ==
    \A c \in Caller : (cpc[c] \in {"stop", "workers", "submitter"})
                          ~> (cpc[c] = "idle" \/ broken)

Torn(w) == wpc[w] = "nonce" /\ tip = template[w].prev /\ ~Intact(template[w])

\* No worker hashes for ever on a template torn between two tips.  The check for a
\* new tip does not see such a template: it names the current tip as its parent.
TornIsDropped == \A w \in Worker : Torn(w) ~> (~Torn(w) \/ broken)
=============================================================================
