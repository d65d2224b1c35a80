---------------------------- MODULE BlockDownload ----------------------------
(***************************************************************************)
(* How a node catches up with its peers: net::ConnManager asks for blocks, *)
(* watches the requests and drops the peers that do not answer; the        *)
(* onBlock callback parks a block whose parent is missing.                 *)
(*                                                                         *)
(* Two threads act: the io thread handles messages one at a time, and the  *)
(* download thread runs a check every 20 seconds, between any two items of *)
(* an inventory the io thread is handling.  The peers share one chain,     *)
(* whose blocks are their heights (a rival branch is a matter for          *)
(* ChainState), and a connection delivers until it breaks.  A locator that *)
(* was overtaken lists blocks we have by now, which are skipped, so only   *)
(* whether a peer has one to answer is kept.                               *)
(*                                                                         *)
(* Time is counted in checks of the download thread.  An honest peer       *)
(* answers a request before AnswerChecks of them have passed; any other    *)
(* peer may leave a request unanswered for ever.                           *)
(***************************************************************************)
EXTENDS Naturals, Sequences, FiniteSets, FiniteSetsExt, SequencesExt

CONSTANTS
    Peer, Honest,
    MaxHeight,      \* bound on the chain of the peers
    Start,          \* its length at the start
    MaxPerPeer,     \* MAX_BLOCKS_IN_FLIGHT_PER_PEER
    Window,         \* BLOCK_DOWNLOAD_WINDOW
    MaxOrphans,     \* MAX_ORPHAN_BLOCKS
    StallChecks,    \* BLOCK_STALL_TIMEOUT_SEC, in checks
    TimeoutChecks,  \* BLOCK_DOWNLOAD_TIMEOUT_BASE, in checks
    ExpireChecks,   \* BLOCK_IN_FLIGHT_TIMEOUT_SEC, in checks
    AnswerChecks,   \* bound on the time an honest peer takes
    MaxBreaks,      \* bound on connections that break and on visits of the others
    None, Gone      \* no peer, and a peer that is not connected any more

ASSUME DownloadAssumption ==
    /\ Honest \subseteq Peer
    /\ {None, Gone} \cap Peer = {} /\ None # Gone
    /\ {MaxHeight, Start, MaxPerPeer, Window, MaxOrphans, StallChecks, TimeoutChecks, ExpireChecks,
        AnswerChecks, MaxBreaks} \subseteq Nat
    /\ Start <= MaxHeight /\ MaxOrphans # 0
    /\ AnswerChecks <= StallChecks /\ StallChecks < TimeoutChecks /\ TimeoutChecks < ExpireChecks

Block == 1..MaxHeight

VARIABLES
    height,         \* blocks 1..height are connected
    parked,         \* gOrphanBlocks, oldest first
    net,            \* length of the chain of the peers
    up,             \* peers fully connected
    best,           \* [Peer -> the height its VERSION reported]
    asked,          \* peers with a GETBLOCKS to answer
    wanted,         \* [Peer -> blocks of a GETDATA it has still to answer]
    pushed,         \* [Peer -> new blocks it sends unasked]
    mBlocksInFlight,    \* [Block -> [peer, age]]
    mStallingSince,     \* the peer marked as stalling: [peer, age]
    inv,            \* the inventory the io thread handles: [peer, todo, batch]
    breaks          \* counts what MaxBreaks bounds

peerVars == <<up, best, asked, wanted, pushed>>
chainVars == <<height, parked, net>>
flightVars == <<mBlocksInFlight, mStallingSince>>
vars == <<chainVars, peerVars, flightVars, inv, breaks>>

NoRequest == [peer |-> None, age |-> 0]
NoStall == NoRequest
NoInv == [peer |-> None, todo |-> <<>>, batch |-> {}]

Init ==
    /\ height = 0 /\ parked = <<>> /\ net = Start
    /\ up = {} /\ best = [p \in Peer |-> 0]
    /\ asked = {}
    /\ wanted = [p \in Peer |-> {}]
    /\ pushed = [p \in Peer |-> {}]
    /\ mBlocksInFlight = [b \in Block |-> NoRequest]
    /\ mStallingSince = NoStall
    /\ inv = NoInv
    /\ breaks = 0

InFlight == {b \in Block : mBlocksInFlight[b].peer # None}

-----------------------------------------------------------------------------
(* Connections *)

\* The handshake ends: HandleVersion, HandleVerack and MaybeStartSync, which asks a
\* peer that reports a longer chain.  A peer that is not honest may report too much.
Connect(p) ==
    /\ p \notin up
    /\ IF p \in Honest THEN UNCHANGED breaks ELSE breaks < MaxBreaks /\ breaks' = breaks + 1
    /\ \E h \in IF p \in Honest THEN {net} ELSE {0, MaxHeight} :
        /\ best' = [best EXCEPT ![p] = h]
        /\ asked' = IF h > height THEN asked \cup {p} ELSE asked
    /\ up' = up \cup {p}
    /\ UNCHANGED <<chainVars, wanted, pushed, flightVars, inv>>

\* DisconnectNode, ClearInFlightForPeer and RemoveNode for the peers in D.  A peer
\* that comes back has a new id: what still names the old one names nobody.
DisconnectNodes(D) ==
    /\ up' = up \ D
    /\ wanted' = [p \in Peer |-> IF p \in D THEN {} ELSE wanted[p]]
    /\ pushed' = [p \in Peer |-> IF p \in D THEN {} ELSE pushed[p]]
    /\ inv' = IF inv.peer \in D THEN [inv EXCEPT !.peer = Gone] ELSE inv

\* Mutant: the requests stay with the peer that went.
ClearInFlightForNobody(D, flights) == flights

ClearInFlightForPeers(D, flights) ==
    [b \in Block |-> IF flights[b].peer \in D THEN NoRequest ELSE flights[b]]

\* A connection breaks, or another thread closes it.
Break(p) ==
    /\ p \in up
    /\ breaks < MaxBreaks
    /\ breaks' = breaks + 1
    /\ DisconnectNodes({p})
    /\ mBlocksInFlight' = ClearInFlightForPeers({p}, mBlocksInFlight)
    /\ mStallingSince' = IF mStallingSince.peer = p
                         THEN [mStallingSince EXCEPT !.peer = Gone] ELSE mStallingSince
    /\ asked' = asked \ {p}
    /\ UNCHANGED <<chainVars, best>>

\* A block is found: the peers broadcast it.
Grow ==
    /\ net < MaxHeight
    /\ net' = net + 1
    /\ pushed' = [p \in Peer |-> IF p \in up THEN pushed[p] \cup {net + 1} ELSE pushed[p]]
    /\ UNCHANGED <<height, parked, up, best, asked, wanted, flightVars, inv, breaks>>

-----------------------------------------------------------------------------
(* The io thread *)

\* The peer answers a GETBLOCKS with the hashes that follow the locator, and the
\* io thread starts on them.
HandleInv(p) ==
    /\ inv.peer = None
    /\ p \in asked
    /\ asked' = asked \ {p}
    /\ inv' = IF height = net THEN NoInv
              ELSE [peer |-> p, todo |-> [i \in 1..(net - height) |-> height + i], batch |-> {}]
    /\ UNCHANGED <<chainVars, up, best, wanted, pushed, flightVars, breaks>>

\* Requests so old that they no longer count.
Expired == {b \in InFlight : mBlocksInFlight[b].age > ExpireChecks}

Unexpired == [b \in Block |-> IF b \in Expired THEN NoRequest ELSE mBlocksInFlight[b]]

\* Mutant: the window is full one request too late.
ShouldRequestOneMore(b, p) ==
    LET live == InFlight \ Expired
    IN /\ b \notin live
       /\ Cardinality(live) <= Window
       /\ Cardinality({c \in live : mBlocksInFlight[c].peer = p}) <= MaxPerPeer

\* ShouldRequestBlock refuses a block that is in flight, a full window, and a peer
\* that owes its share.
ShouldRequestBlock(b, p) ==
    LET live == InFlight \ Expired
    IN /\ b \notin live
       /\ Cardinality(live) < Window
       /\ Cardinality({c \in live : mBlocksInFlight[c].peer = p}) < MaxPerPeer

\* One item of the inventory: a block we have is skipped without a look at the
\* requests.  An inventory that was being handled when its peer went is finished.
HandleInvItem ==
    /\ inv.peer # None /\ inv.todo # <<>>
    /\ LET b == Head(inv.todo)
       IN IF b <= height
          THEN /\ inv' = [inv EXCEPT !.todo = Tail(@)]
               /\ UNCHANGED mBlocksInFlight
          ELSE IF ShouldRequestBlock(b, inv.peer)
          THEN /\ mBlocksInFlight' = [Unexpired EXCEPT ![b] = [peer |-> inv.peer, age |-> 0]]
               /\ inv' = [inv EXCEPT !.todo = Tail(@), !.batch = @ \cup {b}]
          ELSE /\ mBlocksInFlight' = Unexpired
               /\ inv' = [inv EXCEPT !.todo = Tail(@)]
    /\ UNCHANGED <<chainVars, peerVars, mStallingSince, breaks>>

\* The GETDATA for what was chosen.
SendGetData ==
    /\ inv.peer # None /\ inv.todo = <<>>
    /\ inv' = NoInv
    /\ wanted' = [p \in Peer |-> IF p = inv.peer THEN wanted[p] \cup inv.batch ELSE wanted[p]]
    /\ UNCHANGED <<chainVars, up, best, asked, pushed, flightVars, breaks>>

\* ParkOrphanBlock: a block is parked once, and the oldest makes room.
ParkOrphanBlock(b) ==
    IF b \in ToSet(parked) THEN parked
    ELSE Append(IF Len(parked) >= MaxOrphans THEN Tail(parked) ELSE parked, b)

\* The frontier loop of onBlock: how far parked blocks extend the chain after b.
Frontier(b) == CHOOSE t \in b..MaxHeight : /\ \A c \in (b + 1)..t : c \in ToSet(parked)
                                      /\ t + 1 \notin ToSet(parked)

\* The j-th of the positions in K.
Nth(K, j) == CHOOSE i \in K : Cardinality({k \in K : k <= i}) = j

\* TakeOrphansOf, for every block of the frontier: what stays parked, in its order.
TakeOrphansOf(b) ==
    LET kept == {i \in DOMAIN parked : parked[i] \notin (b + 1)..Frontier(b)}
    IN [j \in 1..Cardinality(kept) |-> parked[Nth(kept, j)]]

\* HandleBlock and onBlock.
ReceiveBlock(p, b) ==
    /\ inv.peer = None
    /\ b \in wanted[p] \cup pushed[p]
    /\ wanted' = [wanted EXCEPT ![p] = @ \ {b}]
    /\ pushed' = [pushed EXCEPT ![p] = @ \ {b}]
    /\ mBlocksInFlight' = [mBlocksInFlight EXCEPT ![b] = NoRequest]
    /\ \/ /\ b <= height
          /\ UNCHANGED <<height, parked, asked>>
       \/ /\ b > height + 1
          /\ parked' = ParkOrphanBlock(b)
          /\ asked' = asked \cup {p}
          /\ UNCHANGED height
       \/ /\ b = height + 1
          /\ height' = Frontier(b)
          /\ parked' = TakeOrphansOf(b)
          /\ asked' = asked \cup {p}
    /\ UNCHANGED <<net, up, best, mStallingSince, inv, breaks>>

-----------------------------------------------------------------------------
(* The download thread *)

Aged == [b \in Block |-> IF b \in InFlight /\ mBlocksInFlight[b].age <= ExpireChecks
                         THEN [mBlocksInFlight[b] EXCEPT !.age = @ + 1] ELSE mBlocksInFlight[b]]

\* The age of the oldest request of each peer that owes a block.
Oldest(p) == Max({Aged[b].age : b \in {c \in InFlight : mBlocksInFlight[c].peer = p}})

Downloading == {mBlocksInFlight[b].peer : b \in InFlight}

\* The peer that holds the oldest request of all.
Blockers == {p \in Downloading : \A q \in Downloading : Oldest(q) <= Oldest(p)}

\* How long it has been the blocker: a peer stays marked from check to check.
Stall(p) ==
    IF mStallingSince.peer = p
    THEN [mStallingSince EXCEPT !.age = IF @ <= StallChecks THEN @ + 1 ELSE @]
    ELSE [peer |-> p, age |-> 0]

\* Peers over the limit, one and a half times the base for two, and so on.
TimedOut == {p \in Downloading : 2 * Oldest(p) > TimeoutChecks * (1 + Cardinality(Downloading))}

\* Mutant: nobody is asked again.
SyncFromNobody(D) == asked' = asked \ D

\* SyncFromAllPeers: a GETBLOCKS to every peer that reported a longer chain.
SyncFrom(D) ==
    asked' = (asked \cup {p \in up : best[p] > height}) \ D

\* No honest peer owes an answer longer than it takes.
HonestAnswered ==
    \A b \in InFlight : mBlocksInFlight[b].peer \in Honest => mBlocksInFlight[b].age < AnswerChecks

\* Mutant: the peers to drop are listed and kept.
DownloadCheckLists ==
    /\ HonestAnswered
    /\ mStallingSince' \in IF InFlight = {} THEN {NoStall} ELSE {Stall(p) : p \in Blockers}
    /\ mBlocksInFlight' = Aged
    /\ SyncFrom({})
    /\ UNCHANGED <<chainVars, up, best, wanted, pushed, inv, breaks>>

\* CheckDownloadProgress, then SyncFromAllPeers.  A drop finds only peers that are
\* still there.
DownloadCheck ==
    /\ HonestAnswered
    /\ \/ /\ InFlight = {}
          /\ mStallingSince' = NoStall
          /\ SyncFrom({})
          /\ UNCHANGED <<up, best, wanted, pushed, inv, mBlocksInFlight>>
       \/ \E p \in Blockers :
            LET stalls == Stall(p).age > StallChecks
                D == (IF stalls THEN {p} ELSE {}) \cup TimedOut
            IN /\ DisconnectNodes(D)
               /\ mBlocksInFlight' = ClearInFlightForPeers(D \ {Gone}, Aged)
               /\ mStallingSince' = IF p \in D \ {Gone} THEN NoStall ELSE Stall(p)
               /\ SyncFrom(D)
               /\ UNCHANGED best
    /\ UNCHANGED <<chainVars, breaks>>

Next ==
    \/ \E p \in Peer : Connect(p) \/ Break(p)
    \/ \E p \in up, b \in Block : ReceiveBlock(p, b)
    \/ \E p \in up : HandleInv(p)
    \/ HandleInvItem
    \/ SendGetData
    \/ Grow
    \/ DownloadCheck

\* The two threads run on; an honest peer can be reached, answers, and its answer
\* to each request is handled.
Fairness ==
    /\ WF_vars(HandleInvItem \/ SendGetData)
    /\ WF_vars(DownloadCheck)
    /\ \A p \in Honest :
        /\ WF_vars(Connect(p))
        /\ SF_vars(HandleInv(p))
        /\ \A b \in Block : SF_vars(ReceiveBlock(p, b))

Spec == Init /\ [][Next]_vars /\ Fairness

-----------------------------------------------------------------------------
(* Properties *)

\* The state stays within its types and the limits on requests hold.
DownloadTypeOK ==
    /\ height \in 0..net /\ net \in 0..MaxHeight
    /\ parked \in Seq(Block) /\ Len(parked) <= MaxOrphans
    /\ up \subseteq Peer /\ best \in [Peer -> 0..MaxHeight]
    /\ asked \subseteq up
    /\ wanted \in [Peer -> SUBSET Block] /\ pushed \in [Peer -> SUBSET Block]
    /\ mBlocksInFlight \in
        [Block -> [peer : Peer \cup {None, Gone}, age : 0..(ExpireChecks + 1)]]
    /\ Cardinality(InFlight) <= Window
    /\ \A p \in Peer : Cardinality({b \in InFlight : mBlocksInFlight[b].peer = p}) <= MaxPerPeer

\* A request on the books is a request on the wire: the peer that owns it is
\* connected and was sent the GETDATA, or is about to be.
RequestIsReal ==
    \A b \in InFlight : mBlocksInFlight[b].peer \in Peer =>
        LET p == mBlocksInFlight[b].peer
        IN /\ p \in up
           /\ b \in wanted[p] \cup (IF inv.peer = p THEN inv.batch ELSE {})

\* A request does not sit for ever with a peer that never answers: the peer is
\* dropped and the request taken back.
RequestEnds ==
    \A b \in Block, p \in Peer \ Honest :
        mBlocksInFlight[b].peer = p ~> mBlocksInFlight[b].peer # p

\* The node reaches every height an honest peer reported, whatever the peers that
\* do not answer claim and hold back.
ReportedIsReached ==
    (\E p \in Honest \cap up : best[p] > height) ~> (\A p \in Honest \cap up : best[p] <= height)

\* CheckDownloadProgress says of the peer it marks that it "holds the oldest
\* outstanding request" while the "Download window is not advancing": a peer
\* marked for so many checks has owed a block for as long.
StallIsReal ==
    \A p \in up : mStallingSince.peer = p =>
        LET owed == {b \in InFlight : mBlocksInFlight[b].peer = p}
        IN owed # {} => \E b \in owed : mBlocksInFlight[b].age >= mStallingSince.age
=============================================================================
