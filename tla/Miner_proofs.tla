---------------------------- MODULE Miner_proofs ----------------------------
(***************************************************************************)
(* What holds of the miner for any number of workers and of callers, any   *)
(* difficulty and any bounds.                                              *)
(***************************************************************************)
EXTENDS Miner, FiniteSetTheorems, TLAPS

\* Headers as the threads pass them on.
Headers == [id : Nat, height : Nat, bits : {Bits[h] : h \in Nat} \cup {0}, prev : Nat]

MinerTypes ==
    /\ tips \in Seq(Nat)
    /\ mFound \in Seq(Headers)
    /\ template \in [Worker -> Headers] /\ block \in Headers
    /\ wpc \in [Worker -> {"off", "loop", "bits", "prev", "nonce", "push", "exit"}]
    /\ spc \in {"off", "loop", "wait", "drain", "submit", "exit"}
    /\ cpc \in [Caller -> {"idle", "start", "threads", "stop", "workers", "submitter", "returned"}]
    /\ mMining \in BOOLEAN /\ mStop \in BOOLEAN
    /\ found \in Nat

Joining(c) == cpc[c] \in {"workers", "submitter"}

\* As long as no calls have collided, one at most uses the threads: a Stop that has
\* cleared mMining and joins the workers first, or a Start that has set it and found
\* no thread.
StopInv ==
    /\ \A c, d \in Caller : Touching(c) /\ Touching(d) => c = d
    /\ \A c \in Caller : Joining(c) => ~mMining
    /\ \A c \in Caller : cpc[c] = "submitter" => \A w \in Worker : wpc[w] = "off"
    /\ \A c \in Caller : cpc[c] = "threads" => mMining /\ ThreadsOff
    /\ StoppedIsJoined

\* Every block found so far is in exactly one place.  A worker holds one only
\* between FindNonce and Push, the submitter only between Take and SubmitBlock.
PlaceInv ==
    /\ \A w \in Worker : template[w].id # 0 <=> wpc[w] = "push"
    /\ block.id # 0 <=> spc = "submit"
    /\ \A v, w \in Worker : v # w /\ template[v].id = template[w].id => template[w].id = 0
    /\ \A w \in Worker, i \in DOMAIN mFound : template[w].id # mFound[i].id
    /\ \A w \in Worker : template[w].id # 0 => template[w].id # block.id
    /\ \A i, j \in DOMAIN mFound : mFound[i].id = mFound[j].id => i = j
    /\ \A i \in DOMAIN mFound : mFound[i].id # 0 /\ mFound[i].id # block.id
    /\ 1..found = InHand \cup Queued \cup submitted
    /\ (InHand \cup Queued) \cap submitted = {}

MinerInv == MinerTypes /\ StopInv /\ PlaceInv

-----------------------------------------------------------------------------
(* Where the blocks are *)

LEMMA TipHeight ==
    ASSUME MinerTypes
    PROVE  HeightOf(tip) \in Nat /\ tip \in Nat
  BY DEF MinerTypes, HeightOf, tip

LEMMA NoHeader == NoBlock \in Headers /\ NoBlock.id = 0
  BY DEF NoBlock, Headers

\* A step that passes no block on, and starts or ends no search with one in hand.
LEMMA PlacesKept ==
    ASSUME PlaceInv, UNCHANGED <<mFound, block, submitted, found>>,
           \A w \in Worker : /\ template'[w].id = template[w].id
                             /\ wpc'[w] = "push" <=> wpc[w] = "push",
           spc' = "submit" <=> spc = "submit"
    PROVE  PlaceInv'
<1>1. InHand' = InHand
  BY DEF InHand
<1>2. Queued' = Queued
  BY DEF Queued
<1> QED BY <1>1, <1>2 DEF PlaceInv

\* A nonce is found: the new block is with its worker.
LEMMA FoundIsHeld ==
    ASSUME MinerTypes, PlaceInv, NEW w \in Worker, FindNonce(w)
    PROVE  PlaceInv'
<1>1. /\ found' = found + 1 /\ found \in Nat /\ wpc[w] = "nonce"
      /\ UNCHANGED <<mFound, block, submitted, spc>>
  BY DEF FindNonce, MinerTypes, submitVars
<1>2. /\ template'[w].id = found + 1
      /\ \A v \in Worker : v # w => template'[v].id = template[v].id
  BY DEF FindNonce, MinerTypes, Headers
<1>3. /\ wpc'[w] = "push"
      /\ \A v \in Worker : v # w => wpc'[v] = wpc[v]
  BY DEF FindNonce, MinerTypes
<1>4. template[w].id = 0
  BY <1>1 DEF PlaceInv
<1>5. InHand' = InHand \cup {found + 1}
  BY <1>1, <1>2, <1>4 DEF InHand
<1>6. Queued' = Queued
  BY <1>1 DEF Queued
<1>7. found + 1 \notin InHand \cup Queued \cup submitted
  BY <1>1 DEF PlaceInv
<1>8. 1..found' = (1..found) \cup {found + 1}
  BY <1>1
<1>9. /\ 1..found' = InHand' \cup Queued' \cup submitted'
      /\ (InHand' \cup Queued') \cap submitted' = {}
  BY <1>1, <1>5, <1>6, <1>7, <1>8 DEF PlaceInv
<1>10. /\ \A v \in Worker : template[v].id # found + 1
       /\ \A i \in DOMAIN mFound : mFound[i].id # found + 1
       /\ block.id # found + 1
  BY <1>1, <1>7 DEF InHand, Queued
<1>11. /\ \A v \in Worker : template'[v].id # 0 <=> wpc'[v] = "push"
       /\ block'.id # 0 <=> spc' = "submit"
       /\ \A u, v \in Worker : u # v /\ template'[u].id = template'[v].id => template'[v].id = 0
  BY <1>1, <1>2, <1>3, <1>10 DEF PlaceInv
<1>12. /\ \A v \in Worker, i \in DOMAIN mFound' : template'[v].id # mFound'[i].id
       /\ \A v \in Worker : template'[v].id # 0 => template'[v].id # block'.id
  BY <1>1, <1>2, <1>10 DEF PlaceInv
<1>13. /\ \A i, j \in DOMAIN mFound' : mFound'[i].id = mFound'[j].id => i = j
       /\ \A i \in DOMAIN mFound' : mFound'[i].id # 0 /\ mFound'[i].id # block'.id
  BY <1>1 DEF PlaceInv
<1> QED BY <1>9, <1>11, <1>12, <1>13 DEF PlaceInv

\* A worker pushes: its block is the last of the queue.
LEMMA PushedIsQueued ==
    ASSUME MinerTypes, PlaceInv, NEW w \in Worker, Push(w)
    PROVE  PlaceInv'
<1> DEFINE n == Len(mFound)
           x == template[w].id
<1>1. UNCHANGED <<found, block, submitted, spc>> /\ wpc[w] = "push"
  BY DEF Push, submitVars
<1>2. n \in Nat /\ DOMAIN mFound = 1..n
  BY DEF MinerTypes
<1>3. /\ DOMAIN mFound' = 1..(n + 1)
      /\ mFound'[n + 1] = template[w]
      /\ \A i \in 1..n : mFound'[i] = mFound[i]
  BY DEF Push, MinerTypes
<1>4. /\ template'[w].id = 0
      /\ \A v \in Worker : v # w => template'[v].id = template[v].id
  BY NoHeader DEF Push, MinerTypes
<1>5. /\ wpc'[w] = "loop"
      /\ \A v \in Worker : v # w => wpc'[v] = wpc[v]
  BY DEF Push, MinerTypes
<1>6. x # 0
  BY <1>1 DEF PlaceInv
<1> HIDE DEF n
<1>7. /\ \A v \in Worker : v # w => template[v].id # x
      /\ \A i \in 1..n : mFound[i].id # x
      /\ block.id # x
  BY <1>2, <1>6 DEF PlaceInv
<1>8. InHand' = InHand \ {x}
  BY <1>1, <1>4, <1>7 DEF InHand
<1>9. Queued' = Queued \cup {x}
  BY <1>2, <1>3 DEF Queued
<1>10. x \in InHand
  BY <1>6 DEF InHand
<1>11. /\ 1..found' = InHand' \cup Queued' \cup submitted'
       /\ (InHand' \cup Queued') \cap submitted' = {}
  BY <1>1, <1>8, <1>9, <1>10 DEF PlaceInv
<1>12. /\ \A v \in Worker : template'[v].id # 0 <=> wpc'[v] = "push"
       /\ block'.id # 0 <=> spc' = "submit"
       /\ \A u, v \in Worker : u # v /\ template'[u].id = template'[v].id => template'[v].id = 0
  BY <1>1, <1>4, <1>5 DEF PlaceInv
<1>13. /\ \A v \in Worker, i \in DOMAIN mFound' : template'[v].id # mFound'[i].id
       /\ \A v \in Worker : template'[v].id # 0 => template'[v].id # block'.id
  BY <1>1, <1>2, <1>3, <1>4, <1>6, <1>7 DEF PlaceInv
<1>14. /\ \A i, j \in DOMAIN mFound' : mFound'[i].id = mFound'[j].id => i = j
       /\ \A i \in DOMAIN mFound' : mFound'[i].id # 0 /\ mFound'[i].id # block'.id
  BY <1>1, <1>2, <1>3, <1>6, <1>7 DEF PlaceInv
<1> QED BY <1>11, <1>12, <1>13, <1>14 DEF PlaceInv

\* The submitter takes the first of the queue.
LEMMA TakenIsHeld ==
    ASSUME MinerTypes, PlaceInv, Take
    PROVE  PlaceInv'
<1> DEFINE n == Len(mFound)
           x == mFound[1].id
<1>1. UNCHANGED <<found, wpc, template, submitted>> /\ spc = "drain" /\ spc' = "submit"
  BY DEF Take, workerVars
<1>2. n \in Nat \ {0} /\ DOMAIN mFound = 1..n /\ 1 \in 1..n
  BY DEF MinerTypes, Take
<1>3. /\ DOMAIN mFound' = 1..(n - 1)
      /\ \A i \in 1..(n - 1) : mFound'[i] = mFound[i + 1]
  BY DEF Take, MinerTypes
<1>4. block' = mFound[1] /\ block.id = 0
  BY <1>1 DEF Take, PlaceInv
<1> HIDE DEF n
<1>5. x # 0 /\ \A i \in 2..n : mFound[i].id # x
  BY <1>2 DEF PlaceInv
<1>6. \A w \in Worker : template[w].id # x
  BY <1>2 DEF PlaceInv
<1>7. InHand' = InHand \cup {x}
  BY <1>1, <1>4, <1>5 DEF InHand
<1>8. Queued' = Queued \ {x}
  <2>1. Queued = {mFound[i].id : i \in 1..n}
    BY <1>2 DEF Queued
  <2>2. Queued' = {mFound[i + 1].id : i \in 1..(n - 1)}
    BY <1>3 DEF Queued
  <2>3. \A i \in 1..n : i = 1 \/ (i - 1 \in 1..(n - 1) /\ i = (i - 1) + 1)
    BY <1>2
  <2>4. \A i \in 1..(n - 1) : i + 1 \in 2..n /\ i + 1 \in 1..n
    BY <1>2
  <2>5. ASSUME NEW y \in Queued' PROVE y \in Queued \ {x}
    <3>1. PICK i \in 1..(n - 1) : y = mFound[i + 1].id
      BY <2>2
    <3> QED BY <1>5, <2>1, <2>4, <3>1
  <2>6. ASSUME NEW y \in Queued \ {x} PROVE y \in Queued'
    <3>1. PICK i \in 1..n : y = mFound[i].id
      BY <2>1
    <3>2. i # 1
      BY <3>1
    <3> QED BY <2>2, <2>3, <3>1, <3>2
  <2> QED BY <2>5, <2>6
<1>9. x \in Queued
  BY <1>2 DEF Queued
<1>10. /\ 1..found' = InHand' \cup Queued' \cup submitted'
       /\ (InHand' \cup Queued') \cap submitted' = {}
  BY <1>1, <1>7, <1>8, <1>9 DEF PlaceInv
<1>11. /\ \A v \in Worker : template'[v].id # 0 <=> wpc'[v] = "push"
       /\ block'.id # 0 <=> spc' = "submit"
       /\ \A u, v \in Worker : u # v /\ template'[u].id = template'[v].id => template'[v].id = 0
  BY <1>1, <1>4, <1>5 DEF PlaceInv
<1>12. \A i \in 1..(n - 1) : i + 1 \in 1..n /\ i + 1 \in 2..n
  BY <1>2
<1>13. /\ \A v \in Worker, i \in DOMAIN mFound' : template'[v].id # mFound'[i].id
       /\ \A v \in Worker : template'[v].id # 0 => template'[v].id # block'.id
  <2>1. ASSUME NEW v \in Worker, NEW i \in DOMAIN mFound' PROVE template'[v].id # mFound'[i].id
    <3>1. i \in 1..(n - 1) /\ i + 1 \in DOMAIN mFound
      BY <1>2, <1>3, <1>12
    <3> QED BY <1>1, <1>3, <3>1 DEF PlaceInv
  <2> QED BY <1>1, <1>4, <1>6, <2>1
<1>14. ASSUME NEW i \in DOMAIN mFound', NEW j \in DOMAIN mFound', mFound'[i].id = mFound'[j].id
       PROVE  i = j
  <2>1. i \in 1..(n - 1) /\ j \in 1..(n - 1)
    BY <1>3
  <2>2. mFound[i + 1].id = mFound[j + 1].id
    BY <1>3, <1>14, <2>1
  <2>3. i + 1 = j + 1
    BY <1>2, <1>12, <2>1, <2>2 DEF PlaceInv
  <2> QED BY <1>2, <2>1, <2>3
<1>15. \A i \in DOMAIN mFound' : mFound'[i].id # 0 /\ mFound'[i].id # block'.id
  BY <1>2, <1>3, <1>4, <1>5, <1>12 DEF PlaceInv
<1> QED BY <1>10, <1>11, <1>13, <1>14, <1>15 DEF PlaceInv

\* AcceptBlock is called once for the block in hand.
LEMMA SubmittedIsDone ==
    ASSUME PlaceInv, SubmitBlock
    PROVE  PlaceInv'
<1>1. UNCHANGED <<found, wpc, template, mFound>> /\ spc = "submit" /\ spc' = "drain"
  BY DEF SubmitBlock, workerVars
<1>2. block'.id = 0 /\ submitted' = submitted \cup {block.id} /\ block.id # 0
  BY NoHeader, <1>1 DEF SubmitBlock, PlaceInv
<1>3. /\ \A w \in Worker : template[w].id # block.id
      /\ block.id \notin Queued
  BY <1>2 DEF PlaceInv, Queued
<1>4. InHand' = InHand \ {block.id}
  BY <1>1, <1>2, <1>3 DEF InHand
<1>5. Queued' = Queued
  BY <1>1 DEF Queued
<1>6. block.id \in InHand
  BY <1>2 DEF InHand
<1>7. /\ 1..found' = InHand' \cup Queued' \cup submitted'
      /\ (InHand' \cup Queued') \cap submitted' = {}
  BY <1>1, <1>2, <1>3, <1>4, <1>5, <1>6 DEF PlaceInv
<1> QED BY <1>1, <1>2, <1>7 DEF PlaceInv

-----------------------------------------------------------------------------
(* The invariant *)

LEMMA MinerInit == Init => MinerInv
<1> SUFFICES ASSUME Init PROVE MinerInv
  OBVIOUS
<1>1. MinerTypes
  <2>1. /\ tips \in Seq(Nat) /\ mFound \in Seq(Headers) /\ found \in Nat
        /\ wpc \in [Worker -> {"off", "loop", "bits", "prev", "nonce", "push", "exit"}]
        /\ spc = "off" /\ mMining = FALSE /\ mStop = FALSE
        /\ cpc = [c \in Caller |-> "idle"]
    BY DEF Init
  <2>2. template \in [Worker -> Headers] /\ block \in Headers
    BY NoHeader DEF Init
  <2> QED BY <2>1, <2>2 DEF MinerTypes
<1>2. StopInv
  BY DEF Init, StopInv, StoppedIsJoined, Touching, Joining, ThreadsOff
<1>3. PlaceInv
  <2>1. InHand = {} /\ Queued = {}
    BY NoHeader DEF Init, InHand, Queued
  <2> QED BY NoHeader, <2>1 DEF Init, PlaceInv
<1> QED BY <1>1, <1>2, <1>3 DEF MinerInv

\* A step of a worker or of the submitter keeps the flags and the calls, and brings
\* back no thread that is off.
LEMMA StopKept ==
    ASSUME StopInv, UNCHANGED <<mMining, cpc>>,
           spc = "off" => spc' = "off",
           \A w \in Worker : wpc[w] = "off" => wpc'[w] = "off"
    PROVE  StopInv'
  BY DEF StopInv, StoppedIsJoined, Touching, Joining, ThreadsOff

\* A call goes on without the threads: before its flags, or after its last join.
LEMMA CallMoves ==
    ASSUME MinerTypes, StopInv, NEW c \in Caller,
           cpc[c] \in {"idle", "start", "stop", "returned"},
           \E p \in {"idle", "start", "stop", "returned"} : cpc' = [cpc EXCEPT ![c] = p],
           UNCHANGED <<tips, mMining, mStop, mFound, wpc, template, spc, block, submitted, found>>,
           PlaceInv
    PROVE  MinerInv'
<1>1. /\ cpc'[c] \in {"idle", "start", "stop", "returned"}
      /\ \A d \in Caller : d # c => cpc'[d] = cpc[d]
  BY DEF MinerTypes
<1>2. MinerTypes'
  BY DEF MinerTypes
<1>3. \A d \in Caller : (Touching(d)' <=> Touching(d)) /\ (Joining(d)' <=> Joining(d))
  BY <1>1 DEF Touching, Joining
<1>4. StoppedIsJoined'
  BY <1>3 DEF StopInv, StoppedIsJoined, ThreadsOff, Joining
<1>5. StopInv'
  BY <1>1, <1>3, <1>4 DEF StopInv, ThreadsOff
<1>6. PlaceInv'
  BY PlacesKept
<1> QED BY <1>2, <1>5, <1>6 DEF MinerInv

LEMMA MinerStep == MinerInv /\ [Next]_vars => MinerInv'
<1> SUFFICES ASSUME MinerTypes, StopInv, PlaceInv, [Next]_vars PROVE MinerInv'
  BY DEF MinerInv
<1> USE DEF flags, workerVars, submitVars, controlVars
<1>1. CASE UNCHANGED vars
  <2>1. UNCHANGED <<tips, mMining, mStop, mFound, wpc, template, spc, block, submitted, cpc, found>>
    BY <1>1 DEF vars
  <2> QED BY <2>1, PlacesKept, StopKept DEF MinerTypes, MinerInv
<1>2. CASE TipMoves
  <2>1. /\ tips' \in Seq(Nat)
        /\ UNCHANGED <<mMining, mStop, mFound, wpc, template, spc, block, submitted, cpc, found>>
    BY <1>2, TipHeight DEF TipMoves, MinerTypes
  <2> QED BY <2>1, PlacesKept, StopKept DEF MinerTypes, MinerInv
<1>3. ASSUME NEW w \in Worker, ReadHeight(w) PROVE MinerInv'
  <2>1. /\ UNCHANGED <<tips, mMining, mStop, mFound, spc, block, submitted, cpc, found>>
        /\ wpc[w] = "loop" /\ wpc' = [wpc EXCEPT ![w] = "bits"]
        /\ template' = [template EXCEPT ![w] = [NoBlock EXCEPT !.height = NextHeight]]
    BY <1>3 DEF ReadHeight
  <2>2. template[w].id = 0
    BY <2>1 DEF PlaceInv
  <2>3. /\ [NoBlock EXCEPT !.height = NextHeight] \in Headers
        /\ [NoBlock EXCEPT !.height = NextHeight].id = 0
    BY TipHeight DEF NoBlock, Headers, NextHeight
  <2> QED BY <2>1, <2>2, <2>3, PlacesKept, StopKept DEF MinerTypes, MinerInv
<1>4. ASSUME NEW w \in Worker, ReadBits(w) PROVE MinerInv'
  <2>1. /\ UNCHANGED <<tips, mMining, mStop, mFound, spc, block, submitted, cpc, found>>
        /\ wpc[w] = "bits" /\ wpc' = [wpc EXCEPT ![w] = "prev"]
        /\ template' = [template EXCEPT ![w].bits = Bits[HeightOf(tip) + 1]]
    BY <1>4 DEF ReadBits
  <2>2. PICK h \in Nat : h = HeightOf(tip) + 1
    BY TipHeight
  <2>3. /\ template' \in [Worker -> Headers]
        /\ \A v \in Worker : template'[v].id = template[v].id
    BY <2>1, <2>2 DEF MinerTypes, Headers
  <2> QED BY <2>1, <2>3, PlacesKept, StopKept DEF MinerTypes, MinerInv
<1>5. ASSUME NEW w \in Worker, ReadPrev(w) PROVE MinerInv'
  <2>1. /\ UNCHANGED <<tips, mMining, mStop, mFound, spc, block, submitted, cpc, found>>
        /\ wpc[w] = "prev" /\ wpc' = [wpc EXCEPT ![w] = "nonce"]
        /\ template' = [template EXCEPT ![w].prev = tip]
    BY <1>5 DEF ReadPrev
  <2>2. /\ template' \in [Worker -> Headers]
        /\ \A v \in Worker : template'[v].id = template[v].id
    BY <2>1, TipHeight DEF MinerTypes, Headers
  <2> QED BY <2>1, <2>2, PlacesKept, StopKept DEF MinerTypes, MinerInv
<1>6. ASSUME NEW w \in Worker, WorkerEnds(w) PROVE MinerInv'
  <2>1. /\ UNCHANGED <<tips, mMining, mStop, mFound, spc, block, submitted, cpc, found, template>>
        /\ wpc[w] = "loop" /\ wpc' = [wpc EXCEPT ![w] = "exit"]
    BY <1>6 DEF WorkerEnds
  <2> QED BY <2>1, PlacesKept, StopKept DEF MinerTypes, MinerInv
<1>7. ASSUME NEW w \in Worker, FindNonce(w) PROVE MinerInv'
  <2>1. /\ UNCHANGED <<tips, mMining, mStop, mFound, spc, block, submitted, cpc>>
        /\ found' = found + 1
        /\ wpc[w] = "nonce" /\ wpc' = [wpc EXCEPT ![w] = "push"]
        /\ template' = [template EXCEPT ![w].id = found + 1]
    BY <1>7 DEF FindNonce
  <2>2. MinerTypes'
    <3>0. PICK i \in Nat : i = found + 1
      BY DEF MinerTypes
    <3>1. template' \in [Worker -> Headers]
      BY <2>1, <3>0 DEF MinerTypes, Headers
    <3> QED BY <2>1, <3>1 DEF MinerTypes
  <2>3. StopInv'
    BY <2>1, StopKept DEF MinerTypes
  <2> QED BY <1>7, <2>2, <2>3, FoundIsHeld DEF MinerInv
<1>8. ASSUME NEW w \in Worker, GiveUp(w) \/ TemplateFails(w) PROVE MinerInv'
  <2>1. /\ UNCHANGED <<tips, mMining, mStop, mFound, spc, block, submitted, cpc, found>>
        /\ wpc[w] \in {"nonce", "bits", "prev"} /\ wpc' = [wpc EXCEPT ![w] = "loop"]
        /\ template' = [template EXCEPT ![w] = NoBlock]
    BY <1>8 DEF GiveUp, TemplateFails
  <2>2. template[w].id = 0
    BY <2>1 DEF PlaceInv
  <2> QED BY <2>1, <2>2, NoHeader, PlacesKept, StopKept DEF MinerTypes, MinerInv
<1>9. ASSUME NEW w \in Worker, Push(w) PROVE MinerInv'
  <2>1. /\ UNCHANGED <<tips, mMining, mStop, spc, block, submitted, cpc, found>>
        /\ wpc[w] = "push" /\ wpc' = [wpc EXCEPT ![w] = "loop"]
        /\ template' = [template EXCEPT ![w] = NoBlock]
        /\ mFound' = Append(mFound, template[w])
    BY <1>9 DEF Push
  <2>2. MinerTypes'
    BY <2>1, NoHeader DEF MinerTypes
  <2>3. StopInv'
    BY <2>1, StopKept DEF MinerTypes
  <2> QED BY <1>9, <2>2, <2>3, PushedIsQueued DEF MinerInv
<1>10. CASE SubmitLoop \/ Woken \/ Drained
  <2>1. /\ UNCHANGED <<tips, mMining, mStop, mFound, wpc, template, block, submitted, cpc, found>>
        /\ spc \in {"loop", "wait", "drain"} /\ spc' \in {"wait", "exit", "drain", "loop"}
    BY <1>10 DEF SubmitLoop, Woken, Drained
  <2> QED BY <2>1, PlacesKept, StopKept DEF MinerTypes, MinerInv
<1>11. CASE Take
  <2>1. /\ UNCHANGED <<tips, mMining, mStop, wpc, template, submitted, cpc, found>>
        /\ spc = "drain" /\ spc' = "submit"
        /\ mFound # <<>> /\ block' = Head(mFound) /\ mFound' = Tail(mFound)
    BY <1>11 DEF Take
  <2>2. MinerTypes'
    BY <2>1 DEF MinerTypes
  <2>3. StopInv'
    BY <2>1, StopKept
  <2> QED BY <1>11, <2>2, <2>3, TakenIsHeld DEF MinerInv
<1>12. CASE SubmitBlock
  <2>1. /\ UNCHANGED <<mMining, mStop, mFound, wpc, template, cpc, found>>
        /\ spc = "submit" /\ spc' = "drain" /\ block' = NoBlock
        /\ tips' = tips \/ tips' = Append(tips, block.height)
    BY <1>12 DEF SubmitBlock
  <2>2. MinerTypes'
    <3>1. block.height \in Nat
      BY DEF MinerTypes, Headers
    <3>2. tips \in Seq(Nat) /\ Append(tips, block.height) \in Seq(Nat)
      BY <3>1 DEF MinerTypes
    <3>3. tips' \in Seq(Nat)
      BY <2>1, <3>2
    <3>4. spc' \in {"off", "loop", "wait", "drain", "submit", "exit"} /\ block' \in Headers
      BY <2>1, NoHeader
    <3> QED BY <2>1, <3>3, <3>4 DEF MinerTypes
  <2>3. StopInv'
    BY <2>1, StopKept
  <2> QED BY <1>12, <2>2, <2>3, SubmittedIsDone DEF MinerInv
<1>13. ASSUME NEW c \in Caller, Start(c) \/ Stop(c) \/ Return(c) PROVE MinerInv'
  <2>1. /\ UNCHANGED <<tips, mMining, mStop, mFound, wpc, template, spc, block, submitted, found>>
        /\ cpc[c] \in {"idle", "start", "stop", "returned"}
        /\ \E p \in {"idle", "start", "stop", "returned"} : cpc' = [cpc EXCEPT ![c] = p]
    BY <1>13 DEF Start, Stop, Return, Goes
  <2> QED BY <2>1, CallMoves
<1>14. ASSUME NEW c \in Caller, StartFlags(c) PROVE MinerInv'
  <2>1. /\ UNCHANGED <<tips, mFound, wpc, template, spc, block, submitted, found>>
        /\ mStop' = FALSE /\ mMining' = TRUE /\ Alone(c) /\ ThreadsOff
        /\ cpc[c] = "start" /\ cpc' = [cpc EXCEPT ![c] = "threads"]
    BY <1>14 DEF StartFlags, Goes
  <2>2. cpc'[c] = "threads" /\ \A d \in Caller : d # c => cpc'[d] = cpc[d]
    BY <2>1 DEF MinerTypes
  <2>3. MinerTypes'
    BY <2>1 DEF MinerTypes
  <2>4. StopInv'
    BY <2>1, <2>2 DEF StopInv, StoppedIsJoined, Alone, Touching, Joining, ThreadsOff
  <2> QED BY <2>1, <2>3, <2>4, PlacesKept DEF MinerInv
<1>15. ASSUME NEW c \in Caller, StartThreads(c) PROVE MinerInv'
  <2>1. /\ UNCHANGED <<tips, mMining, mStop, mFound, template, block, submitted, found>>
        /\ wpc' = [w \in Worker |-> "loop"] /\ spc' = "loop"
        /\ cpc[c] = "threads" /\ cpc' = [cpc EXCEPT ![c] = "idle"]
    BY <1>15 DEF StartThreads, Goes
  <2>2. cpc'[c] = "idle" /\ \A d \in Caller : d # c => cpc'[d] = cpc[d]
    BY <2>1 DEF MinerTypes
  <2>3. mMining /\ ThreadsOff /\ \A d \in Caller : Touching(d) => d = c
    BY <2>1 DEF StopInv, Touching
  <2>4. MinerTypes'
    BY <2>1 DEF MinerTypes
  <2>5. StopInv'
    BY <2>1, <2>2, <2>3 DEF StopInv, StoppedIsJoined, Touching, Joining
  <2>6. PlaceInv'
    BY <2>1, <2>3, PlacesKept DEF ThreadsOff
  <2> QED BY <2>4, <2>5, <2>6 DEF MinerInv
<1>16. ASSUME NEW c \in Caller, StopFlags(c) PROVE MinerInv'
  <2>1. /\ UNCHANGED <<tips, mFound, wpc, template, spc, block, submitted, found>>
        /\ mStop' = TRUE /\ mMining' = FALSE /\ Alone(c)
        /\ cpc[c] = "stop" /\ cpc' = [cpc EXCEPT ![c] = "workers"]
    BY <1>16 DEF StopFlags, Goes
  <2>2. cpc'[c] = "workers" /\ \A d \in Caller : d # c => cpc'[d] = cpc[d]
    BY <2>1 DEF MinerTypes
  <2>3. MinerTypes'
    BY <2>1 DEF MinerTypes
  <2>4. StopInv'
    BY <2>1, <2>2 DEF StopInv, StoppedIsJoined, Alone, Touching, Joining, ThreadsOff
  <2> QED BY <2>1, <2>3, <2>4, PlacesKept DEF MinerInv
<1>17. ASSUME NEW c \in Caller, JoinWorkers(c) PROVE MinerInv'
  <2>1. /\ UNCHANGED <<tips, mMining, mStop, mFound, template, spc, block, submitted, found>>
        /\ cpc[c] = "workers" /\ cpc' = [cpc EXCEPT ![c] = "submitter"]
        /\ wpc' = [w \in Worker |-> "off"] /\ \A w \in Worker : wpc[w] \in {"exit", "off"}
    BY <1>17 DEF JoinWorkers, Goes
  <2>2. cpc'[c] = "submitter" /\ \A d \in Caller : d # c => cpc'[d] = cpc[d]
    BY <2>1 DEF MinerTypes
  <2>3. ~mMining /\ \A d \in Caller : Touching(d) => d = c
    BY <2>1 DEF StopInv, Touching, Joining
  <2>4. MinerTypes'
    BY <2>1 DEF MinerTypes
  <2>5. StopInv'
    BY <2>1, <2>2, <2>3 DEF StopInv, StoppedIsJoined, Touching, Joining
  <2> QED BY <2>1, <2>4, <2>5, PlacesKept DEF MinerInv
<1>18. ASSUME NEW c \in Caller, JoinSubmitter(c) PROVE MinerInv'
  <2>1. /\ UNCHANGED <<tips, mMining, mStop, mFound, wpc, template, block, submitted, found>>
        /\ cpc[c] = "submitter" /\ cpc' = [cpc EXCEPT ![c] = "idle"]
        /\ spc \in {"exit", "off"} /\ spc' = "off"
    BY <1>18 DEF JoinSubmitter, Goes
  <2>2. cpc'[c] = "idle" /\ \A d \in Caller : d # c => cpc'[d] = cpc[d]
    BY <2>1 DEF MinerTypes
  <2>3. \A d \in Caller : Touching(d) => d = c
    BY <2>1 DEF StopInv, Touching
  <2>4. ThreadsOff'
    BY <2>1 DEF StopInv, ThreadsOff
  <2>5. MinerTypes'
    BY <2>1 DEF MinerTypes
  <2>6. StopInv'
    BY <2>2, <2>3, <2>4 DEF StopInv, StoppedIsJoined, Touching, Joining
  <2> QED BY <2>1, <2>5, <2>6, PlacesKept DEF MinerInv
<1>19. ASSUME NEW c \in Caller, Collide(c) PROVE MinerInv'
  <2>1. UNCHANGED <<tips, mMining, mStop, mFound, wpc, template, spc, block, submitted, cpc, found>>
    BY <1>19 DEF Collide
  <2> QED BY <2>1, PlacesKept, StopKept DEF MinerTypes, MinerInv
<1> QED
  BY <1>1, <1>2, <1>3, <1>4, <1>5, <1>6, <1>7, <1>8, <1>9, <1>10, <1>11, <1>12, <1>13, <1>14,
     <1>15, <1>16, <1>17, <1>18, <1>19 DEF Next, Step, WorkerStep, SubmitStep, CallStep

LEMMA MinerAlways == Spec => []MinerInv
  BY MinerInit, MinerStep, PTL DEF Spec

-----------------------------------------------------------------------------
(* The theorems *)

\* Threads without mMining have a Stop that joins them, however the calls of Start and
\* Stop interleave up to the first collision: what a Stop leaves running when it returns
\* early is another's to join.
THEOREM EveryThreadIsJoined == Spec => []StoppedIsJoined
<1>1. MinerInv => StoppedIsJoined
  BY DEF MinerInv, StopInv
<1> QED BY <1>1, MinerAlways, PTL

\* The queue holds no block twice, so it holds as many blocks as it is long.
LEMMA QueueCounts ==
    ASSUME MinerTypes, PlaceInv
    PROVE  Cardinality(Queued) = Len(mFound)
<1>1. PICK n \in Nat : n = Len(mFound) /\ DOMAIN mFound = 1..n
  BY DEF MinerTypes
<1> DEFINE g == [i \in 1..n |-> mFound[i].id]
<1>2. g \in Bijection(1..n, Queued)
  <2>1. g \in [1..n -> Queued] /\ \A y \in Queued : \E i \in 1..n : g[i] = y
    BY <1>1 DEF Queued
  <2>2. \A i, j \in 1..n : g[i] = g[j] => i = j
    BY <1>1 DEF PlaceInv
  <2> HIDE DEF g
  <2>3. g \in Injection(1..n, Queued)
    BY <2>1, <2>2 DEF Injection, IsInjective
  <2>4. g \in Surjection(1..n, Queued)
    BY <2>1 DEF Surjection
  <2> QED BY <2>3, <2>4 DEF Bijection
<1>3. IsFiniteSet(1..n) /\ Cardinality(1..n) = n
  BY FS_Interval
<1>4. Cardinality(Queued) = Cardinality(1..n)
  <2>1. ExistsBijection(1..n, Queued)
    BY <1>2 DEF ExistsBijection
  <2> QED BY <1>3, <2>1, FS_Bijection
<1> QED BY <1>1, <1>3, <1>4

\* No block that a worker found is lost or submitted twice, whatever Stop and
\* Start do between the threads' steps.
THEOREM NoFoundBlockLost == Spec => []NoneLost
<1>1. MinerInv => NoneLost
  BY QueueCounts DEF MinerInv, PlaceInv, NoneLost
<1> QED BY <1>1, MinerAlways, PTL
=============================================================================
