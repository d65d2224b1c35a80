--------------------------- MODULE Wallet_proofs ---------------------------
(***************************************************************************)
(* What holds of the wallet for any payments, leaves, threads and bounds.  *)
(***************************************************************************)
EXTENDS Wallet, FiniteSetTheorems, WellFoundedInduction, TLAPS

\* The leaves of what left the wallet are in the file, and in memory whenever the
\* wallet is: a wallet that was created and not loaded has sent nothing, because
\* noise.dat is needed to send and keeps createwallet from running.
LeafInv ==
    /\ \A r \in Thread : rpc[r].pc \in {"unlock", "noise", "leaves"} => mInitialized
    /\ \A r \in Thread : rpc[r].pc \in {"noise", "leaves"} => noiseDat
    /\ mNoiseFile # None => mInitialized /\ noiseDat
    /\ sent # {} => noiseDat /\ file # None
    /\ \A t \in sent : Lvs[t] \subseteq file.used
    /\ mInitialized => \A t \in sent : Lvs[t] \subseteq mNoiseUsed
    /\ NoLeafReuse

Building(r) == rpc[r].pc \in {"built", "rebuilt"}

\* The change address of a payment is known to the file once it left, to the
\* memory from the moment it is built.
ChangeInv ==
    /\ ChangeIsKnown
    /\ mInitialized => \A t \in sent \ strayed : ChangeIx[t] # None => ChangeIx[t] < mNextChangeIndex
    /\ \A r \in Thread : Building(r) /\ rpc[r].tx \notin strayed /\ ChangeIx[rpc[r].tx] # None
                            => ChangeIx[rpc[r].tx] < mNextChangeIndex

\* Nothing releases the hold of t that a payment still needs.
Releasable(t) == t \in session => t \in Confirmed \/ Ins[t] = {}

\* Every input of a payment being built, or made and not yet confirmed, is held
\* for it; what the blocks release was confirmed or detached.
HoldInv ==
    /\ \A t \in session \ Confirmed : \A o \in Ins[t] : mHeldOutpoints[o] = t
    /\ \A r \in Thread : Building(r) /\ rpc[r].tx \notin sent =>
                            \A o \in Ins[rpc[r].tx] : mHeldOutpoints[o] = rpc[r].tx
    /\ \A r \in Thread : Building(r) => Releasable(rpc[r].tx)
    /\ \A q, r \in Thread : Building(q) /\ Building(r) /\ rpc[q].tx = rpc[r].tx /\ q # r =>
                                rpc[r].tx \in sent \/ Ins[rpc[r].tx] = {}
    /\ \A t \in connected \cup sync.connected : Releasable(t)
    /\ \A i \in DOMAIN disconnected : Releasable(disconnected[i])

-----------------------------------------------------------------------------
(* The leaf pointer *)

\* A set of leaves that is not empty has a greatest one: where
\* SyncNoiseLeafPointer puts the pointer is a leaf index.
LEMMA MaxLeaf ==
    ASSUME NEW S \in SUBSET Leaf, S # {}
    PROVE  Max(S) \in Nat
<1> DEFINE n == Cardinality(Leaf)
           R == OpToRel(<, Nat)
           T == {n - x : x \in S}
<1>1. n \in Nat /\ S \subseteq 0..(n - 1) /\ S \subseteq Nat
  <2>1. IsFiniteSet(Leaf) /\ Leaf = 0..(n - 1)
    BY WalletAssumption
  <2>2. n \in Nat
    BY <2>1, FS_CardinalityType
  <2> HIDE DEF n
  <2> QED BY <2>1, <2>2
<1>2. T \subseteq Nat /\ T # {}
  BY <1>1
<1>3. PICK m \in T : \A y \in T : ~ (<<y, m>> \in R)
  <2> HIDE DEF T
  <2> QED BY <1>2, WFMin, NatLessThanWellFounded
<1>4. \A y \in T : ~ (y < m)
  BY <1>2, <1>3 DEF OpToRel
<1>5. PICK x \in S : m = n - x
  OBVIOUS
<1>6. \A y \in S : x >= y
  <2> TAKE y \in S
  <2>1. ~ (n - y < n - x)
    BY <1>4, <1>5
  <2> QED BY <2>1, <1>1
<1>7. \E z \in S : \A y \in S : z >= y
  BY <1>6
<1>8. Max(S) \in S
  BY <1>7 DEF Max
<1> QED BY <1>8, <1>1

-----------------------------------------------------------------------------
(* Types *)

\* Whatever SaveToFile is given, the file stays an image.
LEMMA SaveType ==
    ASSUME file \in Images \cup {None}, NEW key \in Nat, NEW change \in Nat, NEW next \in Nat,
           NEW used \in SUBSET Leaf, SaveToFile(key, change, next, used) \/ SaveFails
    PROVE  file' \in Images \cup {None}
  BY DEF SaveToFile, SaveFails, Image, Images

\* A thread that goes on keeps what it holds; one that returns is free.
LEMMA GotoType ==
    ASSUME rpc \in [Thread -> Calls], NEW r \in Thread, NEW pc \in Pcs, Goto(r, pc)
    PROVE  /\ rpc' \in [Thread -> Calls]
           /\ rpc'[r].pc = pc /\ rpc'[r].tx = rpc[r].tx
           /\ \A q \in Thread \ {r} : rpc'[q] = rpc[q]
  BY DEF Goto, Calls

LEMMA ReturnType ==
    ASSUME rpc \in [Thread -> Calls], NEW r \in Thread, Return(r)
    PROVE  /\ rpc' \in [Thread -> Calls]
           /\ rpc'[r].pc = "idle" /\ rpc'[r].tx = None
           /\ \A q \in Thread \ {r} : rpc'[q] = rpc[q]
  <1>1. Free \in Calls /\ Free.pc = "idle" /\ Free.tx = None
    BY DEF Free, Calls, Pcs
  <1> QED BY <1>1 DEF Return

\* The types before a step, of a call that is being answered.
LEMMA TypeInit == Init => WalletTypeOK
<1> SUFFICES ASSUME Init PROVE WalletTypeOK
  OBVIOUS
<1>1. rpc \in [Thread -> Calls] /\ \A r \in Thread : rpc[r].pc = "idle" /\ rpc[r].tx = None
  BY DEF Init, Free, Calls, Pcs
<1>2. sync \in [pc : {"idle", "release", "accept", "add"}, connected : SUBSET sent,
                disconnected : Seq(sent)] /\ sync.pc = "idle"
  BY DEF Init, NoSync
<1>3. None \notin Tx
  BY WalletAssumption
<1>4. chain \in Seq(sent) /\ disconnected \in Seq(sent)
  BY DEF Init
<1>5. mHeldOutpoints \in [Outpoint -> Tx \cup {None}]
  BY DEF Init
<1>6. /\ pool \subseteq sent /\ connected \subseteq sent
      /\ sent \subseteq Tx /\ session \subseteq sent /\ mNoiseUsed \in SUBSET Leaf
      /\ file = None /\ mNoiseFile = None
      /\ mNextKeyIndex \in Nat /\ mNextChangeIndex \in Nat /\ mNoiseNextLeaf \in Nat
      /\ noiseDat \in BOOLEAN /\ mInitialized \in BOOLEAN /\ mUnlockedSeed \in BOOLEAN
  BY DEF Init
<1> QED BY <1>1, <1>2, <1>3, <1>4, <1>5, <1>6 DEF WalletTypeOK

LEMMA TypeStep == WalletTypeOK /\ [Next]_vars => WalletTypeOK'
<1> SUFFICES ASSUME WalletTypeOK, [Next]_vars PROVE WalletTypeOK'
  OBVIOUS
<1> USE DEF WalletTypeOK
<1>a. None \notin Tx
  BY WalletAssumption
<1>b. "idle" \in Pcs /\ "unlock" \in Pcs /\ "noise" \in Pcs /\ "leaves" \in Pcs /\ "signed" \in Pcs
      /\ "valid" \in Pcs
  BY DEF Pcs
<1>1. CASE UNCHANGED vars
  BY <1>1 DEF vars, walletVars, fileVars, addressVars, leafVars, stateVars, chainVars, history
<1>2. CASE MakeNoise
  BY <1>2 DEF MakeNoise, addressVars, leafVars, stateVars, chainVars, history
<1>3. ASSUME NEW r \in Thread, Create(r) PROVE WalletTypeOK'
  <2>1. file' \in Images \cup {None}
    BY <1>3, SaveType DEF Create
  <2> QED BY <1>3, <2>1 DEF Create, addressVars, leafVars, chainVars, history
<1>4. ASSUME NEW r \in Thread, Load(r) \/ UnlockLoads(r) PROVE WalletTypeOK'
  <2>1. file \in Images
    BY <1>4 DEF Load, UnlockLoads, LoadFromFile
  <2>2. /\ mNextKeyIndex' \in Nat /\ mNextChangeIndex' \in Nat /\ mNoiseNextLeaf' \in Nat
        /\ mNoiseUsed' \in SUBSET Leaf
        /\ UNCHANGED <<file, noiseDat, mNoiseFile, sent, session>>
    BY <1>4, <2>1 DEF Load, UnlockLoads, LoadFromFile, Images, fileVars
  <2>3. /\ rpc' \in [Thread -> Calls]
        /\ \A q \in Thread : rpc'[q].tx = rpc[q].tx
        /\ \A q \in Thread : \/ rpc'[q].pc = rpc[q].pc
                             \/ rpc[q].pc = "idle" /\ rpc'[q].pc = "unlock"
    <3>1. CASE UNCHANGED rpc
      BY <3>1
    <3>2. CASE rpc[r].pc = "idle" /\ Goto(r, "unlock")
      BY <3>2, <1>b, GotoType
    <3> QED BY <3>1, <3>2, <1>4 DEF Load, UnlockLoads
  <2>5. /\ UNCHANGED <<mUnlockedSeed, mHeldOutpoints, pool, chain, connected, disconnected, sync>>
        /\ mInitialized' \in BOOLEAN
    BY <1>4 DEF Load, UnlockLoads, chainVars
  <2> QED BY <2>2, <2>3, <2>5
<1>5. ASSUME NEW r \in Thread, Lock(r) PROVE WalletTypeOK'
  BY <1>5 DEF Lock, fileVars, addressVars, leafVars, chainVars, history
<1>6. ASSUME NEW r \in Thread, Unlock(r) PROVE WalletTypeOK'
  <2>1. rpc[r].pc \in {"idle", "unlock"} /\ (Goto(r, "noise") \/ Return(r))
    BY <1>6 DEF Unlock
  <2>2. /\ rpc' \in [Thread -> Calls]
        /\ rpc'[r].pc \in {"idle", "noise"} /\ rpc'[r].tx \notin Tx
        /\ \A q \in Thread \ {r} : rpc'[q] = rpc[q]
    BY <1>a, <1>b, <2>1, GotoType, ReturnType
  <2> QED BY <1>6, <2>2 DEF Unlock, fileVars, addressVars, leafVars, chainVars, history
<1>7. ASSUME NEW r \in Thread, LoadNoiseFile(r) PROVE WalletTypeOK'
  <2>1. mNoiseFile' \in Leaves /\ None \notin Leaves
    BY <1>7, WalletAssumption DEF LoadNoiseFile, Leaves
  <2>2. /\ rpc' \in [Thread -> Calls]
        /\ rpc'[r].pc = "leaves" /\ rpc'[r].tx \notin Tx
        /\ \A q \in Thread \ {r} : rpc'[q] = rpc[q]
    BY <1>7, <1>b, GotoType DEF LoadNoiseFile
  <2> QED BY <1>7, <2>1, <2>2
          DEF LoadNoiseFile, fileVars, addressVars, stateVars, chainVars, history
<1>8. ASSUME NEW r \in Thread, SyncNoiseLeafPointer(r) PROVE WalletTypeOK'
  <2>1. /\ rpc' \in [Thread -> Calls]
        /\ rpc'[r].pc = "idle" /\ rpc'[r].tx \notin Tx
        /\ \A q \in Thread \ {r} : rpc'[q] = rpc[q]
    BY <1>8, <1>a, ReturnType DEF SyncNoiseLeafPointer
  <2>2. mNoiseFile \in Leaves
    BY <1>8 DEF SyncNoiseLeafPointer
  <2>3. SpentLeaves \subseteq Leaf
    BY LedgerAssumption DEF SpentLeaves
  <2>4. /\ mNoiseNextLeaf' \in Nat /\ mNoiseUsed' \in SUBSET Leaf
        /\ mNoiseFile' \in Leaves /\ file' \in Images \cup {None}
    <3> DEFINE next == IF SpentLeaves = {} THEN 0 ELSE Max(SpentLeaves) + 1
    <3>1. next \in Nat
      <4>1. CASE SpentLeaves = {}
        BY <4>1
      <4>2. CASE SpentLeaves # {}
        <5>1. Max(SpentLeaves) \in Nat
          BY ONLY <4>2, <2>3, MaxLeaf
        <5> QED BY <4>2, <5>1
      <4> QED BY <4>1, <4>2
    <3> HIDE DEF next
    <3>2. CASE next > mNoiseFile.next
      <4>1. /\ mNoiseNextLeaf' = next
            /\ mNoiseUsed' = mNoiseUsed \cup SpentLeaves
            /\ mNoiseFile' = [next |-> next, used |-> mNoiseFile.used \cup SpentLeaves]
            /\ \/ SaveToFile(mNextKeyIndex, mNextChangeIndex, next, mNoiseUsed \cup SpentLeaves)
               \/ SaveFails
        BY <1>8, <3>2 DEF SyncNoiseLeafPointer, next
      <4>2. mNoiseFile' \in Leaves /\ mNoiseUsed \cup SpentLeaves \in SUBSET Leaf
        BY <2>2, <2>3, <3>1, <4>1 DEF Leaves
      <4>3. file' \in Images \cup {None}
        BY ONLY file \in Images \cup {None}, mNextKeyIndex \in Nat, mNextChangeIndex \in Nat,
                <3>1, <4>1, <4>2, SaveType
      <4> QED BY <3>1, <4>1, <4>2, <4>3
    <3>3. CASE ~(next > mNoiseFile.next)
      BY <1>8, <2>2, <3>3 DEF SyncNoiseLeafPointer, next, leafVars
    <3> QED BY <3>2, <3>3
  <2>5. None \notin Leaves
    BY WalletAssumption
  <2>6. UNCHANGED <<noiseDat, mNextKeyIndex, mNextChangeIndex, mInitialized, mUnlockedSeed,
                    mHeldOutpoints, pool, chain, connected, disconnected, sync, sent, session>>
    BY <1>8 DEF SyncNoiseLeafPointer, addressVars, stateVars, chainVars, history
  <2> QED BY <2>1, <2>4, <2>5, <2>6
<1>9. ASSUME NEW r \in Thread, GetNewAddress(r) PROVE WalletTypeOK'
  <2>1. file' \in Images \cup {None}
    <3>1. mNextKeyIndex + 1 \in Nat
      OBVIOUS
    <3> QED BY <1>9, <3>1, SaveType DEF GetNewAddress
  <2> QED BY <1>9, <2>1 DEF GetNewAddress, leafVars, stateVars, chainVars, history
<1>10. ASSUME NEW r \in Thread, SnapshotPool(r) PROVE WalletTypeOK'
  <2>1. rpc' = [rpc EXCEPT ![r] = [pc |-> "view", tx |-> None, view |-> pool]]
    BY <1>10 DEF SnapshotPool
  <2>2. [pc |-> "view", tx |-> None, view |-> pool] \in Calls
    BY DEF Calls, Pcs
  <2>3. /\ rpc' \in [Thread -> Calls]
        /\ rpc'[r].pc = "view" /\ rpc'[r].tx \notin Tx
        /\ \A q \in Thread \ {r} : rpc'[q] = rpc[q]
    BY <1>a, <2>1, <2>2
  <2> QED BY <1>10, <2>3 DEF SnapshotPool, walletVars, fileVars, addressVars, leafVars,
          stateVars, chainVars, history
<1>11. ASSUME NEW r \in Thread, NEW t \in Tx, CreateTransaction(r, t) PROVE WalletTypeOK'
  <2>1. /\ rpc' \in [Thread -> Calls]
        /\ rpc'[r].pc \in {"built", "rebuilt"} /\ rpc'[r].tx = t
        /\ \A q \in Thread \ {r} : rpc'[q] = rpc[q]
    <3>1. PICK pc \in {"built", "rebuilt"} : rpc' = [rpc EXCEPT ![r].pc = pc, ![r].tx = t]
      BY <1>11 DEF CreateTransaction
    <3> QED BY <3>1 DEF Calls, Pcs
  <2>2. mNextChangeIndex' \in Nat /\ file' \in Images \cup {None}
    <3>1. mNextChangeIndex + 1 \in Nat
      OBVIOUS
    <3> QED BY <1>11, <3>1, SaveType DEF CreateTransaction
  <2>3. mHeldOutpoints' \in [Outpoint -> Tx \cup {None}]
    BY <1>11 DEF CreateTransaction
  <2> QED BY <1>11, <2>1, <2>2, <2>3
          DEF CreateTransaction, leafVars, stateVars, chainVars, history
<1>12. ASSUME NEW r \in Thread, CreateFails(r) \/ SignFails(r) PROVE WalletTypeOK'
  <2>1. /\ rpc' \in [Thread -> Calls]
        /\ rpc'[r].pc = "idle" /\ rpc'[r].tx \notin Tx
        /\ \A q \in Thread \ {r} : rpc'[q] = rpc[q]
    BY <1>12, <1>a, ReturnType DEF CreateFails, SignFails
  <2> QED BY <1>12, <2>1 DEF CreateFails, SignFails, walletVars, fileVars, addressVars, leafVars,
                             stateVars, chainVars, history
<1>13. ASSUME NEW r \in Thread, FeeTooLow(r) PROVE WalletTypeOK'
  <2>1. /\ rpc' \in [Thread -> Calls]
        /\ rpc'[r].pc \in {"idle", "again"} /\ rpc'[r].tx = None
        /\ \A q \in Thread \ {r} : rpc'[q] = rpc[q]
    <3>1. CASE rpc' = [rpc EXCEPT ![r].pc = "again", ![r].tx = None]
      BY <3>1 DEF Calls, Pcs
    <3>2. CASE Return(r)
      BY <3>2, ReturnType
    <3> QED BY <1>13, <3>1, <3>2 DEF FeeTooLow
  <2>2. mHeldOutpoints' \in [Outpoint -> Tx \cup {None}]
    BY <1>13 DEF FeeTooLow, Released
  <2> QED BY <1>13, <1>a, <2>1, <2>2
          DEF FeeTooLow, fileVars, addressVars, leafVars, stateVars, chainVars, history
<1>14. ASSUME NEW r \in Thread, SignTransaction(r) PROVE WalletTypeOK'
  <2> DEFINE t == rpc[r].tx
  <2>1. t \in Tx /\ Lvs[t] \subseteq Leaf
    BY <1>14, LedgerAssumption DEF SignTransaction
  <2>2. mNoiseFile \in Leaves
    BY <1>14 DEF SignTransaction, CanSign
  <2>3. mNoiseUsed' \in SUBSET Leaf /\ mNoiseFile' \in Leaves
    BY <1>14, <2>1, <2>2 DEF SignTransaction, Leaves
  <2>4. None \notin Leaves
    BY WalletAssumption
  <2>5. CASE /\ SaveToFile(mNextKeyIndex, mNextChangeIndex, mNoiseNextLeaf,
                           mNoiseUsed \cup Lvs[t])
             /\ Goto(r, "signed") /\ sent' = sent \cup {t} /\ session' = session \cup {t}
    <3>1. file' \in Images \cup {None}
      BY <2>1, <2>5, SaveType
    <3>2. /\ rpc' \in [Thread -> Calls]
          /\ rpc'[r].pc = "signed" /\ rpc'[r].tx = t
          /\ \A q \in Thread \ {r} : rpc'[q] = rpc[q]
      BY <2>5, <1>b, GotoType
    <3>3. /\ chain \in Seq(sent') /\ disconnected \in Seq(sent')
          /\ sync \in [pc : {"idle", "release", "accept", "add"}, connected : SUBSET sent',
                       disconnected : Seq(sent')]
      BY <2>5
    <3> HIDE DEF t
    <3> QED BY <1>14, <2>1, <2>3, <2>4, <2>5, <3>1, <3>2, <3>3
            DEF SignTransaction, addressVars, stateVars, chainVars
  <2>6. CASE SaveFails /\ Return(r) /\ UNCHANGED <<sent, session>>
    <3>1. /\ rpc' \in [Thread -> Calls]
          /\ rpc'[r].pc = "idle" /\ rpc'[r].tx \notin Tx
          /\ \A q \in Thread \ {r} : rpc'[q] = rpc[q]
      BY <2>6, <1>a, ReturnType
    <3> QED BY <1>14, <2>3, <2>4, <2>6, <3>1
            DEF SignTransaction, SaveFails, addressVars, stateVars, chainVars
  <2> QED BY <1>14, <2>5, <2>6 DEF SignTransaction
<1>15. ASSUME NEW r \in Thread, Validate(r) PROVE WalletTypeOK'
  <2>1. rpc[r].tx \in sent /\ (Goto(r, "valid") \/ Return(r))
    BY <1>15 DEF Validate
  <2>2. /\ rpc' \in [Thread -> Calls]
        /\ \/ rpc'[r].pc = "idle" /\ rpc'[r].tx \notin Tx
           \/ rpc'[r].pc = "valid" /\ rpc'[r].tx \in sent
        /\ \A q \in Thread \ {r} : rpc'[q] = rpc[q]
    BY <1>a, <1>b, <2>1, GotoType, ReturnType
  <2> QED BY <1>15, <2>2 DEF Validate, walletVars, fileVars, addressVars, leafVars, stateVars,
                             chainVars, history
<1>16. ASSUME NEW r \in Thread, Submit(r) PROVE WalletTypeOK'
  <2>1. rpc[r].tx \in sent
    BY <1>16 DEF Submit
  <2>2. /\ rpc' \in [Thread -> Calls]
        /\ rpc'[r].pc = "idle" /\ rpc'[r].tx \notin Tx
        /\ \A q \in Thread \ {r} : rpc'[q] = rpc[q]
    BY <1>16, <1>a, ReturnType DEF Submit
  <2> QED BY <1>16, <2>1, <2>2 DEF Submit, walletVars, fileVars, addressVars, leafVars,
          stateVars, chainVars, history
<1>17. ASSUME NEW r \in Thread, NEW t \in Tx, SendRaw(r, t) PROVE WalletTypeOK'
  <2>1. t \in sent /\ rpc' = [rpc EXCEPT ![r] = [pc |-> "signed", tx |-> t, view |-> {}]]
    BY <1>17 DEF SendRaw
  <2>2. [pc |-> "signed", tx |-> t, view |-> {}] \in Calls
    BY DEF Calls, Pcs
  <2>3. /\ rpc' \in [Thread -> Calls]
        /\ rpc'[r].pc = "signed" /\ rpc'[r].tx \in sent
        /\ \A q \in Thread \ {r} : rpc'[q] = rpc[q]
    BY <2>1, <2>2
  <2> QED BY <1>17, <2>3 DEF SendRaw, walletVars, fileVars, addressVars, leafVars,
          stateVars, chainVars, history
<1>18. ASSUME NEW t \in Tx, Drop(t) PROVE WalletTypeOK'
  BY <1>18 DEF Drop, walletVars, fileVars, addressVars, leafVars, stateVars, chainVars, history
<1>19. ASSUME NEW t \in Tx, Connect(t) PROVE WalletTypeOK'
  BY <1>19 DEF Connect, walletVars, fileVars, addressVars, leafVars, stateVars, history
<1>20. CASE Disconnect
  BY <1>20 DEF Disconnect, walletVars, fileVars, addressVars, leafVars, stateVars
<1>21. CASE SyncTake
  <2>1. {disconnected[i] : i \in DOMAIN disconnected} \subseteq sent
    OBVIOUS
  <2>2. sync' \in [pc : {"idle", "release", "accept", "add"}, connected : SUBSET sent,
                   disconnected : Seq(sent)] /\ sync'.pc = "release"
    BY <1>21, <2>1 DEF SyncTake
  <2>3. pool' \subseteq pool /\ connected' = {} /\ disconnected' = <<>>
    BY <1>21 DEF SyncTake
  <2> QED BY <1>21, <2>2, <2>3 DEF SyncTake, walletVars, fileVars, addressVars, leafVars,
          stateVars, history
<1>22. CASE SyncRelease
  <2>1. /\ sync' \in [pc : {"idle", "release", "accept", "add"}, connected : SUBSET sent,
                      disconnected : Seq(sent)]
        /\ sync'.pc \in {"accept", "add"} => sync'.disconnected # <<>>
    <3>1. CASE sync' = [sync EXCEPT !.pc = IF sync.disconnected = <<>> THEN "idle" ELSE "accept"]
      BY <3>1
    <3>2. ASSUME NEW t \in sync.connected, sync' = [sync EXCEPT !.connected = @ \ {t}]
          PROVE  <2>1!1 /\ <2>1!2
      BY <1>22, <3>2 DEF SyncRelease
    <3> QED BY <1>22, <3>1, <3>2 DEF SyncRelease
  <2>2. mHeldOutpoints' \in [Outpoint -> Tx \cup {None}]
    BY <1>22 DEF SyncRelease, Released
  <2> QED BY <1>22, <2>1, <2>2 DEF SyncRelease, fileVars, addressVars, leafVars, stateVars, history
<1>23. CASE SyncAccept
  <2>1. sync' = Resurrected \/ sync' = [sync EXCEPT !.pc = "add"]
    BY <1>23 DEF SyncAccept
  <2>2. sync.disconnected # <<>>
    BY <1>23 DEF SyncAccept
  <2>3. /\ sync' \in [pc : {"idle", "release", "accept", "add"}, connected : SUBSET sent,
                      disconnected : Seq(sent)]
        /\ sync'.pc \in {"accept", "add"} => sync'.disconnected # <<>>
    <3>1. Tail(sync.disconnected) \in Seq(sent)
      BY <2>2
    <3> QED BY <2>1, <2>2, <3>1 DEF Resurrected
  <2> QED BY <1>23, <2>3 DEF SyncAccept, walletVars, fileVars, addressVars, leafVars, stateVars,
          history
<1>24. CASE SyncAdd
  <2>1. sync.disconnected # <<>> /\ sync' = Resurrected
    BY <1>24 DEF SyncAdd
  <2>2. /\ sync' \in [pc : {"idle", "release", "accept", "add"}, connected : SUBSET sent,
                      disconnected : Seq(sent)]
        /\ sync'.pc \in {"accept", "add"} => sync'.disconnected # <<>>
    <3>1. Tail(sync.disconnected) \in Seq(sent)
      BY <2>1
    <3> QED BY <2>1, <3>1 DEF Resurrected
  <2>3. Head(sync.disconnected) \in sent
    BY <2>1
  <2>4. pool' \subseteq sent
    BY <1>24, <2>3 DEF SyncAdd
  <2> QED BY <1>24, <2>2, <2>4 DEF SyncAdd, walletVars, fileVars, addressVars, leafVars, stateVars,
          history
<1>25. CASE Crash \/ StopAndStart
  <2>1. Restart /\ pool' \subseteq pool
    BY <1>25 DEF Crash, StopAndStart
  <2>2. rpc' \in [Thread -> Calls] /\ \A r \in Thread : rpc'[r].pc = "idle" /\ rpc'[r].tx = None
    BY <2>1 DEF Restart, Free, Calls, Pcs
  <2>3. sync' \in [pc : {"idle", "release", "accept", "add"}, connected : SUBSET sent,
                   disconnected : Seq(sent)] /\ sync'.pc = "idle"
    BY <2>1 DEF Restart, NoSync
  <2>4. mHeldOutpoints' \in [Outpoint -> Tx \cup {None}]
    BY <2>1 DEF Restart
  <2>5. /\ UNCHANGED <<file, noiseDat, chain, sent>>
        /\ connected' = {} /\ disconnected' = <<>> /\ session' = {}
        /\ mNoiseUsed' = {} /\ mNoiseFile' = None
        /\ mNextKeyIndex' = 0 /\ mNextChangeIndex' = 0 /\ mNoiseNextLeaf' = 0
        /\ mInitialized' = FALSE /\ mUnlockedSeed' = FALSE
    BY <2>1 DEF Restart, fileVars
  <2>6. \A r \in Thread : rpc'[r].pc \in {"built", "rebuilt", "signed", "valid"} <=> rpc'[r].tx \in Tx
    BY <1>a, <2>2
  <2>7. chain' \in Seq(sent') /\ disconnected' \in Seq(sent') /\ sent' \subseteq Tx
        /\ pool' \subseteq sent' /\ connected' \subseteq sent' /\ session' \subseteq sent'
    BY <2>1, <2>5
  <2> QED BY <2>2, <2>3, <2>4, <2>5, <2>6, <2>7
<1> QED BY <1>1, <1>2, <1>3, <1>4, <1>5, <1>6, <1>7, <1>8, <1>9, <1>10, <1>11, <1>12, <1>13,
           <1>14, <1>15, <1>16, <1>17, <1>18, <1>19, <1>20, <1>21, <1>22, <1>23, <1>24, <1>25
        DEF Next

-----------------------------------------------------------------------------
(* What a save leaves on the disk *)

\* The file holds what SaveToFile was given, and there is a file.
LEMMA SaveWrites ==
    ASSUME NEW key \in Nat, NEW change \in Nat, NEW next \in Nat, NEW used \in SUBSET Leaf,
           SaveToFile(key, change, next, used)
    PROVE  file' # None /\ file'.change = change /\ file'.used = used
<1>1. file' = [key |-> key, change |-> change, next |-> next, used |-> used]
  BY DEF SaveToFile, Image
<1>2. file' \in Images /\ None \notin Images
  BY <1>1, WalletAssumption DEF Images
<1> QED BY <1>1, <1>2

\* Steps of a thread after which it stands at none of the calls of walletunlock.
LEMMA OtherCalls ==
    ASSUME WalletTypeOK, NEW r \in Thread,
           \/ SnapshotPool(r) \/ CreateFails(r) \/ SignFails(r) \/ FeeTooLow(r) \/ Validate(r)
           \/ Submit(r) \/ (\E t \in Tx : CreateTransaction(r, t) \/ SendRaw(r, t))
           \/ SignTransaction(r) \/ SyncNoiseLeafPointer(r)
    PROVE  /\ rpc'[r].pc \in Pcs \ {"unlock", "noise", "leaves"}
           /\ \A q \in Thread \ {r} : rpc'[q] = rpc[q]
<1> USE DEF WalletTypeOK
<1>1. CASE Return(r)
  BY <1>1, ReturnType DEF Pcs
<1>2. CASE Goto(r, "signed") \/ Goto(r, "valid")
  BY <1>2, GotoType DEF Pcs
<1>3. ASSUME NEW pc \in {"again", "built", "rebuilt"}, NEW t \in Tx \cup {None},
             rpc' = [rpc EXCEPT ![r].pc = pc, ![r].tx = t]
      PROVE  /\ rpc'[r].pc = pc
             /\ \A q \in Thread \ {r} : rpc'[q] = rpc[q]
  BY <1>3 DEF Calls
<1>4. CASE FeeTooLow(r)
  BY <1>1, <1>3, <1>4 DEF FeeTooLow, Pcs
<1>5. CASE SnapshotPool(r) \/ \E t \in Tx : SendRaw(r, t)
  BY <1>5 DEF SnapshotPool, SendRaw, Calls, Pcs
<1>6. ASSUME NEW t \in Tx, CreateTransaction(r, t)
      PROVE  /\ rpc'[r].pc \in {"built", "rebuilt"}
             /\ \A q \in Thread \ {r} : rpc'[q] = rpc[q]
  <2>1. PICK pc \in {"built", "rebuilt"} : rpc' = [rpc EXCEPT ![r].pc = pc, ![r].tx = t]
    BY <1>6 DEF CreateTransaction
  <2> QED BY <2>1, <1>3
<1>7. CASE CreateFails(r) \/ SignFails(r) \/ Validate(r) \/ Submit(r) \/ SignTransaction(r)
           \/ SyncNoiseLeafPointer(r)
  BY <1>1, <1>2, <1>7
     DEF CreateFails, SignFails, Validate, Submit, SignTransaction, SyncNoiseLeafPointer
<1> QED BY <1>4, <1>5, <1>6, <1>7 DEF Pcs

-----------------------------------------------------------------------------
(* The leaves *)

LEMMA LeafInit == Init => LeafInv
  BY DEF Init, LeafInv, NoLeafReuse, Free

\* A step that leaves the leaves and the file alone and enters no walletunlock.
LEMMA LeafQuiet ==
    ASSUME LeafInv, UNCHANGED <<file, noiseDat, mInitialized, mNoiseUsed, mNoiseFile, sent>>,
           \A q \in Thread : \/ rpc'[q].pc = rpc[q].pc
                             \/ rpc'[q].pc \notin {"unlock", "noise", "leaves"}
    PROVE  LeafInv'
  BY DEF LeafInv, NoLeafReuse

\* A save of at least the leaves in memory, in a wallet that is in memory.
LEMMA LeafSave ==
    ASSUME WalletTypeOK, LeafInv, mInitialized,
           NEW key \in Nat, NEW change \in Nat, NEW next \in Nat, NEW used \in SUBSET Leaf,
           SaveToFile(key, change, next, used) \/ SaveFails,
           mNoiseUsed \subseteq used, mNoiseUsed' = used,
           UNCHANGED <<noiseDat, mInitialized, sent>>,
           mNoiseFile' # None => mNoiseFile # None,
           \A q \in Thread : \/ rpc'[q].pc = rpc[q].pc
                             \/ rpc'[q].pc \notin {"unlock", "noise", "leaves"}
    PROVE  LeafInv'
<1>1. /\ sent # {} => file' # None
      /\ \A t \in sent : Lvs[t] \subseteq file'.used
  <2>1. CASE SaveFails
    BY <2>1 DEF SaveFails, LeafInv
  <2>2. CASE SaveToFile(key, change, next, used)
    BY <2>2, SaveWrites DEF LeafInv
  <2> QED BY <2>1, <2>2
<1> QED BY <1>1 DEF LeafInv, NoLeafReuse

LEMMA LeafStep == WalletTypeOK /\ LeafInv /\ [Next]_vars => LeafInv'
<1> SUFFICES ASSUME WalletTypeOK, LeafInv, [Next]_vars PROVE LeafInv'
  OBVIOUS
<1>1. CASE UNCHANGED vars
  BY <1>1, LeafQuiet DEF vars, walletVars, fileVars, leafVars, stateVars, history
<1>2. CASE MakeNoise
  BY <1>2 DEF MakeNoise, LeafInv, NoLeafReuse, leafVars, stateVars, history
<1>3. ASSUME NEW r \in Thread, Create(r) PROVE LeafInv'
  <2>1. sent = {} /\ mNoiseFile = None /\ \A q \in Thread : rpc[q].pc \notin {"noise", "leaves"}
    BY <1>3 DEF Create, LeafInv
  <2> QED BY <1>3, <2>1 DEF Create, LeafInv, NoLeafReuse, leafVars, history
<1>4. ASSUME NEW r \in Thread, Load(r) PROVE LeafInv'
  <2>1. /\ UNCHANGED <<file, noiseDat, mNoiseFile, sent, rpc>>
        /\ mNoiseUsed' = file.used
    BY <1>4 DEF Load, LoadFromFile, fileVars
  <2>2. mInitialized' = TRUE \/ mInitialized' = mInitialized
    BY <1>4 DEF Load
  <2>3. mInitialized => mInitialized'
    BY <2>2
  <2> QED BY <2>1, <2>3 DEF LeafInv, NoLeafReuse
<1>5. ASSUME NEW r \in Thread, UnlockLoads(r) PROVE LeafInv'
  <2>1. /\ UNCHANGED <<file, noiseDat, mNoiseFile, sent>>
        /\ mNoiseUsed' = file.used /\ mInitialized'
    BY <1>5 DEF UnlockLoads, LoadFromFile, fileVars
  <2>2. rpc'[r].pc = "unlock" /\ \A q \in Thread \ {r} : rpc'[q] = rpc[q]
    BY <1>5, GotoType DEF UnlockLoads, WalletTypeOK, Pcs
  <2> QED BY <2>1, <2>2 DEF LeafInv, NoLeafReuse
<1>6. ASSUME NEW r \in Thread, Lock(r) PROVE LeafInv'
  BY <1>6, LeafQuiet DEF Lock, fileVars, leafVars, history
<1>7. ASSUME NEW r \in Thread, Unlock(r) PROVE LeafInv'
  <2>1. mInitialized
    BY <1>7 DEF Unlock, LeafInv
  <2>2. /\ (rpc'[r].pc = "noise" /\ noiseDat) \/ rpc'[r].pc = "idle"
        /\ \A q \in Thread \ {r} : rpc'[q] = rpc[q]
    BY <1>7, GotoType, ReturnType DEF Unlock, WalletTypeOK, Pcs
  <2> QED BY <1>7, <2>1, <2>2 DEF Unlock, LeafInv, NoLeafReuse, fileVars, leafVars, history
<1>8. ASSUME NEW r \in Thread, LoadNoiseFile(r) PROVE LeafInv'
  <2>1. mInitialized /\ noiseDat
    BY <1>8 DEF LoadNoiseFile, LeafInv
  <2> QED BY <1>8, <2>1 DEF LoadNoiseFile, LeafInv, NoLeafReuse, fileVars, stateVars, history
<1>9. ASSUME NEW r \in Thread, SyncNoiseLeafPointer(r) PROVE LeafInv'
  <2>1. mInitialized /\ mNoiseFile # None
    BY <1>9 DEF SyncNoiseLeafPointer, LeafInv, WalletTypeOK
  <2>2. \A q \in Thread : \/ rpc'[q].pc = rpc[q].pc
                          \/ rpc'[q].pc \notin {"unlock", "noise", "leaves"}
    BY <1>9, OtherCalls
  <2>3. UNCHANGED <<noiseDat, mInitialized, sent>>
    BY <1>9 DEF SyncNoiseLeafPointer, stateVars, history
  <2>4. CASE UNCHANGED <<mNoiseUsed, mNoiseFile, file>>
    BY <2>2, <2>3, <2>4, LeafQuiet
  <2>5. CASE ~UNCHANGED <<mNoiseUsed, mNoiseFile, file>>
    <3> DEFINE next == IF SpentLeaves = {} THEN 0 ELSE Max(SpentLeaves) + 1
               used == mNoiseUsed \cup SpentLeaves
    <3>1. /\ mNoiseUsed' = used /\ mNoiseNextLeaf' = next
          /\ SaveToFile(mNextKeyIndex, mNextChangeIndex, next, used) \/ SaveFails
      BY <1>9, <2>5 DEF SyncNoiseLeafPointer, leafVars
    <3>2. used \in SUBSET Leaf /\ next \in Nat
      <4>1. WalletTypeOK'
        BY TypeStep
      <4> QED BY <3>1, <4>1 DEF WalletTypeOK
    <3>3. mNextKeyIndex \in Nat /\ mNextChangeIndex \in Nat /\ mNoiseUsed \subseteq used
      BY DEF WalletTypeOK
    <3> HIDE DEF next, used
    <3> QED BY <2>1, <2>2, <2>3, <3>1, <3>2, <3>3, LeafSave
  <2> QED BY <2>4, <2>5
<1>10. ASSUME NEW r \in Thread, GetNewAddress(r) PROVE LeafInv'
  <2>1. mInitialized /\ mNextKeyIndex + 1 \in Nat
    BY <1>10 DEF GetNewAddress, LeafInv, WalletTypeOK
  <2> QED BY <1>10, <2>1, LeafSave DEF GetNewAddress, WalletTypeOK, leafVars, stateVars, history
<1>11. ASSUME NEW r \in Thread, NEW t \in Tx, CreateTransaction(r, t) PROVE LeafInv'
  <2>1. mInitialized /\ mNextChangeIndex + 1 \in Nat
    BY <1>11 DEF CreateTransaction, LeafInv, WalletTypeOK
  <2>2. \A q \in Thread : \/ rpc'[q].pc = rpc[q].pc
                          \/ rpc'[q].pc \notin {"unlock", "noise", "leaves"}
    BY <1>11, OtherCalls
  <2>3. UNCHANGED <<noiseDat, mInitialized, mNoiseUsed, mNoiseFile, sent>>
    BY <1>11 DEF CreateTransaction, stateVars, leafVars, history
  <2>4. CASE UNCHANGED file
    BY <2>2, <2>3, <2>4, LeafQuiet
  <2>5. CASE \/ SaveToFile(mNextKeyIndex, mNextChangeIndex + 1, mNoiseNextLeaf, mNoiseUsed)
             \/ SaveFails
    BY <2>1, <2>2, <2>3, <2>5, LeafSave DEF WalletTypeOK
  <2> QED BY <1>11, <2>4, <2>5 DEF CreateTransaction
<1>12. ASSUME NEW r \in Thread, \/ SnapshotPool(r) \/ CreateFails(r) \/ SignFails(r)
                                \/ FeeTooLow(r) \/ Validate(r) \/ Submit(r)
                                \/ \E t \in Tx : SendRaw(r, t)
       PROVE  LeafInv'
  <2>1. \A q \in Thread : \/ rpc'[q].pc = rpc[q].pc
                          \/ rpc'[q].pc \notin {"unlock", "noise", "leaves"}
    BY <1>12, OtherCalls
  <2> QED BY <1>12, <2>1, LeafQuiet
          DEF SnapshotPool, CreateFails, SignFails, FeeTooLow, Validate, Submit, SendRaw,
              walletVars, fileVars, leafVars, stateVars, history
<1>13. ASSUME NEW r \in Thread, SignTransaction(r) PROVE LeafInv'
  <2> DEFINE t == rpc[r].tx
  <2>1. /\ t \in Tx /\ Lvs[t] \in SUBSET Leaf /\ Lvs[t] \cap mNoiseUsed = {}
        /\ mInitialized /\ noiseDat
    BY <1>13, LedgerAssumption DEF SignTransaction, CanSign, LeafInv, WalletTypeOK
  <2>2. /\ UNCHANGED <<noiseDat, mInitialized>> /\ mNoiseUsed' = mNoiseUsed \cup Lvs[t]
        /\ mNoiseFile # None
    BY <1>13 DEF SignTransaction, CanSign, stateVars
  <2>3. mNoiseUsed \cup Lvs[t] \in SUBSET Leaf
    BY <2>1 DEF WalletTypeOK
  <2>4. \A q \in Thread : \/ rpc'[q].pc = rpc[q].pc
                          \/ rpc'[q].pc \notin {"unlock", "noise", "leaves"}
    BY <1>13, OtherCalls
  <2>5. CASE SaveFails /\ sent' = sent
    BY <2>1, <2>2, <2>4, <2>5 DEF SaveFails, LeafInv, NoLeafReuse
  <2>6. CASE /\ SaveToFile(mNextKeyIndex, mNextChangeIndex, mNoiseNextLeaf,
                           mNoiseUsed \cup Lvs[t])
             /\ sent' = sent \cup {t}
    <3>1. file' # None /\ file'.used = mNoiseUsed \cup Lvs[t]
      BY <2>3, <2>6, SaveWrites DEF WalletTypeOK
    <3>2. \A s \in sent : Lvs[s] \subseteq mNoiseUsed
      BY <2>1 DEF LeafInv
    <3>3. \A s \in sent' : Lvs[s] \subseteq mNoiseUsed \cup Lvs[t]
      BY <2>6, <3>2
    <3>4. NoLeafReuse'
      BY <2>1, <2>6, <3>2 DEF NoLeafReuse, LeafInv
    <3> HIDE DEF t
    <3> QED BY <2>1, <2>2, <2>4, <3>1, <3>3, <3>4 DEF LeafInv
  <2> QED BY <1>13, <2>5, <2>6 DEF SignTransaction
<1>14. CASE \/ (\E t \in Tx : Drop(t) \/ Connect(t)) \/ Disconnect \/ SyncTake \/ SyncRelease
            \/ SyncAccept \/ SyncAdd
  BY <1>14, LeafQuiet
     DEF Drop, Connect, Disconnect, SyncTake, SyncRelease, SyncAccept, SyncAdd, walletVars,
         fileVars, leafVars, stateVars, history
<1>15. CASE Crash \/ StopAndStart
  BY <1>15 DEF Crash, StopAndStart, Restart, LeafInv, NoLeafReuse, Free, fileVars
<1> QED BY <1>1, <1>2, <1>3, <1>4, <1>5, <1>6, <1>7, <1>8, <1>9, <1>10, <1>11, <1>12, <1>13,
           <1>14, <1>15 DEF Next

\* The leaves of every payment that left the wallet are on disk.
THEOREM LeavesOnDisk == Spec => []SentIsRecorded
<1>1. LeafInv => SentIsRecorded
  BY DEF LeafInv, SentIsRecorded
<1> QED BY <1>1, TypeInit, TypeStep, LeafInit, LeafStep, PTL DEF Spec

\* No leaf authorises two payments.
THEOREM OneLeafPayment == Spec => []NoLeafReuse
<1>1. LeafInv => NoLeafReuse
  BY DEF LeafInv
<1> QED BY <1>1, TypeInit, TypeStep, LeafInit, LeafStep, PTL DEF Spec

-----------------------------------------------------------------------------
(* The change addresses *)

\* Only CreateTransaction makes a thread hold a payment it has not signed.
LEMMA NotBuilding ==
    ASSUME WalletTypeOK, NEW r \in Thread,
           \/ SnapshotPool(r) \/ CreateFails(r) \/ SignFails(r) \/ FeeTooLow(r) \/ Validate(r)
           \/ Submit(r) \/ (\E t \in Tx : SendRaw(r, t)) \/ SignTransaction(r)
           \/ SyncNoiseLeafPointer(r) \/ Unlock(r) \/ LoadNoiseFile(r) \/ UnlockLoads(r)
    PROVE  ~Building(r)' /\ \A q \in Thread \ {r} : rpc'[q] = rpc[q]
<1> USE DEF WalletTypeOK, Building
<1>1. CASE Return(r)
  BY <1>1, ReturnType
<1>2. CASE Goto(r, "signed") \/ Goto(r, "valid") \/ Goto(r, "unlock") \/ Goto(r, "noise")
           \/ Goto(r, "leaves")
  BY <1>2, GotoType DEF Pcs
<1>3. CASE FeeTooLow(r)
  <2>1. CASE rpc' = [rpc EXCEPT ![r].pc = "again", ![r].tx = None]
    BY <2>1 DEF Calls
  <2> QED BY <1>1, <1>3, <2>1 DEF FeeTooLow
<1>4. CASE SnapshotPool(r) \/ \E t \in Tx : SendRaw(r, t)
  BY <1>4 DEF SnapshotPool, SendRaw
<1>5. CASE \/ CreateFails(r) \/ SignFails(r) \/ Validate(r) \/ Submit(r) \/ SignTransaction(r)
           \/ SyncNoiseLeafPointer(r) \/ Unlock(r) \/ LoadNoiseFile(r) \/ UnlockLoads(r)
  BY <1>1, <1>2, <1>5 DEF CreateFails, SignFails, Validate, Submit, SignTransaction,
     SyncNoiseLeafPointer, Unlock, LoadNoiseFile, UnlockLoads
<1> QED BY <1>3, <1>4, <1>5

LEMMA ChangeInit == Init => ChangeInv
  BY DEF Init, ChangeInv, ChangeIsKnown, Building, Free

\* A step that leaves the addresses alone, or saves them, and builds nothing.
LEMMA ChangeQuiet ==
    ASSUME WalletTypeOK, ChangeInv, UNCHANGED <<mInitialized, mNextChangeIndex, sent, strayed>>,
           \A q \in Thread : Building(q)' => Building(q) /\ rpc'[q].tx = rpc[q].tx,
           \/ UNCHANGED file
           \/ mInitialized /\ file'.change = mNextChangeIndex
    PROVE  ChangeInv'
  BY DEF ChangeInv, ChangeIsKnown

\* A reload forgets the change of payments that are being built: those strayed.
LEMMA ChangeLoad ==
    ASSUME WalletTypeOK, ChangeInv, LoadFromFile,
           \A q \in Thread : Building(q)' => Building(q) /\ rpc'[q].tx = rpc[q].tx
    PROVE  ChangeInv'
<1>1. /\ UNCHANGED <<file, sent>> /\ mNextChangeIndex' = file.change /\ strayed \subseteq strayed'
      /\ file.change \in Nat
  BY DEF LoadFromFile, fileVars, WalletTypeOK, Images
<1>2. ASSUME NEW q \in Thread, Building(q), ChangeIx[rpc[q].tx] # None, rpc[q].tx \notin strayed'
      PROVE  ChangeIx[rpc[q].tx] < file.change
  <2>1. rpc[q].tx \in Tx
    BY <1>2 DEF WalletTypeOK, Building
  <2>2. ChangeIx[rpc[q].tx] \in Nat
    BY <1>2, <2>1, WalletAssumption
  <2>3. ~(ChangeIx[rpc[q].tx] >= file.change)
    BY <1>2 DEF LoadFromFile, Building
  <2> QED BY <1>1, <2>2, <2>3
<1> QED BY <1>1, <1>2 DEF ChangeInv, ChangeIsKnown

LEMMA ChangeStep == WalletTypeOK /\ LeafInv /\ ChangeInv /\ [Next]_vars => ChangeInv'
<1> SUFFICES ASSUME WalletTypeOK, LeafInv, ChangeInv, [Next]_vars PROVE ChangeInv'
  OBVIOUS
<1>1. CASE UNCHANGED vars
  BY <1>1, ChangeQuiet
     DEF vars, walletVars, fileVars, addressVars, stateVars, history, Building
<1>2. CASE MakeNoise
  BY <1>2, ChangeQuiet DEF MakeNoise, addressVars, stateVars, history, Building
<1>3. ASSUME NEW r \in Thread, Create(r) PROVE ChangeInv'
  <2>1. sent = {}
    BY <1>3 DEF Create, LeafInv
  <2> QED BY <1>3, <2>1 DEF Create, ChangeInv, ChangeIsKnown, Building, addressVars, history
<1>4. ASSUME NEW r \in Thread, Load(r) \/ UnlockLoads(r) PROVE ChangeInv'
  <2>1. \A q \in Thread : Building(q)' => Building(q) /\ rpc'[q].tx = rpc[q].tx
    BY <1>4, NotBuilding DEF Load, Building
  <2> QED BY <1>4, <2>1, ChangeLoad DEF Load, UnlockLoads
<1>5. ASSUME NEW r \in Thread, Lock(r) PROVE ChangeInv'
  BY <1>5, ChangeQuiet DEF Lock, fileVars, addressVars, history, Building
<1>6. ASSUME NEW r \in Thread, \/ Unlock(r) \/ LoadNoiseFile(r)
                               \/ SnapshotPool(r) \/ CreateFails(r) \/ SignFails(r)
                               \/ FeeTooLow(r) \/ Validate(r) \/ Submit(r)
                               \/ \E t \in Tx : SendRaw(r, t)
      PROVE  ChangeInv'
  <2>1. \A q \in Thread : Building(q)' => Building(q) /\ rpc'[q].tx = rpc[q].tx
    BY <1>6, NotBuilding DEF Building
  <2> QED BY <1>6, <2>1, ChangeQuiet
          DEF Unlock, LoadNoiseFile, SnapshotPool, CreateFails, SignFails, FeeTooLow, Validate,
              Submit, SendRaw, walletVars, fileVars, addressVars, stateVars, history
<1>7. ASSUME NEW r \in Thread, SyncNoiseLeafPointer(r) PROVE ChangeInv'
  <2>1. \A q \in Thread : Building(q)' => Building(q) /\ rpc'[q].tx = rpc[q].tx
    BY <1>7, NotBuilding DEF Building
  <2>2. mInitialized
    BY <1>7 DEF SyncNoiseLeafPointer, LeafInv
  <2>3. file' = file \/ file'.change = mNextChangeIndex
    BY <1>7 DEF SyncNoiseLeafPointer, SaveToFile, SaveFails, Image
  <2> QED BY <1>7, <2>1, <2>2, <2>3, ChangeQuiet
          DEF SyncNoiseLeafPointer, addressVars, stateVars, history
<1>8. ASSUME NEW r \in Thread, GetNewAddress(r) PROVE ChangeInv'
  <2>1. mInitialized
    BY <1>8 DEF GetNewAddress, LeafInv
  <2>2. file' = file \/ file'.change = mNextChangeIndex
    BY <1>8 DEF GetNewAddress, SaveToFile, SaveFails, Image
  <2> QED BY <1>8, <2>1, <2>2, ChangeQuiet DEF GetNewAddress, stateVars, history, Building
<1>9. ASSUME NEW r \in Thread, NEW t \in Tx, CreateTransaction(r, t) PROVE ChangeInv'
  <2>1. rpc'[r].tx = t /\ \A q \in Thread \ {r} : rpc'[q] = rpc[q]
    BY <1>9 DEF CreateTransaction, WalletTypeOK, Calls
  <2>2. mInitialized /\ UNCHANGED <<mInitialized, sent, strayed>>
    BY <1>9 DEF CreateTransaction, LeafInv, stateVars, history
  <2>3. ChangeIx[t] # None => ChangeIx[t] = mNextChangeIndex
    BY <1>9 DEF CreateTransaction, Selects
  <2>4. /\ mNextChangeIndex \in Nat
        /\ \/ ChangeIx[t] = None /\ UNCHANGED <<mNextChangeIndex, file>>
           \/ /\ mNextChangeIndex' = mNextChangeIndex + 1
              /\ file' = file \/ file'.change = mNextChangeIndex + 1
    BY <1>9 DEF CreateTransaction, SaveToFile, SaveFails, Image, WalletTypeOK
  <2>5. \A i \in Nat : i < mNextChangeIndex => i < mNextChangeIndex'
    BY <2>4
  <2>6. \A u \in Tx : ChangeIx[u] # None => ChangeIx[u] \in Nat
    BY WalletAssumption
  <2>7. sent \subseteq Tx /\ \A q \in Thread : Building(q) => rpc[q].tx \in Tx
    BY DEF WalletTypeOK, Building
  <2>8. ChangeIsKnown'
    BY <2>2, <2>4, <2>5, <2>6, <2>7 DEF ChangeInv, ChangeIsKnown
  <2>9. ASSUME NEW q \in Thread, Building(q)', rpc'[q].tx \notin strayed,
               ChangeIx[rpc'[q].tx] # None
        PROVE  ChangeIx[rpc'[q].tx] < mNextChangeIndex'
    <3>1. CASE q = r
      BY <2>1, <2>3, <2>4, <2>9, <3>1
    <3>2. CASE q # r
      BY <2>1, <2>5, <2>6, <2>7, <2>9, <3>2 DEF ChangeInv, Building
    <3> QED BY <3>1, <3>2
  <2> QED BY <2>2, <2>5, <2>6, <2>7, <2>8, <2>9 DEF ChangeInv
<1>10. ASSUME NEW r \in Thread, SignTransaction(r) PROVE ChangeInv'
  <2> DEFINE t == rpc[r].tx
  <2>1. \A q \in Thread : Building(q)' => Building(q) /\ rpc'[q].tx = rpc[q].tx
    BY <1>10, NotBuilding DEF Building
  <2>2. mInitialized /\ Building(r) /\ UNCHANGED <<mInitialized, mNextChangeIndex, strayed>>
    BY <1>10 DEF SignTransaction, CanSign, LeafInv, Building, stateVars, addressVars
  <2>3. CASE SaveFails /\ sent' = sent
    BY <2>1, <2>2, <2>3, ChangeQuiet DEF SaveFails
  <2>4. CASE file'.change = mNextChangeIndex /\ sent' = sent \cup {t}
    <3>1. \A u \in sent' \ strayed : ChangeIx[u] # None => ChangeIx[u] < mNextChangeIndex
      BY <2>2, <2>4 DEF ChangeInv
    <3> QED BY <2>1, <2>2, <2>4, <3>1 DEF ChangeInv, ChangeIsKnown
  <2> QED BY <1>10, <2>3, <2>4 DEF SignTransaction, SaveToFile, Image
<1>11. CASE \/ (\E t \in Tx : Drop(t) \/ Connect(t)) \/ Disconnect \/ SyncTake \/ SyncRelease
            \/ SyncAccept \/ SyncAdd
  BY <1>11, ChangeQuiet
     DEF Drop, Connect, Disconnect, SyncTake, SyncRelease, SyncAccept, SyncAdd, walletVars,
         fileVars, addressVars, stateVars, history, Building
<1>12. CASE Crash \/ StopAndStart
  BY <1>12 DEF Crash, StopAndStart, Restart, ChangeInv, ChangeIsKnown, Building, Free, fileVars
<1> QED BY <1>1, <1>2, <1>3, <1>4, <1>5, <1>6, <1>7, <1>8, <1>9, <1>10, <1>11, <1>12 DEF Next

\* The file knows the change address of every payment that left, but for reloads.
THEOREM ChangeOnDisk == Spec => []ChangeIsKnown
<1>1. ChangeInv => ChangeIsKnown
  BY DEF ChangeInv
<1> QED BY <1>1, TypeInit, TypeStep, LeafInit, LeafStep, ChangeInit, ChangeStep, PTL DEF Spec

-----------------------------------------------------------------------------
(* The holds *)

LEMMA HoldInit == Init => HoldInv
  BY DEF Init, HoldInv, Building, Free, NoSync

\* A step that takes, releases, confirms and builds nothing.
LEMMA HoldQuiet ==
    ASSUME HoldInv,
           UNCHANGED <<session, chain, mHeldOutpoints, sent, connected, disconnected>>,
           sync'.connected = sync.connected,
           \A q \in Thread : Building(q)' => Building(q) /\ rpc'[q].tx = rpc[q].tx
    PROVE  HoldInv'
<1>1. Confirmed' = Confirmed
  BY DEF Confirmed
<1>2. \A t : Releasable(t)' <=> Releasable(t)
  BY <1>1 DEF Releasable
<1> QED BY <1>1, <1>2 DEF HoldInv

\* An output released for t is not one that another payment needs, nor t itself.
LEMMA HoldRelease ==
    ASSUME WalletTypeOK, HoldInv, NEW t \in Tx, mHeldOutpoints' = Released(t), Releasable(t),
           UNCHANGED <<session, chain, sent>>,
           \A q \in Thread : Building(q)' => Building(q) /\ rpc'[q].tx = rpc[q].tx,
           \A q \in Thread : Building(q)' /\ rpc[q].tx = t => t \in sent \/ Ins[t] = {}
    PROVE  /\ \A u \in session' \ Confirmed' : \A o \in Ins[u] : mHeldOutpoints'[o] = u
           /\ \A q \in Thread : Building(q)' /\ rpc'[q].tx \notin sent' =>
                            \A o \in Ins[rpc'[q].tx] : mHeldOutpoints'[o] = rpc'[q].tx
<1>1. Confirmed' = Confirmed
  BY DEF Confirmed
<1>2. \A o \in Outpoint : mHeldOutpoints[o] # t => mHeldOutpoints'[o] = mHeldOutpoints[o]
  BY DEF Released
<1>3. \A u \in Tx : Ins[u] \subseteq Outpoint
  BY LedgerAssumption
<1>4. ASSUME NEW u \in session \ Confirmed, NEW o \in Ins[u] PROVE mHeldOutpoints'[o] = u
  <2>1. mHeldOutpoints[o] = u /\ o \in Outpoint
    BY <1>3, <1>4 DEF HoldInv, WalletTypeOK
  <2>2. u # t
    BY <1>4 DEF Releasable
  <2> QED BY <1>2, <2>1, <2>2
<1>5. ASSUME NEW q \in Thread, Building(q)', rpc'[q].tx \notin sent, NEW o \in Ins[rpc'[q].tx]
      PROVE  mHeldOutpoints'[o] = rpc'[q].tx
  <2>1. Building(q) /\ rpc'[q].tx = rpc[q].tx
    BY <1>5
  <2>2. rpc[q].tx \in Tx
    BY <2>1 DEF Building, WalletTypeOK
  <2>3. mHeldOutpoints[o] = rpc[q].tx /\ o \in Outpoint
    BY <1>3, <1>5, <2>1, <2>2 DEF HoldInv
  <2>4. rpc[q].tx # t
    BY <1>5, <2>1
  <2> QED BY <1>2, <2>1, <2>3, <2>4
<1> QED BY <1>1, <1>4, <1>5

LEMMA HoldStep == WalletTypeOK /\ LeafInv /\ HoldInv /\ [Next]_vars => HoldInv'
<1> SUFFICES ASSUME WalletTypeOK, LeafInv, HoldInv, [Next]_vars PROVE HoldInv'
  OBVIOUS
<1>1. CASE UNCHANGED vars
  BY <1>1, HoldQuiet DEF vars, walletVars, chainVars, history, Building
<1>2. CASE MakeNoise
  BY <1>2, HoldQuiet DEF MakeNoise, chainVars, history, Building
<1>3. ASSUME NEW r \in Thread, Create(r) \/ Load(r) \/ Lock(r) \/ GetNewAddress(r)
      PROVE  HoldInv'
  BY <1>3, HoldQuiet DEF Create, Load, LoadFromFile, Lock, GetNewAddress, chainVars, history,
     Building
<1>4. ASSUME NEW r \in Thread, \/ UnlockLoads(r) \/ Unlock(r) \/ LoadNoiseFile(r)
                               \/ SyncNoiseLeafPointer(r) \/ SnapshotPool(r) \/ CreateFails(r)
                               \/ SignFails(r) \/ Validate(r) \/ Submit(r)
                               \/ \E t \in Tx : SendRaw(r, t)
      PROVE  HoldInv'
  <2>1. \A q \in Thread : Building(q)' => Building(q) /\ rpc'[q].tx = rpc[q].tx
    BY <1>4, NotBuilding DEF Building
  <2>2. UNCHANGED <<session, chain, mHeldOutpoints, sent, connected, disconnected, sync>>
    BY <1>4 DEF UnlockLoads, LoadFromFile, Unlock, LoadNoiseFile, SyncNoiseLeafPointer,
       SnapshotPool, CreateFails, SignFails, Validate, Submit, SendRaw, walletVars, chainVars,
       history
  <2> QED BY <2>1, <2>2, HoldQuiet
<1>5. ASSUME NEW r \in Thread, NEW t \in Tx, CreateTransaction(r, t) PROVE HoldInv'
  <2>1. /\ rpc'[r].tx = t /\ rpc'[r].pc \in {"built", "rebuilt"}
        /\ \A q \in Thread \ {r} : rpc'[q] = rpc[q]
    <3>1. PICK pc \in {"built", "rebuilt"} : rpc' = [rpc EXCEPT ![r].pc = pc, ![r].tx = t]
      BY <1>5 DEF CreateTransaction
    <3> QED BY <3>1 DEF WalletTypeOK, Calls
  <2>2. UNCHANGED <<session, chain, sent, connected, disconnected, sync>>
    BY <1>5 DEF CreateTransaction, chainVars, history
  <2>3. Confirmed' = Confirmed /\ \A u : Releasable(u)' <=> Releasable(u)
    BY <2>2 DEF Confirmed, Releasable
  <2>4. \A o \in Ins[t] : mHeldOutpoints[o] = None
    BY <1>5 DEF CreateTransaction, Selects, FromCoins, FromPool, Unheld
  <2>5. mHeldOutpoints' = [o \in Outpoint |-> IF o \in Ins[t] THEN t ELSE mHeldOutpoints[o]]
    BY <1>5 DEF CreateTransaction
  <2>6. None \notin Tx /\ \A u \in Tx : Ins[u] \subseteq Outpoint
    BY WalletAssumption, LedgerAssumption
  <2>7. \A u \in Tx : (\A o \in Ins[u] : mHeldOutpoints[o] = u) =>
                      (\A o \in Ins[u] : mHeldOutpoints'[o] = u /\ o \notin Ins[t])
    BY <2>4, <2>5, <2>6
  <2>8. \A q \in Thread : Building(q) => rpc[q].tx \in Tx
    BY DEF Building, WalletTypeOK
  <2>9. Releasable(t)
    BY <2>4, <2>6 DEF Releasable, HoldInv, WalletTypeOK
  <2>10. ASSUME NEW q \in Thread \ {r}, Building(q), rpc[q].tx = t
         PROVE  t \in sent \/ Ins[t] = {}
    BY <2>4, <2>6, <2>10 DEF HoldInv
  <2>11. \A u \in session' \ Confirmed' : \A o \in Ins[u] : mHeldOutpoints'[o] = u
    BY <2>2, <2>3, <2>7 DEF HoldInv, WalletTypeOK
  <2>12. \A q \in Thread : Building(q)' /\ rpc'[q].tx \notin sent' =>
                            \A o \in Ins[rpc'[q].tx] : mHeldOutpoints'[o] = rpc'[q].tx
    <3>1. \A o \in Ins[t] : mHeldOutpoints'[o] = t
      BY <2>5, <2>6
    <3> QED BY <2>1, <2>2, <2>7, <2>8, <3>1 DEF HoldInv, Building
  <2>13. \A q \in Thread : Building(q)' => Releasable(rpc'[q].tx)
    BY <2>1, <2>9 DEF HoldInv, Building
  <2>14. \A p, q \in Thread : Building(p)' /\ Building(q)' /\ rpc'[p].tx = rpc'[q].tx /\ p # q =>
                                rpc'[q].tx \in sent' \/ Ins[rpc'[q].tx] = {}
    BY <2>1, <2>2, <2>10 DEF HoldInv, Building
  <2> QED BY <2>2, <2>3, <2>11, <2>12, <2>13, <2>14 DEF HoldInv
<1>6. ASSUME NEW r \in Thread, FeeTooLow(r) PROVE HoldInv'
  <2>1. ~Building(r)' /\ \A q \in Thread \ {r} : rpc'[q] = rpc[q]
    BY <1>6, NotBuilding
  <2>2. /\ UNCHANGED <<session, chain, sent, connected, disconnected, sync>>
        /\ mHeldOutpoints' = Released(rpc[r].tx) /\ Building(r) /\ rpc[r].tx \in Tx
    BY <1>6 DEF FeeTooLow, chainVars, history, Building, WalletTypeOK
  <2>3. Confirmed' = Confirmed /\ \A u : Releasable(u)' <=> Releasable(u)
    BY <2>2 DEF Confirmed, Releasable
  <2>4. \A q \in Thread : Building(q)' => Building(q) /\ rpc'[q].tx = rpc[q].tx
    BY <2>1 DEF Building
  <2>5. Releasable(rpc[r].tx)
    BY <2>2 DEF HoldInv
  <2>6. \A q \in Thread : Building(q)' /\ rpc[q].tx = rpc[r].tx =>
                              rpc[r].tx \in sent \/ Ins[rpc[r].tx] = {}
    BY <2>1, <2>2, <2>4 DEF HoldInv
  <2>7. /\ \A u \in session' \ Confirmed' : \A o \in Ins[u] : mHeldOutpoints'[o] = u
        /\ \A q \in Thread : Building(q)' /\ rpc'[q].tx \notin sent' =>
                            \A o \in Ins[rpc'[q].tx] : mHeldOutpoints'[o] = rpc'[q].tx
    BY <2>2, <2>4, <2>5, <2>6, HoldRelease
  <2> QED BY <2>2, <2>3, <2>4, <2>7 DEF HoldInv
<1>7. ASSUME NEW r \in Thread, SignTransaction(r) PROVE HoldInv'
  <2> DEFINE t == rpc[r].tx
  <2>1. ~Building(r)' /\ \A q \in Thread \ {r} : rpc'[q] = rpc[q]
    BY <1>7, NotBuilding
  <2>2. \A q \in Thread : Building(q)' => q # r /\ Building(q) /\ rpc'[q].tx = rpc[q].tx
    BY <2>1 DEF Building
  <2>3. /\ UNCHANGED <<chain, mHeldOutpoints, connected, disconnected, sync>>
        /\ Building(r) /\ t \in Tx
    BY <1>7 DEF SignTransaction, chainVars, Building, WalletTypeOK
  <2>4. CASE UNCHANGED <<sent, session>>
    BY <2>2, <2>3, <2>4, HoldQuiet
  <2>5. CASE sent' = sent \cup {t} /\ session' = session \cup {t}
    <3>1. t \in sent => Ins[t] = {}
      <4>1. mInitialized /\ Lvs[t] \cap mNoiseUsed = {}
        BY <1>7 DEF SignTransaction, CanSign, LeafInv
      <4>2. t \in sent => Lvs[t] = {}
        BY <4>1 DEF LeafInv
      <4>3. Ins[t] # {} => Lvs[t] # {}
        BY <2>3, WalletAssumption
      <4> QED BY <4>2, <4>3
    <3>2. Confirmed' = Confirmed
      BY <2>3 DEF Confirmed
    <3>3. \A u : Releasable(u) /\ (u = t => Ins[t] = {}) => Releasable(u)'
      BY <2>5, <3>2 DEF Releasable
    <3>4. \A u \in sent : Releasable(u) => Releasable(u)'
      BY <3>1, <3>3
    <3>5. \A o \in Ins[t] : mHeldOutpoints[o] = t
      BY <2>3, <3>1 DEF HoldInv
    <3>6. \A q \in Thread : (Building(q) => Releasable(rpc[q].tx))'
      <4> SUFFICES ASSUME NEW q \in Thread, Building(q)' PROVE Releasable(rpc[q].tx)'
        OBVIOUS
      <4>1. PICK u : u = rpc[q].tx
        OBVIOUS
      <4>2. rpc'[q].tx = u /\ q # r /\ Building(q) /\ Releasable(u)
        BY <2>2, <4>1 DEF HoldInv
      <4>3. u = t => Ins[t] = {}
        BY <2>3, <3>1, <4>1, <4>2 DEF HoldInv
      <4>4. Releasable(u)'
        BY <3>3, <4>2, <4>3
      <4> QED BY <4>2, <4>4
    <3>7. /\ \A u \in connected \cup sync.connected : Releasable(u)'
          /\ \A i \in DOMAIN disconnected : \A u : u = disconnected[i] => Releasable(u)'
      BY <3>4 DEF HoldInv, WalletTypeOK
    <3>8. \A i \in DOMAIN disconnected' : Releasable(disconnected[i])'
      BY <2>3, <3>7
    <3> HIDE DEF t
    <3> QED BY <2>2, <2>3, <2>5, <3>2, <3>5, <3>6, <3>7, <3>8 DEF HoldInv
  <2> QED BY <1>7, <2>4, <2>5 DEF SignTransaction
<1>8. ASSUME NEW t \in Tx, Drop(t) PROVE HoldInv'
  BY <1>8, HoldQuiet DEF Drop, walletVars, chainVars, history, Building
<1>9. ASSUME NEW t \in Tx, Connect(t) PROVE HoldInv'
  <2>1. /\ UNCHANGED <<mHeldOutpoints, rpc, sent, session, disconnected, sync>>
        /\ connected' = connected \cup {t} /\ chain' = Append(chain, t)
    BY <1>9 DEF Connect, walletVars, history
  <2>2. Confirmed' = Confirmed \cup {t}
    <3>1. chain \in Seq(sent \cup {t})
      BY DEF WalletTypeOK
    <3>2. PICK n \in Nat : n = Len(chain) /\ DOMAIN chain = 1..n
      BY <3>1
    <3>3. /\ DOMAIN chain' = 1..(n + 1) /\ chain'[n + 1] = t
          /\ \A i \in 1..n : chain'[i] = chain[i]
      BY <2>1, <3>1, <3>2
    <3>4. 1..(n + 1) = (1..n) \cup {n + 1}
      BY <3>2
    <3> QED BY <3>2, <3>3, <3>4 DEF Confirmed
  <2>3. Releasable(t)' /\ \A u : Releasable(u) => Releasable(u)'
    BY <2>1, <2>2 DEF Releasable
  <2> QED BY <2>1, <2>2, <2>3 DEF HoldInv, Building
<1>10. CASE Disconnect
  <2>1. PICK last : last = chain[Len(chain)]
    OBVIOUS
  <2>2. /\ UNCHANGED <<mHeldOutpoints, rpc, sent, connected, sync>>
        /\ disconnected' = Append(disconnected, last) /\ session' = session \ {last}
        /\ chain # <<>> /\ chain' = SubSeq(chain, 1, Len(chain) - 1)
    BY <1>10, <2>1 DEF Disconnect, walletVars
  <2>3. Confirmed \subseteq Confirmed' \cup {last} /\ Confirmed' \subseteq Confirmed
    <3>1. chain \in Seq(sent)
      BY DEF WalletTypeOK
    <3>2. PICK n \in Nat \ {0} : n = Len(chain) /\ DOMAIN chain = 1..n
      BY <2>2, <3>1
    <3>3. /\ DOMAIN chain' = 1..(n - 1)
          /\ \A i \in 1..(n - 1) : chain'[i] = chain[i]
      BY <2>2, <3>1, <3>2
    <3>4. 1..n = (1..(n - 1)) \cup {n}
      BY <3>2
    <3> QED BY <2>1, <3>2, <3>3, <3>4 DEF Confirmed
  <2>4. Releasable(last)' /\ \A u : Releasable(u) => Releasable(u)'
    BY <2>2, <2>3 DEF Releasable
  <2>5. \A i \in DOMAIN disconnected' : Releasable(disconnected[i])'
    <3> SUFFICES ASSUME NEW i \in DOMAIN disconnected' PROVE Releasable(disconnected[i])'
      OBVIOUS
    <3>1. disconnected \in Seq(sent)
      BY DEF WalletTypeOK
    <3>2. \/ i \in DOMAIN disconnected /\ disconnected'[i] = disconnected[i]
          \/ disconnected'[i] = last
      BY <2>2, <3>1
    <3>3. PICK u : u = disconnected'[i]
      OBVIOUS
    <3>4. Releasable(u)'
      BY <2>4, <3>2, <3>3 DEF HoldInv
    <3> QED BY <3>3, <3>4
  <2>6. \A u \in session' \ Confirmed' : \A o \in Ins[u] : mHeldOutpoints'[o] = u
    BY <2>2, <2>3 DEF HoldInv
  <2> QED BY <2>2, <2>4, <2>5, <2>6 DEF HoldInv, Building
<1>11. CASE SyncTake
  <2>1. /\ UNCHANGED <<mHeldOutpoints, rpc, sent, session, chain>>
        /\ connected' = {} /\ disconnected' = <<>>
        /\ sync'.connected = connected \cup {disconnected[i] : i \in DOMAIN disconnected}
    BY <1>11 DEF SyncTake, walletVars, history
  <2>2. Confirmed' = Confirmed /\ \A u : Releasable(u)' <=> Releasable(u)
    BY <2>1 DEF Confirmed, Releasable
  <2>3. \A u \in connected' \cup sync'.connected : Releasable(u)
    BY <2>1 DEF HoldInv
  <2>4. \A i \in DOMAIN disconnected' : Releasable(disconnected'[i])
    BY <2>1
  <2> QED BY <2>1, <2>2, <2>3, <2>4 DEF HoldInv, Building
<1>12. CASE SyncRelease
  <2>1. UNCHANGED <<session, chain, sent, connected, disconnected, rpc>>
    BY <1>12 DEF SyncRelease, history
  <2>2. CASE UNCHANGED mHeldOutpoints /\ sync'.connected = sync.connected
    BY <2>1, <2>2, HoldQuiet DEF Building
  <2>3. ASSUME NEW t \in sync.connected, mHeldOutpoints' = Released(t),
               sync'.connected = sync.connected \ {t}
        PROVE  HoldInv'
    <3>1. t \in sent /\ t \in Tx /\ Releasable(t)
      BY DEF HoldInv, WalletTypeOK
    <3>2. \A q \in Thread : Building(q)' => Building(q) /\ rpc'[q].tx = rpc[q].tx
      BY <2>1 DEF Building
    <3>3. /\ \A u \in session' \ Confirmed' : \A o \in Ins[u] : mHeldOutpoints'[o] = u
          /\ \A q \in Thread : Building(q)' /\ rpc'[q].tx \notin sent' =>
                            \A o \in Ins[rpc'[q].tx] : mHeldOutpoints'[o] = rpc'[q].tx
      BY <2>1, <2>3, <3>1, <3>2, HoldRelease
    <3>4. Confirmed' = Confirmed /\ \A u : Releasable(u)' <=> Releasable(u)
      BY <2>1 DEF Confirmed, Releasable
    <3> QED BY <2>1, <2>3, <3>2, <3>3, <3>4 DEF HoldInv
  <2>4. sync \in [pc : {"idle", "release", "accept", "add"}, connected : SUBSET sent,
                  disconnected : Seq(sent)]
    BY DEF WalletTypeOK
  <2> QED BY <1>12, <2>2, <2>3, <2>4 DEF SyncRelease
<1>13. CASE SyncAccept \/ SyncAdd
  <2>1. sync \in [pc : {"idle", "release", "accept", "add"}, connected : SUBSET sent,
                  disconnected : Seq(sent)]
    BY DEF WalletTypeOK
  <2>2. sync'.connected = sync.connected
    BY <1>13, <2>1 DEF SyncAccept, SyncAdd, Resurrected
  <2> QED BY <1>13, <2>2, HoldQuiet DEF SyncAccept, SyncAdd, walletVars, history, Building
<1>14. CASE Crash \/ StopAndStart
  BY <1>14 DEF Crash, StopAndStart, Restart, HoldInv, Building, Releasable, Free, NoSync
<1> QED BY <1>1, <1>2, <1>3, <1>4, <1>5, <1>6, <1>7, <1>8, <1>9, <1>10, <1>11, <1>12, <1>13,
           <1>14 DEF Next

\* Payments of one run that no block has confirmed or detached share no input.
THEOREM NoInputTwice == Spec => []NoSelfConflict
<1>1. WalletTypeOK /\ HoldInv => NoSelfConflict
  BY LedgerAssumption DEF HoldInv, WalletTypeOK, NoSelfConflict
<1> QED BY <1>1, TypeInit, TypeStep, LeafInit, LeafStep, HoldInit, HoldStep, PTL DEF Spec
=============================================================================
