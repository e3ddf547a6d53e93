-------------------------- MODULE HubGreenfield_proof --------------------------
(***************************************************************************)
(* What the verify loop promises: the bundle of a verified slot is sealed  *)
(* on Greenfield and holds the slot's blobs.  It is proved on BSC, for     *)
(* every number of slots and every configuration, as long as the process   *)
(* does not crash and the bundle service loses no bundle: README.md shows  *)
(* what happens without these.                                             *)
(***************************************************************************)
EXTENDS BlobHub_proof

\* The conditions: BSC, no crash, no bundle lost, errors to be believed.
Calm ==
    /\ Network = "BSC" /\ MaxCrashes = 0 /\ MaxLosses = 0
    /\ ~CommitAckMayBeLost /\ ~StartLoweredEarly

Known == HubInv /\ FinalRead /\ GreenfieldInv

\* The facts the steps below use, in one place.
LEMMA KnownBasics ==
    ASSUME Known
    PROVE  /\ HubTypeOK /\ DaoTypeOK /\ BundleTypeOK /\ HasLatest
           /\ Nxt \in Nat /\ cfg.start \in Nat /\ 1 <= cfg.start /\ cfg.start <= Nxt
           /\ finalized \in Int /\ now \in Nat /\ 1 <= now /\ cur \in Nat
           /\ DOMAIN blockTbl = cfg.start .. Nxt - 1
           /\ \A n \in Name : n.start \in Nat /\ n.end \in Nat /\ n.cal \in Nat
           /\ DOMAIN bundleTbl \subseteq Name
           /\ detail \in Name /\ vbundle \in Name /\ vnew \in Name
<1>1. HubTypeOK /\ HasLatest
  BY DEF Known, HubInv, HubDb
<1>2. TypeOK /\ DaoTypeOK /\ BundleTypeOK
  BY <1>1 DEF HubTypeOK, TypeOK
<1>3. cfg.start \in Nat /\ 1 <= cfg.start /\ cfg.start <= Nxt
  <2>1. cfg.start \in Nat \ {0}
    BY <1>2, SyncerAssumption DEF TypeOK, SyncTypeOK, Config
  <2>2. cfg.start <= Nxt
    BY <1>1, <1>2, NextSlot
  <2> QED
    BY <2>1, <2>2
<1>4. finalized \in Int /\ DOMAIN blockTbl = cfg.start .. Nxt - 1
  BY DEF Known, FinalRead, GreenfieldInv, RowsInOrder
<1> QED
  BY <1>1, <1>2, <1>3, <1>4, HubBasics

\* A recorded slot's bundle has a row and covers it, and so is its first slot
\* recorded.
LEMMA RowFacts ==
    ASSUME Known, NEW s \in DOMAIN blockTbl
    PROVE  LET n == blockTbl[s].bundle
           IN  /\ n \in DOMAIN bundleTbl /\ n \in Name
               /\ n.start \in Nat /\ n.end \in Nat /\ n.cal \in Nat
               /\ s \in SlotsOf(n) /\ n.start <= s /\ s <= n.end
               /\ n.start \in DOMAIN blockTbl
               /\ s \in Nat /\ cfg.start <= s /\ s < Nxt /\ s \in Slots
               /\ s < finalized /\ blockTbl[s].blobs = HasBlobs(s)
<1> DEFINE n == blockTbl[s].bundle
<1>1. n \in DOMAIN bundleTbl /\ s \in SlotsOf(n)
  BY DEF Known, HubInv, HubDb, BlockInOwnBundle
<1>2. n \in Name /\ n.start \in Nat /\ n.end \in Nat /\ n.cal \in Nat
  BY <1>1, KnownBasics
<1>3. s \in Nat /\ cfg.start <= s /\ s < Nxt
  BY KnownBasics
<1>4. n.start <= s /\ s <= n.end
  BY <1>1, <1>2, <1>3 DEF SlotsOf
<1>5. cfg.start <= n.start
  BY <1>1 DEF Known, GreenfieldInv, RangesApart
<1>6. n.start \in DOMAIN blockTbl
  BY <1>2, <1>3, <1>4, <1>5, KnownBasics
<1>7. s \in Slots
  BY KnownBasics DEF DaoTypeOK
<1>8. s < finalized /\ blockTbl[s].blobs = HasBlobs(s)
  BY <1>7 DEF Known, FinalRead, RowsFinal, ReadFinal
<1> HIDE DEF n
<1> QED
  BY <1>1, <1>2, <1>3, <1>4, <1>6, <1>7, <1>8 DEF n

\* Bundles with a slot in common cover the same slots.
LEMMA OneSlotOneRange ==
    ASSUME Known, NEW m \in DOMAIN bundleTbl, NEW n \in DOMAIN bundleTbl,
           NEW s, s \in SlotsOf(m), s \in SlotsOf(n)
    PROVE  SameRange(m, n) /\ SlotsOf(m) = SlotsOf(n) /\ m.start = n.start
<1>1. SameRange(m, n) \/ m.end < n.start \/ n.end < m.start
  BY DEF Known, GreenfieldInv, RangesApart
<1>2. m.start \in Nat /\ m.end \in Nat /\ n.start \in Nat /\ n.end \in Nat
  BY KnownBasics
<1> QED
  BY <1>1, <1>2 DEF SlotsOf, SameRange

-----------------------------------------------------------------------------
(* What a step changes, in the terms of the invariant *)

\* Up to the last final slot the chain does not change, and finality and clock
\* only move on; only the chain's own steps touch them.
LEMMA FinalStays ==
    ASSUME Known, HubNext
    PROVE  /\ \A s \in Int : s <= finalized => HasBlobs(s)' = HasBlobs(s)
           /\ \A n \in Name : n.end <= finalized => HoldsBlobs(n)' = HoldsBlobs(n)
           /\ finalized' \in Int /\ finalized <= finalized' /\ now <= now' /\ now' \in Nat
           /\ ~HubChain => UNCHANGED <<canon, finalized, now>>
<1>1. finalized \in Int /\ now \in Nat
  BY KnownBasics
<1>2. ~HubChain => UNCHANGED <<canon, finalized, now>>
  BY DEF HubNext, HubSync, SyncBoot, SyncBootFresh, SyncBootResume,
     SyncBootSkip, SyncBootDeprecate, SyncStep, SyncFetch, SyncBlockNotFound,
     SyncForkedBlock, SyncNotYet, SyncMakeDir, SyncCreateBundle,
     SyncWriteBlobs, SyncBundleExists, SyncBundleNotExist, SyncUpload,
     SyncNothingToUpload, SyncRemoveDir, SyncMarkFinalized, SyncSave,
     SyncUploadReplyLost, SyncSaveAckLost, SyncError, HubVerify, VerifyStep,
     VerifyPick, VerifyBundleNotExist, VerifyNoBlobs, VerifyBlobsNotFound,
     VerifyEmptyBundle, VerifySealedOnChain, VerifyNotSealed, VerifyIntegrity,
     VerifyBlockWithoutBlobs, VerifyBlock, VerifySeal, VerifyDeprecate,
     VerifyMakeDir, VerifyCreateBundle, VerifyRewrite, VerifyUpload,
     VerifyRemoveDir, VerifyMarkFinalized, VerifyUploadReplyLost, VerifyError,
     HubService, ServiceNext, ServiceStep, ServiceDamage, ServiceLoss,
     HubCrash, SyncCrash, chainVars, VerifyNotRecorded
<1>3. /\ finalized' \in Int /\ finalized <= finalized' /\ now <= now' /\ now' \in Nat
      /\ \A s \in Slots : s <= finalized => canon'[s] = canon[s]
  <2>1. CASE HubChain
    BY <1>1, <2>1 DEF HubChain, ChainStep, ChainNext, NewHead, Finalize, Reorg, Tick
  <2>2. CASE UNCHANGED <<canon, finalized, now>>
    BY <1>1, <2>2
  <2> QED
    BY <1>2, <2>1, <2>2
<1>4. \A s \in Int : s <= finalized => HasBlobs(s)' = HasBlobs(s)
  BY <1>3 DEF HasBlobs, Slots
<1>5. ASSUME NEW n \in Name, n.end <= finalized
      PROVE  HoldsBlobs(n)' = HoldsBlobs(n)
  <2>1. \A s \in SlotsOf(n) : s \in Int /\ s <= finalized
    BY <1>1, <1>5 DEF Name, SlotsOf
  <2> QED
    BY <1>4, <2>1 DEF HoldsBlobs
<1> QED
  BY <1>2, <1>3, <1>4, <1>5

\* Nothing crashes, and LoadProgressAndResume finds an empty database.
LEMMA CalmStep ==
    ASSUME Calm, Known, HubNext
    PROVE  /\ ~SyncCrash /\ ~SyncSaveAckLost
           /\ ~SyncBootResume /\ ~SyncBootSkip /\ ~SyncBootDeprecate
           /\ HubSync \/ HubVerify \/ HubService \/ HubChain
           /\ HubSync => \/ SyncAside \/ SyncCreateBundle
                         \/ SyncBundleExists \/ SyncMarkFinalized \/ SyncSave
<1>1. ~SyncCrash
  BY KnownBasics DEF Calm, SyncCrash, HubTypeOK, TypeOK, SyncTypeOK
<1>2. ~SyncBootResume /\ ~SyncBootSkip /\ ~SyncBootDeprecate
  BY DEF Known, GreenfieldInv, RowsInOrder, SyncBootResume, SyncBootSkip,
     SyncBootDeprecate, Finalizing
<1>3. ~SyncSaveAckLost
  BY DEF Calm, SyncSaveAckLost
<1> QED
  BY <1>1, <1>2, <1>3, SyncSplit DEF HubNext, HubCrash, Calm

\* The service drops no bundle, and what is sealed stays as it is.
ServiceKeeps ==
    /\ DOMAIN svc \subseteq DOMAIN svc'
    /\ \A n \in DOMAIN svc :
        svc[n].object = "sealed" =>
            svc'[n].object = "sealed" /\ svc'[n].slots = svc[n].slots
    /\ \A n \in DOMAIN svc' : svc'[n].info = 3 => svc'[n].object = "sealed"

LEMMA UploadKeeps ==
    ASSUME Known, NEW n, UploadAndFinalizeBundle(n) PROVE ServiceKeeps
<1>1. \A m \in DOMAIN svc : svc[m].info = 3 => svc[m].object = "sealed"
  BY DEF Known, GreenfieldInv, SealedWhenVerified
<1> QED
  BY <1>1 DEF UploadAndFinalizeBundle, BundleExists, Put, NewBundle, ServiceKeeps

LEMMA ServiceStepKeeps ==
    ASSUME Calm, Known, HubService PROVE ServiceKeeps
<1>1. \A n \in DOMAIN svc : svc[n].info = 3 => svc[n].object = "sealed"
  BY DEF Known, GreenfieldInv, SealedWhenVerified
<1>2. \A n \in DOMAIN svc :
        svc[n] \in [slots : SUBSET Slots, info : InfoStatus, object : ObjectStatus]
  BY KnownBasics DEF BundleTypeOK
<1>3. CASE ServiceStep
  <2>1. PICK n \in DOMAIN svc : CreateObject(n) \/ SealObject(n) \/ RefreshInfo(n)
    BY <1>3 DEF ServiceStep
  <2> USE <1>1, <1>2
  <2>2. CASE CreateObject(n)
    BY <2>2 DEF CreateObject, ServiceKeeps
  <2>3. CASE SealObject(n)
    BY <2>3 DEF SealObject, ServiceKeeps
  <2>4. CASE RefreshInfo(n)
    <3>1. svc[n].info + 1 = 3 => svc[n].object = "sealed"
      BY <2>4 DEF RefreshInfo, InfoStatus
    <3>2. /\ svc' = [svc EXCEPT ![n].info = svc[n].info + 1]
          /\ DOMAIN svc' = DOMAIN svc
      BY <2>4 DEF RefreshInfo
    <3> QED
      BY <3>1, <3>2 DEF ServiceKeeps
  <2> QED
    BY <2>1, <2>2, <2>3, <2>4
<1>4. CASE ServiceDamage
  <2>1. PICK n \in DOMAIN svc : DamageBundle(n)
    BY <1>4 DEF ServiceDamage
  <2> QED
    BY <1>1, <1>2, <2>1 DEF DamageBundle, ServiceKeeps
<1>5. ~ServiceLoss
  BY KnownBasics DEF Calm, ServiceLoss, HubTypeOK, VerifyTypeOK
<1> QED
  BY <1>3, <1>4, <1>5 DEF HubService, ServiceNext

LEMMA StepKeepsService ==
    ASSUME Calm, Known, HubNext PROVE ServiceKeeps
<1>1. UNCHANGED svc => ServiceKeeps
  BY DEF Known, GreenfieldInv, SealedWhenVerified, ServiceKeeps
<1>2. CASE HubSync
  <2>1. CASE SyncUpload \/ SyncUploadReplyLost
    BY <2>1, UploadKeeps DEF SyncUpload, SyncUploadReplyLost
  <2>2. CASE ~(SyncUpload \/ SyncUploadReplyLost)
    BY <1>1, <1>2, <2>2, CalmStep DEF SyncAside, SyncBootFresh, SyncFetch,
       SyncForkedBlock, SyncBlockNotFound, SyncNotYet, SyncMakeDir,
       SyncCreateBundle, SyncWriteBlobs, SyncBundleExists, SyncBundleNotExist,
       SyncNothingToUpload, SyncRemoveDir, SyncMarkFinalized, SyncSave,
       SyncError, bundleVars
  <2> QED
    BY <2>1, <2>2
<1>3. CASE HubVerify
  <2>1. CASE VerifyUpload \/ VerifyUploadReplyLost
    BY <2>1, UploadKeeps DEF VerifyUpload, VerifyUploadReplyLost
  <2>2. CASE ~(VerifyUpload \/ VerifyUploadReplyLost)
    BY <1>1, <1>3, <2>2 DEF HubVerify, VerifyStep, VerifyError, VerifyPick,
       VerifyBundleNotExist, VerifyNoBlobs, VerifyBlobsNotFound,
       VerifyEmptyBundle, VerifySealedOnChain, VerifyNotSealed,
       VerifyIntegrity, VerifyBlockWithoutBlobs, VerifyBlock, VerifySeal,
       VerifyDeprecate, VerifyMakeDir, VerifyCreateBundle, VerifyRewrite,
       VerifyRemoveDir, VerifyMarkFinalized, bundleVars, VerifyNotRecorded
  <2> QED
    BY <2>1, <2>2
<1>4. CASE HubChain
  BY <1>1, <1>4 DEF HubChain, ChainStep, bundleVars
<1> QED
  BY <1>2, <1>3, <1>4, CalmStep, ServiceStepKeeps

\* A sync step that records nothing leaves the rows alone.
LEMMA SyncKeepsRows ==
    ASSUME Calm, Known, HubSync, ~SyncSave
    PROVE  /\ blockTbl' = blockTbl /\ cfg' = cfg /\ Nxt' = Nxt
           /\ UNCHANGED <<vpc, vslot, vbundle, vnew>>
<1>1. UNCHANGED <<blockTbl, cfg>>
  BY CalmStep, SyncAsideKeeps DEF HubNext, SyncCreateBundle, SyncBundleExists,
     SyncMarkFinalized, daoVars
<1> QED
  BY <1>1, NextSlotFrame DEF HubSync, verifyVars

\* Three things may happen to a row in a step of the verify loop.
RowKept(s) == blockTbl'[s] = blockTbl[s]

RowMarked(s) ==
    /\ vpc \in {"empty", "integrity", "block"} /\ s \in SlotsOf(vbundle)
    /\ blockTbl'[s].status = "verified"
    /\ blockTbl'[s].bundle = blockTbl[s].bundle
    /\ HoldsBlobs(vbundle) => Sealed(vbundle)
    /\ HasBlobs(s) => s \in svc[vbundle].slots
    /\ UNCHANGED <<bundleTbl, svc>>

RowMoved(s) ==
    /\ vpc = "rewrite" /\ s = vslot /\ vslot <= vbundle.end
    /\ blockTbl'[s].status = "processed"
    /\ blockTbl'[s].bundle = vnew
    /\ UNCHANGED <<bundleTbl, svc>>

\* The bundle a call of verify is about has been announced; it is with the
\* service unless it has no blobs.
LEMMA VerifiesAnnounced ==
    ASSUME Known, vpc # "pick"
    PROVE  /\ vbundle \in DOMAIN bundleTbl /\ Announced(vbundle)
           /\ vbundle.end <= finalized
           /\ HoldsBlobs(vbundle) => vbundle \in DOMAIN svc
<1>1. vbundle \in DOMAIN bundleTbl /\ Announced(vbundle)
  BY DEF Known, HubInv, VerifyInRange, Announced
<1> QED
  BY <1>1 DEF Known, GreenfieldInv, OutIsFinal, OutIsHeld

\* Rows are marked only when the bundle passed the check.
LEMMA MarkingIsRight ==
    ASSUME Calm, Known,
           \/ VerifyEmptyBundle \/ VerifyIntegrity
           \/ VerifyBlockWithoutBlobs \/ VerifyBlock,
           NEW s \in DOMAIN blockTbl
    PROVE  /\ DOMAIN blockTbl' = DOMAIN blockTbl
           /\ RowKept(s) \/ RowMarked(s)
<1> DEFINE Passed(x, y) ==
        /\ UpdateBlocksStatus(x, y, "verified")
        /\ HoldsBlobs(vbundle) => Sealed(vbundle)
        /\ \A t \in SlotsOf(vbundle) :
            x <= t /\ t <= y /\ HasBlobs(t) => t \in svc[vbundle].slots
<1>1. /\ vpc \in {"empty", "integrity", "block"} /\ UNCHANGED <<bundleTbl, svc>>
      /\ DaoTypeOK /\ vbundle \in Name
  BY KnownBasics DEF VerifyEmptyBundle, VerifyIntegrity,
     VerifyBlockWithoutBlobs, VerifyBlock, bundleVars
<1>2. \/ blockTbl' = blockTbl
      \/ Passed(vbundle.start, vbundle.end)
      \/ vslot \in SlotsOf(vbundle) /\ Passed(vslot, vslot)
  <2>1. CASE VerifyEmptyBundle
    <3>1. ~HoldsBlobs(vbundle)
      BY <2>1 DEF VerifyEmptyBundle, Known, GreenfieldInv, SealedWhenVerified
    <3>2. \A t \in SlotsOf(vbundle) : ~HasBlobs(t)
      BY <3>1 DEF HoldsBlobs
    <3> QED
      BY <2>1, <3>1, <3>2 DEF VerifyEmptyBundle
  <2>2. CASE VerifyIntegrity
    <3>1. PICK lost \in SUBSET SlotsOf(vbundle) :
            /\ Network = "BSC" => lost = {}
            /\ \/ /\ {t \in SlotsOf(vbundle) : HasBlobs(t)} \ lost = svc[vbundle].slots
                  /\ UpdateBlocksStatus(vbundle.start, vbundle.end, "verified")
               \/ UNCHANGED blockTbl
      BY <2>2 DEF VerifyIntegrity
    <3>2. lost = {} /\ Sealed(vbundle)
      BY <2>2, <3>1 DEF Calm, VerifyIntegrity, Known, GreenfieldInv, SealedWhenVerified
    <3> QED
      BY <3>1, <3>2
  <2>3. CASE VerifyBlockWithoutBlobs \/ VerifyBlock
    <3>1. /\ vpc = "block" /\ vslot \in DOMAIN blockTbl /\ vslot \in SlotsOf(vbundle)
          /\ HoldsBlobs(vbundle) => Sealed(vbundle)
      BY <2>3 DEF VerifyBlockWithoutBlobs, VerifyBlock, Known, GreenfieldInv,
         VerifyHolds, SealedWhenVerified
    <3>2. \/ blockTbl' = blockTbl
          \/ /\ UpdateBlocksStatus(vslot, vslot, "verified")
             /\ HasBlobs(vslot) => vslot \in svc[vbundle].slots
      <4>1. CASE VerifyBlockWithoutBlobs
        BY <3>1, <4>1, RowFacts DEF VerifyBlockWithoutBlobs, MarkVerified
      <4>2. CASE VerifyBlock
        BY <4>2 DEF VerifyBlock, MarkVerified, VerifyBlobsAtBlock, GetBlob,
           GetObject, Calm
      <4> QED
        BY <2>3, <4>1, <4>2
    <3>3. \A t \in SlotsOf(vbundle) : vslot <= t /\ t <= vslot => t = vslot
      BY <1>1, <3>1 DEF SlotsOf, Name
    <3> QED
      BY <3>1, <3>2, <3>3
  <2> QED
    BY <2>1, <2>2, <2>3
<1>3. CASE blockTbl' = blockTbl
  BY <1>3 DEF RowKept
<1>4. ASSUME NEW x, NEW y, Passed(x, y),
             \/ x = vbundle.start /\ y = vbundle.end
             \/ x = vslot /\ y = vslot /\ vslot \in SlotsOf(vbundle)
      PROVE  /\ DOMAIN blockTbl' = DOMAIN blockTbl
             /\ RowKept(s) \/ RowMarked(s)
  <2>1. /\ DOMAIN blockTbl' = DOMAIN blockTbl
        /\ blockTbl'[s].bundle = blockTbl[s].bundle
        /\ x <= s /\ s <= y => blockTbl'[s].status = "verified"
    BY <1>1, <1>4, UpdateBlocksStatusRows
  <2>2. ~(x <= s /\ s <= y) => RowKept(s)
    BY <1>4 DEF UpdateBlocksStatus, BlocksWithStatus, RowKept
  <2>3. x <= s /\ s <= y => s \in SlotsOf(vbundle)
    BY <1>1, <1>4, RowFacts DEF SlotsOf, Name
  <2> QED
    BY <1>1, <1>4, <2>1, <2>2, <2>3 DEF RowMarked
<1> QED
  BY <1>2, <1>3, <1>4

LEMMA VerifyRowStep ==
    ASSUME Calm, Known, HubVerify, NEW s \in DOMAIN blockTbl
    PROVE  RowKept(s) \/ RowMarked(s) \/ RowMoved(s)
<1>1. CASE VerifyEmptyBundle \/ VerifyIntegrity \/ VerifyBlockWithoutBlobs \/ VerifyBlock
  BY <1>1, MarkingIsRight
<1>2. CASE VerifyRewrite
  <2>1. /\ vpc = "rewrite" /\ vslot <= vbundle.end
        /\ UNCHANGED <<bundleTbl, svc>>
        /\ \/ blockTbl' = blockTbl
           \/ \E sidecars \in BOOLEAN : SaveBlockAndBlob(vslot, vnew, sidecars)
    BY <1>2 DEF VerifyRewrite
  <2>2. DaoTypeOK
    BY KnownBasics
  <2>3. CASE blockTbl' = blockTbl
    BY <2>3 DEF RowKept
  <2>4. CASE \E sidecars \in BOOLEAN : SaveBlockAndBlob(vslot, vnew, sidecars)
    BY <2>1, <2>2, <2>4, SaveBlockAndBlobRows DEF RowKept, RowMoved
  <2> QED
    BY <2>1, <2>3, <2>4
<1>3. CASE UNCHANGED blockTbl
  BY <1>3 DEF RowKept
<1> QED
  BY <1>1, <1>2, <1>3 DEF HubVerify, VerifyStep, VerifyUploadReplyLost,
     VerifyError, VerifyPick, VerifyBundleNotExist, VerifyNoBlobs,
     VerifyBlobsNotFound, VerifySealedOnChain, VerifyNotSealed, VerifySeal,
     VerifyDeprecate, VerifyMakeDir, VerifyCreateBundle, VerifyUpload,
     VerifyRemoveDir, VerifyMarkFinalized, daoVars, VerifyNotRecorded

\* What a step does to the bundles: it adds none that is out and takes none
\* back, and what it announces is with the service unless it has no blobs.
NewBundleIs(n) ==
    \/ n = detail /\ spc = "row" /\ HubSync
    \/ n = vnew /\ vpc = "row" /\ HubVerify

NowOut(n) ==
    \/ n = detail /\ spc \in Closing /\ HubSync
    \/ n = vnew /\ vpc = "mark" /\ HubVerify

BundlesStep ==
    /\ DOMAIN bundleTbl \subseteq DOMAIN bundleTbl'
    /\ \A n \in DOMAIN bundleTbl' :
        n \notin DOMAIN bundleTbl => ~Announced(n)' /\ NewBundleIs(n)
    /\ \A n \in DOMAIN bundleTbl : Announced(n) => Announced(n)'
    /\ \A n \in DOMAIN bundleTbl :
        Announced(n)' =>
            \/ Announced(n)
            \/ NowOut(n) /\ (HoldsBlobs(n) => n \in DOMAIN svc)

LEMMA SameBundlesStep ==
    ASSUME UNCHANGED bundleTbl PROVE BundlesStep
BY DEF BundlesStep, Announced

LEMMA MarkBundleStep ==
    ASSUME DaoTypeOK, NEW n, NEW st, st # "finalizing", UpdateBundleStatus(n, st),
           n \in DOMAIN bundleTbl =>
             Announced(n) \/ (NowOut(n) /\ (HoldsBlobs(n) => n \in DOMAIN svc))
    PROVE  BundlesStep
<1>1. /\ DOMAIN bundleTbl' = DOMAIN bundleTbl
      /\ n \in DOMAIN bundleTbl => bundleTbl'[n].status = st
      /\ \A m \in DOMAIN bundleTbl : m # n => bundleTbl'[m] = bundleTbl[m]
  BY UpdateBundleStatusRows
<1> QED
  BY <1>1 DEF BundlesStep, Announced

LEMMA NewBundleStep ==
    ASSUME DaoTypeOK, NEW n, NEW t, CreateBundle(n, t), NewBundleIs(n)
    PROVE  BundlesStep
<1>1. /\ DOMAIN bundleTbl' = DOMAIN bundleTbl \cup {n}
      /\ n \notin DOMAIN bundleTbl => bundleTbl'[n].status = "finalizing"
      /\ \A m \in DOMAIN bundleTbl : bundleTbl'[m] = bundleTbl[m]
  BY CreateBundleRows
<1> QED
  BY <1>1 DEF BundlesStep, Announced

LEMMA StepOfBundles ==
    ASSUME Calm, Known, HubNext PROVE BundlesStep
<1> USE KnownBasics
<1>1. CASE HubSync
  <2>1. CASE SyncCreateBundle
    BY <1>1, <2>1, NewBundleStep DEF SyncCreateBundle, NewBundleIs
  <2>2. CASE SyncBundleExists \/ SyncMarkFinalized
    <3>1. /\ UpdateBundleStatus(detail, "finalized") /\ spc \in Closing
          /\ HoldsBlobs(detail) => detail \in DOMAIN svc
      BY <2>2 DEF SyncBundleExists, SyncMarkFinalized, Closing, BundleExists,
         Known, GreenfieldInv, UploadedIsHeld, DetailIsHeld
    <3> QED
      BY <1>1, <3>1, MarkBundleStep DEF NowOut
  <2>3. CASE UNCHANGED bundleTbl
    BY <2>3, SameBundlesStep
  <2> QED
    BY <1>1, <2>1, <2>2, <2>3, CalmStep, SyncAsideKeeps DEF SyncSave, daoVars
<1>2. CASE HubVerify
  <2>1. CASE VerifyCreateBundle
    BY <1>2, <2>1, NewBundleStep DEF VerifyCreateBundle, NewBundleIs
  <2>2. CASE VerifyMarkFinalized
    <3>1. /\ UpdateBundleStatus(vnew, "finalized") /\ vpc = "mark"
          /\ SlotsOf(vnew) = SlotsOf(vbundle)
          /\ HoldsBlobs(vbundle) => vnew \in DOMAIN svc
      BY <2>2 DEF VerifyMarkFinalized, Known, GreenfieldInv, UploadedIsHeld,
         NewIsHeld, HubInv, VerifyInRange, ReUploading, SlotsOf
    <3> QED
      BY <1>2, <3>1, MarkBundleStep DEF NowOut, HoldsBlobs
  <2>3. CASE VerifySeal \/ VerifyDeprecate
    <3>1. /\ \E st \in {"sealed", "deprecated"} : UpdateBundleStatus(vbundle, st)
          /\ vpc # "pick"
      BY <2>3 DEF VerifySeal, VerifyDeprecate
    <3> QED
      BY <3>1, VerifiesAnnounced, MarkBundleStep
  <2>4. CASE UNCHANGED bundleTbl
    BY <2>4, SameBundlesStep
  <2> QED
    BY <1>2, <2>1, <2>2, <2>3, <2>4 DEF HubVerify, VerifyStep,
       VerifyUploadReplyLost, VerifyError, VerifyPick, VerifyBundleNotExist,
       VerifyNoBlobs, VerifyIntegrity, VerifyBlockWithoutBlobs, VerifyBlock,
       VerifyRewrite, VerifyBlobsNotFound, VerifyEmptyBundle,
       VerifySealedOnChain, VerifyNotSealed, VerifyMakeDir, VerifyUpload,
       VerifyRemoveDir, daoVars, VerifyNotRecorded
<1>3. CASE HubService \/ HubChain
  BY <1>3, SameBundlesStep DEF HubService, ServiceNext, ServiceStep,
     ServiceDamage, ServiceLoss, HubChain, ChainStep, daoVars
<1> QED
  BY <1>1, <1>2, <1>3, CalmStep

\* The rows a step leaves, whichever process takes it.
RowsStep ==
    /\ cfg' = cfg
    /\ \/ SyncSave /\ HubSync
       \/ /\ DOMAIN blockTbl' = DOMAIN blockTbl /\ Nxt' = Nxt
          /\ \A s \in DOMAIN blockTbl :
                RowKept(s) \/ (HubVerify /\ (RowMarked(s) \/ RowMoved(s)))

LEMMA StepOfRows ==
    ASSUME Calm, Known, HubNext PROVE RowsStep
<1>1. CASE HubSync
  BY <1>1, SyncKeepsRows DEF RowsStep, RowKept, SyncSave
<1>2. CASE HubVerify
  <2>1. DOMAIN blockTbl' = DOMAIN blockTbl /\ Nxt' = Nxt /\ cfg' = cfg
    BY <1>2, VerifyTables, VerifyPending DEF Known, HubVerify, syncVars
  <2> QED
    BY <1>2, <2>1, VerifyRowStep DEF RowsStep
<1>3. CASE HubService \/ HubChain
  <2>1. UNCHANGED <<blockTbl, cfg>>
    BY <1>3 DEF HubService, ServiceNext, ServiceStep, ServiceDamage,
       ServiceLoss, HubChain, ChainStep, daoVars, syncVars
  <2> QED
    BY <2>1, NextSlotFrame DEF RowsStep, RowKept
<1> QED
  BY <1>1, <1>2, <1>3, CalmStep

-----------------------------------------------------------------------------
(* The tables *)

\* The bundle of a running loop, and where its call stands.
LEMMA LoopFacts ==
    ASSUME Known, Running
    PROVE  /\ detail.cal = 0 /\ detail.start <= Nxt /\ Nxt <= detail.end
           /\ cfg.start <= detail.start
           /\ Nxt # detail.start => detail \in DOMAIN bundleTbl
           /\ \A n \in DOMAIN bundleTbl :
                SameRange(n, detail) \/ n.end < detail.start
           /\ spc \in Working => cur = Nxt /\ (cur < finalized /\ got = HasBlobs(cur))
           /\ spc \in Closing => cur = detail.end /\ detail \in DOMAIN bundleTbl
BY DEF Known, HubInv, HubTypeOK, TypeOK, SyncTypeOK, HubLoop, DetailHasNext,
   CallAtNext, GreenfieldInv, RangesApart, FinalRead, ReadFinal

\* The new bundle of the verify loop.
LEMMA NewNameFacts ==
    ASSUME Known, vpc \in ReUploading
    PROVE  /\ SameRange(vnew, vbundle) /\ SlotsOf(vnew) = SlotsOf(vbundle)
           /\ vnew.start = vbundle.start /\ vnew.end = vbundle.end
           /\ vnew.cal > 0 /\ vnew.cal <= now /\ vbundle.cal <= vnew.cal
           /\ vnew = vbundle \/ ~Announced(vnew)
           /\ vnew # detail \/ spc = "down"
<1>1. /\ vnew.start = vbundle.start /\ vnew.end = vbundle.end /\ vnew.cal > 0
      /\ vnew.cal <= now /\ vbundle.cal <= vnew.cal
      /\ vnew = vbundle \/ ~Announced(vnew)
  BY DEF Known, HubInv, VerifyInRange, GreenfieldInv, VerifyHolds
<1>2. spc # "down" => Running
  BY DEF Known, GreenfieldInv, RowsInOrder, Running
<1> QED
  BY <1>1, <1>2, LoopFacts DEF SameRange, SlotsOf

LEMMA RowsInOrderStep ==
    ASSUME Calm, Known, HubNext PROVE RowsInOrder'
<1>1. /\ \A s \in DOMAIN blockTbl : blockTbl[s].status # "skipped"
      /\ spc # "deprecate" /\ (spc = "down" => DOMAIN bundleTbl = {})
  BY DEF Known, GreenfieldInv, RowsInOrder
<1>2. /\ cfg' = cfg
      /\ DOMAIN blockTbl' = cfg.start .. Nxt' - 1
      /\ \A s \in DOMAIN blockTbl' : blockTbl'[s].status # "skipped"
  <2>1. CASE SyncSave
    BY <1>1, <2>1, SaveHubFacts, KnownBasics DEF Known
  <2>2. CASE ~SyncSave
    BY <1>1, <2>2, StepOfRows, KnownBasics DEF RowsStep, RowKept, RowMarked, RowMoved
  <2> QED
    BY <2>1, <2>2
<1>3. spc' # "deprecate" /\ (spc' = "down" => spc = "down" /\ UNCHANGED spc)
  <2>1. CASE HubSync
    BY <1>1, <2>1, CalmStep DEF SyncAside, SyncBootFresh, SyncFetch,
       SyncForkedBlock, SyncBlockNotFound, SyncNotYet, SyncMakeDir,
       SyncCreateBundle, SyncWriteBlobs, SyncBundleExists, SyncBundleNotExist,
       SyncNothingToUpload, SyncRemoveDir, SyncMarkFinalized, SyncSave,
       SyncError, SyncUpload, SyncUploadReplyLost, Return
  <2>2. CASE HubVerify \/ HubService \/ HubChain
    BY <1>1, <2>2 DEF HubVerify, HubService, HubChain, ChainStep, syncVars
  <2> QED
    BY <2>1, <2>2, CalmStep
<1>4. spc' = "down" => DOMAIN bundleTbl' = {}
  <2> SUFFICES ASSUME spc' = "down", NEW n \in DOMAIN bundleTbl' PROVE FALSE
    OBVIOUS
  <2>1. spc = "down" /\ DOMAIN bundleTbl = {}
    BY <1>1, <1>3
  <2>2. vpc = "row"
    BY <2>1, StepOfBundles DEF BundlesStep, NewBundleIs
  <2> QED
    BY <2>1, <2>2, VerifiesAnnounced
<1> QED
  BY <1>2, <1>3, <1>4 DEF RowsInOrder

LEMMA RangesApartStep ==
    ASSUME Calm, Known, HubNext PROVE RangesApart'
<1> USE KnownBasics
<1>1. /\ \A n \in DOMAIN bundleTbl : cfg.start <= n.start
      /\ \A m, n \in DOMAIN bundleTbl :
            SameRange(m, n) \/ m.end < n.start \/ n.end < m.start
  BY DEF Known, GreenfieldInv, RangesApart
<1>2. cfg' = cfg
  BY StepOfRows DEF RowsStep
<1>3. ASSUME NEW n \in DOMAIN bundleTbl', n \notin DOMAIN bundleTbl
      PROVE  /\ cfg.start <= n.start
             /\ \A m \in DOMAIN bundleTbl : SameRange(m, n) \/ m.end < n.start \/ n.end < m.start
             /\ Running => SameRange(n, detail) \/ n.end < detail.start
             /\ Running \/ vpc # "pick"
  <2>1. NewBundleIs(n)
    BY <1>3, StepOfBundles DEF BundlesStep
  <2>2. CASE n = detail /\ spc = "row"
    <3>1. Running
      BY <2>2 DEF Running
    <3> QED
      BY <2>2, <3>1, LoopFacts DEF SameRange
  <2>3. CASE n = vnew /\ vpc = "row"
    <3>1. SameRange(n, vbundle) /\ vbundle \in DOMAIN bundleTbl
      BY <2>3, NewNameFacts, VerifiesAnnounced DEF ReUploading
    <3>2. Running => SameRange(vbundle, detail) \/ vbundle.end < detail.start
      BY <3>1, LoopFacts
    <3> QED
      BY <1>1, <2>3, <3>1, <3>2 DEF SameRange
  <2> QED
    BY <2>1, <2>2, <2>3 DEF NewBundleIs
<1>4. /\ \A n \in DOMAIN bundleTbl' : cfg.start <= n.start
      /\ \A m, n \in DOMAIN bundleTbl' :
            SameRange(m, n) \/ m.end < n.start \/ n.end < m.start
  <2>1. \A m, n \in DOMAIN bundleTbl' :
            m \in DOMAIN bundleTbl \/ n \in DOMAIN bundleTbl \/ m = n
               \/ SameRange(m, n)
    <3> SUFFICES ASSUME NEW m \in DOMAIN bundleTbl', NEW n \in DOMAIN bundleTbl',
                        m \notin DOMAIN bundleTbl, n \notin DOMAIN bundleTbl
                 PROVE  m = n
      OBVIOUS
    <3>1. NewBundleIs(m) /\ NewBundleIs(n)
      BY StepOfBundles DEF BundlesStep
    <3>2. HubSync /\ HubVerify /\ spc = "row" => FALSE
      <4>1. HubSync /\ spc = "row" => spc' # spc
        BY CalmStep DEF SyncAside, SyncBootFresh, SyncFetch,
           SyncForkedBlock, SyncBlockNotFound, SyncNotYet, SyncMakeDir,
           SyncCreateBundle, SyncWriteBlobs, SyncBundleExists, SyncBundleNotExist,
           SyncNothingToUpload, SyncRemoveDir, SyncMarkFinalized, SyncSave,
           SyncError, SyncUpload, SyncUploadReplyLost, Return
      <4> QED
        BY <4>1 DEF HubVerify, syncVars
    <3> QED
      BY <3>1, <3>2 DEF NewBundleIs
  <2> QED
    BY <1>1, <1>3, <2>1 DEF SameRange
<1>5. ASSUME Running, detail' = detail
      PROVE  (Running => /\ cfg.start <= detail.start
                         /\ \A n \in DOMAIN bundleTbl :
                              SameRange(n, detail) \/ n.end < detail.start)'
  BY <1>2, <1>3, <1>5, LoopFacts DEF SameRange
<1>6. CASE SyncBootFresh
  <2>1. /\ spc = "down" /\ DOMAIN bundleTbl = {} /\ bundleTbl' = bundleTbl
        /\ detail' = BundleFrom(Nxt)
    BY <1>6 DEF SyncBootFresh, Known, GreenfieldInv, RowsInOrder, Nxt, daoVars
  <2>2. detail'.start = Nxt
    BY <2>1, BundleFromFacts DEF HubTypeOK
  <2> QED
    BY <1>2, <1>4, <2>1, <2>2 DEF RangesApart, SameRange
<1>7. CASE SyncSave
  <2>1. /\ cur = Nxt /\ bundleTbl' = bundleTbl /\ Running
        /\ detail' = IF cur = detail.end THEN BundleFrom(cur + 1) ELSE detail
    BY <1>7, SaveHubFacts DEF SyncSave, Known, Running
  <2>2. CASE cur = detail.end
    <3>1. detail'.start = Nxt + 1
      BY <2>1, <2>2, BundleFromFacts DEF HubTypeOK
    <3>2. \A n \in DOMAIN bundleTbl : n.end < Nxt + 1
      BY <2>1, <2>2, LoopFacts DEF SameRange
    <3> QED
      BY <1>2, <1>4, <2>1, <3>1, <3>2 DEF RangesApart, SameRange
  <2> QED
    BY <1>2, <1>4, <1>5, <2>1, <2>2 DEF RangesApart, SameRange
<1>8. CASE /\ detail' = detail
           /\ Running' => Running
  BY <1>2, <1>4, <1>5, <1>8 DEF RangesApart, SameRange
<1> QED
  <2>1. CASE HubSync
    BY <1>6, <1>7, <1>8, <2>1, CalmStep DEF SyncAside, SyncFetch,
       SyncForkedBlock, SyncBlockNotFound, SyncNotYet, SyncMakeDir,
       SyncCreateBundle, SyncWriteBlobs, SyncBundleExists, SyncBundleNotExist,
       SyncNothingToUpload, SyncRemoveDir, SyncMarkFinalized,
       SyncError, SyncUpload, SyncUploadReplyLost, Return, Running
  <2>2. CASE HubVerify \/ HubService \/ HubChain
    BY <1>8, <2>2 DEF HubVerify, HubService, HubChain, ChainStep, syncVars, Running
  <2> QED
    BY <2>1, <2>2, CalmStep

\* What is announced was announced before, or all of its range has been read:
\* by the sync loop just now, or by the verify loop once more.
LEMMA AnnouncedFacts ==
    ASSUME Calm, Known, HubNext, NEW n \in DOMAIN bundleTbl', Announced(n)'
    PROVE  /\ n \in DOMAIN bundleTbl /\ n.end <= finalized /\ n.end <= Nxt
           /\ n.cal > 0 => n.end < Nxt
           /\ HoldsBlobs(n) => n \in DOMAIN svc
           /\ Announced(n) \/ NowOut(n)
<1> USE KnownBasics
<1>1. n \in DOMAIN bundleTbl
  BY StepOfBundles DEF BundlesStep
<1>2. \/ Announced(n)
      \/ NowOut(n) /\ (HoldsBlobs(n) => n \in DOMAIN svc)
  BY <1>1, StepOfBundles DEF BundlesStep
<1>3. CASE Announced(n)
  BY <1>1, <1>3 DEF Known, GreenfieldInv, OutIsFinal, OutIsHeld
<1>4. CASE n = detail /\ spc \in Closing
  <2>1. Running /\ spc \in Working
    BY <1>4 DEF Running, Closing, Working
  <2>2. detail.end <= finalized /\ detail.end = Nxt /\ detail.cal = 0
    BY <1>4, <2>1, LoopFacts
  <2> QED
    BY <1>1, <1>2, <1>3, <1>4, <2>2
<1>5. CASE n = vnew /\ vpc = "mark"
  <2>1. n.end = vbundle.end /\ vbundle.end <= finalized /\ vbundle.end < Nxt
    BY <1>5, NewNameFacts, VerifiesAnnounced
    DEF ReUploading, Known, GreenfieldInv, VerifyHolds
  <2> QED
    BY <1>1, <1>2, <1>3, <1>5, <2>1
<1> QED
  BY <1>2, <1>3, <1>4, <1>5 DEF NowOut

LEMMA OutStep ==
    ASSUME Calm, Known, HubNext PROVE OutIsFinal' /\ OutIsHeld'
<1> USE KnownBasics
<1>1. finalized' \in Int /\ finalized <= finalized'
  BY FinalStays
<1>2. Nxt' \in Int /\ Nxt <= Nxt'
  BY StepOfRows, SaveHubFacts DEF RowsStep, Known
<1> SUFFICES ASSUME NEW n \in DOMAIN bundleTbl', Announced(n)'
             PROVE  /\ n.end <= finalized' /\ n.end <= Nxt'
                    /\ n.cal > 0 => n.end < Nxt'
                    /\ HoldsBlobs(n)' => n \in DOMAIN svc'
  BY DEF OutIsFinal, OutIsHeld
<1>3. /\ n \in DOMAIN bundleTbl /\ n.end <= finalized /\ n.end <= Nxt
      /\ n.cal > 0 => n.end < Nxt
      /\ HoldsBlobs(n) => n \in DOMAIN svc
  BY AnnouncedFacts
<1>4. HoldsBlobs(n)' = HoldsBlobs(n)
  BY <1>3, FinalStays
<1>5. DOMAIN svc \subseteq DOMAIN svc'
  BY StepKeepsService DEF ServiceKeeps
<1> QED
  BY <1>1, <1>2, <1>3, <1>4, <1>5

\* The row of a slot of the bundle under verification, and of the range that is
\* moved.
LEMMA MovingFacts ==
    ASSUME Known, vpc = "rewrite", vslot <= vbundle.end, NEW s \in DOMAIN blockTbl,
           s \in SlotsOf(vbundle)
    PROVE  /\ blockTbl[s].bundle = IF s < vslot THEN vnew ELSE vbundle
           /\ vbundle.start <= vslot /\ vslot \in SlotsOf(vbundle)
<1>1. vbundle.start <= vslot /\ vslot \in Nat
  BY KnownBasics, MaxSlotAssumption
  DEF Known, HubInv, VerifyInRange, HubTypeOK, VerifyTypeOK
<1> QED
  BY <1>1, KnownBasics DEF Known, GreenfieldInv, VerifyHolds, SlotsOf, Name

LEMMA NamesEqual ==
    ASSUME NEW m \in Name, NEW n \in Name, SameRange(m, n), m.cal = n.cal
    PROVE  m = n
BY DEF Name, SameRange

\* The next slot is not in the range of a bundle uploaded anew that is out.
LEMMA NextIsNotOut ==
    ASSUME Known, NEW n \in DOMAIN bundleTbl, Announced(n), Nxt \in SlotsOf(n)
    PROVE  n.cal = 0
BY KnownBasics DEF Known, GreenfieldInv, OutIsFinal, SlotsOf, Name

LEMMA PendingOwnsStep ==
    ASSUME Calm, Known, HubNext, NEW n \in Finalizing', NEW s \in DOMAIN blockTbl',
           s \in SlotsOf(n)
    PROVE  blockTbl'[s].bundle = n
<1> USE KnownBasics
<1>1. n \in DOMAIN bundleTbl' /\ ~Announced(n)' /\ n.cal = 0
  BY DEF Finalizing, Announced
<1>2. ASSUME n \in DOMAIN bundleTbl PROVE n \in Finalizing
  BY <1>1, <1>2, StepOfBundles DEF BundlesStep, Finalizing, Announced
<1>3. CASE SyncSave
  <2>1. /\ DOMAIN blockTbl' = DOMAIN blockTbl \cup {cur} /\ bundleTbl' = bundleTbl
        /\ blockTbl'[cur].bundle = detail
        /\ \A t \in DOMAIN blockTbl : blockTbl'[t] = blockTbl[t]
    BY <1>3, SaveHubFacts DEF Known
  <2>2. n \in Finalizing /\ n = detail
    BY <1>1, <1>2, <1>3, <2>1 DEF Known, HubInv, HubLoop, PendingIsDetail, SyncSave
  <2> QED
    BY <2>1, <2>2 DEF Known, GreenfieldInv, RangeInOneBundle
<1>4. CASE ~SyncSave
  <2>1. s \in DOMAIN blockTbl
    BY <1>4, StepOfRows DEF RowsStep
  <2>2. CASE n \in DOMAIN bundleTbl
    <3>1. blockTbl[s].bundle = n
      BY <1>2, <2>1, <2>2 DEF Known, GreenfieldInv, RangeInOneBundle
    <3>2. RowKept(s) \/ RowMarked(s) => blockTbl'[s].bundle = n
      BY <3>1 DEF RowKept, RowMarked
    <3>3. ~RowMoved(s)
      <4> SUFFICES ASSUME RowMoved(s) PROVE FALSE
        OBVIOUS
      <4>1. blockTbl[s].bundle = vbundle
        BY <2>1, MovingFacts DEF RowMoved, Known, HubInv, HubTypeOK, VerifyTypeOK,
           VerifyInRange, SlotsOf, Name
      <4>2. Announced(vbundle)
        BY VerifiesAnnounced DEF RowMoved
      <4> QED
        BY <1>2, <2>2, <3>1, <4>1, <4>2 DEF Finalizing, Announced
    <3> QED
      BY <1>4, <2>1, <3>2, <3>3, StepOfRows DEF RowsStep
  <2>3. CASE n \notin DOMAIN bundleTbl
    <3>1. NewBundleIs(n)
      BY <1>1, <2>3, StepOfBundles DEF BundlesStep
    <3>2. CASE n = detail /\ spc = "row"
      <4>1. Running
        BY <3>2 DEF Running
      <4>2. detail.start = Nxt
        BY <2>3, <3>2, <4>1, LoopFacts
      <4> QED
        BY <2>1, <3>2, <4>2, RowFacts DEF SlotsOf, Name
    <3>3. CASE n = vnew /\ vpc = "row"
      BY <1>1, <3>3, NewNameFacts DEF ReUploading
    <3> QED
      BY <3>1, <3>2, <3>3 DEF NewBundleIs
  <2> QED
    BY <2>2, <2>3
<1> QED
  BY <1>3, <1>4

LEMMA MovedFacts ==
    ASSUME Known, NEW t \in DOMAIN blockTbl, RowMoved(t)
    PROVE  /\ t \in SlotsOf(vbundle) /\ blockTbl[t].bundle = vbundle
           /\ vbundle \in DOMAIN bundleTbl /\ bundleTbl' = bundleTbl
           /\ SameRange(vnew, vbundle) /\ vnew.start = vbundle.start
           /\ SlotsOf(vnew) = SlotsOf(vbundle)
           /\ vbundle.cal <= vnew.cal
           /\ vnew = vbundle \/ ~Announced(vnew)
           /\ \A s \in DOMAIN blockTbl \cap SlotsOf(vbundle) :
                blockTbl[s].bundle = IF s < t THEN vnew ELSE vbundle
<1>1. /\ vpc = "rewrite" /\ vpc # "pick" /\ vpc \in ReUploading /\ t = vslot
      /\ vslot <= vbundle.end /\ bundleTbl' = bundleTbl
  BY DEF RowMoved, ReUploading
<1>2. t \in SlotsOf(vbundle)
  BY <1>1, KnownBasics DEF Known, HubInv, VerifyInRange, SlotsOf, Name
<1>3. t \in Int
  BY KnownBasics
<1> QED
  BY <1>1, <1>2, <1>3, MovingFacts, NewNameFacts, VerifiesAnnounced

LEMMA OneBundleStep ==
    ASSUME Calm, Known, HubNext PROVE RangeInOneBundle'
<1> USE KnownBasics
<1>1. \A s \in DOMAIN blockTbl :
        LET first == blockTbl[blockTbl[s].bundle.start].bundle
        IN  first = blockTbl[s].bundle \/ ~Announced(first)
  BY DEF Known, GreenfieldInv, RangeInOneBundle
<1> SUFFICES ASSUME NEW s \in DOMAIN blockTbl', NEW n, n = blockTbl'[s].bundle,
                    NEW f, f = blockTbl'[n.start].bundle, f # n
             PROVE  ~Announced(f)'
  BY PendingOwnsStep DEF RangeInOneBundle
<1>2. CASE SyncSave
  <2>1. /\ cur = Nxt /\ DOMAIN blockTbl' = DOMAIN blockTbl \cup {cur}
        /\ bundleTbl' = bundleTbl /\ blockTbl'[cur].bundle = detail
        /\ \A t \in DOMAIN blockTbl : blockTbl'[t] = blockTbl[t]
        /\ detail \in DOMAIN bundleTbl /\ Running /\ cur \notin DOMAIN blockTbl
    BY <1>2, SaveHubFacts DEF Known, SyncSave, Running
  <2>2. Announced(f)' = Announced(f)
    BY <2>1 DEF Announced
  <2>3. CASE s # cur
    BY <1>1, <2>1, <2>2, <2>3, RowFacts
  <2>4. CASE s = cur
    <3>1. /\ n = detail /\ detail.start <= Nxt /\ Nxt <= detail.end
          /\ detail.cal = 0 /\ cfg.start <= detail.start
      BY <2>1, <2>4, LoopFacts
    <3>2. detail.start \in DOMAIN blockTbl
      BY <2>1, <3>1
    <3>3. /\ f = blockTbl[detail.start].bundle /\ f \in DOMAIN bundleTbl
          /\ detail.start \in SlotsOf(f) /\ f \in Name
      BY <2>1, <3>1, <3>2, RowFacts
    <3>4. detail.start \in SlotsOf(detail) /\ Nxt \in SlotsOf(detail)
      BY <3>1 DEF SlotsOf
    <3>5. SameRange(f, detail) /\ SlotsOf(f) = SlotsOf(detail)
      BY <2>1, <3>3, <3>4, OneSlotOneRange
    <3>6. f.cal # 0
      BY <3>1, <3>3, <3>5, NamesEqual
    <3> QED
      BY <2>2, <3>3, <3>4, <3>5, <3>6, NextIsNotOut
  <2> QED
    BY <2>3, <2>4
<1>3. CASE ~SyncSave
  <2>1. /\ s \in DOMAIN blockTbl
        /\ \A t \in DOMAIN blockTbl :
            RowKept(t) \/ (HubVerify /\ (RowMarked(t) \/ RowMoved(t)))
    BY <1>3, StepOfRows DEF RowsStep
  <2>2. CASE \A t \in DOMAIN blockTbl : ~RowMoved(t)
    <3>1. \A t \in DOMAIN blockTbl : blockTbl'[t].bundle = blockTbl[t].bundle
      BY <2>1, <2>2 DEF RowKept, RowMarked
    <3>2. /\ n = blockTbl[s].bundle /\ f = blockTbl[n.start].bundle
          /\ n \in DOMAIN bundleTbl /\ n.start \in DOMAIN blockTbl
          /\ s \in SlotsOf(n)
      BY <2>1, <3>1, RowFacts
    <3>3. f \in DOMAIN bundleTbl /\ n.start \in SlotsOf(f) /\ f \in Name
      BY <3>2, RowFacts
    <3>4. n.start \in SlotsOf(n)
      BY <2>1, <3>2, RowFacts DEF SlotsOf
    <3>5. SameRange(f, n) /\ SlotsOf(f) = SlotsOf(n) /\ f.start = n.start
      BY <3>2, <3>3, <3>4, OneSlotOneRange
    <3>6. ~Announced(f)
      BY <1>1, <2>1, <3>2
    <3> SUFFICES ASSUME Announced(f)' PROVE FALSE
      OBVIOUS
    <3>7. NowOut(f)
      BY <3>3, <3>6, StepOfBundles DEF BundlesStep
    <3>8. CASE f = detail /\ spc \in Closing
      <4>1. f.cal = 0 /\ f \in Finalizing
        BY <3>3, <3>6, <3>8, LoopFacts DEF Running, Closing, Announced, Finalizing
      <4>2. blockTbl[s].bundle = f
        BY <2>1, <3>2, <3>5, <4>1 DEF Known, GreenfieldInv, RangeInOneBundle
      <4> QED
        BY <3>2, <4>2
    <3>9. CASE f = vnew /\ vpc = "mark"
      <4>1. SlotsOf(vnew) = SlotsOf(vbundle)
        BY <3>9, NewNameFacts DEF ReUploading
      <4>2. blockTbl[s].bundle = f
        BY <2>1, <3>2, <3>5, <3>9, <4>1 DEF Known, GreenfieldInv, VerifyHolds
      <4> QED
        BY <3>2, <4>2
    <3> QED
      BY <3>7, <3>8, <3>9 DEF NowOut
  <2>3. ASSUME NEW t \in DOMAIN blockTbl, RowMoved(t) PROVE ~Announced(f)'
    <3>1. /\ t \in SlotsOf(vbundle) /\ blockTbl[t].bundle = vbundle
          /\ vbundle \in DOMAIN bundleTbl /\ bundleTbl' = bundleTbl
          /\ vnew.start = vbundle.start /\ SlotsOf(vnew) = SlotsOf(vbundle)
          /\ vnew = vbundle \/ ~Announced(vnew)
          /\ \A u \in DOMAIN blockTbl \cap SlotsOf(vbundle) :
                blockTbl[u].bundle = IF u < t THEN vnew ELSE vbundle
      BY <2>3, MovedFacts
    <3>2. Announced(f)' = Announced(f)
      BY <3>1 DEF Announced
    <3>3. /\ blockTbl'[t].bundle = vnew
          /\ \A u \in DOMAIN blockTbl : u # t => blockTbl'[u].bundle = blockTbl[u].bundle
      BY <2>1, <2>3 DEF RowKept, RowMarked, RowMoved
    <3>4. vbundle.start \in DOMAIN blockTbl /\ vbundle.start <= t /\ t \in Nat
          /\ vbundle.start \in Nat /\ vbundle.start \in SlotsOf(vbundle)
      BY <2>3, <3>1, RowFacts DEF SlotsOf
    <3>5. CASE s = t
      <4>1. n = vnew /\ f = blockTbl'[vbundle.start].bundle
        BY <3>1, <3>3, <3>5
      <4>2. CASE vbundle.start = t
        BY <3>3, <4>1, <4>2
      <4>3. CASE vbundle.start # t
        <5>1. vbundle.start < t
          BY <3>4, <4>3
        <5>2. blockTbl[vbundle.start].bundle = vnew
          BY <3>1, <3>4, <5>1
        <5> QED
          BY <3>3, <3>4, <4>1, <4>3, <5>2
      <4> QED
        BY <4>2, <4>3
    <3>6. CASE s # t
      <4>1. /\ n = blockTbl[s].bundle /\ n \in DOMAIN bundleTbl
            /\ n.start \in DOMAIN blockTbl /\ s \in SlotsOf(n) /\ n.start <= s
            /\ n.start \in SlotsOf(n) /\ s \in Nat /\ n.start \in Nat
        BY <2>1, <3>3, <3>6, RowFacts DEF SlotsOf
      <4>2. CASE n.start # t
        BY <1>1, <2>1, <3>2, <3>3, <4>1, <4>2
      <4>3. CASE n.start = t
        <5>1. SlotsOf(n) = SlotsOf(vbundle)
          BY <3>1, <4>1, <4>3, OneSlotOneRange
        <5>2. n = vbundle
          BY <2>1, <3>1, <4>1, <4>3, <5>1
        <5> QED
          BY <3>1, <3>2, <3>3, <4>3, <5>2
      <4> QED
        BY <4>2, <4>3
    <3> QED
      BY <3>5, <3>6
  <2> QED
    BY <2>2, <2>3
<1> QED
  BY <1>2, <1>3

LEMMA LatestStep ==
    ASSUME Calm, Known, HubNext PROVE InLatestBundle'
<1> USE KnownBasics
<1>1. \A n \in DOMAIN bundleTbl :
        /\ n.cal <= now
        /\ \A s \in DOMAIN blockTbl \cap SlotsOf(n) :
            Announced(n) => n.cal <= blockTbl[s].bundle.cal
  BY DEF Known, GreenfieldInv, InLatestBundle
<1>2. \A n \in DOMAIN bundleTbl' : n.cal <= now'
  <2> SUFFICES ASSUME NEW n \in DOMAIN bundleTbl' PROVE n.cal <= now'
    OBVIOUS
  <2>1. now' \in Nat /\ now <= now'
    BY FinalStays
  <2>2. CASE n \in DOMAIN bundleTbl
    BY <1>1, <2>1, <2>2
  <2>3. CASE n \notin DOMAIN bundleTbl
    <3>1. NewBundleIs(n)
      BY <2>3, StepOfBundles DEF BundlesStep
    <3>2. n \in Name /\ n.cal <= now
      BY <3>1, LoopFacts, NewNameFacts DEF NewBundleIs, Running, ReUploading
    <3> QED
      BY <2>1, <3>2
  <2> QED
    BY <2>2, <2>3
<1> SUFFICES ASSUME NEW n \in DOMAIN bundleTbl', Announced(n)',
                    NEW s \in DOMAIN blockTbl', s \in SlotsOf(n)
             PROVE  n.cal <= blockTbl'[s].bundle.cal
  BY <1>2 DEF InLatestBundle
<1>3. n \in DOMAIN bundleTbl /\ n.cal \in Nat
  BY AnnouncedFacts
<1>4. CASE SyncSave
  <2>1. /\ DOMAIN blockTbl' = DOMAIN blockTbl \cup {cur} /\ cur = Nxt
        /\ bundleTbl' = bundleTbl /\ blockTbl'[cur].bundle = detail
        /\ \A t \in DOMAIN blockTbl : blockTbl'[t] = blockTbl[t]
    BY <1>4, SaveHubFacts DEF Known
  <2>2. Announced(n)
    BY <2>1 DEF Announced
  <2>3. s = Nxt => n.cal = 0
    BY <1>3, <2>2, NextIsNotOut
  <2> QED
    BY <1>1, <1>3, <2>1, <2>2, <2>3
<1>5. CASE ~SyncSave
  <2>1. /\ s \in DOMAIN blockTbl
        /\ RowKept(s) \/ (HubVerify /\ (RowMarked(s) \/ RowMoved(s)))
    BY <1>5, StepOfRows DEF RowsStep
  <2>2. blockTbl[s].bundle.cal \in Nat
    BY <2>1, RowFacts
  <2>3. CASE ~Announced(n)
    <3>1. NowOut(n)
      BY <2>3, AnnouncedFacts
    <3>2. CASE n = detail /\ spc \in Closing
      <4>1. n.cal = 0
        BY <3>2, LoopFacts DEF Running, Closing
      <4>2. blockTbl'[s].bundle = blockTbl[s].bundle \/ blockTbl'[s].bundle = vnew
        BY <2>1 DEF RowKept, RowMarked, RowMoved
      <4> QED
        BY <2>2, <4>1, <4>2
    <3>3. CASE n = vnew /\ vpc = "mark"
      <4>1. blockTbl[s].bundle = vnew
        BY <2>1, <3>3, NewNameFacts DEF ReUploading, Known, GreenfieldInv, VerifyHolds
      <4> QED
        BY <2>1, <3>3, <4>1 DEF RowKept, RowMarked, RowMoved
    <3> QED
      BY <3>1, <3>2, <3>3 DEF NowOut
  <2>4. CASE Announced(n)
    <3>1. n.cal <= blockTbl[s].bundle.cal
      BY <1>1, <1>3, <2>1, <2>4
    <3>2. RowKept(s) \/ RowMarked(s) => n.cal <= blockTbl'[s].bundle.cal
      BY <3>1 DEF RowKept, RowMarked
    <3>3. RowMoved(s) => n.cal <= blockTbl'[s].bundle.cal
      BY <1>3, <2>1, <3>1, MovedFacts DEF RowMoved
    <3> QED
      BY <2>1, <3>2, <3>3
  <2> QED
    BY <2>3, <2>4
<1> QED
  BY <1>4, <1>5

\* What is known of a verified slot stays so.
LEMMA SealedRowStays ==
    ASSUME Calm, Known, HubNext, NEW s \in DOMAIN blockTbl, NEW n,
           n = blockTbl[s].bundle, Announced(n), HoldsBlobs(n) => Sealed(n),
           HasBlobs(s) => s \in svc[n].slots
    PROVE  /\ Announced(n)'
           /\ HoldsBlobs(n)' => Sealed(n)'
           /\ HasBlobs(s)' => s \in svc'[n].slots
<1>1. /\ n \in DOMAIN bundleTbl /\ n \in Name /\ s \in SlotsOf(n)
      /\ s \in Int /\ s < finalized /\ finalized \in Int
  BY RowFacts, KnownBasics
<1>2. Announced(n)'
  BY <1>1, StepOfBundles DEF BundlesStep
<1>3. n.end <= finalized
  BY <1>1 DEF Known, GreenfieldInv, OutIsFinal
<1>4. HoldsBlobs(n)' = HoldsBlobs(n) /\ HasBlobs(s)' = HasBlobs(s)
  BY <1>1, <1>3, FinalStays
<1>5. Sealed(n) => Sealed(n)' /\ svc'[n].slots = svc[n].slots
  BY StepKeepsService DEF ServiceKeeps, Sealed
<1>6. HasBlobs(s) => HoldsBlobs(n)
  BY <1>1 DEF HoldsBlobs
<1> QED
  BY <1>2, <1>4, <1>5, <1>6

\* A bundle whose slots are checked one after another was found sealed when the
\* first of them was.
LEMMA PickedIsSealed ==
    ASSUME Calm, Known, VerifyPick, vpc' = "block", HoldsBlobs(vbundle')
    PROVE  Sealed(vbundle')
<1>1. PICK s \in Unverified :
        /\ \A t \in Unverified : s <= t
        /\ vbundle' = blockTbl[s].bundle
        /\ s # blockTbl[s].bundle.start
  BY DEF VerifyPick
<1>2. s \in DOMAIN blockTbl
  BY <1>1 DEF Unverified
<1>3. PICK n : n = blockTbl[s].bundle
  OBVIOUS
<1>4. n.start \in DOMAIN blockTbl /\ n.start < s
  BY <1>1, <1>2, <1>3, RowFacts
<1>5. n.start \notin Unverified
  BY <1>1, <1>2, <1>3, <1>4, RowFacts
<1>6. blockTbl[n.start].status = "verified"
  <2>1. blockTbl[n.start].status \in BlockStatus
    BY <1>4, KnownBasics DEF DaoTypeOK
  <2> QED
    BY <1>4, <1>5, <2>1 DEF BlockStatus, Unverified, Known, GreenfieldInv, RowsInOrder
<1>7. /\ Announced(blockTbl[n.start].bundle)
      /\ HoldsBlobs(blockTbl[n.start].bundle) => Sealed(blockTbl[n.start].bundle)
  BY <1>4, <1>6 DEF Known, GreenfieldInv, SealedWhenVerified
<1>8. blockTbl[n.start].bundle = n
  BY <1>2, <1>3, <1>7 DEF Known, GreenfieldInv, RangeInOneBundle
<1> QED
  BY <1>1, <1>3, <1>7, <1>8

LEMMA SealedWhenVerifiedStep ==
    ASSUME Calm, Known, HubNext PROVE SealedWhenVerified'
<1> USE KnownBasics
<1>1. \A n \in DOMAIN svc' : svc'[n].info = 3 => svc'[n].object = "sealed"
  BY StepKeepsService DEF ServiceKeeps
<1>2. ASSUME NEW s \in DOMAIN blockTbl', blockTbl'[s].status = "verified"
      PROVE  /\ Announced(blockTbl[s].bundle)'
             /\ HoldsBlobs(blockTbl[s].bundle)' => Sealed(blockTbl[s].bundle)'
             /\ HasBlobs(s)' => s \in svc'[blockTbl'[s].bundle].slots
  <2>1. /\ s \in DOMAIN blockTbl
        /\ RowKept(s) \/ RowMarked(s)
    <3>1. CASE SyncSave
      BY <1>2, <3>1, SaveHubFacts DEF Known, RowKept
    <3>2. CASE ~SyncSave
      BY <1>2, <3>2, StepOfRows DEF RowsStep, RowMoved
    <3> QED
      BY <3>1, <3>2
  <2>2. PICK n : n = blockTbl[s].bundle
    OBVIOUS
  <2>3. blockTbl'[s].bundle = n
    BY <2>1, <2>2 DEF RowKept, RowMarked
  <2>4. /\ Announced(n) /\ (HoldsBlobs(n) => Sealed(n))
        /\ HasBlobs(s) => s \in svc[n].slots
    <3>1. CASE RowKept(s)
      BY <1>2, <2>1, <2>2, <3>1 DEF RowKept, Known, GreenfieldInv, SealedWhenVerified
    <3>2. CASE RowMarked(s)
      <4>1. n = vbundle
        BY <2>1, <2>2, <3>2 DEF RowMarked, Known, GreenfieldInv, VerifyHolds
      <4> QED
        BY <3>2, <4>1, VerifiesAnnounced DEF RowMarked
    <3> QED
      BY <2>1, <3>1, <3>2
  <2>5. /\ Announced(n)'
        /\ HoldsBlobs(n)' => Sealed(n)'
        /\ HasBlobs(s)' => s \in svc'[n].slots
    BY <2>1, <2>2, <2>4, SealedRowStays
  <2> QED
    BY <2>3, <2>5 DEF Announced, HoldsBlobs, Sealed
<1>3. ASSUME \/ vpc' = "integrity"
             \/ vpc' = "block" /\ HoldsBlobs(vbundle)'
      PROVE  Sealed(vbundle)'
  <2>1. CASE UNCHANGED <<vpc, vbundle>>
    <3>1. HoldsBlobs(vbundle)' = HoldsBlobs(vbundle)
      <4>1. vbundle.end <= finalized
        BY <1>3, <2>1, VerifiesAnnounced
      <4>2. PICK n \in Name : n = vbundle
        OBVIOUS
      <4>3. HoldsBlobs(n)' = HoldsBlobs(n)
        BY <4>1, <4>2, FinalStays
      <4> QED
        BY <2>1, <4>2, <4>3 DEF HoldsBlobs
    <3>2. Sealed(vbundle)
      BY <1>3, <2>1, <3>1 DEF Known, GreenfieldInv, SealedWhenVerified
    <3> QED
      BY <2>1, <3>2, StepKeepsService DEF ServiceKeeps, Sealed
  <2>2. CASE VerifySealedOnChain
    BY <2>2 DEF VerifySealedOnChain, BundleExists, SealedOnChain, Sealed,
       VerifyGoto, Known, GreenfieldInv, SealedWhenVerified, bundleVars
  <2>3. CASE VerifyPick
    <3>1. svc' = svc /\ canon' = canon /\ vpc' = "block"
      BY <1>3, <2>3 DEF VerifyPick, bundleVars, chainVars
    <3>2. HoldsBlobs(vbundle')
      BY <1>3, <3>1 DEF HoldsBlobs, HasBlobs, Slots, SlotsOf
    <3> QED
      BY <2>3, <3>1, <3>2, PickedIsSealed DEF Sealed
  <2>4. UNCHANGED <<vpc, vbundle>> \/ VerifySealedOnChain \/ VerifyPick
    <3>1. CASE HubVerify
      BY <1>3, <3>1 DEF HubVerify, VerifyStep, VerifyUploadReplyLost,
         VerifyError, VerifyBundleNotExist, VerifyNoBlobs, VerifyBlobsNotFound,
         VerifyEmptyBundle, VerifyNotSealed, VerifyIntegrity,
         VerifyBlockWithoutBlobs, VerifyBlock, MarkVerified, VerifySeal,
         VerifyDeprecate, VerifyMakeDir, VerifyCreateBundle, VerifyRewrite,
         VerifyUpload, VerifyRemoveDir, VerifyMarkFinalized, VerifyReturn,
         VerifyGoto, VerifyNotRecorded
    <3>2. CASE HubSync \/ HubService \/ HubChain
      BY <3>2 DEF HubSync, HubService, ServiceNext, ServiceStep, ServiceDamage,
         ServiceLoss, HubChain, verifyVars
    <3> QED
      BY <3>1, <3>2, CalmStep
  <2> QED
    BY <2>1, <2>2, <2>3, <2>4
<1>4. ASSUME vpc' \in {"unknown", "empty"}
      PROVE  ~HoldsBlobs(vbundle)'
  <2>1. UNCHANGED <<vpc, vbundle>> \/ VerifyBundleNotExist \/ VerifyNoBlobs
    <3>1. CASE HubVerify
      BY <1>4, <3>1 DEF HubVerify, VerifyStep, VerifyUploadReplyLost,
         VerifyError, VerifyPick, VerifyBlobsNotFound, VerifyEmptyBundle,
         VerifySealedOnChain, VerifyNotSealed, VerifyIntegrity,
         VerifyBlockWithoutBlobs, VerifyBlock, MarkVerified, VerifySeal,
         VerifyDeprecate, VerifyMakeDir, VerifyCreateBundle, VerifyRewrite,
         VerifyUpload, VerifyRemoveDir, VerifyMarkFinalized, VerifyReturn,
         VerifyGoto, VerifyNotRecorded
    <3>2. CASE HubSync \/ HubService \/ HubChain
      BY <3>2 DEF HubSync, HubService, ServiceNext, ServiceStep, ServiceDamage,
         ServiceLoss, HubChain, verifyVars
    <3> QED
      BY <3>1, <3>2, CalmStep
  <2>2. vpc # "pick" /\ vbundle' = vbundle
    BY <1>4, <2>1 DEF VerifyBundleNotExist, VerifyNoBlobs, VerifyGoto
  <2>3. ~HoldsBlobs(vbundle)
    <3>1. CASE VerifyBundleNotExist
      BY <2>2, <3>1, VerifiesAnnounced DEF VerifyBundleNotExist, BundleExists
    <3>2. CASE vpc \in {"unknown", "empty"}
      BY <3>2 DEF Known, GreenfieldInv, SealedWhenVerified
    <3> QED
      BY <1>4, <2>1, <3>1, <3>2 DEF VerifyNoBlobs
  <2>4. vbundle.end <= finalized
    BY <2>2, VerifiesAnnounced
  <2>5. PICK n \in Name : n = vbundle
    OBVIOUS
  <2>6. HoldsBlobs(n)' = HoldsBlobs(n)
    BY <2>4, <2>5, FinalStays
  <2> QED
    BY <2>2, <2>3, <2>5, <2>6 DEF HoldsBlobs
<1> QED
  BY <1>1, <1>2, <1>3, <1>4 DEF SealedWhenVerified

-----------------------------------------------------------------------------
(* The slots the verify loop is about *)

\* What the sync loop records into the range under verification goes to the
\* bundle under verification.
LEMMA SavedIsVerifying ==
    ASSUME Known, vpc # "pick", SyncSave, Nxt \in SlotsOf(vbundle)
    PROVE  detail = vbundle
<1>1. /\ vbundle \in DOMAIN bundleTbl /\ Announced(vbundle) /\ vbundle.cal = 0
      /\ vbundle \in Name
  BY VerifiesAnnounced, NextIsNotOut, KnownBasics
<1>2. /\ detail \in DOMAIN bundleTbl /\ detail \in Name /\ detail.cal = 0
      /\ Nxt \in SlotsOf(detail)
  BY SaveHubFacts, LoopFacts, KnownBasics DEF Known, SyncSave, Running, SlotsOf
<1>3. SameRange(detail, vbundle)
  BY <1>1, <1>2, OneSlotOneRange
<1> QED
  BY <1>1, <1>2, <1>3, NamesEqual

LEMMA VerifyHoldsAside ==
    ASSUME Calm, Known, HubNext, ~HubVerify PROVE VerifyHolds'
<1> USE KnownBasics
<1>1. UNCHANGED <<vpc, vslot, vbundle, vnew>>
  BY CalmStep DEF HubSync, HubService, ServiceNext, ServiceStep,
     ServiceDamage, ServiceLoss, HubChain, verifyVars
<1>2. VerifyHolds
  BY DEF Known, GreenfieldInv
<1>3. /\ Nxt' \in Nat /\ Nxt <= Nxt' /\ now' \in Nat /\ now <= now'
      /\ DOMAIN blockTbl \subseteq DOMAIN blockTbl'
  BY StepOfRows, SaveHubFacts, FinalStays DEF RowsStep, Known
<1>4. ASSUME NEW s \in DOMAIN blockTbl', s \in SlotsOf(vbundle), vpc # "pick"
      PROVE  \/ s \in DOMAIN blockTbl /\ blockTbl'[s].bundle = blockTbl[s].bundle
             \/ s = Nxt /\ blockTbl'[s].bundle = vbundle
  <2>1. CASE SyncSave
    BY <1>4, <2>1, SaveHubFacts, SavedIsVerifying DEF Known
  <2>2. CASE ~SyncSave
    BY <2>2, StepOfRows DEF RowsStep, RowKept
  <2> QED
    BY <2>1, <2>2
<1>5. ASSUME vpc \in ReUploading PROVE vnew = vbundle \/ ~Announced(vnew)'
  <2> SUFFICES ASSUME vnew # vbundle, Announced(vnew)' PROVE FALSE
    OBVIOUS
  <2>1. ~Announced(vnew) /\ (vnew # detail \/ spc = "down")
    BY <1>5, NewNameFacts
  <2>2. vnew \in DOMAIN bundleTbl'
    BY <1>1 DEF Announced
  <2>3. PICK n : n = vnew
    OBVIOUS
  <2>4. Announced(n)' /\ n \in DOMAIN bundleTbl'
    BY <1>1, <2>2, <2>3 DEF Announced
  <2>5. NowOut(n)
    BY <2>1, <2>3, <2>4, AnnouncedFacts
  <2> QED
    BY <2>1, <2>3, <2>5 DEF NowOut, Closing
<1>6. vpc = "rewrite" => vslot \in Nat
  BY MaxSlotAssumption DEF Known, HubInv, HubTypeOK, VerifyTypeOK
<1>7. vbundle.start \in Nat /\ vbundle.end \in Nat
  OBVIOUS
<1>8. /\ vpc # "pick" => vbundle.start < Nxt'
      /\ vpc \in {"info", "block"} =>
            vslot \in DOMAIN blockTbl' /\ vslot \in SlotsOf(vbundle)
  BY <1>2, <1>3, <1>7 DEF VerifyHolds
<1>9. ASSUME vpc \in {"info", "unknown", "empty", "integrity", "block", "seal",
                     "deprecate", "dir", "row"},
             NEW s \in DOMAIN blockTbl', s \in SlotsOf(vbundle)
      PROVE  blockTbl'[s].bundle = vbundle
  BY <1>2, <1>4, <1>9 DEF VerifyHolds
<1>10. ASSUME vpc \in ReUploading
       PROVE  vbundle.cal <= vnew.cal /\ vnew.cal <= now'
  BY <1>2, <1>3, <1>10 DEF VerifyHolds
<1>11. ASSUME vpc = "rewrite"
       PROVE  /\ vslot <= Nxt'
              /\ \A s \in DOMAIN blockTbl' : s \in SlotsOf(vbundle) =>
                    blockTbl'[s].bundle = IF s < vslot THEN vnew ELSE vbundle
  BY <1>2, <1>3, <1>4, <1>6, <1>11 DEF VerifyHolds
<1>12. ASSUME vpc \in {"clean", "mark"}
       PROVE  /\ vbundle.end < Nxt'
              /\ \A s \in DOMAIN blockTbl' : s \in SlotsOf(vbundle) =>
                    blockTbl'[s].bundle = vnew
  <2>1. vbundle.end < Nxt /\ Nxt \notin SlotsOf(vbundle)
    BY <1>2, <1>12 DEF VerifyHolds, SlotsOf
  <2>2. \A s \in DOMAIN blockTbl \cap SlotsOf(vbundle) : blockTbl[s].bundle = vnew
    BY <1>2, <1>12 DEF VerifyHolds
  <2>3. vbundle.end < Nxt'
    BY <1>3, <1>7, <2>1
  <2>4. ASSUME NEW s \in DOMAIN blockTbl', s \in SlotsOf(vbundle)
        PROVE  blockTbl'[s].bundle = vnew
    BY <1>4, <1>12, <2>1, <2>2, <2>4
  <2> QED
    BY <2>3, <2>4
<1>13. SlotsOf(vbundle)' = SlotsOf(vbundle) /\ Announced(vnew)' = (Announced(vnew))'
  BY <1>1 DEF SlotsOf
<1> QED
  BY <1>1, <1>5, <1>8, <1>9, <1>10, <1>11, <1>12, <1>13 DEF VerifyHolds, ReUploading

\* All the slots of the bundle that is picked are in it.
LEMMA PickHolds ==
    ASSUME Calm, Known, HubVerify, VerifyPick PROVE VerifyHolds'
<1> USE KnownBasics
<1>1. PICK s \in Unverified :
        /\ \A t \in Unverified : s <= t
        /\ blockTbl[s].bundle \in DOMAIN bundleTbl
        /\ bundleTbl[blockTbl[s].bundle].status # "finalizing"
        /\ vslot' = s /\ vbundle' = blockTbl[s].bundle
        /\ vpc' \in {"info", "block"}
  BY DEF VerifyPick
<1>2. PICK n : n = blockTbl[s].bundle
  OBVIOUS
<1>3. /\ s \in DOMAIN blockTbl /\ n \in DOMAIN bundleTbl /\ Announced(n)
      /\ s \in SlotsOf(n) /\ n.start < Nxt /\ n.start \in DOMAIN blockTbl
      /\ n.start <= s /\ n.start \in Nat /\ s \in Nat
  BY <1>1, <1>2, RowFacts DEF Unverified, Announced
<1>4. PICK f : f = blockTbl[n.start].bundle
  OBVIOUS
<1>5. f = n
  <2> SUFFICES ASSUME f # n PROVE FALSE
    OBVIOUS
  <2>1. ~Announced(f)
    BY <1>2, <1>3, <1>4 DEF Known, GreenfieldInv, RangeInOneBundle
  <2>2. blockTbl[n.start].status # "verified"
    BY <1>3, <1>4, <2>1 DEF Known, GreenfieldInv, SealedWhenVerified
  <2>3. blockTbl[n.start].status = "processed"
    <3>1. blockTbl[n.start].status \in BlockStatus
      BY <1>3 DEF DaoTypeOK
    <3> QED
      BY <1>3, <2>2, <3>1 DEF BlockStatus, Known, GreenfieldInv, RowsInOrder
  <2>4. n.start = s
    BY <1>1, <1>3, <2>3 DEF Unverified
  <2> QED
    BY <1>2, <1>4, <2>4
<1>6. ASSUME NEW t \in DOMAIN blockTbl, t \in SlotsOf(n)
      PROVE  blockTbl[t].bundle = n
  <2>1. PICK m : m = blockTbl[t].bundle
    OBVIOUS
  <2>2. m.start = n.start
    BY <1>3, <1>6, <2>1, RowFacts, OneSlotOneRange
  <2> QED
    BY <1>3, <1>4, <1>5, <1>6, <2>1, <2>2 DEF Known, GreenfieldInv, RangeInOneBundle
<1>7. Nxt' = Nxt /\ blockTbl' = blockTbl
  BY VerifyPending DEF Known, VerifyPick, daoVars
<1> QED
  BY <1>1, <1>2, <1>3, <1>6, <1>7 DEF VerifyHolds, ReUploading, SlotsOf

\* The new name is the old one, or that of no bundle that is out.
LEMMA DeprecateHolds ==
    ASSUME Calm, Known, HubVerify, VerifyDeprecate PROVE VerifyHolds'
<1> USE KnownBasics
<1>1. /\ vpc = "deprecate" /\ vpc' = "dir" /\ vbundle' = vbundle
      /\ blockTbl' = blockTbl /\ now' = now
      /\ UpdateBundleStatus(vbundle, "deprecated")
  BY DEF VerifyDeprecate, chainVars
<1>2. PICK n : n = CalibratedName(vbundle, now)
  OBVIOUS
<1>3. /\ n \in Name /\ n.start = vbundle.start /\ n.end = vbundle.end /\ n.cal = now
      /\ SlotsOf(n) = SlotsOf(vbundle) /\ SameRange(n, vbundle)
  BY <1>2 DEF CalibratedName, Name, SlotsOf, SameRange
<1>4. vnew' = n
  BY <1>2 DEF VerifyDeprecate
<1>5. /\ vbundle.start < Nxt /\ vbundle \in DOMAIN bundleTbl /\ Announced(vbundle)
      /\ \A s \in DOMAIN blockTbl \cap SlotsOf(vbundle) : blockTbl[s].bundle = vbundle
  BY <1>1, VerifiesAnnounced DEF Known, GreenfieldInv, VerifyHolds
<1>6. vbundle.cal <= now
  BY <1>5 DEF Known, GreenfieldInv, InLatestBundle
<1>7. n = vbundle \/ ~Announced(n)'
  <2> SUFFICES ASSUME n # vbundle, Announced(n)' PROVE FALSE
    OBVIOUS
  <2>1. Announced(n)
    BY <1>1, UpdateBundleStatusRows DEF Announced
  <2>2. vbundle.start \in DOMAIN blockTbl
    <3>1. cfg.start <= vbundle.start
      BY <1>5 DEF Known, GreenfieldInv, RangesApart
    <3> QED
      BY <1>5, <3>1
  <2>3. vbundle.start \in SlotsOf(vbundle)
    BY <1>5 DEF SlotsOf, Known, HubInv, HubDb, BundlesStartBehindNext
  <2>4. n.cal <= blockTbl[vbundle.start].bundle.cal
    BY <1>3, <2>1, <2>2, <2>3 DEF Known, GreenfieldInv, InLatestBundle, Announced
  <2>5. n.cal = vbundle.cal
    BY <1>3, <1>5, <1>6, <2>2, <2>3, <2>4
  <2> QED
    BY <1>3, <2>5, NamesEqual
<1>8. Nxt' = Nxt
  BY VerifyPending DEF Known
<1>9. vnew' = vbundle' \/ ~Announced(vnew)'
  BY <1>1, <1>4, <1>7 DEF Announced
<1> QED
  BY <1>1, <1>3, <1>4, <1>5, <1>6, <1>8, <1>9 DEF VerifyHolds, ReUploading, SlotsOf

LEMMA RewriteHolds ==
    ASSUME Calm, Known, HubVerify, VerifyRewrite PROVE VerifyHolds'
<1> USE KnownBasics
<1>1. /\ vpc = "rewrite" /\ vpc' = "rewrite" /\ vbundle' = vbundle /\ vnew' = vnew
      /\ vslot <= vbundle.end /\ vslot' = vslot + 1
      /\ bundleTbl' = bundleTbl /\ now' = now
      /\ vslot \in DOMAIN blockTbl
      /\ \E sidecars \in BOOLEAN : SaveBlockAndBlob(vslot, vnew, sidecars)
  BY DEF VerifyRewrite, Calm
<1>2. /\ vbundle.start < Nxt /\ vbundle.cal <= vnew.cal /\ vnew.cal <= now
      /\ vnew = vbundle \/ ~Announced(vnew)
      /\ \A s \in DOMAIN blockTbl \cap SlotsOf(vbundle) :
            blockTbl[s].bundle = IF s < vslot THEN vnew ELSE vbundle
  BY <1>1 DEF Known, GreenfieldInv, VerifyHolds, ReUploading
<1>3. vslot \in Nat /\ vslot < Nxt /\ \A s \in DOMAIN blockTbl : s \in Nat
  BY <1>1, RowFacts
<1>4. /\ DOMAIN blockTbl' = DOMAIN blockTbl
      /\ blockTbl'[vslot].bundle = vnew
      /\ \A s \in DOMAIN blockTbl : s # vslot => blockTbl'[s] = blockTbl[s]
  BY <1>1, SaveBlockAndBlobRows
<1>5. Nxt' = Nxt
  BY VerifyPending DEF Known
<1>6. ASSUME NEW s \in DOMAIN blockTbl, s \in SlotsOf(vbundle)
      PROVE  blockTbl'[s].bundle = IF s < vslot + 1 THEN vnew ELSE vbundle
  <2>1. CASE s = vslot
    BY <1>3, <1>4, <2>1
  <2>2. CASE s # vslot
    <3>1. s \in Nat /\ (s < vslot + 1 <=> s < vslot)
      BY <1>3, <2>2
    <3> QED
      BY <1>2, <1>4, <1>6, <2>2, <3>1
  <2> QED
    BY <2>1, <2>2
<1>7. vnew' = vbundle' \/ ~Announced(vnew)'
  BY <1>1, <1>2 DEF Announced
<1>8. SlotsOf(vbundle)' = SlotsOf(vbundle)
  BY <1>1 DEF SlotsOf
<1> QED
  BY <1>1, <1>2, <1>3, <1>4, <1>5, <1>6, <1>7, <1>8 DEF VerifyHolds, ReUploading

LEMMA VerifyHoldsOwn ==
    ASSUME Calm, Known, HubVerify PROVE VerifyHolds'
<1> USE KnownBasics
<1>1. VerifyHolds
  BY DEF Known, GreenfieldInv
<1>2. /\ Nxt' = Nxt /\ DOMAIN blockTbl' = DOMAIN blockTbl
  BY VerifyPending, VerifyTables DEF Known
<1>3. CASE vpc' = "pick"
  BY <1>3 DEF VerifyHolds, ReUploading
<1>4. CASE /\ vpc \in {"info", "unknown", "empty", "integrity", "block"}
           /\ vbundle' = vbundle /\ vslot' = vslot
           /\ vpc' \in {"unknown", "empty", "integrity", "block", "seal",
                       "deprecate"}
           /\ vpc' = "block" => vpc = "info"
           /\ \A s \in DOMAIN blockTbl : blockTbl'[s].bundle = blockTbl[s].bundle
  BY <1>1, <1>2, <1>4 DEF VerifyHolds, ReUploading, SlotsOf
<1>5. CASE VerifyMakeDir
  <2>1. /\ vpc = "dir" /\ vpc' = "row" /\ vbundle' = vbundle /\ vnew' = vnew
        /\ blockTbl' = blockTbl /\ bundleTbl' = bundleTbl /\ now' = now
    BY <1>5 DEF VerifyMakeDir, VerifyGoto, daoVars, chainVars
  <2>2. Announced(vnew)' = Announced(vnew)
    BY <2>1 DEF Announced
  <2> QED
    BY <1>1, <1>2, <2>1, <2>2 DEF VerifyHolds, ReUploading, SlotsOf
<1>6. CASE VerifyCreateBundle
  <2>1. /\ vpc = "row" /\ vpc' = "rewrite" /\ vbundle' = vbundle /\ vnew' = vnew
        /\ vslot' = vbundle.start
        /\ blockTbl' = blockTbl /\ now' = now /\ CreateBundle(vnew, now)
    BY <1>6 DEF VerifyCreateBundle, chainVars
  <2>2. Announced(vnew)' = Announced(vnew)
    BY <2>1, CreateBundleRows DEF Announced
  <2>3. \A s \in SlotsOf(vbundle) : ~(s < vbundle.start)
    BY DEF SlotsOf
  <2> QED
    BY <1>1, <1>2, <2>1, <2>2, <2>3 DEF VerifyHolds, ReUploading, SlotsOf
<1>7. CASE VerifyUpload
  <2>1. /\ vpc = "rewrite" /\ vpc' = "clean" /\ vbundle' = vbundle /\ vnew' = vnew
        /\ vslot > vbundle.end /\ vslot \in Nat
        /\ blockTbl' = blockTbl /\ bundleTbl' = bundleTbl /\ now' = now
    BY <1>7, MaxSlotAssumption DEF VerifyUpload, VerifyGoto, daoVars, chainVars,
       HubTypeOK, VerifyTypeOK
  <2>2. Announced(vnew)' = Announced(vnew)
    BY <2>1 DEF Announced
  <2>3. \A s \in SlotsOf(vbundle) : s < vslot
    BY <2>1 DEF SlotsOf
  <2>4. vbundle.end < Nxt
    BY <1>1, <2>1 DEF VerifyHolds
  <2> QED
    BY <1>1, <1>2, <2>1, <2>2, <2>3, <2>4 DEF VerifyHolds, ReUploading, SlotsOf
<1>8. CASE VerifyRemoveDir
  <2>1. /\ vpc = "clean" /\ vpc' = "mark" /\ vbundle' = vbundle /\ vnew' = vnew
        /\ blockTbl' = blockTbl /\ bundleTbl' = bundleTbl /\ now' = now
    BY <1>8 DEF VerifyRemoveDir, VerifyGoto, daoVars, chainVars
  <2>2. Announced(vnew)' = Announced(vnew)
    BY <2>1 DEF Announced
  <2> QED
    BY <1>1, <1>2, <2>1, <2>2 DEF VerifyHolds, ReUploading, SlotsOf
<1>9. CASE \/ VerifyBundleNotExist \/ VerifyNoBlobs
           \/ VerifySealedOnChain \/ VerifyNotSealed
  BY <1>3, <1>4, <1>9 DEF VerifyBundleNotExist, VerifyNoBlobs,
     VerifySealedOnChain, VerifyNotSealed, VerifyGoto, VerifyReturn, daoVars
<1>10. CASE VerifyEmptyBundle \/ VerifyIntegrity \/ VerifyBlockWithoutBlobs \/ VerifyBlock
  <2>1. \A s \in DOMAIN blockTbl : blockTbl'[s].bundle = blockTbl[s].bundle
    BY <1>10, MarkingIsRight DEF RowKept, RowMarked
  <2>2. \/ vpc' = "pick"
        \/ /\ vpc \in {"empty", "integrity", "block"} /\ vbundle' = vbundle
           /\ vslot' = vslot /\ vpc' \in {"seal", "deprecate"}
    BY <1>10 DEF VerifyEmptyBundle, VerifyIntegrity, VerifyBlockWithoutBlobs,
       VerifyBlock, MarkVerified, VerifyGoto, VerifyReturn
  <2> QED
    BY <1>3, <1>4, <2>1, <2>2
<1> QED
  BY <1>3, <1>5, <1>6, <1>7, <1>8, <1>9, <1>10, PickHolds, DeprecateHolds,
     RewriteHolds
  DEF HubVerify, VerifyStep, VerifyUploadReplyLost, VerifyError,
      VerifyBlobsNotFound, VerifySeal, VerifyMarkFinalized, VerifyReturn,
      VerifyNotRecorded

-----------------------------------------------------------------------------
(* Directories and uploads *)

\* The slots of the sync loop's bundle that lie behind the next one are final.
LEMMA BehindNextStays ==
    ASSUME Calm, Known, HubNext, Running,
           NEW s \in SlotsOf(detail), s < Nxt
    PROVE  HasBlobs(s)' = HasBlobs(s)
<1>1. s \in Int /\ cfg.start <= s
  BY KnownBasics, LoopFacts DEF SlotsOf
<1>2. s \in DOMAIN blockTbl
  BY <1>1, KnownBasics
<1>3. s <= finalized
  BY <1>1, <1>2, KnownBasics, RowFacts
<1> QED
  BY <1>1, <1>3, FinalStays

\* As long as the loop keeps its bundle, the next slot and the directory.
LEMMA DetailDirFrame ==
    ASSUME Calm, Known, HubNext, detail' = detail, Nxt' = Nxt,
           Running' => Running,
           Running /\ detail \in DOMAIN tempDir' =>
                /\ detail \in DOMAIN tempDir
                /\ tempDir[detail] # {} => tempDir'[detail] # {},
           spc' \in Closing \cup {"save"} /\ got' =>
                \/ spc \in Closing \cup {"save"} /\ got
                \/ detail \in DOMAIN tempDir' => tempDir'[detail] # {}
    PROVE  DetailDirNotEmpty'
<1> SUFFICES ASSUME Running', detail \in DOMAIN tempDir',
                    \/ \E s \in SlotsOf(detail) : s < Nxt /\ HasBlobs(s)'
                    \/ spc' \in Closing \cup {"save"} /\ got'
             PROVE  tempDir'[detail] # {}
  BY DEF DetailDirNotEmpty, SlotsOf
<1>1. Running /\ detail \in DOMAIN tempDir
  OBVIOUS
<1>2. DetailDirNotEmpty
  BY DEF Known, GreenfieldInv, UploadedIsHeld
<1>3. ASSUME NEW s \in SlotsOf(detail), s < Nxt, HasBlobs(s)'
      PROVE  tempDir[detail] # {}
  BY <1>1, <1>2, <1>3, BehindNextStays DEF DetailDirNotEmpty
<1> QED
  BY <1>1, <1>2, <1>3 DEF DetailDirNotEmpty

\* A bundle that begins at the next slot has nothing to lose.
LEMMA DetailDirFresh ==
    ASSUME Known, detail'.start = Nxt', detail' \in Name, Nxt' \in Nat,
           spc' \notin Closing \cup {"save"}
    PROVE  DetailDirNotEmpty'
BY DEF DetailDirNotEmpty, SlotsOf, Name

LEMMA WriteDirStep ==
    ASSUME Calm, Known, HubNext, HubSync, SyncWriteBlobs
    PROVE  DetailDirNotEmpty'
<1>1. /\ spc \in {"write", "process"} /\ spc' \in {"query", "save"}
      /\ detail' = detail /\ got' = got /\ Nxt' = Nxt
      /\ IF detail \in DOMAIN tempDir
         THEN WriteBlobToFile(detail, cur, got) ELSE UNCHANGED tempDir
  BY SyncKeepsRows DEF SyncWriteBlobs, SyncSave
<1>2. /\ DOMAIN tempDir' = DOMAIN tempDir
      /\ detail \in DOMAIN tempDir =>
            /\ tempDir[detail] # {} => tempDir'[detail] # {}
            /\ got => tempDir'[detail] # {}
  BY <1>1 DEF WriteBlobToFile
<1>3. Running
  BY <1>1 DEF Running
<1> QED
  BY <1>1, <1>2, <1>3, DetailDirFrame

LEMMA SaveDirStep ==
    ASSUME Calm, Known, HubNext, HubSync, SyncSave
    PROVE  DetailDirNotEmpty'
<1> USE KnownBasics
<1>1. /\ spc = "save" /\ spc' = "fetch" /\ tempDir' = tempDir
      /\ detail' = IF cur = detail.end THEN BundleFrom(cur + 1) ELSE detail
      /\ canon' = canon
  BY DEF SyncSave, Return, bundleVars, chainVars
<1>2. cur = Nxt /\ Nxt' = Nxt + 1 /\ got = HasBlobs(cur)
  BY <1>1, SaveHubFacts, LoopFacts DEF Known, Running, Working
<1>3. CASE cur = detail.end
  <2>1. detail'.start = Nxt' /\ detail' \in Name
    BY <1>1, <1>2, <1>3, BundleFromFacts DEF HubTypeOK
  <2> QED
    BY <1>1, <1>2, <2>1, DetailDirFresh DEF Closing
<1>4. CASE cur # detail.end
  <2> SUFFICES ASSUME detail \in DOMAIN tempDir,
                      NEW s \in SlotsOf(detail), s < Nxt + 1, HasBlobs(s)
               PROVE  tempDir[detail] # {}
    BY <1>1, <1>2, <1>4 DEF DetailDirNotEmpty, SlotsOf, HasBlobs, Slots, Closing
  <2>1. s < Nxt \/ s = cur
    BY <1>2 DEF SlotsOf
  <2> QED
    BY <1>1, <1>2, <2>1 DEF Known, GreenfieldInv, UploadedIsHeld,
       DetailDirNotEmpty, Running
<1> QED
  BY <1>3, <1>4

\* Nor does the verify loop touch the directory of the sync loop.
LEMMA NewDirIsOther ==
    ASSUME Known, HubVerify, Running
    PROVE  /\ detail \in DOMAIN tempDir' => detail \in DOMAIN tempDir
           /\ detail \in DOMAIN tempDir' => tempDir'[detail] = tempDir[detail]
<1>1. vpc \in {"dir", "rewrite", "clean"} => vnew # detail
  BY NewNameFacts DEF Running, ReUploading
<1>2. CASE VerifyMakeDir
  BY <1>1, <1>2 DEF VerifyMakeDir, MakeBundleDir, Put
<1>3. CASE VerifyRewrite \/ VerifyNotRecorded
  BY <1>1, <1>3 DEF VerifyRewrite, VerifyNotRecorded, WriteBlobToFile
<1>4. CASE VerifyRemoveDir
  BY <1>1, <1>4 DEF VerifyRemoveDir, RemoveBundleDir, Drop
<1>5. \/ VerifyMakeDir \/ VerifyRewrite \/ VerifyNotRecorded
      \/ VerifyRemoveDir \/ UNCHANGED tempDir
  BY DEF HubVerify, VerifyStep, VerifyUploadReplyLost, VerifyError, VerifyPick,
     VerifyBundleNotExist, VerifyNoBlobs, VerifyBlobsNotFound,
     VerifyEmptyBundle, VerifySealedOnChain, VerifyNotSealed, VerifyIntegrity,
     VerifyBlockWithoutBlobs, VerifyBlock, VerifySeal, VerifyDeprecate,
     VerifyCreateBundle, VerifyUpload, VerifyMarkFinalized, bundleVars
<1> QED
  BY <1>2, <1>3, <1>4, <1>5

LEMMA DetailDirStep ==
    ASSUME Calm, Known, HubNext PROVE DetailDirNotEmpty'
<1> USE KnownBasics
<1>1. CASE HubSync
  <2>1. ~SyncSave => Nxt' = Nxt
    BY <1>1, SyncKeepsRows
  <2>2. CASE SyncBootFresh
    <3>1. detail' = BundleFrom(Nxt) /\ spc' = "fetch" /\ Nxt' = Nxt
      BY <2>1, <2>2 DEF SyncBootFresh, SyncSave, Nxt
    <3>2. detail'.start = Nxt' /\ detail' \in Name
      BY <3>1, BundleFromFacts DEF HubTypeOK
    <3> QED
      BY <3>1, <3>2, DetailDirFresh DEF Closing
  <2>3. CASE SyncMakeDir
    <3>1. /\ cur = detail.start /\ spc = "process" /\ spc' = "row"
          /\ detail' = detail /\ Nxt' = Nxt
      BY <2>1, <2>3 DEF SyncMakeDir, SyncSave
    <3>2. cur = Nxt
      BY <3>1, LoopFacts DEF Running, Working
    <3> QED
      BY <3>1, <3>2, DetailDirFresh DEF Closing
  <2>4. CASE SyncRemoveDir
    <3>1. detail' = detail /\ detail \notin DOMAIN tempDir'
      BY <2>4 DEF SyncRemoveDir, RemoveBundleDir, Drop
    <3> QED
      BY <3>1 DEF DetailDirNotEmpty
  <2>5. CASE /\ detail' = detail /\ tempDir' = tempDir /\ ~SyncSave
             /\ Running
             /\ spc' \in Closing \cup {"save"} /\ got' =>
                    spc \in Closing \cup {"save"} /\ got
    BY <2>1, <2>5, DetailDirFrame
  <2>6. ASSUME \/ SyncFetch \/ SyncBlockNotFound \/ SyncForkedBlock \/ SyncNotYet
               \/ SyncCreateBundle \/ SyncBundleExists \/ SyncBundleNotExist
               \/ SyncUpload \/ SyncNothingToUpload \/ SyncMarkFinalized
               \/ SyncUploadReplyLost \/ SyncError
        PROVE  /\ detail' = detail /\ tempDir' = tempDir
               /\ Running
               /\ spc' \in Closing \cup {"save"} /\ got' =>
                    spc \in Closing \cup {"save"} /\ got
    <3>1. detail' = detail /\ tempDir' = tempDir
      BY <2>6 DEF SyncFetch, SyncBlockNotFound, SyncForkedBlock, SyncNotYet,
         SyncCreateBundle, SyncBundleExists, SyncBundleNotExist, SyncUpload,
         SyncNothingToUpload, SyncMarkFinalized, SyncUploadReplyLost, SyncError,
         bundleVars
    <3>2. \/ spc' \notin Closing \cup {"save"} \/ got' = FALSE
          \/ spc \in Closing /\ got' = got
      BY <2>6 DEF SyncFetch, SyncBlockNotFound, SyncForkedBlock, SyncNotYet,
         SyncCreateBundle, SyncBundleExists, SyncBundleNotExist, SyncUpload,
         SyncNothingToUpload, SyncMarkFinalized, SyncUploadReplyLost, SyncError,
         Return, Closing
    <3>3. spc # "down" /\ spc # "deprecate"
      BY <2>6 DEF SyncFetch, SyncBlockNotFound, SyncForkedBlock, SyncNotYet,
         SyncCreateBundle, SyncBundleExists, SyncBundleNotExist, SyncUpload,
         SyncNothingToUpload, SyncMarkFinalized, SyncUploadReplyLost, SyncError
    <3> QED
      BY <3>1, <3>2, <3>3 DEF Running
  <2>7. CASE SyncSave
    BY <1>1, <2>7, SaveDirStep
  <2>8. CASE SyncWriteBlobs
    BY <1>1, <2>8, WriteDirStep
  <2> QED
    BY <1>1, <2>2, <2>3, <2>4, <2>5, <2>6, <2>7, <2>8, CalmStep DEF SyncAside
<1>2. CASE ~HubSync /\ HubVerify
  <2>1. Nxt' = Nxt /\ UNCHANGED <<spc, detail, got>>
    BY <1>2, VerifyPending DEF Known, HubVerify, syncVars
  <2> QED
    BY <1>2, <2>1, NewDirIsOther, DetailDirFrame DEF Running
<1>3. CASE HubService \/ HubChain
  <2>1. UNCHANGED <<tempDir, spc, detail, got, blockTbl, cfg>>
    BY <1>3 DEF HubService, ServiceNext, ServiceStep, ServiceDamage,
       ServiceLoss, HubChain, ChainStep, daoVars, syncVars, bundleVars
  <2>2. Nxt' = Nxt
    BY <2>1, NextSlotFrame
  <2> QED
    BY <2>1, <2>2, DetailDirFrame DEF Running
<1> QED
  BY <1>1, <1>2, <1>3, CalmStep

\* Nor does the sync loop touch the one of the verify loop.
LEMMA DetailDirIsOther ==
    ASSUME Calm, Known, HubNext, ~HubVerify, vpc = "rewrite"
    PROVE  vnew \in DOMAIN tempDir' =>
                vnew \in DOMAIN tempDir /\ tempDir'[vnew] = tempDir[vnew]
<1>1. spc # "down" => vnew # detail
  BY NewNameFacts DEF ReUploading
<1>2. CASE SyncMakeDir
  BY <1>1, <1>2 DEF SyncMakeDir, MakeBundleDir, Put
<1>3. CASE SyncWriteBlobs
  BY <1>1, <1>3 DEF SyncWriteBlobs, WriteBlobToFile
<1>4. CASE SyncRemoveDir
  BY <1>1, <1>4 DEF SyncRemoveDir, RemoveBundleDir, Drop
<1>5. SyncMakeDir \/ SyncWriteBlobs \/ SyncRemoveDir \/ UNCHANGED tempDir
  BY CalmStep DEF SyncAside, SyncBootFresh, SyncFetch, SyncBlockNotFound,
     SyncForkedBlock, SyncNotYet, SyncCreateBundle, SyncBundleExists,
     SyncBundleNotExist, SyncUpload, SyncNothingToUpload, SyncMarkFinalized,
     SyncSave, SyncUploadReplyLost, SyncError, HubService, ServiceNext,
     ServiceStep, ServiceDamage, ServiceLoss, HubChain, ChainStep, bundleVars
<1> QED
  BY <1>2, <1>3, <1>4, <1>5

LEMMA NewDirStep ==
    ASSUME Calm, Known, HubNext PROVE NewDirNotEmpty'
<1> USE KnownBasics
<1>1. NewDirNotEmpty
  BY DEF Known, GreenfieldInv, UploadedIsHeld
<1>2. CASE ~HubVerify
  <2>1. UNCHANGED <<vpc, vslot, vbundle, vnew>>
    BY <1>2, CalmStep DEF HubSync, HubService, ServiceNext, ServiceStep,
       ServiceDamage, ServiceLoss, HubChain, verifyVars
  <2>2. ASSUME vpc = "rewrite", NEW s \in SlotsOf(vbundle)
        PROVE  HasBlobs(s)' = HasBlobs(s)
    <3>1. s \in Int /\ s <= finalized
      BY <2>2, VerifiesAnnounced DEF SlotsOf
    <3> QED
      BY <3>1, FinalStays
  <2> QED
    BY <1>1, <1>2, <2>1, <2>2, DetailDirIsOther DEF NewDirNotEmpty, SlotsOf
<1>3. CASE HubVerify /\ VerifyRewrite
  <2>1. /\ vpc = "rewrite" /\ vbundle' = vbundle /\ vnew' = vnew
        /\ vslot' = vslot + 1 /\ canon' = canon /\ vslot \in Int
        /\ vnew \in DOMAIN tempDir
        /\ WriteBlobToFile(vnew, vslot, HasBlobs(vslot))
    BY <1>3 DEF VerifyRewrite, GetBlob, Calm, HubTypeOK, VerifyTypeOK
  <2>2. /\ DOMAIN tempDir' = DOMAIN tempDir
        /\ tempDir[vnew] # {} \/ HasBlobs(vslot) => tempDir'[vnew] # {}
    BY <2>1 DEF WriteBlobToFile
  <2> SUFFICES ASSUME NEW s \in SlotsOf(vbundle), s < vslot + 1, HasBlobs(s)
               PROVE  tempDir'[vnew] # {}
    BY <2>1 DEF NewDirNotEmpty, SlotsOf, HasBlobs, Slots
  <2>3. s < vslot \/ s = vslot
    BY <2>1 DEF SlotsOf
  <2> QED
    BY <1>1, <2>1, <2>2, <2>3 DEF NewDirNotEmpty
<1>4. CASE HubVerify /\ VerifyCreateBundle
  <2>1. vslot' = vbundle'.start /\ vbundle' = vbundle
    BY <1>4 DEF VerifyCreateBundle
  <2> QED
    BY <2>1 DEF NewDirNotEmpty, SlotsOf
<1>5. HubVerify => VerifyRewrite \/ VerifyCreateBundle \/ vpc' # "rewrite"
  BY DEF HubVerify, VerifyStep, VerifyUploadReplyLost, VerifyError, VerifyPick,
     VerifyBundleNotExist, VerifyNoBlobs, VerifyBlobsNotFound,
     VerifyEmptyBundle, VerifySealedOnChain, VerifyNotSealed, VerifyIntegrity,
     VerifyBlockWithoutBlobs, VerifyBlock, MarkVerified, VerifySeal,
     VerifyDeprecate, VerifyMakeDir, VerifyUpload, VerifyRemoveDir,
     VerifyMarkFinalized, VerifyGoto, VerifyReturn, VerifyNotRecorded
<1> QED
  BY <1>2, <1>3, <1>4, <1>5 DEF NewDirNotEmpty

\* What is uploaded is with the service if its directory is not empty.
LEMMA UploadHolds ==
    ASSUME NEW n, UploadAndFinalizeBundle(n), tempDir[n] # {}
    PROVE  n \in DOMAIN svc'
BY DEF UploadAndFinalizeBundle, BundleExists, Put

LEMMA DetailHeldStep ==
    ASSUME Calm, Known, HubNext PROVE DetailIsHeld'
<1> USE KnownBasics
<1>1. DOMAIN svc \subseteq DOMAIN svc'
  BY StepKeepsService DEF ServiceKeeps
<1>2. CASE HubSync /\ SyncUpload
  <2>1. /\ spc = "upload" /\ detail' = detail /\ canon' = canon
        /\ detail \in DOMAIN tempDir /\ UploadAndFinalizeBundle(detail)
    BY <1>2 DEF SyncUpload, chainVars
  <2>2. cur = Nxt /\ got = HasBlobs(cur) /\ cur = detail.end
    BY <2>1, LoopFacts DEF Running, Working, Closing
  <2> SUFFICES ASSUME NEW s \in SlotsOf(detail), HasBlobs(s)
               PROVE  detail \in DOMAIN svc'
    BY <2>1 DEF DetailIsHeld, HoldsBlobs, HasBlobs, Slots, SlotsOf
  <2>3. s < Nxt \/ s = cur
    BY <2>2 DEF SlotsOf
  <2>4. tempDir[detail] # {}
    BY <2>1, <2>2, <2>3 DEF Known, GreenfieldInv, UploadedIsHeld,
       DetailDirNotEmpty, Running, Closing
  <2> QED
    BY <2>1, <2>4, UploadHolds
<1>3. CASE /\ spc' \in {"clean", "mark"} => spc \in {"clean", "mark"}
           /\ detail' = detail
  <2> SUFFICES ASSUME spc \in {"clean", "mark"}, HoldsBlobs(detail)'
               PROVE  detail \in DOMAIN svc
    BY <1>1, <1>3 DEF DetailIsHeld
  <2>1. detail.end <= finalized
    BY LoopFacts DEF Running, Working, Closing
  <2>2. PICK n \in Name : n = detail
    OBVIOUS
  <2>3. HoldsBlobs(n)' = HoldsBlobs(n)
    BY <2>1, <2>2, FinalStays
  <2>4. HoldsBlobs(detail)
    BY <1>3, <2>2, <2>3 DEF HoldsBlobs
  <2> QED
    BY <2>4 DEF Known, GreenfieldInv, UploadedIsHeld, DetailIsHeld
<1>4. HubSync => \/ SyncUpload \/ spc' \notin {"clean", "mark"}
                 \/ SyncRemoveDir
  BY CalmStep DEF SyncAside, SyncBootFresh, SyncFetch, SyncBlockNotFound,
     SyncForkedBlock, SyncNotYet, SyncCreateBundle, SyncBundleExists,
     SyncBundleNotExist, SyncNothingToUpload, SyncMarkFinalized, SyncMakeDir,
     SyncSave, SyncUploadReplyLost, SyncError, SyncWriteBlobs, Return
<1>5. HubVerify \/ HubService \/ HubChain => UNCHANGED <<spc, detail>>
  BY DEF HubVerify, HubService, HubChain, ChainStep, syncVars
<1> QED
  BY <1>2, <1>3, <1>4, <1>5, CalmStep DEF DetailIsHeld, SyncRemoveDir

LEMMA NewHeldStep ==
    ASSUME Calm, Known, HubNext PROVE NewIsHeld'
<1> USE KnownBasics
<1>1. DOMAIN svc \subseteq DOMAIN svc'
  BY StepKeepsService DEF ServiceKeeps
<1>2. CASE HubVerify /\ VerifyUpload
  <2>1. /\ vpc = "rewrite" /\ vbundle' = vbundle /\ vnew' = vnew /\ canon' = canon
        /\ vslot > vbundle.end /\ vslot \in Int
        /\ vnew \in DOMAIN tempDir /\ UploadAndFinalizeBundle(vnew)
    BY <1>2 DEF VerifyUpload, VerifyGoto, chainVars, HubTypeOK, VerifyTypeOK
  <2> SUFFICES ASSUME NEW s \in SlotsOf(vbundle), HasBlobs(s)
               PROVE  vnew \in DOMAIN svc'
    BY <2>1 DEF NewIsHeld, HoldsBlobs, HasBlobs, Slots, SlotsOf
  <2>2. s < vslot
    BY <2>1 DEF SlotsOf
  <2>3. tempDir[vnew] # {}
    BY <2>1, <2>2 DEF Known, GreenfieldInv, UploadedIsHeld, NewDirNotEmpty
  <2> QED
    BY <2>1, <2>3, UploadHolds
<1>3. CASE /\ vpc' \in {"clean", "mark"} => vpc \in {"clean", "mark"}
           /\ vpc' \in {"clean", "mark"} => vbundle' = vbundle /\ vnew' = vnew
  <2> SUFFICES ASSUME vpc \in {"clean", "mark"}, HoldsBlobs(vbundle)',
                      vbundle' = vbundle, vnew' = vnew
               PROVE  vnew \in DOMAIN svc
    BY <1>1, <1>3 DEF NewIsHeld
  <2>1. vbundle.end <= finalized
    BY VerifiesAnnounced
  <2>2. PICK n \in Name : n = vbundle
    OBVIOUS
  <2>3. HoldsBlobs(n)' = HoldsBlobs(n)
    BY <2>1, <2>2, FinalStays
  <2>4. HoldsBlobs(vbundle)
    BY <2>2, <2>3 DEF HoldsBlobs
  <2> QED
    BY <2>4 DEF Known, GreenfieldInv, UploadedIsHeld, NewIsHeld
<1>4. HubVerify => \/ VerifyUpload \/ vpc' \notin {"clean", "mark"}
                   \/ VerifyRemoveDir
  BY DEF HubVerify, VerifyStep, VerifyUploadReplyLost, VerifyError, VerifyPick,
     VerifyBundleNotExist, VerifyNoBlobs, VerifyBlobsNotFound,
     VerifyEmptyBundle, VerifySealedOnChain, VerifyNotSealed, VerifyIntegrity,
     VerifyBlockWithoutBlobs, VerifyBlock, MarkVerified, VerifySeal,
     VerifyDeprecate, VerifyMakeDir, VerifyCreateBundle, VerifyRewrite,
     VerifyMarkFinalized, VerifyGoto, VerifyReturn, VerifyNotRecorded
<1>5. HubSync \/ HubService \/ HubChain => UNCHANGED <<vpc, vbundle, vnew>>
  BY DEF HubSync, HubService, ServiceNext, ServiceStep, ServiceDamage,
     ServiceLoss, HubChain, verifyVars
<1> QED
  BY <1>2, <1>3, <1>4, <1>5, CalmStep DEF NewIsHeld, VerifyRemoveDir, VerifyGoto

-----------------------------------------------------------------------------
LEMMA GreenfieldInvInit == HubInit => GreenfieldInv
<1> SUFFICES ASSUME HubInit PROVE GreenfieldInv
  OBVIOUS
<1>1. /\ Init /\ VerifyInit /\ DOMAIN blockTbl = {} /\ DOMAIN bundleTbl = {}
      /\ DOMAIN svc = {} /\ spc = "down" /\ vpc = "pick"
  BY DEF HubInit, Init, VerifyInit, DaoInit, BundleInit, SyncInit, EmptyTable
<1>2. RowsInOrder
  <2>1. cfg \in Config
    BY <1>1 DEF Init, SyncInit
  <2>2. cfg.start \in Nat /\ 1 <= cfg.start
    <3>1. cfg.start \in Nat \ {0}
      BY <2>1, SyncerAssumption DEF Config
    <3> QED
      BY <3>1
  <2>3. Nxt = cfg.start
    BY <1>1, <2>2 DEF Nxt, GetNextBlockNumOrSlot, GetLatestProcessedBlock
  <2> QED
    BY <1>1, <2>2, <2>3 DEF RowsInOrder
<1>3. RangesApart /\ OutIsFinal /\ OutIsHeld
  BY <1>1 DEF RangesApart, OutIsFinal, OutIsHeld, Running
<1>4. UploadedIsHeld
  BY <1>1 DEF UploadedIsHeld, DetailDirNotEmpty, NewDirNotEmpty, DetailIsHeld,
     NewIsHeld, Running
<1>5. RangeInOneBundle /\ InLatestBundle
  BY <1>1 DEF RangeInOneBundle, InLatestBundle, Finalizing
<1>6. VerifyHolds /\ SealedWhenVerified
  BY <1>1 DEF VerifyHolds, ReUploading, SealedWhenVerified
<1> QED
  BY <1>2, <1>3, <1>4, <1>5, <1>6 DEF GreenfieldInv

LEMMA GreenfieldInvStutter ==
    ASSUME GreenfieldInv, UNCHANGED hubVars PROVE GreenfieldInv'
<1>1. UNCHANGED <<blockTbl, blobTbl, bundleTbl, canon, finalized, now, tempDir,
                  svc, spc, detail, cur, got, cfg, vpc, vslot, vbundle, vnew>>
  BY DEF hubVars, vars, daoVars, chainVars, bundleVars, syncVars, verifyVars
<1>2. Nxt' = Nxt /\ Running' = Running /\ Finalizing' = Finalizing
  BY <1>1, NextSlotFrame DEF Running, Finalizing
<1>3. \A n : Announced(n)' = Announced(n) /\ Sealed(n)' = Sealed(n)
  BY <1>1 DEF Announced, Sealed
<1>4. /\ \A s : HasBlobs(s)' = HasBlobs(s)
      /\ \A n : HoldsBlobs(n)' = HoldsBlobs(n)
  BY <1>1 DEF HasBlobs, HoldsBlobs, Slots
<1>5. RowsInOrder' /\ RangesApart' /\ OutIsFinal' /\ OutIsHeld'
  BY <1>1, <1>2, <1>3, <1>4 DEF GreenfieldInv, RowsInOrder, RangesApart,
     OutIsFinal, OutIsHeld
<1>6. UploadedIsHeld'
  BY <1>1, <1>2, <1>4 DEF GreenfieldInv, UploadedIsHeld, DetailDirNotEmpty,
     NewDirNotEmpty, DetailIsHeld, NewIsHeld, HoldsBlobs, SlotsOf
<1>7. RangeInOneBundle' /\ InLatestBundle'
  BY <1>1, <1>2, <1>3 DEF GreenfieldInv, RangeInOneBundle, InLatestBundle, Announced
<1>8. VerifyHolds'
  <2>1. VerifyHolds
    BY DEF GreenfieldInv
  <2>2. Announced(vnew)' = Announced(vnew) /\ SlotsOf(vbundle)' = SlotsOf(vbundle)
    BY <1>1 DEF Announced, SlotsOf
  <2> QED
    BY <1>1, <1>2, <2>1, <2>2 DEF VerifyHolds
<1>9. SealedWhenVerified'
  <2>1. SealedWhenVerified
    BY DEF GreenfieldInv
  <2>2. \A s : /\ Announced(blockTbl[s].bundle)' = Announced(blockTbl[s].bundle)
               /\ HoldsBlobs(blockTbl[s].bundle)' = HoldsBlobs(blockTbl[s].bundle)
               /\ Sealed(blockTbl[s].bundle)' = Sealed(blockTbl[s].bundle)
    BY <1>1, <1>4 DEF Announced, Sealed, HoldsBlobs
  <2>3. /\ HoldsBlobs(vbundle)' = HoldsBlobs(vbundle)
        /\ Sealed(vbundle)' = Sealed(vbundle)
    BY <1>1, <1>4 DEF Sealed, HoldsBlobs
  <2> QED
    BY <1>1, <1>4, <2>1, <2>2, <2>3 DEF SealedWhenVerified
<1> QED
  BY <1>5, <1>6, <1>7, <1>8, <1>9 DEF GreenfieldInv

LEMMA GreenfieldInvStep ==
    ASSUME Calm, Known, HubNext PROVE GreenfieldInv'
BY RowsInOrderStep, RangesApartStep, OutStep, DetailDirStep, NewDirStep,
   DetailHeldStep, NewHeldStep, OneBundleStep, LatestStep, VerifyHoldsAside,
   VerifyHoldsOwn, SealedWhenVerifiedStep
DEF GreenfieldInv, UploadedIsHeld

LEMMA KnownInvariant ==
    ASSUME Calm PROVE HubSpec => []Known
<1>1. HubInit => Known
  BY HubInvInit, FinalReadInit, GreenfieldInvInit DEF HubInit, Known
<1>2. Known /\ [HubNext]_hubVars => Known'
  <2> SUFFICES ASSUME Known, [HubNext]_hubVars PROVE Known'
    OBVIOUS
  <2>1. HubInv'
    BY HubInvStep DEF Known, Calm
  <2>2. FinalRead'
    BY HubFinalRead DEF Known, Calm
  <2>3. GreenfieldInv'
    BY GreenfieldInvStep, GreenfieldInvStutter DEF Known
  <2> QED
    BY <2>1, <2>2, <2>3 DEF Known
<1> QED
  BY <1>1, <1>2, PTL DEF HubSpec

\* What both loops rely on about the bundles that are out: their rows cover
\* ranges of slots that lie apart, they are final, finalized by the service
\* and hold every blob of the chain their rows announce (or are being checked,
\* or re-uploaded), until they are sealed.
THEOREM HubGreenfieldInvariant ==
    ASSUME Network = "BSC", MaxCrashes = 0, MaxLosses = 0,
           ~CommitAckMayBeLost, ~StartLoweredEarly
    PROVE  HubSpec => []GreenfieldInv
<1>1. HubSpec => []Known
  BY KnownInvariant DEF Calm
<1>2. Known => GreenfieldInv
  BY DEF Known
<1> QED
  BY <1>1, <1>2, PTL

\* A slot is only marked Verified when its bundle is sealed on Greenfield and
\* holds its blobs, and it stays so: also when a bundle is uploaded anew before
\* the sync loop has recorded its last slot, when a second re-upload gets the
\* name of the first, and whatever the service damages before it is sealed.
THEOREM VerifiedSlotsAreInGreenfield ==
    ASSUME Network = "BSC", MaxCrashes = 0, MaxLosses = 0,
           ~CommitAckMayBeLost, ~StartLoweredEarly
    PROVE  HubSpec => []VerifiedIsInGreenfield
<1>1. Known => VerifiedIsInGreenfield
  <2> SUFFICES ASSUME Known, NEW s \in DOMAIN blockTbl, NEW n,
                      n = blockTbl[s].bundle, blockTbl[s].status = "verified",
                      blockTbl[s].blobs
               PROVE  n \in DOMAIN svc /\ svc[n].object = "sealed" /\ s \in svc[n].slots
    BY DEF VerifiedIsInGreenfield
  <2>1. HasBlobs(s) /\ s \in SlotsOf(n)
    BY RowFacts
  <2> QED
    BY <2>1 DEF Known, GreenfieldInv, SealedWhenVerified, HoldsBlobs, Sealed
<1>2. HubSpec => []Known
  BY KnownInvariant DEF Calm
<1> QED
  BY <1>1, <1>2, PTL

\* The bundle of a verified slot holds the blobs the chain has at that slot,
\* whatever the row says.
THEOREM VerifiedBundlesAreWhole ==
    ASSUME Network = "BSC", MaxCrashes = 0, MaxLosses = 0,
           ~CommitAckMayBeLost, ~StartLoweredEarly
    PROVE  HubSpec => []VerifiedBundleIsWhole
<1>1. Known => VerifiedBundleIsWhole
  <2> SUFFICES ASSUME Known, NEW s \in DOMAIN blockTbl, NEW n,
                      n = blockTbl[s].bundle, blockTbl[s].status = "verified",
                      HasBlobs(s)
               PROVE  n \in DOMAIN svc /\ s \in svc[n].slots
    BY DEF VerifiedBundleIsWhole
  <2>1. s \in SlotsOf(n)
    BY RowFacts
  <2> QED
    BY <2>1 DEF Known, GreenfieldInv, SealedWhenVerified, HoldsBlobs, Sealed
<1>2. HubSpec => []Known
  BY KnownInvariant DEF Calm
<1> QED
  BY <1>1, <1>2, PTL

=============================================================================
