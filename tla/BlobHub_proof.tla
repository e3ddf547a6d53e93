----------------------------- MODULE BlobHub_proof -----------------------------
(***************************************************************************)
(* Theorems about the syncer process, the sync loop and the verify loop    *)
(* side by side, for every number of slots, every chain, every             *)
(* configuration and any number of crashes, reorganisations, failing calls *)
(* and bundles the service damages or loses.  The one assumption is that   *)
(* the database does not report a committed transaction as failed.         *)
(***************************************************************************)
EXTENDS BlobHubInv, BlobSyncer_proof

\* The facts about slots and bundles the steps below use, in one place.
LEMMA HubBasics ==
    ASSUME HubTypeOK, HasLatest
    PROVE  /\ Nxt \in Nat /\ 1 <= Nxt
           /\ \A s \in DOMAIN blockTbl : s \in Slots /\ s \in Nat /\ s < Nxt
           /\ \A n \in Name : n.start \in Nat /\ n.end \in Nat /\ n.cal \in Nat
           /\ DOMAIN bundleTbl \subseteq Name
           /\ detail \in Name /\ vbundle \in Name /\ vnew \in Name
           /\ now \in Nat /\ 1 <= now /\ cfg.start \in Nat /\ cur \in Nat
           /\ \A s \in Slots : s \in Nat /\ 1 <= s
           /\ Finalizing \subseteq DOMAIN bundleTbl
<1>1. TypeOK /\ VerifyTypeOK
  BY DEF HubTypeOK
<1>2. Nxt \in Nat /\ 1 <= Nxt /\ \A s \in DOMAIN blockTbl : s < Nxt
  BY <1>1, NextSlot
<1>3. \A s \in Slots : s \in Nat /\ 1 <= s
  BY MaxSlotAssumption DEF Slots
<1>4. /\ DOMAIN blockTbl \subseteq Slots /\ DOMAIN bundleTbl \subseteq Name
      /\ detail \in Name /\ now \in Nat /\ 1 <= now /\ cur \in Nat
  BY <1>1 DEF TypeOK, DaoTypeOK, SyncTypeOK, ChainTypeOK
<1>5. cfg.start \in Nat
  BY <1>1, SyncerAssumption DEF TypeOK, SyncTypeOK, Config
<1> QED
  BY <1>1, <1>2, <1>3, <1>4, <1>5 DEF Name, VerifyTypeOK, Finalizing

LEMMA HubInvIsSane == HubInv => Sane
BY DEF HubInv, HubTypeOK, HubDb, HubLoop, CallAtNext, Sane

-----------------------------------------------------------------------------
(* What a step of the verify loop does to the tables *)

\* It moves no slot out of the table, adds no pending bundle and makes none
\* pending again; rows it marks stay where they are, the one it records anew
\* goes to the new bundle.
LEMMA VerifyTables ==
    ASSUME HubInv, HubVerify
    PROVE  /\ DOMAIN blockTbl' = DOMAIN blockTbl
           /\ \A s \in DOMAIN blockTbl :
                \/ /\ blockTbl'[s].bundle = blockTbl[s].bundle
                   /\ blockTbl'[s].blobs = blockTbl[s].blobs
                   /\ \/ blockTbl'[s].status = blockTbl[s].status
                      \/ blockTbl'[s].status = "verified"
                \/ /\ vpc = "rewrite" /\ s = vslot /\ vslot <= vbundle.end
                   /\ blockTbl'[s].bundle = vnew
           /\ DOMAIN bundleTbl \subseteq DOMAIN bundleTbl'
           /\ \A n \in DOMAIN bundleTbl' :
                n \in DOMAIN bundleTbl \/ (n = vnew /\ vpc = "row")
           /\ \A n \in DOMAIN bundleTbl :
                bundleTbl'[n] = bundleTbl[n] \/ n = vbundle \/ n.cal > 0
           /\ \A n \in DOMAIN bundleTbl :
                bundleTbl[n].status # "finalizing"
                    => bundleTbl'[n].status # "finalizing"
<1>1. DaoTypeOK
  BY DEF HubInv, HubTypeOK, TypeOK
<1>2. vpc \in ReUploading => vnew.cal > 0
  BY DEF HubInv, VerifyInRange
<1> DEFINE Kept == /\ \A n \in DOMAIN bundleTbl : bundleTbl'[n] = bundleTbl[n]
                   /\ DOMAIN bundleTbl' = DOMAIN bundleTbl
           Rows == \A s \in DOMAIN blockTbl : blockTbl'[s] = blockTbl[s]
<1>3. CASE UNCHANGED daoVars
  BY <1>3 DEF daoVars
<1>4. ASSUME NEW s, NEW e, UpdateBlocksStatus(s, e, "verified"),
             UNCHANGED bundleTbl
      PROVE  /\ DOMAIN blockTbl' = DOMAIN blockTbl
             /\ \A t \in DOMAIN blockTbl :
                /\ blockTbl'[t].bundle = blockTbl[t].bundle
                /\ blockTbl'[t].blobs = blockTbl[t].blobs
                /\ \/ blockTbl'[t].status = blockTbl[t].status
                   \/ blockTbl'[t].status = "verified"
             /\ Kept
  BY <1>1, <1>4, UpdateBlocksStatusRows
<1>5. CASE \/ VerifyEmptyBundle \/ VerifyIntegrity \/ VerifyBlockWithoutBlobs
           \/ VerifyBlock
  <2>1. \/ UNCHANGED <<blockTbl, bundleTbl>>
        \/ /\ UNCHANGED bundleTbl
           /\ \E s, e : UpdateBlocksStatus(s, e, "verified")
    BY <1>5 DEF VerifyEmptyBundle, VerifyIntegrity, VerifyBlockWithoutBlobs,
       VerifyBlock, MarkVerified
  <2> QED
    BY <2>1, <1>4
<1>6. CASE VerifySeal \/ VerifyDeprecate
  <2>1. /\ blockTbl' = blockTbl
        /\ \E st \in {"sealed", "deprecated"} : UpdateBundleStatus(vbundle, st)
    BY <1>6 DEF VerifySeal, VerifyDeprecate
  <2> QED
    BY <1>1, <2>1, UpdateBundleStatusRows
<1>7. CASE VerifyMarkFinalized
  BY <1>1, <1>2, <1>7, UpdateBundleStatusRows DEF VerifyMarkFinalized, ReUploading
<1>8. CASE VerifyCreateBundle
  BY <1>1, <1>8, CreateBundleRows DEF VerifyCreateBundle
<1>9. CASE VerifyRewrite
  <2>1. \/ blockTbl' = blockTbl
        \/ /\ vslot \in DOMAIN blockTbl
           /\ \E sidecars \in BOOLEAN : SaveBlockAndBlob(vslot, vnew, sidecars)
    BY <1>9 DEF VerifyRewrite
  <2>2. bundleTbl' = bundleTbl /\ vpc = "rewrite" /\ vslot <= vbundle.end
    BY <1>9 DEF VerifyRewrite
  <2> QED
    BY <1>1, <2>1, <2>2, SaveBlockAndBlobRows
<1>10. \/ VerifyEmptyBundle \/ VerifyIntegrity \/ VerifyBlockWithoutBlobs
       \/ VerifyBlock \/ VerifySeal \/ VerifyDeprecate \/ VerifyMarkFinalized
       \/ VerifyCreateBundle \/ VerifyRewrite \/ UNCHANGED daoVars
  BY DEF HubVerify, VerifyStep, VerifyUploadReplyLost, VerifyError, VerifyPick,
     VerifyBundleNotExist, VerifyNoBlobs, VerifyBlobsNotFound,
     VerifySealedOnChain, VerifyNotSealed, VerifyMakeDir, VerifyUpload,
     VerifyRemoveDir, VerifyNotRecorded
<1> QED
  BY <1>3, <1>5, <1>6, <1>7, <1>8, <1>9, <1>10

\* The pending bundles and the next slot stay the same.
LEMMA VerifyPending ==
    ASSUME HubInv, HubVerify
    PROVE  Finalizing' = Finalizing /\ Nxt' = Nxt
<1>1. /\ vpc # "pick" => bundleTbl[vbundle].status # "finalizing"
      /\ vpc = "row" => vnew.cal > 0
  BY DEF HubInv, VerifyInRange, ReUploading
<1>2. \A n \in DOMAIN bundleTbl : n.cal \in Nat /\ vnew.cal \in Nat
  BY HubBasics DEF HubInv, HubDb
<1>3. cfg' = cfg
  BY DEF HubVerify, syncVars
<1>4. ASSUME NEW n \in Finalizing PROVE n \in Finalizing'
  <2>1. n \in DOMAIN bundleTbl /\ bundleTbl[n].status = "finalizing" /\ n.cal = 0
    BY <1>4 DEF Finalizing
  <2>2. n \in DOMAIN bundleTbl'
    BY <2>1, VerifyTables
  <2>3. bundleTbl'[n].status = "finalizing"
    <3>1. CASE vpc = "pick"
      <4>1. bundleTbl' = bundleTbl
        BY <3>1 DEF HubVerify, VerifyStep, VerifyUploadReplyLost, VerifyError,
           VerifyPick, VerifyBundleNotExist, VerifyNoBlobs,
           VerifyBlobsNotFound, VerifyEmptyBundle, VerifySealedOnChain,
           VerifyNotSealed, VerifyIntegrity, VerifyBlockWithoutBlobs,
           VerifyBlock, VerifySeal, VerifyDeprecate, VerifyMakeDir,
           VerifyCreateBundle, VerifyRewrite, VerifyUpload, VerifyRemoveDir,
           VerifyMarkFinalized, daoVars, VerifyNotRecorded
      <4> QED
        BY <2>1, <4>1
    <3>2. CASE vpc # "pick"
      <4>1. n # vbundle /\ ~(n.cal > 0)
        BY <1>1, <2>1, <3>2
      <4> QED
        BY <2>1, <4>1, VerifyTables
    <3> QED
      BY <3>1, <3>2
  <2> QED
    BY <2>1, <2>2, <2>3 DEF Finalizing
<1>5. ASSUME NEW n \in Finalizing' PROVE n \in Finalizing
  <2>1. n \in DOMAIN bundleTbl' /\ bundleTbl'[n].status = "finalizing" /\ n.cal = 0
    BY <1>5 DEF Finalizing
  <2>2. n \in DOMAIN bundleTbl
    BY <1>1, <1>2, <2>1, VerifyTables
  <2> QED
    BY <2>1, <2>2, VerifyTables DEF Finalizing
<1>6. DOMAIN blockTbl' = DOMAIN blockTbl
  BY VerifyTables
<1> QED
  BY <1>3, <1>4, <1>5, <1>6, NextSlotFrame

\* What is given up stays so: the bundle a slot moves to ends in a slot.
LEMMA VerifyGivenUp ==
    ASSUME HubInv, HubVerify, NEW n, GivenUp(n),
           n.cal = 0 \/ n.end \notin Slots
    PROVE  GivenUp(n)'
<1>1. Nxt' = Nxt /\ DOMAIN blockTbl' = DOMAIN blockTbl
  BY VerifyPending, VerifyTables
<1>2. vpc = "rewrite" => vnew # n
  <2>1. vpc = "rewrite" => vnew.cal > 0 /\ vnew.end \in Slots
    BY DEF HubInv, VerifyInRange, ReUploading
  <2> QED
    BY <2>1
<1>3. ASSUME NEW s \in DOMAIN blockTbl, blockTbl'[s].bundle = n
      PROVE  blockTbl'[s].status # "processed"
  <2>1. /\ blockTbl'[s].bundle = blockTbl[s].bundle
        /\ \/ blockTbl'[s].status = blockTbl[s].status
           \/ blockTbl'[s].status = "verified"
    BY <1>2, <1>3, VerifyTables
  <2> QED
    BY <1>3, <2>1 DEF GivenUp
<1> QED
  BY <1>1, <1>3 DEF GivenUp

LEMMA VerifyDb == ASSUME HubInv, HubVerify PROVE HubDb'
<1>1. /\ Nxt' = Nxt /\ DOMAIN blockTbl' = DOMAIN blockTbl
      /\ Finalizing' = Finalizing
  BY VerifyPending, VerifyTables
<1>2. vpc = "row" => /\ vbundle \in DOMAIN bundleTbl /\ vbundle.end \in Slots
                     /\ vnew.start = vbundle.start /\ vnew.end = vbundle.end
  BY DEF HubInv, VerifyInRange, ReUploading
<1>3. HasLatest'
  BY <1>1 DEF HubInv, HubDb, HasLatest
<1>4. BundlesStartBehindNext'
  BY <1>1, <1>2, VerifyTables DEF HubInv, HubDb, BundlesStartBehindNext
<1>5. OutEndsInSlots'
  <2> SUFFICES ASSUME NEW n \in DOMAIN bundleTbl' \ Finalizing',
                      n.end \notin Slots
               PROVE  GivenUp(n)'
    BY DEF OutEndsInSlots, Slots
  <2>1. n \in DOMAIN bundleTbl \ Finalizing
    BY <1>1, <1>2, VerifyTables
  <2>2. GivenUp(n)
    BY <2>1 DEF HubInv, HubDb, OutEndsInSlots
  <2> QED
    BY <2>2, VerifyGivenUp
<1>6. BlockInOwnBundle'
  <2> SUFFICES ASSUME NEW s \in DOMAIN blockTbl'
               PROVE  /\ blockTbl'[s].bundle \in DOMAIN bundleTbl'
                      /\ s \in SlotsOf(blockTbl'[s].bundle)
    BY DEF BlockInOwnBundle, SlotsOf
  <2>1. CASE blockTbl'[s].bundle = blockTbl[s].bundle
    BY <1>1, <2>1, VerifyTables DEF HubInv, HubDb, BlockInOwnBundle
  <2>2. CASE /\ vpc = "rewrite" /\ s = vslot /\ vslot <= vbundle.end
             /\ blockTbl'[s].bundle = vnew
    <3>1. /\ vnew \in DOMAIN bundleTbl
          /\ vnew.start <= s /\ s <= vnew.end
      BY <2>2 DEF HubInv, VerifyInRange, ReUploading, ReUploadRecorded
    <3>2. s \in Int /\ vnew.start \in Int /\ vnew.end \in Int
      BY <1>1, HubBasics DEF HubInv, HubDb
    <3> QED
      BY <2>2, <3>1, <3>2, VerifyTables DEF SlotsOf
  <2> QED
    BY <1>1, <2>1, <2>2, VerifyTables
<1> QED
  BY <1>3, <1>4, <1>5, <1>6 DEF HubDb

LEMMA VerifyLoop == ASSUME HubInv, HubVerify PROVE HubLoop'
<1>1. /\ Nxt' = Nxt /\ Finalizing' = Finalizing
      /\ DOMAIN bundleTbl \subseteq DOMAIN bundleTbl'
  BY VerifyPending, VerifyTables
<1>2. UNCHANGED syncVars
  BY DEF HubVerify
<1>3. /\ PendingIsDetail /\ DeprecatingGivenUp /\ DetailHasNext /\ CallAtNext
  BY DEF HubInv, HubLoop
<1>4. PendingIsDetail'
  BY <1>1, <1>2, <1>3 DEF PendingIsDetail, syncVars
<1>5. DeprecatingGivenUp'
  <2>1. \A n : n.cal = 0 /\ GivenUp(n) => GivenUp(n)'
    BY VerifyGivenUp
  <2>2. PICK n : n = detail
    OBVIOUS
  <2> QED
    BY <1>2, <1>3, <2>1, <2>2 DEF DeprecatingGivenUp, GivenUp, syncVars
<1>6. DetailHasNext'
  BY <1>1, <1>2, <1>3 DEF DetailHasNext, Running, syncVars
<1>7. CallAtNext'
  BY <1>1, <1>2, <1>3 DEF CallAtNext, Working, Closing, syncVars
<1> QED
  BY <1>4, <1>5, <1>6, <1>7 DEF HubLoop

\* Each step of a re-upload has what it needs.
LEMMA VerifyRange == ASSUME HubInv, HubVerify PROVE VerifyInRange'
<1>1. /\ DOMAIN bundleTbl \subseteq DOMAIN bundleTbl'
      /\ \A n \in DOMAIN bundleTbl :
            bundleTbl[n].status # "finalizing"
                => bundleTbl'[n].status # "finalizing"
  BY VerifyTables
<1> DEFINE Out(n) == /\ n \in DOMAIN bundleTbl
                     /\ bundleTbl[n].status # "finalizing"
                     /\ n.end \in Slots
<1>2. vpc # "pick" => Out(vbundle)
  BY DEF HubInv, VerifyInRange
<1>3. /\ vbundle.start \in Nat /\ vbundle.end \in Nat /\ now \in Nat /\ 1 <= now
      /\ vbundle \in Name
  BY HubBasics DEF HubInv, HubDb
<1>4. CASE VerifyPick
  <2>1. PICK s \in Unverified :
            /\ blockTbl[s].bundle \in DOMAIN bundleTbl
            /\ bundleTbl[blockTbl[s].bundle].status # "finalizing"
            /\ vbundle' = blockTbl[s].bundle
            /\ vpc' \in {"info", "block"}
    BY <1>4 DEF VerifyPick
  <2>2. vbundle' \notin Finalizing /\ ~GivenUp(vbundle')
    BY <2>1 DEF Finalizing, GivenUp, Unverified
  <2>3. vbundle'.end \in Slots
    BY <2>1, <2>2 DEF HubInv, HubDb, OutEndsInSlots
  <2>4. bundleTbl' = bundleTbl
    BY <1>4 DEF VerifyPick, daoVars
  <2> QED
    BY <2>1, <2>3, <2>4 DEF VerifyInRange, ReUploading, ReUploadRecorded, Slots
<1>5. CASE vpc' = "pick"
  BY <1>5 DEF VerifyInRange, ReUploading, ReUploadRecorded
<1>6. CASE /\ vpc # "pick" /\ vbundle' = vbundle
           /\ vpc' \in {"info", "unknown", "empty", "block", "integrity", "seal",
                       "deprecate"}
  BY <1>1, <1>2, <1>6 DEF VerifyInRange, ReUploading, ReUploadRecorded, Slots
<1>7. CASE VerifyDeprecate
  <2>1. /\ vpc # "pick" /\ vbundle' = vbundle /\ vpc' = "dir"
        /\ vnew' = CalibratedName(vbundle, now)
    BY <1>7 DEF VerifyDeprecate
  <2>2. vnew'.start = vbundle.start /\ vnew'.end = vbundle.end /\ vnew'.cal = now
    BY <1>3, <2>1 DEF CalibratedName, Name
  <2> QED
    BY <1>1, <1>2, <1>3, <2>1, <2>2
    DEF VerifyInRange, ReUploading, ReUploadRecorded, Slots
<1>8. CASE VerifyMakeDir
  BY <1>1, <1>2, <1>8 DEF VerifyMakeDir, VerifyGoto, HubInv, VerifyInRange,
     ReUploading, ReUploadRecorded, Slots
<1>9. CASE VerifyCreateBundle
  <2>1. vnew \in DOMAIN bundleTbl'
    BY <1>9, CreateBundleRows
    DEF VerifyCreateBundle, HubInv, HubTypeOK, TypeOK
  <2>2. vbundle.start <= vbundle.end + 1
    BY <1>2, <1>3, <1>9 DEF VerifyCreateBundle, HubInv, HubDb,
       BundlesStartBehindNext
  <2> QED
    BY <1>1, <1>2, <1>3, <1>9, <2>1, <2>2 DEF VerifyCreateBundle, HubInv,
       VerifyInRange, ReUploading, ReUploadRecorded, Slots
<1>10. CASE VerifyRewrite
  <2>1. /\ vpc = "rewrite" /\ vpc' = "rewrite" /\ vbundle' = vbundle /\ vnew' = vnew
        /\ vslot <= vbundle.end /\ vslot' = vslot + 1
    BY <1>10 DEF VerifyRewrite
  <2>2. vslot \in Nat
    BY MaxSlotAssumption DEF HubInv, HubTypeOK, VerifyTypeOK
  <2> QED
    BY <1>1, <1>2, <1>3, <2>1, <2>2 DEF HubInv, VerifyInRange, ReUploading,
       ReUploadRecorded, Slots
<1>11. CASE VerifyUpload \/ VerifyRemoveDir
  BY <1>1, <1>2, <1>11 DEF VerifyUpload, VerifyRemoveDir, VerifyGoto, HubInv,
     VerifyInRange, ReUploading, ReUploadRecorded, Slots
<1>12. \/ vpc' = "pick"
       \/ /\ vpc # "pick" /\ vbundle' = vbundle
          /\ vpc' \in {"info", "unknown", "empty", "block", "integrity", "seal",
                       "deprecate"}
       \/ VerifyPick \/ VerifyDeprecate \/ VerifyMakeDir \/ VerifyCreateBundle
       \/ VerifyRewrite \/ VerifyUpload \/ VerifyRemoveDir
  BY DEF HubVerify, VerifyStep, VerifyUploadReplyLost, VerifyError,
     VerifyBundleNotExist, VerifyNoBlobs, VerifyBlobsNotFound,
     VerifyEmptyBundle, VerifySealedOnChain, VerifyNotSealed, VerifyIntegrity,
     VerifyBlockWithoutBlobs, VerifyBlock, MarkVerified, VerifySeal,
     VerifyMarkFinalized, VerifyReturn, VerifyGoto, VerifyNotRecorded
<1> QED
  BY <1>4, <1>5, <1>6, <1>7, <1>8, <1>9, <1>10, <1>11, <1>12

-----------------------------------------------------------------------------
(* Types *)

\* The slot the loop records anew is one of the chain.
LEMMA RewrittenIsSlot ==
    ASSUME HubInv, vpc = "rewrite", vslot <= vbundle.end
    PROVE  vslot \in Slots
<1>1. /\ vbundle \in DOMAIN bundleTbl /\ vbundle.end \in Slots
      /\ vbundle.start <= vslot
  BY DEF HubInv, VerifyInRange
<1>2. 1 <= vbundle.start /\ vbundle.start \in Nat
  BY <1>1, HubBasics DEF HubInv, HubDb, BundlesStartBehindNext
<1>3. vslot \in Nat
  BY MaxSlotAssumption DEF HubInv, HubTypeOK, VerifyTypeOK
<1> QED
  BY <1>1, <1>2, <1>3, MaxSlotAssumption DEF Slots

LEMMA VerifyDaoType == ASSUME HubInv, HubVerify PROVE DaoTypeOK'
<1>1. DaoTypeOK /\ vbundle \in Name /\ vnew \in Name /\ now \in Nat
  BY HubBasics DEF HubInv, HubDb, HubTypeOK, TypeOK
<1>2. ASSUME NEW s, NEW e, UpdateBlocksStatus(s, e, "verified"),
             UNCHANGED <<blobTbl, bundleTbl>>
      PROVE  DaoTypeOK'
  BY <1>1, <1>2, UpdateBlocksStatusType DEF BlockStatus
<1>3. CASE \/ VerifyEmptyBundle \/ VerifyIntegrity \/ VerifyBlockWithoutBlobs
           \/ VerifyBlock
  <2>1. \/ UNCHANGED daoVars
        \/ /\ UNCHANGED <<blobTbl, bundleTbl>>
           /\ \E s, e : UpdateBlocksStatus(s, e, "verified")
    BY <1>3 DEF VerifyEmptyBundle, VerifyIntegrity, VerifyBlockWithoutBlobs,
       VerifyBlock, MarkVerified, daoVars
  <2> QED
    BY <1>1, <1>2, <2>1 DEF daoVars, DaoTypeOK
<1>4. CASE VerifySeal \/ VerifyDeprecate \/ VerifyMarkFinalized
  <2>1. /\ UNCHANGED <<blockTbl, blobTbl>>
        /\ \E n \in Name, st \in BundleStatus : UpdateBundleStatus(n, st)
    BY <1>1, <1>4 DEF VerifySeal, VerifyDeprecate, VerifyMarkFinalized, BundleStatus
  <2> QED
    BY <1>1, <2>1, UpdateBundleStatusType
<1>5. CASE VerifyCreateBundle
  BY <1>1, <1>5, CreateBundleType DEF VerifyCreateBundle
<1>6. CASE VerifyRewrite
  <2>1. /\ UNCHANGED bundleTbl
        /\ \/ UNCHANGED <<blockTbl, blobTbl>>
           \/ \E sidecars \in BOOLEAN : SaveBlockAndBlob(vslot, vnew, sidecars)
    BY <1>6 DEF VerifyRewrite
  <2>2. vslot \in Slots
    BY <1>6, RewrittenIsSlot DEF VerifyRewrite
  <2>3. CASE UNCHANGED <<blockTbl, blobTbl>>
    BY <1>1, <2>1, <2>3 DEF DaoTypeOK
  <2>4. CASE \E sidecars \in BOOLEAN : SaveBlockAndBlob(vslot, vnew, sidecars)
    BY <1>1, <2>1, <2>2, <2>4, SaveBlockAndBlobType
  <2> QED
    BY <2>1, <2>3, <2>4
<1>7. CASE UNCHANGED daoVars
  BY <1>1, <1>7 DEF daoVars, DaoTypeOK
<1> QED
  BY <1>3, <1>4, <1>5, <1>6, <1>7 DEF HubVerify, VerifyStep,
     VerifyUploadReplyLost, VerifyError, VerifyPick, VerifyBundleNotExist,
     VerifyNoBlobs, VerifyBlobsNotFound, VerifySealedOnChain, VerifyNotSealed,
     VerifyMakeDir, VerifyUpload, VerifyRemoveDir, VerifyNotRecorded

LEMMA VerifyChainType == ASSUME HubInv, HubVerify PROVE ChainTypeOK'
<1>1. ChainTypeOK
  BY DEF HubInv, HubTypeOK, TypeOK
<1> DEFINE ChainKept == UNCHANGED <<canon, head, finalized, reorgs, now>>
<1>2. CASE VerifyIntegrity
  <2>1. PICK lost \in SUBSET SlotsOf(vbundle) :
            /\ glitches' = glitches + Cardinality(lost)
            /\ glitches' <= MaxGlitches
    BY <1>2 DEF VerifyIntegrity
  <2>2. Cardinality(lost) \in Nat
    <3>1. vbundle.start \in Int /\ vbundle.end \in Int
      BY HubBasics DEF HubInv, HubDb
    <3>2. IsFiniteSet(vbundle.start .. vbundle.end)
      BY <3>1, FS_Interval
    <3> QED
      BY <3>2, FS_Subset, FS_CardinalityType DEF SlotsOf
  <2>3. glitches' \in 0 .. MaxGlitches
    BY <1>1, <2>1, <2>2, ChainAssumption DEF ChainTypeOK
  <2> QED
    BY <1>1, <1>2, <2>3 DEF VerifyIntegrity, ChainTypeOK
<1>3. CASE VerifyBlock \/ VerifyNotRecorded
  <2>1. glitches' \in 0 .. MaxGlitches
    BY <1>1, <1>3, ChainAssumption
    DEF VerifyBlock, VerifyNotRecorded, GetBlob, ChainTypeOK
  <2> QED
    BY <1>1, <1>3, <2>1 DEF VerifyBlock, VerifyNotRecorded, ChainTypeOK
<1>4. CASE VerifyRewrite
  <2>1. glitches' \in 0 .. MaxGlitches
    BY <1>1, <1>4, ChainAssumption DEF VerifyRewrite, GetBlob, ChainTypeOK
  <2>2. vslot \in Slots
    BY <1>4, RewrittenIsSlot DEF VerifyRewrite
  <2>3. misread' \subseteq Slots
    BY <1>1, <1>4, <2>2 DEF VerifyRewrite, Misread, ChainTypeOK
  <2> QED
    BY <1>1, <1>4, <2>1, <2>3 DEF VerifyRewrite, ChainTypeOK
<1>5. CASE UNCHANGED chainVars
  BY <1>1, <1>5 DEF chainVars, ChainTypeOK
<1> QED
  BY <1>2, <1>3, <1>4, <1>5 DEF HubVerify, VerifyStep, VerifyUploadReplyLost,
     VerifyError, VerifyPick, VerifyBundleNotExist, VerifyNoBlobs,
     VerifyBlobsNotFound, VerifyEmptyBundle, VerifySealedOnChain,
     VerifyNotSealed, VerifyBlockWithoutBlobs, VerifySeal, VerifyDeprecate,
     VerifyMakeDir, VerifyCreateBundle, VerifyUpload, VerifyRemoveDir,
     VerifyMarkFinalized

\* The directories and the service, whoever acts on them.
BundleRec == [slots : SUBSET Slots, info : InfoStatus, object : ObjectStatus]

LEMMA MakeBundleDirType ==
    ASSUME BundleTypeOK, NEW n \in Name, MakeBundleDir(n), svc' = svc
    PROVE  BundleTypeOK'
<1>1. CASE tempDir' = tempDir
  BY <1>1 DEF BundleTypeOK
<1>2. CASE tempDir' = Put(tempDir, n, {})
  <2>1. tempDir \in [DOMAIN tempDir -> SUBSET Slots] /\ {} \in SUBSET Slots
    BY DEF BundleTypeOK
  <2>2. tempDir' \in [DOMAIN tempDir' -> SUBSET Slots]
    BY <1>2, <2>1, PutType
  <2>3. DOMAIN tempDir' = DOMAIN tempDir \cup {n}
    BY <1>2, PutFacts
  <2> QED
    BY <2>2, <2>3 DEF BundleTypeOK
<1> QED
  BY <1>1, <1>2 DEF MakeBundleDir

LEMMA UploadType ==
    ASSUME BundleTypeOK, NEW n \in Name, n \in DOMAIN tempDir,
           UploadAndFinalizeBundle(n), tempDir' = tempDir
    PROVE  BundleTypeOK'
<1>1. CASE svc' = svc
  BY <1>1 DEF BundleTypeOK
<1>2. CASE svc' = Put(svc, n, NewBundle(tempDir[n]))
  <2>1. NewBundle(tempDir[n]) \in BundleRec
    BY DEF NewBundle, InfoStatus, ObjectStatus, BundleRec, BundleTypeOK
  <2>2. svc \in [DOMAIN svc -> BundleRec]
    BY DEF BundleTypeOK, BundleRec
  <2>3. svc' \in [DOMAIN svc' -> BundleRec]
    BY <1>2, <2>1, <2>2, PutType
  <2>4. DOMAIN svc' = DOMAIN svc \cup {n}
    BY <1>2, PutFacts
  <2> QED
    BY <2>3, <2>4 DEF BundleTypeOK, BundleRec
<1> QED
  BY <1>1, <1>2 DEF UploadAndFinalizeBundle

LEMMA VerifyBundleType == ASSUME HubInv, HubVerify PROVE BundleTypeOK'
<1>1. BundleTypeOK /\ vnew \in Name
  BY HubBasics DEF HubInv, HubDb, HubTypeOK, TypeOK
<1>2. CASE VerifyMakeDir
  BY <1>1, <1>2, MakeBundleDirType DEF VerifyMakeDir
<1>3. CASE VerifyRewrite \/ VerifyNotRecorded
  <2>1. vslot \in Slots /\ vnew \in DOMAIN tempDir /\ svc' = svc
    BY <1>3, RewrittenIsSlot DEF VerifyRewrite, VerifyNotRecorded
  <2>2. \/ tempDir' = tempDir
        \/ tempDir' = [tempDir EXCEPT ![vnew] = @ \cup {vslot}]
    BY <1>3 DEF VerifyRewrite, VerifyNotRecorded, WriteBlobToFile
  <2> QED
    BY <1>1, <2>1, <2>2 DEF BundleTypeOK
<1>4. CASE VerifyUpload \/ VerifyUploadReplyLost
  BY <1>1, <1>4, UploadType DEF VerifyUpload, VerifyUploadReplyLost
<1>5. CASE VerifyRemoveDir
  <2>1. /\ tempDir' \in [DOMAIN tempDir' -> SUBSET Slots]
        /\ DOMAIN tempDir' = DOMAIN tempDir \ {vnew}
    BY <1>1, <1>5, DropType, DropFacts
    DEF VerifyRemoveDir, RemoveBundleDir, BundleTypeOK
  <2> QED
    BY <1>1, <1>5, <2>1 DEF VerifyRemoveDir, BundleTypeOK
<1>6. CASE UNCHANGED bundleVars
  BY <1>1, <1>6 DEF bundleVars, BundleTypeOK
<1> QED
  BY <1>2, <1>3, <1>4, <1>5, <1>6 DEF HubVerify, VerifyStep, VerifyError,
     VerifyPick, VerifyBundleNotExist, VerifyNoBlobs, VerifyBlobsNotFound,
     VerifyEmptyBundle, VerifySealedOnChain, VerifyNotSealed, VerifyIntegrity,
     VerifyBlockWithoutBlobs, VerifyBlock, VerifySeal, VerifyDeprecate,
     VerifyCreateBundle, VerifyMarkFinalized

LEMMA VerifyOwnType == ASSUME HubInv, HubVerify PROVE VerifyTypeOK'
<1>1. VerifyTypeOK
  BY DEF HubInv, HubTypeOK
<1>2. NoName \in Name
  BY DEF NoName, GetBundleName, Name
<1>3. MaxSlot \in Nat /\ 0 \in 0 .. MaxSlot + 1
  BY MaxSlotAssumption
<1>4. damages' = damages /\ losses' = losses
  <2>1. CASE \/ VerifyPick \/ VerifyBundleNotExist \/ VerifyNoBlobs
             \/ VerifyBlobsNotFound \/ VerifyEmptyBundle \/ VerifySealedOnChain
             \/ VerifyNotSealed \/ VerifyIntegrity
             \/ VerifyBlockWithoutBlobs \/ VerifyBlock \/ VerifySeal
    BY <2>1 DEF VerifyPick, VerifyBundleNotExist, VerifyNoBlobs,
       VerifyBlobsNotFound, VerifyEmptyBundle, VerifySealedOnChain,
       VerifyNotSealed, VerifyIntegrity, VerifyBlockWithoutBlobs, VerifyBlock,
       VerifySeal, faultVars
  <2>2. CASE \/ VerifyDeprecate \/ VerifyMakeDir \/ VerifyCreateBundle
             \/ VerifyRewrite \/ VerifyNotRecorded \/ VerifyUpload
             \/ VerifyRemoveDir \/ VerifyMarkFinalized
             \/ VerifyUploadReplyLost \/ VerifyError
    BY <2>2 DEF VerifyDeprecate, VerifyMakeDir, VerifyCreateBundle,
       VerifyRewrite, VerifyNotRecorded, VerifyUpload, VerifyRemoveDir,
       VerifyMarkFinalized, VerifyUploadReplyLost, VerifyError, faultVars
  <2> QED
    BY <2>1, <2>2 DEF HubVerify, VerifyStep
<1>5. CASE VerifyReturn
  BY <1>1, <1>2, <1>3, <1>4, <1>5 DEF VerifyReturn, VerifyTypeOK, VerifyPC
<1>6. CASE /\ UNCHANGED <<vslot, vbundle, vnew>>
           /\ vpc' \in VerifyPC
  BY <1>1, <1>4, <1>6 DEF VerifyTypeOK
<1>7. CASE VerifyPick
  <2>1. vslot' \in DOMAIN blockTbl /\ vbundle' \in DOMAIN bundleTbl
    BY <1>7 DEF VerifyPick, Unverified
  <2>2. vslot' \in Slots /\ vbundle' \in Name
    BY <2>1, HubBasics DEF HubInv, HubDb
  <2> QED
    BY <1>1, <1>3, <1>4, <1>7, <2>2 DEF VerifyPick, VerifyTypeOK, VerifyPC, Slots
<1>8. CASE VerifyDeprecate
  <2>1. vnew' \in Name
    BY <1>8, HubBasics DEF VerifyDeprecate, CalibratedName, Name, HubInv, HubDb
  <2> QED
    BY <1>1, <1>4, <1>8, <2>1 DEF VerifyDeprecate, VerifyTypeOK, VerifyPC
<1>9. CASE VerifyCreateBundle
  <2>1. vbundle \in DOMAIN bundleTbl /\ vbundle.end \in Slots
    BY <1>9 DEF VerifyCreateBundle, HubInv, VerifyInRange
  <2>2. vbundle.start \in Nat /\ vbundle.start <= vbundle.end
    BY <2>1, HubBasics DEF HubInv, HubDb, BundlesStartBehindNext
  <2>3. vbundle.start \in 0 .. MaxSlot + 1
    BY <1>3, <2>1, <2>2 DEF Slots
  <2> QED
    BY <1>1, <1>4, <1>9, <2>3 DEF VerifyCreateBundle, VerifyTypeOK, VerifyPC
<1>10. CASE VerifyRewrite
  <2>1. vslot + 1 \in 0 .. MaxSlot + 1
    BY <1>3, <1>10, RewrittenIsSlot DEF VerifyRewrite, Slots
  <2> QED
    BY <1>1, <1>4, <1>10, <2>1 DEF VerifyRewrite, VerifyTypeOK
<1>11. \/ VerifyReturn \/ VerifyPick \/ VerifyDeprecate \/ VerifyCreateBundle
       \/ VerifyRewrite \/ \E pc \in VerifyPC : VerifyGoto(pc)
  <2>1. CASE \/ VerifyBundleNotExist \/ VerifyNoBlobs \/ VerifyBlobsNotFound
             \/ VerifyEmptyBundle \/ VerifySealedOnChain \/ VerifyNotSealed
             \/ VerifyIntegrity
    BY <2>1 DEF VerifyBundleNotExist, VerifyNoBlobs, VerifyBlobsNotFound,
       VerifyEmptyBundle, VerifySealedOnChain, VerifyNotSealed,
       VerifyIntegrity, VerifyPC
  <2>2. CASE VerifyBlockWithoutBlobs \/ VerifyBlock
    BY <2>2 DEF VerifyBlockWithoutBlobs, VerifyBlock, MarkVerified, VerifyPC
  <2>3. CASE \/ VerifySeal \/ VerifyMakeDir \/ VerifyUpload \/ VerifyRemoveDir
             \/ VerifyMarkFinalized \/ VerifyUploadReplyLost \/ VerifyError
             \/ VerifyNotRecorded
    BY <2>3 DEF VerifyNotRecorded, VerifySeal, VerifyMakeDir, VerifyUpload,
       VerifyRemoveDir, VerifyMarkFinalized, VerifyUploadReplyLost, VerifyError, VerifyPC
  <2> QED
    BY <2>1, <2>2, <2>3 DEF HubVerify, VerifyStep
<1> QED
  BY <1>5, <1>6, <1>7, <1>8, <1>9, <1>10, <1>11 DEF VerifyGoto

LEMMA ServiceType == ASSUME HubInv, HubService PROVE HubTypeOK'
<1>1. TypeOK /\ VerifyTypeOK /\ BundleTypeOK
  BY DEF HubInv, HubTypeOK, TypeOK
<1>2. svc \in [DOMAIN svc -> BundleRec] /\ DOMAIN svc \subseteq Name
  BY <1>1 DEF BundleTypeOK, BundleRec
<1>3. DOMAIN svc' \subseteq DOMAIN svc /\ svc' \in [DOMAIN svc' -> BundleRec]
  <2>1. CASE ServiceStep
    <3>1. PICK n \in DOMAIN svc : CreateObject(n) \/ SealObject(n) \/ RefreshInfo(n)
      BY <2>1 DEF ServiceStep
    <3>2. CASE CreateObject(n) \/ SealObject(n)
      BY <1>2, <3>1, <3>2 DEF CreateObject, SealObject, BundleRec, ObjectStatus
    <3>3. CASE RefreshInfo(n)
      <4>1. svc[n].info + 1 \in InfoStatus
        BY <1>2, <3>1, <3>3 DEF RefreshInfo, BundleRec, InfoStatus
      <4> QED
        BY <1>2, <3>1, <3>3, <4>1 DEF RefreshInfo, BundleRec
    <3> QED
      BY <3>1, <3>2, <3>3
  <2>2. CASE ServiceDamage
    BY <1>2, <2>2 DEF ServiceDamage, DamageBundle, BundleRec
  <2>3. CASE ServiceLoss
    <3>1. PICK n \in DOMAIN svc : svc' = Drop(svc, n)
      BY <2>3 DEF ServiceLoss, LoseBundle
    <3> QED
      BY <1>2, <3>1, DropType, DropFacts
  <2> QED
    BY <2>1, <2>2, <2>3 DEF HubService, ServiceNext
<1>4. /\ UNCHANGED <<tempDir, verifyVars, daoVars, chainVars, syncVars>>
      /\ damages' \in 0 .. MaxDamages /\ losses' \in 0 .. MaxLosses
  BY <1>1, VerifierAssumption DEF HubService, ServiceNext, ServiceStep,
     ServiceDamage, ServiceLoss, faultVars, VerifyTypeOK
<1>5. BundleTypeOK'
  BY <1>1, <1>2, <1>3, <1>4 DEF BundleTypeOK, BundleRec
<1>6. DaoTypeOK' /\ ChainTypeOK' /\ SyncTypeOK'
  BY <1>1, <1>4 DEF TypeOK, DaoTypeOK, ChainTypeOK, SyncTypeOK, daoVars,
     chainVars, syncVars
<1>7. VerifyTypeOK'
  BY <1>1, <1>4 DEF VerifyTypeOK, verifyVars
<1> QED
  BY <1>5, <1>6, <1>7 DEF HubTypeOK, TypeOK

LEMMA HubTypeStep == ASSUME HubInv, HubNext PROVE HubTypeOK'
<1>1. /\ VerifyTypeOK /\ SyncTypeOK /\ Sane
  BY HubInvIsSane DEF HubInv, HubTypeOK, TypeOK
<1>2. CASE HubSync \/ HubChain
  <2>1. Next /\ UNCHANGED <<verifyVars, faultVars>>
    BY <1>2 DEF HubSync, HubChain, Next, SyncFault
  <2>2. TypeOK'
    BY <1>1, <2>1, TypeStep
  <2> QED
    BY <1>1, <2>1, <2>2 DEF HubTypeOK, VerifyTypeOK, verifyVars, faultVars
<1>3. CASE HubCrash
  <2>1. TypeOK'
    BY <1>1, <1>3, TypeStep DEF HubCrash, Next, SyncFault
  <2>2. NoName \in Name /\ 0 \in 0 .. MaxSlot + 1
    BY MaxSlotAssumption DEF NoName, GetBundleName, Name
  <2>3. VerifyTypeOK'
    BY <1>1, <1>3, <2>2
    DEF HubCrash, VerifyReturn, VerifyTypeOK, VerifyPC, faultVars
  <2> QED
    BY <2>1, <2>3 DEF HubTypeOK
<1>4. CASE HubVerify
  <2>1. SyncTypeOK'
    BY <1>1, <1>4 DEF HubVerify, SyncTypeOK, syncVars
  <2> QED
    BY <1>4, <2>1, VerifyDaoType, VerifyChainType, VerifyBundleType,
       VerifyOwnType DEF HubTypeOK, TypeOK
<1>5. CASE HubService
  BY <1>5, ServiceType
<1> QED
  BY <1>2, <1>3, <1>4, <1>5 DEF HubNext

-----------------------------------------------------------------------------
(* The rows' contents *)

\* A slot recorded with what was read of it is right unless it is misread now.
LEMMA SavedAsOnChain ==
    ASSUME DaoTypeOK, RowsAsOnChain, NEW s, NEW n, NEW blobs \in BOOLEAN,
           SaveBlockAndBlob(s, n, blobs),
           s \notin misread' => blobs = HasBlobs(s),
           canon' = canon, misread \subseteq misread'
    PROVE  /\ blobTbl' \subseteq DOMAIN blockTbl'
           /\ \A t \in DOMAIN blockTbl' \ misread' :
                /\ blockTbl'[t].blobs = HasBlobs(t)'
                /\ t \in blobTbl' <=> HasBlobs(t)'
<1>1. /\ DOMAIN blockTbl' = DOMAIN blockTbl \cup {s}
      /\ blockTbl'[s].blobs = blobs
      /\ \A t \in DOMAIN blockTbl : t # s => blockTbl'[t] = blockTbl[t]
  BY SaveBlockAndBlobRows
<1>2. blobTbl' = IF blobs THEN blobTbl \cup {s} ELSE blobTbl
  BY DEF SaveBlockAndBlob
<1>3. \A t : HasBlobs(t)' = HasBlobs(t)
  BY DEF HasBlobs
<1>4. /\ blobTbl \subseteq DOMAIN blockTbl
      /\ \A t \in DOMAIN blockTbl \ misread :
            /\ blockTbl[t].blobs = HasBlobs(t)
            /\ t \in blobTbl <=> HasBlobs(t)
  BY DEF RowsAsOnChain
<1>5. ASSUME NEW t \in DOMAIN blockTbl' \ misread'
      PROVE  blockTbl'[t].blobs = HasBlobs(t) /\ (t \in blobTbl' <=> HasBlobs(t))
  <2>1. CASE t = s
    <3>1. s \notin DOMAIN blockTbl => s \notin blobTbl
      BY <1>4
    <3> QED
      BY <1>1, <1>2, <1>4, <1>5, <2>1, <3>1
  <2>2. CASE t # s
    BY <1>1, <1>2, <1>4, <1>5, <2>2
  <2> QED
    BY <2>1, <2>2
<1> QED
  BY <1>1, <1>2, <1>3, <1>4, <1>5

LEMMA VerifyRows == ASSUME HubInv, HubVerify PROVE RowsAsOnChain'
<1>1. RowsAsOnChain /\ DaoTypeOK /\ UNCHANGED syncVars
  BY DEF HubInv, HubTypeOK, TypeOK, HubVerify
<1>2. CASE UNCHANGED <<canon, misread>> /\ UNCHANGED blobTbl /\ vpc # "rewrite"
  <2>1. /\ DOMAIN blockTbl' = DOMAIN blockTbl
        /\ \A s \in DOMAIN blockTbl : blockTbl'[s].blobs = blockTbl[s].blobs
    BY <1>2, VerifyTables
  <2> QED
    BY <1>1, <1>2, <2>1 DEF RowsAsOnChain, HasBlobs, Working, syncVars
<1>3. CASE UNCHANGED daoVars /\ UNCHANGED <<canon, misread>>
  BY <1>1, <1>3 DEF RowsAsOnChain, HasBlobs, Working, syncVars, daoVars
<1>4. CASE VerifyRewrite
  <2>1. PICK sidecars \in BOOLEAN :
            /\ canon' = canon
            /\ \/ UNCHANGED <<blockTbl, blobTbl, misread>>
               \/ /\ vslot \in DOMAIN blockTbl
                  /\ SaveBlockAndBlob(vslot, vnew, sidecars)
                  /\ Misread(vslot, sidecars)
    BY <1>4 DEF VerifyRewrite
  <2>2. CASE UNCHANGED <<blockTbl, blobTbl, misread>>
    BY <1>1, <2>1, <2>2 DEF RowsAsOnChain, HasBlobs, Working, syncVars
  <2>3. CASE SaveBlockAndBlob(vslot, vnew, sidecars) /\ Misread(vslot, sidecars)
    <3>1. /\ misread \subseteq misread'
          /\ vslot \notin misread' => sidecars = HasBlobs(vslot)
      BY <2>3 DEF Misread
    <3>2. /\ blobTbl' \subseteq DOMAIN blockTbl'
          /\ \A t \in DOMAIN blockTbl' \ misread' :
            /\ blockTbl'[t].blobs = HasBlobs(t)'
            /\ t \in blobTbl' <=> HasBlobs(t)'
      BY <1>1, <2>1, <2>3, <3>1, SavedAsOnChain
    <3>3. spc' \in Working /\ cur' \notin misread' => got' = HasBlobs(cur)'
      BY <1>1, <2>1, <3>1 DEF RowsAsOnChain, HasBlobs, Working, syncVars
    <3> QED
      BY <3>2, <3>3 DEF RowsAsOnChain
  <2> QED
    BY <2>1, <2>2, <2>3
<1>5. \/ VerifyRewrite
      \/ UNCHANGED <<canon, misread>> /\ UNCHANGED blobTbl /\ vpc # "rewrite"
      \/ UNCHANGED daoVars /\ UNCHANGED <<canon, misread>>
  BY DEF HubVerify, VerifyStep, VerifyUploadReplyLost, VerifyError, VerifyPick,
     VerifyBundleNotExist, VerifyNoBlobs, VerifyBlobsNotFound,
     VerifyEmptyBundle, VerifySealedOnChain, VerifyNotSealed, VerifyIntegrity,
     VerifyBlockWithoutBlobs, VerifyBlock, VerifySeal, VerifyDeprecate,
     VerifyMakeDir, VerifyCreateBundle, VerifyUpload, VerifyRemoveDir,
     VerifyMarkFinalized, chainVars, VerifyNotRecorded
<1> QED
  BY <1>2, <1>3, <1>4, <1>5

LEMMA ChainRows ==
    ASSUME HubInv, ChainNext, UNCHANGED <<daoVars, spc, cur, got>>
    PROVE  RowsAsOnChain'
<1>1. RowsAsOnChain
  BY DEF HubInv
<1>2. /\ misread \subseteq misread'
      /\ \A s : s \notin misread' => HasBlobs(s)' = HasBlobs(s)
  BY DEF ChainNext, NewHead, Finalize, Reorg, Tick, HasBlobs
<1>3. UNCHANGED <<blockTbl, blobTbl, spc, cur, got>>
  BY DEF daoVars
<1>4. blobTbl' \subseteq DOMAIN blockTbl'
  BY <1>1, <1>3 DEF RowsAsOnChain
<1>5. ASSUME NEW s \in DOMAIN blockTbl' \ misread'
      PROVE  blockTbl'[s].blobs = HasBlobs(s)' /\ (s \in blobTbl' <=> HasBlobs(s)')
  BY <1>1, <1>2, <1>3, <1>5 DEF RowsAsOnChain
<1>6. spc' \in Working /\ cur' \notin misread' => got' = HasBlobs(cur)'
  <2>1. HasBlobs(cur)' = (cur' \in Slots /\ canon'[cur'] = "blobs")
    BY DEF HasBlobs
  <2>2. cur \notin misread' => HasBlobs(cur) = (cur \in Slots /\ canon'[cur] = "blobs")
    BY <1>2 DEF HasBlobs
  <2> QED
    BY <1>1, <1>2, <1>3, <2>1, <2>2 DEF RowsAsOnChain, Working
<1> QED
  BY <1>4, <1>5, <1>6 DEF RowsAsOnChain

LEMMA SyncRows ==
    ASSUME HubInv, SyncBoot \/ SyncStep \/ SyncUploadReplyLost \/ SyncError \/ SyncCrash
    PROVE  RowsAsOnChain'
<1>1. RowsAsOnChain /\ DaoTypeOK /\ got \in BOOLEAN
  BY DEF HubInv, HubTypeOK, TypeOK, SyncTypeOK
<1>2. CASE SyncBootSkip
  <2>1. PICK x, y : UpdateBlocksStatus(x, y, "skipped")
    BY <1>2 DEF SyncBootSkip
  <2>2. /\ DOMAIN blockTbl' = DOMAIN blockTbl
        /\ \A s \in DOMAIN blockTbl : blockTbl'[s].blobs = blockTbl[s].blobs
    BY <1>1, <2>1, UpdateBlocksStatusRows
  <2> QED
    BY <1>1, <1>2, <2>2 DEF SyncBootSkip, RowsAsOnChain, HasBlobs, Working, chainVars
<1>3. CASE SyncFetch \/ SyncForkedBlock
  <2>1. /\ UNCHANGED <<blockTbl, blobTbl, canon>> /\ misread \subseteq misread'
        /\ cur' \notin misread' => got' = HasBlobs(cur)'
    <3>1. CASE SyncFetch
      BY <3>1 DEF SyncFetch, Misread, HasBlobs, daoVars
    <3>2. CASE SyncForkedBlock
      <4>1. got = FALSE
        BY <3>2 DEF SyncForkedBlock, HubInv, HubLoop, CallAtNext, Working
      <4> QED
        BY <3>2, <4>1 DEF SyncForkedBlock, Misread, HasBlobs, daoVars
    <3> QED
      BY <1>3, <3>1, <3>2
  <2> QED
    BY <1>1, <2>1 DEF RowsAsOnChain, HasBlobs
<1>4. CASE SyncSave
  <2>1. /\ SaveBlockAndBlob(cur, detail, got) /\ spc' \notin Working
        /\ canon' = canon /\ misread' = misread /\ spc \in Working
    BY <1>4 DEF SyncSave, Return, Working, chainVars
  <2>2. cur \notin misread' => got = HasBlobs(cur)
    BY <1>1, <2>1 DEF RowsAsOnChain
  <2>3. /\ blobTbl' \subseteq DOMAIN blockTbl'
        /\ \A t \in DOMAIN blockTbl' \ misread' :
            /\ blockTbl'[t].blobs = HasBlobs(t)'
            /\ t \in blobTbl' <=> HasBlobs(t)'
    BY <1>1, <2>1, <2>2, SavedAsOnChain
  <2> QED
    BY <2>1, <2>3 DEF RowsAsOnChain
<1>5. CASE /\ UNCHANGED <<blockTbl, blobTbl, canon, misread>>
           /\ spc' \notin Working \/ (spc \in Working /\ cur' = cur /\ got' = got)
  BY <1>1, <1>5 DEF RowsAsOnChain, HasBlobs
<1> QED
  <2>1. CASE SyncBoot
    BY <1>2, <1>5, <2>1 DEF SyncBoot, SyncBootFresh, SyncBootResume,
       SyncBootDeprecate, Working, daoVars, chainVars
  <2>2. CASE SyncStep
    BY <1>3, <1>4, <1>5, <2>2 DEF SyncStep, SyncBlockNotFound, SyncNotYet,
       SyncMakeDir, SyncCreateBundle, SyncWriteBlobs, SyncBundleExists,
       SyncBundleNotExist, SyncUpload, SyncNothingToUpload, SyncRemoveDir,
       SyncMarkFinalized, Return, Working, daoVars, chainVars
  <2>3. CASE SyncUploadReplyLost \/ SyncError \/ SyncCrash
    BY <1>5, <2>3 DEF SyncUploadReplyLost, SyncError, SyncCrash, Return, Working,
       daoVars, chainVars
  <2> QED
    BY <2>1, <2>2, <2>3

-----------------------------------------------------------------------------
(* The database and the loop under a step of the sync loop *)

\* Nothing but the loop's place changes.
LEMMA SyncDbFrame ==
    ASSUME HubDb, UNCHANGED <<daoVars, cfg>> PROVE HubDb'
<1>1. Nxt' = Nxt
  BY NextSlotFrame DEF daoVars
<1>2. UNCHANGED <<blockTbl, bundleTbl>> /\ Finalizing' = Finalizing
  BY DEF daoVars, Finalizing
<1> QED
  BY <1>1, <1>2 DEF HubDb, HasLatest, BundlesStartBehindNext, OutEndsInSlots,
     GivenUp, BlockInOwnBundle

\* A bundle is marked: nothing else changes.
LEMMA MarkHubDb ==
    ASSUME HubInv, NEW n, NEW st, UpdateBundleStatus(n, st), st # "finalizing",
           n.end \in Slots \/ GivenUp(n), UNCHANGED <<blockTbl, cfg>>
    PROVE  HubDb' /\ Finalizing' \subseteq Finalizing \ {n}
<1>1. Nxt' = Nxt /\ DaoTypeOK
  BY NextSlotFrame DEF HubInv, HubTypeOK, TypeOK
<1>2. /\ DOMAIN bundleTbl' = DOMAIN bundleTbl
      /\ n \in DOMAIN bundleTbl => bundleTbl'[n].status = st
      /\ \A m \in DOMAIN bundleTbl : m # n => bundleTbl'[m] = bundleTbl[m]
  BY <1>1, UpdateBundleStatusRows
<1>3. Finalizing' \subseteq Finalizing \ {n}
  BY <1>2 DEF Finalizing
<1>4. \A m \in DOMAIN bundleTbl : m # n => (m \in Finalizing <=> m \in Finalizing')
  BY <1>2 DEF Finalizing
<1>5. \A m : GivenUp(m) => GivenUp(m)'
  BY <1>1 DEF GivenUp
<1>6. OutEndsInSlots'
  BY <1>2, <1>4, <1>5 DEF HubInv, HubDb, OutEndsInSlots, Slots
<1> QED
  BY <1>1, <1>2, <1>3, <1>6 DEF HubInv, HubDb, HasLatest,
     BundlesStartBehindNext, BlockInOwnBundle

LEMMA BootSkipHubDb ==
    ASSUME HubInv, SyncBootSkip
    PROVE  HubDb' /\ detail'.cal = 0 /\ GivenUp(detail)'
<1>1. DaoTypeOK /\ TypeOK /\ PendingIsDetail
  BY DEF HubInv, HubTypeOK, TypeOK, HubLoop
<1>2. PICK n : n = GetLatestFinalizingBundle
  OBVIOUS
<1>3. /\ UpdateBlocksStatus(n.start, n.end, "skipped") /\ Nxt > n.end
      /\ detail' = n /\ UNCHANGED <<bundleTbl, cfg>>
  BY <1>2 DEF SyncBootSkip, Nxt
<1>4. n \in Finalizing /\ n \in Name
  BY <1>1, <1>2, PendingBundle DEF SyncBootSkip
<1>5. /\ DOMAIN blockTbl' = DOMAIN blockTbl
      /\ \A s \in DOMAIN blockTbl :
            /\ blockTbl'[s].bundle = blockTbl[s].bundle
            /\ blockTbl'[s].status = IF n.start <= s /\ s <= n.end
                                     THEN "skipped" ELSE blockTbl[s].status
  BY <1>1, <1>3, UpdateBlocksStatusRows
<1>6. Nxt' = Nxt /\ Finalizing' = Finalizing
  BY <1>3, <1>5, NextSlotFrame DEF Finalizing
<1>7. \A m : GivenUp(m) => GivenUp(m)'
  BY <1>5, <1>6 DEF GivenUp
<1>8. GivenUp(n)'
  <2>1. n.end < Nxt
    BY <1>3, <1>4, HubBasics DEF HubInv, HubDb
  <2>2. ASSUME NEW s \in DOMAIN blockTbl, blockTbl[s].bundle = n
        PROVE  n.start <= s /\ s <= n.end
    <3>1. s \in n.start .. n.end
      BY <2>2 DEF HubInv, HubDb, BlockInOwnBundle, SlotsOf
    <3> QED
      BY <3>1, <1>4, HubBasics DEF HubInv, HubDb
  <2> QED
    BY <1>5, <1>6, <2>1, <2>2 DEF GivenUp
<1>9. HasLatest' /\ BundlesStartBehindNext' /\ OutEndsInSlots'
  BY <1>3, <1>5, <1>6, <1>7
  DEF HubInv, HubDb, HasLatest, BundlesStartBehindNext, OutEndsInSlots, Slots
<1>10. BlockInOwnBundle'
  BY <1>3, <1>5 DEF HubInv, HubDb, BlockInOwnBundle
<1>11. n.cal = 0
  BY <1>4 DEF Finalizing
<1> QED
  BY <1>3, <1>8, <1>9, <1>10, <1>11 DEF HubDb, GivenUp

LEMMA CreateHubDb == ASSUME HubInv, SyncCreateBundle PROVE HubDb'
<1>1. /\ DaoTypeOK /\ detail.cal = 0 /\ 1 <= detail.start
      /\ detail.start <= Nxt /\ Nxt <= detail.end
  BY DEF SyncCreateBundle, HubInv, HubTypeOK, TypeOK, HubLoop, DetailHasNext,
     Running
<1>2. CreateBundle(detail, now) /\ UNCHANGED <<blockTbl, cfg>>
  BY DEF SyncCreateBundle
<1>3. /\ DOMAIN bundleTbl' = DOMAIN bundleTbl \cup {detail}
      /\ detail \notin DOMAIN bundleTbl => bundleTbl'[detail].status = "finalizing"
      /\ \A m \in DOMAIN bundleTbl : bundleTbl'[m] = bundleTbl[m]
  BY <1>1, <1>2, CreateBundleRows
<1>4. Nxt' = Nxt
  BY <1>2, NextSlotFrame
<1>5. detail.start <= detail.end
  BY <1>1, HubBasics DEF HubInv, HubDb
<1>6. \A m \in DOMAIN bundleTbl' \ Finalizing' : m \in DOMAIN bundleTbl \ Finalizing
  BY <1>1, <1>3 DEF Finalizing
<1>7. \A m : GivenUp(m) => GivenUp(m)'
  BY <1>2, <1>4 DEF GivenUp
<1>8. OutEndsInSlots'
  BY <1>6, <1>7 DEF HubInv, HubDb, OutEndsInSlots, Slots
<1>9. BundlesStartBehindNext'
  BY <1>1, <1>3, <1>4, <1>5 DEF HubInv, HubDb, BundlesStartBehindNext
<1> QED
  BY <1>2, <1>3, <1>8, <1>9 DEF HubInv, HubDb, HasLatest, BlockInOwnBundle

\* Recording the next slot makes the one after it the next.
LEMMA NextAfterRow ==
    ASSUME HubTypeOK, HasLatest, DOMAIN blockTbl' = DOMAIN blockTbl \cup {Nxt},
           cfg' = cfg
    PROVE  Nxt' = Nxt + 1
<1>1. /\ Nxt \in Nat /\ cfg.start <= Nxt
      /\ \A s \in DOMAIN blockTbl : s \in Nat /\ s < Nxt
  BY HubBasics, NextSlot DEF HubTypeOK
<1>2. \A t \in DOMAIN blockTbl' : t \in Nat /\ t <= Nxt
  BY <1>1
<1>3. GetLatestProcessedBlock' = Nxt
  <2>1. /\ Nxt \in DOMAIN blockTbl'
        /\ \A s \in DOMAIN blockTbl' :
            (\A t \in DOMAIN blockTbl' : t <= s) => s = Nxt
    BY <1>1, <1>2
  <2>2. Nxt = CHOOSE s \in DOMAIN blockTbl' : \A t \in DOMAIN blockTbl' : t <= s
    BY <1>2, <2>1
  <2> QED
    BY <2>1, <2>2 DEF GetLatestProcessedBlock
<1>4. Nxt' = IF cfg'.start <= GetLatestProcessedBlock'
             THEN GetLatestProcessedBlock' + 1 ELSE cfg'.start
  BY DEF Nxt, GetNextBlockNumOrSlot
<1> HIDE DEF Nxt
<1> QED
  BY <1>1, <1>3, <1>4

\* The slot that is recorded is new and the next one.
LEMMA SaveHubFacts ==
    ASSUME HubInv, SyncSave
    PROVE  /\ cur = Nxt /\ Nxt' = Nxt + 1 /\ cur \notin DOMAIN blockTbl
           /\ DOMAIN blockTbl' = DOMAIN blockTbl \cup {cur}
           /\ blockTbl'[cur].bundle = detail
           /\ blockTbl'[cur].status = "processed"
           /\ \A t \in DOMAIN blockTbl : blockTbl'[t] = blockTbl[t]
           /\ detail \in DOMAIN bundleTbl
           /\ detail.start <= Nxt /\ Nxt <= detail.end
           /\ bundleTbl' = bundleTbl /\ cfg' = cfg
<1>1. cur = Nxt /\ detail \in DOMAIN bundleTbl
  BY DEF SyncSave, HubInv, HubLoop, CallAtNext, Working
<1>2. cur \notin DOMAIN blockTbl
  BY <1>1, HubBasics DEF HubInv, HubDb
<1>3. DaoTypeOK /\ SaveBlockAndBlob(cur, detail, got)
  BY DEF SyncSave, HubInv, HubTypeOK, TypeOK
<1>4. /\ DOMAIN blockTbl' = DOMAIN blockTbl \cup {cur}
      /\ blockTbl'[cur].status = "processed"
      /\ blockTbl'[cur].bundle = detail
      /\ \A t \in DOMAIN blockTbl : t # cur => blockTbl'[t] = blockTbl[t]
  BY <1>3, SaveBlockAndBlobRows
<1>5. cfg' = cfg /\ bundleTbl' = bundleTbl
  BY DEF SyncSave
<1>6. Nxt' = Nxt + 1
  BY <1>1, <1>4, <1>5, NextAfterRow DEF HubInv, HubDb
<1>7. detail.start <= Nxt /\ Nxt <= detail.end
  BY DEF SyncSave, HubInv, HubLoop, DetailHasNext, Running
<1> QED
  BY <1>1, <1>2, <1>4, <1>5, <1>6, <1>7

LEMMA SaveHubDb == ASSUME HubInv, SyncSave PROVE HubDb'
<1>1. /\ cur = Nxt /\ Nxt' = Nxt + 1 /\ cur \notin DOMAIN blockTbl
      /\ DOMAIN blockTbl' = DOMAIN blockTbl \cup {cur}
      /\ blockTbl'[cur].bundle = detail
      /\ \A t \in DOMAIN blockTbl : blockTbl'[t] = blockTbl[t]
      /\ detail \in DOMAIN bundleTbl
      /\ detail.start <= Nxt /\ Nxt <= detail.end
      /\ bundleTbl' = bundleTbl
  BY SaveHubFacts
<1>2. /\ Nxt \in Nat /\ \A s \in DOMAIN blockTbl : s \in Nat /\ s < Nxt
      /\ \A n \in DOMAIN bundleTbl : n.start \in Nat /\ n.end \in Nat
      /\ Finalizing' = Finalizing
  BY <1>1, HubBasics DEF HubInv, HubDb, Finalizing
<1>3. HasLatest'
  BY <1>1, <1>2 DEF HasLatest
<1>4. BundlesStartBehindNext'
  BY <1>1, <1>2 DEF HubInv, HubDb, BundlesStartBehindNext
<1>5. ASSUME NEW n \in DOMAIN bundleTbl, GivenUp(n) PROVE GivenUp(n)'
  <2>1. n.end < Nxt /\ n # detail
    BY <1>1, <1>2, <1>5 DEF GivenUp
  <2> QED
    BY <1>1, <1>2, <1>5, <2>1 DEF GivenUp
<1>6. OutEndsInSlots'
  BY <1>1, <1>2, <1>5 DEF HubInv, HubDb, OutEndsInSlots, Slots
<1>7. BlockInOwnBundle'
  <2>1. cur \in SlotsOf(detail)
    BY <1>1, <1>2 DEF SlotsOf
  <2> QED
    BY <1>1, <2>1 DEF HubInv, HubDb, BlockInOwnBundle, SlotsOf
<1> QED
  BY <1>3, <1>4, <1>6, <1>7 DEF HubDb

LEMMA CrashHubDb ==
    ASSUME HubInv, SyncCrash, ~StartLoweredEarly PROVE HubDb'
<1>1. UNCHANGED <<blockTbl, bundleTbl>>
  BY DEF SyncCrash, daoVars
<1>2. Nxt' \in Nat /\ Nxt <= Nxt'
  <2>1. GetLatestProcessedBlock' = GetLatestProcessedBlock
    BY <1>1 DEF GetLatestProcessedBlock
  <2>2. GetLatestProcessedBlock \in 0 .. MaxSlot
    BY LatestRow DEF HubInv, HubDb, HubTypeOK
  <2>3. /\ cfg.start \in Nat /\ cfg'.start \in Nat
        /\ cfg.start <= cfg'.start \/ cfg.start <= GetLatestProcessedBlock
    BY SyncerAssumption DEF SyncCrash, HubInv, HubTypeOK, TypeOK, SyncTypeOK, Config
  <2> QED
    BY <2>1, <2>2, <2>3, MaxSlotAssumption DEF Nxt, GetNextBlockNumOrSlot
<1>3. /\ Nxt \in Nat /\ Finalizing' = Finalizing
      /\ \A n \in DOMAIN bundleTbl : n.start \in Nat /\ n.end \in Nat
  BY <1>1, HubBasics DEF HubInv, HubDb, Finalizing
<1>4. \A n \in DOMAIN bundleTbl : GivenUp(n) => GivenUp(n)'
  BY <1>1, <1>2, <1>3 DEF GivenUp
<1>5. BundlesStartBehindNext' /\ OutEndsInSlots'
  BY <1>1, <1>2, <1>3, <1>4
  DEF HubInv, HubDb, BundlesStartBehindNext, OutEndsInSlots, Slots
<1> QED
  BY <1>1, <1>5 DEF HubInv, HubDb, HasLatest, BlockInOwnBundle

\* The steps of the sync loop that touch neither tables nor configuration.
SyncAside ==
    \/ SyncBootFresh \/ SyncBootResume \/ SyncFetch \/ SyncBlockNotFound
    \/ SyncForkedBlock \/ SyncNotYet \/ SyncMakeDir \/ SyncWriteBlobs
    \/ SyncBundleNotExist \/ SyncUpload \/ SyncNothingToUpload
    \/ SyncRemoveDir \/ SyncUploadReplyLost \/ SyncError

LEMMA SyncSplit ==
    ASSUME HubSync, ~CommitAckMayBeLost, ~StartLoweredEarly
    PROVE  \/ SyncAside \/ SyncBootSkip \/ SyncBootDeprecate \/ SyncCreateBundle
           \/ SyncBundleExists \/ SyncMarkFinalized \/ SyncSave
BY DEF HubSync, SyncBoot, SyncStep, SyncSaveAckLost, SyncAside

LEMMA SyncAsideKeeps ==
    ASSUME SyncAside PROVE UNCHANGED <<daoVars, cfg>>
BY DEF SyncAside, SyncBootFresh, SyncBootResume, SyncFetch, SyncBlockNotFound,
   SyncForkedBlock, SyncNotYet, SyncMakeDir, SyncWriteBlobs,
   SyncBundleNotExist, SyncUpload, SyncNothingToUpload, SyncRemoveDir,
   SyncUploadReplyLost, SyncError

\* A bundle that is deprecated or finalised may be taken out of the pending.
LEMMA MarkSyncDb ==
    ASSUME HubInv, SyncBootDeprecate \/ SyncBundleExists \/ SyncMarkFinalized
    PROVE  HubDb' /\ Finalizing' \subseteq Finalizing \ {detail}
<1>1. PICK n : n = detail
  OBVIOUS
<1>2. UNCHANGED <<blockTbl, cfg>>
  BY DEF SyncBootDeprecate, SyncBundleExists, SyncMarkFinalized
<1>3. CASE SyncBootDeprecate
  <2>1. GivenUp(n)
    BY <1>1, <1>3 DEF SyncBootDeprecate, HubInv, HubLoop, DeprecatingGivenUp
  <2> QED
    BY <1>1, <1>2, <1>3, <2>1, MarkHubDb DEF SyncBootDeprecate
<1>4. CASE SyncBundleExists \/ SyncMarkFinalized
  <2>1. spc \in Closing /\ UpdateBundleStatus(n, "finalized")
    BY <1>1, <1>4 DEF SyncBundleExists, SyncMarkFinalized, Closing
  <2>2. n.end \in Slots
    BY <1>1, <2>1 DEF HubInv, HubLoop, CallAtNext, HubTypeOK, TypeOK,
       SyncTypeOK, Closing, Working
  <2> QED
    BY <1>1, <1>2, <2>1, <2>2, MarkHubDb
<1> QED
  BY <1>3, <1>4

LEMMA HubDbStep ==
    ASSUME HubInv, HubNext, ~CommitAckMayBeLost, ~StartLoweredEarly
    PROVE  HubDb'
<1>1. HubDb
  BY DEF HubInv
<1>2. CASE HubSync
  BY <1>1, <1>2, SyncSplit, SyncAsideKeeps, SyncDbFrame, BootSkipHubDb,
     CreateHubDb, MarkSyncDb, SaveHubDb
<1>3. CASE HubVerify
  BY <1>3, VerifyDb
<1>4. CASE HubService \/ HubChain
  BY <1>1, <1>4, SyncDbFrame DEF HubService, ServiceNext, ServiceStep,
     ServiceDamage, ServiceLoss, HubChain, ChainStep, syncVars
<1>5. CASE HubCrash
  BY <1>5, CrashHubDb DEF HubCrash
<1> QED
  BY <1>2, <1>3, <1>4, <1>5 DEF HubNext

-----------------------------------------------------------------------------
(* The loop under a step of the sync loop *)

\* A bundle that starts at the next slot has its first slot next.
LEMMA FreshHasNext ==
    ASSUME HubTypeOK, HasLatest
    PROVE  LET d == BundleFrom(Nxt)
           IN  /\ d.cal = 0 /\ 1 <= d.start
               /\ d.start <= Nxt /\ Nxt <= d.end /\ Nxt = d.start
<1>1. Nxt \in Nat /\ 1 <= Nxt /\ TypeOK
  BY HubBasics DEF HubTypeOK
<1> QED
  BY <1>1, BundleFromFacts

\* The steps that leave bundle and next slot alone and go on with the call, or
\* return from it.
LEMMA QuietHubLoop ==
    ASSUME HubInv, Running, DOMAIN bundleTbl \subseteq DOMAIN bundleTbl',
           Finalizing' \subseteq Finalizing \cup {detail},
           Nxt' = Nxt, detail' = detail,
           spc' \in {"fetch", "head"} \cup Working,
           spc' = "head" \/ spc' \in Working => cur' = Nxt,
           spc' \notin Working => got' = FALSE,
           spc' \in Closing => cur' = detail.end,
           spc' \in Closing \cup {"write", "save"} => detail \in DOMAIN bundleTbl',
           spc' = "save" /\ cur' = detail.end => detail \notin Finalizing'
    PROVE  HubLoop'
<1>1. PendingIsDetail /\ DetailHasNext /\ spc # "down"
  BY DEF HubInv, HubLoop, Running
<1>2. PendingIsDetail'
  BY <1>1 DEF PendingIsDetail
<1>3. DeprecatingGivenUp'
  BY DEF DeprecatingGivenUp, Working
<1>4. DetailHasNext'
  BY <1>1 DEF DetailHasNext, Running
<1>5. CallAtNext'
  BY DEF CallAtNext, Working, Closing
<1> QED
  BY <1>2, <1>3, <1>4, <1>5 DEF HubLoop

\* LoadProgressAndResume finds the bundle to go on with.
LEMMA BootHubLoop == ASSUME HubInv, SyncBoot, HubDb' PROVE HubLoop'
<1>1. /\ HubTypeOK /\ HasLatest /\ TypeOK /\ PendingIsDetail /\ CallAtNext
      /\ BundlesStartBehindNext
  BY DEF HubInv, HubTypeOK, HubDb, HubLoop
<1>2. got = FALSE /\ got' = got
  BY <1>1 DEF SyncBoot, SyncBootFresh, SyncBootResume, SyncBootSkip,
     SyncBootDeprecate, CallAtNext, Working
<1>3. ASSUME spc' = "fetch" PROVE CallAtNext' /\ DeprecatingGivenUp'
  BY <1>2, <1>3 DEF CallAtNext, Working, Closing, DeprecatingGivenUp
<1>4. CASE SyncBootFresh \/ SyncBootDeprecate
  <2>1. /\ detail' = BundleFrom(Nxt) /\ spc' = "fetch" /\ UNCHANGED <<blockTbl, cfg>>
    BY <1>4 DEF SyncBootFresh, SyncBootDeprecate, Nxt, daoVars
  <2>2. Nxt' = Nxt
    BY <2>1, NextSlotFrame
  <2>3. Finalizing' = {}
    <3>1. CASE SyncBootFresh
      BY <3>1 DEF SyncBootFresh, daoVars, Finalizing
    <3>2. CASE SyncBootDeprecate
      <4>1. Finalizing' \subseteq Finalizing \ {detail}
        BY <3>2, MarkSyncDb
      <4>2. Finalizing \subseteq {detail}
        BY <1>1, <3>2 DEF PendingIsDetail, SyncBootDeprecate
      <4> QED
        BY <4>1, <4>2
    <3> QED
      BY <1>4, <3>1, <3>2
  <2>4. DetailHasNext'
    BY <1>1, <2>1, <2>2, FreshHasNext DEF DetailHasNext, Running
  <2> QED
    BY <1>3, <2>1, <2>3, <2>4 DEF HubLoop, PendingIsDetail
<1>5. CASE SyncBootResume
  <2>1. PICK n : n = GetLatestFinalizingBundle
    OBVIOUS
  <2>2. /\ detail' = n /\ spc' = "fetch" /\ UNCHANGED <<blockTbl, bundleTbl, cfg>>
        /\ Finalizing # {} /\ Nxt <= n.end
    BY <1>5, <2>1 DEF SyncBootResume, Nxt, daoVars
  <2>3. Finalizing = {n}
    BY <1>1, <2>1, <2>2, PendingBundle
  <2>4. Nxt' = Nxt /\ Finalizing' = {n}
    BY <2>2, <2>3, NextSlotFrame DEF Finalizing
  <2>5. n \in DOMAIN bundleTbl /\ n.cal = 0
    BY <2>3 DEF Finalizing
  <2>6. 1 <= n.start /\ n.start <= Nxt
    BY <1>1, <2>5 DEF BundlesStartBehindNext
  <2>7. DetailHasNext'
    BY <2>2, <2>4, <2>5, <2>6 DEF DetailHasNext
  <2> QED
    BY <1>3, <2>2, <2>4, <2>7 DEF HubLoop, PendingIsDetail
<1>6. CASE SyncBootSkip
  <2>1. detail'.cal = 0 /\ GivenUp(detail)'
    BY <1>6, BootSkipHubDb
  <2>2. /\ spc' = "deprecate" /\ detail' = GetLatestFinalizingBundle
        /\ bundleTbl' = bundleTbl /\ Finalizing # {}
    BY <1>6 DEF SyncBootSkip
  <2>3. Finalizing = {GetLatestFinalizingBundle} /\ Finalizing' = Finalizing
    BY <1>1, <2>2, PendingBundle DEF Finalizing
  <2>4. PendingIsDetail'
    BY <2>2, <2>3 DEF PendingIsDetail
  <2>5. CallAtNext' /\ DetailHasNext' /\ DeprecatingGivenUp'
    BY <1>2, <2>1, <2>2 DEF CallAtNext, Working, Closing, DetailHasNext, Running,
       DeprecatingGivenUp
  <2> QED
    BY <2>4, <2>5 DEF HubLoop
<1> QED
  BY <1>4, <1>5, <1>6 DEF SyncBoot

LEMMA SaveHubLoop == ASSUME HubInv, SyncSave, HubTypeOK', HubDb' PROVE HubLoop'
<1>1. /\ cur = Nxt /\ Nxt' = Nxt + 1 /\ detail \in DOMAIN bundleTbl
      /\ detail.start <= Nxt /\ Nxt <= detail.end
      /\ bundleTbl' = bundleTbl /\ cfg' = cfg
  BY SaveHubFacts
<1>2. /\ Nxt \in Nat /\ detail.start \in Nat /\ detail.end \in Nat
      /\ detail.cal = 0 /\ 1 <= detail.start
  BY HubBasics DEF HubInv, HubDb, HubLoop, DetailHasNext, SyncSave, Running
<1>3. /\ spc' = "fetch" /\ got' = FALSE
      /\ detail' = IF cur = detail.end THEN BundleFrom(cur + 1) ELSE detail
      /\ spc = "save"
  BY DEF SyncSave, Return
<1>4. Finalizing' = Finalizing /\ Finalizing \subseteq {detail}
  BY <1>1, <1>3 DEF Finalizing, HubInv, HubLoop, PendingIsDetail
<1>5. CallAtNext' /\ DeprecatingGivenUp'
  BY <1>3 DEF CallAtNext, Working, Closing, DeprecatingGivenUp
<1>6. CASE cur = detail.end
  <2>1. Finalizing' = {}
    BY <1>3, <1>4, <1>6 DEF HubInv, HubLoop, CallAtNext
  <2>2. detail' = BundleFrom(Nxt + 1)
    BY <1>1, <1>3, <1>6
  <2>3. /\ BundleFrom(Nxt + 1).start = Nxt + 1 /\ BundleFrom(Nxt + 1).cal = 0
        /\ Nxt + 1 <= BundleFrom(Nxt + 1).end
    BY <1>2, BundleFromFacts DEF HubInv, HubTypeOK
  <2>4. DetailHasNext'
    BY <1>1, <1>2, <2>2, <2>3 DEF DetailHasNext
  <2> QED
    BY <1>5, <2>1, <2>4 DEF HubLoop, PendingIsDetail
<1>7. CASE cur # detail.end
  <2>1. DetailHasNext'
    BY <1>1, <1>2, <1>3, <1>7 DEF DetailHasNext
  <2> QED
    BY <1>3, <1>4, <1>5, <1>7, <2>1 DEF HubLoop, PendingIsDetail
<1> QED
  BY <1>6, <1>7

\* The steps of a call of sync that change neither tables nor configuration.
LEMMA AsideHubLoop == ASSUME HubInv, SyncAside, ~SyncBoot PROVE HubLoop'
<1>1. UNCHANGED <<daoVars, cfg>>
  BY SyncAsideKeeps
<1>2. /\ Nxt' = Nxt /\ Finalizing' = Finalizing /\ bundleTbl' = bundleTbl
  BY <1>1, NextSlotFrame DEF daoVars, Finalizing
<1>3. CallAtNext /\ DetailHasNext
  BY DEF HubInv, HubLoop
<1>4. Running /\ detail' = detail
  BY DEF SyncAside, SyncBoot, SyncFetch, SyncBlockNotFound, SyncForkedBlock,
     SyncNotYet, SyncMakeDir, SyncWriteBlobs, SyncBundleNotExist, SyncUpload,
     SyncNothingToUpload, SyncRemoveDir, SyncUploadReplyLost, SyncError, Running
<1>5. CASE Return
  BY <1>2, <1>4, <1>5, QuietHubLoop DEF Return, Working, Closing
<1>6. CASE SyncFetch \/ SyncBlockNotFound
  <2>1. /\ spc' \in {"process", "head"} /\ cur' = Nxt
        /\ spc' = "head" => got' = FALSE
    BY <1>3, <1>6 DEF SyncFetch, SyncBlockNotFound, Nxt, CallAtNext, Working
  <2> QED
    BY <1>2, <1>4, <2>1, QuietHubLoop DEF Working, Closing
<1>7. CASE SyncForkedBlock \/ SyncMakeDir
  <2>1. cur' = Nxt /\ spc' \in {"process", "row"}
    BY <1>3, <1>7 DEF SyncForkedBlock, SyncMakeDir, CallAtNext, Working
  <2> QED
    BY <1>2, <1>4, <2>1, QuietHubLoop DEF Working, Closing
<1>8. CASE SyncWriteBlobs
  <2>1. /\ cur' = cur /\ cur = Nxt
        /\ spc' = IF cur = detail.end THEN "query" ELSE "save"
    BY <1>3, <1>8 DEF SyncWriteBlobs, CallAtNext, Working
  <2>2. detail \in DOMAIN bundleTbl
    BY <1>3, <1>4, <1>8, <2>1 DEF SyncWriteBlobs, CallAtNext, DetailHasNext
  <2> QED
    BY <1>2, <1>4, <2>1, <2>2, QuietHubLoop DEF Working, Closing
<1>9. CASE SyncBundleNotExist \/ SyncUpload \/ SyncRemoveDir
  <2>1. /\ spc \in Closing /\ spc' \in Closing /\ cur' = cur
    BY <1>9 DEF SyncBundleNotExist, SyncUpload, SyncRemoveDir, Closing
  <2>2. cur = Nxt /\ cur = detail.end /\ detail \in DOMAIN bundleTbl
    BY <1>3, <2>1 DEF CallAtNext, Working, Closing
  <2> QED
    BY <1>2, <1>4, <2>1, <2>2, QuietHubLoop DEF Working, Closing
<1> QED
  BY <1>5, <1>6, <1>7, <1>8, <1>9 DEF SyncAside, SyncBoot, SyncNotYet,
     SyncNothingToUpload, SyncUploadReplyLost, SyncError

LEMMA TableHubLoop ==
    ASSUME HubInv, SyncCreateBundle \/ SyncBundleExists \/ SyncMarkFinalized
    PROVE  HubLoop'
<1>1. CallAtNext /\ DaoTypeOK /\ detail.cal = 0
  BY DEF HubInv, HubTypeOK, TypeOK, HubLoop, DetailHasNext, Running,
     SyncCreateBundle, SyncBundleExists, SyncMarkFinalized
<1>2. Running /\ UNCHANGED <<detail, cur, blockTbl, cfg>>
  BY DEF SyncCreateBundle, SyncBundleExists, SyncMarkFinalized, Running
<1>3. Nxt' = Nxt
  BY <1>2, NextSlotFrame
<1>4. CASE SyncCreateBundle
  <2>1. /\ DOMAIN bundleTbl' = DOMAIN bundleTbl \cup {detail}
        /\ \A m \in DOMAIN bundleTbl : bundleTbl'[m] = bundleTbl[m]
    BY <1>1, <1>4, CreateBundleRows DEF SyncCreateBundle
  <2>2. Finalizing' \subseteq Finalizing \cup {detail}
    BY <2>1 DEF Finalizing
  <2>3. cur = Nxt /\ spc' = "write"
    BY <1>1, <1>4 DEF SyncCreateBundle, CallAtNext, Working
  <2> QED
    BY <1>2, <1>3, <2>1, <2>2, <2>3, QuietHubLoop DEF Working, Closing
<1>5. CASE SyncBundleExists \/ SyncMarkFinalized
  <2>1. Finalizing' \subseteq Finalizing \ {detail}
    BY <1>5, MarkSyncDb
  <2>2. spc' = "save" /\ spc \in Closing /\ UpdateBundleStatus(detail, "finalized")
    BY <1>5 DEF SyncBundleExists, SyncMarkFinalized, Closing
  <2>3. cur = Nxt /\ detail \in DOMAIN bundleTbl
    BY <1>1, <2>2 DEF CallAtNext, Working, Closing
  <2>4. DOMAIN bundleTbl' = DOMAIN bundleTbl
    BY <2>2 DEF UpdateBundleStatus
  <2> QED
    BY <1>2, <1>3, <2>1, <2>2, <2>3, <2>4, QuietHubLoop DEF Working, Closing
<1> QED
  BY <1>4, <1>5

LEMMA HubLoopStep ==
    ASSUME HubInv, HubNext, ~CommitAckMayBeLost, ~StartLoweredEarly
    PROVE  HubLoop'
<1>1. HubTypeOK' /\ HubDb'
  BY HubTypeStep, HubDbStep
<1>2. CASE HubSync
  <2>1. CASE SyncBoot
    BY <1>1, <2>1, BootHubLoop
  <2>2. CASE ~SyncBoot
    <3>1. \/ SyncAside \/ SyncSave
          \/ SyncCreateBundle \/ SyncBundleExists \/ SyncMarkFinalized
      BY <1>2, <2>2, SyncSplit DEF SyncBoot
    <3> QED
      BY <1>1, <2>2, <3>1, AsideHubLoop, SaveHubLoop, TableHubLoop
  <2> QED
    BY <2>1, <2>2
<1>3. CASE HubVerify
  BY <1>3, VerifyLoop
<1>4. CASE HubService \/ HubChain
  <2>1. UNCHANGED <<daoVars, syncVars>>
    BY <1>4 DEF HubService, ServiceNext, ServiceStep, ServiceDamage,
       ServiceLoss, HubChain, ChainStep
  <2>2. Nxt' = Nxt /\ Finalizing' = Finalizing /\ bundleTbl' = bundleTbl
        /\ blockTbl' = blockTbl
    BY <2>1, NextSlotFrame DEF daoVars, syncVars, Finalizing
  <2>3. PendingIsDetail' /\ DeprecatingGivenUp'
    BY <2>1, <2>2 DEF HubInv, HubLoop, PendingIsDetail, DeprecatingGivenUp,
       GivenUp, syncVars
  <2>4. DetailHasNext' /\ CallAtNext'
    BY <2>1, <2>2 DEF HubInv, HubLoop, DetailHasNext, Running, CallAtNext,
       Working, Closing, syncVars
  <2> QED
    BY <2>3, <2>4 DEF HubLoop
<1>5. CASE HubCrash
  <2>1. /\ spc' = "down" /\ got' = FALSE /\ bundleTbl' = bundleTbl
        /\ Finalizing' = Finalizing
    BY <1>5 DEF HubCrash, SyncCrash, daoVars, Finalizing
  <2> QED
    BY <2>1 DEF HubInv, HubLoop, PendingIsDetail, DeprecatingGivenUp,
       DetailHasNext, Running, CallAtNext, Working, Closing
<1> QED
  BY <1>2, <1>3, <1>4, <1>5 DEF HubNext

-----------------------------------------------------------------------------
(* The verify loop under a step of the others *)

\* No step of the process takes a slot or a bundle out of its table, or makes
\* a bundle pending again.
LEMMA TablesGrow ==
    ASSUME HubInv, HubNext, ~CommitAckMayBeLost, ~StartLoweredEarly
    PROVE  /\ DOMAIN blockTbl \subseteq DOMAIN blockTbl'
           /\ DOMAIN bundleTbl \subseteq DOMAIN bundleTbl'
           /\ \A n \in DOMAIN bundleTbl :
                bundleTbl[n].status # "finalizing"
                    => bundleTbl'[n].status # "finalizing"
<1>1. DaoTypeOK
  BY DEF HubInv, HubTypeOK, TypeOK
<1>2. CASE UNCHANGED daoVars
  BY <1>2 DEF daoVars
<1>3. CASE SyncBootSkip
  <2>1. bundleTbl' = bundleTbl /\ \E s, e : UpdateBlocksStatus(s, e, "skipped")
    BY <1>3 DEF SyncBootSkip
  <2> QED
    BY <1>1, <2>1, UpdateBlocksStatusRows
<1>4. CASE SyncBootDeprecate \/ SyncBundleExists \/ SyncMarkFinalized
  <2>1. /\ blockTbl' = blockTbl
        /\ \E st \in {"deprecated", "finalized"} : UpdateBundleStatus(detail, st)
    BY <1>4 DEF SyncBootDeprecate, SyncBundleExists, SyncMarkFinalized
  <2> QED
    BY <1>1, <2>1, UpdateBundleStatusRows
<1>5. CASE SyncCreateBundle
  BY <1>1, <1>5, CreateBundleRows DEF SyncCreateBundle
<1>6. CASE SyncSave
  BY <1>6, SaveHubFacts
<1>7. CASE HubSync
  BY <1>2, <1>3, <1>4, <1>5, <1>6, <1>7, SyncSplit, SyncAsideKeeps
<1>8. CASE HubVerify
  BY <1>8, VerifyTables
<1>9. CASE HubService \/ HubChain \/ HubCrash
  BY <1>2, <1>9 DEF HubService, ServiceNext, ServiceStep, ServiceDamage,
     ServiceLoss, HubChain, ChainStep, HubCrash, SyncCrash
<1> QED
  BY <1>7, <1>8, <1>9 DEF HubNext

LEMMA HubRangeStep ==
    ASSUME HubInv, HubNext, ~CommitAckMayBeLost, ~StartLoweredEarly
    PROVE  VerifyInRange'
<1>1. VerifyInRange
  BY DEF HubInv
<1>2. CASE UNCHANGED verifyVars
  BY <1>1, <1>2, TablesGrow
  DEF VerifyInRange, ReUploading, ReUploadRecorded, verifyVars, Slots
<1>3. CASE HubSync \/ HubChain \/ HubService
  BY <1>2, <1>3 DEF HubSync, HubChain, HubService, ServiceNext, ServiceStep,
     ServiceDamage, ServiceLoss
<1>4. CASE HubCrash
  BY <1>4 DEF HubCrash, VerifyReturn, VerifyInRange, ReUploading,
     ReUploadRecorded
<1>5. CASE HubVerify
  BY <1>5, VerifyRange
<1> QED
  BY <1>3, <1>4, <1>5 DEF HubNext

LEMMA HubRowsStep ==
    ASSUME HubInv, HubNext, ~CommitAckMayBeLost, ~StartLoweredEarly
    PROVE  RowsAsOnChain'
<1>1. CASE HubSync
  BY <1>1, SyncRows DEF HubSync, SyncSaveAckLost
<1>2. CASE HubVerify
  BY <1>2, VerifyRows
<1>3. CASE HubService
  BY <1>3 DEF HubService, ServiceNext, ServiceStep, ServiceDamage, ServiceLoss,
     daoVars, chainVars, syncVars, HubInv, RowsAsOnChain, HasBlobs, Working
<1>4. CASE HubChain
  BY <1>4, ChainRows DEF HubChain, ChainStep, syncVars
<1>5. CASE HubCrash
  BY <1>5, SyncRows DEF HubCrash
<1> QED
  BY <1>1, <1>2, <1>3, <1>4, <1>5 DEF HubNext

-----------------------------------------------------------------------------
LEMMA HubInvInit == HubInit => HubInv
<1> SUFFICES ASSUME HubInit PROVE HubInv
  OBVIOUS
<1>1. /\ Init /\ VerifyInit /\ DOMAIN blockTbl = {} /\ DOMAIN bundleTbl = {}
      /\ blobTbl = {} /\ spc = "down" /\ got = FALSE /\ vpc = "pick"
  BY DEF HubInit, Init, VerifyInit, DaoInit, SyncInit, EmptyTable
<1>2. HubTypeOK
  <2>1. NoName \in Name /\ 0 \in 0 .. MaxSlot + 1
    BY MaxSlotAssumption DEF NoName, GetBundleName, Name
  <2>2. VerifyTypeOK
    BY <1>1, <2>1, VerifierAssumption DEF VerifyInit, VerifyTypeOK, VerifyPC
  <2> QED
    BY <1>1, <2>2, TypeInit DEF HubTypeOK
<1>3. HubDb
  BY <1>1 DEF HubDb, HasLatest, BundlesStartBehindNext, OutEndsInSlots,
     BlockInOwnBundle
<1>4. HubLoop
  BY <1>1 DEF HubLoop, PendingIsDetail, Finalizing, DeprecatingGivenUp,
     DetailHasNext, Running, CallAtNext, Working, Closing
<1>5. VerifyInRange /\ RowsAsOnChain
  BY <1>1 DEF VerifyInRange, ReUploading, ReUploadRecorded, RowsAsOnChain, Working
<1> QED
  BY <1>2, <1>3, <1>4, <1>5 DEF HubInv

LEMMA HubInvStutter == ASSUME HubInv, UNCHANGED hubVars PROVE HubInv'
<1>1. UNCHANGED <<daoVars, chainVars, bundleVars, syncVars, verifyVars, faultVars>>
  BY DEF hubVars, vars
<1>2. HubTypeOK'
  BY <1>1 DEF HubInv, HubTypeOK, TypeOK, DaoTypeOK, ChainTypeOK, BundleTypeOK,
     SyncTypeOK, VerifyTypeOK, daoVars, chainVars, bundleVars, syncVars,
     verifyVars, faultVars
<1>3. HubDb'
  BY <1>1, SyncDbFrame DEF HubInv, syncVars
<1>4. Nxt' = Nxt /\ Finalizing' = Finalizing
  BY <1>1, NextSlotFrame DEF daoVars, syncVars, Finalizing
<1>5. HubLoop'
  BY <1>1, <1>4 DEF HubInv, HubLoop, PendingIsDetail, DeprecatingGivenUp,
     GivenUp, DetailHasNext, Running, CallAtNext, Working, Closing, syncVars,
     daoVars
<1>6. VerifyInRange' /\ RowsAsOnChain'
  BY <1>1 DEF HubInv, VerifyInRange, ReUploading, ReUploadRecorded,
     RowsAsOnChain, HasBlobs, Working, Slots, daoVars, chainVars, syncVars,
     verifyVars
<1> QED
  BY <1>2, <1>3, <1>5, <1>6 DEF HubInv

LEMMA HubInvStep ==
    ASSUME ~CommitAckMayBeLost, ~StartLoweredEarly
    PROVE  HubInv /\ [HubNext]_hubVars => HubInv'
<1>1. CASE HubInv /\ HubNext
  BY <1>1, HubTypeStep, HubDbStep, HubLoopStep, HubRangeStep, HubRowsStep
  DEF HubInv
<1>2. CASE HubInv /\ UNCHANGED hubVars
  BY <1>2, HubInvStutter
<1> QED
  BY <1>1, <1>2

\* The invariant of the syncer process holds whatever the loops do to each
\* other's rows, wherever a crash stops them and whatever the service does,
\* provided the database's errors can be believed.
THEOREM HubInvariant ==
    ASSUME ~CommitAckMayBeLost, ~StartLoweredEarly PROVE HubSpec => []HubInv
<1>1. HubInit => HubInv
  BY HubInvInit
<1>2. HubInv /\ [HubNext]_hubVars => HubInv'
  BY HubInvStep
<1> QED
  BY <1>1, <1>2, PTL DEF HubSpec

-----------------------------------------------------------------------------
(* The properties *)

\* Every variable of both loops keeps its type; in particular no slot the
\* verify loop re-records lies outside the chain.
THEOREM HubTypeCorrect ==
    ASSUME ~CommitAckMayBeLost, ~StartLoweredEarly PROVE HubSpec => []HubTypeOK
<1>1. HubInv => HubTypeOK
  BY DEF HubInv
<1> QED
  BY <1>1, HubInvariant, PTL

\* A recorded slot lies in its bundle's range and the bundle has its row, also
\* while reUploadBundle moves the slots of a bundle over to a new one and
\* wherever it is stopped.
THEOREM HubBlocksInOwnBundles ==
    ASSUME ~CommitAckMayBeLost, ~StartLoweredEarly
    PROVE  HubSpec => []BlockInOwnBundle
<1>1. HubInv => BlockInOwnBundle
  BY DEF HubInv, HubDb
<1> QED
  BY <1>1, HubInvariant, PTL

\* At most one bundle waits for the sync loop to finalise it: the bundles the
\* verify loop makes and leaves unfinished do not count as pending, and
\* LoadProgressAndResume never resumes one of them.
THEOREM HubAtMostOneOpenBundle ==
    ASSUME ~CommitAckMayBeLost, ~StartLoweredEarly
    PROVE  HubSpec => []OneOpenBundle
<1>1. HubInv => OneOpenBundle
  BY DEF HubInv, HubLoop, PendingIsDetail, OneOpenBundle
<1> QED
  BY <1>1, HubInvariant, PTL

\* No slot is ever unrecorded, and a verified one waits for verification again
\* only in a bundle that was uploaded anew (SaveBlockAndBlob overwrites the
\* status along with the bundle name).
THEOREM ReverifiedAfterReUpload ==
    ASSUME ~CommitAckMayBeLost, ~StartLoweredEarly
    PROVE  HubSpec => ReverifiedOnlyAfterReUpload
<1> DEFINE Kept ==
        \A s \in DOMAIN blockTbl :
            /\ s \in DOMAIN blockTbl'
            /\ blockTbl[s].status = "verified" /\ blockTbl'[s].status = "processed"
                => blockTbl'[s].bundle.cal > 0
<1>1. ASSUME HubInv, HubNext PROVE Kept
  <2> SUFFICES ASSUME NEW s \in DOMAIN blockTbl,
                      blockTbl[s].status = "verified",
                      blockTbl'[s].status = "processed"
               PROVE  blockTbl'[s].bundle.cal > 0
    BY <1>1, TablesGrow
  <2>1. DaoTypeOK
    BY <1>1 DEF HubInv, HubTypeOK, TypeOK
  <2>2. CASE HubVerify
    <3>1. vpc = "rewrite" /\ blockTbl'[s].bundle = vnew
      BY <1>1, <2>2, VerifyTables
    <3> QED
      BY <1>1, <3>1 DEF HubInv, VerifyInRange, ReUploading
  <2>3. CASE UNCHANGED blockTbl
    BY <2>3
  <2>4. CASE SyncBootSkip
    <3>1. PICK a, c : UpdateBlocksStatus(a, c, "skipped")
      BY <2>4 DEF SyncBootSkip
    <3> QED
      BY <2>1, <3>1, UpdateBlocksStatusRows
  <2>5. CASE SyncSave
    BY <1>1, <2>5, SaveHubFacts
  <2>6. \/ HubVerify \/ UNCHANGED blockTbl \/ SyncBootSkip \/ SyncSave
    <3>1. CASE HubSync
      BY <1>1, <3>1, SyncSplit, SyncAsideKeeps
      DEF SyncBootDeprecate, SyncCreateBundle, SyncBundleExists,
          SyncMarkFinalized, daoVars
    <3>2. CASE HubService \/ HubChain \/ HubCrash
      BY <3>2 DEF HubService, ServiceNext, ServiceStep, ServiceDamage,
         ServiceLoss, HubChain, ChainStep, HubCrash, SyncCrash, daoVars
    <3> QED
      BY <1>1, <3>1, <3>2 DEF HubNext
  <2> QED
    BY <2>2, <2>3, <2>4, <2>5, <2>6
<1>2. HubInv /\ [HubNext]_hubVars => [Kept]_hubVars
  BY <1>1
<1>3. [][HubNext]_hubVars /\ []HubInv => [][Kept]_hubVars
  BY <1>2, PTL
<1> QED
  BY <1>3, HubInvariant, PTL DEF HubSpec, ReverifiedOnlyAfterReUpload

-----------------------------------------------------------------------------
(* Final blocks: the verify loop records no others either                    *)

LEMMA VerifyFinalRead ==
    ASSUME Network = "BSC", FinalRead, HubVerify
    PROVE  FinalRead'
<1>1. UNCHANGED <<spc, cur, got>> /\ finalized \in Int /\ spc # "head"
  BY DEF HubVerify, syncVars, FinalRead
<1>2. ASSUME RowsFinal', UNCHANGED <<canon, finalized>> PROVE FinalRead'
  BY <1>1, <1>2 DEF FinalRead, ReadFinal, HasBlobs, Slots
<1>3. CASE \/ VerifyEmptyBundle \/ VerifyIntegrity \/ VerifyBlockWithoutBlobs
           \/ VerifyBlock
  <2>1. UNCHANGED <<canon, finalized>>
    BY <1>3 DEF VerifyEmptyBundle, VerifyIntegrity, VerifyBlockWithoutBlobs,
       VerifyBlock, chainVars
  <2>2. CASE UNCHANGED blockTbl
    BY <1>1, <2>1, <2>2, FinalReadFrame
  <2>3. CASE \E s, e, st : UpdateBlocksStatus(s, e, st)
    BY <1>2, <2>1, <2>3, MarkedFinal
  <2> QED
    BY <1>3, <2>2, <2>3 DEF VerifyEmptyBundle, VerifyIntegrity,
       VerifyBlockWithoutBlobs, VerifyBlock, MarkVerified
<1>4. CASE VerifyRewrite
  <2>1. PICK sidecars \in BOOLEAN :
            /\ sidecars = HasBlobs(vslot)
            /\ \/ UNCHANGED <<blockTbl, blobTbl, misread>>
               \/ /\ vslot \in DOMAIN blockTbl
                  /\ SaveBlockAndBlob(vslot, vnew, sidecars)
    BY <1>4 DEF VerifyRewrite, GetBlob
  <2>2. UNCHANGED <<canon, finalized>>
    BY <1>4 DEF VerifyRewrite
  <2>3. CASE UNCHANGED blockTbl
    BY <1>1, <2>2, <2>3, FinalReadFrame
  <2>4. CASE vslot \in DOMAIN blockTbl /\ SaveBlockAndBlob(vslot, vnew, sidecars)
    <3>1. ReadFinal(vslot, sidecars)
      BY <2>1, <2>4 DEF FinalRead, RowsFinal, ReadFinal
    <3> QED
      BY <1>2, <2>2, <2>4, <3>1, SavedFinal
  <2> QED
    BY <2>1, <2>3, <2>4
<1>5. CASE UNCHANGED <<blockTbl, canon, finalized>>
  BY <1>1, <1>5, FinalReadFrame
<1> QED
  BY <1>3, <1>4, <1>5 DEF HubVerify, VerifyStep, VerifyUploadReplyLost,
     VerifyError, VerifyPick, VerifyBundleNotExist, VerifyNoBlobs,
     VerifyBlobsNotFound, VerifySealedOnChain, VerifyNotSealed, VerifySeal,
     VerifyDeprecate, VerifyMakeDir, VerifyCreateBundle, VerifyUpload,
     VerifyRemoveDir, VerifyMarkFinalized, daoVars, chainVars,
     VerifyNotRecorded

LEMMA HubFinalRead ==
    ASSUME Network = "BSC", FinalRead, [HubNext]_hubVars PROVE FinalRead'
<1>1. CASE HubSync \/ HubCrash
  BY <1>1, SyncFinalRead DEF HubSync, HubCrash, SyncFault
<1>2. CASE HubVerify
  BY <1>2, VerifyFinalRead
<1>3. CASE HubChain
  BY <1>3, FinalReadFrame DEF HubChain, ChainStep, daoVars, syncVars, FinalRead
<1>4. CASE HubService
  BY <1>4, FinalReadFrame DEF HubService, ServiceNext, ServiceStep,
     ServiceDamage, ServiceLoss, daoVars, chainVars, syncVars, FinalRead
<1>5. CASE UNCHANGED hubVars
  BY <1>5, FinalReadFrame DEF hubVars, vars, daoVars, chainVars, syncVars,
     FinalRead
<1> QED
  BY <1>1, <1>2, <1>3, <1>4, <1>5 DEF HubNext

\* On BSC the rows of final blocks still say what the chain holds there when
\* the verify loop writes them as well, whatever crashes and errors there are.
THEOREM HubBscRecordedAsOnChain ==
    ASSUME Network = "BSC" PROVE HubSpec => []RecordedAsOnChain
<1>1. FinalRead /\ [HubNext]_hubVars => FinalRead'
  BY HubFinalRead
<1>2. HubInit => FinalRead
  BY FinalReadInit DEF HubInit
<1> QED
  BY <1>1, <1>2, FinalReadImplies, PTL DEF HubSpec
=============================================================================
