-------------------------- MODULE BlobHubServer_proof --------------------------
(***************************************************************************)
(* The two processes together.  What BlobServer_proof assumes of the       *)
(* archive, the syncer keeps: the theorems about the server are thereby    *)
(* theorems about the server beside this syncer, with both its loops, its  *)
(* crashes and the faults of nodes and bundle service.                     *)
(***************************************************************************)
EXTENDS BlobHubServer, HubGreenfield_proof, BlobServer_proof

\* A step of the two is a step of one of them, and leaves the other alone.
LEMMA TwoProcesses == HubServerSpec => HubSpec /\ ServerSpec
<1>1. HubServerInit => HubInit /\ ServerInit
  BY DEF HubServerInit
<1>2. [HubServerNext]_allVars => [HubNext]_hubVars /\ [ServerNext]_serverVars
  BY DEF HubServerNext, allVars
<1> QED
  BY <1>1, <1>2, PTL DEF HubServerSpec, HubSpec, ServerSpec

LEMMA HubInvIsArchiveOK == HubInv => ArchiveOK
  BY DEF HubInv, HubTypeOK, TypeOK, RowsAsOnChain, ArchiveOK, ArchiveAsOnChain

-----------------------------------------------------------------------------
(* The syncer's steps are steps the server may rely on *)

\* What a slot holds changes only when it counts as misread from then on.
LEMMA HistoryGrows ==
    ASSUME HubNext
    PROVE  /\ misread \subseteq misread'
           /\ \A s \in Slots \ misread' : canon'[s] = canon[s]
<1>1. CASE HubSync \/ HubCrash
  <2>1. canon' = canon /\ misread \subseteq misread'
    <3>1. CASE SyncBoot \/ SyncError \/ SyncUploadReplyLost \/ SyncSaveAckLost
               \/ SyncCrash
      BY <3>1 DEF SyncBoot, SyncBootFresh, SyncBootSkip, SyncBootResume,
         SyncBootDeprecate, SyncError, SyncUploadReplyLost, SyncSaveAckLost,
         SyncCrash, chainVars
    <3>2. CASE SyncStep
      BY <3>2 DEF SyncStep, SyncFetch, SyncForkedBlock, SyncBlockNotFound,
         SyncNotYet, SyncMakeDir, SyncCreateBundle, SyncWriteBlobs,
         SyncBundleExists, SyncBundleNotExist, SyncUpload, SyncNothingToUpload,
         SyncRemoveDir, SyncMarkFinalized, SyncSave, Misread, chainVars
    <3> QED
      BY <1>1, <3>1, <3>2 DEF HubSync, HubCrash
  <2> QED
    BY <2>1
<1>2. CASE HubVerify
  <2>1. canon' = canon /\ misread \subseteq misread'
    <3>1. CASE VerifyRewrite
      BY <3>1 DEF VerifyRewrite, Misread
    <3>2. CASE ~VerifyRewrite
      BY <1>2, <3>2 DEF HubVerify, VerifyStep, VerifyUploadReplyLost,
         VerifyError, VerifyPick, VerifyBundleNotExist, VerifyNoBlobs,
         VerifyBlobsNotFound, VerifyEmptyBundle, VerifySealedOnChain,
         VerifyNotSealed, VerifyIntegrity, VerifyBlockWithoutBlobs,
         VerifyBlock, VerifySeal, VerifyDeprecate, VerifyMakeDir,
         VerifyCreateBundle, VerifyUpload, VerifyRemoveDir,
         VerifyMarkFinalized, chainVars, VerifyNotRecorded
    <3> QED
      BY <3>1, <3>2
  <2> QED
    BY <2>1
<1>3. CASE HubService
  BY <1>3 DEF HubService, ServiceNext, ServiceStep, ServiceDamage, ServiceLoss,
     chainVars
<1>4. CASE HubChain
  BY <1>4 DEF HubChain, ChainStep, ChainNext, NewHead, Finalize, Reorg, Tick
<1> QED
  BY <1>1, <1>2, <1>3, <1>4 DEF HubNext

LEMMA HubStepIsArchiveStep ==
    ASSUME HubInv, [HubNext]_hubVars, ~CommitAckMayBeLost, ~StartLoweredEarly
    PROVE  [ArchiveStep]_archiveVars
<1>1. CASE HubNext
  BY <1>1, TablesGrow, HistoryGrows DEF ArchiveStep
<1>2. CASE UNCHANGED hubVars
  BY <1>2 DEF hubVars, vars, archiveVars
<1> QED
  BY <1>1, <1>2

\* The syncer is an archive as the server needs it.
LEMMA SyncerIsArchive ==
    ASSUME ~CommitAckMayBeLost, ~StartLoweredEarly PROVE HubSpec => ArchiveSpec
<1>1. HubInv => ArchiveOK
  BY HubInvIsArchiveOK
<1>2. HubInv /\ [HubNext]_hubVars => [ArchiveStep]_archiveVars
  BY HubStepIsArchiveStep
<1> QED
  BY <1>1, <1>2, HubInvariant, PTL DEF HubSpec, ArchiveSpec

-----------------------------------------------------------------------------
(* The server's promises *)

\* The rows and blob rows of a recorded slot are those of the chain, while
\* both loops write them and the server reads them: what the server relies on,
\* since it counts nothing and compares nothing.
THEOREM ArchiveIsAsOnChain ==
    ASSUME ~CommitAckMayBeLost, ~StartLoweredEarly
    PROVE  HubServerSpec => []ArchiveAsOnChain
<1>1. HubInv => ArchiveAsOnChain
  BY HubInvIsArchiveOK DEF ArchiveOK
<1> QED
  BY <1>1, TwoProcesses, HubInvariant, PTL

\* The variables of the server keep their types, and its cache holds whole
\* slots only, in the order in which they are evicted.
THEOREM ServerIsTyped ==
    ASSUME ~CommitAckMayBeLost, ~StartLoweredEarly
    PROVE  HubServerSpec => [](ServerTypeOK /\ CacheInOrder)
<1>1. HubInv => DaoTypeOK
  BY HubInvIsArchiveOK DEF ArchiveOK
<1> QED
  BY <1>1, TwoProcesses, HubInvariant, ServerTypes, CacheKeepsOrder, PTL

\* With the syncer running beside it, moving rows to other bundles and being
\* restarted, the server gives all the blobs of a slot, or those that were
\* asked for.
THEOREM ServerAnswersAreRight ==
    ASSUME ~CommitAckMayBeLost, ~StartLoweredEarly
    PROVE  HubServerSpec => [](FullAnswerIsWhole /\ IndexedAnswerIsAsAsked)
BY TwoProcesses, SyncerIsArchive, FullAnswersAreWhole, IndexedAnswersAreAsAsked,
   PTL

-----------------------------------------------------------------------------
(* Verified slots *)

\* Only the service touches a bundle it has, and not once it is sealed.
LEMMA SealedStep ==
    ASSUME HubInv, HubNext
    PROVE  [SealedStays]_svc
<1>1. BundleTypeOK
  BY DEF HubInv, HubTypeOK, TypeOK
<1>2. ASSUME NEW n \in Name, UploadAndFinalizeBundle(n)
      PROVE  [SealedStays]_svc
  BY <1>2 DEF UploadAndFinalizeBundle, BundleExists, Put, SealedStays
<1>3. CASE HubService
  <2>1. CASE ServiceStep
    <3>1. PICK n \in DOMAIN svc : CreateObject(n) \/ SealObject(n) \/ RefreshInfo(n)
      BY <2>1 DEF ServiceStep
    <3>2. /\ DOMAIN svc' = DOMAIN svc
          /\ \A m \in DOMAIN svc : svc'[m].slots = svc[m].slots
          /\ \A m \in DOMAIN svc :
                svc[m].object = "sealed" => svc'[m].object = "sealed"
      <4>1. \A m \in DOMAIN svc :
              svc[m] \in [slots : SUBSET Slots, info : InfoStatus,
                          object : ObjectStatus]
        BY <1>1 DEF BundleTypeOK
      <4> QED
        BY <3>1, <4>1 DEF CreateObject, SealObject, RefreshInfo
    <3> QED
      BY <3>2 DEF SealedStays
  <2>2. CASE ServiceDamage
    <3>1. PICK n \in DOMAIN svc : DamageBundle(n)
      BY <2>2 DEF ServiceDamage
    <3> QED
      BY <3>1 DEF DamageBundle, SealedStays
  <2>3. CASE ServiceLoss
    <3>1. PICK n \in DOMAIN svc : LoseBundle(n)
      BY <2>3 DEF ServiceLoss
    <3> QED
      BY <3>1 DEF LoseBundle, Drop, SealedStays
  <2> QED
    BY <1>3, <2>1, <2>2, <2>3 DEF HubService, ServiceNext
<1>4. CASE HubSync \/ HubCrash
  <2>1. CASE SyncBoot \/ SyncError \/ SyncSaveAckLost \/ SyncCrash
    BY <2>1 DEF SyncBoot, SyncBootFresh, SyncBootSkip, SyncBootResume,
       SyncBootDeprecate, SyncError, SyncSaveAckLost, SyncCrash, bundleVars
  <2>2. CASE SyncUpload \/ SyncUploadReplyLost
    <3>1. UploadAndFinalizeBundle(detail) /\ detail \in Name
      BY <2>2 DEF SyncUpload, SyncUploadReplyLost, HubInv, HubTypeOK, TypeOK,
         SyncTypeOK
    <3> QED
      BY <1>2, <3>1
  <2>3. CASE SyncStep /\ ~SyncUpload
    BY <2>3 DEF SyncStep, SyncFetch, SyncForkedBlock, SyncBlockNotFound,
       SyncNotYet, SyncMakeDir, SyncCreateBundle, SyncWriteBlobs,
       SyncBundleExists, SyncBundleNotExist, SyncNothingToUpload,
       SyncRemoveDir, SyncMarkFinalized, SyncSave, bundleVars
  <2> QED
    BY <1>4, <2>1, <2>2, <2>3 DEF HubSync, HubCrash
<1>5. CASE HubVerify
  <2>1. CASE VerifyUpload \/ VerifyUploadReplyLost
    <3>1. UploadAndFinalizeBundle(vnew) /\ vnew \in Name
      BY <2>1 DEF VerifyUpload, VerifyUploadReplyLost, HubInv, HubTypeOK,
         VerifyTypeOK
    <3> QED
      BY <1>2, <3>1
  <2>2. CASE ~(VerifyUpload \/ VerifyUploadReplyLost)
    BY <1>5, <2>2 DEF HubVerify, VerifyStep, VerifyError, VerifyPick,
       VerifyBundleNotExist, VerifyNoBlobs, VerifyBlobsNotFound,
       VerifyEmptyBundle, VerifySealedOnChain, VerifyNotSealed,
       VerifyIntegrity, VerifyBlockWithoutBlobs, VerifyBlock, VerifySeal,
       VerifyDeprecate, VerifyMakeDir, VerifyCreateBundle, VerifyRewrite,
       VerifyRemoveDir, VerifyMarkFinalized, bundleVars, VerifyNotRecorded
  <2> QED
    BY <2>1, <2>2
<1>6. CASE HubChain
  BY <1>6 DEF HubChain, ChainStep, bundleVars
<1> QED
  BY <1>3, <1>4, <1>5, <1>6 DEF HubNext

\* If the verify loop marks no slot whose blobs are not on Greenfield, no
\* answer about a slot that was read as Verified misses a blob or carries a
\* damaged one: the server adds no race of its own to those of the syncer.
THEOREM VerifiedAnswersFromGreenfield ==
    ASSUME ~CommitAckMayBeLost, ~StartLoweredEarly
    PROVE  HubServerSpec /\ []VerifiedIsInGreenfield => []VerifiedAnswerIsRight
<1>1. HubInv /\ VerifiedIsInGreenfield => VerifiedIsSealed
  BY DEF HubInv, RowsAsOnChain, VerifiedIsInGreenfield, VerifiedIsSealed,
     SealedWith
<1>2. HubInv /\ [HubNext]_hubVars => [SealedStays]_svc
  BY SealedStep DEF hubVars, vars, bundleVars
<1>3. HubSpec /\ []VerifiedIsInGreenfield => SealedSpec
  BY <1>1, <1>2, HubInvariant, PTL DEF HubSpec, SealedSpec
<1> QED
  BY <1>3, TwoProcesses, SyncerIsArchive, VerifiedAnswersAreRight, PTL

\* On BSC, without crashes and with a service that loses no bundle, the
\* archive keeps its promise to the clients: a verified slot is answered with
\* the blobs the chain has there, whatever the loops do at the same time.
THEOREM VerifiedAnswersRightOnBsc ==
    ASSUME Network = "BSC", MaxCrashes = 0, MaxLosses = 0,
           ~CommitAckMayBeLost, ~StartLoweredEarly
    PROVE  HubServerSpec => []VerifiedAnswerIsRight
BY TwoProcesses, VerifiedSlotsAreInGreenfield, VerifiedAnswersFromGreenfield, PTL
=============================================================================
