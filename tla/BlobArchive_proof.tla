--------------------------- MODULE BlobArchive_proof ---------------------------
(***************************************************************************)
(* The sync loop implements the archive of BlobArchive, as long as the     *)
(* nodes do not mislead it (misread stays empty) and the database's errors *)
(* can be believed.                                                        *)
(***************************************************************************)
EXTENDS BlobSyncer_proof

\* The values BlobSyncer gives the variables of BlobArchive.
Recd == DOMAIN blockTbl

WithBlobs == {s \in DOMAIN blockTbl : blockTbl[s].blobs}

Held == UNION {svc[n].slots : n \in DOMAIN svc}

Published ==
    {s \in DOMAIN blockTbl : bundleTbl[blockTbl[s].bundle].status = "finalized"}

\* What is announced is held.
LEMMA PublishedIsHeld ==
    IInv /\ misread = {} => Published \cap WithBlobs \subseteq Held
<1> SUFFICES ASSUME IInv, misread = {}, NEW s \in DOMAIN blockTbl,
                    bundleTbl[blockTbl[s].bundle].status = "finalized",
                    blockTbl[s].blobs
             PROVE  s \in Held
  BY DEF Published, WithBlobs
<1> DEFINE n == blockTbl[s].bundle
<1>1. n \in DOMAIN bundleTbl
  BY DEF IInv, DbInv, BlockInOwnBundle
<1>2. s \in Recorded(n)
  BY DEF Recorded
<1>3. n \in DOMAIN svc
  BY <1>1, <1>2 DEF IInv, Contents, OutIsUploaded
<1>4. s \in svc[n].slots
  BY <1>2, <1>3 DEF IInv, Contents, ServiceHoldsBlobs
<1> QED
  BY <1>3, <1>4 DEF Held

LEMMA PublishedIsHeldNext ==
    ASSUME IInv', misread' = {}
    PROVE  Published' \cap WithBlobs' \subseteq Held'
<1>1. (IInv /\ misread = {} => Published \cap WithBlobs \subseteq Held)'
  BY PublishedIsHeld, PTL
<1> QED
  BY <1>1

-----------------------------------------------------------------------------
(* Each kind of step, in terms of the archive *)

LEMMA SameArchive ==
    ASSUME UNCHANGED <<blockTbl, bundleTbl, svc>>
    PROVE  UNCHANGED <<Recd, WithBlobs, Held, Published>>
BY DEF Recd, WithBlobs, Held, Published

LEMMA SkipIsSilent ==
    ASSUME IInv, SyncBootSkip
    PROVE  UNCHANGED <<Recd, WithBlobs, Held, Published>>
<1>1. PICK s, e : UpdateBlocksStatus(s, e, "skipped")
  BY DEF SyncBootSkip
<1>2. bundleTbl' = bundleTbl /\ svc' = svc
  BY DEF SyncBootSkip, bundleVars
<1>3. /\ DOMAIN blockTbl' = DOMAIN blockTbl
      /\ \A t \in DOMAIN blockTbl :
            /\ blockTbl'[t].bundle = blockTbl[t].bundle
            /\ blockTbl'[t].blobs = blockTbl[t].blobs
  BY <1>1, UpdateBlocksStatusRows DEF IInv, TypeOK
<1> QED
  BY <1>2, <1>3 DEF Recd, WithBlobs, Held, Published

LEMMA DeprecateIsSilent ==
    ASSUME IInv, SyncBootDeprecate
    PROVE  UNCHANGED <<Recd, WithBlobs, Held, Published>>
<1>1. blockTbl' = blockTbl /\ svc' = svc
      /\ UpdateBundleStatus(detail, "deprecated")
  BY DEF SyncBootDeprecate, bundleVars
<1>2. detail \in DOMAIN bundleTbl /\ bundleTbl[detail].status = "finalizing"
  BY DEF SyncBootDeprecate, IInv, LoopInv, DeprecatingPending, Finalizing
<1>3. /\ bundleTbl'[detail].status = "deprecated"
      /\ \A n \in DOMAIN bundleTbl : n # detail => bundleTbl'[n] = bundleTbl[n]
  BY <1>1, <1>2, UpdateBundleStatusRows DEF IInv, TypeOK
<1>4. \A s \in DOMAIN blockTbl : blockTbl[s].bundle \in DOMAIN bundleTbl
  BY DEF IInv, DbInv, BlockInOwnBundle
<1> QED
  BY <1>1, <1>2, <1>3, <1>4 DEF Recd, WithBlobs, Held, Published

LEMMA CreateIsSilent ==
    ASSUME IInv, SyncCreateBundle
    PROVE  UNCHANGED <<Recd, WithBlobs, Held, Published>>
<1>1. blockTbl' = blockTbl /\ svc' = svc /\ CreateBundle(detail, now)
  BY DEF SyncCreateBundle, bundleVars
<1>2. \A n \in DOMAIN bundleTbl : bundleTbl'[n] = bundleTbl[n]
  BY <1>1, CreateBundleRows DEF IInv, TypeOK
<1>3. \A s \in DOMAIN blockTbl : blockTbl[s].bundle \in DOMAIN bundleTbl
  BY DEF IInv, DbInv, BlockInOwnBundle
<1> QED
  BY <1>1, <1>2, <1>3 DEF Recd, WithBlobs, Held, Published

\* A bundle that is uploaded adds its slots to what is held.
LEMMA UploadIsUpload ==
    ASSUME IInv, SyncUpload \/ SyncUploadReplyLost
    PROVE  /\ \E S \in SUBSET Slots : Held' = Held \cup S
           /\ UNCHANGED <<Recd, WithBlobs, Published>>
<1>1. /\ blockTbl' = blockTbl /\ bundleTbl' = bundleTbl
      /\ detail \in DOMAIN tempDir /\ UploadAndFinalizeBundle(detail)
  BY DEF SyncUpload, SyncUploadReplyLost, daoVars
<1>2. UNCHANGED <<Recd, WithBlobs, Published>>
  BY <1>1 DEF Recd, WithBlobs, Published
<1>3. tempDir[detail] \in SUBSET Slots
  BY <1>1 DEF IInv, TypeOK, BundleTypeOK
<1>4. CASE svc' = svc
  <2>1. Held' = Held \cup {}
    BY <1>4 DEF Held
  <2> QED
    BY <1>2, <2>1
<1>5. CASE svc' # svc
  <2>1. /\ svc' = Put(svc, detail, NewBundle(tempDir[detail]))
        /\ detail \notin DOMAIN svc
    BY <1>1, <1>5 DEF UploadAndFinalizeBundle, BundleExists
  <2>2. NewBundle(tempDir[detail]).slots = tempDir[detail]
    BY DEF NewBundle
  <2>3. /\ DOMAIN svc' = DOMAIN svc \cup {detail}
        /\ svc'[detail].slots = tempDir[detail]
        /\ \A n \in DOMAIN svc : svc'[n] = svc[n]
    BY <2>1, <2>2 DEF Put
  <2>4. Held' = Held \cup tempDir[detail]
    BY <2>3 DEF Held
  <2> QED
    BY <1>2, <1>3, <2>4
<1> QED
  BY <1>4, <1>5

\* Marking a bundle publishes the slots recorded in it.
LEMMA MarkIsPublish ==
    ASSUME IInv, IInv', misread' = {}, SyncBundleExists \/ SyncMarkFinalized
    PROVE  /\ \E S \in SUBSET Recd : /\ S \cap WithBlobs \subseteq Held
                                     /\ Published' = Published \cup S
           /\ UNCHANGED <<Recd, WithBlobs, Held>>
<1>1. /\ blockTbl' = blockTbl /\ svc' = svc /\ spc \in Closing
      /\ UpdateBundleStatus(detail, "finalized")
  BY DEF SyncBundleExists, SyncMarkFinalized, bundleVars, Closing
<1>2. UNCHANGED <<Recd, WithBlobs, Held>>
  BY <1>1 DEF Recd, WithBlobs, Held
<1>3. detail \in DOMAIN bundleTbl
  BY <1>1 DEF IInv, LoopInv, CurIsNext
<1>4. /\ bundleTbl'[detail].status = "finalized"
      /\ \A n \in DOMAIN bundleTbl : n # detail => bundleTbl'[n] = bundleTbl[n]
  BY <1>1, <1>3, UpdateBundleStatusRows DEF IInv, TypeOK
<1>5. \A s \in DOMAIN blockTbl : blockTbl[s].bundle \in DOMAIN bundleTbl
  BY DEF IInv, DbInv, BlockInOwnBundle
<1>6. Published \subseteq Published' /\ Published' \subseteq Recd
  BY <1>1, <1>4, <1>5 DEF Published, Recd
<1>7. Published' \cap WithBlobs \subseteq Held
  BY <1>2, PublishedIsHeldNext
<1>8. Published' = Published \cup Published'
  BY <1>6
<1> QED
  BY <1>2, <1>6, <1>7, <1>8

\* Saving a slot records it, and publishes it if its bundle is out.
LEMMA SaveIsRecord ==
    ASSUME IInv, IInv', misread' = {}, SyncSave
    PROVE  /\ cur \in Slots /\ \A r \in Recd : r < cur
           /\ Recd' = Recd \cup {cur}
           /\ WithBlobs' \in {WithBlobs, WithBlobs \cup {cur}}
           /\ \/ Published' = Published
              \/ /\ {cur} \cap WithBlobs' \subseteq Held
                 /\ Published' = Published \cup {cur}
           /\ Held' = Held
<1>1. /\ cur = Nxt /\ cur \notin DOMAIN blockTbl
      /\ DOMAIN blockTbl' = DOMAIN blockTbl \cup {cur}
      /\ blockTbl'[cur].bundle = detail
      /\ blockTbl'[cur].blobs = got
      /\ \A t \in DOMAIN blockTbl : blockTbl'[t] = blockTbl[t]
      /\ bundleTbl' = bundleTbl /\ svc' = svc
  BY SavedRows
<1>2. cur \in Slots /\ got \in BOOLEAN
  BY DEF SyncSave, IInv, TypeOK, SyncTypeOK, Working
<1>3. \A r \in Recd : r < cur
  BY <1>1, Basics DEF Recd
<1>4. Recd' = Recd \cup {cur} /\ Held' = Held
  BY <1>1 DEF Recd, Held
<1>5. WithBlobs' = IF got THEN WithBlobs \cup {cur} ELSE WithBlobs
  BY <1>1, <1>2 DEF WithBlobs
<1>6. CASE bundleTbl[detail].status = "finalized"
  <2>1. Published' = Published \cup {cur}
    BY <1>1, <1>6 DEF Published
  <2>2. Published' \cap WithBlobs' \subseteq Held'
    BY PublishedIsHeldNext
  <2>3. {cur} \cap WithBlobs' \subseteq Held
    BY <1>4, <2>1, <2>2
  <2> QED
    BY <1>2, <1>3, <1>4, <1>5, <2>1, <2>3
<1>7. CASE bundleTbl[detail].status # "finalized"
  <2>1. Published' = Published
    BY <1>1, <1>7 DEF Published
  <2> QED
    BY <1>2, <1>3, <1>4, <1>5, <2>1
<1> QED
  BY <1>6, <1>7

-----------------------------------------------------------------------------
LEMMA ArchiveInitMaps == Init => Archive!ArchiveInit
<1> SUFFICES ASSUME Init PROVE Archive!ArchiveInit
  OBVIOUS
<1>1. DOMAIN blockTbl = {} /\ DOMAIN svc = {}
  BY DEF Init, DaoInit, BundleInit, EmptyTable
<1> QED
  BY <1>1 DEF Archive!ArchiveInit

LEMMA ArchiveStepMaps ==
    ASSUME IInv, IInv', misread' = {}, [Next]_vars,
           ~CommitAckMayBeLost, ~StartLoweredEarly
    PROVE  [Archive!ArchiveNext]_(Archive!archive)
<1> USE DEF Recd, WithBlobs, Held, Published
<1>1. CASE UNCHANGED <<Recd, WithBlobs, Held, Published>>
  BY <1>1 DEF Archive!archive
<1>2. CASE UNCHANGED <<blockTbl, bundleTbl, svc>>
  BY <1>1, <1>2, SameArchive
<1>3. CASE SyncBootSkip \/ SyncBootDeprecate \/ SyncCreateBundle
  BY <1>1, <1>3, SkipIsSilent, DeprecateIsSilent, CreateIsSilent
<1>4. CASE SyncUpload \/ SyncUploadReplyLost
  BY <1>4, UploadIsUpload DEF Archive!ArchiveNext, Archive!Upload
<1>5. CASE SyncBundleExists \/ SyncMarkFinalized
  BY <1>5, MarkIsPublish
  DEF Archive!ArchiveNext, Archive!Publish, Archive!Publishable
<1>6. CASE SyncSave
  BY <1>6, SaveIsRecord
  DEF Archive!ArchiveNext, Archive!Record, Archive!Publishable
<1>7. \/ UNCHANGED <<blockTbl, bundleTbl, svc>>
      \/ SyncBootSkip \/ SyncBootDeprecate \/ SyncCreateBundle
      \/ SyncUpload \/ SyncUploadReplyLost
      \/ SyncBundleExists \/ SyncMarkFinalized \/ SyncSave
  <2>1. CASE SyncBoot
    BY <2>1 DEF SyncBoot, SyncBootFresh, SyncBootResume, daoVars, bundleVars
  <2>2. CASE SyncStep
    BY <2>2 DEF SyncStep, SyncFetch, SyncBlockNotFound, SyncForkedBlock,
       SyncNotYet, SyncMakeDir, SyncWriteBlobs, SyncBundleNotExist,
       SyncNothingToUpload, SyncRemoveDir, daoVars, bundleVars
  <2>3. CASE SyncFault
    BY <2>3 DEF SyncFault, SyncSaveAckLost, SyncError, SyncCrash, daoVars,
       bundleVars
  <2>4. CASE ChainStep \/ UNCHANGED vars
    BY <2>4 DEF ChainStep, vars, daoVars, bundleVars
  <2> QED
    BY <2>1, <2>2, <2>3, <2>4 DEF Next
<1> QED
  BY <1>2, <1>3, <1>4, <1>5, <1>6, <1>7

\* The loop implements the archive: slots are recorded once and in order, and
\* a slot is announced as published only when the service holds its blobs -
\* in every behaviour in which no answer the loop uses misstates a slot.
THEOREM LoopImplementsArchive ==
    ASSUME ~CommitAckMayBeLost, ~StartLoweredEarly
    PROVE  Spec /\ [](misread = {}) => ImplementsArchive
<1>1. Init => Archive!ArchiveInit
  BY ArchiveInitMaps
<1>2. IInv /\ IInv' /\ (misread = {})' /\ [Next]_vars
        => [Archive!ArchiveNext]_(Archive!archive)
  BY ArchiveStepMaps
<1>3. Spec => []IInv
  BY SyncInvariant
<1> QED
  BY <1>1, <1>2, <1>3, PTL DEF Spec, ImplementsArchive, Archive!ArchiveSpec
=============================================================================
