---------------------------- MODULE BlobSyncer_proof ----------------------------
(***************************************************************************)
(* Theorems about the sync loop, for every number of slots, every chain,   *)
(* every configuration and any number of crashes, reorganisations and      *)
(* failing calls.  The one assumption is that the database does not report *)
(* a committed transaction as failed.                                      *)
(***************************************************************************)
EXTENDS BlobSyncerInv, FiniteSetTheorems, TLAPS

-----------------------------------------------------------------------------
(* What the operations of BlobDao do to the tables: types are kept, and      *)
(* which rows change                                                         *)

LEMMA PutFacts ==
    ASSUME NEW f, NEW k, NEW v
    PROVE  /\ DOMAIN Put(f, k, v) = DOMAIN f \cup {k}
           /\ Put(f, k, v)[k] = v
           /\ \A x \in DOMAIN f : x # k => Put(f, k, v)[x] = f[x]
BY DEF Put

LEMMA PutType ==
    ASSUME NEW T, NEW f, f \in [DOMAIN f -> T], NEW k, NEW v \in T
    PROVE  Put(f, k, v) \in [DOMAIN Put(f, k, v) -> T]
BY DEF Put

LEMMA DropFacts ==
    ASSUME NEW f, NEW k
    PROVE  /\ DOMAIN Drop(f, k) = DOMAIN f \ {k}
           /\ \A x \in DOMAIN f : x # k => Drop(f, k)[x] = f[x]
BY DEF Drop

LEMMA DropType ==
    ASSUME NEW T, NEW f, f \in [DOMAIN f -> T], NEW k
    PROVE  Drop(f, k) \in [DOMAIN Drop(f, k) -> T]
BY DEF Drop

-----------------------------------------------------------------------------
LEMMA InitDaoType == DaoInit => DaoTypeOK
<1> SUFFICES ASSUME DaoInit PROVE DaoTypeOK
  OBVIOUS
<1>1. DOMAIN blockTbl = {} /\ DOMAIN bundleTbl = {}
  BY DEF DaoInit, EmptyTable
<1>2. IsFiniteSet(DOMAIN bundleTbl)
  BY <1>1, FS_EmptySet
<1> QED
  BY <1>1, <1>2 DEF DaoInit, DaoTypeOK, EmptyTable

LEMMA SaveBlockAndBlobType ==
    ASSUME DaoTypeOK, NEW s \in Slots, NEW n \in Name, NEW blobs \in BOOLEAN,
           SaveBlockAndBlob(s, n, blobs), UNCHANGED bundleTbl
    PROVE  DaoTypeOK'
<1> DEFINE row == [status |-> "processed", bundle |-> n, blobs |-> blobs]
           Row == [status : BlockStatus, bundle : Name, blobs : BOOLEAN]
<1>1. row \in Row
  BY DEF BlockStatus
<1>2. blockTbl' = Put(blockTbl, s, row) /\ blobTbl' \subseteq Slots
  BY DEF SaveBlockAndBlob, ToBlock, DaoTypeOK
<1>3. blockTbl \in [DOMAIN blockTbl -> Row] /\ DOMAIN blockTbl \subseteq Slots
  BY DEF DaoTypeOK
<1> HIDE DEF row, Row
<1>4. blockTbl' \in [DOMAIN blockTbl' -> Row]
  BY <1>1, <1>2, <1>3, PutType
<1>5. DOMAIN blockTbl' \subseteq Slots
  <2>1. DOMAIN Put(blockTbl, s, row) = DOMAIN blockTbl \cup {s}
    BY PutFacts
  <2> QED
    BY <1>2, <1>3, <2>1
<1> QED
  BY <1>2, <1>4, <1>5 DEF DaoTypeOK, Row

LEMMA SaveBlockAndBlobRows ==
    ASSUME DaoTypeOK, NEW s, NEW n, NEW blobs, SaveBlockAndBlob(s, n, blobs)
    PROVE  /\ DOMAIN blockTbl' = DOMAIN blockTbl \cup {s}
           /\ blockTbl'[s].status = "processed"
           /\ blockTbl'[s].bundle = n
           /\ blockTbl'[s].blobs = blobs
           /\ \A t \in DOMAIN blockTbl : t # s => blockTbl'[t] = blockTbl[t]
<1> DEFINE row == [status |-> "processed", bundle |-> n, blobs |-> blobs]
<1>1. blockTbl' = Put(blockTbl, s, row)
  BY DEF SaveBlockAndBlob, ToBlock
<1>2. row.status = "processed" /\ row.bundle = n /\ row.blobs = blobs
  OBVIOUS
<1> HIDE DEF row
<1>3. /\ DOMAIN Put(blockTbl, s, row) = DOMAIN blockTbl \cup {s}
      /\ Put(blockTbl, s, row)[s] = row
      /\ \A t \in DOMAIN blockTbl : t # s => Put(blockTbl, s, row)[t] = blockTbl[t]
  BY DEF Put
<1> QED
  BY <1>1, <1>2, <1>3

LEMMA UpdateBlocksStatusRows ==
    ASSUME DaoTypeOK, NEW s, NEW e, NEW st, UpdateBlocksStatus(s, e, st)
    PROVE  /\ DOMAIN blockTbl' = DOMAIN blockTbl
           /\ \A b \in DOMAIN blockTbl :
                /\ blockTbl'[b].bundle = blockTbl[b].bundle
                /\ blockTbl'[b].blobs = blockTbl[b].blobs
                /\ blockTbl'[b].status =
                    IF s <= b /\ b <= e THEN st ELSE blockTbl[b].status
<1>1. \A b \in DOMAIN blockTbl :
        blockTbl[b] \in [status : BlockStatus, bundle : Name, blobs : BOOLEAN]
  BY DEF DaoTypeOK
<1> QED
  BY <1>1 DEF UpdateBlocksStatus, BlocksWithStatus

LEMMA UpdateBlocksStatusType ==
    ASSUME DaoTypeOK, NEW s, NEW e, NEW st \in BlockStatus,
           UpdateBlocksStatus(s, e, st), UNCHANGED <<blobTbl, bundleTbl>>
    PROVE  DaoTypeOK'
BY DEF DaoTypeOK, UpdateBlocksStatus, BlocksWithStatus

LEMMA UpdateBundleStatusRows ==
    ASSUME DaoTypeOK, NEW n, NEW st, UpdateBundleStatus(n, st)
    PROVE  /\ DOMAIN bundleTbl' = DOMAIN bundleTbl
           /\ n \in DOMAIN bundleTbl => bundleTbl'[n].status = st
           /\ \A m \in DOMAIN bundleTbl : m # n => bundleTbl'[m] = bundleTbl[m]
<1>1. \A m \in DOMAIN bundleTbl :
        bundleTbl[m] \in [id : Nat, status : BundleStatus, created : Nat]
  BY DEF DaoTypeOK
<1> QED
  BY <1>1 DEF UpdateBundleStatus

LEMMA UpdateBundleStatusType ==
    ASSUME DaoTypeOK, NEW n, NEW st \in BundleStatus,
           UpdateBundleStatus(n, st), UNCHANGED <<blockTbl, blobTbl>>
    PROVE  DaoTypeOK'
<1>1. DOMAIN bundleTbl' = DOMAIN bundleTbl
  BY DEF UpdateBundleStatus
<1>2. bundleTbl' \in
        [DOMAIN bundleTbl -> [id : Nat, status : BundleStatus, created : Nat]]
  BY DEF DaoTypeOK, UpdateBundleStatus
<1> QED
  BY <1>1, <1>2 DEF DaoTypeOK

LEMMA CreateBundleRows ==
    ASSUME DaoTypeOK, NEW n, NEW t, CreateBundle(n, t)
    PROVE  /\ DOMAIN bundleTbl' = DOMAIN bundleTbl \cup {n}
           /\ n \notin DOMAIN bundleTbl => bundleTbl'[n].status = "finalizing"
           /\ \A m \in DOMAIN bundleTbl : bundleTbl'[m] = bundleTbl[m]
<1> DEFINE row == [id |-> Cardinality(DOMAIN bundleTbl) + 1,
                   status |-> "finalizing", created |-> t]
<1>1. CASE n \in DOMAIN bundleTbl
  BY <1>1 DEF CreateBundle
<1>2. CASE n \notin DOMAIN bundleTbl
  <2>1. bundleTbl' = Put(bundleTbl, n, row)
    BY <1>2 DEF CreateBundle
  <2>2. row.status = "finalizing"
    OBVIOUS
  <2> HIDE DEF row
  <2>3. /\ DOMAIN Put(bundleTbl, n, row) = DOMAIN bundleTbl \cup {n}
        /\ Put(bundleTbl, n, row)[n] = row
        /\ \A m \in DOMAIN bundleTbl :
            m # n => Put(bundleTbl, n, row)[m] = bundleTbl[m]
    BY DEF Put
  <2> QED
    BY <1>2, <2>1, <2>2, <2>3
<1> QED
  BY <1>1, <1>2

LEMMA CreateBundleType ==
    ASSUME DaoTypeOK, NEW n \in Name, NEW t \in Nat, CreateBundle(n, t),
           UNCHANGED <<blockTbl, blobTbl>>
    PROVE  DaoTypeOK'
<1> DEFINE row == [id |-> Cardinality(DOMAIN bundleTbl) + 1,
                   status |-> "finalizing", created |-> t]
           Row == [id : Nat, status : BundleStatus, created : Nat]
<1>1. CASE n \in DOMAIN bundleTbl
  BY <1>1 DEF CreateBundle, DaoTypeOK
<1>2. CASE n \notin DOMAIN bundleTbl
  <2>1. Cardinality(DOMAIN bundleTbl) \in Nat
    BY FS_CardinalityType DEF DaoTypeOK
  <2>2. row \in Row
    BY <2>1 DEF BundleStatus
  <2>3. bundleTbl' = Put(bundleTbl, n, row)
    BY <1>2 DEF CreateBundle
  <2>4. bundleTbl \in [DOMAIN bundleTbl -> Row]
    BY DEF DaoTypeOK
  <2> HIDE DEF row, Row
  <2>5. bundleTbl' \in [DOMAIN bundleTbl' -> Row]
    BY <2>2, <2>3, <2>4, PutType
  <2>6. DOMAIN bundleTbl' = DOMAIN bundleTbl \cup {n}
    BY <2>3, PutFacts
  <2>7. IsFiniteSet(DOMAIN bundleTbl \cup {n})
    BY FS_AddElement DEF DaoTypeOK
  <2> QED
    BY <2>5, <2>6, <2>7 DEF DaoTypeOK, Row
<1> QED
  BY <1>1, <1>2

-----------------------------------------------------------------------------
(* The next slot *)

LEMMA LatestRow ==
    ASSUME TypeOK, HasLatest
    PROVE  /\ GetLatestProcessedBlock \in 0 .. MaxSlot
           /\ \A s \in DOMAIN blockTbl : s <= GetLatestProcessedBlock
           /\ DOMAIN blockTbl # {} => GetLatestProcessedBlock \in DOMAIN blockTbl
<1>1. CASE DOMAIN blockTbl = {}
  BY <1>1, MaxSlotAssumption DEF GetLatestProcessedBlock
<1>2. CASE DOMAIN blockTbl # {}
  <2>1. PICK s \in DOMAIN blockTbl : \A t \in DOMAIN blockTbl : t <= s
    BY <1>2 DEF HasLatest
  <2>2. /\ GetLatestProcessedBlock \in DOMAIN blockTbl
        /\ \A t \in DOMAIN blockTbl : t <= GetLatestProcessedBlock
    BY <1>2, <2>1 DEF GetLatestProcessedBlock
  <2> QED
    BY <1>2, <2>2, MaxSlotAssumption DEF TypeOK, DaoTypeOK, Slots
<1> QED
  BY <1>1, <1>2

\* The next slot is the configured start or lies behind a recorded one, and
\* behind all of them.
LEMMA NextSlot ==
    ASSUME TypeOK, HasLatest
    PROVE  /\ Nxt \in Nat /\ 1 <= Nxt /\ cfg.start <= Nxt
           /\ \A s \in DOMAIN blockTbl : s < Nxt
           /\ Nxt = cfg.start \/ \E s \in DOMAIN blockTbl : Nxt = s + 1
<1>1. cfg.start \in Nat \ {0}
  BY SyncerAssumption DEF TypeOK, SyncTypeOK, Config
<1>2. DOMAIN blockTbl \subseteq Slots
  BY DEF TypeOK, DaoTypeOK
<1>3. /\ GetLatestProcessedBlock \in 0 .. MaxSlot
      /\ \A s \in DOMAIN blockTbl : s <= GetLatestProcessedBlock
      /\ DOMAIN blockTbl # {} => GetLatestProcessedBlock \in DOMAIN blockTbl
  BY LatestRow
<1>4. DOMAIN blockTbl = {} => GetLatestProcessedBlock = 0
  BY DEF GetLatestProcessedBlock
<1>5. \A s \in DOMAIN blockTbl : s \in Nat \ {0}
  BY <1>2, MaxSlotAssumption DEF Slots
<1>6. GetLatestProcessedBlock \in Nat
  BY <1>3, MaxSlotAssumption
<1>7. CASE cfg.start <= GetLatestProcessedBlock
  <2>1. Nxt = GetLatestProcessedBlock + 1
    BY <1>7 DEF Nxt, GetNextBlockNumOrSlot
  <2>2. DOMAIN blockTbl # {}
    BY <1>1, <1>4, <1>6, <1>7
  <2> QED
    BY <2>1, <2>2, <1>1, <1>3, <1>5, <1>6, <1>7
<1>8. CASE ~(cfg.start <= GetLatestProcessedBlock)
  <2>1. Nxt = cfg.start
    BY <1>8 DEF Nxt, GetNextBlockNumOrSlot
  <2> QED
    BY <2>1, <1>1, <1>3, <1>5, <1>6, <1>8
<1> QED
  BY <1>7, <1>8

\* It depends on which slots are recorded, not on what is.
LEMMA NextSlotFrame ==
    ASSUME DOMAIN blockTbl' = DOMAIN blockTbl, cfg' = cfg
    PROVE  Nxt' = Nxt
BY DEF Nxt, GetNextBlockNumOrSlot, GetLatestProcessedBlock

-----------------------------------------------------------------------------
(* The bundles of LoadProgressAndResume *)

LEMMA PendingBundle ==
    ASSUME TypeOK, PendingIsDetail, Finalizing # {}
    PROVE  /\ GetLatestFinalizingBundle \in Finalizing
           /\ Finalizing = {GetLatestFinalizingBundle}
           /\ GetLatestFinalizingBundle \in Name
<1>1. PICK n \in Finalizing : TRUE
  OBVIOUS
<1>2. Finalizing = {n}
  BY <1>1 DEF PendingIsDetail
<1>3. n \in DOMAIN bundleTbl /\ n \in Name
  BY <1>1 DEF Finalizing, TypeOK, DaoTypeOK
<1>4. bundleTbl[n].id \in Nat
  BY <1>3 DEF TypeOK, DaoTypeOK
<1>5. GetLatestFinalizingBundle = n
  BY <1>2, <1>4 DEF GetLatestFinalizingBundle
<1> QED
  BY <1>2, <1>3, <1>5

LEMMA BundleFromFacts ==
    ASSUME TypeOK, NEW s \in Nat
    PROVE  /\ BundleFrom(s) \in Name
           /\ BundleFrom(s).start = s
           /\ BundleFrom(s).end \in Nat
           /\ s <= BundleFrom(s).end
           /\ BundleFrom(s).cal = 0
<1>1. cfg.interval \in Nat \ {0}
  BY SyncerAssumption DEF TypeOK, SyncTypeOK, Config
<1>2. s + cfg.interval - 1 \in Nat /\ s <= s + cfg.interval - 1
  BY <1>1
<1> QED
  BY <1>2 DEF BundleFrom, GetBundleName, Name

-----------------------------------------------------------------------------
(* Types *)

LEMMA NoBundleType == NoBundle \in Name
BY DEF NoBundle, GetBundleName, Name

LEMMA TypeInit == Init => TypeOK
<1> SUFFICES ASSUME Init PROVE TypeOK
  OBVIOUS
<1>1. DaoTypeOK
  BY InitDaoType DEF Init
<1>2. ChainTypeOK
  BY ChainAssumption DEF Init, ChainInit, ChainTypeOK
<1>3. BundleTypeOK
  BY DEF Init, BundleInit, BundleTypeOK, EmptyTable
<1>4. SyncTypeOK
  <2>1. 0 \in 0 .. MaxCrashes
    BY SyncerAssumption
  <2> QED
    BY <2>1, NoBundleType DEF Init, SyncInit, SyncTypeOK, SyncPC, Working
<1> QED
  BY <1>1, <1>2, <1>3, <1>4 DEF TypeOK

LEMMA ChainTypeStep == ASSUME TypeOK, ChainNext PROVE ChainTypeOK'
<1>1. /\ canon \in Chains /\ head \in 0 .. MaxSlot + 1 /\ finalized \in 0 .. head
      /\ reorgs \in 0 .. MaxReorgs /\ glitches \in 0 .. MaxGlitches
      /\ misread \subseteq Slots /\ now \in 1 .. MaxNow
  BY DEF TypeOK, ChainTypeOK
<1>2. MaxSlot \in Nat /\ FinalityLag \in Nat
  BY MaxSlotAssumption, ChainAssumption
<1>3. CASE NewHead
  BY <1>1, <1>2, <1>3 DEF NewHead, ChainTypeOK
<1>4. CASE Finalize
  BY <1>1, <1>2, <1>4 DEF Finalize, ChainTypeOK
<1>5. CASE Reorg
  <2>1. canon' \in Chains /\ misread' \subseteq Slots
    BY <1>1, <1>5 DEF Reorg
  <2>2. reorgs' \in 0 .. MaxReorgs
    BY <1>1, <1>5, ChainAssumption DEF Reorg
  <2> QED
    BY <1>1, <1>5, <2>1, <2>2 DEF Reorg, ChainTypeOK
<1>6. CASE Tick
  BY <1>1, <1>6, ChainAssumption DEF Tick, ChainTypeOK
<1> QED
  BY <1>3, <1>4, <1>5, <1>6 DEF ChainNext

\* What the types of a step's results rest on.  It is less than the invariant,
\* and true of the sync loop also beside a verify loop.
Sane == TypeOK /\ HasLatest /\ PendingIsDetail /\ (spc = "head" => cur = Nxt)

LEMMA IInvIsSane == IInv => Sane
BY DEF IInv, DbInv, LoopInv, CurIsNext, Sane

\* The parts of the type invariant, one lemma each, over all the steps.
LEMMA DaoTypeStep == ASSUME Sane, Next PROVE DaoTypeOK'
<1>1. /\ DaoTypeOK /\ TypeOK /\ PendingIsDetail
      /\ detail \in Name /\ got \in BOOLEAN /\ now \in Nat
      /\ spc \in Working => cur \in Slots
  BY DEF Sane, TypeOK, SyncTypeOK, ChainTypeOK
<1>2. CASE SyncBootSkip
  <2>1. PICK s, e : UpdateBlocksStatus(s, e, "skipped")
    BY <1>2 DEF SyncBootSkip
  <2> QED
    BY <1>1, <1>2, <2>1, UpdateBlocksStatusType DEF SyncBootSkip, BlockStatus
<1>3. CASE SyncBootDeprecate
  BY <1>1, <1>3, UpdateBundleStatusType DEF SyncBootDeprecate, BundleStatus
<1>4. CASE SyncCreateBundle
  BY <1>1, <1>4, CreateBundleType DEF SyncCreateBundle
<1>5. CASE SyncBundleExists
  BY <1>1, <1>5, UpdateBundleStatusType DEF SyncBundleExists, BundleStatus
<1>6. CASE SyncMarkFinalized
  BY <1>1, <1>6, UpdateBundleStatusType DEF SyncMarkFinalized, BundleStatus
<1>7. CASE SyncSave \/ SyncSaveAckLost
  BY <1>1, <1>7, SaveBlockAndBlobType DEF SyncSave, SyncSaveAckLost, Working
<1>8. CASE UNCHANGED daoVars
  BY <1>1, <1>8 DEF daoVars, DaoTypeOK
<1>9. \/ SyncBootSkip \/ SyncBootDeprecate \/ SyncCreateBundle
      \/ SyncBundleExists \/ SyncMarkFinalized \/ SyncSave
      \/ SyncSaveAckLost \/ UNCHANGED daoVars
  <2>1. CASE SyncBoot
    BY <2>1 DEF SyncBoot, SyncBootFresh, SyncBootResume
  <2>2. CASE SyncStep
    BY <2>2 DEF SyncStep, SyncFetch, SyncBlockNotFound, SyncForkedBlock,
       SyncNotYet, SyncMakeDir, SyncWriteBlobs, SyncBundleNotExist, SyncUpload,
       SyncNothingToUpload, SyncRemoveDir
  <2>3. CASE SyncFault
    BY <2>3 DEF SyncFault, SyncUploadReplyLost, SyncError, SyncCrash
  <2>4. CASE ChainStep
    BY <2>4 DEF ChainStep
  <2> QED
    BY <2>1, <2>2, <2>3, <2>4 DEF Next
<1> QED
  BY <1>2, <1>3, <1>4, <1>5, <1>6, <1>7, <1>8, <1>9

LEMMA BundleTypeStep == ASSUME TypeOK, Next PROVE BundleTypeOK'
<1> DEFINE Rec == [slots : SUBSET Slots, info : InfoStatus,
                   object : ObjectStatus]
<1>1. /\ tempDir \in [DOMAIN tempDir -> SUBSET Slots]
      /\ DOMAIN tempDir \subseteq Name
      /\ svc \in [DOMAIN svc -> Rec] /\ DOMAIN svc \subseteq Name
      /\ detail \in Name /\ (spc \in Working => cur \in Slots)
  BY DEF TypeOK, BundleTypeOK, SyncTypeOK
<1>2. CASE SyncMakeDir
  <2>1. CASE detail \in DOMAIN tempDir
    BY <1>1, <1>2, <2>1 DEF SyncMakeDir, MakeBundleDir, BundleTypeOK
  <2>2. CASE detail \notin DOMAIN tempDir
    <3>1. tempDir' = Put(tempDir, detail, {})
      BY <1>2, <2>2 DEF SyncMakeDir, MakeBundleDir
    <3>2. DOMAIN tempDir' = DOMAIN tempDir \cup {detail}
      BY <3>1, PutFacts
    <3>3. tempDir' \in [DOMAIN tempDir' -> SUBSET Slots]
      BY <1>1, <3>1, PutType
    <3> QED
      BY <1>1, <1>2, <3>2, <3>3 DEF SyncMakeDir, BundleTypeOK
  <2> QED
    BY <2>1, <2>2
<1>3. CASE SyncWriteBlobs
  <2>1. cur \in Slots
    BY <1>1, <1>3 DEF SyncWriteBlobs, Working
  <2>2. \/ tempDir' = tempDir
        \/ /\ detail \in DOMAIN tempDir
           /\ tempDir' = [tempDir EXCEPT ![detail] = @ \cup {cur}]
    BY <1>3 DEF SyncWriteBlobs, WriteBlobToFile
  <2> QED
    BY <1>1, <1>3, <2>1, <2>2 DEF SyncWriteBlobs, BundleTypeOK
<1>4. ASSUME detail \in DOMAIN tempDir, UploadAndFinalizeBundle(detail),
             UNCHANGED tempDir
      PROVE  BundleTypeOK'
  <2>1. CASE svc' = svc
    BY <1>1, <1>4, <2>1 DEF BundleTypeOK
  <2>2. CASE svc' # svc
    <3>1. svc' = Put(svc, detail, NewBundle(tempDir[detail]))
      BY <1>4, <2>2 DEF UploadAndFinalizeBundle
    <3>2. NewBundle(tempDir[detail]) \in Rec
      BY <1>1, <1>4 DEF NewBundle, InfoStatus, ObjectStatus
    <3>3. DOMAIN svc' = DOMAIN svc \cup {detail}
      BY <3>1, PutFacts
    <3> HIDE DEF Rec
    <3>4. svc' \in [DOMAIN svc' -> Rec]
      BY <1>1, <3>1, <3>2, PutType
    <3> QED
      BY <1>1, <1>4, <3>3, <3>4 DEF BundleTypeOK, Rec
  <2> QED
    BY <2>1, <2>2
<1>5. CASE SyncUpload
  BY <1>4, <1>5 DEF SyncUpload
<1>6. CASE SyncUploadReplyLost
  BY <1>4, <1>6 DEF SyncUploadReplyLost
<1>7. CASE SyncRemoveDir
  <2>1. DOMAIN tempDir' = DOMAIN tempDir \ {detail}
    BY <1>7, DropFacts DEF SyncRemoveDir, RemoveBundleDir
  <2>2. tempDir' \in [DOMAIN tempDir' -> SUBSET Slots]
    BY <1>1, <1>7, DropType DEF SyncRemoveDir, RemoveBundleDir
  <2> QED
    BY <1>1, <1>7, <2>1, <2>2 DEF SyncRemoveDir, BundleTypeOK
<1>8. CASE SyncCrash
  <2>1. svc' = svc /\ (tempDir' = tempDir \/ tempDir' = EmptyTable)
    BY <1>8 DEF SyncCrash
  <2> QED
    BY <1>1, <2>1 DEF BundleTypeOK, EmptyTable
<1>9. CASE UNCHANGED bundleVars
  BY <1>1, <1>9 DEF bundleVars, BundleTypeOK
<1>10. \/ SyncMakeDir \/ SyncWriteBlobs \/ SyncUpload \/ SyncUploadReplyLost
       \/ SyncRemoveDir \/ SyncCrash \/ UNCHANGED bundleVars
  <2>1. CASE SyncBoot
    BY <2>1 DEF SyncBoot, SyncBootFresh, SyncBootResume, SyncBootSkip,
       SyncBootDeprecate
  <2>2. CASE SyncStep
    BY <2>2 DEF SyncStep, SyncFetch, SyncBlockNotFound, SyncForkedBlock,
       SyncNotYet, SyncCreateBundle, SyncBundleExists, SyncBundleNotExist,
       SyncNothingToUpload, SyncMarkFinalized, SyncSave
  <2>3. CASE SyncFault
    BY <2>3 DEF SyncFault, SyncSaveAckLost, SyncError
  <2>4. CASE ChainStep
    BY <2>4 DEF ChainStep
  <2> QED
    BY <2>1, <2>2, <2>3, <2>4 DEF Next
<1> QED
  BY <1>2, <1>3, <1>5, <1>6, <1>7, <1>8, <1>9, <1>10

\* What the two steps that decide about a slot know of it.
LEMMA FetchedIsSlot == ASSUME Sane, SyncFetch PROVE cur' \in Slots
<1>1. /\ cur' \in Nat /\ 1 <= cur' /\ finalized \in 0 .. head
      /\ head \in 0 .. MaxSlot + 1
  BY NextSlot DEF Sane, SyncFetch, Nxt, TypeOK, ChainTypeOK
<1>2. MaxSlot \in Nat /\ Network \in {"ETH", "BSC"}
  BY MaxSlotAssumption, ChainAssumption
<1>3. CASE Network = "BSC"
  <2>1. cur' < finalized
    BY <1>3 DEF SyncFetch, GetFinalizedBlockNum
  <2> QED
    BY <1>1, <1>2, <2>1 DEF Slots
<1>4. CASE Network # "BSC"
  <2>1. cur' <= finalized /\ ~BlockNotFound(cur')
    BY <1>4 DEF SyncFetch, BlockFinalized
  <2> QED
    BY <1>1, <1>2, <2>1 DEF BlockNotFound, Slots
<1> QED
  BY <1>3, <1>4

LEMMA ForkedIsSlot == ASSUME Sane, SyncForkedBlock PROVE cur \in Slots
<1>1. cur \in Nat /\ 1 <= cur /\ head \in 0 .. MaxSlot + 1
  BY NextSlot DEF Sane, SyncForkedBlock, TypeOK, ChainTypeOK
<1>2. PICK t \in cur + 1 .. head : TRUE
  BY DEF SyncForkedBlock, BeforeLatestBeaconBlock
<1> QED
  BY <1>1, <1>2, MaxSlotAssumption DEF Slots

LEMMA ChainTypeOKStep == ASSUME Sane, Next PROVE ChainTypeOK'
<1>1. TypeOK /\ ChainTypeOK
  BY DEF Sane, TypeOK
<1>2. CASE SyncFetch
  <2>1. cur' \in Slots
    BY <1>2, FetchedIsSlot
  <2>2. misread' \subseteq Slots
    BY <1>1, <1>2, <2>1 DEF SyncFetch, Misread, ChainTypeOK
  <2>3. glitches' \in 0 .. MaxGlitches
    BY <1>1, <1>2, ChainAssumption DEF SyncFetch, GetBlob, ChainTypeOK
  <2> QED
    BY <1>1, <1>2, <2>2, <2>3 DEF SyncFetch, ChainTypeOK
<1>3. CASE SyncForkedBlock
  <2>1. misread' \subseteq Slots
    BY <1>1, <1>3, ForkedIsSlot DEF SyncForkedBlock, Misread, ChainTypeOK
  <2> QED
    BY <1>1, <1>3, <2>1 DEF SyncForkedBlock, ChainTypeOK
<1>4. CASE ChainStep
  BY <1>1, <1>4, ChainTypeStep DEF ChainStep
<1>5. CASE UNCHANGED chainVars
  BY <1>1, <1>5 DEF chainVars, ChainTypeOK
<1>6. SyncFetch \/ SyncForkedBlock \/ ChainStep \/ UNCHANGED chainVars
  <2>1. CASE SyncBoot
    BY <2>1 DEF SyncBoot, SyncBootFresh, SyncBootResume, SyncBootSkip,
       SyncBootDeprecate
  <2>2. CASE SyncStep
    BY <2>2 DEF SyncStep, SyncBlockNotFound, SyncNotYet, SyncMakeDir,
       SyncCreateBundle, SyncWriteBlobs, SyncBundleExists, SyncBundleNotExist,
       SyncUpload, SyncNothingToUpload, SyncRemoveDir, SyncMarkFinalized,
       SyncSave
  <2>3. CASE SyncFault
    BY <2>3 DEF SyncFault, SyncUploadReplyLost, SyncSaveAckLost, SyncError,
       SyncCrash
  <2> QED
    BY <2>1, <2>2, <2>3 DEF Next
<1> QED
  BY <1>2, <1>3, <1>4, <1>5, <1>6

LEMMA SyncTypeStep == ASSUME Sane, Next PROVE SyncTypeOK'
<1>1. /\ TypeOK /\ PendingIsDetail /\ HasLatest
      /\ spc \in SyncPC /\ detail \in Name /\ cur \in Nat
      /\ (spc \in Working => cur \in Slots)
      /\ got \in BOOLEAN /\ cfg \in Config /\ crashes \in 0 .. MaxCrashes
  BY DEF Sane, TypeOK, SyncTypeOK
<1>2. Nxt \in Nat /\ \A s \in Nat : BundleFrom(s) \in Name
  BY <1>1, NextSlot, BundleFromFacts
<1>3. \A s \in Slots : s \in Nat /\ s + 1 \in Nat
  BY MaxSlotAssumption DEF Slots
<1> DEFINE Same == cfg' = cfg /\ crashes' = crashes
\* The loop's place and what it works on.
<1>4. CASE SyncBoot
  <2>1. spc' \in {"fetch", "deprecate"} /\ cur' = cur /\ got' = got /\ Same
    BY <1>4 DEF SyncBoot, SyncBootFresh, SyncBootResume, SyncBootSkip,
       SyncBootDeprecate
  <2>2. detail' \in Name
    <3>1. CASE SyncBootFresh \/ SyncBootDeprecate
      BY <1>2, <3>1 DEF SyncBootFresh, SyncBootDeprecate, Nxt
    <3>2. CASE SyncBootResume \/ SyncBootSkip
      BY <1>1, <3>2, PendingBundle DEF SyncBootResume, SyncBootSkip
    <3> QED
      BY <1>4, <3>1, <3>2 DEF SyncBoot
  <2> QED
    BY <1>1, <2>1, <2>2 DEF SyncTypeOK, SyncPC, Working
<1>5. CASE SyncFetch
  <2>1. cur' \in Slots /\ got' \in BOOLEAN
    BY <1>5, FetchedIsSlot DEF SyncFetch, GetBlob, HasBlobs
  <2> QED
    BY <1>1, <1>3, <1>5, <2>1 DEF SyncFetch, SyncTypeOK, SyncPC
<1>6. CASE SyncBlockNotFound
  BY <1>1, <1>2, <1>6 DEF SyncBlockNotFound, SyncTypeOK, SyncPC, Working, Nxt
<1>7. CASE SyncForkedBlock
  BY <1>1, <1>7, ForkedIsSlot DEF SyncForkedBlock, SyncTypeOK, SyncPC
<1>8. CASE SyncSave
  <2>1. detail' \in Name
    BY <1>1, <1>2, <1>3, <1>8 DEF SyncSave, Working
  <2> QED
    BY <1>1, <1>8, <2>1 DEF SyncSave, Return, SyncTypeOK, SyncPC, Working
<1>9. CASE SyncCrash
  <2>1. cfg' \in Config /\ crashes' \in 0 .. MaxCrashes
    BY <1>1, <1>9, SyncerAssumption DEF SyncCrash
  <2> QED
    BY <1>9, <2>1, NoBundleType DEF SyncCrash, SyncTypeOK, SyncPC, Working
<1>10. CASE Return /\ Same /\ detail' = detail
  BY <1>1, <1>10 DEF Return, SyncTypeOK, SyncPC, Working
<1>11. CASE /\ spc \in Working /\ spc' \in Working
            /\ cur' = cur /\ got' = got /\ Same /\ detail' = detail
  BY <1>1, <1>11 DEF SyncTypeOK, SyncPC, Working
<1>12. CASE UNCHANGED syncVars
  BY <1>1, <1>12 DEF syncVars, SyncTypeOK
<1> QED
  <2>1. CASE SyncStep
    BY <2>1, <1>5, <1>6, <1>7, <1>8, <1>10, <1>11 DEF SyncStep, SyncNotYet,
       SyncMakeDir, SyncCreateBundle, SyncWriteBlobs, SyncBundleExists,
       SyncBundleNotExist, SyncUpload, SyncNothingToUpload, SyncRemoveDir,
       SyncMarkFinalized, Working
  <2>2. CASE SyncFault
    BY <2>2, <1>9, <1>10 DEF SyncFault, SyncUploadReplyLost, SyncSaveAckLost,
       SyncError
  <2>3. CASE ChainStep
    BY <2>3, <1>12 DEF ChainStep
  <2> QED
    BY <1>4, <2>1, <2>2, <2>3 DEF Next

LEMMA TypeStep == ASSUME Sane, Next PROVE TypeOK'
<1>1. TypeOK
  BY DEF Sane
<1> QED
  BY <1>1, DaoTypeStep, ChainTypeOKStep, BundleTypeStep, SyncTypeStep DEF TypeOK

-----------------------------------------------------------------------------
(* The next slot after a step *)

\* The facts about slots and bundles the steps below use, in one place.
LEMMA Basics ==
    ASSUME IInv
    PROVE  /\ Nxt \in Nat /\ 1 <= Nxt /\ cfg.start <= Nxt /\ cfg.start \in Nat
           /\ \A s \in DOMAIN blockTbl : s \in Nat /\ s < Nxt
           /\ \A n \in DOMAIN bundleTbl : n \in Name /\ n.start \in Nat /\ n.end \in Nat
           /\ detail.start \in Nat /\ detail.end \in Nat
           /\ Finalizing \subseteq DOMAIN bundleTbl
<1>1. /\ Nxt \in Nat /\ 1 <= Nxt /\ cfg.start <= Nxt
      /\ \A s \in DOMAIN blockTbl : s < Nxt
  BY NextSlot DEF IInv, DbInv
<1>2. cfg.start \in Nat
  BY SyncerAssumption DEF IInv, TypeOK, SyncTypeOK, Config
<1>3. \A s \in DOMAIN blockTbl : s \in Nat
  BY MaxSlotAssumption DEF IInv, TypeOK, DaoTypeOK, Slots
<1>4. /\ \A n \in Name : n.start \in Nat /\ n.end \in Nat
      /\ DOMAIN bundleTbl \subseteq Name /\ detail \in Name
  BY DEF Name, IInv, TypeOK, DaoTypeOK, SyncTypeOK
<1> QED
  BY <1>1, <1>2, <1>3, <1>4 DEF Finalizing

\* Recording the next slot makes the one after it the next.
LEMMA NextAfterSave ==
    ASSUME IInv, DOMAIN blockTbl' = DOMAIN blockTbl \cup {Nxt}, cfg' = cfg
    PROVE  Nxt' = Nxt + 1
<1>1. /\ Nxt \in Nat /\ cfg.start <= Nxt
      /\ \A s \in DOMAIN blockTbl : s \in Nat /\ s < Nxt
  BY Basics
<1>2. \A t \in DOMAIN blockTbl' : t \in Nat /\ t <= Nxt
  BY <1>1
<1>3. GetLatestProcessedBlock' = Nxt
  <2>1. /\ Nxt \in DOMAIN blockTbl'
        /\ \A s \in DOMAIN blockTbl' :
            (\A t \in DOMAIN blockTbl' : t <= s) => s = Nxt
    BY <1>1, <1>2
  <2>2. Nxt = CHOOSE s \in DOMAIN blockTbl' : \A t \in DOMAIN blockTbl' : t <= s
    BY <1>2, <2>1
  <2> QED
    BY <2>1, <2>2 DEF GetLatestProcessedBlock
<1>4. Nxt' = IF cfg'.start <= GetLatestProcessedBlock'
             THEN GetLatestProcessedBlock' + 1 ELSE cfg'.start
  BY DEF Nxt, GetNextBlockNumOrSlot
<1> HIDE DEF Nxt
<1> QED
  BY <1>1, <1>3, <1>4

\* A restart does not move it back.
LEMMA NextAfterCrash ==
    ASSUME IInv, SyncCrash, ~StartLoweredEarly
    PROVE  Nxt' \in Nat /\ Nxt <= Nxt'
<1>1. GetLatestProcessedBlock' = GetLatestProcessedBlock
  BY DEF SyncCrash, daoVars, GetLatestProcessedBlock
<1>2. GetLatestProcessedBlock \in 0 .. MaxSlot
  BY LatestRow DEF IInv, DbInv
<1>3. /\ cfg.start \in Nat /\ cfg'.start \in Nat
      /\ cfg.start <= cfg'.start \/ cfg.start <= GetLatestProcessedBlock
  BY SyncerAssumption DEF SyncCrash, IInv, TypeOK, SyncTypeOK, Config
<1> QED
  BY <1>1, <1>2, <1>3, MaxSlotAssumption DEF Nxt, GetNextBlockNumOrSlot

-----------------------------------------------------------------------------
(* The bundle a loop without a pending one turns to *)

\* The bundle that starts at the next slot is the last one.
LEMMA FreshBundle ==
    TypeOK /\ DbInv /\ Finalizing = {} =>
        LET d == BundleFrom(Nxt)
        IN  /\ d.cal = 0 /\ 1 <= d.start /\ d.start <= Nxt /\ Nxt <= d.end
            /\ Nxt = d.start
            /\ d \in DOMAIN bundleTbl => bundleTbl[d].status # "deprecated"
            /\ OthersBefore(d)
            /\ RowsFromBelong(d)
<1> SUFFICES ASSUME TypeOK, DbInv, Finalizing = {}
             PROVE  LET d == BundleFrom(Nxt)
                    IN  /\ d.cal = 0 /\ 1 <= d.start
                        /\ d.start <= Nxt /\ Nxt <= d.end
                        /\ Nxt = d.start
                        /\ d \in DOMAIN bundleTbl =>
                            bundleTbl[d].status # "deprecated"
                        /\ OthersBefore(d)
                        /\ RowsFromBelong(d)
  OBVIOUS
<1> DEFINE d == BundleFrom(Nxt)
<1>1. /\ Nxt \in Nat /\ 1 <= Nxt /\ cfg.start <= Nxt
      /\ \A s \in DOMAIN blockTbl : s < Nxt
  BY NextSlot DEF DbInv
<1>2. /\ d.start = Nxt /\ d.end \in Nat /\ Nxt <= d.end /\ d.cal = 0
  BY <1>1, BundleFromFacts
<1>3. /\ cfg.start \in Nat /\ \A s \in DOMAIN blockTbl : s \in Nat
  BY MaxSlotAssumption, SyncerAssumption
  DEF TypeOK, DaoTypeOK, SyncTypeOK, Slots, Config
<1>4. \A n \in DOMAIN bundleTbl : n.end \in Nat
  BY DEF TypeOK, DaoTypeOK, Name
<1>5. \A n \in DOMAIN bundleTbl :
        /\ n.end <= Nxt
        /\ bundleTbl[n].status = "deprecated" => n.end < Nxt
  BY DEF DbInv, PlainBundles, BundlesBehindNext, Finalizing
<1> HIDE DEF d
<1>6. d \in DOMAIN bundleTbl => bundleTbl[d].status # "deprecated"
  BY <1>1, <1>2, <1>3, <1>5
<1>7. OthersBefore(d)
  BY <1>2, <1>5 DEF OthersBefore
<1>8. RowsFromBelong(d)
  BY <1>1, <1>2, <1>3 DEF RowsFromBelong
<1> QED
  BY <1>1, <1>2, <1>6, <1>7, <1>8 DEF d

\* The same after a step.
LEMMA FreshBundleNext ==
    ASSUME TypeOK', DbInv', (Finalizing = {})'
    PROVE  LET d == BundleFrom(Nxt)'
           IN  /\ d.cal = 0 /\ 1 <= d.start /\ d.start <= Nxt' /\ Nxt' <= d.end
               /\ Nxt' = d.start
               /\ d \in DOMAIN bundleTbl' => bundleTbl'[d].status # "deprecated"
               /\ \A m \in DOMAIN bundleTbl' : m # d => m.end <= d.start
               /\ \A s \in DOMAIN blockTbl' : d.start <= s => blockTbl'[s].bundle = d
<1>1. (TypeOK /\ DbInv /\ Finalizing = {} =>
        LET d == BundleFrom(Nxt)
        IN  /\ d.cal = 0 /\ 1 <= d.start /\ d.start <= Nxt /\ Nxt <= d.end
            /\ Nxt = d.start
            /\ d \in DOMAIN bundleTbl => bundleTbl[d].status # "deprecated"
            /\ OthersBefore(d)
            /\ RowsFromBelong(d))'
  BY FreshBundle, PTL
<1> QED
  BY <1>1 DEF OthersBefore, RowsFromBelong

-----------------------------------------------------------------------------
(* The database invariant, one lemma per way the tables or the             *)
(* configuration change                                                    *)

LEMMA DbFrame ==
    ASSUME DbInv, UNCHANGED <<daoVars, cfg>>
    PROVE  DbInv'
<1>1. Nxt' = Nxt
  BY NextSlotFrame DEF daoVars
<1>2. Finalizing' = Finalizing
  BY DEF Finalizing, daoVars
<1>3. HasLatest' /\ PlainBundles' /\ BundlesBehindNext'
  BY <1>1 DEF DbInv, HasLatest, PlainBundles, BundlesBehindNext, daoVars
<1>4. PendingIsLast'
  BY <1>2 DEF DbInv, PendingIsLast, OthersBefore, RowsFromBelong, daoVars
<1>5. /\ BlockInOwnBundle' /\ CompleteBundleIsOut' /\ BundlesMeetAtOneSlot'
      /\ SkippedWithItsBundle'
  BY <1>1 DEF DbInv, BlockInOwnBundle, CompleteBundleIsOut,
     BundlesMeetAtOneSlot, SkippedWithItsBundle, MovedBeyond, Nxt, daoVars
<1> QED
  BY <1>3, <1>4, <1>5 DEF DbInv

\* The last slot of the bundle LoadProgressAndResume gives up is not recorded:
\* otherwise it would be out.
LEMMA SkippedBundle ==
    ASSUME IInv, SyncBootSkip
    PROVE  /\ GetLatestFinalizingBundle \in Finalizing
           /\ MovedBeyond(GetLatestFinalizingBundle)
<1> DEFINE n == GetLatestFinalizingBundle
<1>1. n \in Finalizing /\ n.end < Nxt
  <2>1. n \in Finalizing /\ n \in Name
    BY PendingBundle DEF SyncBootSkip, IInv, LoopInv
  <2> QED
    BY <2>1, Basics DEF SyncBootSkip, Nxt, Name
<1> HIDE DEF n
<1>2. /\ n \in DOMAIN bundleTbl /\ bundleTbl[n].status = "finalizing"
      /\ n.start \in Nat /\ n.end \in Nat /\ n.start <= n.end
  BY <1>1, Basics DEF Finalizing, IInv, DbInv, PlainBundles
<1>3. ASSUME n.end \in DOMAIN blockTbl PROVE FALSE
  <2>1. blockTbl[n.end].bundle = n
    BY <1>1, <1>2, <1>3 DEF IInv, DbInv, PendingIsLast, RowsFromBelong
  <2> QED
    BY <1>2, <1>3, <2>1 DEF IInv, DbInv, CompleteBundleIsOut
<1> QED
  BY <1>1, <1>3 DEF n, MovedBeyond, Nxt

LEMMA BootSkipDb == ASSUME IInv, SyncBootSkip PROVE DbInv'
<1> DEFINE n0 == GetLatestFinalizingBundle
<1>1. n0 \in Finalizing /\ MovedBeyond(n0)
  BY SkippedBundle
<1>2. UpdateBlocksStatus(n0.start, n0.end, "skipped")
      /\ bundleTbl' = bundleTbl /\ cfg' = cfg
  BY DEF SyncBootSkip
<1> HIDE DEF n0
<1>3. /\ DOMAIN blockTbl' = DOMAIN blockTbl
      /\ \A b \in DOMAIN blockTbl :
            /\ blockTbl'[b].bundle = blockTbl[b].bundle
            /\ blockTbl'[b].status =
                IF n0.start <= b /\ b <= n0.end THEN "skipped"
                ELSE blockTbl[b].status
  BY <1>2, UpdateBlocksStatusRows DEF IInv, TypeOK
<1>4. Nxt' = Nxt
  BY <1>2, <1>3, NextSlotFrame
<1>5. Finalizing' = Finalizing
  BY <1>2 DEF Finalizing
<1>6. HasLatest'
  BY <1>3 DEF IInv, DbInv, HasLatest
<1>7. PlainBundles' /\ BundlesBehindNext' /\ BundlesMeetAtOneSlot'
  BY <1>2, <1>4 DEF IInv, DbInv, PlainBundles, BundlesBehindNext,
     BundlesMeetAtOneSlot
<1>8. PendingIsLast'
  BY <1>2, <1>3, <1>5 DEF IInv, DbInv, PendingIsLast, OthersBefore, RowsFromBelong
<1>9. BlockInOwnBundle' /\ CompleteBundleIsOut'
  BY <1>2, <1>3 DEF IInv, DbInv, BlockInOwnBundle, CompleteBundleIsOut
<1>10. SkippedWithItsBundle'
  <2> SUFFICES ASSUME NEW s \in DOMAIN blockTbl
               PROVE  /\ bundleTbl[blockTbl[s].bundle].status = "deprecated" =>
                            blockTbl'[s].status = "skipped"
                      /\ blockTbl'[s].status = "skipped" =>
                            /\ MovedBeyond(blockTbl[s].bundle)
                            /\ bundleTbl[blockTbl[s].bundle].status # "finalized"
    BY <1>2, <1>3, <1>4 DEF SkippedWithItsBundle, MovedBeyond, Nxt
  <2>1. CASE n0.start <= s /\ s <= n0.end
    <3>1. blockTbl[s].bundle = n0
      BY <1>1, <2>1 DEF IInv, DbInv, PendingIsLast, RowsFromBelong
    <3> QED
      BY <1>1, <1>3, <2>1, <3>1 DEF Finalizing
  <2>2. CASE ~(n0.start <= s /\ s <= n0.end)
    BY <1>3, <2>2 DEF IInv, DbInv, SkippedWithItsBundle
  <2> QED
    BY <2>1, <2>2
<1> QED
  BY <1>6, <1>7, <1>8, <1>9, <1>10 DEF DbInv

LEMMA BootDeprecateDb == ASSUME IInv, SyncBootDeprecate PROVE DbInv'
<1>1. /\ detail \in Finalizing /\ MovedBeyond(detail)
      /\ \A s \in DOMAIN blockTbl :
            blockTbl[s].bundle = detail => blockTbl[s].status = "skipped"
  BY DEF SyncBootDeprecate, IInv, LoopInv, DeprecatingPending
<1>2. /\ UpdateBundleStatus(detail, "deprecated")
      /\ blockTbl' = blockTbl /\ cfg' = cfg
  BY DEF SyncBootDeprecate
<1>3. /\ DOMAIN bundleTbl' = DOMAIN bundleTbl
      /\ bundleTbl'[detail].status = "deprecated"
      /\ \A m \in DOMAIN bundleTbl : m # detail => bundleTbl'[m] = bundleTbl[m]
  BY <1>1, <1>2, UpdateBundleStatusRows DEF IInv, TypeOK, Finalizing
<1>4. Nxt' = Nxt
  BY <1>2, NextSlotFrame
<1>5. Finalizing' \subseteq Finalizing
  BY <1>3 DEF Finalizing
<1>6. HasLatest'
  BY <1>2 DEF IInv, DbInv, HasLatest
<1>7. PlainBundles' /\ BundlesMeetAtOneSlot'
  BY <1>3 DEF IInv, DbInv, PlainBundles, BundlesMeetAtOneSlot
<1>8. BundlesBehindNext'
  <2>1. detail.end < Nxt /\ detail.end <= Nxt
    BY <1>1, Basics DEF MovedBeyond, Nxt
  <2> QED
    BY <1>1, <1>3, <1>4, <2>1 DEF IInv, DbInv, BundlesBehindNext
<1>9. PendingIsLast'
  BY <1>2, <1>3, <1>5 DEF IInv, DbInv, PendingIsLast, OthersBefore, RowsFromBelong
<1>10. BlockInOwnBundle' /\ CompleteBundleIsOut'
  BY <1>2, <1>3 DEF IInv, DbInv, BlockInOwnBundle, CompleteBundleIsOut
<1>11. SkippedWithItsBundle'
  BY <1>1, <1>2, <1>3, <1>4
  DEF IInv, DbInv, BlockInOwnBundle, SkippedWithItsBundle, MovedBeyond, Nxt
<1> QED
  BY <1>6, <1>7, <1>8, <1>9, <1>10, <1>11 DEF DbInv

LEMMA CreateBundleDb == ASSUME IInv, SyncCreateBundle PROVE DbInv'
<1>1. /\ detail.cal = 0 /\ 1 <= detail.start /\ detail.start <= Nxt
      /\ Nxt <= detail.end /\ OthersBefore(detail) /\ RowsFromBelong(detail)
      /\ \A n \in Finalizing : n = detail
  BY DEF IInv, LoopInv, DetailIsLast, PendingIsDetail, Running, SyncCreateBundle
<1>2. CreateBundle(detail, now) /\ blockTbl' = blockTbl /\ cfg' = cfg
  BY DEF SyncCreateBundle
<1>3. /\ DOMAIN bundleTbl' = DOMAIN bundleTbl \cup {detail}
      /\ detail \notin DOMAIN bundleTbl => bundleTbl'[detail].status = "finalizing"
      /\ \A m \in DOMAIN bundleTbl : bundleTbl'[m] = bundleTbl[m]
  BY <1>2, CreateBundleRows DEF IInv, TypeOK
<1>4. Nxt' = Nxt
  BY <1>2, NextSlotFrame
<1>5. \A n \in Finalizing' : n = detail
  BY <1>1, <1>3 DEF Finalizing
<1>6. HasLatest'
  BY <1>2 DEF IInv, DbInv, HasLatest
<1>7. PlainBundles' /\ BundlesBehindNext'
  <2>1. detail.start \in Nat /\ detail.end \in Nat /\ Nxt \in Nat
    BY Basics
  <2>2. detail.start <= detail.end
    BY <1>1, <2>1
  <2> QED
    BY <1>1, <1>2, <1>3, <1>4, <2>2
    DEF IInv, DbInv, PlainBundles, BundlesBehindNext
<1>8. PendingIsLast'
  BY <1>1, <1>2, <1>3, <1>5 DEF PendingIsLast, OthersBefore, RowsFromBelong
<1>9. BlockInOwnBundle' /\ CompleteBundleIsOut' /\ SkippedWithItsBundle'
  BY <1>2, <1>3, <1>4 DEF IInv, DbInv, BlockInOwnBundle, CompleteBundleIsOut,
     SkippedWithItsBundle, MovedBeyond, Nxt
<1>10. BundlesMeetAtOneSlot'
  BY <1>1, <1>3 DEF IInv, DbInv, BundlesMeetAtOneSlot, OthersBefore
<1> QED
  BY <1>6, <1>7, <1>8, <1>9, <1>10 DEF DbInv

\* Finalised at its last slot, the next one to record.
LEMMA MarkFinalizedDb ==
    ASSUME IInv, spc \in Closing, UpdateBundleStatus(detail, "finalized"),
           UNCHANGED <<blockTbl, cfg>>
    PROVE  DbInv'
<1>1. /\ detail \in DOMAIN bundleTbl /\ detail.end = Nxt
      /\ bundleTbl[detail].status # "deprecated"
  BY DEF IInv, LoopInv, CurIsNext, DetailIsLast, Running, Closing, Working
<1>2. /\ DOMAIN bundleTbl' = DOMAIN bundleTbl
      /\ bundleTbl'[detail].status = "finalized"
      /\ \A m \in DOMAIN bundleTbl : m # detail => bundleTbl'[m] = bundleTbl[m]
  BY <1>1, UpdateBundleStatusRows DEF IInv, TypeOK
<1>3. Nxt' = Nxt
  BY NextSlotFrame
<1>4. Finalizing' \subseteq Finalizing
  BY <1>2 DEF Finalizing
<1>5. HasLatest'
  BY DEF IInv, DbInv, HasLatest
<1>6. PlainBundles' /\ BundlesMeetAtOneSlot'
  BY <1>2 DEF IInv, DbInv, PlainBundles, BundlesMeetAtOneSlot
<1>7. BundlesBehindNext'
  <2>1. detail.end <= Nxt
    BY <1>1, Basics
  <2> QED
    BY <1>2, <1>3, <2>1 DEF IInv, DbInv, BundlesBehindNext
<1>8. PendingIsLast'
  BY <1>2, <1>4 DEF IInv, DbInv, PendingIsLast, OthersBefore, RowsFromBelong
<1>9. BlockInOwnBundle' /\ CompleteBundleIsOut'
  BY <1>2 DEF IInv, DbInv, BlockInOwnBundle, CompleteBundleIsOut
<1>10. SkippedWithItsBundle'
  <2>1. ~MovedBeyond(detail)
    BY <1>1, Basics DEF MovedBeyond, Nxt
  <2>2. \A n : MovedBeyond(n)' <=> MovedBeyond(n)
    BY <1>3 DEF MovedBeyond, Nxt
  <2> QED
    BY <1>2, <2>1, <2>2 DEF IInv, DbInv, BlockInOwnBundle, SkippedWithItsBundle
<1> QED
  BY <1>5, <1>6, <1>7, <1>8, <1>9, <1>10 DEF DbInv

\* What SyncSave does to the rows.
LEMMA SavedRows ==
    ASSUME IInv, SyncSave
    PROVE  /\ cur = Nxt /\ Nxt' = Nxt + 1
           /\ cur \notin DOMAIN blockTbl
           /\ DOMAIN blockTbl' = DOMAIN blockTbl \cup {cur}
           /\ blockTbl'[cur].status = "processed"
           /\ blockTbl'[cur].bundle = detail
           /\ blockTbl'[cur].blobs = got
           /\ \A t \in DOMAIN blockTbl : blockTbl'[t] = blockTbl[t]
           /\ UNCHANGED <<bundleTbl, cfg, tempDir, svc, chainVars>>
<1>1. cur = Nxt
  BY DEF IInv, LoopInv, CurIsNext, SyncSave, Working
<1>2. cur \notin DOMAIN blockTbl
  BY <1>1, Basics
<1>3. /\ SaveBlockAndBlob(cur, detail, got)
      /\ UNCHANGED <<bundleTbl, cfg, tempDir, svc, chainVars>>
  BY DEF SyncSave, bundleVars
<1>4. /\ DOMAIN blockTbl' = DOMAIN blockTbl \cup {cur}
      /\ blockTbl'[cur].status = "processed"
      /\ blockTbl'[cur].bundle = detail
      /\ blockTbl'[cur].blobs = got
      /\ \A t \in DOMAIN blockTbl : t # cur => blockTbl'[t] = blockTbl[t]
  BY <1>3, SaveBlockAndBlobRows DEF IInv, TypeOK
<1>5. Nxt' = Nxt + 1
  BY <1>1, <1>3, <1>4, NextAfterSave
<1> QED
  BY <1>1, <1>2, <1>3, <1>4, <1>5

LEMMA SaveDb == ASSUME IInv, SyncSave PROVE DbInv'
<1>1. /\ cur = Nxt /\ Nxt' = Nxt + 1
      /\ cur \notin DOMAIN blockTbl
      /\ DOMAIN blockTbl' = DOMAIN blockTbl \cup {cur}
      /\ blockTbl'[cur].status = "processed"
      /\ blockTbl'[cur].bundle = detail
      /\ \A t \in DOMAIN blockTbl : blockTbl'[t] = blockTbl[t]
      /\ UNCHANGED <<bundleTbl, cfg>>
  BY SavedRows
<1>2. /\ detail \in DOMAIN bundleTbl
      /\ bundleTbl[detail].status # "deprecated"
      /\ detail.start <= Nxt /\ Nxt <= detail.end
      /\ cur = detail.end => bundleTbl[detail].status = "finalized"
      /\ \A n \in Finalizing : n = detail
      /\ OthersBefore(detail) /\ RowsFromBelong(detail)
  BY DEF IInv, LoopInv, CurIsNext, DetailIsLast, PendingIsDetail, Running,
     SyncSave
<1>3. /\ Nxt \in Nat /\ \A s \in DOMAIN blockTbl : s \in Nat /\ s < Nxt
      /\ detail.start \in Nat /\ detail.end \in Nat
  BY Basics
<1> HIDE DEF Nxt
<1>4. HasLatest'
  <2>1. \A t \in DOMAIN blockTbl' : t <= cur
    BY <1>1, <1>3
  <2> QED
    BY <1>1, <2>1 DEF HasLatest
<1>5. PlainBundles' /\ BundlesMeetAtOneSlot'
  BY <1>1 DEF IInv, DbInv, PlainBundles, BundlesMeetAtOneSlot
<1>6. BundlesBehindNext'
  <2>1. \A x \in Nat : x <= Nxt => x <= Nxt'
    BY <1>1, <1>3
  <2> QED
    BY <1>1, <2>1, Basics DEF IInv, DbInv, BundlesBehindNext
<1>7. PendingIsLast'
  <2>1. Finalizing' = Finalizing
    BY <1>1 DEF Finalizing
  <2> QED
    BY <1>1, <1>2, <2>1 DEF PendingIsLast, OthersBefore, RowsFromBelong
<1>8. BlockInOwnBundle'
  <2>1. cur \in SlotsOf(detail)
    BY <1>1, <1>2, <1>3 DEF SlotsOf
  <2> QED
    BY <1>1, <1>2, <2>1 DEF IInv, DbInv, BlockInOwnBundle
<1>9. CompleteBundleIsOut' /\ SkippedWithItsBundle'
  <2>1. \A n \in DOMAIN bundleTbl : MovedBeyond(n) => MovedBeyond(n)'
    <3> TAKE n \in DOMAIN bundleTbl
    <3>1. n.end \in Nat
      BY Basics
    <3> QED
      BY <1>1, <1>3, <3>1 DEF MovedBeyond, Nxt
  <2>2. \A s \in DOMAIN blockTbl : blockTbl[s].bundle \in DOMAIN bundleTbl
    BY DEF IInv, DbInv, BlockInOwnBundle
  <2> QED
    BY <1>1, <1>2, <2>1, <2>2
    DEF IInv, DbInv, CompleteBundleIsOut, SkippedWithItsBundle
<1> QED
  BY <1>4, <1>5, <1>6, <1>7, <1>8, <1>9 DEF DbInv

LEMMA CrashDb == ASSUME IInv, SyncCrash, ~StartLoweredEarly PROVE DbInv'
<1>1. Nxt' \in Nat /\ Nxt <= Nxt'
  BY NextAfterCrash
<1>2. blockTbl' = blockTbl /\ bundleTbl' = bundleTbl
  BY DEF SyncCrash, daoVars
<1>3. /\ Nxt \in Nat
      /\ \A n \in DOMAIN bundleTbl : n.start \in Nat /\ n.end \in Nat
  BY Basics
<1> HIDE DEF Nxt
<1>4. HasLatest' /\ PlainBundles' /\ BundlesMeetAtOneSlot'
  BY <1>2 DEF IInv, DbInv, HasLatest, PlainBundles, BundlesMeetAtOneSlot
<1>5. BundlesBehindNext'
  <2>1. \A n \in DOMAIN bundleTbl :
            /\ n.start <= Nxt => n.start <= Nxt'
            /\ n.end <= Nxt => n.end <= Nxt'
            /\ n.end < Nxt => n.end < Nxt'
    BY <1>1, <1>3
  <2> QED
    BY <1>2, <2>1 DEF IInv, DbInv, BundlesBehindNext
<1>6. PendingIsLast'
  BY <1>2 DEF IInv, DbInv, PendingIsLast, OthersBefore, RowsFromBelong, Finalizing
<1>7. BlockInOwnBundle' /\ CompleteBundleIsOut'
  BY <1>2 DEF IInv, DbInv, BlockInOwnBundle, CompleteBundleIsOut
<1>8. SkippedWithItsBundle'
  <2>1. \A n \in DOMAIN bundleTbl : MovedBeyond(n) => MovedBeyond(n)'
    BY <1>1, <1>2, <1>3 DEF MovedBeyond, Nxt
  <2> QED
    BY <1>2, <2>1 DEF IInv, DbInv, BlockInOwnBundle, SkippedWithItsBundle
<1> QED
  BY <1>4, <1>5, <1>6, <1>7, <1>8 DEF DbInv

LEMMA DbStep ==
    ASSUME IInv, Next, ~CommitAckMayBeLost, ~StartLoweredEarly PROVE DbInv'
<1>1. CASE SyncBootSkip
  BY <1>1, BootSkipDb
<1>2. CASE SyncBootDeprecate
  BY <1>2, BootDeprecateDb
<1>3. CASE SyncCreateBundle
  BY <1>3, CreateBundleDb
<1>4. CASE SyncBundleExists
  BY <1>4, MarkFinalizedDb DEF SyncBundleExists, Closing
<1>5. CASE SyncMarkFinalized
  BY <1>5, MarkFinalizedDb DEF SyncMarkFinalized, Closing
<1>6. CASE SyncSave
  BY <1>6, SaveDb
<1>7. CASE SyncCrash
  BY <1>7, CrashDb
<1>8. CASE UNCHANGED <<daoVars, cfg>>
  BY <1>8, DbFrame DEF IInv
<1>9. \/ SyncBootSkip \/ SyncBootDeprecate \/ SyncCreateBundle
      \/ SyncBundleExists \/ SyncMarkFinalized \/ SyncSave \/ SyncCrash
      \/ UNCHANGED <<daoVars, cfg>>
  <2>1. CASE SyncBoot
    BY <2>1 DEF SyncBoot, SyncBootFresh, SyncBootResume
  <2>2. CASE SyncStep
    BY <2>2 DEF SyncStep, SyncFetch, SyncBlockNotFound, SyncForkedBlock,
       SyncNotYet, SyncMakeDir, SyncWriteBlobs, SyncBundleNotExist, SyncUpload,
       SyncNothingToUpload, SyncRemoveDir
  <2>3. CASE SyncFault
    BY <2>3 DEF SyncFault, SyncUploadReplyLost, SyncSaveAckLost, SyncError
  <2>4. CASE ChainStep
    BY <2>4 DEF ChainStep, syncVars
  <2> QED
    BY <2>1, <2>2, <2>3, <2>4 DEF Next
<1> QED
  BY <1>1, <1>2, <1>3, <1>4, <1>5, <1>6, <1>7, <1>8, <1>9

-----------------------------------------------------------------------------
(* The loop's invariant *)

\* A running loop that touches neither the database nor its bundle.
LEMMA LoopFrame ==
    ASSUME IInv, Running, Running', UNCHANGED <<daoVars, detail, cfg>>, CurIsNext'
    PROVE  LoopInv'
<1>1. Nxt' = Nxt
  BY NextSlotFrame DEF daoVars
<1>2. Finalizing' = Finalizing
  BY DEF Finalizing, daoVars
<1>3. DetailIsLast'
  BY <1>1 DEF IInv, LoopInv, DetailIsLast, OthersBefore, RowsFromBelong, daoVars
<1>4. DeprecatingPending'
  BY DEF DeprecatingPending, Running
<1>5. PendingIsDetail'
  BY <1>2 DEF IInv, LoopInv, PendingIsDetail, Running
<1> QED
  BY <1>3, <1>4, <1>5 DEF LoopInv

\* sync gives up and will be called again.
LEMMA ReturnLoop ==
    ASSUME IInv, Running, Return, UNCHANGED <<daoVars, detail, cfg>>
    PROVE  LoopInv'
BY LoopFrame DEF Return, Running, CurIsNext, Working, Closing

\* The steps of sync that change neither the database nor the bundle.
LEMMA QuietLoop ==
    ASSUME IInv,
           \/ SyncFetch \/ SyncBlockNotFound \/ SyncForkedBlock \/ SyncMakeDir
           \/ SyncWriteBlobs \/ SyncBundleNotExist \/ SyncUpload \/ SyncRemoveDir
    PROVE  LoopInv'
<1>1. /\ Running /\ Running' /\ UNCHANGED <<daoVars, detail, cfg>>
  BY DEF Running, SyncFetch, SyncBlockNotFound, SyncForkedBlock, SyncMakeDir,
     SyncWriteBlobs, SyncBundleNotExist, SyncUpload, SyncRemoveDir
<1>2. Nxt' = Nxt /\ bundleTbl' = bundleTbl /\ detail' = detail
  BY <1>1, NextSlotFrame DEF daoVars
<1>3. CurIsNext /\ DetailIsLast
  BY DEF IInv, LoopInv
<1> SUFFICES CurIsNext'
  BY <1>1, LoopFrame
<1>4. CASE SyncFetch
  BY <1>2, <1>4 DEF SyncFetch, CurIsNext, Working, Closing, Nxt
<1>5. CASE SyncBlockNotFound
  BY <1>2, <1>3, <1>5 DEF SyncBlockNotFound, CurIsNext, Working, Closing, Nxt
<1>6. CASE SyncForkedBlock
  BY <1>2, <1>3, <1>6 DEF SyncForkedBlock, CurIsNext, Working, Closing
<1>7. CASE SyncMakeDir
  BY <1>2, <1>3, <1>7 DEF SyncMakeDir, CurIsNext, Working, Closing
<1>8. CASE SyncWriteBlobs
  <2>1. detail \in DOMAIN bundleTbl /\ cur = Nxt
    BY <1>1, <1>3, <1>8 DEF SyncWriteBlobs, CurIsNext, DetailIsLast, Working
  <2> QED
    BY <1>2, <1>8, <2>1 DEF SyncWriteBlobs, CurIsNext, Working, Closing
<1>9. CASE SyncBundleNotExist
  BY <1>2, <1>3, <1>9 DEF SyncBundleNotExist, CurIsNext, Working, Closing
<1>10. CASE SyncUpload
  BY <1>2, <1>3, <1>10 DEF SyncUpload, CurIsNext, Working, Closing
<1>11. CASE SyncRemoveDir
  BY <1>2, <1>3, <1>11 DEF SyncRemoveDir, CurIsNext, Working, Closing
<1> QED
  BY <1>4, <1>5, <1>6, <1>7, <1>8, <1>9, <1>10, <1>11

LEMMA BootFreshLoop == ASSUME IInv, SyncBootFresh PROVE LoopInv'
<1> DEFINE d == BundleFrom(Nxt)
<1>1. /\ d.cal = 0 /\ 1 <= d.start /\ d.start <= Nxt /\ Nxt <= d.end
      /\ Nxt = d.start
      /\ d \in DOMAIN bundleTbl => bundleTbl[d].status # "deprecated"
      /\ OthersBefore(d) /\ RowsFromBelong(d)
  BY FreshBundle DEF IInv, SyncBootFresh
<1>2. /\ detail' = d /\ spc = "down" /\ spc' = "fetch" /\ got' = got
      /\ UNCHANGED <<blockTbl, bundleTbl, cfg>> /\ Finalizing = {}
  BY DEF SyncBootFresh, Nxt, daoVars
<1> HIDE DEF d
<1>3. Nxt' = Nxt
  BY <1>2, NextSlotFrame
<1>4. DetailIsLast'
  BY <1>1, <1>2, <1>3 DEF DetailIsLast, OthersBefore, RowsFromBelong
<1>5. CurIsNext'
  BY <1>2 DEF IInv, LoopInv, CurIsNext, Working, Closing
<1>6. PendingIsDetail' /\ DeprecatingPending'
  BY <1>2 DEF PendingIsDetail, DeprecatingPending, Finalizing
<1> QED
  BY <1>4, <1>5, <1>6 DEF LoopInv

LEMMA BootResumeLoop == ASSUME IInv, SyncBootResume PROVE LoopInv'
<1> DEFINE n0 == GetLatestFinalizingBundle
<1>1. n0 \in Finalizing /\ Finalizing = {n0}
  BY PendingBundle DEF SyncBootResume, IInv, LoopInv
<1>2. /\ detail' = n0 /\ spc = "down" /\ spc' = "fetch" /\ got' = got
      /\ UNCHANGED <<blockTbl, bundleTbl, cfg>> /\ Nxt <= n0.end
  BY DEF SyncBootResume, Nxt, daoVars
<1> HIDE DEF n0
<1>3. Nxt' = Nxt /\ Finalizing' = Finalizing
  BY <1>2, NextSlotFrame DEF Finalizing
<1>4. /\ n0 \in DOMAIN bundleTbl /\ bundleTbl[n0].status = "finalizing"
      /\ n0.cal = 0 /\ 1 <= n0.start /\ n0.start <= Nxt
      /\ OthersBefore(n0) /\ RowsFromBelong(n0)
  BY <1>1 DEF IInv, DbInv, PlainBundles, BundlesBehindNext, PendingIsLast,
     Finalizing
<1>5. DetailIsLast'
  BY <1>2, <1>3, <1>4 DEF DetailIsLast, OthersBefore, RowsFromBelong
<1>6. CurIsNext'
  BY <1>2 DEF IInv, LoopInv, CurIsNext, Working, Closing
<1>7. PendingIsDetail' /\ DeprecatingPending'
  BY <1>1, <1>2, <1>3 DEF PendingIsDetail, DeprecatingPending
<1> QED
  BY <1>5, <1>6, <1>7 DEF LoopInv

LEMMA BootSkipLoop == ASSUME IInv, SyncBootSkip PROVE LoopInv'
<1> DEFINE n0 == GetLatestFinalizingBundle
<1>1. n0 \in Finalizing /\ MovedBeyond(n0) /\ Finalizing = {n0}
  BY SkippedBundle, PendingBundle DEF SyncBootSkip, IInv, LoopInv
<1>2. /\ UpdateBlocksStatus(n0.start, n0.end, "skipped")
      /\ detail' = n0 /\ spc = "down" /\ spc' = "deprecate" /\ got' = got
      /\ UNCHANGED <<bundleTbl, cfg>>
  BY DEF SyncBootSkip
<1> HIDE DEF n0
<1>3. /\ DOMAIN blockTbl' = DOMAIN blockTbl
      /\ \A b \in DOMAIN blockTbl :
            /\ blockTbl'[b].bundle = blockTbl[b].bundle
            /\ blockTbl'[b].status =
                IF n0.start <= b /\ b <= n0.end THEN "skipped"
                ELSE blockTbl[b].status
  BY <1>2, UpdateBlocksStatusRows DEF IInv, TypeOK
<1>4. Finalizing' = Finalizing
  BY <1>2 DEF Finalizing
<1>5. DeprecatingPending'
  <2>1. \A s \in DOMAIN blockTbl :
            blockTbl[s].bundle = n0 => n0.start <= s /\ s <= n0.end
    BY DEF IInv, DbInv, BlockInOwnBundle, SlotsOf
  <2>2. Nxt' = Nxt
    BY <1>2, <1>3, NextSlotFrame
  <2>3. MovedBeyond(detail)'
    BY <1>1, <1>2, <1>3, <2>2 DEF MovedBeyond, Nxt
  <2> QED
    BY <1>1, <1>2, <1>3, <1>4, <2>1, <2>3 DEF DeprecatingPending
<1>6. CurIsNext'
  BY <1>2 DEF IInv, LoopInv, CurIsNext, Working, Closing
<1>7. PendingIsDetail' /\ DetailIsLast'
  BY <1>1, <1>2, <1>4 DEF PendingIsDetail, DetailIsLast, Running
<1> QED
  BY <1>5, <1>6, <1>7 DEF LoopInv

LEMMA BootDeprecateLoop ==
    ASSUME IInv, SyncBootDeprecate, TypeOK', DbInv'
    PROVE  LoopInv'
<1>1. /\ detail \in Finalizing /\ \A n \in Finalizing : n = detail
  BY DEF IInv, LoopInv, DeprecatingPending, PendingIsDetail, SyncBootDeprecate
<1>2. /\ UpdateBundleStatus(detail, "deprecated")
      /\ detail' = BundleFrom(Nxt) /\ spc = "deprecate" /\ spc' = "fetch"
      /\ got' = got /\ UNCHANGED <<blockTbl, cfg>>
  BY DEF SyncBootDeprecate, Nxt
<1>3. (Finalizing = {})'
  <2>1. /\ DOMAIN bundleTbl' = DOMAIN bundleTbl
        /\ bundleTbl'[detail].status = "deprecated"
        /\ \A m \in DOMAIN bundleTbl : m # detail => bundleTbl'[m] = bundleTbl[m]
    BY <1>1, <1>2, UpdateBundleStatusRows DEF IInv, TypeOK, Finalizing
  <2> QED
    BY <1>1, <2>1 DEF Finalizing
<1>4. detail' = BundleFrom(Nxt)'
  BY <1>2, NextSlotFrame DEF BundleFrom
<1>5. DetailIsLast'
  BY <1>3, <1>4, FreshBundleNext DEF DetailIsLast, OthersBefore, RowsFromBelong
<1>6. CurIsNext'
  BY <1>2 DEF IInv, LoopInv, CurIsNext, Working, Closing
<1>7. PendingIsDetail' /\ DeprecatingPending'
  BY <1>2, <1>3 DEF PendingIsDetail, DeprecatingPending
<1> QED
  BY <1>5, <1>6, <1>7 DEF LoopInv

LEMMA CreateBundleLoop == ASSUME IInv, SyncCreateBundle PROVE LoopInv'
<1>1. CreateBundle(detail, now)
      /\ spc = "row" /\ spc' = "write" /\ UNCHANGED <<detail, cur, got, cfg, blockTbl>>
  BY DEF SyncCreateBundle
<1>2. /\ DOMAIN bundleTbl' = DOMAIN bundleTbl \cup {detail}
      /\ detail \notin DOMAIN bundleTbl => bundleTbl'[detail].status = "finalizing"
      /\ \A m \in DOMAIN bundleTbl : bundleTbl'[m] = bundleTbl[m]
  BY <1>1, CreateBundleRows DEF IInv, TypeOK
<1>3. Nxt' = Nxt
  BY <1>1, NextSlotFrame
<1>4. DetailIsLast'
  BY <1>1, <1>2, <1>3
  DEF IInv, LoopInv, DetailIsLast, Running, OthersBefore, RowsFromBelong
<1>5. CurIsNext'
  BY <1>1, <1>2, <1>3 DEF IInv, LoopInv, CurIsNext, Working, Closing
<1>6. PendingIsDetail' /\ DeprecatingPending'
  BY <1>1, <1>2 DEF IInv, LoopInv, PendingIsDetail, DeprecatingPending, Finalizing
<1> QED
  BY <1>4, <1>5, <1>6 DEF LoopInv

LEMMA MarkFinalizedLoop ==
    ASSUME IInv, SyncBundleExists \/ SyncMarkFinalized
    PROVE  LoopInv'
<1>1. /\ UpdateBundleStatus(detail, "finalized")
      /\ spc \in Closing /\ spc' = "save"
      /\ UNCHANGED <<detail, cur, got, cfg, blockTbl>>
  BY DEF SyncBundleExists, SyncMarkFinalized, Closing
<1>2. detail \in DOMAIN bundleTbl
  BY <1>1 DEF IInv, LoopInv, CurIsNext
<1>3. /\ DOMAIN bundleTbl' = DOMAIN bundleTbl
      /\ bundleTbl'[detail].status = "finalized"
      /\ \A m \in DOMAIN bundleTbl : m # detail => bundleTbl'[m] = bundleTbl[m]
  BY <1>1, <1>2, UpdateBundleStatusRows DEF IInv, TypeOK
<1>4. Nxt' = Nxt
  BY <1>1, NextSlotFrame
<1>5. DetailIsLast'
  BY <1>1, <1>3, <1>4 DEF IInv, LoopInv, DetailIsLast, Running, OthersBefore,
     RowsFromBelong, Closing
<1>6. CurIsNext'
  BY <1>1, <1>2, <1>3, <1>4 DEF IInv, LoopInv, CurIsNext, Working, Closing
<1>7. PendingIsDetail' /\ DeprecatingPending'
  BY <1>1, <1>3 DEF IInv, LoopInv, PendingIsDetail, DeprecatingPending,
     Finalizing, Closing
<1> QED
  BY <1>5, <1>6, <1>7 DEF LoopInv

LEMMA SaveLoop == ASSUME IInv, SyncSave, TypeOK', DbInv' PROVE LoopInv'
<1>1. /\ cur = Nxt /\ Nxt' = Nxt + 1
      /\ DOMAIN blockTbl' = DOMAIN blockTbl \cup {cur}
      /\ blockTbl'[cur].bundle = detail
      /\ \A t \in DOMAIN blockTbl : blockTbl'[t] = blockTbl[t]
      /\ UNCHANGED <<bundleTbl, cfg>>
  BY SavedRows
<1>2. /\ spc' = "fetch" /\ got' = FALSE
      /\ detail' = IF cur = detail.end THEN BundleFrom(cur + 1) ELSE detail
  BY DEF SyncSave, Return
<1>3. /\ detail \in DOMAIN bundleTbl /\ bundleTbl[detail].status # "deprecated"
      /\ detail.cal = 0 /\ 1 <= detail.start
      /\ detail.start <= Nxt /\ Nxt <= detail.end
      /\ cur = detail.end => bundleTbl[detail].status = "finalized"
      /\ (\A m, n \in Finalizing : m = n) /\ (\A n \in Finalizing : n = detail)
      /\ OthersBefore(detail) /\ RowsFromBelong(detail)
  BY DEF IInv, LoopInv, CurIsNext, DetailIsLast, PendingIsDetail, Running,
     SyncSave
<1>4. Nxt \in Nat /\ detail.start \in Nat /\ detail.end \in Nat
  BY Basics
<1>5. Finalizing' = Finalizing
  BY <1>1 DEF Finalizing
<1> HIDE DEF Nxt
<1>6. DetailIsLast' /\ PendingIsDetail'
  <2>1. CASE cur = detail.end
    <3>1. (Finalizing = {})'
      BY <1>3, <1>5, <2>1 DEF Finalizing
    <3>2. detail' = BundleFrom(Nxt)'
      BY <1>1, <1>2, <2>1 DEF BundleFrom
    <3> QED
      BY <3>1, <3>2, FreshBundleNext
      DEF DetailIsLast, OthersBefore, RowsFromBelong, PendingIsDetail
  <2>2. CASE cur # detail.end
    <3>1. detail' = detail /\ Nxt' <= detail.end /\ detail.start <= Nxt'
      BY <1>1, <1>2, <1>3, <1>4, <2>2
    <3> QED
      BY <1>1, <1>3, <1>5, <3>1
      DEF DetailIsLast, OthersBefore, RowsFromBelong, PendingIsDetail
  <2> QED
    BY <2>1, <2>2
<1>7. CurIsNext' /\ DeprecatingPending'
  BY <1>2 DEF CurIsNext, DeprecatingPending, Working, Closing
<1> QED
  BY <1>6, <1>7 DEF LoopInv

LEMMA CrashLoop == ASSUME IInv, SyncCrash PROVE LoopInv'
BY DEF IInv, LoopInv, SyncCrash, daoVars, DetailIsLast, Running, CurIsNext,
   Working, Closing, DeprecatingPending, PendingIsDetail, Finalizing

LEMMA ChainLoop ==
    ASSUME IInv, UNCHANGED <<daoVars, syncVars>> PROVE LoopInv'
<1>1. Nxt' = Nxt /\ Finalizing' = Finalizing
  BY NextSlotFrame DEF daoVars, syncVars, Finalizing
<1>2. DetailIsLast' /\ CurIsNext'
  BY <1>1 DEF IInv, LoopInv, DetailIsLast, CurIsNext, Running, OthersBefore,
     RowsFromBelong, daoVars, syncVars
<1>3. DeprecatingPending' /\ PendingIsDetail'
  BY <1>1 DEF IInv, LoopInv, DeprecatingPending, PendingIsDetail, MovedBeyond,
     Nxt, daoVars, syncVars
<1> QED
  BY <1>2, <1>3 DEF LoopInv

LEMMA LoopStep ==
    ASSUME IInv, Next, ~CommitAckMayBeLost, ~StartLoweredEarly PROVE LoopInv'
<1>1. TypeOK' /\ DbInv'
  BY IInvIsSane, TypeStep, DbStep
<1>2. CASE SyncBoot
  BY <1>1, <1>2, BootFreshLoop, BootResumeLoop, BootSkipLoop, BootDeprecateLoop
  DEF SyncBoot
<1>3. CASE SyncStep
  <2>1. CASE SyncNotYet \/ SyncNothingToUpload
    BY <2>1, ReturnLoop DEF SyncNotYet, SyncNothingToUpload, Running
  <2> QED
    BY <1>1, <1>3, <2>1, QuietLoop, CreateBundleLoop, MarkFinalizedLoop,
       SaveLoop DEF SyncStep
<1>4. CASE SyncFault
  BY <1>4, ReturnLoop, CrashLoop DEF SyncFault, SyncUploadReplyLost,
     SyncSaveAckLost, SyncError, Running
<1>5. CASE ChainStep
  BY <1>5, ChainLoop DEF ChainStep
<1> QED
  BY <1>2, <1>3, <1>4, <1>5 DEF Next

-----------------------------------------------------------------------------
(* Where the blobs are *)

\* Steps that touch no row, no bundle, no directory and nothing uploaded; what
\* the loop knows of a slot may be given up, more slots may become misread.
LEMMA ContentsFrame ==
    ASSUME IInv, UNCHANGED <<daoVars, bundleVars, cfg, canon>>,
           misread \subseteq misread',
           ReadRight',
           \/ spc' \notin Closing \cup {"save"}
           \/ spc' = spc /\ UNCHANGED <<cur, got, detail>>
    PROVE  Contents'
<1>1. Nxt' = Nxt
  BY NextSlotFrame DEF daoVars
<1>2. Finalizing' = Finalizing /\ \A n : Recorded(n)' \subseteq Recorded(n)
  BY DEF Finalizing, Recorded, daoVars
<1>3. DirHoldsBlobs'
  BY <1>2 DEF IInv, Contents, DirHoldsBlobs, bundleVars, Closing
<1>4. ServiceHoldsBlobs'
  BY <1>1, <1>2 DEF IInv, Contents, ServiceHoldsBlobs, HasBlobs, bundleVars
<1>5. OutIsUploaded'
  BY <1>2 DEF IInv, Contents, OutIsUploaded, daoVars, bundleVars, Closing
<1> QED
  BY <1>3, <1>4, <1>5 DEF Contents

\* Nothing is read in a step that leaves the loop's slot alone or drops it.
LEMMA ReadFrame ==
    ASSUME IInv, UNCHANGED <<blockTbl, canon, misread>>,
           \/ spc' \notin Working
           \/ spc \in Working /\ UNCHANGED <<cur, got>>
    PROVE  ReadRight'
BY DEF IInv, Contents, ReadRight, HasBlobs

LEMMA FetchContents ==
    ASSUME IInv, SyncFetch \/ SyncForkedBlock PROVE Contents'
<1>1. /\ UNCHANGED <<daoVars, bundleVars, cfg, canon>>
      /\ spc' = "process" /\ Misread(cur', got')
  <2>1. CASE SyncFetch
    BY <2>1 DEF SyncFetch
  <2>2. CASE SyncForkedBlock
    BY <2>2 DEF SyncForkedBlock, IInv, LoopInv, CurIsNext, Working
  <2> QED
    BY <2>1, <2>2
<1>2. misread \subseteq misread'
  BY <1>1 DEF Misread
<1>3. ReadRight'
  <2>1. \A s : HasBlobs(s)' = HasBlobs(s)
    BY <1>1 DEF HasBlobs
  <2>2. \A s \in DOMAIN blockTbl' \ misread' : blockTbl'[s].blobs = HasBlobs(s)'
    BY <1>1, <1>2, <2>1 DEF IInv, Contents, ReadRight, daoVars
  <2>3. cur' \notin misread' => got' = HasBlobs(cur')
    BY <1>1 DEF Misread
  <2> QED
    BY <1>1, <2>2, <2>3 DEF ReadRight, HasBlobs
<1> QED
  BY <1>1, <1>2, <1>3, ContentsFrame DEF Closing

LEMMA ReturnContents ==
    ASSUME IInv, Return, UNCHANGED <<daoVars, bundleVars, cfg, chainVars>>
    PROVE  Contents'
<1>1. UNCHANGED <<canon, misread>> /\ spc' = "fetch"
  BY DEF chainVars, Return
<1>2. ReadRight'
  BY <1>1, ReadFrame DEF daoVars, Working
<1> QED
  BY <1>1, <1>2, ContentsFrame DEF Closing

LEMMA ChainContents ==
    ASSUME IInv, ChainNext, UNCHANGED <<daoVars, bundleVars, syncVars>>
    PROVE  Contents'
<1>1. UNCHANGED <<blockTbl, spc, cur, got, detail, cfg>>
  BY DEF daoVars, syncVars
<1>2. CASE Reorg
  <2>1. PICK c \in Chains :
            canon' = c /\ misread' = misread \cup {s \in Slots : c[s] # canon[s]}
    BY <1>2 DEF Reorg
  <2>2. \A s \in Slots \ misread' : HasBlobs(s)' = HasBlobs(s)
    BY <2>1 DEF HasBlobs
  <2>3. misread \subseteq misread'
    BY <2>1
  <2>4. ReadRight'
    <3>1. \A s \in DOMAIN blockTbl' \ misread' :
            blockTbl'[s].blobs = HasBlobs(s)'
      BY <1>1, <2>2, <2>3 DEF IInv, TypeOK, DaoTypeOK, Contents, ReadRight
    <3>2. spc \in Working /\ cur \notin misread' => got = HasBlobs(cur)'
      BY <1>1, <2>2, <2>3 DEF IInv, TypeOK, SyncTypeOK, Contents, ReadRight
    <3> QED
      BY <1>1, <3>1, <3>2 DEF ReadRight, HasBlobs
  <2>5. Nxt' = Nxt
    BY <1>1, NextSlotFrame
  <2>6. Finalizing' = Finalizing /\ \A n : Recorded(n)' \subseteq Recorded(n)
    BY <2>3 DEF Finalizing, Recorded, daoVars
  <2>7. DirHoldsBlobs'
    BY <1>1, <2>6 DEF IInv, Contents, DirHoldsBlobs, bundleVars, Closing
  <2>8. ServiceHoldsBlobs'
    <3> SUFFICES ASSUME NEW n \in DOMAIN svc
                 PROVE  /\ Recorded(n)' \subseteq svc[n].slots
                        /\ /\ n.end \notin misread' /\ n.end \in Slots
                           /\ HasBlobs(n.end)'
                           => n.end \in svc[n].slots
                        /\ n.end <= Nxt'
      BY DEF ServiceHoldsBlobs, bundleVars, HasBlobs
    <3> QED
      BY <2>2, <2>3, <2>5, <2>6 DEF IInv, Contents, ServiceHoldsBlobs
  <2>9. OutIsUploaded'
    BY <1>1, <2>3, <2>6
    DEF IInv, Contents, OutIsUploaded, daoVars, bundleVars
  <2> QED
    BY <2>4, <2>7, <2>8, <2>9 DEF Contents
<1>3. CASE NewHead \/ Finalize \/ Tick
  <2>1. UNCHANGED <<canon, misread>>
    BY <1>3 DEF NewHead, Finalize, Tick
  <2>2. ReadRight'
    BY <1>1, <2>1 DEF IInv, Contents, ReadRight, HasBlobs
  <2> QED
    BY <1>1, <2>1, <2>2, ContentsFrame
<1> QED
  BY <1>2, <1>3 DEF ChainNext

\* Between boot and the first slot nothing changes but the pending bundle.
LEMMA BootContents == ASSUME IInv, SyncBoot PROVE Contents'
<1>1. /\ UNCHANGED <<bundleVars, cfg, canon, misread, cur, got>>
      /\ spc' \in {"fetch", "deprecate"}
  BY DEF SyncBoot, SyncBootFresh, SyncBootResume, SyncBootSkip,
     SyncBootDeprecate, chainVars
<1>2. /\ DOMAIN blockTbl' = DOMAIN blockTbl
      /\ \A b \in DOMAIN blockTbl :
            /\ blockTbl'[b].bundle = blockTbl[b].bundle
            /\ blockTbl'[b].blobs = blockTbl[b].blobs
  <2>1. CASE SyncBootSkip
    <3>1. PICK s, e : UpdateBlocksStatus(s, e, "skipped")
      BY <2>1 DEF SyncBootSkip
    <3> QED
      BY <3>1, UpdateBlocksStatusRows DEF IInv, TypeOK
  <2> QED
    BY <2>1 DEF SyncBoot, SyncBootFresh, SyncBootResume, SyncBootDeprecate, daoVars
<1>3. /\ Finalizing' \subseteq Finalizing
      /\ DOMAIN bundleTbl' = DOMAIN bundleTbl
      /\ \A n \in DOMAIN bundleTbl :
            bundleTbl'[n].status = "finalized" => bundleTbl[n].status = "finalized"
  <2>1. CASE SyncBootDeprecate
    <3>1. detail \in DOMAIN bundleTbl
      BY <2>1 DEF SyncBootDeprecate, IInv, LoopInv, DeprecatingPending, Finalizing
    <3>2. /\ DOMAIN bundleTbl' = DOMAIN bundleTbl
          /\ bundleTbl'[detail].status = "deprecated"
          /\ \A m \in DOMAIN bundleTbl : m # detail => bundleTbl'[m] = bundleTbl[m]
      BY <2>1, <3>1, UpdateBundleStatusRows DEF SyncBootDeprecate, IInv, TypeOK
    <3> QED
      BY <3>2 DEF Finalizing
  <2> QED
    BY <2>1 DEF SyncBoot, SyncBootFresh, SyncBootResume, SyncBootSkip, daoVars,
       Finalizing
<1>4. \A n : Recorded(n)' = Recorded(n)
  BY <1>1, <1>2 DEF Recorded
<1>5. Nxt' = Nxt
  BY <1>1, <1>2, NextSlotFrame
<1>6. ReadRight'
  BY <1>1, <1>2 DEF IInv, Contents, ReadRight, HasBlobs, Working
<1>7. DirHoldsBlobs'
  BY <1>1, <1>3, <1>4 DEF IInv, Contents, DirHoldsBlobs, bundleVars, Closing
<1>8. ServiceHoldsBlobs'
  BY <1>1, <1>4, <1>5 DEF IInv, Contents, ServiceHoldsBlobs, HasBlobs, bundleVars
<1>9. OutIsUploaded'
  BY <1>1, <1>3, <1>4 DEF IInv, Contents, OutIsUploaded, bundleVars
<1> QED
  BY <1>6, <1>7, <1>8, <1>9 DEF Contents

\* A bundle of which the loop is at the first slot has no rows yet.
LEMMA NoRowsYet ==
    ASSUME IInv, Running, Nxt = detail.start
    PROVE  Recorded(detail) = {}
<1>1. \A s \in DOMAIN blockTbl : s \in Nat /\ s < detail.start
  BY Basics
<1>2. \A s \in DOMAIN blockTbl :
        blockTbl[s].bundle = detail => s \in detail.start .. detail.end
  BY DEF IInv, DbInv, BlockInOwnBundle, SlotsOf
<1> QED
  BY <1>1, <1>2, Basics DEF Recorded

\* The steps of process before the bundle is finalised.
LEMMA CollectContents ==
    ASSUME IInv, SyncMakeDir \/ SyncCreateBundle \/ SyncWriteBlobs
    PROVE  Contents'
<1>1. /\ UNCHANGED <<detail, cur, got, cfg, blockTbl, svc, canon, misread>>
      /\ spc \in Working \ Closing /\ spc # "save"
      /\ spc' \in Working
  BY DEF SyncMakeDir, SyncCreateBundle, SyncWriteBlobs, chainVars, daoVars,
     bundleVars, Working, Closing
<1>2. ReadRight'
  BY <1>1, ReadFrame
<1>3. Nxt' = Nxt /\ \A n : Recorded(n)' = Recorded(n)
  BY <1>1, NextSlotFrame DEF Recorded
<1>4. ServiceHoldsBlobs'
  BY <1>1, <1>3 DEF IInv, Contents, ServiceHoldsBlobs, HasBlobs
<1>5. CASE SyncMakeDir
  <2>1. Recorded(detail) = {}
    BY <1>5, NoRowsYet DEF SyncMakeDir, IInv, LoopInv, CurIsNext, Running, Working
  <2>2. bundleTbl' = bundleTbl /\ spc' = "row"
    BY <1>5 DEF SyncMakeDir, daoVars
  <2>3. /\ DOMAIN tempDir' = DOMAIN tempDir \cup {detail}
        /\ \A n \in DOMAIN tempDir : tempDir'[n] = tempDir[n]
    <3>1. CASE detail \in DOMAIN tempDir
      BY <1>5, <3>1 DEF SyncMakeDir, MakeBundleDir
    <3>2. CASE detail \notin DOMAIN tempDir
      <4>1. tempDir' = Put(tempDir, detail, {})
        BY <1>5, <3>2 DEF SyncMakeDir, MakeBundleDir
      <4> QED
        BY <3>2, <4>1 DEF Put
    <3> QED
      BY <3>1, <3>2
  <2>4. DirHoldsBlobs'
    <3>1. Finalizing' = Finalizing
      BY <2>2 DEF Finalizing
    <3> SUFFICES ASSUME NEW n \in Finalizing, n \in DOMAIN tempDir'
                 PROVE  Recorded(n) \subseteq tempDir'[n]
      BY <1>3, <2>2, <3>1 DEF DirHoldsBlobs, Closing
    <3>2. CASE n = detail
      BY <2>1, <3>2
    <3>3. CASE n # detail
      BY <2>3, <3>3 DEF IInv, Contents, DirHoldsBlobs
    <3> QED
      BY <3>2, <3>3
  <2>5. OutIsUploaded'
    BY <1>1, <1>3, <2>2 DEF IInv, Contents, OutIsUploaded
  <2> QED
    BY <1>2, <1>4, <2>4, <2>5 DEF Contents
<1>6. CASE SyncCreateBundle
  <2>1. Recorded(detail) = {}
    BY <1>6, NoRowsYet DEF SyncCreateBundle, IInv, LoopInv, CurIsNext, Running,
       Working
  <2>2. /\ DOMAIN bundleTbl' = DOMAIN bundleTbl \cup {detail}
        /\ \A m \in DOMAIN bundleTbl : bundleTbl'[m] = bundleTbl[m]
    BY <1>6, CreateBundleRows DEF SyncCreateBundle, IInv, TypeOK
  <2>3. tempDir' = tempDir /\ spc' = "write"
    BY <1>6 DEF SyncCreateBundle, bundleVars
  <2>4. Finalizing' \subseteq Finalizing \cup {detail}
    BY <2>2 DEF Finalizing
  <2>5. DirHoldsBlobs'
    BY <1>3, <2>1, <2>3, <2>4 DEF IInv, Contents, DirHoldsBlobs, Closing
  <2>6. OutIsUploaded'
    BY <1>1, <1>3, <2>1, <2>2, <2>3 DEF IInv, Contents, OutIsUploaded
  <2> QED
    BY <1>2, <1>4, <2>5, <2>6 DEF Contents
<1>7. CASE SyncWriteBlobs
  <2>1. /\ bundleTbl' = bundleTbl
        /\ spc' = IF cur = detail.end THEN "query" ELSE "save"
    BY <1>7 DEF SyncWriteBlobs, daoVars
  <2>2. /\ DOMAIN tempDir' = DOMAIN tempDir
        /\ \A n \in DOMAIN tempDir : tempDir[n] \subseteq tempDir'[n]
        /\ got /\ detail \in DOMAIN tempDir => cur \in tempDir'[detail]
    <3>1. CASE detail \in DOMAIN tempDir /\ got
      <4>1. tempDir' = [tempDir EXCEPT ![detail] = @ \cup {cur}]
        BY <1>7, <3>1 DEF SyncWriteBlobs, WriteBlobToFile
      <4> QED
        BY <3>1, <4>1
    <3>2. CASE ~(detail \in DOMAIN tempDir /\ got)
      <4>1. tempDir' = tempDir
        BY <1>7, <3>2 DEF SyncWriteBlobs, WriteBlobToFile
      <4> QED
        BY <3>2, <4>1
    <3> QED
      BY <3>1, <3>2
  <2>3. DirHoldsBlobs'
    <3>1. Finalizing' = Finalizing
      BY <2>1 DEF Finalizing
    <3> QED
      BY <1>1, <1>3, <2>2, <3>1 DEF IInv, Contents, DirHoldsBlobs
  <2>4. OutIsUploaded'
    BY <1>1, <1>3, <2>1 DEF IInv, Contents, OutIsUploaded
  <2> QED
    BY <1>2, <1>4, <2>3, <2>4 DEF Contents
<1> QED
  BY <1>5, <1>6, <1>7

\* Uploading the bundle, with or without the reply.
LEMMA UploadContents ==
    ASSUME IInv, SyncUpload \/ SyncUploadReplyLost PROVE Contents'
<1>1. /\ spc = "upload" /\ detail \in DOMAIN tempDir
      /\ UploadAndFinalizeBundle(detail)
      /\ UNCHANGED <<detail, cfg, blockTbl, bundleTbl, canon, misread, tempDir>>
      /\ \/ spc' = "clean" /\ cur' = cur /\ got' = got /\ SyncUpload
         \/ spc' = "fetch"
  BY DEF SyncUpload, SyncUploadReplyLost, Return, daoVars, chainVars
<1>2. ReadRight'
  BY <1>1, ReadFrame DEF Working
<1>3. /\ Nxt' = Nxt /\ Finalizing' = Finalizing
      /\ \A n : Recorded(n)' = Recorded(n)
  BY <1>1, NextSlotFrame DEF Recorded, Finalizing
<1>4. /\ cur = detail.end /\ cur = Nxt /\ detail \in DOMAIN bundleTbl
      /\ bundleTbl[detail].status \in {"finalizing", "finalized"}
      /\ detail.cal = 0
  <2>1. /\ cur = detail.end /\ cur = Nxt /\ detail \in DOMAIN bundleTbl
        /\ bundleTbl[detail].status # "deprecated"
    BY <1>1 DEF IInv, LoopInv, CurIsNext, DetailIsLast, Running, Working, Closing
  <2>2. bundleTbl[detail].status \in BundleStatus
    BY <2>1 DEF IInv, TypeOK, DaoTypeOK
  <2>3. bundleTbl[detail].status # "sealed" /\ detail.cal = 0
    BY <2>1 DEF IInv, DbInv, PlainBundles
  <2> QED
    BY <2>1, <2>2, <2>3 DEF BundleStatus
\* What must be in the bundle is in the directory, or was uploaded before.
<1>5. detail \in DOMAIN svc \/ Recorded(detail) \subseteq tempDir[detail]
  <2>1. CASE bundleTbl[detail].status = "finalizing"
    BY <1>1, <1>4, <2>1 DEF Finalizing, IInv, Contents, DirHoldsBlobs
  <2>2. CASE bundleTbl[detail].status = "finalized"
    BY <1>4, <2>2 DEF IInv, Contents, OutIsUploaded
  <2> QED
    BY <1>4, <2>1, <2>2
<1>6. got => cur \in tempDir[detail]
  BY <1>1 DEF IInv, Contents, DirHoldsBlobs, Closing
<1>7. cur \notin misread /\ HasBlobs(cur) => got
  BY <1>1 DEF IInv, Contents, ReadRight, Working
<1>8. DirHoldsBlobs'
  BY <1>1, <1>3, <1>6 DEF IInv, Contents, DirHoldsBlobs, Closing
<1>9. CASE tempDir[detail] = {} \/ detail \in DOMAIN svc
  <2>1. svc' = svc
    BY <1>1, <1>9 DEF UploadAndFinalizeBundle, BundleExists
  <2>2. ServiceHoldsBlobs'
    BY <1>1, <1>3, <2>1 DEF IInv, Contents, ServiceHoldsBlobs, HasBlobs
  <2>3. OutIsUploaded'
    BY <1>1, <1>3, <1>5, <1>6, <1>9, <2>1 DEF IInv, Contents, OutIsUploaded
  <2> QED
    BY <1>2, <1>8, <2>2, <2>3 DEF Contents
<1>10. CASE ~(tempDir[detail] = {} \/ detail \in DOMAIN svc)
  <2>1. svc' = Put(svc, detail, NewBundle(tempDir[detail]))
    BY <1>1, <1>10 DEF UploadAndFinalizeBundle, BundleExists
  <2>2. NewBundle(tempDir[detail]).slots = tempDir[detail]
    BY DEF NewBundle
  <2>3. /\ DOMAIN svc' = DOMAIN svc \cup {detail}
        /\ svc'[detail].slots = tempDir[detail]
        /\ \A n \in DOMAIN svc : n # detail => svc'[n] = svc[n]
    BY <2>1, <2>2 DEF Put
  <2>4. ServiceHoldsBlobs'
    <3> SUFFICES ASSUME NEW n \in DOMAIN svc'
                 PROVE  /\ Recorded(n) \subseteq svc'[n].slots
                        /\ n.end \notin misread /\ n.end \in Slots /\ HasBlobs(n.end)
                            => n.end \in svc'[n].slots
                        /\ n.end <= Nxt
      BY <1>1, <1>3 DEF ServiceHoldsBlobs, HasBlobs
    <3>1. CASE n = detail
      <4>1. n.end <= Nxt
        <5>1. Nxt \in Nat
          BY Basics
        <5>2. n.end = Nxt
          BY <1>4, <3>1
        <5> QED
          BY <5>1, <5>2
      <4> QED
        BY <1>4, <1>5, <1>6, <1>7, <1>10, <2>3, <3>1, <4>1
    <3>2. CASE n # detail
      BY <2>3, <3>2 DEF IInv, Contents, ServiceHoldsBlobs
    <3> QED
      BY <3>1, <3>2
  <2>5. OutIsUploaded'
    BY <1>1, <1>3, <2>3 DEF IInv, Contents, OutIsUploaded
  <2> QED
    BY <1>2, <1>8, <2>4, <2>5 DEF Contents
<1> QED
  BY <1>9, <1>10

LEMMA MarkFinalizedContents ==
    ASSUME IInv, SyncBundleExists \/ SyncMarkFinalized PROVE Contents'
<1>1. /\ UpdateBundleStatus(detail, "finalized")
      /\ spc \in Closing /\ spc' = "save"
      /\ UNCHANGED <<detail, cur, got, cfg, blockTbl, tempDir, svc, canon, misread>>
      /\ spc = "mark" \/ detail \in DOMAIN svc
  BY DEF SyncBundleExists, SyncMarkFinalized, Closing, BundleExists, bundleVars,
     chainVars
<1>2. detail \in DOMAIN bundleTbl
  BY <1>1 DEF IInv, LoopInv, CurIsNext
<1>3. /\ DOMAIN bundleTbl' = DOMAIN bundleTbl
      /\ bundleTbl'[detail].status = "finalized"
      /\ \A m \in DOMAIN bundleTbl : m # detail => bundleTbl'[m] = bundleTbl[m]
  BY <1>1, <1>2, UpdateBundleStatusRows DEF IInv, TypeOK
<1>4. /\ Nxt' = Nxt /\ \A n : Recorded(n)' = Recorded(n)
  BY <1>1, NextSlotFrame DEF Recorded
<1>5. ReadRight'
  BY <1>1, ReadFrame DEF Working, Closing
<1>6. DirHoldsBlobs'
  <2>1. Finalizing' \subseteq Finalizing
    BY <1>3 DEF Finalizing
  <2> QED
    BY <1>1, <1>4, <2>1 DEF IInv, Contents, DirHoldsBlobs, Closing
<1>7. ServiceHoldsBlobs'
  BY <1>1, <1>4 DEF IInv, Contents, ServiceHoldsBlobs, HasBlobs
<1>8. OutIsUploaded'
  BY <1>1, <1>3, <1>4 DEF IInv, Contents, OutIsUploaded
<1> QED
  BY <1>5, <1>6, <1>7, <1>8 DEF Contents

\* The two steps around the upload that change no table.
LEMMA BetweenContents ==
    ASSUME IInv, SyncBundleNotExist \/ SyncRemoveDir PROVE Contents'
<1>1. /\ UNCHANGED <<detail, cur, got, cfg, blockTbl, bundleTbl, svc, canon, misread>>
      /\ \/ spc = "query" /\ spc' = "upload" /\ tempDir' = tempDir
         \/ spc = "clean" /\ spc' = "mark" /\ RemoveBundleDir(detail)
  BY DEF SyncBundleNotExist, SyncRemoveDir, bundleVars, chainVars, daoVars
<1>2. ReadRight'
  BY <1>1, ReadFrame DEF Working
<1>3. /\ Nxt' = Nxt /\ Finalizing' = Finalizing
      /\ \A n : Recorded(n)' = Recorded(n)
  BY <1>1, NextSlotFrame DEF Recorded, Finalizing
<1>4. /\ DOMAIN tempDir' \subseteq DOMAIN tempDir
      /\ \A n \in DOMAIN tempDir' : tempDir'[n] = tempDir[n]
  BY <1>1 DEF RemoveBundleDir, Drop
<1>5. DirHoldsBlobs'
  BY <1>1, <1>3, <1>4 DEF IInv, Contents, DirHoldsBlobs, Closing
<1>6. ServiceHoldsBlobs'
  BY <1>1, <1>3 DEF IInv, Contents, ServiceHoldsBlobs, HasBlobs
<1>7. OutIsUploaded'
  BY <1>1, <1>3 DEF IInv, Contents, OutIsUploaded
<1> QED
  BY <1>2, <1>5, <1>6, <1>7 DEF Contents

LEMMA SaveContents == ASSUME IInv, SyncSave PROVE Contents'
<1>0. PICK d : d = detail
  OBVIOUS
<1>1. /\ cur = Nxt /\ Nxt' = Nxt + 1
      /\ cur \notin DOMAIN blockTbl
      /\ DOMAIN blockTbl' = DOMAIN blockTbl \cup {cur}
      /\ blockTbl'[cur].bundle = detail
      /\ blockTbl'[cur].blobs = got
      /\ \A t \in DOMAIN blockTbl : blockTbl'[t] = blockTbl[t]
      /\ UNCHANGED <<bundleTbl, cfg, tempDir, svc, canon, misread>>
  BY SavedRows DEF chainVars
<1>2. /\ detail \in DOMAIN bundleTbl
      /\ detail.start <= Nxt /\ Nxt <= detail.end
      /\ spc = "save" /\ spc' = "fetch"
      /\ \A n \in Finalizing : n = detail
  BY DEF IInv, LoopInv, CurIsNext, DetailIsLast, PendingIsDetail, Running,
     SyncSave, Return
<1>3. Nxt \in Nat /\ detail.start \in Nat /\ detail.end \in Nat /\ cur \in Slots
  BY <1>2, Basics DEF IInv, TypeOK, SyncTypeOK, Working
<1>4. cur \notin misread => got = HasBlobs(cur)
  BY <1>2 DEF IInv, Contents, ReadRight, Working
<1>5. /\ \A n : n # d => Recorded(n)' = Recorded(n)
      /\ Recorded(d)' \subseteq Recorded(d) \cup {cur}
      /\ cur \in Recorded(d)' => got /\ cur \notin misread
  BY <1>0, <1>1 DEF Recorded
<1>6. Finalizing' = Finalizing
  BY <1>1 DEF Finalizing
<1> HIDE DEF Nxt
<1>7. ReadRight'
  <2>1. \A s \in DOMAIN blockTbl' \ misread : blockTbl'[s].blobs = HasBlobs(s)
    BY <1>1, <1>4 DEF IInv, Contents, ReadRight
  <2> QED
    BY <1>1, <1>2, <2>1 DEF ReadRight, HasBlobs, Working
<1>8. DirHoldsBlobs'
  <2> SUFFICES ASSUME NEW n \in Finalizing, n \in DOMAIN tempDir
               PROVE  Recorded(n)' \subseteq tempDir[n]
    BY <1>1, <1>2, <1>6 DEF DirHoldsBlobs, Closing
  <2>1. n = detail /\ Recorded(n) \subseteq tempDir[n]
    BY <1>2 DEF IInv, Contents, DirHoldsBlobs
  <2>2. got => cur \in tempDir[detail]
    BY <1>2, <2>1 DEF IInv, Contents, DirHoldsBlobs
  <2> QED
    BY <1>0, <1>5, <2>1, <2>2
<1>9. ServiceHoldsBlobs'
  <2> SUFFICES ASSUME NEW n \in DOMAIN svc
               PROVE  /\ Recorded(n)' \subseteq svc[n].slots
                      /\ n.end \notin misread /\ n.end \in Slots /\ HasBlobs(n.end)
                            => n.end \in svc[n].slots
                      /\ n.end <= Nxt'
    BY <1>1 DEF ServiceHoldsBlobs, HasBlobs
  <2>1. /\ Recorded(n) \subseteq svc[n].slots
        /\ n.end \notin misread /\ n.end \in Slots /\ HasBlobs(n.end)
            => n.end \in svc[n].slots
        /\ n.end <= Nxt
    BY DEF IInv, Contents, ServiceHoldsBlobs
  <2>2. n.end <= Nxt'
    <3>1. n.end \in Nat
      BY DEF IInv, TypeOK, BundleTypeOK, Name
    <3> QED
      BY <1>1, <1>3, <2>1, <3>1
  <2>3. Recorded(n)' \subseteq svc[n].slots
    <3>1. CASE n # detail
      BY <1>0, <1>5, <2>1, <3>1
    <3>2. CASE n = detail
      <4>1. detail.end = cur
        BY <1>1, <1>2, <1>3, <2>1, <3>2
      <4> QED
        BY <1>0, <1>3, <1>4, <1>5, <2>1, <3>2, <4>1
    <3> QED
      BY <3>1, <3>2
  <2> QED
    BY <2>1, <2>2, <2>3
<1>10. OutIsUploaded'
  <2> SUFFICES ASSUME NEW n \in DOMAIN bundleTbl,
                      bundleTbl[n].status = "finalized", Recorded(n)' # {}
               PROVE  n \in DOMAIN svc
    BY <1>1, <1>2 DEF OutIsUploaded
  <2>1. CASE n # detail
    BY <1>0, <1>5, <2>1 DEF IInv, Contents, OutIsUploaded
  <2>2. CASE n = detail
    <3>1. detail.end <= Nxt
      BY <2>2 DEF IInv, DbInv, BundlesBehindNext
    <3>2. cur = detail.end
      BY <1>1, <1>2, <1>3, <3>1
    <3>3. Recorded(detail) # {} \/ (got /\ cur \notin misread)
      BY <1>0, <1>5, <2>2
    <3> QED
      BY <1>2, <2>2, <3>2, <3>3 DEF IInv, Contents, OutIsUploaded
  <2> QED
    BY <2>1, <2>2
<1> QED
  BY <1>7, <1>8, <1>9, <1>10 DEF Contents

LEMMA CrashContents ==
    ASSUME IInv, SyncCrash, ~StartLoweredEarly PROVE Contents'
<1>1. /\ UNCHANGED <<blockTbl, bundleTbl, svc, canon, misread>>
      /\ spc' = "down" /\ (tempDir' = tempDir \/ tempDir' = EmptyTable)
  BY DEF SyncCrash, daoVars, chainVars
<1>2. Finalizing' = Finalizing /\ \A n : Recorded(n)' = Recorded(n)
  BY <1>1 DEF Finalizing, Recorded
<1>3. ReadRight'
  BY <1>1, ReadFrame DEF Working
<1>4. DirHoldsBlobs'
  <2>1. DOMAIN EmptyTable = {}
    BY DEF EmptyTable
  <2> QED
    BY <1>1, <1>2, <2>1 DEF IInv, Contents, DirHoldsBlobs, Closing
<1>5. ServiceHoldsBlobs'
  <2>1. \A n \in DOMAIN svc : n.end <= Nxt'
    <3>1. Nxt \in Nat /\ Nxt' \in Nat /\ Nxt <= Nxt'
      BY NextAfterCrash, Basics
    <3>2. \A n \in DOMAIN svc : n.end \in Nat /\ n.end <= Nxt
      BY DEF IInv, TypeOK, BundleTypeOK, Name, Contents, ServiceHoldsBlobs
    <3> HIDE DEF Nxt
    <3> QED
      BY <3>1, <3>2
  <2> QED
    BY <1>1, <1>2, <2>1 DEF IInv, Contents, ServiceHoldsBlobs, HasBlobs
<1>6. OutIsUploaded'
  BY <1>1, <1>2 DEF IInv, Contents, OutIsUploaded
<1> QED
  BY <1>3, <1>4, <1>5, <1>6 DEF Contents

LEMMA ContentsStep ==
    ASSUME IInv, Next, ~CommitAckMayBeLost, ~StartLoweredEarly PROVE Contents'
<1>1. CASE SyncBoot
  BY <1>1, BootContents
<1>2. CASE SyncStep
  <2>1. CASE SyncBlockNotFound
    <3>1. /\ UNCHANGED <<daoVars, bundleVars, cfg, canon, misread, blockTbl>>
          /\ spc' = "head"
      BY <2>1 DEF SyncBlockNotFound, chainVars, daoVars
    <3>2. ReadRight'
      BY <3>1, ReadFrame DEF Working
    <3> QED
      BY <3>1, <3>2, ContentsFrame DEF Closing
  <2>2. CASE SyncNotYet \/ SyncNothingToUpload
    BY <2>2, ReturnContents DEF SyncNotYet, SyncNothingToUpload
  <2> QED
    BY <1>2, <2>1, <2>2, FetchContents, CollectContents, UploadContents,
       MarkFinalizedContents, BetweenContents, SaveContents DEF SyncStep
<1>3. CASE SyncFault
  <2>1. CASE SyncError
    BY <2>1, ReturnContents DEF SyncError
  <2> QED
    BY <1>3, <2>1, UploadContents, CrashContents DEF SyncFault, SyncSaveAckLost
<1>4. CASE ChainStep
  BY <1>4, ChainContents DEF ChainStep
<1> QED
  BY <1>1, <1>2, <1>3, <1>4 DEF Next

-----------------------------------------------------------------------------
(* The theorems *)

LEMMA IInvInit == Init => IInv
<1> SUFFICES ASSUME Init PROVE IInv
  OBVIOUS
<1>1. TypeOK
  BY TypeInit
<1>2. /\ DOMAIN blockTbl = {} /\ DOMAIN bundleTbl = {}
      /\ DOMAIN tempDir = {} /\ DOMAIN svc = {}
      /\ spc = "down" /\ got = FALSE
  BY DEF Init, DaoInit, BundleInit, SyncInit, EmptyTable
<1>3. Finalizing = {}
  BY <1>2 DEF Finalizing
<1>4. DbInv
  BY <1>2, <1>3 DEF DbInv, HasLatest, PlainBundles, BundlesBehindNext,
     PendingIsLast, BlockInOwnBundle, CompleteBundleIsOut, BundlesMeetAtOneSlot,
     SkippedWithItsBundle
<1>5. LoopInv
  BY <1>2, <1>3 DEF LoopInv, DetailIsLast, Running, CurIsNext, Working, Closing,
     DeprecatingPending, PendingIsDetail
<1>6. Contents
  BY <1>2, <1>3 DEF Contents, ReadRight, DirHoldsBlobs, ServiceHoldsBlobs,
     OutIsUploaded, Working, Closing
<1> QED
  BY <1>1, <1>4, <1>5, <1>6 DEF IInv

LEMMA IInvStutter == ASSUME IInv, UNCHANGED vars PROVE IInv'
<1>1. UNCHANGED <<daoVars, bundleVars, syncVars, chainVars>>
  BY DEF vars
<1>2. UNCHANGED <<blockTbl, blobTbl, bundleTbl, tempDir, svc, canon, misread,
                  spc, detail, cur, got, cfg, crashes>>
  BY <1>1 DEF daoVars, bundleVars, syncVars, chainVars
<1>3. TypeOK'
  <2>1. DaoTypeOK' /\ BundleTypeOK'
    BY <1>2 DEF IInv, TypeOK, DaoTypeOK, BundleTypeOK
  <2>2. ChainTypeOK' /\ SyncTypeOK'
    BY <1>1, <1>2 DEF IInv, TypeOK, ChainTypeOK, SyncTypeOK, chainVars
  <2> QED
    BY <2>1, <2>2 DEF TypeOK
<1>4. DbInv' /\ LoopInv'
  BY <1>1, <1>2, DbFrame, ChainLoop DEF IInv
<1>5. Contents'
  <2>1. ReadRight'
    BY <1>2 DEF IInv, Contents, ReadRight, HasBlobs
  <2> QED
    BY <1>1, <1>2, <2>1, ContentsFrame
<1> QED
  BY <1>3, <1>4, <1>5 DEF IInv

LEMMA IInvStep ==
    ASSUME ~CommitAckMayBeLost, ~StartLoweredEarly
    PROVE  IInv /\ [Next]_vars => IInv'
<1>1. CASE IInv /\ Next
  BY <1>1, IInvIsSane, TypeStep, DbStep, LoopStep, ContentsStep DEF IInv
<1>2. CASE IInv /\ UNCHANGED vars
  BY <1>2, IInvStutter
<1> QED
  BY <1>1, <1>2

\* The invariant holds in every state of every behaviour of the loop, whatever
\* crashes, failing calls, restarts with another configuration and
\* reorganisations happen, provided the database's errors can be believed.
THEOREM SyncInvariant ==
    ASSUME ~CommitAckMayBeLost, ~StartLoweredEarly PROVE Spec => []IInv
<1>1. Init => IInv
  BY IInvInit
<1>2. IInv /\ [Next]_vars => IInv'
  BY IInvStep
<1> QED
  BY <1>1, <1>2, PTL DEF Spec

\* Every variable of the loop, its database, its directory, the service and the
\* chain keeps its type; a slot worked on is a slot of the chain.
THEOREM TypeCorrect ==
    ASSUME ~CommitAckMayBeLost, ~StartLoweredEarly PROVE Spec => []TypeOK
<1>1. IInv => TypeOK
  BY DEF IInv
<1> QED
  BY <1>1, SyncInvariant, PTL

\* A recorded slot always lies in the range its bundle's name stands for, and
\* the bundle has its row (SaveBlockAndBlob, CreateBundle).
THEOREM BlocksInOwnBundles ==
    ASSUME ~CommitAckMayBeLost, ~StartLoweredEarly
    PROVE  Spec => []BlockInOwnBundle
<1>1. IInv => BlockInOwnBundle
  BY DEF IInv, DbInv
<1> QED
  BY <1>1, SyncInvariant, PTL

\* The blobs of a slot whose bundle is marked Finalized are in the bundle
\* service, unless the nodes misled the loop about the slot (finalizeBundle,
\* the marking that follows it, and the record of the last slot).
THEOREM FinalizedBundlesHoldBlobs ==
    ASSUME ~CommitAckMayBeLost, ~StartLoweredEarly
    PROVE  Spec => []FinalizedHoldsBlobs
<1>1. IInv => FinalizedHoldsBlobs
  <2> SUFFICES ASSUME IInv, NEW s \in DOMAIN blockTbl \ misread,
                      blockTbl[s].blobs,
                      bundleTbl[blockTbl[s].bundle].status = "finalized"
               PROVE  /\ blockTbl[s].bundle \in DOMAIN svc
                      /\ s \in svc[blockTbl[s].bundle].slots
    BY DEF FinalizedHoldsBlobs
  <2> DEFINE n == blockTbl[s].bundle
  <2>1. n \in DOMAIN bundleTbl
    BY DEF IInv, DbInv, BlockInOwnBundle
  <2>2. s \in Recorded(n)
    BY DEF Recorded
  <2>3. n \in DOMAIN svc
    BY <2>1, <2>2 DEF IInv, Contents, OutIsUploaded
  <2> QED
    BY <2>2, <2>3 DEF IInv, Contents, ServiceHoldsBlobs
<1> QED
  BY <1>1, SyncInvariant, PTL

\* At most one bundle waits to be finalised, and a loop that is up works on it,
\* so that LoadProgressAndResume leaves none behind.
THEOREM AtMostOneOpenBundle ==
    ASSUME ~CommitAckMayBeLost, ~StartLoweredEarly PROVE Spec => []OneOpenBundle
<1>1. IInv => OneOpenBundle
  BY DEF IInv, LoopInv, PendingIsDetail, OneOpenBundle
<1> QED
  BY <1>1, SyncInvariant, PTL

\* A bundle whose last slot is recorded in it is not waiting to be finalised.
THEOREM CompleteBundlesAreOut ==
    ASSUME ~CommitAckMayBeLost, ~StartLoweredEarly
    PROVE  Spec => []CompleteBundleIsOut
<1>1. IInv => CompleteBundleIsOut
  BY DEF IInv, DbInv
<1> QED
  BY <1>1, SyncInvariant, PTL

\* Two bundles share at most the slot at which one ends and the other starts,
\* whatever intervals and starts the operator sets between restarts.
THEOREM BundlesOverlapInOneSlot ==
    ASSUME ~CommitAckMayBeLost, ~StartLoweredEarly
    PROVE  Spec => []BundlesMeetAtOneSlot
<1>1. IInv => BundlesMeetAtOneSlot
  BY DEF IInv, DbInv
<1> QED
  BY <1>1, SyncInvariant, PTL

\* Slots are skipped with their bundle, and only behind the configured start.
THEOREM SkippedTogether ==
    ASSUME ~CommitAckMayBeLost, ~StartLoweredEarly
    PROVE  Spec => []SkippedWithItsBundle
<1>1. IInv => SkippedWithItsBundle
  BY DEF IInv, DbInv
<1> QED
  BY <1>1, SyncInvariant, PTL

-----------------------------------------------------------------------------
(* Final blocks: on BSC the loop reads no others, whatever else goes wrong   *)

\* The slot, if the chain has it, lies before the last final one.
ReadFinal(s, blobs) == (s \in Slots => s < finalized) /\ blobs = HasBlobs(s)

IsRow(r) == r = [status |-> r.status, bundle |-> r.bundle, blobs |-> r.blobs]

RowsFinal ==
    \A s \in DOMAIN blockTbl :
        IsRow(blockTbl[s]) /\ ReadFinal(s, blockTbl[s].blobs)

\* What is recorded, or about to be, was read of a final block, which no
\* reorganisation replaces.
FinalRead ==
    /\ finalized \in Int
    /\ spc # "head"
    /\ RowsFinal
    /\ spc \in Working => ReadFinal(cur, got)

\* Finality moves on, and the chain changes only beyond it.
LEMMA ReadFinalStays ==
    ASSUME finalized \in Int, NEW s, NEW blobs, ReadFinal(s, blobs),
           ChainNext \/ UNCHANGED <<canon, finalized>>
    PROVE  ReadFinal(s, blobs)' /\ finalized' \in Int
<1>1. CASE UNCHANGED <<canon, finalized>>
  BY <1>1 DEF ReadFinal, HasBlobs, Slots
<1>2. CASE Finalize
  <2>1. finalized' \in Int /\ finalized < finalized' /\ canon' = canon
    BY <1>2 DEF Finalize
  <2> QED
    BY <2>1, MaxSlotAssumption DEF ReadFinal, HasBlobs, Slots
<1>3. CASE Reorg
  <2>1. finalized' = finalized
    BY <1>3 DEF Reorg
  <2>2. s \in Slots => canon'[s] = canon[s]
    BY <1>3, MaxSlotAssumption DEF Reorg, ReadFinal, Slots
  <2> QED
    BY <2>1, <2>2 DEF ReadFinal, HasBlobs, Slots
<1> QED
  BY <1>1, <1>2, <1>3 DEF ChainNext, NewHead, Tick

\* A transaction of either loop: rows are marked, or one is written anew.
LEMMA MarkedFinal ==
    ASSUME FinalRead, NEW s, NEW e, NEW st, UpdateBlocksStatus(s, e, st),
           UNCHANGED <<canon, finalized>>
    PROVE  RowsFinal'
<1> SUFFICES ASSUME NEW t \in DOMAIN blockTbl'
             PROVE  (IsRow(blockTbl[t]) /\ ReadFinal(t, blockTbl[t].blobs))'
  BY DEF RowsFinal
<1>1. /\ t \in DOMAIN blockTbl
      /\ \/ blockTbl'[t] = blockTbl[t]
         \/ blockTbl'[t] = [blockTbl[t] EXCEPT !.status = st]
  BY DEF UpdateBlocksStatus, BlocksWithStatus
<1>2. IsRow(blockTbl[t]) /\ ReadFinal(t, blockTbl[t].blobs)
  BY <1>1 DEF FinalRead, RowsFinal
<1>3. IsRow(blockTbl'[t]) /\ blockTbl'[t].blobs = blockTbl[t].blobs
  BY <1>1, <1>2 DEF IsRow
<1> QED
  BY <1>2, <1>3 DEF ReadFinal, HasBlobs, Slots, IsRow

LEMMA SavedFinal ==
    ASSUME FinalRead, NEW s, NEW n, NEW blobs, SaveBlockAndBlob(s, n, blobs),
           ReadFinal(s, blobs), UNCHANGED <<canon, finalized>>
    PROVE  RowsFinal'
<1> SUFFICES ASSUME NEW t \in DOMAIN blockTbl'
             PROVE  (IsRow(blockTbl[t]) /\ ReadFinal(t, blockTbl[t].blobs))'
  BY DEF RowsFinal
<1>1. CASE t = s
  <2>1. blockTbl'[t] = ToBlock(n, blobs)
    BY <1>1 DEF SaveBlockAndBlob, Put
  <2>2. IsRow(blockTbl'[t]) /\ blockTbl'[t].blobs = blobs
    BY <2>1 DEF IsRow, ToBlock
  <2> QED
    BY <1>1, <2>2 DEF ReadFinal, HasBlobs, Slots, IsRow
<1>2. CASE t # s
  <2>1. t \in DOMAIN blockTbl /\ blockTbl'[t] = blockTbl[t]
    BY <1>2 DEF SaveBlockAndBlob, Put
  <2>2. IsRow(blockTbl[t]) /\ ReadFinal(t, blockTbl[t].blobs)
    BY <2>1 DEF FinalRead, RowsFinal
  <2> QED
    BY <2>1, <2>2 DEF ReadFinal, HasBlobs, Slots, IsRow
<1> QED
  BY <1>1, <1>2

\* Both networks' shared step: nothing is read or written of a slot.
LEMMA FinalReadFrame ==
    ASSUME FinalRead, blockTbl' = blockTbl, spc' # "head",
           ChainNext \/ UNCHANGED <<canon, finalized>>,
           spc' \in Working => spc \in Working /\ UNCHANGED <<cur, got>>
    PROVE  FinalRead'
<1>1. \A s \in DOMAIN blockTbl : ReadFinal(s, blockTbl[s].blobs)'
  <2> SUFFICES ASSUME NEW s \in DOMAIN blockTbl
               PROVE  ReadFinal(s, blockTbl[s].blobs)'
    OBVIOUS
  <2>1. PICK v : v = blockTbl[s].blobs
    OBVIOUS
  <2>2. ReadFinal(s, v)'
    BY <2>1, ReadFinalStays DEF FinalRead, RowsFinal
  <2> QED
    BY <2>1, <2>2
<1>2. spc' \in Working => ReadFinal(cur, got)'
  <2> SUFFICES ASSUME spc' \in Working PROVE ReadFinal(cur, got)'
    OBVIOUS
  <2>1. PICK c, g : c = cur /\ g = got
    OBVIOUS
  <2>2. ReadFinal(c, g)'
    BY <2>1, ReadFinalStays DEF FinalRead, RowsFinal
  <2> QED
    BY <2>1, <2>2 DEF ReadFinal, HasBlobs
<1>3. finalized' \in Int
  BY DEF FinalRead, ChainNext, NewHead, Finalize, Reorg, Tick
<1> QED
  BY <1>1, <1>2, <1>3 DEF FinalRead, RowsFinal, IsRow

LEMMA SyncFinalRead ==
    ASSUME Network = "BSC", FinalRead, SyncBoot \/ SyncStep \/ SyncFault
    PROVE  FinalRead'
<1>1. finalized \in Int
  BY DEF FinalRead
<1>2. CASE SyncBootSkip
  <2>1. PICK x, y : UpdateBlocksStatus(x, y, "skipped")
    BY <1>2 DEF SyncBootSkip
  <2>2. RowsFinal'
    BY <1>2, <2>1, MarkedFinal DEF SyncBootSkip, chainVars
  <2> QED
    BY <1>1, <1>2, <2>2 DEF FinalRead, SyncBootSkip, chainVars, Working
<1>3. CASE SyncFetch
  <2>1. /\ cur' < finalized /\ got' = HasBlobs(cur')
        /\ UNCHANGED <<blockTbl, canon, finalized>> /\ spc' = "process"
    BY <1>3 DEF SyncFetch, GetFinalizedBlockNum, GetBlob, daoVars
  <2>2. ReadFinal(cur, got)'
    BY <2>1 DEF ReadFinal, HasBlobs, Slots
  <2> QED
    BY <1>1, <2>1, <2>2 DEF FinalRead, RowsFinal, ReadFinal, HasBlobs, Slots, IsRow
<1>4. CASE SyncSave \/ SyncSaveAckLost
  <2>1. /\ SaveBlockAndBlob(cur, detail, got) /\ spc = "save" /\ spc' = "fetch"
        /\ UNCHANGED <<canon, finalized>>
    BY <1>4 DEF SyncSave, SyncSaveAckLost, Return, chainVars
  <2>2. ReadFinal(cur, got)
    BY <2>1 DEF FinalRead, Working
  <2>3. RowsFinal'
    BY <2>1, <2>2, SavedFinal
  <2> QED
    BY <1>1, <2>1, <2>3 DEF FinalRead, Working
<1>5. CASE SyncBlockNotFound \/ SyncForkedBlock \/ SyncNotYet
  BY <1>5 DEF SyncBlockNotFound, SyncForkedBlock, SyncNotYet, FinalRead
<1>6. CASE /\ UNCHANGED <<blockTbl, canon, finalized>> /\ spc' # "head"
           /\ spc' \in Working => spc \in Working /\ UNCHANGED <<cur, got>>
  BY <1>6, FinalReadFrame
<1> QED
  <2>1. CASE SyncBoot
    BY <1>2, <1>6, <2>1 DEF SyncBoot, SyncBootFresh, SyncBootResume,
       SyncBootDeprecate, Working, daoVars, chainVars
  <2>2. CASE SyncStep
    BY <1>3, <1>4, <1>5, <1>6, <2>2 DEF SyncStep, SyncMakeDir,
       SyncCreateBundle, SyncWriteBlobs, SyncBundleExists, SyncBundleNotExist,
       SyncUpload, SyncNothingToUpload, SyncRemoveDir, SyncMarkFinalized,
       Return, Working, daoVars, chainVars
  <2>3. CASE SyncFault
    BY <1>4, <1>6, <2>3 DEF SyncFault, SyncUploadReplyLost, SyncError,
       SyncCrash, Return, Working, daoVars, chainVars
  <2> QED
    BY <2>1, <2>2, <2>3

LEMMA FinalReadInit == Init => FinalRead
<1>1. Init => finalized \in Int
  BY ChainAssumption DEF Init, ChainInit
<1> QED
  BY <1>1 DEF Init, DaoInit, SyncInit, FinalRead, RowsFinal, EmptyTable, Working

LEMMA FinalReadImplies == FinalRead => RecordedAsOnChain
  BY DEF FinalRead, RowsFinal, ReadFinal, RecordedAsOnChain

\* On BSC, where only blocks before the final one are read, the rows of final
\* blocks say what the chain holds there: after any number of crashes, errors
\* and reorganisations, and even if the database reports a committed
\* transaction as failed.
THEOREM BscRecordedAsOnChain ==
    ASSUME Network = "BSC" PROVE Spec => []RecordedAsOnChain
<1>1. FinalRead /\ [Next]_vars => FinalRead'
  <2> SUFFICES ASSUME FinalRead, [Next]_vars PROVE FinalRead'
    OBVIOUS
  <2>1. CASE SyncBoot \/ SyncStep \/ SyncFault
    BY <2>1, SyncFinalRead
  <2>2. CASE ChainStep
    BY <2>2, FinalReadFrame DEF ChainStep, daoVars, syncVars, FinalRead
  <2>3. CASE UNCHANGED vars
    BY <2>3, FinalReadFrame DEF vars, daoVars, chainVars, syncVars, FinalRead
  <2> QED
    BY <2>1, <2>2, <2>3 DEF Next
<1> QED
  BY <1>1, FinalReadInit, FinalReadImplies, PTL DEF Spec
=============================================================================
