------------------------------ MODULE BlobSyncer ------------------------------
(***************************************************************************)
(* The sync loop of the syncer process (syncer/syncer.go): it walks the    *)
(* chain slot by slot, collects the blobs of an interval of slots in a     *)
(* local directory, uploads the directory as one bundle when the interval  *)
(* is complete, and records every slot in the database.                    *)
(*                                                                         *)
(* One action is the code between two points where the process can crash   *)
(* with an effect behind it, or where the verify loop can get in between:  *)
(* a query of a node, one change of the file system, one request to the    *)
(* bundle service, one database transaction.  Any of them may fail; sync   *)
(* then returns the error and StartLoop calls it again from the top.       *)
(*                                                                         *)
(* A step that only waits (no final block yet) is a stuttering step.       *)
(***************************************************************************)
EXTENDS SourceChain, BundleClient

CONSTANTS
    Starts,             \* values of StartSlotOrBlock an operator may set
    Intervals,          \* values of CreateBundleSlotOrBlockInterval
    MaxCrashes,         \* bound on crashes
    TempDirPersists,    \* TempDir survives a restart of the process
    CommitAckMayBeLost, \* the database may report a failure of a transaction
                        \* that it committed
    StartLoweredEarly   \* the operator may lower the start before the slot it
                        \* names is reached

ASSUME SyncerAssumption ==
    /\ Starts \subseteq Nat \ {0}
    /\ Intervals \subseteq Nat \ {0}
    /\ MaxCrashes \in Nat
    /\ TempDirPersists \in BOOLEAN
    /\ CommitAckMayBeLost \in BOOLEAN
    /\ StartLoweredEarly \in BOOLEAN

VARIABLES
    spc,        \* where the loop is
    detail,     \* bundleDetail: its name, start and end are one datum
    cur,        \* blockID of this call of sync
    got,        \* whether this call has sidecars to write and to save
    cfg,        \* the configuration read at start: [start, interval]
    crashes

syncVars == <<spc, detail, cur, got, cfg, crashes>>

vars == <<daoVars, chainVars, bundleVars, syncVars>>

SyncPC == {"down", "deprecate", "fetch", "head", "process", "row", "write",
           "query", "upload", "clean", "mark", "save"}

\* The states in which a call of sync works on slot cur.
Working == {"process", "row", "write", "query", "upload", "clean", "mark",
            "save"}

NoBundle == GetBundleName(0, 0)

Config == [start : Starts, interval : Intervals]

GetNextBlockNumOrSlot ==
    IF cfg.start <= GetLatestProcessedBlock THEN GetLatestProcessedBlock + 1
    ELSE cfg.start

\* The bundle that starts at slot s.
BundleFrom(s) == GetBundleName(s, s + cfg.interval - 1)

\* sync returns (its locals are dead) and will be called again.
Return == spc' = "fetch" /\ cur' = 0 /\ got' = FALSE

-----------------------------------------------------------------------------
(* LoadProgressAndResume *)

\* Mutant: the pending bundle is forgotten.
SyncBootFresh_Always ==
    /\ spc = "down"
    /\ detail' = BundleFrom(GetNextBlockNumOrSlot)
    /\ spc' = "fetch"
    /\ UNCHANGED <<cur, got, cfg, crashes, daoVars, chainVars, bundleVars>>

\* No bundle is pending: a new one starts at the next slot.
SyncBootFresh ==
    /\ spc = "down"
    /\ Finalizing = {}
    /\ detail' = BundleFrom(GetNextBlockNumOrSlot)
    /\ spc' = "fetch"
    /\ UNCHANGED <<cur, got, cfg, crashes, daoVars, chainVars, bundleVars>>

SyncBootResume ==
    /\ spc = "down"
    /\ Finalizing # {}
    /\ GetNextBlockNumOrSlot <= GetLatestFinalizingBundle.end
    /\ detail' = GetLatestFinalizingBundle
    /\ spc' = "fetch"
    /\ UNCHANGED <<cur, got, cfg, crashes, daoVars, chainVars, bundleVars>>

\* Mutant: the slots are not marked.
SyncBootSkip_RowsKept ==
    /\ spc = "down"
    /\ Finalizing # {}
    /\ GetNextBlockNumOrSlot > GetLatestFinalizingBundle.end
    /\ detail' = GetLatestFinalizingBundle
    /\ spc' = "deprecate"
    /\ UNCHANGED <<cur, got, cfg, crashes, daoVars, chainVars, bundleVars>>

\* Mutant: the bundle is not deprecated.
SyncBootSkip_BundleKept ==
    /\ spc = "down"
    /\ Finalizing # {}
    /\ LET n == GetLatestFinalizingBundle
       IN  /\ GetNextBlockNumOrSlot > n.end
           /\ UpdateBlocksStatus(n.start, n.end, "skipped")
           /\ detail' = BundleFrom(GetNextBlockNumOrSlot)
    /\ spc' = "fetch"
    /\ UNCHANGED <<cur, got, cfg, crashes, blobTbl, bundleTbl, chainVars,
                   bundleVars>>

\* The operator moved the start beyond the pending bundle: its slots are
\* marked skipped, then the bundle deprecated, in two transactions.
SyncBootSkip ==
    /\ spc = "down"
    /\ Finalizing # {}
    /\ LET n == GetLatestFinalizingBundle
       IN  /\ GetNextBlockNumOrSlot > n.end
           /\ UpdateBlocksStatus(n.start, n.end, "skipped")
           /\ detail' = n
    /\ spc' = "deprecate"
    /\ UNCHANGED <<cur, got, cfg, crashes, blobTbl, bundleTbl, chainVars,
                   bundleVars>>

SyncBootDeprecate ==
    /\ spc = "deprecate"
    /\ UpdateBundleStatus(detail, "deprecated")
    /\ detail' = BundleFrom(GetNextBlockNumOrSlot)
    /\ spc' = "fetch"
    /\ UNCHANGED <<cur, got, cfg, crashes, blockTbl, blobTbl, chainVars,
                   bundleVars>>

-----------------------------------------------------------------------------
(* sync: which slot is next, and what does it hold *)

SyncFetch ==
    /\ spc = "fetch"
    /\ cur' = GetNextBlockNumOrSlot
    /\ IF Network = "BSC"
       THEN cur' < GetFinalizedBlockNum
       ELSE ~BlockNotFound(cur') /\ BlockFinalized(cur')
    /\ GetBlob(cur', got')
    /\ Misread(cur', got')
    /\ spc' = "process"
    /\ UNCHANGED <<detail, cfg, crashes, canon, head, finalized, reorgs, now,
                   daoVars, bundleVars>>

SyncBlockNotFound ==
    /\ spc = "fetch"
    /\ Network = "ETH"
    /\ cur' = GetNextBlockNumOrSlot
    /\ BlockNotFound(cur')
    /\ spc' = "head"
    /\ UNCHANGED <<got, detail, cfg, crashes, daoVars, chainVars, bundleVars>>

\* The 404 is compared with the head as it is by now.
SyncForkedBlock ==
    /\ spc = "head"
    /\ BeforeLatestBeaconBlock(cur)
    /\ Misread(cur, FALSE)
    /\ spc' = "process"
    /\ UNCHANGED <<cur, got, detail, cfg, crashes, canon, head, finalized,
                   reorgs, glitches, now, daoVars, bundleVars>>

SyncNotYet ==
    /\ spc = "head"
    /\ ~BeforeLatestBeaconBlock(cur)
    /\ Return
    /\ UNCHANGED <<detail, cfg, crashes, daoVars, chainVars, bundleVars>>

-----------------------------------------------------------------------------
(* process *)

\* createLocalBundleDir, at the first slot of a bundle.
SyncMakeDir ==
    /\ spc = "process"
    /\ cur = detail.start
    /\ MakeBundleDir(detail)
    /\ spc' = "row"
    /\ UNCHANGED <<detail, cur, got, cfg, crashes, svc, daoVars, chainVars>>

SyncCreateBundle ==
    /\ spc = "row"
    /\ CreateBundle(detail, now)
    /\ spc' = "write"
    /\ UNCHANGED <<detail, cur, got, cfg, crashes, blockTbl, blobTbl,
                   chainVars, bundleVars>>

\* Without a directory nothing is written: finalizing has removed it, and
\* sync is here again because a later step failed.
SyncWriteBlobs ==
    /\ spc = "write" \/ (spc = "process" /\ cur # detail.start)
    /\ IF detail \in DOMAIN tempDir
       THEN WriteBlobToFile(detail, cur, got)
       ELSE UNCHANGED tempDir
    /\ spc' = IF cur = detail.end THEN "query" ELSE "save"
    /\ UNCHANGED <<detail, cur, got, cfg, crashes, svc, daoVars, chainVars>>

\* The service knows the bundle: an earlier call uploaded it.
SyncBundleExists ==
    /\ spc = "query"
    /\ BundleExists(detail)
    /\ UpdateBundleStatus(detail, "finalized")
    /\ spc' = "save"
    /\ UNCHANGED <<detail, cur, got, cfg, crashes, blockTbl, blobTbl,
                   chainVars, bundleVars>>

SyncBundleNotExist ==
    /\ spc = "query"
    /\ ~BundleExists(detail)
    /\ spc' = "upload"
    /\ UNCHANGED <<detail, cur, got, cfg, crashes, daoVars, chainVars,
                   bundleVars>>

\* UploadAndFinalizeBundle of the directory.
SyncUpload ==
    /\ spc = "upload"
    /\ detail \in DOMAIN tempDir
    /\ UploadAndFinalizeBundle(detail)
    /\ spc' = "clean"
    /\ UNCHANGED <<detail, cur, got, cfg, crashes, tempDir, daoVars,
                   chainVars>>

\* Without the directory there is nothing to upload: Walk fails.
SyncNothingToUpload ==
    /\ spc = "upload"
    /\ detail \notin DOMAIN tempDir
    /\ Return
    /\ UNCHANGED <<detail, cfg, crashes, daoVars, chainVars, bundleVars>>

\* The service takes the bundle, the client does not get the reply.
SyncUploadReplyLost ==
    /\ spc = "upload"
    /\ detail \in DOMAIN tempDir
    /\ tempDir[detail] # {}
    /\ UploadAndFinalizeBundle(detail)
    /\ Return
    /\ UNCHANGED <<detail, cfg, crashes, tempDir, daoVars, chainVars>>

SyncRemoveDir ==
    /\ spc = "clean"
    /\ RemoveBundleDir(detail)
    /\ spc' = "mark"
    /\ UNCHANGED <<detail, cur, got, cfg, crashes, svc, daoVars, chainVars>>

\* Mutant: the status is not updated.
SyncMarkFinalized_Forgotten ==
    /\ spc = "mark"
    /\ spc' = "save"
    /\ UNCHANGED <<detail, cur, got, cfg, crashes, daoVars, chainVars,
                   bundleVars>>

SyncMarkFinalized ==
    /\ spc = "mark"
    /\ UpdateBundleStatus(detail, "finalized")
    /\ spc' = "save"
    /\ UNCHANGED <<detail, cur, got, cfg, crashes, blockTbl, blobTbl,
                   chainVars, bundleVars>>

-----------------------------------------------------------------------------
(* sync: record the slot, and turn to the next bundle after the last one *)

\* Mutant: the loop does not turn to the next bundle.
SyncSave_NoRollover ==
    /\ spc = "save"
    /\ SaveBlockAndBlob(cur, detail, got)
    /\ Return
    /\ UNCHANGED <<detail, cfg, crashes, bundleTbl, chainVars, bundleVars>>

SyncSave ==
    /\ spc = "save"
    /\ SaveBlockAndBlob(cur, detail, got)
    /\ detail' = IF cur = detail.end THEN BundleFrom(cur + 1) ELSE detail
    /\ Return
    /\ UNCHANGED <<cfg, crashes, bundleTbl, chainVars, bundleVars>>

\* The transaction commits but is reported as failed.
SyncSaveAckLost ==
    /\ CommitAckMayBeLost
    /\ spc = "save"
    /\ SaveBlockAndBlob(cur, detail, got)
    /\ Return
    /\ UNCHANGED <<detail, cfg, crashes, bundleTbl, chainVars, bundleVars>>

\* Any step with an error to return returns it.  RemoveAll has none to return.
SyncError ==
    /\ spc \in {"head", "process", "row", "write", "query", "upload", "mark",
                "save"}
    /\ Return
    /\ UNCHANGED <<detail, cfg, crashes, daoVars, chainVars, bundleVars>>

\* The process dies and is started again, perhaps with an edited
\* configuration.  A start that has been reached decides nothing any more.
SyncCrash ==
    /\ spc # "down"
    /\ crashes < MaxCrashes
    /\ crashes' = crashes + 1
    /\ cfg' \in Config
    /\ \/ cfg'.start >= cfg.start
       \/ cfg.start <= GetLatestProcessedBlock
       \/ StartLoweredEarly
    /\ spc' = "down" /\ detail' = NoBundle /\ cur' = 0 /\ got' = FALSE
    /\ \/ UNCHANGED tempDir
       \/ ~TempDirPersists /\ tempDir' = EmptyTable
    /\ UNCHANGED <<svc, daoVars, chainVars>>

-----------------------------------------------------------------------------
SyncBoot ==
    SyncBootFresh \/ SyncBootResume \/ SyncBootSkip \/ SyncBootDeprecate

SyncStep ==
    \/ SyncFetch \/ SyncBlockNotFound \/ SyncForkedBlock \/ SyncNotYet
    \/ SyncMakeDir \/ SyncCreateBundle \/ SyncWriteBlobs
    \/ SyncBundleExists \/ SyncBundleNotExist
    \/ SyncUpload \/ SyncNothingToUpload \/ SyncRemoveDir
    \/ SyncMarkFinalized \/ SyncSave

SyncFault == SyncUploadReplyLost \/ SyncSaveAckLost \/ SyncError \/ SyncCrash

SyncInit ==
    /\ spc = "down"
    /\ detail = NoBundle
    /\ cur = 0
    /\ got = FALSE
    /\ cfg \in Config
    /\ crashes = 0

Init == DaoInit /\ ChainInit /\ BundleInit /\ SyncInit

ChainStep == ChainNext /\ UNCHANGED <<daoVars, bundleVars, syncVars>>

Next == SyncBoot \/ SyncStep \/ SyncFault \/ ChainStep

Spec == Init /\ [][Next]_vars

(***************************************************************************)
(* Fairness.  The ticker calls sync for ever and every failed call is      *)
(* tried again, so a step that is possible again and again is eventually   *)
(* taken: nodes, the service and the database do not fail for ever.  The   *)
(* chain moves on and its blocks become final.                             *)
(***************************************************************************)
SyncFairness ==
    /\ WF_vars(SyncBoot)
    /\ SF_vars(SyncFetch) /\ SF_vars(SyncBlockNotFound)
    /\ SF_vars(SyncForkedBlock)
    /\ SF_vars(SyncMakeDir) /\ SF_vars(SyncCreateBundle)
    /\ SF_vars(SyncWriteBlobs)
    /\ SF_vars(SyncBundleExists) /\ SF_vars(SyncBundleNotExist)
    /\ SF_vars(SyncUpload) /\ WF_vars(SyncNothingToUpload)
    /\ SF_vars(SyncRemoveDir)
    /\ SF_vars(SyncMarkFinalized) /\ SF_vars(SyncSave)

ChainFairness ==
    /\ WF_vars(ChainStep /\ head' # head)
    /\ WF_vars(ChainStep /\ finalized' # finalized)

FairSpec == Spec /\ SyncFairness /\ ChainFairness

-----------------------------------------------------------------------------
(* Properties *)

SyncTypeOK ==
    /\ spc \in SyncPC
    /\ detail \in Name
    /\ cur \in Nat
    /\ spc \in Working => cur \in Slots
    /\ got \in BOOLEAN
    /\ cfg \in Config
    /\ crashes \in 0 .. MaxCrashes

\* Every variable holds a value of its type; in particular a slot the loop
\* works on is one of the chain.
TypeOK == DaoTypeOK /\ ChainTypeOK /\ BundleTypeOK /\ SyncTypeOK

\* A row's bundle exists and its name covers the row's slot (README: a bundle
\* blobs_s{startSlot}_e{endSlot} holds the blobs of those slots).  Verifier
\* and server find the blobs of a slot by this.
BlockInOwnBundle ==
    \A s \in DOMAIN blockTbl :
        LET n == blockTbl[s].bundle
        IN  n \in DOMAIN bundleTbl /\ s \in SlotsOf(n)

\* The blobs of a row whose bundle is marked Finalized are in the bundle the
\* service holds (db/bundle.go: "when a bundle is uploaded to bundle service,
\* its status will be Finalized"), whatever crashes and retries lie between
\* writing, uploading, marking and recording - for the slots about which the
\* nodes did not mislead the loop.
FinalizedHoldsBlobs ==
    \A s \in DOMAIN blockTbl \ misread :
        LET n == blockTbl[s].bundle
        IN  blockTbl[s].blobs /\ bundleTbl[n].status = "finalized" =>
                n \in DOMAIN svc /\ s \in svc[n].slots

\* At most one bundle is pending, and it is the one the loop works on:
\* LoadProgressAndResume resumes a single one, any other would stay
\* Finalizing for ever.
OneOpenBundle ==
    \A n \in Finalizing :
        IF spc = "down" THEN Finalizing = {n} ELSE n = detail

\* Once the last slot of a bundle is recorded in it, the bundle is not
\* pending any more: nothing would come back to upload it.
CompleteBundleIsOut ==
    \A s \in DOMAIN blockTbl :
        blockTbl[s].bundle.end = s =>
            bundleTbl[blockTbl[s].bundle].status # "finalizing"

\* The slot ranges of two bundles have at most one slot in common, the last
\* of one and the first of the other (the crash between marking a bundle and
\* recording its last slot).
BundlesMeetAtOneSlot ==
    \A m, n \in DOMAIN bundleTbl :
        m.cal = 0 /\ n.cal = 0 /\ m # n =>
            m.end <= n.start \/ n.end <= m.start

\* The operator moved the start beyond bundle n before its last slot came.
MovedBeyond(n) == n.end < GetNextBlockNumOrSlot /\ n.end \notin DOMAIN blockTbl

\* Slots are given up only together with their bundle and only because the
\* operator moved the start beyond it: a crash between the two transactions
\* does not leave a deprecated bundle with slots that still wait for it.
SkippedWithItsBundle ==
    \A s \in DOMAIN blockTbl :
        LET n == blockTbl[s].bundle
        IN  /\ bundleTbl[n].status = "deprecated" => blockTbl[s].status = "skipped"
            /\ blockTbl[s].status = "skipped" =>
                    MovedBeyond(n) /\ bundleTbl[n].status # "finalized"

\* A slot is recorded with blobs exactly if the final chain has blobs there.
RecordedAsOnChain ==
    \A s \in DOMAIN blockTbl :
        s <= finalized => (blockTbl[s].blobs <=> HasBlobs(s))

\* Every slot from the configured start on is eventually recorded (README:
\* the syncer synchronises the blobs of every block).
EveryBlockRecorded ==
    \A s \in Slots :
        s >= cfg.start ~> s \in DOMAIN blockTbl \/ s < cfg.start

\* The loop implements the archive it promises.
Archive == INSTANCE BlobArchive WITH
    Slots <- Slots,
    recorded <- DOMAIN blockTbl,
    withBlobs <- {s \in DOMAIN blockTbl : blockTbl[s].blobs},
    held <- UNION {svc[n].slots : n \in DOMAIN svc},
    published <- {s \in DOMAIN blockTbl :
                    bundleTbl[blockTbl[s].bundle].status = "finalized"}

ImplementsArchive == Archive!ArchiveSpec
=============================================================================
