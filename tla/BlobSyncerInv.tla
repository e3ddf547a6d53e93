---------------------------- MODULE BlobSyncerInv ----------------------------
(***************************************************************************)
(* The inductive invariant of BlobSyncer: what has to be true between two  *)
(* steps of the sync loop for its safety properties to survive every retry *)
(* and every restart.  TLC checks it as an invariant, BlobSyncer_proof     *)
(* proves it inductive.                                                    *)
(***************************************************************************)
EXTENDS BlobSyncer

\* The next slot to record, as a short name.
Nxt == GetNextBlockNumOrSlot

\* LoadProgressAndResume is over: the loop has a bundle to work on.
Running == spc \notin {"down", "deprecate"}

\* The loop is finalising its bundle.
Closing == {"query", "upload", "clean", "mark"}

-----------------------------------------------------------------------------
(* The database: rows, bundles, and the next slot they imply *)

\* The greatest recorded slot exists, so that GetLatestProcessedBlock finds it.
HasLatest ==
    DOMAIN blockTbl # {} =>
        \E s \in DOMAIN blockTbl : \A t \in DOMAIN blockTbl : t <= s

\* The sync loop makes plain names only, of ranges that are not empty, and
\* seals no bundle.
PlainBundles ==
    \A n \in DOMAIN bundleTbl :
        /\ n.cal = 0 /\ 1 <= n.start /\ n.start <= n.end
        /\ bundleTbl[n].status # "sealed"

\* Bundles that are not pending lie behind the next slot, with at most their
\* last slot not recorded yet; deprecated ones lie behind it altogether.
BundlesBehindNext ==
    \A n \in DOMAIN bundleTbl :
        /\ n.start <= Nxt
        /\ bundleTbl[n].status # "finalizing" => n.end <= Nxt
        /\ bundleTbl[n].status = "deprecated" => n.end < Nxt

\* Every bundle but n ends where n starts, or before.
OthersBefore(n) == \A m \in DOMAIN bundleTbl : m # n => m.end <= n.start

\* The rows from the first slot of n on belong to n.
RowsFromBelong(n) ==
    \A s \in DOMAIN blockTbl : n.start <= s => blockTbl[s].bundle = n

\* A pending bundle is the last one.
PendingIsLast == \A n \in Finalizing : OthersBefore(n) /\ RowsFromBelong(n)

DbInv ==
    /\ HasLatest
    /\ PlainBundles
    /\ BundlesBehindNext
    /\ PendingIsLast
    /\ BlockInOwnBundle
    /\ CompleteBundleIsOut
    /\ BundlesMeetAtOneSlot
    /\ SkippedWithItsBundle

-----------------------------------------------------------------------------
(* The loop: its bundle, and the slot a call of sync works on *)

\* The next slot lies in the bundle the loop works on, which is the last one;
\* once it is past its first slot it has its row.
DetailIsLast ==
    Running =>
        /\ detail.cal = 0 /\ 1 <= detail.start
        /\ detail.start <= Nxt /\ Nxt <= detail.end
        /\ Nxt # detail.start => detail \in DOMAIN bundleTbl
        /\ detail \in DOMAIN bundleTbl => bundleTbl[detail].status # "deprecated"
        /\ OthersBefore(detail)
        /\ RowsFromBelong(detail)

\* Where a call of sync stands.
CurIsNext ==
    /\ spc = "head" \/ spc \in Working => cur = Nxt
    /\ spc \notin Working => got = FALSE
    /\ spc = "row" => cur = detail.start
    /\ spc \in Closing => cur = detail.end
    /\ spc \in Closing \cup {"write", "save"} => detail \in DOMAIN bundleTbl
    /\ spc = "save" /\ cur = detail.end => bundleTbl[detail].status = "finalized"

\* Before the pending bundle is deprecated it is the loop's, the operator has
\* moved the start beyond it, and its slots are marked.
DeprecatingPending ==
    spc = "deprecate" =>
        /\ detail \in Finalizing
        /\ MovedBeyond(detail)
        /\ \A s \in DOMAIN blockTbl :
            blockTbl[s].bundle = detail => blockTbl[s].status = "skipped"

\* There is one pending bundle at most, and a loop that is up works on it.
PendingIsDetail ==
    /\ \A m, n \in Finalizing : m = n
    /\ spc # "down" => \A n \in Finalizing : n = detail

LoopInv == DetailIsLast /\ CurIsNext /\ DeprecatingPending /\ PendingIsDetail

-----------------------------------------------------------------------------
(* Contents: where the blobs of a recorded slot are *)

\* What was read of a slot is right unless the nodes misled the loop.
ReadRight ==
    /\ \A s \in DOMAIN blockTbl \ misread : blockTbl[s].blobs = HasBlobs(s)
    /\ spc \in Working /\ cur \notin misread => got = HasBlobs(cur)

\* The slots of bundle n that must be found with it.
Recorded(n) ==
    {s \in DOMAIN blockTbl \ misread :
        blockTbl[s].bundle = n /\ blockTbl[s].blobs}

\* The directory of a pending bundle holds what is recorded, and what the
\* loop is about to record.
DirHoldsBlobs ==
    /\ \A n \in Finalizing \cap DOMAIN tempDir : Recorded(n) \subseteq tempDir[n]
    /\ /\ spc \in Closing \cup {"save"} /\ got
       /\ detail \in DOMAIN tempDir
       => cur \in tempDir[detail]

\* An uploaded bundle holds what is recorded, and its last slot, recorded or
\* not; it is only uploaded at its last slot.
ServiceHoldsBlobs ==
    \A n \in DOMAIN svc :
        /\ Recorded(n) \subseteq svc[n].slots
        /\ n.end \notin misread /\ n.end \in Slots /\ HasBlobs(n.end) =>
            n.end \in svc[n].slots
        /\ n.end <= Nxt

\* A bundle on the way to Finalized, or there, is uploaded unless none of its
\* slots has blobs.
OutIsUploaded ==
    /\ \A n \in DOMAIN bundleTbl :
        bundleTbl[n].status = "finalized" /\ Recorded(n) # {} => n \in DOMAIN svc
    /\ /\ spc \in {"clean", "mark"} \/ (spc = "save" /\ cur = detail.end)
       /\ Recorded(detail) # {} \/ (got /\ cur \notin misread)
       => detail \in DOMAIN svc

Contents == ReadRight /\ DirHoldsBlobs /\ ServiceHoldsBlobs /\ OutIsUploaded

-----------------------------------------------------------------------------
\* The properties of BlobSyncer and what makes them inductive.  It speaks of
\* a database whose errors can be believed.
IInv == TypeOK /\ DbInv /\ LoopInv /\ Contents
=============================================================================
