------------------------------- MODULE BlobDao -------------------------------
(***************************************************************************)
(* The database of blob-hub (db/): the tables block, blob and bundle, and  *)
(* the operations of BlobDao on them.  Both loops of the syncer process    *)
(* use it; each operation is one MySQL transaction, hence one step.        *)
(*                                                                         *)
(* A row keeps only the columns that control flow reads.  All the blobs of *)
(* one slot are one datum: a row of table block says whether BlobCount is  *)
(* positive, table blob is the set of slots that have blob rows.           *)
(***************************************************************************)
EXTENDS Integers, FiniteSets

CONSTANT
    MaxSlot     \* the last slot (ETH) or block number (BSC) of the model

ASSUME MaxSlotAssumption == MaxSlot \in Nat \ {0}

VARIABLES
    blockTbl,   \* table block: slot -> [status, bundle, blobs]
    blobTbl,    \* table blob: the slots that have blob rows
    bundleTbl   \* table bundle: name -> [id, status, created]

daoVars == <<blockTbl, blobTbl, bundleTbl>>

Slots == 1 .. MaxSlot

BlockStatus == {"processed", "verified", "skipped"}

BundleStatus == {"finalizing", "finalized", "sealed", "deprecated"}

(***************************************************************************)
(* blobs_s<start>_e<end>, and blobs_s<start>_e<end>_calibrated_<unix time> *)
(* for a re-uploaded bundle: cal is that time, 0 for the plain form.  The  *)
(* column Calibrated is cal > 0.  GetBundleName and ParseBundleName are    *)
(* inverse to each other on the two numbers, so a name is its parts.       *)
(***************************************************************************)
Name == [start : Nat, end : Nat, cal : Nat]

GetBundleName(s, e) == [start |-> s, end |-> e, cal |-> 0]

CalibratedName(n, t) == [n EXCEPT !.cal = t]

SlotsOf(n) == n.start .. n.end       \* the slots a bundle's name stands for

EmptyTable == [x \in {} |-> 0]

Put(f, k, v) == [x \in DOMAIN f \cup {k} |-> IF x = k THEN v ELSE f[x]]

Drop(f, k) == [x \in DOMAIN f \ {k} |-> f[x]]

-----------------------------------------------------------------------------
(* Queries *)

\* GetLatestProcessedBlock: the row of the greatest slot; "not found" is
\* swallowed and leaves the zero Block, whose slot is 0.
GetLatestProcessedBlock ==
    IF DOMAIN blockTbl = {} THEN 0
    ELSE CHOOSE s \in DOMAIN blockTbl : \A t \in DOMAIN blockTbl : t <= s

Finalizing ==
    {n \in DOMAIN bundleTbl : bundleTbl[n].status = "finalizing" /\ n.cal = 0}

\* GetLatestFinalizingBundle: order by id desc, calibrated bundles left out.
\* Only meaningful when Finalizing # {} (else gorm.ErrRecordNotFound).
GetLatestFinalizingBundle ==
    CHOOSE n \in Finalizing :
        \A m \in Finalizing : bundleTbl[m].id <= bundleTbl[n].id

-----------------------------------------------------------------------------
(* Updates: the new value of the table an operation writes *)

\* Mutant: the end of the range is left out.
BlocksWithStatus_EndExclusive(s, e, st) ==
    [b \in DOMAIN blockTbl |->
        IF s <= b /\ b < e THEN [blockTbl[b] EXCEPT !.status = st]
        ELSE blockTbl[b]]

BlocksWithStatus(s, e, st) ==
    [b \in DOMAIN blockTbl |->
        IF s <= b /\ b <= e THEN [blockTbl[b] EXCEPT !.status = st]
        ELSE blockTbl[b]]

UpdateBlocksStatus(s, e, st) == blockTbl' = BlocksWithStatus(s, e, st)

\* A duplicate of the unique index on name is ignored.
CreateBundle(n, t) ==
    bundleTbl' =
        IF n \in DOMAIN bundleTbl THEN bundleTbl
        ELSE Put(bundleTbl, n, [id |-> Cardinality(DOMAIN bundleTbl) + 1,
                                status |-> "finalizing", created |-> t])

UpdateBundleStatus(n, st) ==
    bundleTbl' = [m \in DOMAIN bundleTbl |->
                    IF m = n THEN [bundleTbl[m] EXCEPT !.status = st]
                    ELSE bundleTbl[m]]

\* toBlockAndBlobs: the row made of a block and its sidecars.  For a forked
\* slot the row is empty but for its bundle; Processed is the zero status.
ToBlock(n, blobs) == [status |-> "processed", bundle |-> n, blobs |-> blobs]

\* Mutant: the slot's blobs get no rows.
SaveBlockAndBlob_BlockOnly(s, n, blobs) ==
    /\ blockTbl' = Put(blockTbl, s, ToBlock(n, blobs))
    /\ UNCHANGED blobTbl

\* Without an Id the row is inserted (the sync loop, whose slot is greater than
\* every recorded one); with the Id of an earlier row all of that row is
\* overwritten, its status included.  Blob rows are upserted, none is deleted.
SaveBlockAndBlob(s, n, blobs) ==
    /\ blockTbl' = Put(blockTbl, s, ToBlock(n, blobs))
    /\ blobTbl' = IF blobs THEN blobTbl \cup {s} ELSE blobTbl

-----------------------------------------------------------------------------
DaoTypeOK ==
    /\ DOMAIN blockTbl \subseteq Slots
    /\ blockTbl \in [DOMAIN blockTbl ->
                        [status : BlockStatus, bundle : Name, blobs : BOOLEAN]]
    /\ blobTbl \subseteq Slots
    /\ DOMAIN bundleTbl \subseteq Name
    /\ IsFiniteSet(DOMAIN bundleTbl)
    /\ bundleTbl \in [DOMAIN bundleTbl ->
                        [id : Nat, status : BundleStatus, created : Nat]]

DaoInit ==
    /\ blockTbl = EmptyTable
    /\ blobTbl = {}
    /\ bundleTbl = EmptyTable
=============================================================================
