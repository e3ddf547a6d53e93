----------------------------- MODULE BlobVerifier -----------------------------
(***************************************************************************)
(* The verify loop of the syncer process (syncer/verifier.go).  It takes   *)
(* the earliest recorded slot that is not verified yet, checks what the    *)
(* bundle service and Greenfield hold for it, either slot by slot          *)
(* (Detailed) or bundle by bundle, and uploads the bundle anew, under a    *)
(* calibrated name, when the check fails.                                  *)
(*                                                                         *)
(* As in BlobSyncer, one action is the code up to the next effect another  *)
(* process or a crash can see; queries whose answers only this loop or     *)
(* the progress of the service can change are part of it.                  *)
(***************************************************************************)
EXTENDS SourceChain, BundleClient

CONSTANTS
    Detailed,           \* EnableIndivBlobVerification
    ReUploadThreshold,  \* GetReUploadBundleThresh()
    MaxDamages,         \* bound on bundles damaged by the service
    MaxLosses           \* bound on bundles lost by the service

ASSUME VerifierAssumption ==
    /\ Detailed \in BOOLEAN
    /\ ReUploadThreshold \in Nat
    /\ MaxDamages \in Nat
    /\ MaxLosses \in Nat

VARIABLES
    vpc,        \* where the loop is
    vslot,      \* verifyBlock.Slot; later bi, the slot being re-recorded
    vbundle,    \* bundleName
    vnew,       \* newBundleName
    damages, losses

verifyVars == <<vpc, vslot, vbundle, vnew>>

faultVars == <<damages, losses>>

VerifyPC == {"pick", "info", "unknown", "empty", "integrity", "block", "seal",
             "deprecate", "dir", "row", "rewrite", "clean", "mark"}

NoName == GetBundleName(0, 0)

Unverified == {s \in DOMAIN blockTbl : blockTbl[s].status = "processed"}

VerifyReturn ==
    vpc' = "pick" /\ vslot' = 0 /\ vbundle' = NoName /\ vnew' = NoName

VerifyGoto(pc) == vpc' = pc /\ UNCHANGED <<vslot, vbundle, vnew>>

-----------------------------------------------------------------------------
(* verify: the slot to verify, and the state of its bundle *)

\* GetEarliestUnverifiedBlock and GetBundle; a pending bundle is waited for.
VerifyPick ==
    /\ vpc = "pick"
    /\ \E s \in Unverified :
        LET n == blockTbl[s].bundle
        IN  /\ \A t \in Unverified : s <= t
            /\ n \in DOMAIN bundleTbl
            /\ bundleTbl[n].status # "finalizing"
            /\ vslot' = s /\ vbundle' = n
            /\ vpc' = IF s = n.start \/ ~Detailed THEN "info" ELSE "block"
    /\ UNCHANGED <<vnew, faultVars, daoVars, chainVars, bundleVars>>

BlobsBetween(n) == blobTbl \cap SlotsOf(n)

\* The service does not know the bundle.
VerifyBundleNotExist ==
    /\ vpc = "info"
    /\ ~BundleExists(vbundle)
    /\ VerifyGoto("unknown")
    /\ UNCHANGED <<faultVars, daoVars, chainVars, bundleVars>>

\* A bundle without blobs was never uploaded.
VerifyNoBlobs ==
    /\ vpc = "unknown"
    /\ BlobsBetween(vbundle) = {}
    /\ VerifyGoto("empty")
    /\ UNCHANGED <<faultVars, daoVars, chainVars, bundleVars>>

\* If there are blobs the loop has nothing but an error to return.
VerifyBlobsNotFound ==
    /\ vpc = "unknown"
    /\ BlobsBetween(vbundle) # {}
    /\ VerifyReturn
    /\ UNCHANGED <<faultVars, daoVars, chainVars, bundleVars>>

\* The whole range is marked, with what has been recorded in it since.
VerifyEmptyBundle ==
    /\ vpc = "empty"
    /\ UpdateBlocksStatus(vbundle.start, vbundle.end, "verified")
    /\ VerifyGoto("seal")
    /\ UNCHANGED <<faultVars, blobTbl, bundleTbl, chainVars, bundleVars>>

\* Mutant: an object that is created will do.
SealedOnChain_Created(n) == svc[n].object # "absent"

\* The service says so, or the chain does.
SealedOnChain(n) == svc[n].info = 3 \/ svc[n].object = "sealed"

VerifySealedOnChain ==
    /\ vpc = "info"
    /\ BundleExists(vbundle)
    /\ SealedOnChain(vbundle)
    /\ VerifyGoto(IF Detailed THEN "block" ELSE "integrity")
    /\ UNCHANGED <<faultVars, daoVars, chainVars, bundleVars>>

\* Not sealed within the threshold: upload it anew.  Before that, or while
\* the object's meta data are not to be had, verify returns.
VerifyNotSealed ==
    /\ vpc = "info"
    /\ BundleExists(vbundle)
    /\ ~SealedOnChain(vbundle)
    /\ IF /\ ObjectMetaFound(vbundle)
          /\ now - bundleTbl[vbundle].created > ReUploadThreshold
       THEN VerifyGoto("deprecate")
       ELSE VerifyReturn
    /\ UNCHANGED <<faultVars, daoVars, chainVars, bundleVars>>

-----------------------------------------------------------------------------
(* verifyBundleIntegrity *)

\* Mutant: only the checksums the object has are compared.
VerifyIntegrity_Subset ==
    /\ vpc = "integrity"
    /\ BundleExists(vbundle)
    /\ ObjectMetaFound(vbundle)
    /\ \E lost \in SUBSET SlotsOf(vbundle) :
        LET R == {s \in SlotsOf(vbundle) : HasBlobs(s)} \ lost
        IN  /\ Network = "BSC" => lost = {}
            /\ \A s \in lost : HasBlobs(s)
            /\ glitches' = glitches + Cardinality(lost)
            /\ glitches' <= MaxGlitches
            /\ R # {}
            /\ IF svc[vbundle].slots \subseteq R
               THEN /\ UpdateBlocksStatus(vbundle.start, vbundle.end, "verified")
                    /\ VerifyGoto("seal")
               ELSE VerifyGoto("deprecate") /\ UNCHANGED blockTbl
    /\ UNCHANGED <<faultVars, blobTbl, bundleTbl, canon, head, finalized,
                   reorgs, misread, now, bundleVars>>

\* The bundle made again from the chain, R, against the object's checksums.
\* Of nothing no bundle can be made.
VerifyIntegrity ==
    /\ vpc = "integrity"
    /\ BundleExists(vbundle)
    /\ ObjectMetaFound(vbundle)
    /\ \E lost \in SUBSET SlotsOf(vbundle) :
        LET R == {s \in SlotsOf(vbundle) : HasBlobs(s)} \ lost
        IN  /\ Network = "BSC" => lost = {}
            /\ \A s \in lost : HasBlobs(s)
            /\ glitches' = glitches + Cardinality(lost)
            /\ glitches' <= MaxGlitches
            /\ R # {}
            /\ IF R = svc[vbundle].slots
               THEN /\ UpdateBlocksStatus(vbundle.start, vbundle.end, "verified")
                    /\ VerifyGoto("seal")
               ELSE VerifyGoto("deprecate") /\ UNCHANGED blockTbl
    /\ UNCHANGED <<faultVars, blobTbl, bundleTbl, canon, head, finalized,
                   reorgs, misread, now, bundleVars>>

-----------------------------------------------------------------------------
(* The detailed check of one slot *)

MarkVerified ==
    /\ UpdateBlocksStatus(vslot, vslot, "verified")
    /\ IF vslot = vbundle.end THEN VerifyGoto("seal") ELSE VerifyReturn

VerifyBlockWithoutBlobs ==
    /\ vpc = "block"
    /\ ~blockTbl[vslot].blobs
    /\ MarkVerified
    /\ UNCHANGED <<faultVars, blobTbl, bundleTbl, chainVars, bundleVars>>

\* Mutant: only the numbers of blobs are compared.
VerifyBlock_CountsOnly ==
    /\ vpc = "block"
    /\ blockTbl[vslot].blobs
    /\ \E sidecars \in BOOLEAN :
        /\ GetBlob(vslot, sidecars)
        /\ IF sidecars = (vslot \in blobTbl)
           THEN MarkVerified
           ELSE VerifyGoto("deprecate") /\ UNCHANGED blockTbl
    /\ UNCHANGED <<faultVars, blobTbl, bundleTbl, canon, head, finalized,
                   reorgs, misread, now, bundleVars>>

\* Each sidecar of the chain is in the bundle.
VerifyBlobsAtBlock(s, sidecars, n) == sidecars => GetObject(n, s)

\* As many blobs as the chain has, and each of them right.
VerifyBlock ==
    /\ vpc = "block"
    /\ blockTbl[vslot].blobs
    /\ \E sidecars \in BOOLEAN :
        /\ GetBlob(vslot, sidecars)
        /\ IF /\ sidecars = (vslot \in blobTbl)
              /\ VerifyBlobsAtBlock(vslot, sidecars, vbundle)
           THEN MarkVerified
           ELSE VerifyGoto("deprecate") /\ UNCHANGED blockTbl
    /\ UNCHANGED <<faultVars, blobTbl, bundleTbl, canon, head, finalized,
                   reorgs, misread, now, bundleVars>>

\* The second transaction after either check.
VerifySeal ==
    /\ vpc = "seal"
    /\ UpdateBundleStatus(vbundle, "sealed")
    /\ VerifyReturn
    /\ UNCHANGED <<faultVars, blockTbl, blobTbl, chainVars, bundleVars>>

-----------------------------------------------------------------------------
(* reUploadBundle *)

VerifyDeprecate ==
    /\ vpc = "deprecate"
    /\ UpdateBundleStatus(vbundle, "deprecated")
    /\ vnew' = CalibratedName(vbundle, now)
    /\ vpc' = "dir"
    /\ UNCHANGED <<vslot, vbundle, faultVars, blockTbl, blobTbl, chainVars,
                   bundleVars>>

VerifyMakeDir ==
    /\ vpc = "dir"
    /\ MakeBundleDir(vnew)
    /\ VerifyGoto("row")
    /\ UNCHANGED <<faultVars, svc, daoVars, chainVars>>

\* Mutant: the new bundle gets no row.
VerifyCreateBundle_Forgotten ==
    /\ vpc = "row"
    /\ vpc' = "rewrite" /\ vslot' = vbundle.start
    /\ UNCHANGED <<vbundle, vnew, faultVars, daoVars, chainVars, bundleVars>>

VerifyCreateBundle ==
    /\ vpc = "row"
    /\ CreateBundle(vnew, now)
    /\ vpc' = "rewrite" /\ vslot' = vbundle.start
    /\ UNCHANGED <<vbundle, vnew, faultVars, blockTbl, blobTbl, chainVars,
                   bundleVars>>

\* Mutant: the rows keep the name of the old bundle.
VerifyRewrite_OldName ==
    /\ vpc = "rewrite"
    /\ vslot <= vbundle.end
    /\ vnew \in DOMAIN tempDir
    /\ \E sidecars \in BOOLEAN :
        /\ GetBlob(vslot, sidecars)
        /\ WriteBlobToFile(vnew, vslot, sidecars)
        /\ IF Network = "ETH" /\ BlockNotFound(vslot)
           THEN UNCHANGED <<blockTbl, blobTbl, misread>>
           ELSE /\ vslot \in DOMAIN blockTbl
                /\ SaveBlockAndBlob(vslot, vbundle, sidecars)
                /\ Misread(vslot, sidecars)
    /\ vslot' = vslot + 1
    /\ UNCHANGED <<vpc, vbundle, vnew, faultVars, bundleTbl, canon, head,
                   finalized, reorgs, now, svc>>

\* One round of the loop over the slots.  A slot whose block is not found on
\* ETH is left as it is recorded.
VerifyRewrite ==
    /\ vpc = "rewrite"
    /\ vslot <= vbundle.end
    /\ vnew \in DOMAIN tempDir
    /\ \E sidecars \in BOOLEAN :
        /\ GetBlob(vslot, sidecars)
        /\ WriteBlobToFile(vnew, vslot, sidecars)
        /\ IF Network = "ETH" /\ BlockNotFound(vslot)
           THEN UNCHANGED <<blockTbl, blobTbl, misread>>
           ELSE /\ vslot \in DOMAIN blockTbl
                /\ SaveBlockAndBlob(vslot, vnew, sidecars)
                /\ Misread(vslot, sidecars)
    /\ vslot' = vslot + 1
    /\ UNCHANGED <<vpc, vbundle, vnew, faultVars, bundleTbl, canon, head,
                   finalized, reorgs, now, svc>>

\* A slot of the range that the sync loop has not recorded yet is an error.
VerifyNotRecorded ==
    /\ vpc = "rewrite"
    /\ vslot <= vbundle.end
    /\ vslot \notin DOMAIN blockTbl
    /\ vnew \in DOMAIN tempDir
    /\ ~(Network = "ETH" /\ BlockNotFound(vslot))
    /\ \E sidecars \in BOOLEAN :
        GetBlob(vslot, sidecars) /\ WriteBlobToFile(vnew, vslot, sidecars)
    /\ VerifyReturn
    /\ UNCHANGED <<faultVars, daoVars, canon, head, finalized, reorgs, misread,
                   now, svc>>

\* finalizeBundle
VerifyUpload ==
    /\ vpc = "rewrite"
    /\ vslot > vbundle.end
    /\ vnew \in DOMAIN tempDir
    /\ UploadAndFinalizeBundle(vnew)
    /\ VerifyGoto("clean")
    /\ UNCHANGED <<faultVars, tempDir, daoVars, chainVars>>

VerifyUploadReplyLost ==
    /\ vpc = "rewrite"
    /\ vslot > vbundle.end
    /\ vnew \in DOMAIN tempDir
    /\ tempDir[vnew] # {}
    /\ UploadAndFinalizeBundle(vnew)
    /\ VerifyReturn
    /\ UNCHANGED <<faultVars, tempDir, daoVars, chainVars>>

VerifyRemoveDir ==
    /\ vpc = "clean"
    /\ RemoveBundleDir(vnew)
    /\ VerifyGoto("mark")
    /\ UNCHANGED <<faultVars, svc, daoVars, chainVars>>

VerifyMarkFinalized ==
    /\ vpc = "mark"
    /\ UpdateBundleStatus(vnew, "finalized")
    /\ VerifyReturn
    /\ UNCHANGED <<faultVars, blockTbl, blobTbl, chainVars, bundleVars>>

-----------------------------------------------------------------------------
\* Every step but RemoveAll may fail; StartLoop calls verify again.
VerifyError ==
    /\ vpc \notin {"pick", "clean"}
    /\ VerifyReturn
    /\ UNCHANGED <<faultVars, daoVars, chainVars, bundleVars>>

ServiceStep ==
    /\ \E n \in DOMAIN svc :
        CreateObject(n) \/ SealObject(n) \/ RefreshInfo(n)
    /\ UNCHANGED <<tempDir, verifyVars, faultVars, daoVars, chainVars>>

ServiceDamage ==
    /\ damages < MaxDamages
    /\ damages' = damages + 1
    /\ \E n \in DOMAIN svc : DamageBundle(n)
    /\ UNCHANGED <<tempDir, losses, verifyVars, daoVars, chainVars>>

ServiceLoss ==
    /\ losses < MaxLosses
    /\ losses' = losses + 1
    /\ \E n \in DOMAIN svc : LoseBundle(n)
    /\ UNCHANGED <<tempDir, damages, verifyVars, daoVars, chainVars>>

VerifyStep ==
    \/ VerifyPick
    \/ VerifyBundleNotExist \/ VerifyNoBlobs \/ VerifyBlobsNotFound
    \/ VerifyEmptyBundle
    \/ VerifySealedOnChain \/ VerifyNotSealed
    \/ VerifyIntegrity \/ VerifyBlockWithoutBlobs \/ VerifyBlock \/ VerifySeal
    \/ VerifyDeprecate \/ VerifyMakeDir \/ VerifyCreateBundle
    \/ VerifyRewrite \/ VerifyNotRecorded
    \/ VerifyUpload \/ VerifyRemoveDir \/ VerifyMarkFinalized

ServiceNext == ServiceStep \/ ServiceDamage \/ ServiceLoss

VerifyInit ==
    /\ vpc = "pick" /\ vslot = 0 /\ vbundle = NoName /\ vnew = NoName
    /\ damages = 0 /\ losses = 0

VerifyTypeOK ==
    /\ vpc \in VerifyPC
    /\ vslot \in 0 .. MaxSlot + 1
    /\ vbundle \in Name /\ vnew \in Name
    /\ damages \in 0 .. MaxDamages
    /\ losses \in 0 .. MaxLosses
=============================================================================
