------------------------------- MODULE BlobHub -------------------------------
(***************************************************************************)
(* The syncer process: the sync loop and the verify loop side by side on   *)
(* one database, one temp directory and one bundle service.  They share    *)
(* nothing else and take no locks; a crash stops both.                     *)
(***************************************************************************)
EXTENDS BlobSyncer, BlobVerifier

hubVars == <<vars, verifyVars, faultVars>>

HubInit == Init /\ VerifyInit

HubSync ==
    /\ SyncBoot \/ SyncStep \/ SyncUploadReplyLost \/ SyncSaveAckLost \/ SyncError
    /\ UNCHANGED <<verifyVars, faultVars>>

HubVerify ==
    /\ VerifyStep \/ VerifyUploadReplyLost \/ VerifyError
    /\ UNCHANGED syncVars

HubService == ServiceNext /\ UNCHANGED syncVars

HubChain == ChainStep /\ UNCHANGED <<verifyVars, faultVars>>

HubCrash == SyncCrash /\ VerifyReturn /\ UNCHANGED faultVars

HubNext == HubSync \/ HubVerify \/ HubService \/ HubChain \/ HubCrash

HubSpec == HubInit /\ [][HubNext]_hubVars

\* A call that fails, told from a call that returns without an error by what
\* it leaves behind.
HubFault ==
    \/ SyncUploadReplyLost \/ SyncSaveAckLost \/ (SyncError /\ ~SyncStep)
    \/ VerifyUploadReplyLost \/ (VerifyError /\ ~VerifyStep)

(***************************************************************************)
(* Fairness.  Either ticker calls its loop for ever and a loop goes on     *)
(* when it can; the chain moves on; the service creates and the storage    *)
(* providers seal the objects.  Nodes, service and database may fail often *)
(* but not for ever.                                                       *)
(***************************************************************************)
HubFairness ==
    /\ WF_hubVars(HubSync /\ (SyncBoot \/ SyncStep))
    /\ WF_hubVars(HubVerify /\ VerifyStep)
    /\ WF_hubVars(HubService /\ ServiceStep)
    /\ WF_hubVars(HubChain /\ head' # head)
    /\ WF_hubVars(HubChain /\ finalized' # finalized)
    /\ <>[][~HubFault]_hubVars

HubFairSpec == HubSpec /\ HubFairness

-----------------------------------------------------------------------------
(* Properties *)

\* Types of the verify loop's variables along with those of the sync loop.
HubTypeOK == TypeOK /\ VerifyTypeOK

\* The blobs of a slot marked Verified are in the slot's own bundle and that
\* bundle is sealed on Greenfield (verifier.go: "verify the blob uploaded to
\* bundle service is indeed in Greenfield, and the integrity").
VerifiedIsInGreenfield ==
    \A s \in DOMAIN blockTbl \ misread :
        LET n == blockTbl[s].bundle
        IN  blockTbl[s].status = "verified" /\ blockTbl[s].blobs =>
                /\ n \in DOMAIN svc
                /\ svc[n].object = "sealed"
                /\ s \in svc[n].slots

\* Whatever was recorded, the bundle of a slot marked Verified holds the blobs
\* the chain has at that slot.
VerifiedBundleIsWhole ==
    \A s \in DOMAIN blockTbl :
        LET n == blockTbl[s].bundle
        IN  blockTbl[s].status = "verified" /\ HasBlobs(s) =>
                n \in DOMAIN svc /\ s \in svc[n].slots

\* Neither loop takes a slot away that the other one has recorded, and what
\* was verified is verified again only after it moved to another bundle.
ReverifiedOnlyAfterReUpload ==
    [][\A s \in DOMAIN blockTbl :
        /\ s \in DOMAIN blockTbl'
        /\ blockTbl[s].status = "verified" /\ blockTbl'[s].status = "processed"
            => blockTbl'[s].bundle.cal > 0]_hubVars

\* Every recorded slot is eventually verified or given up (verifier.go: "the
\* re-uploaded bundle will be verified as well, until the verification is
\* successful").
EveryBlockVerified ==
    \A s \in Slots :
        s \in DOMAIN blockTbl /\ blockTbl[s].bundle.end <= MaxSlot
            ~> s \in DOMAIN blockTbl /\ blockTbl[s].status # "processed"
=============================================================================
