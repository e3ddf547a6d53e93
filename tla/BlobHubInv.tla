------------------------------ MODULE BlobHubInv ------------------------------
(***************************************************************************)
(* The inductive invariant of BlobHub: what both loops may rely on between *)
(* two steps of either, whatever rows the verify loop has moved to another *)
(* bundle and wherever a crash has stopped the two.  It is weaker about    *)
(* bundles than that of BlobSyncerInv, whose rows stay where they were     *)
(* recorded, and it speaks of the rows' contents whoever wrote them last.  *)
(* TLC checks it as an invariant, BlobHub_proof proves it inductive.       *)
(***************************************************************************)
EXTENDS BlobHub, BlobSyncerInv

-----------------------------------------------------------------------------
(* The database *)

\* A bundle's range is not empty and begins no later than at the next slot.
BundlesStartBehindNext ==
    \A n \in DOMAIN bundleTbl :
        1 <= n.start /\ n.start <= n.end /\ n.start <= Nxt

\* A bundle that is not pending but ends beyond the last slot was given up by
\* LoadProgressAndResume: it has no slot left for the verify loop to take.
GivenUp(n) ==
    /\ n.end < Nxt
    /\ \A s \in DOMAIN blockTbl :
        blockTbl[s].bundle = n => blockTbl[s].status # "processed"

OutEndsInSlots ==
    \A n \in DOMAIN bundleTbl \ Finalizing : n.end \in Slots \/ GivenUp(n)

HubDb ==
    HasLatest /\ BundlesStartBehindNext /\ OutEndsInSlots /\ BlockInOwnBundle

-----------------------------------------------------------------------------
(* The sync loop *)

\* A bundle being deprecated lies behind the next slot, its slots marked.
DeprecatingGivenUp == spc = "deprecate" => detail.cal = 0 /\ GivenUp(detail)

\* The next slot lies in the loop's bundle, which has its row once the slot is
\* past its first one.
DetailHasNext ==
    Running =>
        /\ detail.cal = 0 /\ 1 <= detail.start
        /\ detail.start <= Nxt /\ Nxt <= detail.end
        /\ Nxt # detail.start => detail \in DOMAIN bundleTbl

\* Where a call of sync stands.
CallAtNext ==
    /\ spc = "head" \/ spc \in Working => cur = Nxt
    /\ spc \notin Working => got = FALSE
    /\ spc \in Closing => cur = detail.end
    /\ spc \in Closing \cup {"write", "save"} => detail \in DOMAIN bundleTbl
    /\ spc = "save" /\ cur = detail.end => detail \notin Finalizing

HubLoop == PendingIsDetail /\ DeprecatingGivenUp /\ DetailHasNext /\ CallAtNext

-----------------------------------------------------------------------------
(* The verify loop *)

\* reUploadBundle: from the new bundle's name on, and from its row on.
ReUploading == {"dir", "row", "rewrite", "clean", "mark"}

ReUploadRecorded == {"rewrite", "clean", "mark"}

\* The bundle under verification is out and ends in a slot, the one it is
\* uploaded anew as covers the same range, and reUploadBundle goes through it.
VerifyInRange ==
    /\ vpc # "pick" =>
        /\ vbundle \in DOMAIN bundleTbl
        /\ bundleTbl[vbundle].status # "finalizing"
        /\ vbundle.end \in Slots
    /\ vpc \in ReUploading =>
        /\ vnew.start = vbundle.start /\ vnew.end = vbundle.end
        /\ vnew.cal > 0
    /\ vpc \in ReUploadRecorded => vnew \in DOMAIN bundleTbl
    /\ vpc = "rewrite" => vbundle.start <= vslot /\ vslot <= vbundle.end + 1

-----------------------------------------------------------------------------
(* Contents: what the tables say of the chain *)

\* Row and blob rows of a slot, whichever loop wrote them last, are right
\* unless the nodes misled that loop; so is what sync is about to record.
RowsAsOnChain ==
    /\ blobTbl \subseteq DOMAIN blockTbl
    /\ \A s \in DOMAIN blockTbl \ misread :
        /\ blockTbl[s].blobs = HasBlobs(s)
        /\ s \in blobTbl <=> HasBlobs(s)
    /\ spc \in Working /\ cur \notin misread => got = HasBlobs(cur)

-----------------------------------------------------------------------------
\* What makes the properties of BlobHub inductive.  It speaks of a database
\* whose errors can be believed.
HubInv == HubTypeOK /\ HubDb /\ HubLoop /\ VerifyInRange /\ RowsAsOnChain

-----------------------------------------------------------------------------
(* What is verified is on Greenfield: on BSC, without crashes and with a     *)
(* service that loses no bundle.  A crash can make two bundles share a slot, *)
(* and a lost bundle counts as one without blobs.                            *)

\* The bundle has been announced, and with it its whole range.
Announced(n) == n \in DOMAIN bundleTbl /\ bundleTbl[n].status # "finalizing"

HoldsBlobs(n) == \E s \in SlotsOf(n) : HasBlobs(s)

Sealed(n) == n \in DOMAIN svc /\ svc[n].object = "sealed"

SameRange(m, n) == m.start = n.start /\ m.end = n.end

\* Slots are recorded one after another and none is given up; the loop has
\* its bundle from the boot on.
RowsInOrder ==
    /\ DOMAIN blockTbl = cfg.start .. Nxt - 1
    /\ \A s \in DOMAIN blockTbl : blockTbl[s].status # "skipped"
    /\ spc # "deprecate"
    /\ spc = "down" => DOMAIN bundleTbl = {}

\* Two bundles cover the same slots, one of them anew, or have none in common;
\* those of other ranges lie behind the bundle the sync loop works on.
RangesApart ==
    /\ \A n \in DOMAIN bundleTbl : cfg.start <= n.start
    /\ \A m, n \in DOMAIN bundleTbl :
        SameRange(m, n) \/ m.end < n.start \/ n.end < m.start
    /\ Running =>
        /\ cfg.start <= detail.start
        /\ \A n \in DOMAIN bundleTbl : SameRange(n, detail) \/ n.end < detail.start

\* Every slot of a bundle that is out is final; it is recorded, but perhaps for
\* the last one of a bundle of the sync loop.
OutIsFinal ==
    \A n \in DOMAIN bundleTbl :
        Announced(n) =>
            /\ n.end <= finalized
            /\ n.end <= Nxt
            /\ n.cal > 0 => n.end < Nxt

\* A bundle that is out is with the service, unless it has no blobs.
OutIsHeld == \A n \in DOMAIN bundleTbl : Announced(n) /\ HoldsBlobs(n) => n \in DOMAIN svc

\* The directory of a bundle some of whose slots have blobs is not taken for
\* that of a bundle without blobs: neither the sync loop's, nor the one the
\* verify loop fills anew.
DetailDirNotEmpty ==
    /\ Running
    /\ detail \in DOMAIN tempDir
    /\ \/ \E s \in SlotsOf(detail) : s < Nxt /\ HasBlobs(s)
       \/ spc \in Closing \cup {"save"} /\ got
    => tempDir[detail] # {}

NewDirNotEmpty ==
    /\ vpc = "rewrite"
    /\ vnew \in DOMAIN tempDir
    /\ \E s \in SlotsOf(vbundle) : s < vslot /\ HasBlobs(s)
    => tempDir[vnew] # {}

\* What either loop is about to mark Finalized is with the service.
DetailIsHeld ==
    spc \in {"clean", "mark"} /\ HoldsBlobs(detail) => detail \in DOMAIN svc

NewIsHeld ==
    vpc \in {"clean", "mark"} /\ HoldsBlobs(vbundle) => vnew \in DOMAIN svc

UploadedIsHeld ==
    DetailDirNotEmpty /\ NewDirNotEmpty /\ DetailIsHeld /\ NewIsHeld

\* The slots of a range are all in one bundle, unless the first one has been
\* moved to one that is not out: no slot of the range is taken up then.  A
\* pending bundle has all that is recorded of its range.
RangeInOneBundle ==
    /\ \A s \in DOMAIN blockTbl :
        LET first == blockTbl[blockTbl[s].bundle.start].bundle
        IN  first = blockTbl[s].bundle \/ ~Announced(first)
    /\ \A n \in Finalizing, s \in DOMAIN blockTbl :
        s \in SlotsOf(n) => blockTbl[s].bundle = n

\* Of the bundles of a slot that are out, it is in the latest.
InLatestBundle ==
    \A n \in DOMAIN bundleTbl :
        /\ n.cal <= now
        /\ \A s \in DOMAIN blockTbl \cap SlotsOf(n) :
            Announced(n) => n.cal <= blockTbl[s].bundle.cal

\* The bundles of the slots the verify loop is about.
VerifyHolds ==
    LET mine == DOMAIN blockTbl \cap SlotsOf(vbundle)
    IN  /\ vpc # "pick" => vbundle.start < Nxt
        /\ vpc \in {"info", "block"} => vslot \in mine
        /\ vpc \in {"info", "unknown", "empty", "integrity", "block", "seal",
                   "deprecate", "dir", "row"}
                => \A s \in mine : blockTbl[s].bundle = vbundle
        /\ vpc \in ReUploading =>
            /\ vbundle.cal <= vnew.cal /\ vnew.cal <= now
            /\ vnew = vbundle \/ ~Announced(vnew)
        /\ vpc = "rewrite" =>
            /\ vslot <= Nxt
            /\ \A s \in mine :
                blockTbl[s].bundle = IF s < vslot THEN vnew ELSE vbundle
        /\ vpc \in {"clean", "mark"} =>
            /\ vbundle.end < Nxt
            /\ \A s \in mine : blockTbl[s].bundle = vnew

\* A verified slot is in a bundle that is out, sealed unless it has no blobs,
\* and holds the slot's; the verify loop knows as much before it marks a slot.
SealedWhenVerified ==
    /\ \A n \in DOMAIN svc : svc[n].info = 3 => svc[n].object = "sealed"
    /\ \A s \in DOMAIN blockTbl :
        LET n == blockTbl[s].bundle
        IN  blockTbl[s].status = "verified" =>
                /\ Announced(n)
                /\ HoldsBlobs(n) => Sealed(n)
                /\ HasBlobs(s) => s \in svc[n].slots
    /\ vpc = "integrity" \/ (vpc = "block" /\ HoldsBlobs(vbundle)) => Sealed(vbundle)
    /\ vpc \in {"unknown", "empty"} => ~HoldsBlobs(vbundle)

\* What makes VerifiedIsInGreenfield and VerifiedBundleIsWhole inductive,
\* beside HubInv and the finality of what is read.
GreenfieldInv ==
    /\ RowsInOrder /\ RangesApart
    /\ OutIsFinal /\ OutIsHeld /\ UploadedIsHeld
    /\ RangeInOneBundle /\ InLatestBundle /\ VerifyHolds /\ SealedWhenVerified
=============================================================================
