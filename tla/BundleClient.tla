----------------------------- MODULE BundleClient -----------------------------
(***************************************************************************)
(* A bundle on its way out of the process: the temp directory its blob     *)
(* files are collected in, the bundle service it is uploaded to and the    *)
(* object the service makes of it on BNB Greenfield.                       *)
(*                                                                         *)
(* The bundle service and Greenfield are not part of the repository; they  *)
(* are modelled from external/cmn and from what the two loops do with the  *)
(* answers.  The files of one slot are one datum, a directory or a bundle  *)
(* the set of slots whose blobs it holds.                                  *)
(***************************************************************************)
EXTENDS BlobDao

VARIABLES
    tempDir,    \* bundle name -> slots whose blob files lie in its directory
    svc         \* bundle name -> [slots, info, object] in the bundle service

bundleVars == <<tempDir, svc>>

\* QueryBundleResponse.Status: BundleStatusFinalized .. SealedOnChain
InfoStatus == 1 .. 3

\* The object on Greenfield; "absent" makes GetObjectMeta fail.
ObjectStatus == {"absent", "created", "sealed"}

NewBundle(slots) == [slots |-> slots, info |-> 1, object |-> "absent"]

\* MkdirAll, unless Stat finds the directory.
MakeBundleDir(n) ==
    tempDir' = IF n \in DOMAIN tempDir THEN tempDir ELSE Put(tempDir, n, {})

\* Mutant: the files of every slot have the same names.
WriteBlobToFile_SameNames(n, s, blobs) ==
    tempDir' = IF blobs THEN [tempDir EXCEPT ![n] = {s}] ELSE tempDir

\* writeBlobToFile: creates or truncates the files; nothing to do, and no
\* error, when there are no blobs.
WriteBlobToFile(n, s, blobs) ==
    tempDir' = IF blobs THEN [tempDir EXCEPT ![n] = @ \cup {s}] ELSE tempDir

RemoveBundleDir(n) == tempDir' = Drop(tempDir, n)

\* Mutant: no bundle is ever found.
BundleExists_Never(n) == FALSE

\* GetBundleInfo: anything but 404 (ErrorBundleNotExist).
BundleExists(n) == n \in DOMAIN svc

\* GetObject: the service has the bundle, and the blobs of slot s in it.
GetObject(n, s) == BundleExists(n) /\ s \in svc[n].slots

\* GetObjectMeta of the bundle's object does not fail.
ObjectMetaFound(n) == svc[n].object # "absent"

\* UploadAndFinalizeBundle of a directory that exists (else Walk fails): the
\* SDK refuses to finalise an empty bundle and nothing is sent; a bundle the
\* service has already is refused with "Object exists".
UploadAndFinalizeBundle(n) ==
    svc' = IF tempDir[n] = {} \/ BundleExists(n) THEN svc
           ELSE Put(svc, n, NewBundle(tempDir[n]))

-----------------------------------------------------------------------------
(* The bundle service and Greenfield, on their own *)

\* The service creates the object of a bundle, a storage provider seals it,
\* the service learns of either.  A sealed object does not change any more.
CreateObject(n) ==
    /\ svc[n].object = "absent"
    /\ svc' = [svc EXCEPT ![n].object = "created"]

SealObject(n) ==
    /\ svc[n].object = "created"
    /\ svc' = [svc EXCEPT ![n].object = "sealed"]

RefreshInfo(n) ==
    /\ svc[n].info < (IF svc[n].object = "sealed" THEN 3
                      ELSE IF svc[n].object = "created" THEN 2 ELSE 1)
    /\ svc' = [svc EXCEPT ![n].info = @ + 1]

\* The blobs of one slot are damaged before the object is sealed.
DamageBundle(n) ==
    /\ svc[n].object # "sealed"
    /\ \E s \in svc[n].slots : svc' = [svc EXCEPT ![n].slots = @ \ {s}]

\* The service loses a bundle it has not put on Greenfield yet.
LoseBundle(n) == svc[n].object = "absent" /\ svc' = Drop(svc, n)

BundleTypeOK ==
    /\ DOMAIN tempDir \subseteq Name
    /\ tempDir \in [DOMAIN tempDir -> SUBSET Slots]
    /\ DOMAIN svc \subseteq Name
    /\ svc \in [DOMAIN svc -> [slots : SUBSET Slots, info : InfoStatus,
                               object : ObjectStatus]]

BundleInit ==
    /\ tempDir = EmptyTable
    /\ svc = EmptyTable
=============================================================================
