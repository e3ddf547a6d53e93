----------------------------- MODULE BlobArchive -----------------------------
(***************************************************************************)
(* What the sync loop promises to the verify loop and to the server, with  *)
(* no bundles, directories, retries or crashes in it.                      *)
(*                                                                         *)
(* Slots are recorded once, in increasing order, with the fact whether     *)
(* they have blobs.  A recorded slot is announced as published - its       *)
(* bundle is Finalized - only when the store holds its blobs, and what is  *)
(* published or held stays so.                                             *)
(***************************************************************************)
EXTENDS Integers

CONSTANT Slots

VARIABLES
    recorded,   \* the recorded slots
    withBlobs,  \* those that have blobs
    held,       \* slots whose blobs the store holds
    published   \* recorded slots announced as published

archive == <<recorded, withBlobs, held, published>>

ArchiveInit ==
    recorded = {} /\ withBlobs = {} /\ held = {} /\ published = {}

Upload ==
    /\ \E S \in SUBSET Slots : held' = held \cup S
    /\ UNCHANGED <<recorded, withBlobs, published>>

\* The slots S may be announced.
Publishable(S, blobs) == S \cap blobs \subseteq held

\* Slot s is recorded; it is published along with it when its bundle is out.
Record(s) ==
    /\ \A r \in recorded : r < s
    /\ recorded' = recorded \cup {s}
    /\ withBlobs' \in {withBlobs, withBlobs \cup {s}}
    /\ \/ UNCHANGED published
       \/ Publishable({s}, withBlobs') /\ published' = published \cup {s}
    /\ UNCHANGED held

Publish ==
    /\ \E S \in SUBSET recorded :
        Publishable(S, withBlobs) /\ published' = published \cup S
    /\ UNCHANGED <<recorded, withBlobs, held>>

ArchiveNext == Upload \/ Publish \/ \E s \in Slots : Record(s)

ArchiveSpec == ArchiveInit /\ [][ArchiveNext]_archive
=============================================================================
