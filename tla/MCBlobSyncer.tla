----------------------------- MODULE MCBlobSyncer -----------------------------
(***************************************************************************)
(* Instances of BlobSyncer for TLC.  A chain is written as the content of  *)
(* slots 1, 2, ...                                                         *)
(***************************************************************************)
EXTENDS BlobSyncerInv

b == "blobs"
e == "empty"
m == "missed"

\* Four slots of ETH: blobs, none at all, and missed slots at the start, in
\* the middle and at the end of a bundle.
EthChains ==
    {<<b, b, b, b>>, <<b, e, e, b>>, <<e, e, b, b>>, <<b, m, b, m>>,
     <<m, b, e, m>>}

\* Chains that fork: slot 2 or 3 missed on one branch, with blobs on another.
ForkedChains == {<<b, b, b, e>>, <<b, m, b, e>>, <<b, b, m, e>>}

\* BSC, which has no missed blocks, before finality: the blobs are in block 2 or
\* in block 3, or in both.
ForkedBscChains == {<<b, b, e, b>>, <<b, e, b, b>>, <<b, b, b, e>>}
=============================================================================
