------------------------------ MODULE MCBlobHub ------------------------------
(***************************************************************************)
(* Instances of BlobHub for TLC.  A chain is written as the content of     *)
(* slots 1, 2, ...                                                         *)
(***************************************************************************)
EXTENDS BlobHubInv

b == "blobs"
e == "empty"
m == "missed"

\* A bundle with blobs and one without.
HubChains == {<<b, b, e, e>>, <<b, e, b, b>>}

CrashChains == {<<b, b, b>>, <<b, e, b>>}

\* Blobs in every bundle.
BusyHubChains == {<<e, b, b, e>>}

ThreeSlots == {<<b, b, b>>, <<e, b, b>>}

\* A bundle of three slots, two of them with blobs, the first among them, and
\* one without.
TwoBlobs ==
    {<<b, m, b, e, e, m>>, <<b, b, e, m, e, e>>, <<e, m, e, b, b, m>>}

OneBundle == {<<b, b>>}
=============================================================================
