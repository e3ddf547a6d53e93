----------------------------- MODULE BlobHubServer -----------------------------
(***************************************************************************)
(* The two processes together: the syncer writes the database and the      *)
(* bundles, the API server reads them.  They share nothing else.           *)
(***************************************************************************)
EXTENDS BlobHub, BlobServer

allVars == <<hubVars, serverVars>>

HubServerInit == HubInit /\ ServerInit

HubServerNext ==
    \/ HubNext /\ UNCHANGED serverVars
    \/ ServerNext /\ UNCHANGED hubVars

HubServerSpec == HubServerInit /\ [][HubServerNext]_allVars
=============================================================================
