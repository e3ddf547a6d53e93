----------------------------- MODULE MCBlobServer -----------------------------
(***************************************************************************)
(* Two instances of BlobHubServer for TLC in one, told apart by the start  *)
(* of the syncer.  Both have one bundle, two blobs in a slot that has any, *)
(* and a cache for two slots.                                              *)
(***************************************************************************)
EXTENDS BlobHubServer, TLC

b == "blobs"
e == "empty"

OneChain == {<<b, b, e>>}

\* One transaction carries both blobs of a slot.
OneTx == [i \in 0 .. 1 |-> "tx"]

ask(front, form, slot, indices) ==
    [front |-> front, form |-> form, slot |-> slot, indices |-> indices]

Refused ==
    {ask("rest", f, 2, <<>>) : f \in DOMAIN RestRefusal}
    \cup {ask("grpc", "name", 2, <<>>)}
    \cup {ask("rpc", f, 2, <<>>) : f \in DOMAIN RpcRefusal}

Served ==
    {ask("rest", "slot", 2, <<>>), ask("rest", "slot", 3, <<>>),
     ask("rest", "root", 2, <<1, 0>>), ask("rest", "root", 2, <<0, 2>>),
     ask("rest", "slot", 2, <<-1>>), ask("rpc", "slot", 2, <<>>),
     ask("grpc", "slot", 2, <<0, 1>>), ask("grpc", "slot", 3, <<-1>>)}

\* Whole slots, which fill the cache, and indices in and out of their order,
\* twice and beyond the end, which do not.
CacheAsks ==
    {ask("rest", "slot", s, <<>>) : s \in 1 .. 3}
    \cup {ask("rest", "slot", 1, q) : q \in {<<0, 1>>, <<1, 0>>, <<1, 1>>, <<0, 2>>}}

AllAsks == Refused \cup Served \cup CacheAsks

\* The syncer works on slots 2 and 3, and uploads them again when they are
\* damaged.
SyncerWorks == cfg.start = 2

\* Otherwise it has recorded and verified slots 1 to 3 before anything is asked.
SyncerDone == DOMAIN blockTbl = Slots /\ Unverified = {}

Requests ==
    IF SyncerWorks THEN Refused \cup Served
    ELSE IF SyncerDone THEN CacheAsks ELSE {}

InstanceInit ==
    /\ HubServerInit
    /\ cfg.interval = IF SyncerWorks THEN 2 ELSE 3

\* Beside a syncer that works there is one request at a time.
InstanceNext ==
    \/ /\ HubNext
       /\ SyncerWorks \/ damages' = 0
       /\ UNCHANGED serverVars
    \/ /\ ServerNext
       /\ \A c \in Clients : req'[c].ask \in Requests \cup {NoAsk}
       /\ SyncerWorks => \E c \in Clients :
                            \A d \in Clients \ {c} : req'[d].pc = "idle"
       /\ UNCHANGED hubVars

InstanceSpec == InstanceInit /\ [][InstanceNext]_allVars

\* Nothing tells one client from another.
ClientSymmetry == Permutations(Clients)
=============================================================================
