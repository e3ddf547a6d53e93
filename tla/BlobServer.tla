------------------------------ MODULE BlobServer ------------------------------
(***************************************************************************)
(* The API server's answers (restapi/handlers, client, service, cache): a  *)
(* request names a slot or a block root and perhaps indices, is looked up  *)
(* in a cache of whole slots and, failing that, in the database and in the *)
(* bundle that the slot's row names.  Requests run side by side; what they *)
(* share is the cache.                                                     *)
(*                                                                         *)
(* One action is the code up to the next query of the database, request to *)
(* the bundle service or access to the cache.  Nothing is said here of how *)
(* the archive changes meanwhile: BlobHubServer puts the server beside the *)
(* syncer.                                                                 *)
(*                                                                         *)
(* The blobs of a slot are the indices 0 .. Width - 1, an answer is the    *)
(* sequence of the indices it carries.                                     *)
(***************************************************************************)
EXTENDS SourceChain, BundleClient, Sequences

CONSTANTS
    Clients,        \* requests served at a time
    Asks,           \* requests considered: [front, form, slot, indices]
    Width,          \* blobs of a slot that has blobs
    TxOf,           \* the transaction that carries the blob of an index
    CacheSize       \* GetCacheSize()

Front == {"rest", "rpc", "grpc"}

\* What a request looks like: a decimal slot (rpc: hexadecimal block), a block
\* root, or the first thing that is wrong with it.
Form == {"slot", "root", "name", "badindex", "short", "word", "nobody",
         "noparams", "emptyparams", "method"}

ASSUME ServerAssumption ==
    /\ Asks \subseteq [front : Front, form : Form, slot : Nat, indices : Seq(Int)]
    /\ Width \in Nat \ {0}
    /\ CacheSize \in Nat \ {0}

VARIABLES
    cache,      \* slot -> [blobs, wrong, seen, rank]; rank 0: used last
    req         \* client -> the request under way

serverVars == <<cache, req>>

archiveVars == <<daoVars, chainVars, bundleVars>>

All == [i \in 1 .. Width |-> i - 1]

Members(q) == {q[i] : i \in DOMAIN q}

-----------------------------------------------------------------------------
(* Replies: the status of a reply is its HTTP code, or the code of the error *)
(* inside a JSON-RPC reply of HTTP code 200, or a gRPC code                  *)

OK == 200

Unknown == 2        \* the gRPC code of an error that has none

Aborted == 0        \* the handler panics: the connection is cut

RestRefusal == [name |-> 400, badindex |-> 400, short |-> 400, word |-> 400]

GrpcRefusal == [f \in DOMAIN RestRefusal |-> Unknown]

RpcRefusal == [nobody |-> 422, noparams |-> -32600, emptyparams |-> Aborted,
               method |-> -32601, word |-> -32602]

Refusal(front) ==
    CASE front = "rest" -> RestRefusal
      [] front = "grpc" -> GrpcRefusal
      [] front = "rpc"  -> RpcRefusal

InternalError(front) == IF front = "grpc" THEN Unknown ELSE 500

\* The sidecars of a JSON-RPC reply, grouped by transaction; the order of the
\* groups is that of a Go map, that is none.
GroupByTx(blobs) ==
    {[tx |-> TxOf[i], blobs |-> {j \in Members(blobs) : TxOf[j] = TxOf[i]}] :
        i \in Members(blobs)}

\* The indices whose blobs a reply carries.
Carried(r) ==
    IF r.ask.front = "rpc"
    THEN UNION {g.blobs : g \in GroupByTx(r.metas)}
    ELSE Members(r.metas)

-----------------------------------------------------------------------------
(* The LRU cache *)

\* The entries by how recently they were used once that of slot s is the last.
Ranks(s, entry) ==
    [t \in DOMAIN cache \cup {s} |->
        IF t = s THEN [entry EXCEPT !.rank = 0]
        ELSE IF s \in DOMAIN cache /\ cache[s].rank < cache[t].rank
        THEN cache[t]
        ELSE [cache[t] EXCEPT !.rank = @ + 1]]

\* cache.Get of an entry that is there.
CacheGet(s) == cache' = Ranks(s, cache[s])

\* Mutant: the entries do not age when one is added to a cache that has room,
\* so that there are two to evict next.
CacheSet_Ageless(s, entry) ==
    LET all == [t \in DOMAIN cache \cup {s} |->
                   IF t # s /\ Cardinality(DOMAIN cache) < CacheSize
                   THEN cache[t]
                   ELSE Ranks(s, entry)[t]]
    IN  cache' = [t \in {u \in DOMAIN all : all[u].rank < CacheSize} |-> all[t]]

\* cache.Set: the entry used least recently goes when there are too many.
CacheSet(s, entry) ==
    LET all == Ranks(s, entry)
    IN  cache' = [t \in {u \in DOMAIN all : all[u].rank < CacheSize} |-> all[t]]

-----------------------------------------------------------------------------
(* A request *)

NoRow == GetBundleName(0, 0)

NoAsk == [front |-> "rest", form |-> "slot", slot |-> 0, indices |-> <<>>]

\* bundle, seen: the row's bundle, and whether its status was Verified.
\* metas, n: the sidecars to return, and how many are fetched.
\* wrong: those whose content is not the chain's.  gone: an object was missing.
Request(pc, a) ==
    [pc |-> pc, ask |-> a, slot |-> a.slot, bundle |-> NoRow,
     seen |-> FALSE, metas |-> <<>>, n |-> 0, wrong |-> {}, gone |-> FALSE,
     code |-> OK]

\* The server ends, of itself or because a gRPC handler panics, and is started
\* again; requests under way are gone with it.
Restart ==
    /\ cache' = EmptyTable
    /\ req' = [c \in Clients |-> Request("idle", NoAsk)]

Continue(c, r) == req' = [req EXCEPT ![c] = r]

\* The handler is about to reply; most of its locals are dead.
Finish(c, r) ==
    Continue(c, [r EXCEPT !.pc = "done", !.bundle = NoRow, !.n = 0])

Fail(c, code) ==
    Finish(c, [req[c] EXCEPT !.code = code, !.metas = <<>>, !.wrong = {}])

\* The handlers up to their call of the service.
Receive(c) ==
    /\ req[c].pc = "idle"
    /\ \E a \in Asks :
        Continue(c,
            IF a.form \in DOMAIN Refusal(a.front)
            THEN [Request("done", a) EXCEPT !.code = Refusal(a.front)[a.form]]
            ELSE Request(IF a.form = "root" THEN "root" ELSE "cache", a))
    /\ UNCHANGED cache

\* GetBlockByRoot: "not found" is swallowed and leaves the zero Block, whose
\* slot is 0.  The row of a forked slot has no root.
ByRoot(c) ==
    /\ req[c].pc = "root"
    /\ \E found \in BOOLEAN :
        LET s == req[c].slot
        IN  /\ found => s \in DOMAIN blockTbl
            /\ ~found /\ s \in DOMAIN blockTbl =>
                    Network = "ETH" /\ ~blockTbl[s].blobs
            /\ Continue(c, [req[c] EXCEPT !.pc = "cache",
                                          !.slot = IF found THEN s ELSE 0])
    /\ UNCHANGED cache

\* The blobs of the indices, in the order of the request.
Pick(blobs, indices) == [i \in DOMAIN indices |-> blobs[indices[i] + 1]]

\* The first index that is no index of the list is an error beyond its end; a
\* negative one panics, which in a gRPC handler ends the process.
CacheHit(c) ==
    /\ req[c].pc = "cache"
    /\ req[c].slot \in DOMAIN cache
    /\ LET e == cache[req[c].slot]
           q == req[c].ask.indices
           bad == {i \in DOMAIN q : q[i] \notin 0 .. Len(e.blobs) - 1}
       IN  IF bad = {}
           THEN /\ Finish(c, [req[c] EXCEPT
                        !.metas = IF q = <<>> THEN e.blobs ELSE Pick(e.blobs, q),
                        !.wrong = e.wrong, !.seen = e.seen])
                /\ CacheGet(req[c].slot)
           ELSE LET i == CHOOSE j \in bad : \A k \in bad : j <= k
                IN  IF q[i] < 0 /\ req[c].ask.front = "grpc"
                    THEN Restart
                    ELSE /\ Fail(c, IF q[i] < 0 THEN Aborted
                                    ELSE InternalError(req[c].ask.front))
                         /\ CacheGet(req[c].slot)

CacheMiss(c) ==
    /\ req[c].pc = "cache"
    /\ req[c].slot \notin DOMAIN cache
    /\ Continue(c, [req[c] EXCEPT !.pc = "block"])
    /\ UNCHANGED cache

\* Mutant: the name the bundle had when it was first uploaded.
ReadBlock_FirstName(c) ==
    /\ req[c].pc = "block"
    /\ LET s == req[c].slot
       IN  IF s \in DOMAIN blockTbl
           THEN Continue(c, [req[c] EXCEPT !.pc = "metas",
                                !.bundle = CalibratedName(blockTbl[s].bundle, 0),
                                !.seen = blockTbl[s].status = "verified"])
           ELSE Fail(c, InternalError(req[c].ask.front))
    /\ UNCHANGED cache

\* GetBlock: a slot that is not recorded is an error like any other.
ReadBlock(c) ==
    /\ req[c].pc = "block"
    /\ LET s == req[c].slot
       IN  IF s \in DOMAIN blockTbl
           THEN Continue(c, [req[c] EXCEPT !.pc = "metas",
                                !.bundle = blockTbl[s].bundle,
                                !.seen = blockTbl[s].status = "verified"])
           ELSE Fail(c, InternalError(req[c].ask.front))
    /\ UNCHANGED cache

\* Mutant: the query does not say in which order.
Ordered_Anyhow(S) == {m \in [1 .. Cardinality(S) -> S] : Members(m) = S}

\* ORDER BY idx: the indices S as a sequence.
Ordered(S) ==
    {m \in [1 .. Cardinality(S) -> S] :
        /\ Members(m) = S
        /\ \A i, j \in DOMAIN m : i < j => m[i] < m[j]}

\* GetBlobByBlockID: all the rows; GetBlobByBlockIDAndIndices: those of the
\* indices.
ReadMetas(c) ==
    /\ req[c].pc = "metas"
    /\ LET q == req[c].ask.indices
           rows == IF req[c].slot \in blobTbl THEN All ELSE <<>>
       IN  \E m \in IF q = <<>> THEN {rows}
                    ELSE Ordered(Members(rows) \cap Members(q)) :
               Continue(c, [req[c] EXCEPT !.pc = "fetch", !.metas = m])
    /\ UNCHANGED cache

\* The next object of the bundle.
FetchObject(c) ==
    /\ req[c].pc = "fetch"
    /\ req[c].n < Len(req[c].metas)
    /\ GetObject(req[c].bundle, req[c].slot)
    /\ Continue(c, [req[c] EXCEPT !.n = @ + 1])
    /\ UNCHANGED cache

\* Mutant: an object that cannot be had is passed over.
FetchMissing_Skip(c) ==
    /\ req[c].pc = "fetch"
    /\ req[c].n < Len(req[c].metas)
    /\ ~GetObject(req[c].bundle, req[c].slot)
    /\ Continue(c, [req[c] EXCEPT
            !.metas = SelectSeq(@, LAMBDA i : i # req[c].metas[req[c].n + 1])])
    /\ UNCHANGED cache

\* It is missing: nothing is returned.
FetchMissing(c) ==
    /\ req[c].pc = "fetch"
    /\ req[c].n < Len(req[c].metas)
    /\ ~GetObject(req[c].bundle, req[c].slot)
    /\ Finish(c, [req[c] EXCEPT !.gone = TRUE, !.metas = <<>>, !.wrong = {},
                                !.code = InternalError(req[c].ask.front)])
    /\ UNCHANGED cache

\* It is damaged, and served as it is: nothing is compared with the row.
FetchDamaged(c) ==
    /\ req[c].pc = "fetch"
    /\ req[c].n < Len(req[c].metas)
    /\ BundleExists(req[c].bundle)
    /\ ~GetObject(req[c].bundle, req[c].slot)
    /\ Continue(c, [req[c] EXCEPT !.n = @ + 1,
                        !.wrong = @ \cup {req[c].metas[req[c].n + 1]}])
    /\ UNCHANGED cache

\* Mutant: whatever was asked for is cached.
Answer_CacheAll(c) ==
    /\ req[c].pc = "fetch"
    /\ req[c].n = Len(req[c].metas)
    /\ Finish(c, req[c])
    /\ CacheSet(req[c].slot, [blobs |-> req[c].metas, wrong |-> req[c].wrong,
                              seen |-> req[c].seen, rank |-> 0])

\* Only an answer to a request without indices is cached.
Answer(c) ==
    /\ req[c].pc = "fetch"
    /\ req[c].n = Len(req[c].metas)
    /\ Finish(c, req[c])
    /\ IF req[c].ask.indices = <<>>
       THEN CacheSet(req[c].slot,
                     [blobs |-> req[c].metas, wrong |-> req[c].wrong,
                      seen |-> req[c].seen, rank |-> 0])
       ELSE UNCHANGED cache

\* A query or a request that fails.
ReadFails(c) ==
    /\ req[c].pc \in {"root", "block", "metas", "fetch"}
    /\ Fail(c, InternalError(req[c].ask.front))
    /\ UNCHANGED cache

\* Only a sidecar of ETH has the header that the gRPC reply is made of.
GrpcReplyPanics(r) ==
    /\ r.ask.front = "grpc"
    /\ r.code = OK
    /\ Network = "BSC"
    /\ r.metas # <<>>

Reply(c) ==
    /\ req[c].pc = "done"
    /\ ~GrpcReplyPanics(req[c])
    /\ Continue(c, Request("idle", NoAsk))
    /\ UNCHANGED cache

ServerStep(c) ==
    \/ Receive(c) \/ ByRoot(c) \/ CacheHit(c) \/ CacheMiss(c)
    \/ ReadBlock(c) \/ ReadMetas(c)
    \/ FetchObject(c) \/ FetchMissing(c) \/ FetchDamaged(c) \/ Answer(c)
    \/ ReadFails(c) \/ Reply(c)

ServerNext == (\E c \in Clients : ServerStep(c)) \/ Restart

ServerInit ==
    /\ cache = EmptyTable
    /\ req = [c \in Clients |-> Request("idle", NoAsk)]

\* The server beside an archive of which nothing is known.
ServerSpec == ServerInit /\ [][ServerNext]_serverVars

-----------------------------------------------------------------------------
(* Properties *)

Entry == [blobs : {<<>>, All}, wrong : SUBSET Members(All), seen : BOOLEAN,
          rank : 0 .. CacheSize - 1]

RequestType ==
    [pc : {"idle", "root", "cache", "block", "metas", "fetch", "done"},
     ask : Asks \cup {NoAsk}, slot : Nat, bundle : Name, seen : BOOLEAN,
     metas : Seq(Members(All)), n : Nat, wrong : SUBSET Members(All),
     gone : BOOLEAN, code : Int]

\* Types of the server's variables, and of an entry of the cache that it holds
\* the blobs of the whole slot.
ServerTypeOK ==
    /\ DOMAIN cache \subseteq Nat
    /\ cache \in [DOMAIN cache -> Entry]
    /\ req \in [Clients -> RequestType]

\* The cache never holds more than its size, and one of its entries is the one
\* to evict next: two requests that fill it do not disturb its order.
CacheInOrder ==
    /\ Cardinality(DOMAIN cache) <= CacheSize
    /\ \A s, t \in DOMAIN cache : cache[s].rank = cache[t].rank => s = t

Answered(r) == r.pc = "done" /\ r.code = OK

\* The blob rows of a recorded slot are those of the blobs the chain has there:
\* what the server relies on, since it counts nothing and compares nothing.
ArchiveAsOnChain ==
    \A s \in DOMAIN blockTbl \ misread : s \in blobTbl <=> HasBlobs(s)

\* An answer to a request without indices carries all the blobs the chain has
\* at the slot or, rightly, none (swagger.yaml: "Returns all blob sidecars in
\* the block if not specified"), whoever filled the cache and whatever became
\* of the slot's bundle meanwhile - for the slots about which the nodes did
\* not mislead the syncer.
FullAnswerIsWhole ==
    \A c \in Clients :
        LET r == req[c]
        IN  Answered(r) /\ r.ask.indices = <<>> /\ r.ask.slot \notin misread =>
                Carried(r) = IF HasBlobs(r.ask.slot) THEN Members(All) ELSE {}

\* m is the list of the indices q itself, as the cache answers: in the order
\* asked for, what is asked for twice twice, and no index without a blob.
AsListed(q, m) == m = q /\ Members(q) \subseteq Members(All)

\* m is those of the indices q that have a blob, as the database answers: in
\* their order, each of them once.
AsSorted(q, m) ==
    /\ Members(m) = Members(All) \cap Members(q)
    /\ \A i, j \in DOMAIN m : i < j => m[i] < m[j]

\* An answer to a request with indices carries the blobs of those indices, and
\* nothing else, in one of the two orders the code gives them, whichever
\* requests fill and empty the cache meanwhile; where the chain has no blobs it
\* is empty.  (Only the REST and gRPC requests have indices.)
IndexedAnswerIsAsAsked ==
    \A c \in Clients :
        LET r == req[c]
            q == r.ask.indices
        IN  Answered(r) /\ q # <<>> /\ r.ask.slot \notin misread =>
                IF HasBlobs(r.ask.slot)
                THEN AsListed(q, r.metas) \/ AsSorted(q, r.metas)
                ELSE r.metas = <<>>

\* A slot whose row was read as Verified is served as it was verified: none of
\* its objects is missing and none damaged, although the bundle that holds
\* them may be another than the one first uploaded.
VerifiedAnswerIsRight ==
    \A c \in Clients :
        LET r == req[c]
        IN  r.pc = "done" /\ r.seen /\ r.ask.slot \notin misread =>
                ~r.gone /\ Carried(r) \cap r.wrong = {}
=============================================================================
