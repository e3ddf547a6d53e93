--------------------------- MODULE BlobServer_proof ---------------------------
(***************************************************************************)
(* Proofs about the API server: its cache keeps its order and its size     *)
(* whatever requests run side by side, and, beside an archive that records *)
(* the slots as the chain holds them, an answer to a request without       *)
(* indices is whole.                                                       *)
(***************************************************************************)
EXTENDS BlobServer, FunctionTheorems, FiniteSetTheorems, TLAPS

-----------------------------------------------------------------------------
(* The cache *)

CacheRec(e) == e = [blobs |-> e.blobs, wrong |-> e.wrong, seen |-> e.seen,
                    rank |-> e.rank]

Distinct(f) ==
    /\ \A s \in DOMAIN f : f[s].rank \in Nat /\ CacheRec(f[s])
    /\ \A s, t \in DOMAIN f : f[s].rank = f[t].rank => s = t

Bounded(f) == \A s \in DOMAIN f : f[s].rank < CacheSize

\* The strengthening of CacheInOrder that every step preserves: the ranks are
\* distinct and below the size of the cache.
CacheInv == Distinct(cache) /\ Bounded(cache)

\* Using slot s keeps the ranks apart, and bounded when s had one.
LEMMA RanksDistinct ==
    ASSUME Distinct(cache), NEW s, NEW entry, CacheRec(entry)
    PROVE  /\ Distinct(Ranks(s, entry))
           /\ Bounded(cache) /\ s \in DOMAIN cache => Bounded(Ranks(s, entry))
<1> DEFINE R == Ranks(s, entry)
<1>1. DOMAIN R = DOMAIN cache \cup {s}
  BY DEF Ranks
<1>2. R[s].rank = 0 /\ CacheRec(R[s])
  BY DEF Ranks, CacheRec
<1>3. ASSUME NEW t \in DOMAIN R, t # s
      PROVE  /\ t \in DOMAIN cache /\ cache[t].rank \in Nat
             /\ CacheRec(R[t])
             /\ R[t].rank = IF s \in DOMAIN cache /\ cache[s].rank < cache[t].rank
                            THEN cache[t].rank ELSE cache[t].rank + 1
  <2>1. t \in DOMAIN cache
    BY <1>1, <1>3
  <2>2. R[t] = IF s \in DOMAIN cache /\ cache[s].rank < cache[t].rank
               THEN cache[t]
               ELSE [cache[t] EXCEPT !.rank = @ + 1]
    BY <1>1, <1>3 DEF Ranks
  <2>3. CacheRec(cache[t]) /\ cache[t].rank \in Nat
    BY <2>1 DEF Distinct
  <2> QED
    BY <2>1, <2>2, <2>3 DEF CacheRec
<1>4. ASSUME NEW t \in DOMAIN R
      PROVE  R[t].rank \in Nat /\ CacheRec(R[t])
  BY <1>2, <1>3
<1>5. ASSUME NEW t \in DOMAIN R, NEW u \in DOMAIN R, R[t].rank = R[u].rank
      PROVE  t = u
  <2>1. s \in DOMAIN cache => cache[s].rank \in Nat
    BY DEF Distinct
  <2>2. CASE t = s \/ u = s
    BY <1>2, <1>3, <1>5, <2>1, <2>2
  <2>3. CASE t # s /\ u # s
    <3>1. t \in DOMAIN cache /\ u \in DOMAIN cache
      BY <1>3, <2>3
    <3>2. s \in DOMAIN cache => cache[t].rank # cache[s].rank /\ cache[u].rank # cache[s].rank
      BY <3>1, <2>3 DEF Distinct
    <3>3. cache[t].rank = cache[u].rank
      BY <1>3, <1>5, <2>1, <2>3, <3>2
    <3> QED
      BY <3>1, <3>3 DEF Distinct
  <2> QED
    BY <2>2, <2>3
<1>6. ASSUME Bounded(cache), s \in DOMAIN cache, NEW t \in DOMAIN R
      PROVE  R[t].rank < CacheSize
  <2>1. cache[s].rank \in Nat /\ cache[s].rank < CacheSize /\ CacheSize \in Nat
    BY <1>6, ServerAssumption DEF Distinct, Bounded
  <2>2. CASE t = s
    BY <1>2, <2>1, <2>2
  <2>3. CASE t # s
    <3>1. cache[t].rank < CacheSize /\ cache[t].rank # cache[s].rank
      BY <1>3, <1>6, <2>3 DEF Bounded, Distinct
    <3> QED
      BY <1>3, <1>6, <2>1, <2>3, <3>1
  <2> QED
    BY <2>2, <2>3
<1> QED
  BY <1>4, <1>5, <1>6 DEF Distinct, Bounded

LEMMA CacheGetKeeps ==
    ASSUME CacheInv, NEW s \in DOMAIN cache, CacheGet(s)
    PROVE  CacheInv'
<1>1. CacheRec(cache[s])
  BY DEF CacheInv, Distinct
<1> DEFINE R == Ranks(s, cache[s])
<1>2. Distinct(R) /\ Bounded(R)
  BY <1>1, RanksDistinct DEF CacheInv
<1>3. cache' = R
  BY DEF CacheGet
<1> HIDE DEF R
<1> QED
  BY <1>2, <1>3 DEF CacheInv, Distinct, Bounded, CacheRec

LEMMA CacheSetKeeps ==
    ASSUME CacheInv, NEW s, NEW entry, CacheRec(entry), CacheSet(s, entry)
    PROVE  CacheInv'
<1> DEFINE R == Ranks(s, entry)
<1>1. Distinct(R)
  BY RanksDistinct DEF CacheInv
<1>2. /\ DOMAIN cache' = {u \in DOMAIN R : R[u].rank < CacheSize}
      /\ \A t \in DOMAIN cache' : cache'[t] = R[t]
  BY DEF CacheSet
<1> QED
  BY <1>1, <1>2 DEF CacheInv, Distinct, Bounded, CacheRec

LEMMA EmptyCache ==
    ASSUME cache' = EmptyTable
    PROVE  CacheInv'
  BY DEF CacheInv, Distinct, Bounded, EmptyTable

LEMMA CacheStep ==
    ASSUME CacheInv, [ServerNext]_serverVars
    PROVE  CacheInv'
<1>1. CASE UNCHANGED cache
  BY <1>1 DEF CacheInv, Distinct, Bounded, CacheRec
<1>2. CASE Restart
  BY <1>2, EmptyCache DEF Restart
<1>3. ASSUME NEW c \in Clients, ServerStep(c)
      PROVE  CacheInv'
  <2>1. CASE CacheHit(c)
    <3>1. req[c].slot \in DOMAIN cache
      BY <2>1 DEF CacheHit
    <3>2. CASE CacheGet(req[c].slot)
      BY <3>1, <3>2, CacheGetKeeps
    <3>3. CASE Restart
      BY <3>3, EmptyCache DEF Restart
    <3> QED
      BY <2>1, <3>2, <3>3 DEF CacheHit
  <2>2. CASE Answer(c)
    <3> DEFINE entry == [blobs |-> req[c].metas, wrong |-> req[c].wrong,
                         seen |-> req[c].seen, rank |-> 0]
    <3>1. CacheRec(entry)
      BY DEF CacheRec
    <3>2. CacheSet(req[c].slot, entry) \/ UNCHANGED cache
      BY <2>2 DEF Answer
    <3> QED
      BY <3>1, <3>2, <1>1, CacheSetKeeps
  <2> QED
    BY <1>1, <1>3, <2>1, <2>2 DEF ServerStep, Receive, ByRoot, CacheMiss,
        ReadBlock, ReadMetas, FetchObject, FetchMissing, FetchDamaged,
        ReadFails, Reply
<1> QED
  BY <1>1, <1>2, <1>3 DEF ServerNext, serverVars

\* Distinct ranks below its size leave the cache no more entries than that.
LEMMA CacheInvImplies == CacheInv => CacheInOrder
<1> SUFFICES ASSUME CacheInv PROVE CacheInOrder
  OBVIOUS
<1> DEFINE K == CacheSize - 1
           f == [s \in DOMAIN cache |-> cache[s].rank]
<1>1. CacheSize \in Nat \ {0}
  BY ServerAssumption
<1>2. f \in Injection(DOMAIN cache, 0 .. K)
  <2>1. f \in [DOMAIN cache -> 0 .. K]
    BY <1>1 DEF CacheInv, Distinct, Bounded
  <2>2. \A s, t \in DOMAIN cache : f[s] = f[t] => s = t
    BY DEF CacheInv, Distinct
  <2> QED
    BY <2>1, <2>2 DEF Injection, IsInjective
<1>3. IsFiniteSet(0 .. K) /\ Cardinality(0 .. K) = CacheSize
  BY <1>1, FS_Interval
<1>4. Cardinality(DOMAIN cache) <= CacheSize
  BY <1>2, <1>3, FS_Injection
<1> QED
  BY <1>4 DEF CacheInOrder, CacheInv, Distinct

\* Whatever the archive does and however many requests run side by side, the
\* cache keeps its size, and the order in which its entries are evicted is
\* never in doubt.
THEOREM CacheKeepsOrder == ServerSpec => []CacheInOrder
<1>1. ServerInit => CacheInv
  BY DEF ServerInit, CacheInv, Distinct, Bounded, EmptyTable
<1>2. CacheInv /\ [ServerNext]_serverVars => CacheInv'
  BY CacheStep
<1> QED
  BY <1>1, <1>2, CacheInvImplies, PTL DEF ServerSpec

-----------------------------------------------------------------------------
(* Answers without indices, beside an archive that keeps its promises *)

\* What the server needs of the syncer: the rows are typed and in accord with
\* the chain, no row is deleted, and what a slot holds does not change unless
\* it counts as misread.
ArchiveOK == DaoTypeOK /\ ArchiveAsOnChain

ArchiveStep ==
    /\ DOMAIN blockTbl \subseteq DOMAIN blockTbl'
    /\ misread \subseteq misread'
    /\ \A s \in Slots \ misread' : canon'[s] = canon[s]

ArchiveSpec == []ArchiveOK /\ [][ArchiveStep]_archiveVars

Whole(s, m) == s \notin misread => m = IF HasBlobs(s) THEN All ELSE <<>>

\* m is what a request for the indices q of slot s is to be answered with.
AsAsked(s, q, m) ==
    IF q = <<>> THEN Whole(s, m)
    ELSE s \notin misread =>
            IF HasBlobs(s) THEN AsListed(q, m) \/ AsSorted(q, m) ELSE m = <<>>

Fields == {"pc", "ask", "slot", "bundle", "seen", "metas", "n", "wrong",
           "gone", "code"}

Shape(r) ==
    /\ DOMAIN r = Fields /\ r = [x \in Fields |-> r[x]]
    /\ r.ask \in Asks \cup {NoAsk}

\* What is known of a request at every point on its way.
RequestInv(r) ==
    /\ Shape(r)
    /\ r.pc = "root" => r.slot = r.ask.slot
    /\ r.pc \in {"cache", "block", "metas", "fetch"} =>
            r.slot = r.ask.slot \/ r.slot = 0
    /\ r.pc \in {"metas", "fetch"} => r.slot \in DOMAIN blockTbl
    /\ r.pc \in {"root", "cache", "block", "metas", "fetch"} => r.code = OK
    /\ r.pc = "fetch" => AsAsked(r.slot, r.ask.indices, r.metas)
    /\ Answered(r) => AsAsked(r.ask.slot, r.ask.indices, r.metas)

\* Requests rq and a cache ca, with the archive as it is.
Good(rq, ca) ==
    /\ rq = [c \in Clients |-> rq[c]]
    /\ \A c \in Clients : RequestInv(rq[c])
    /\ \A s \in DOMAIN ca : s \in DOMAIN blockTbl /\ Whole(s, ca[s].blobs)

WholeInv == Good(req, cache) /\ CacheInv

-----------------------------------------------------------------------------
(* A step of the server, the archive being as it is *)

LEMMA OneRequest ==
    ASSUME Good(req, cache), NEW c \in Clients, NEW r, RequestInv(r),
           Continue(c, r)
    PROVE  Good(req', cache)
  BY DEF Good, Continue

\* A request that ends with anything but OK needs nothing but its shape.
LEMMA FailedRequest ==
    ASSUME NEW r, Shape(r), NEW code, code # OK
    PROVE  RequestInv([r EXCEPT !.pc = "done", !.bundle = NoRow, !.n = 0,
                                !.code = code, !.metas = <<>>, !.wrong = {}])
<1> DEFINE q == [r EXCEPT !.pc = "done", !.bundle = NoRow, !.n = 0,
                     !.code = code, !.metas = <<>>, !.wrong = {}]
<1>1. q.pc = "done" /\ q.code = code /\ Shape(q)
  BY DEF Shape, Fields
<1> HIDE DEF q
<1>2. RequestInv(q)
  BY <1>1 DEF RequestInv, Answered
<1> QED
  BY <1>2 DEF q

LEMMA Codes ==
    /\ \A front : InternalError(front) # OK
    /\ Aborted # OK
    /\ \A front \in Front : \A f \in DOMAIN Refusal(front) :
            Refusal(front)[f] # OK
  BY DEF InternalError, OK, Unknown, Aborted, Front, Refusal, RestRefusal,
     GrpcRefusal, RpcRefusal

LEMMA FailKeeps ==
    ASSUME Good(req, cache), NEW c \in Clients, NEW code, code # OK,
           Fail(c, code)
    PROVE  Good(req', cache)
<1> DEFINE r == [req[c] EXCEPT !.pc = "done", !.bundle = NoRow, !.n = 0,
                     !.code = code, !.metas = <<>>, !.wrong = {}]
<1>1. Shape(req[c])
  BY DEF Good, RequestInv
<1>2. RequestInv(r)
  BY <1>1, FailedRequest
<1>3. Continue(c, r)
  BY DEF Fail, Finish
<1> QED
  BY <1>2, <1>3, OneRequest

LEMMA FreshRequest ==
    ASSUME NEW pc \in {"idle", "root", "cache"}, NEW a \in Asks \cup {NoAsk}
    PROVE  RequestInv(Request(pc, a))
  BY DEF RequestInv, Shape, Fields, Request, Answered

LEMMA RestartKeeps == Restart => Good(req', cache')
  BY FreshRequest DEF Restart, Good, EmptyTable

LEMMA ReceiveKeeps ==
    ASSUME Good(req, cache), NEW c \in Clients, Receive(c)
    PROVE  Good(req', cache)
<1>1. PICK a \in Asks :
        Continue(c,
            IF a.form \in DOMAIN Refusal(a.front)
            THEN [Request("done", a) EXCEPT !.code = Refusal(a.front)[a.form]]
            ELSE Request(IF a.form = "root" THEN "root" ELSE "cache", a))
  BY DEF Receive
<1>2. CASE a.form \in DOMAIN Refusal(a.front)
  <2> DEFINE r == [Request("done", a) EXCEPT !.code = Refusal(a.front)[a.form]]
  <2>1. a.front \in Front
    BY ServerAssumption
  <2>2. Refusal(a.front)[a.form] # OK
    BY <1>2, <2>1, Codes
  <2>3. r.pc = "done" /\ r.code # OK /\ Shape(r)
    BY <2>2 DEF Shape, Fields, Request
  <2>4. RequestInv(r)
    BY <2>3 DEF RequestInv, Answered
  <2> QED
    BY <1>1, <1>2, <2>4, OneRequest
<1>3. CASE a.form \notin DOMAIN Refusal(a.front)
  <2> DEFINE pc == IF a.form = "root" THEN "root" ELSE "cache"
  <2>1. RequestInv(Request(pc, a))
    BY FreshRequest
  <2> QED
    BY <1>1, <1>3, <2>1, OneRequest
<1> QED
  BY <1>2, <1>3

\* Entries of the cache keep their blobs when one of them is used.
LEMMA RankOfUsed ==
    ASSUME NEW s, NEW entry, CacheRec(entry)
    PROVE  /\ DOMAIN Ranks(s, entry) = DOMAIN cache \cup {s}
           /\ Ranks(s, entry)[s].blobs = entry.blobs
  BY DEF Ranks, CacheRec

LEMMA RankOfOther ==
    ASSUME CacheInv, NEW s, NEW entry, NEW t \in DOMAIN cache, t # s
    PROVE  Ranks(s, entry)[t].blobs = cache[t].blobs
<1>1. CacheRec(cache[t])
  BY DEF CacheInv, Distinct
<1> QED
  BY <1>1 DEF Ranks, CacheRec

LEMMA GetKeeps ==
    ASSUME CacheInv, NEW rq, Good(rq, cache), NEW s \in DOMAIN cache, CacheGet(s)
    PROVE  Good(rq, cache')
<1>1. CacheRec(cache[s])
  BY DEF CacheInv, Distinct
<1>2. DOMAIN cache' = DOMAIN cache
  BY <1>1, RankOfUsed DEF CacheGet
<1>3. ASSUME NEW t \in DOMAIN cache
      PROVE  cache'[t].blobs = cache[t].blobs
  <2>1. CASE t = s
    BY <1>1, <2>1, RankOfUsed DEF CacheGet
  <2>2. CASE t # s
    BY <2>2, RankOfOther DEF CacheGet
  <2> QED
    BY <2>1, <2>2
<1> QED
  BY <1>2, <1>3 DEF Good

LEMMA SetKeeps ==
    ASSUME CacheInv, NEW rq, Good(rq, cache), NEW s \in DOMAIN blockTbl,
           NEW entry, CacheRec(entry), Whole(s, entry.blobs), CacheSet(s, entry)
    PROVE  Good(rq, cache')
<1> DEFINE R == Ranks(s, entry)
<1>1. DOMAIN R = DOMAIN cache \cup {s}
  BY RankOfUsed
<1>2. cache' = [t \in {u \in DOMAIN R : R[u].rank < CacheSize} |-> R[t]]
  BY DEF CacheSet
<1>3. ASSUME NEW t \in DOMAIN R
      PROVE  t \in DOMAIN blockTbl /\ Whole(t, R[t].blobs)
  <2>1. CASE t = s
    <3>1. R[s].blobs = entry.blobs
      BY RankOfUsed
    <3> QED
      BY <2>1, <3>1
  <2>2. CASE t # s
    <3>1. t \in DOMAIN cache
      BY <1>1, <2>2
    <3>2. R[t].blobs = cache[t].blobs
      BY <2>2, <3>1, RankOfOther
    <3> HIDE DEF R
    <3> QED
      BY <3>1, <3>2 DEF Good
  <2> QED
    BY <2>1, <2>2
<1> HIDE DEF R
<1> QED
  BY <1>2, <1>3 DEF Good

-----------------------------------------------------------------------------
(* One lemma for each step of a request *)

LEMMA ByRootKeeps ==
    ASSUME Good(req, cache), NEW c \in Clients, ByRoot(c)
    PROVE  Good(req', cache)
<1>1. PICK z : /\ z = req[c].slot \/ z = 0
               /\ Continue(c, [req[c] EXCEPT !.pc = "cache", !.slot = z])
  <2>1. PICK found \in BOOLEAN :
          Continue(c, [req[c] EXCEPT !.pc = "cache",
                                     !.slot = IF found THEN req[c].slot ELSE 0])
    BY DEF ByRoot
  <2> QED
    BY <2>1
<1> DEFINE r == [req[c] EXCEPT !.pc = "cache", !.slot = z]
<1>2. Shape(req[c]) /\ req[c].slot = req[c].ask.slot /\ req[c].pc = "root"
  BY DEF Good, RequestInv, ByRoot
<1>3. /\ Shape(r) /\ r.pc = "cache" /\ r.ask = req[c].ask
      /\ r.slot = z /\ r.code = req[c].code
  BY <1>2 DEF Shape, Fields
<1>4. req[c].code = OK
  BY <1>2 DEF Good, RequestInv
<1>5. RequestInv(r)
  BY <1>1, <1>2, <1>3, <1>4 DEF RequestInv, Answered
<1> QED
  BY <1>1, <1>5, OneRequest

LEMMA CacheMissKeeps ==
    ASSUME Good(req, cache), NEW c \in Clients, CacheMiss(c)
    PROVE  Good(req', cache)
<1> DEFINE r == [req[c] EXCEPT !.pc = "block"]
<1>1. RequestInv(req[c]) /\ req[c].pc = "cache" /\ Continue(c, r)
  BY DEF Good, CacheMiss
<1>2. /\ Shape(r) /\ r.pc = "block" /\ r.ask = req[c].ask
      /\ r.slot = req[c].slot /\ r.code = req[c].code
  BY <1>1 DEF RequestInv, Shape, Fields
<1>3. RequestInv(r)
  BY <1>1, <1>2 DEF RequestInv, Answered
<1> QED
  BY <1>1, <1>3, OneRequest

LEMMA ReadBlockKeeps ==
    ASSUME Good(req, cache), NEW c \in Clients, ReadBlock(c)
    PROVE  Good(req', cache)
<1> DEFINE s == req[c].slot
           r == [req[c] EXCEPT !.pc = "metas", !.bundle = blockTbl[s].bundle,
                               !.seen = blockTbl[s].status = "verified"]
<1>1. RequestInv(req[c]) /\ req[c].pc = "block"
  BY DEF Good, ReadBlock
<1>2. CASE s \notin DOMAIN blockTbl
  <2>1. Fail(c, InternalError(req[c].ask.front))
    BY <1>2 DEF ReadBlock
  <2> QED
    BY <2>1, Codes, FailKeeps
<1>3. CASE s \in DOMAIN blockTbl
  <2>1. Continue(c, r)
    BY <1>3 DEF ReadBlock
  <2>2. /\ Shape(r) /\ r.pc = "metas" /\ r.ask = req[c].ask
        /\ r.slot = s /\ r.code = req[c].code
    BY <1>1 DEF RequestInv, Shape, Fields
  <2>3. RequestInv(r)
    BY <1>1, <1>3, <2>2 DEF RequestInv, Answered
  <2> QED
    BY <2>1, <2>3, OneRequest
<1> QED
  BY <1>2, <1>3

\* What the database gives for the indices q.
LEMMA OrderedIsSorted ==
    ASSUME NEW q, NEW rows \in {All, <<>>},
           NEW m \in Ordered(Members(rows) \cap Members(q))
    PROVE  /\ rows = All => AsSorted(q, m)
           /\ rows = <<>> => m = <<>>
<1>1. CASE rows = All
  <2>1. AsSorted(q, m)
    BY <1>1 DEF Ordered, AsSorted
  <2>2. All # <<>>
    <3>1. 1 \in DOMAIN All
      BY ServerAssumption DEF All
    <3> QED
      BY <3>1
  <2> QED
    BY <1>1, <2>1, <2>2
<1>2. CASE rows = <<>>
  <2>1. Members(rows) \cap Members(q) = {}
    BY <1>2 DEF Members
  <2>2. m \in [1 .. Cardinality({}) -> {}]
    BY <2>1 DEF Ordered
  <2>3. m = <<>>
    BY <2>2, FS_EmptySet
  <2>4. All # <<>>
    <3>1. 1 \in DOMAIN All
      BY ServerAssumption DEF All
    <3> QED
      BY <3>1
  <2> QED
    BY <1>2, <2>3, <2>4
<1> QED
  BY <1>1, <1>2

LEMMA ReadMetasKeeps ==
    ASSUME Good(req, cache), NEW c \in Clients, ReadMetas(c), ArchiveOK
    PROVE  Good(req', cache)
<1> DEFINE s == req[c].slot
           q == req[c].ask.indices
           rows == IF s \in blobTbl THEN All ELSE <<>>
<1>1. RequestInv(req[c]) /\ req[c].pc = "metas"
  BY DEF Good, ReadMetas
<1>2. PICK m : /\ q = <<>> => m = rows
               /\ q # <<>> => m \in Ordered(Members(rows) \cap Members(q))
               /\ Continue(c, [req[c] EXCEPT !.pc = "fetch", !.metas = m])
  BY DEF ReadMetas
<1> DEFINE r == [req[c] EXCEPT !.pc = "fetch", !.metas = m]
<1>3. Shape(r) /\ r.pc = "fetch" /\ r.metas = m
  BY <1>1 DEF RequestInv, Shape, Fields
<1>4. r.ask = req[c].ask /\ r.slot = s /\ r.code = req[c].code
  BY <1>1 DEF RequestInv, Shape, Fields
<1>5. Whole(s, rows)
  <2>1. s \in DOMAIN blockTbl
    BY <1>1 DEF RequestInv
  <2> QED
    BY <2>1 DEF ArchiveOK, ArchiveAsOnChain, Whole
<1>6. AsAsked(s, q, m)
  <2>1. CASE q = <<>>
    BY <1>2, <1>5, <2>1 DEF AsAsked
  <2>2. CASE q # <<>>
    <3>1. rows \in {All, <<>>}
      OBVIOUS
    <3>2. (rows = All => AsSorted(q, m)) /\ (rows = <<>> => m = <<>>)
      BY <1>2, <2>2, <3>1, OrderedIsSorted
    <3> HIDE DEF rows
    <3> QED
      BY <1>5, <2>2, <3>2 DEF AsAsked, Whole
  <2> QED
    BY <2>1, <2>2
<1>7. RequestInv(r)
  BY <1>1, <1>3, <1>4, <1>6 DEF RequestInv, Answered
<1> QED
  BY <1>2, <1>7, OneRequest

LEMMA FetchKeeps ==
    ASSUME Good(req, cache), NEW c \in Clients, FetchObject(c) \/ FetchDamaged(c)
    PROVE  Good(req', cache)
<1>1. RequestInv(req[c]) /\ req[c].pc = "fetch"
  BY DEF Good, FetchObject, FetchDamaged
<1>2. PICK n, w : Continue(c, [req[c] EXCEPT !.n = n, !.wrong = w])
  <2>1. CASE FetchObject(c)
    <3>1. [req[c] EXCEPT !.n = req[c].n + 1]
            = [req[c] EXCEPT !.n = req[c].n + 1, !.wrong = req[c].wrong]
      BY <1>1 DEF RequestInv, Shape, Fields
    <3> QED
      BY <2>1, <3>1 DEF FetchObject
  <2>2. CASE FetchDamaged(c)
    BY <2>2 DEF FetchDamaged
  <2> QED
    BY <2>1, <2>2
<1> DEFINE r == [req[c] EXCEPT !.n = n, !.wrong = w]
<1>3. Shape(r) /\ r.pc = "fetch" /\ r.metas = req[c].metas
  BY <1>1 DEF RequestInv, Shape, Fields
<1>4. r.ask = req[c].ask /\ r.slot = req[c].slot /\ r.code = req[c].code
  BY <1>1 DEF RequestInv, Shape, Fields
<1>5. RequestInv(r)
  BY <1>1, <1>3, <1>4 DEF RequestInv, Answered
<1> QED
  BY <1>2, <1>5, OneRequest

LEMMA FetchMissingKeeps ==
    ASSUME Good(req, cache), NEW c \in Clients, FetchMissing(c)
    PROVE  Good(req', cache)
<1> DEFINE code == InternalError(req[c].ask.front)
           p == [req[c] EXCEPT !.gone = TRUE, !.metas = <<>>, !.wrong = {},
                               !.code = code]
           r == [p EXCEPT !.pc = "done", !.bundle = NoRow, !.n = 0]
<1>1. Shape(req[c])
  BY DEF Good, RequestInv
<1>2. r.pc = "done" /\ r.code = code /\ Shape(r)
  BY <1>1 DEF Shape, Fields
<1>3. Continue(c, r)
  BY DEF FetchMissing, Finish
<1>4. RequestInv(r)
  BY <1>2, Codes DEF RequestInv, Answered
<1> QED
  BY <1>3, <1>4, OneRequest

\* A request that is answered with what it has.
LEMMA FinishKeeps ==
    ASSUME Good(req, cache), NEW c \in Clients, NEW r, Shape(r), Finish(c, r),
           AsAsked(r.ask.slot, r.ask.indices, r.metas)
    PROVE  Good(req', cache)
<1> DEFINE q == [r EXCEPT !.pc = "done", !.bundle = NoRow, !.n = 0]
<1>1. Shape(q) /\ q.pc = "done" /\ q.metas = r.metas /\ q.ask = r.ask
  BY DEF Shape, Fields
<1>2. RequestInv(q)
  BY <1>1 DEF RequestInv, Answered
<1>3. Continue(c, q)
  BY DEF Finish
<1> QED
  BY <1>2, <1>3, OneRequest

\* No row has slot 0: an answer is about the slot that was asked for.
LEMMA AskedSlot ==
    ASSUME ArchiveOK, NEW r, RequestInv(r), r.slot \in DOMAIN blockTbl,
           r.pc \in {"cache", "block", "metas", "fetch"}
    PROVE  r.slot = r.ask.slot
<1>1. r.slot # 0
  BY DEF ArchiveOK, DaoTypeOK, Slots
<1> QED
  BY <1>1 DEF RequestInv

\* Indices that are all positions of a list pick from it what is asked for.
LEMMA PickIsAsked ==
    ASSUME NEW q \in Seq(Int), NEW s, NEW m, Whole(s, m), q # <<>>,
           \A i \in DOMAIN q : q[i] \in 0 .. Len(m) - 1
    PROVE  AsAsked(s, q, Pick(m, q))
<1> SUFFICES ASSUME s \notin misread
             PROVE  HasBlobs(s) /\ AsListed(q, Pick(m, q))
  BY DEF AsAsked
<1>1. Width \in Nat
  BY ServerAssumption
<1>2. CASE HasBlobs(s)
  <2>1. m = All /\ Len(m) = Width
    BY <1>1, <1>2 DEF Whole, All
  <2>2. ASSUME NEW i \in DOMAIN q
        PROVE  Pick(m, q)[i] = q[i] /\ q[i] \in Members(All)
    <3>1. q[i] \in 0 .. Width - 1
      BY <2>1
    <3>2. q[i] + 1 \in DOMAIN All /\ All[q[i] + 1] = q[i]
      BY <1>1, <3>1 DEF All
    <3> QED
      BY <2>1, <3>2 DEF Pick, Members
  <2>3. DOMAIN Pick(m, q) = DOMAIN q
    BY DEF Pick
  <2>4. Pick(m, q) = q
    BY <2>2, <2>3 DEF Pick
  <2>5. Members(q) \subseteq Members(All)
    BY <2>2 DEF Members
  <2> QED
    BY <1>2, <2>4, <2>5 DEF AsListed
<1>3. CASE ~HasBlobs(s)
  <2>1. Len(m) = 0
    BY <1>3 DEF Whole
  <2>2. 1 \in DOMAIN q
    OBVIOUS
  <2> QED
    BY <2>1, <2>2
<1> QED
  BY <1>2, <1>3

LEMMA AnswerKeeps ==
    ASSUME WholeInv, ArchiveOK, NEW c \in Clients, Answer(c)
    PROVE  Good(req', cache')
<1> DEFINE entry == [blobs |-> req[c].metas, wrong |-> req[c].wrong,
                     seen |-> req[c].seen, rank |-> 0]
<1>1. /\ Good(req, cache) /\ RequestInv(req[c]) /\ req[c].pc = "fetch"
      /\ Finish(c, req[c])
  BY DEF WholeInv, Good, Answer
<1>2. req[c].slot \in DOMAIN blockTbl /\ req[c].slot = req[c].ask.slot
  BY <1>1, AskedSlot DEF RequestInv
<1>3. Shape(req[c]) /\ AsAsked(req[c].slot, req[c].ask.indices, req[c].metas)
  BY <1>1 DEF RequestInv
<1>4. Good(req', cache)
  BY <1>1, <1>2, <1>3, FinishKeeps
<1>5. CASE req[c].ask.indices = <<>>
  <2>1. CacheSet(req[c].slot, entry)
    BY <1>5 DEF Answer
  <2>2. CacheRec(entry) /\ Whole(req[c].slot, entry.blobs)
    BY <1>3, <1>5 DEF CacheRec, AsAsked
  <2> QED
    BY <1>2, <1>4, <2>1, <2>2, SetKeeps DEF WholeInv
<1>6. CASE req[c].ask.indices # <<>>
  BY <1>4, <1>6 DEF Answer
<1> QED
  BY <1>5, <1>6

LEMMA CacheHitKeeps ==
    ASSUME WholeInv, ArchiveOK, NEW c \in Clients, CacheHit(c)
    PROVE  Good(req', cache')
<1> DEFINE s == req[c].slot
           e == cache[s]
           q == req[c].ask.indices
           metas == IF q = <<>> THEN e.blobs ELSE Pick(e.blobs, q)
           r == [req[c] EXCEPT !.metas = metas, !.wrong = e.wrong,
                               !.seen = e.seen]
<1>1. /\ Good(req, cache) /\ RequestInv(req[c]) /\ req[c].pc = "cache"
      /\ s \in DOMAIN cache
  BY DEF WholeInv, Good, CacheHit
<1>2. s \in DOMAIN blockTbl /\ Whole(s, e.blobs)
  BY <1>1 DEF Good
<1>3. s = req[c].ask.slot
  BY <1>1, <1>2, AskedSlot
<1>4. CASE Restart
  BY <1>4, RestartKeeps
<1>5. CASE /\ Finish(c, r) /\ CacheGet(s)
          /\ \A i \in DOMAIN q : q[i] \in 0 .. Len(e.blobs) - 1
  <2>1. Shape(r) /\ r.metas = metas /\ r.ask = req[c].ask
    <3> HIDE DEF metas
    <3> QED
      BY <1>1 DEF RequestInv, Shape, Fields
  <2>2. AsAsked(s, q, metas)
    <3>1. CASE q = <<>>
      BY <1>2, <3>1 DEF AsAsked
    <3>2. CASE q # <<>>
      <4>1. q \in Seq(Int)
        BY <1>1, <3>2, ServerAssumption DEF RequestInv, Shape, NoAsk
      <4>2. AsAsked(s, q, Pick(e.blobs, q))
        BY <1>2, <1>5, <3>2, <4>1, PickIsAsked
      <4> QED
        BY <3>2, <4>2
    <3> QED
      BY <3>1, <3>2
  <2>3. Good(req', cache)
    <3> HIDE DEF r, metas
    <3>1. AsAsked(r.ask.slot, r.ask.indices, r.metas)
      BY <1>3, <2>1, <2>2
    <3> QED
      BY <1>1, <1>5, <2>1, <3>1, FinishKeeps
  <2> QED
    BY <1>1, <1>5, <2>3, GetKeeps DEF WholeInv
<1>6. ASSUME NEW code, code # OK, Fail(c, code), CacheGet(s)
      PROVE  Good(req', cache')
  <2>1. Good(req', cache)
    BY <1>1, <1>6, FailKeeps
  <2> QED
    BY <1>1, <1>6, <2>1, GetKeeps DEF WholeInv
<1>7. \/ Restart
      \/ /\ Finish(c, r) /\ CacheGet(s)
         /\ \A i \in DOMAIN q : q[i] \in 0 .. Len(e.blobs) - 1
      \/ Fail(c, Aborted) /\ CacheGet(s)
      \/ Fail(c, InternalError(req[c].ask.front)) /\ CacheGet(s)
  BY DEF CacheHit
<1> QED
  BY <1>4, <1>5, <1>6, <1>7, Codes

LEMMA ReplyKeeps ==
    ASSUME Good(req, cache), NEW c \in Clients, Reply(c)
    PROVE  Good(req', cache)
  BY FreshRequest, OneRequest DEF Reply

LEMMA ServerKeeps ==
    ASSUME WholeInv, ArchiveOK, [ServerNext]_serverVars
    PROVE  Good(req', cache')
<1>1. Good(req, cache) /\ CacheInv
  BY DEF WholeInv
<1>2. CASE UNCHANGED serverVars
  BY <1>1, <1>2 DEF serverVars
<1>3. CASE Restart
  BY <1>3, RestartKeeps
<1>4. ASSUME NEW c \in Clients, ServerStep(c)
      PROVE  Good(req', cache')
  <2>1. CASE CacheHit(c)
    BY <2>1, CacheHitKeeps
  <2>2. CASE Answer(c)
    BY <2>2, AnswerKeeps
  <2>3. CASE ReadFails(c)
    <3>1. Fail(c, InternalError(req[c].ask.front)) /\ cache' = cache
      BY <2>3 DEF ReadFails
    <3> QED
      BY <1>1, <3>1, Codes, FailKeeps
  <2>4. CASE Receive(c)
    BY <1>1, <2>4, ReceiveKeeps DEF Receive
  <2>5. CASE ByRoot(c)
    BY <1>1, <2>5, ByRootKeeps DEF ByRoot
  <2>6. CASE CacheMiss(c)
    BY <1>1, <2>6, CacheMissKeeps DEF CacheMiss
  <2>7. CASE ReadBlock(c)
    BY <1>1, <2>7, ReadBlockKeeps DEF ReadBlock
  <2>8. CASE ReadMetas(c)
    BY <1>1, <2>8, ReadMetasKeeps DEF ReadMetas
  <2>9. CASE FetchObject(c) \/ FetchDamaged(c)
    BY <1>1, <2>9, FetchKeeps DEF FetchObject, FetchDamaged
  <2>10. CASE FetchMissing(c)
    BY <1>1, <2>10, FetchMissingKeeps DEF FetchMissing
  <2>11. CASE Reply(c)
    BY <1>1, <2>11, ReplyKeeps DEF Reply
  <2> QED
    BY <1>4, <2>1, <2>2, <2>3, <2>4, <2>5, <2>6, <2>7, <2>8, <2>9, <2>10,
       <2>11 DEF ServerStep
<1> QED
  BY <1>2, <1>3, <1>4 DEF ServerNext

-----------------------------------------------------------------------------
(* A step of the archive takes nothing back *)

LEMMA RowStays ==
    ASSUME [ArchiveStep]_archiveVars, NEW s \in DOMAIN blockTbl
    PROVE  s \in DOMAIN blockTbl'
  BY DEF ArchiveStep, archiveVars, daoVars

LEMMA AsAskedStays ==
    ASSUME [ArchiveStep]_archiveVars, NEW s, NEW q, NEW m, AsAsked(s, q, m)
    PROVE  AsAsked(s, q, m)'
<1>1. ASSUME s \notin misread'
      PROVE  s \notin misread /\ (s \in Slots => canon'[s] = canon[s])
  BY <1>1 DEF ArchiveStep, archiveVars, chainVars
<1> QED
  BY <1>1 DEF AsAsked, Whole, HasBlobs, All, Slots, Members, AsListed, AsSorted

LEMMA WholeStays ==
    ASSUME [ArchiveStep]_archiveVars, NEW s, NEW q, Whole(s, q)
    PROVE  Whole(s, q)'
<1>1. ASSUME s \notin misread'
      PROVE  s \notin misread /\ (s \in Slots => canon'[s] = canon[s])
  BY <1>1 DEF ArchiveStep, archiveVars, chainVars
<1> QED
  BY <1>1 DEF Whole, HasBlobs, All, Slots

LEMMA RequestStays ==
    ASSUME [ArchiveStep]_archiveVars, NEW r, RequestInv(r)
    PROVE  RequestInv(r)'
<1>1. r.pc \in {"metas", "fetch"} => r.slot \in DOMAIN blockTbl'
  BY RowStays DEF RequestInv
<1>2. r.pc = "fetch" => AsAsked(r.slot, r.ask.indices, r.metas)'
  BY AsAskedStays DEF RequestInv
<1>3. Answered(r) => AsAsked(r.ask.slot, r.ask.indices, r.metas)'
  BY AsAskedStays DEF RequestInv
<1> QED
  BY <1>1, <1>2, <1>3 DEF RequestInv, Shape, Fields, Answered, OK, NoAsk

LEMMA GoodStays ==
    ASSUME [ArchiveStep]_archiveVars, NEW rq, NEW ca, Good(rq, ca)
    PROVE  Good(rq, ca)'
<1>1. \A c \in Clients : RequestInv(rq[c])'
  BY RequestStays DEF Good
<1>2. \A s \in DOMAIN ca : s \in DOMAIN blockTbl' /\ Whole(s, ca[s].blobs)'
  BY RowStays, WholeStays DEF Good
<1> QED
  BY <1>1, <1>2 DEF Good

LEMMA WholeStep ==
    ASSUME WholeInv, ArchiveOK, [ServerNext]_serverVars,
           [ArchiveStep]_archiveVars
    PROVE  WholeInv'
<1>1. Good(req', cache')
  BY ServerKeeps
<1>2. Good(req, cache)'
  BY <1>1, GoodStays
<1>3. CacheInv'
  BY CacheStep DEF WholeInv
<1> QED
  BY <1>2, <1>3 DEF WholeInv

\* Grouped by transaction or not, a reply carries the sidecars it is made of.
LEMMA GroupsCarryAll ==
    ASSUME NEW r
    PROVE  Carried(r) = Members(r.metas)
<1> DEFINE M == Members(r.metas)
           group(i) == [tx |-> TxOf[i], blobs |-> {j \in M : TxOf[j] = TxOf[i]}]
<1>1. GroupByTx(r.metas) = {group(i) : i \in M}
  BY DEF GroupByTx
<1>2. ASSUME NEW i \in M PROVE i \in group(i).blobs /\ group(i).blobs \subseteq M
  OBVIOUS
<1> HIDE DEF M, group
<1>3. UNION {g.blobs : g \in {group(i) : i \in M}} = M
  BY <1>2
<1> QED
  BY <1>1, <1>3 DEF Carried, M

LEMMA WholeInvImplies == WholeInv => FullAnswerIsWhole
<1> SUFFICES ASSUME WholeInv, NEW c \in Clients,
                    Answered(req[c]), req[c].ask.indices = <<>>,
                    req[c].ask.slot \notin misread
             PROVE  Carried(req[c]) = IF HasBlobs(req[c].ask.slot)
                                      THEN Members(All) ELSE {}
  BY DEF FullAnswerIsWhole
<1>1. RequestInv(req[c])
  BY DEF WholeInv, Good
<1>2. req[c].metas = IF HasBlobs(req[c].ask.slot) THEN All ELSE <<>>
  BY <1>1 DEF RequestInv, AsAsked, Whole
<1>3. Members(<<>>) = {}
  BY DEF Members
<1> QED
  BY <1>2, <1>3, GroupsCarryAll

LEMMA WholeInvAtFirst == ServerInit => WholeInv
<1>1. ServerInit => CacheInv
  BY DEF ServerInit, CacheInv, Distinct, Bounded, EmptyTable
<1>2. ServerInit => Good(req, cache)
  BY FreshRequest DEF ServerInit, Good, EmptyTable
<1> QED
  BY <1>1, <1>2 DEF WholeInv

LEMMA WholeInvAlways == ServerSpec /\ ArchiveSpec => []WholeInv
<1>1. /\ WholeInv /\ ArchiveOK
      /\ [ServerNext]_serverVars /\ [ArchiveStep]_archiveVars
      => WholeInv'
  BY WholeStep
<1> QED
  BY <1>1, WholeInvAtFirst, PTL DEF ServerSpec, ArchiveSpec

\* Beside any archive that keeps its promises, an answer to a request without
\* indices carries all the blobs of the slot, or none when the chain has none,
\* however many requests run side by side and whichever of them filled the
\* cache.
THEOREM FullAnswersAreWhole ==
    ServerSpec /\ ArchiveSpec => []FullAnswerIsWhole
  BY WholeInvAlways, WholeInvImplies, PTL

\* Under the same promises an answer to a request with indices carries the
\* blobs of exactly those indices: either as they were listed, none of them
\* without a blob (the cache), or those that have one, by index and once each
\* (the database) - and it is empty where the chain has no blobs.
THEOREM IndexedAnswersAreAsAsked ==
    ServerSpec /\ ArchiveSpec => []IndexedAnswerIsAsAsked
<1>1. WholeInv => IndexedAnswerIsAsAsked
  <2> SUFFICES ASSUME WholeInv, NEW c \in Clients,
                      Answered(req[c]), req[c].ask.indices # <<>>,
                      req[c].ask.slot \notin misread
               PROVE  IF HasBlobs(req[c].ask.slot)
                      THEN \/ AsListed(req[c].ask.indices, req[c].metas)
                           \/ AsSorted(req[c].ask.indices, req[c].metas)
                      ELSE req[c].metas = <<>>
    BY DEF IndexedAnswerIsAsAsked
  <2>1. RequestInv(req[c])
    BY DEF WholeInv, Good
  <2>2. AsAsked(req[c].ask.slot, req[c].ask.indices, req[c].metas)
    BY <2>1 DEF RequestInv
  <2> QED
    BY <2>2 DEF AsAsked
<1> QED
  BY <1>1, WholeInvAlways, PTL

-----------------------------------------------------------------------------
(* Types: an entry of the cache is the whole slot or nothing because what is *)
(* read for a request without indices is                                     *)

LEMMA AllIsSeq ==
    /\ All \in Seq(Members(All)) /\ <<>> \in Seq(Members(All))
    /\ Len(All) = Width /\ DOMAIN All = 1 .. Width
    /\ Members(All) = 0 .. Width - 1
<1>1. Width \in Nat
  BY ServerAssumption
<1>2. DOMAIN All = 1 .. Width /\ \A i \in 1 .. Width : All[i] = i - 1
  BY DEF All
<1>3. Members(All) = 0 .. Width - 1
  <2>1. \A i \in DOMAIN All : All[i] \in 0 .. Width - 1
    BY <1>1, <1>2
  <2>2. \A j \in 0 .. Width - 1 : j + 1 \in DOMAIN All /\ All[j + 1] = j
    BY <1>1, <1>2
  <2> QED
    BY <2>1, <2>2 DEF Members
<1>4. All \in [1 .. Width -> 0 .. Width - 1]
  BY <1>1 DEF All
<1> QED
  BY <1>1, <1>2, <1>3, <1>4

LEMMA PickIsSeq ==
    ASSUME NEW q \in Seq(Int), NEW m \in {<<>>, All},
           \A i \in DOMAIN q : q[i] \in 0 .. Len(m) - 1
    PROVE  Pick(m, q) \in Seq(Members(All))
<1>1. Width \in Nat
  BY ServerAssumption
<1>2. ASSUME NEW i \in DOMAIN q PROVE m[q[i] + 1] \in Members(All)
  <2>1. m = All /\ q[i] \in 0 .. Width - 1
    BY <1>1, <1>2, AllIsSeq
  <2>2. q[i] + 1 \in DOMAIN All
    BY <1>1, <2>1, AllIsSeq
  <2> QED
    BY <2>1, <2>2 DEF Members
<1>3. Pick(m, q) \in [1 .. Len(q) -> Members(All)]
  BY <1>2 DEF Pick
<1> QED
  BY <1>3

LEMMA IndicesAreInts ==
    ASSUME NEW a \in Asks \cup {NoAsk}
    PROVE  a.indices \in Seq(Int)
<1>1. CASE a \in Asks
  BY <1>1, ServerAssumption
<1>2. CASE a = NoAsk
  <2>1. a.indices = <<>>
    BY <1>2 DEF NoAsk
  <2> QED
    BY <2>1
<1> QED
  BY <1>1, <1>2

LEMMA OrderedIsSeq ==
    ASSUME NEW S, S \subseteq Members(All), NEW m \in Ordered(S)
    PROVE  m \in Seq(Members(All))
<1>1. IsFiniteSet(0 .. Width - 1)
  BY ServerAssumption, FS_Interval
<1>2. Cardinality(S) \in Nat
  BY <1>1, AllIsSeq, FS_Subset, FS_CardinalityType
<1>3. m \in [1 .. Cardinality(S) -> S]
  BY DEF Ordered
<1>4. m \in [1 .. Cardinality(S) -> Members(All)]
  BY <1>3
<1> QED
  BY <1>2, <1>4

\* A request, and an entry of the cache but for its rank.
Typed(r) ==
    /\ r \in RequestType
    /\ r.pc = "fetch" /\ r.ask.indices = <<>> => r.metas \in {<<>>, All}

EntryTyped(e) ==
    /\ CacheRec(e)
    /\ e.blobs \in {<<>>, All} /\ e.wrong \subseteq Members(All)
    /\ e.seen \in BOOLEAN

RequestsTyped(rq) == rq = [c \in Clients |-> rq[c]] /\ \A c \in Clients : Typed(rq[c])

CacheTyped(ca) ==
    /\ DOMAIN ca \subseteq Nat
    /\ ca = [s \in DOMAIN ca |-> ca[s]]
    /\ \A s \in DOMAIN ca : EntryTyped(ca[s])

TypeInv == RequestsTyped(req) /\ CacheTyped(cache) /\ CacheInv

LEMMA OneTyped ==
    ASSUME RequestsTyped(req), NEW c \in Clients, NEW r, Typed(r), Continue(c, r)
    PROVE  RequestsTyped(req')
  BY DEF RequestsTyped, Continue

LEMMA RequestTyped ==
    ASSUME NEW pc \in {"idle", "root", "cache", "done"},
           NEW a \in Asks \cup {NoAsk}
    PROVE  Typed(Request(pc, a))
<1>1. a.slot \in Nat
  BY ServerAssumption DEF NoAsk
<1>2. NoRow \in Name
  BY DEF NoRow, GetBundleName, Name
<1> QED
  BY <1>1, <1>2, AllIsSeq DEF Typed, Request, RequestType, OK

\* The end of a request, whatever it carries.
LEMMA FinishTyped ==
    ASSUME RequestsTyped(req), NEW c \in Clients, NEW r \in RequestType,
           Finish(c, r)
    PROVE  RequestsTyped(req')
<1> DEFINE q == [r EXCEPT !.pc = "done", !.bundle = NoRow, !.n = 0]
<1>1. NoRow \in Name
  BY DEF NoRow, GetBundleName, Name
<1>2. q \in RequestType /\ q.pc = "done"
  BY <1>1 DEF RequestType
<1>3. Typed(q)
  BY <1>2 DEF Typed
<1> QED
  BY <1>3, OneTyped DEF Finish

LEMMA FailTyped ==
    ASSUME RequestsTyped(req), NEW c \in Clients, NEW code \in Int, Fail(c, code)
    PROVE  RequestsTyped(req')
<1>1. req[c] \in RequestType
  BY DEF RequestsTyped, Typed
<1>2. [req[c] EXCEPT !.code = code, !.metas = <<>>, !.wrong = {}] \in RequestType
  BY <1>1, AllIsSeq DEF RequestType
<1> QED
  BY <1>2, FinishTyped DEF Fail

LEMMA CodesAreInts ==
    /\ \A front : InternalError(front) \in Int
    /\ OK \in Int /\ Aborted \in Int
    /\ \A front \in Front : \A f \in DOMAIN Refusal(front) :
            Refusal(front)[f] \in Int
  BY DEF InternalError, OK, Unknown, Aborted, Front, Refusal, RestRefusal,
     GrpcRefusal, RpcRefusal

LEMMA RestartTyped == Restart => RequestsTyped(req') /\ CacheTyped(cache')
  BY RequestTyped DEF Restart, RequestsTyped, CacheTyped, EmptyTable

LEMMA ReceiveTyped ==
    ASSUME RequestsTyped(req), NEW c \in Clients, Receive(c)
    PROVE  RequestsTyped(req')
<1>1. PICK a \in Asks :
        Continue(c,
            IF a.form \in DOMAIN Refusal(a.front)
            THEN [Request("done", a) EXCEPT !.code = Refusal(a.front)[a.form]]
            ELSE Request(IF a.form = "root" THEN "root" ELSE "cache", a))
  BY DEF Receive
<1>2. CASE a.form \in DOMAIN Refusal(a.front)
  <2> DEFINE code == Refusal(a.front)[a.form]
             r == [Request("done", a) EXCEPT !.code = code]
  <2>1. code \in Int
    BY <1>2, CodesAreInts, ServerAssumption
  <2> HIDE DEF code
  <2>2. Request("done", a) \in RequestType /\ Request("done", a).pc = "done"
    BY RequestTyped DEF Typed, Request
  <2>3. r \in RequestType /\ r.pc = "done"
    <3> DEFINE p == Request("done", a)
    <3> HIDE DEF p
    <3> SUFFICES p \in RequestType /\ p.pc = "done" =>
                    /\ [p EXCEPT !.code = code] \in RequestType
                    /\ [p EXCEPT !.code = code].pc = "done"
      BY <2>2 DEF p
    <3> QED
      BY <2>1 DEF RequestType
  <2>4. Typed(r)
    BY <2>3 DEF Typed
  <2> QED
    BY <1>1, <1>2, <2>4, OneTyped DEF code
<1>3. CASE a.form \notin DOMAIN Refusal(a.front)
  BY <1>1, <1>3, OneTyped, RequestTyped
<1> QED
  BY <1>2, <1>3

\* Using an entry, and adding one.
LEMMA RanksTyped ==
    ASSUME CacheTyped(cache), CacheInv, NEW s \in Nat, NEW entry, EntryTyped(entry)
    PROVE  CacheTyped(Ranks(s, entry))
<1> DEFINE R == Ranks(s, entry)
<1>1. DOMAIN R = DOMAIN cache \cup {s} /\ R = [t \in DOMAIN R |-> R[t]]
  BY DEF Ranks
<1>2. EntryTyped(R[s])
  BY DEF Ranks, EntryTyped, CacheRec
<1>3. ASSUME NEW t \in DOMAIN R, t # s PROVE EntryTyped(R[t])
  <2>1. t \in DOMAIN cache /\ EntryTyped(cache[t])
    BY <1>1, <1>3 DEF CacheTyped
  <2>2. R[t] = IF s \in DOMAIN cache /\ cache[s].rank < cache[t].rank
               THEN cache[t]
               ELSE [cache[t] EXCEPT !.rank = @ + 1]
    BY <1>1, <1>3 DEF Ranks
  <2> QED
    BY <2>1, <2>2 DEF EntryTyped, CacheRec
<1> HIDE DEF R
<1> QED
  BY <1>1, <1>2, <1>3 DEF CacheTyped, R

LEMMA CacheGetTyped ==
    ASSUME CacheTyped(cache), CacheInv, NEW s \in DOMAIN cache, CacheGet(s)
    PROVE  CacheTyped(cache')
<1>1. s \in Nat /\ EntryTyped(cache[s])
  BY DEF CacheTyped
<1> QED
  BY <1>1, RanksTyped DEF CacheGet

LEMMA CacheSetTyped ==
    ASSUME CacheTyped(cache), CacheInv, NEW s \in Nat, NEW entry,
           EntryTyped(entry), CacheSet(s, entry)
    PROVE  CacheTyped(cache')
<1> DEFINE R == Ranks(s, entry)
<1>1. CacheTyped(R)
  BY RanksTyped
<1>2. cache' = [t \in {u \in DOMAIN R : R[u].rank < CacheSize} |-> R[t]]
  BY DEF CacheSet
<1> HIDE DEF R
<1> QED
  BY <1>1, <1>2 DEF CacheTyped

LEMMA CacheHitTyped ==
    ASSUME TypeInv, NEW c \in Clients, CacheHit(c)
    PROVE  RequestsTyped(req') /\ CacheTyped(cache')
<1> DEFINE s == req[c].slot
           e == cache[s]
           q == req[c].ask.indices
           metas == IF q = <<>> THEN e.blobs ELSE Pick(e.blobs, q)
           r == [req[c] EXCEPT !.metas = metas, !.wrong = e.wrong,
                               !.seen = e.seen]
<1>1. /\ RequestsTyped(req) /\ CacheTyped(cache) /\ CacheInv
      /\ req[c] \in RequestType /\ s \in DOMAIN cache /\ EntryTyped(e)
  BY DEF TypeInv, RequestsTyped, CacheTyped, Typed, CacheHit
<1>2. CASE Restart
  BY <1>2, RestartTyped
<1>3. CASE /\ Finish(c, r) /\ CacheGet(s)
           /\ \A i \in DOMAIN q : q[i] \in 0 .. Len(e.blobs) - 1
  <2>1. q \in Seq(Int)
    <3>1. req[c].ask \in Asks \cup {NoAsk}
      BY <1>1 DEF RequestType
    <3> QED
      BY <3>1, IndicesAreInts
  <2>2. metas \in Seq(Members(All))
    BY <1>1, <1>3, <2>1, PickIsSeq, AllIsSeq DEF EntryTyped
  <2> HIDE DEF metas
  <2>3. r \in RequestType
    BY <1>1, <2>2 DEF RequestType, EntryTyped
  <2> QED
    BY <1>1, <1>3, <2>3, FinishTyped, CacheGetTyped
<1>4. ASSUME NEW code \in Int, Fail(c, code), CacheGet(s)
      PROVE  RequestsTyped(req') /\ CacheTyped(cache')
  BY <1>1, <1>4, FailTyped, CacheGetTyped
<1>5. \/ Restart
      \/ /\ Finish(c, r) /\ CacheGet(s)
         /\ \A i \in DOMAIN q : q[i] \in 0 .. Len(e.blobs) - 1
      \/ Fail(c, Aborted) /\ CacheGet(s)
      \/ Fail(c, InternalError(req[c].ask.front)) /\ CacheGet(s)
  BY DEF CacheHit
<1> QED
  BY <1>2, <1>3, <1>4, <1>5, CodesAreInts

\* What is read of the archive and from it.
LEMMA ReadTyped ==
    ASSUME RequestsTyped(req), DaoTypeOK, NEW c \in Clients,
           ByRoot(c) \/ CacheMiss(c) \/ ReadBlock(c) \/ ReadMetas(c)
    PROVE  RequestsTyped(req')
<1>1. req[c] \in RequestType
  BY DEF RequestsTyped, Typed
<1>2. ASSUME NEW r \in RequestType, r.pc # "fetch", Continue(c, r)
      PROVE  RequestsTyped(req')
  BY <1>2, OneTyped DEF Typed
<1>3. CASE ByRoot(c)
  <2>1. PICK z \in Nat : Continue(c, [req[c] EXCEPT !.pc = "cache", !.slot = z])
    BY <1>1, <1>3 DEF ByRoot, RequestType
  <2>2. [req[c] EXCEPT !.pc = "cache", !.slot = z] \in RequestType
    BY <1>1 DEF RequestType
  <2>3. [req[c] EXCEPT !.pc = "cache", !.slot = z].pc = "cache"
    BY <1>1 DEF RequestType
  <2> QED
    BY <1>2, <2>1, <2>2, <2>3
<1>4. CASE CacheMiss(c)
  <2>1. [req[c] EXCEPT !.pc = "block"] \in RequestType
    BY <1>1 DEF RequestType
  <2>2. [req[c] EXCEPT !.pc = "block"].pc = "block"
    BY <1>1 DEF RequestType
  <2> QED
    BY <1>2, <1>4, <2>1, <2>2 DEF CacheMiss
<1>5. CASE ReadBlock(c)
  <2> DEFINE s == req[c].slot
             b == blockTbl[s].bundle
             v == blockTbl[s].status = "verified"
             r == [req[c] EXCEPT !.pc = "metas", !.bundle = b, !.seen = v]
  <2>1. CASE s \in DOMAIN blockTbl
    <3>1. b \in Name /\ v \in BOOLEAN
      BY <2>1 DEF DaoTypeOK
    <3>2. Continue(c, r)
      BY <1>5, <2>1 DEF ReadBlock
    <3> HIDE DEF b, v
    <3>3. r \in RequestType /\ r.pc = "metas"
      BY <1>1, <3>1 DEF RequestType
    <3> QED
      BY <1>2, <3>2, <3>3
  <2>2. CASE s \notin DOMAIN blockTbl
    <3>1. Fail(c, InternalError(req[c].ask.front))
      BY <1>5, <2>2 DEF ReadBlock
    <3> QED
      BY <3>1, CodesAreInts, FailTyped
  <2> QED
    BY <2>1, <2>2
<1>6. CASE ReadMetas(c)
  <2> DEFINE q == req[c].ask.indices
             rows == IF req[c].slot \in blobTbl THEN All ELSE <<>>
  <2>1. PICK m : /\ m \in IF q = <<>> THEN {rows}
                          ELSE Ordered(Members(rows) \cap Members(q))
                 /\ Continue(c, [req[c] EXCEPT !.pc = "fetch", !.metas = m])
    BY <1>6 DEF ReadMetas
  <2>2. Members(rows) \subseteq Members(All)
    BY DEF Members
  <2>3. m \in Seq(Members(All)) /\ (q = <<>> => m \in {<<>>, All})
    <3>1. CASE q = <<>>
      BY <2>1, <3>1, AllIsSeq
    <3>2. CASE q # <<>>
      <4> DEFINE S == Members(rows) \cap Members(q)
      <4>1. S \subseteq Members(All) /\ m \in Ordered(S)
        BY <2>1, <2>2, <3>2
      <4> HIDE DEF S
      <4> QED
        BY <3>2, <4>1, OrderedIsSeq
    <3> QED
      BY <3>1, <3>2
  <2> DEFINE r == [req[c] EXCEPT !.pc = "fetch", !.metas = m]
  <2>4. r \in RequestType /\ r.ask = req[c].ask /\ r.metas = m
    BY <1>1, <2>3 DEF RequestType
  <2>5. Typed(r)
    BY <2>3, <2>4 DEF Typed
  <2> QED
    BY <2>1, <2>5, OneTyped
<1> QED
  BY <1>3, <1>4, <1>5, <1>6

LEMMA FetchTyped ==
    ASSUME RequestsTyped(req), NEW c \in Clients, FetchObject(c) \/ FetchDamaged(c)
    PROVE  RequestsTyped(req')
<1>1. Typed(req[c]) /\ req[c] \in RequestType
  BY DEF RequestsTyped, Typed
<1>2. PICK n \in Nat, w \in SUBSET Members(All) :
        Continue(c, [req[c] EXCEPT !.n = n, !.wrong = w])
  <2>1. req[c].n + 1 \in Nat
    BY <1>1 DEF RequestType
  <2>2. CASE FetchObject(c)
    <3>1. [req[c] EXCEPT !.n = req[c].n + 1]
            = [req[c] EXCEPT !.n = req[c].n + 1, !.wrong = req[c].wrong]
      BY <1>1 DEF RequestType
    <3> QED
      BY <1>1, <2>1, <2>2, <3>1 DEF FetchObject, RequestType
  <2>3. CASE FetchDamaged(c)
    <3>1. req[c].n + 1 \in DOMAIN req[c].metas
      BY <1>1, <2>1, <2>3 DEF FetchDamaged, RequestType
    <3>2. req[c].metas[req[c].n + 1] \in Members(All)
      BY <1>1, <3>1 DEF RequestType
    <3> QED
      BY <1>1, <2>1, <2>3, <3>2 DEF FetchDamaged, RequestType
  <2> QED
    BY <2>2, <2>3
<1> DEFINE r == [req[c] EXCEPT !.n = n, !.wrong = w]
<1>3. /\ r \in RequestType /\ r.pc = req[c].pc /\ r.ask = req[c].ask
      /\ r.metas = req[c].metas
  BY <1>1 DEF RequestType
<1>4. Typed(r)
  BY <1>1, <1>3 DEF Typed
<1> QED
  BY <1>2, <1>4, OneTyped

LEMMA FetchMissingTyped ==
    ASSUME RequestsTyped(req), NEW c \in Clients, FetchMissing(c)
    PROVE  RequestsTyped(req')
<1> DEFINE code == InternalError(req[c].ask.front)
           r == [req[c] EXCEPT !.gone = TRUE, !.metas = <<>>, !.wrong = {},
                               !.code = code]
<1>1. req[c] \in RequestType /\ code \in Int
  BY CodesAreInts DEF RequestsTyped, Typed
<1>2. Finish(c, r)
  BY DEF FetchMissing
<1> HIDE DEF code
<1>3. r \in RequestType
  BY <1>1, AllIsSeq DEF RequestType
<1> QED
  BY <1>2, <1>3, FinishTyped

LEMMA AnswerTyped ==
    ASSUME TypeInv, NEW c \in Clients, Answer(c)
    PROVE  RequestsTyped(req') /\ CacheTyped(cache')
<1> DEFINE entry == [blobs |-> req[c].metas, wrong |-> req[c].wrong,
                     seen |-> req[c].seen, rank |-> 0]
<1>1. /\ RequestsTyped(req) /\ CacheTyped(cache) /\ CacheInv
      /\ Typed(req[c]) /\ req[c] \in RequestType /\ req[c].pc = "fetch"
      /\ Finish(c, req[c])
  BY DEF TypeInv, RequestsTyped, Typed, Answer
<1>2. RequestsTyped(req')
  BY <1>1, FinishTyped
<1>3. CASE req[c].ask.indices = <<>>
  <2>1. CacheSet(req[c].slot, entry)
    BY <1>3 DEF Answer
  <2>2. EntryTyped(entry) /\ req[c].slot \in Nat
    BY <1>1, <1>3 DEF EntryTyped, CacheRec, Typed, RequestType
  <2> HIDE DEF entry
  <2> QED
    BY <1>1, <1>2, <2>1, <2>2, CacheSetTyped
<1>4. CASE req[c].ask.indices # <<>>
  BY <1>1, <1>2, <1>4 DEF Answer
<1> QED
  BY <1>3, <1>4

LEMMA TypeInvStep ==
    ASSUME TypeInv, DaoTypeOK, [ServerNext]_serverVars
    PROVE  TypeInv'
<1>1. RequestsTyped(req) /\ CacheTyped(cache) /\ CacheInv
  BY DEF TypeInv
<1> SUFFICES RequestsTyped(req') /\ CacheTyped(cache')
  BY <1>1, CacheStep DEF TypeInv, RequestsTyped, CacheTyped
<1>2. CASE UNCHANGED serverVars
  BY <1>1, <1>2 DEF serverVars
<1>3. CASE Restart
  BY <1>3, RestartTyped
<1>4. ASSUME NEW c \in Clients, ServerStep(c)
      PROVE  RequestsTyped(req') /\ CacheTyped(cache')
  <2>1. CASE CacheHit(c)
    BY <2>1, CacheHitTyped
  <2>2. CASE Answer(c)
    BY <2>2, AnswerTyped
  <2>3. CASE ReadFails(c)
    <3>1. Fail(c, InternalError(req[c].ask.front)) /\ cache' = cache
      BY <2>3 DEF ReadFails
    <3> QED
      BY <1>1, <3>1, CodesAreInts, FailTyped
  <2>4. CASE Receive(c)
    BY <1>1, <2>4, ReceiveTyped DEF Receive
  <2>5. CASE ByRoot(c) \/ CacheMiss(c) \/ ReadBlock(c) \/ ReadMetas(c)
    <3>1. cache' = cache
      BY <2>5 DEF ByRoot, CacheMiss, ReadBlock, ReadMetas
    <3> QED
      BY <1>1, <2>5, <3>1, ReadTyped
  <2>6. CASE FetchObject(c) \/ FetchDamaged(c)
    BY <1>1, <2>6, FetchTyped DEF FetchObject, FetchDamaged
  <2>7. CASE FetchMissing(c)
    BY <1>1, <2>7, FetchMissingTyped DEF FetchMissing
  <2>8. CASE Reply(c)
    BY <1>1, <2>8, OneTyped, RequestTyped DEF Reply
  <2> QED
    BY <1>4, <2>1, <2>2, <2>3, <2>4, <2>5, <2>6, <2>7, <2>8 DEF ServerStep
<1> QED
  BY <1>2, <1>3, <1>4 DEF ServerNext

LEMMA TypeInvImplies == TypeInv => ServerTypeOK
<1> SUFFICES ASSUME TypeInv PROVE ServerTypeOK
  OBVIOUS
<1>1. req \in [Clients -> RequestType]
  BY DEF TypeInv, RequestsTyped, Typed
<1>2. ASSUME NEW s \in DOMAIN cache PROVE cache[s] \in Entry
  <2>1. EntryTyped(cache[s]) /\ cache[s].rank \in Nat /\ cache[s].rank < CacheSize
    BY DEF TypeInv, CacheTyped, CacheInv, Distinct, Bounded
  <2>2. cache[s].rank \in 0 .. CacheSize - 1
    BY <2>1, ServerAssumption
  <2> QED
    BY <2>1, <2>2 DEF EntryTyped, CacheRec, Entry
<1> QED
  BY <1>1, <1>2 DEF ServerTypeOK, TypeInv, CacheTyped

LEMMA TypeInvAtFirst == ServerInit => TypeInv
<1>1. ServerInit => CacheInv
  BY DEF ServerInit, CacheInv, Distinct, Bounded, EmptyTable
<1>2. ServerInit => RequestsTyped(req) /\ CacheTyped(cache)
  BY RequestTyped DEF ServerInit, RequestsTyped, CacheTyped, EmptyTable
<1> QED
  BY <1>1, <1>2 DEF TypeInv

\* Beside a database whose rows are typed the server's variables are, and
\* the cache holds whole slots only: no answer to a request with indices ever
\* gets into it.
THEOREM ServerTypes == ServerSpec /\ []DaoTypeOK => []ServerTypeOK
<1>1. ServerInit => TypeInv
  BY TypeInvAtFirst
<1>2. TypeInv /\ DaoTypeOK /\ [ServerNext]_serverVars => TypeInv'
  BY TypeInvStep
<1> QED
  BY <1>1, <1>2, TypeInvImplies, PTL DEF ServerSpec

-----------------------------------------------------------------------------
(* Answers about verified slots, beside an archive that also keeps what it   *)
(* has verified                                                              *)

\* Bundle n is on Greenfield for good, the blobs of slot s in it.
SealedWith(n, s) ==
    n \in DOMAIN svc /\ svc[n].object = "sealed" /\ s \in svc[n].slots

\* What the verify loop promises of a slot it has marked.
VerifiedIsSealed ==
    \A s \in DOMAIN blockTbl \ misread :
        blockTbl[s].status = "verified" /\ HasBlobs(s) =>
            SealedWith(blockTbl[s].bundle, s)

\* What Greenfield promises of a sealed object.
SealedStays ==
    \A n \in DOMAIN svc : svc[n].object = "sealed" =>
        /\ n \in DOMAIN svc' /\ svc'[n].object = "sealed"
        /\ svc'[n].slots = svc[n].slots

SealedSpec == []VerifiedIsSealed /\ [][SealedStays]_svc

\* Between reading a row as Verified and fetching the last object of its
\* bundle nothing can go wrong any more, nor has it.
Sound(r) ==
    /\ r.pc \in {"idle", "root", "cache", "block", "metas"} =>
            ~r.gone /\ r.wrong = {}
    /\ r.seen /\ r.ask.slot \notin misread => ~r.gone /\ r.wrong = {}
    /\ r.pc \in {"metas", "fetch"} /\ r.seen /\ r.slot \notin misread
            /\ HasBlobs(r.slot) => SealedWith(r.bundle, r.slot)

SoundEntry(s, e) == e.seen /\ s \notin misread => e.wrong = {}

AllSound(rq, ca) ==
    /\ \A c \in Clients : Sound(rq[c])
    /\ \A s \in DOMAIN ca : SoundEntry(s, ca[s])

LEMMA OneSound ==
    ASSUME TypeInv, AllSound(req, cache), NEW c \in Clients, NEW r, Sound(r),
           Continue(c, r)
    PROVE  AllSound(req', cache)
  BY DEF TypeInv, RequestsTyped, AllSound, Continue

LEMMA RequestSound ==
    ASSUME NEW pc, NEW a PROVE Sound(Request(pc, a))
  BY DEF Sound, Request

LEMMA FinishSound ==
    ASSUME TypeInv, AllSound(req, cache), NEW c \in Clients, NEW r \in RequestType,
           r.seen /\ r.ask.slot \notin misread => ~r.gone /\ r.wrong = {},
           Finish(c, r)
    PROVE  AllSound(req', cache)
<1> DEFINE q == [r EXCEPT !.pc = "done", !.bundle = NoRow, !.n = 0]
<1>1. /\ q.pc = "done" /\ q.seen = r.seen /\ q.ask = r.ask
      /\ q.gone = r.gone /\ q.wrong = r.wrong
  BY DEF RequestType
<1>2. Sound(q)
  BY <1>1 DEF Sound
<1> QED
  BY <1>2, OneSound DEF Finish

LEMMA FailSound ==
    ASSUME TypeInv, AllSound(req, cache), NEW c \in Clients, NEW code \in Int,
           Fail(c, code)
    PROVE  AllSound(req', cache)
<1> DEFINE r == [req[c] EXCEPT !.code = code, !.metas = <<>>, !.wrong = {}]
<1>1. req[c] \in RequestType /\ Sound(req[c])
  BY DEF TypeInv, RequestsTyped, Typed, AllSound
<1>2. /\ r \in RequestType /\ r.seen = req[c].seen /\ r.ask = req[c].ask
      /\ r.gone = req[c].gone /\ r.wrong = {}
  BY <1>1, AllIsSeq DEF RequestType
<1>3. Finish(c, r)
  BY DEF Fail
<1> HIDE DEF r
<1> QED
  BY <1>1, <1>2, <1>3, FinishSound DEF Sound

\* An entry that is used, or that is added, takes no other one's place.
LEMMA RanksSound ==
    ASSUME TypeInv, NEW rq, AllSound(rq, cache), NEW s \in Nat, NEW entry,
           EntryTyped(entry), SoundEntry(s, entry)
    PROVE  \A t \in DOMAIN Ranks(s, entry) : SoundEntry(t, Ranks(s, entry)[t])
<1> DEFINE R == Ranks(s, entry)
<1>1. DOMAIN R = DOMAIN cache \cup {s}
  BY DEF Ranks
<1>2. SoundEntry(s, R[s])
  BY DEF Ranks, EntryTyped, CacheRec, SoundEntry
<1>3. ASSUME NEW t \in DOMAIN R, t # s PROVE SoundEntry(t, R[t])
  <2>1. t \in DOMAIN cache /\ EntryTyped(cache[t]) /\ SoundEntry(t, cache[t])
    BY <1>1, <1>3 DEF TypeInv, CacheTyped, AllSound
  <2>2. R[t] = IF s \in DOMAIN cache /\ cache[s].rank < cache[t].rank
               THEN cache[t]
               ELSE [cache[t] EXCEPT !.rank = @ + 1]
    BY <1>1, <1>3 DEF Ranks
  <2> QED
    BY <2>1, <2>2 DEF EntryTyped, CacheRec, SoundEntry
<1> QED
  BY <1>2, <1>3

LEMMA GetSound ==
    ASSUME TypeInv, AllSound(req, cache), AllSound(req', cache),
           NEW s \in DOMAIN cache, CacheGet(s)
    PROVE  AllSound(req', cache')
<1> DEFINE R == Ranks(s, cache[s])
<1>1. s \in Nat /\ EntryTyped(cache[s]) /\ SoundEntry(s, cache[s])
  BY DEF TypeInv, CacheTyped, AllSound
<1>2. \A t \in DOMAIN R : SoundEntry(t, R[t])
  BY <1>1, RanksSound
<1>3. cache' = R
  BY DEF CacheGet
<1> HIDE DEF R
<1> QED
  BY <1>2, <1>3 DEF AllSound

LEMMA SetSound ==
    ASSUME TypeInv, AllSound(req, cache), AllSound(req', cache), NEW s \in Nat,
           NEW entry, EntryTyped(entry), SoundEntry(s, entry), CacheSet(s, entry)
    PROVE  AllSound(req', cache')
<1> DEFINE R == Ranks(s, entry)
<1>1. \A t \in DOMAIN R : SoundEntry(t, R[t])
  BY RanksSound
<1>2. cache' = [t \in {u \in DOMAIN R : R[u].rank < CacheSize} |-> R[t]]
  BY DEF CacheSet
<1> HIDE DEF R
<1> QED
  BY <1>1, <1>2 DEF AllSound

\* What a row that is read as Verified promises.
LEMMA ReadSound ==
    ASSUME TypeInv, AllSound(req, cache), VerifiedIsSealed, NEW c \in Clients,
           \/ ByRoot(c) \/ CacheMiss(c) \/ ReadBlock(c) \/ ReadMetas(c)
    PROVE  AllSound(req', cache)
<1>1. req[c] \in RequestType /\ Sound(req[c])
  BY DEF TypeInv, RequestsTyped, Typed, AllSound
<1>2. CASE ByRoot(c)
  <2>1. PICK z : Continue(c, [req[c] EXCEPT !.pc = "cache", !.slot = z])
    BY <1>2 DEF ByRoot
  <2> DEFINE r == [req[c] EXCEPT !.pc = "cache", !.slot = z]
  <2>2. /\ r.pc = "cache" /\ r.seen = req[c].seen /\ r.ask = req[c].ask
        /\ r.gone = req[c].gone /\ r.wrong = req[c].wrong
    BY <1>1 DEF RequestType
  <2>3. Sound(r)
    BY <1>1, <1>2, <2>2 DEF Sound, ByRoot
  <2> QED
    BY <2>1, <2>3, OneSound
<1>3. CASE CacheMiss(c)
  <2> DEFINE r == [req[c] EXCEPT !.pc = "block"]
  <2>1. /\ r.pc = "block" /\ r.seen = req[c].seen /\ r.ask = req[c].ask
        /\ r.gone = req[c].gone /\ r.wrong = req[c].wrong
    BY <1>1 DEF RequestType
  <2>2. Sound(r)
    BY <1>1, <1>3, <2>1 DEF Sound, CacheMiss
  <2> QED
    BY <1>3, <2>2, OneSound DEF CacheMiss
<1>4. CASE ReadBlock(c)
  <2> DEFINE s == req[c].slot
             b == blockTbl[s].bundle
             v == blockTbl[s].status = "verified"
             r == [req[c] EXCEPT !.pc = "metas", !.bundle = b, !.seen = v]
  <2>1. CASE s \in DOMAIN blockTbl
    <3>1. v /\ s \notin misread /\ HasBlobs(s) => SealedWith(b, s)
      BY <2>1 DEF VerifiedIsSealed
    <3>2. Continue(c, r)
      BY <1>4, <2>1 DEF ReadBlock
    <3>3. ~req[c].gone /\ req[c].wrong = {}
      BY <1>1, <1>4 DEF Sound, ReadBlock
    <3> HIDE DEF b, v
    <3>4. /\ r.pc = "metas" /\ r.seen = v /\ r.ask = req[c].ask /\ r.slot = s
          /\ r.bundle = b /\ r.gone = req[c].gone /\ r.wrong = req[c].wrong
      BY <1>1 DEF RequestType
    <3>5. Sound(r)
      BY <3>1, <3>3, <3>4 DEF Sound
    <3> QED
      BY <3>2, <3>5, OneSound
  <2>2. CASE s \notin DOMAIN blockTbl
    <3>1. Fail(c, InternalError(req[c].ask.front))
      BY <1>4, <2>2 DEF ReadBlock
    <3> QED
      BY <3>1, CodesAreInts, FailSound
  <2> QED
    BY <2>1, <2>2
<1>5. CASE ReadMetas(c)
  <2>1. PICK m : Continue(c, [req[c] EXCEPT !.pc = "fetch", !.metas = m])
    BY <1>5 DEF ReadMetas
  <2> DEFINE r == [req[c] EXCEPT !.pc = "fetch", !.metas = m]
  <2>2. /\ r.pc = "fetch" /\ r.seen = req[c].seen /\ r.ask = req[c].ask
        /\ r.slot = req[c].slot /\ r.bundle = req[c].bundle
        /\ r.gone = req[c].gone /\ r.wrong = req[c].wrong
    BY <1>1 DEF RequestType
  <2>3. Sound(r)
    BY <1>1, <1>5, <2>2 DEF Sound, ReadMetas
  <2> QED
    BY <2>1, <2>3, OneSound
<1> QED
  BY <1>2, <1>3, <1>4, <1>5

\* While sidecars are left to fetch, the object of a slot that was read as
\* Verified is there and whole.
LEMMA ObjectIsThere ==
    ASSUME WholeInv, TypeInv, ArchiveOK, NEW c \in Clients, Sound(req[c]),
           req[c].pc = "fetch", req[c].n < Len(req[c].metas), req[c].seen,
           req[c].ask.slot \notin misread
    PROVE  GetObject(req[c].bundle, req[c].slot)
<1>1. /\ RequestInv(req[c]) /\ req[c] \in RequestType
  BY DEF WholeInv, Good, TypeInv, RequestsTyped, Typed
<1>2. req[c].slot = req[c].ask.slot
  BY <1>1, AskedSlot DEF RequestInv
<1>3. HasBlobs(req[c].slot)
  <2>1. 1 \in DOMAIN req[c].metas
    BY <1>1 DEF RequestType
  <2>2. req[c].metas[1] \in Members(req[c].metas) /\ req[c].metas # <<>>
    BY <2>1 DEF Members
  <2>3. AsAsked(req[c].slot, req[c].ask.indices, req[c].metas)
    BY <1>1 DEF RequestInv
  <2> QED
    BY <1>2, <2>2, <2>3 DEF AsAsked, Whole
<1> QED
  BY <1>2, <1>3 DEF Sound, SealedWith, GetObject, BundleExists

LEMMA FetchSound ==
    ASSUME WholeInv, TypeInv, AllSound(req, cache), ArchiveOK, NEW c \in Clients,
           FetchObject(c) \/ FetchDamaged(c) \/ FetchMissing(c)
    PROVE  AllSound(req', cache)
<1>1. /\ req[c] \in RequestType /\ Sound(req[c]) /\ req[c].pc = "fetch"
      /\ req[c].n < Len(req[c].metas)
  BY DEF TypeInv, RequestsTyped, Typed, AllSound, FetchObject, FetchDamaged,
         FetchMissing
<1>2. CASE FetchObject(c)
  <2> DEFINE r == [req[c] EXCEPT !.n = @ + 1]
  <2>1. /\ r.pc = req[c].pc /\ r.seen = req[c].seen /\ r.ask = req[c].ask
        /\ r.slot = req[c].slot /\ r.bundle = req[c].bundle
        /\ r.gone = req[c].gone /\ r.wrong = req[c].wrong
    BY <1>1 DEF RequestType
  <2>2. Sound(r)
    BY <1>1, <2>1 DEF Sound
  <2> QED
    BY <1>2, <2>2, OneSound DEF FetchObject
<1>3. CASE FetchDamaged(c)
  <2>1. ~(req[c].seen /\ req[c].ask.slot \notin misread)
    BY <1>1, <1>3, ObjectIsThere DEF FetchDamaged
  <2> DEFINE w == req[c].wrong \cup {req[c].metas[req[c].n + 1]}
             r == [req[c] EXCEPT !.n = @ + 1, !.wrong = w]
  <2>2. Continue(c, r)
    BY <1>3 DEF FetchDamaged
  <2>3. /\ r.pc = req[c].pc /\ r.seen = req[c].seen /\ r.ask = req[c].ask
        /\ r.slot = req[c].slot /\ r.bundle = req[c].bundle
    <3> HIDE DEF w
    <3> QED
      BY <1>1 DEF RequestType
  <2>4. Sound(r)
    BY <1>1, <2>1, <2>3 DEF Sound
  <2> QED
    BY <2>2, <2>4, OneSound
<1>4. CASE FetchMissing(c)
  <2>1. ~(req[c].seen /\ req[c].ask.slot \notin misread)
    BY <1>1, <1>4, ObjectIsThere DEF FetchMissing
  <2> DEFINE code == InternalError(req[c].ask.front)
             r == [req[c] EXCEPT !.gone = TRUE, !.metas = <<>>, !.wrong = {},
                                 !.code = code]
  <2>2. code \in Int /\ Finish(c, r)
    BY <1>4, CodesAreInts DEF FetchMissing
  <2> HIDE DEF code
  <2>3. r \in RequestType /\ r.seen = req[c].seen /\ r.ask = req[c].ask
    BY <1>1, <2>2, AllIsSeq DEF RequestType
  <2> QED
    BY <2>1, <2>2, <2>3, FinishSound
<1> QED
  BY <1>2, <1>3, <1>4

LEMMA AnswerSound ==
    ASSUME WholeInv, TypeInv, AllSound(req, cache), ArchiveOK, NEW c \in Clients,
           Answer(c)
    PROVE  AllSound(req', cache')
<1> DEFINE entry == [blobs |-> req[c].metas, wrong |-> req[c].wrong,
                     seen |-> req[c].seen, rank |-> 0]
<1>1. /\ Typed(req[c]) /\ req[c] \in RequestType /\ Sound(req[c])
      /\ RequestInv(req[c]) /\ req[c].pc = "fetch" /\ Finish(c, req[c])
  BY DEF TypeInv, RequestsTyped, Typed, AllSound, WholeInv, Good, Answer
<1>2. AllSound(req', cache)
  BY <1>1, FinishSound DEF Sound
<1>3. CASE req[c].ask.indices = <<>>
  <2>1. CacheSet(req[c].slot, entry)
    BY <1>3 DEF Answer
  <2>2. req[c].slot = req[c].ask.slot
    BY <1>1, AskedSlot DEF RequestInv
  <2>3. EntryTyped(entry) /\ req[c].slot \in Nat
    BY <1>1, <1>3 DEF EntryTyped, CacheRec, Typed, RequestType
  <2>4. SoundEntry(req[c].slot, entry)
    BY <1>1, <2>2 DEF Sound, SoundEntry
  <2> HIDE DEF entry
  <2> QED
    BY <1>2, <2>1, <2>3, <2>4, SetSound
<1>4. CASE req[c].ask.indices # <<>>
  BY <1>2, <1>4 DEF Answer
<1> QED
  BY <1>3, <1>4

LEMMA CacheHitSound ==
    ASSUME WholeInv, TypeInv, AllSound(req, cache), ArchiveOK, NEW c \in Clients,
           CacheHit(c)
    PROVE  AllSound(req', cache')
<1> DEFINE s == req[c].slot
           e == cache[s]
           q == req[c].ask.indices
           metas == IF q = <<>> THEN e.blobs ELSE Pick(e.blobs, q)
           r == [req[c] EXCEPT !.metas = metas, !.wrong = e.wrong,
                               !.seen = e.seen]
<1>1. /\ RequestInv(req[c]) /\ req[c] \in RequestType /\ Sound(req[c])
      /\ req[c].pc = "cache" /\ s \in DOMAIN cache /\ s \in DOMAIN blockTbl
      /\ EntryTyped(e) /\ SoundEntry(s, e)
  BY DEF TypeInv, RequestsTyped, CacheTyped, Typed, AllSound, WholeInv, Good,
         CacheHit
<1>2. s = req[c].ask.slot
  BY <1>1, AskedSlot
<1>3. CASE Restart
  BY <1>3, RequestSound DEF Restart, AllSound, EmptyTable
<1>4. CASE /\ Finish(c, r) /\ CacheGet(s)
           /\ \A i \in DOMAIN q : q[i] \in 0 .. Len(e.blobs) - 1
  <2>1. q \in Seq(Int)
    <3>1. req[c].ask \in Asks \cup {NoAsk}
      BY <1>1 DEF RequestType
    <3> QED
      BY <3>1, IndicesAreInts
  <2>2. metas \in Seq(Members(All))
    BY <1>1, <1>4, <2>1, PickIsSeq, AllIsSeq DEF EntryTyped
  <2> HIDE DEF metas
  <2>3. /\ r \in RequestType /\ r.seen = e.seen /\ r.wrong = e.wrong
        /\ r.ask = req[c].ask /\ r.gone = req[c].gone
    BY <1>1, <2>2 DEF RequestType, EntryTyped
  <2>4. r.seen /\ r.ask.slot \notin misread => ~r.gone /\ r.wrong = {}
    BY <1>1, <1>2, <2>3 DEF Sound, SoundEntry
  <2>5. AllSound(req', cache)
    <3> HIDE DEF r
    <3> QED
      BY <1>4, <2>3, <2>4, FinishSound
  <2> QED
    BY <1>1, <1>4, <2>5, GetSound
<1>5. ASSUME NEW code \in Int, Fail(c, code), CacheGet(s)
      PROVE  AllSound(req', cache')
  BY <1>1, <1>5, FailSound, GetSound
<1>6. \/ Restart
      \/ /\ Finish(c, r) /\ CacheGet(s)
         /\ \A i \in DOMAIN q : q[i] \in 0 .. Len(e.blobs) - 1
      \/ Fail(c, Aborted) /\ CacheGet(s)
      \/ Fail(c, InternalError(req[c].ask.front)) /\ CacheGet(s)
  BY DEF CacheHit
<1> QED
  BY <1>3, <1>4, <1>5, <1>6, CodesAreInts

LEMMA SoundStep ==
    ASSUME WholeInv, TypeInv, AllSound(req, cache), ArchiveOK, VerifiedIsSealed,
           [ServerNext]_serverVars
    PROVE  AllSound(req', cache')
<1>1. CASE UNCHANGED serverVars
  BY <1>1 DEF serverVars
<1>2. CASE Restart
  BY <1>2, RequestSound DEF Restart, AllSound, EmptyTable
<1>3. ASSUME NEW c \in Clients, ServerStep(c)
      PROVE  AllSound(req', cache')
  <2>1. CASE CacheHit(c)
    BY <2>1, CacheHitSound
  <2>2. CASE Answer(c)
    BY <2>2, AnswerSound
  <2>3. CASE ReadFails(c)
    <3>1. Fail(c, InternalError(req[c].ask.front)) /\ cache' = cache
      BY <2>3 DEF ReadFails
    <3> QED
      BY <3>1, CodesAreInts, FailSound
  <2>4. CASE Receive(c)
    <3>1. PICK a \in Asks :
            Continue(c,
                IF a.form \in DOMAIN Refusal(a.front)
                THEN [Request("done", a) EXCEPT !.code = Refusal(a.front)[a.form]]
                ELSE Request(IF a.form = "root" THEN "root" ELSE "cache", a))
      BY <2>4 DEF Receive
    <3>2. \A code : Sound([Request("done", a) EXCEPT !.code = code])
      BY DEF Sound, Request
    <3>3. cache' = cache
      BY <2>4 DEF Receive
    <3> QED
      BY <3>1, <3>2, <3>3, RequestSound, OneSound
  <2>5. CASE ByRoot(c) \/ CacheMiss(c) \/ ReadBlock(c) \/ ReadMetas(c)
    <3>1. cache' = cache
      BY <2>5 DEF ByRoot, CacheMiss, ReadBlock, ReadMetas
    <3> QED
      BY <2>5, <3>1, ReadSound
  <2>6. CASE FetchObject(c) \/ FetchDamaged(c) \/ FetchMissing(c)
    <3>1. cache' = cache
      BY <2>6 DEF FetchObject, FetchDamaged, FetchMissing
    <3> QED
      BY <2>6, <3>1, FetchSound
  <2>7. CASE Reply(c)
    BY <2>7, RequestSound, OneSound DEF Reply
  <2> QED
    BY <1>3, <2>1, <2>2, <2>3, <2>4, <2>5, <2>6, <2>7 DEF ServerStep
<1> QED
  BY <1>1, <1>2, <1>3 DEF ServerNext

\* A step of the archive leaves sound what is.
LEMMA AllSoundStays ==
    ASSUME [ArchiveStep]_archiveVars, [SealedStays]_svc, NEW rq, NEW ca,
           AllSound(rq, ca)
    PROVE  AllSound(rq, ca)'
<1>1. ASSUME NEW s, s \notin misread'
      PROVE  s \notin misread /\ (HasBlobs(s)' => HasBlobs(s))
  BY <1>1 DEF ArchiveStep, archiveVars, chainVars, HasBlobs, Slots
<1>2. ASSUME NEW n, NEW s, SealedWith(n, s) PROVE SealedWith(n, s)'
  BY <1>2 DEF SealedWith, SealedStays
<1>3. ASSUME NEW c \in Clients PROVE Sound(rq[c])'
  <2>1. Sound(rq[c])
    BY DEF AllSound
  <2> QED
    BY <1>1, <1>2, <2>1 DEF Sound
<1>4. ASSUME NEW s \in DOMAIN ca PROVE SoundEntry(s, ca[s])'
  <2>1. SoundEntry(s, ca[s])
    BY DEF AllSound
  <2> QED
    BY <1>1, <2>1 DEF SoundEntry
<1> QED
  BY <1>3, <1>4 DEF AllSound

\* Beside an archive that also keeps what it has verified, and on a Greenfield
\* that keeps what is sealed, no answer about a slot whose row was read as
\* Verified misses an object or carries a damaged one - although the verify
\* loop may move the row to another bundle between the reads and the fetches.
THEOREM VerifiedAnswersAreRight ==
    ServerSpec /\ ArchiveSpec /\ SealedSpec => []VerifiedAnswerIsRight
<1> DEFINE Inv == AllSound(req, cache)
<1>1. ServerInit => TypeInv /\ Inv
  <2>1. ServerInit => Inv
    BY RequestSound DEF ServerInit, AllSound, EmptyTable
  <2> QED
    BY <2>1, TypeInvAtFirst
<1>2. TypeInv /\ ArchiveOK /\ [ServerNext]_serverVars => TypeInv'
  BY TypeInvStep DEF ArchiveOK
<1>3. /\ WholeInv /\ TypeInv /\ Inv /\ ArchiveOK /\ VerifiedIsSealed
      /\ [ServerNext]_serverVars /\ [ArchiveStep]_archiveVars
      /\ [SealedStays]_svc
      => Inv'
  <2> SUFFICES ASSUME WholeInv, TypeInv, Inv, ArchiveOK, VerifiedIsSealed,
                      [ServerNext]_serverVars, [ArchiveStep]_archiveVars,
                      [SealedStays]_svc
               PROVE  Inv'
    OBVIOUS
  <2>1. AllSound(req', cache')
    BY SoundStep
  <2>2. AllSound(req, cache)'
    BY <2>1, AllSoundStays
  <2> QED
    BY <2>2
<1>4. Inv => VerifiedAnswerIsRight
  BY DEF AllSound, Sound, VerifiedAnswerIsRight
<1> HIDE DEF Inv
<1> QED
  BY <1>1, <1>2, <1>3, <1>4, WholeInvAlways, PTL
     DEF ServerSpec, ArchiveSpec, SealedSpec
=============================================================================
