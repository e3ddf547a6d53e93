----------------------------- MODULE IntegrityHash -----------------------------
(***************************************************************************)
(* How verifyBundleIntegrity compares a bundle it has made again with the  *)
(* object on Greenfield (util/checksum.go, syncer/verifier.go): the object *)
(* is read segment by segment, each segment is erasure coded, and for the  *)
(* segments and for each shard there is one hash of the list of hashes of  *)
(* the pieces.  Greenfield keeps the same list.                            *)
(*                                                                         *)
(* A byte is a number and an object a sequence of bytes.  A hash is the    *)
(* content it is the hash of: SHA-256 is taken to be injective.  The       *)
(* erasure code is taken to be systematic and a parity shard to be         *)
(* determined by, and to determine, the data.                              *)
(***************************************************************************)
EXTENDS Integers, Sequences, FiniteSets

CONSTANTS
    Objects,        \* bundle objects, as sequences of bytes
    Params,         \* [seg, data, parity]: Greenfield's storage parameters
    ShortReads      \* whether a read may return less than there is

ASSUME IntegrityAssumption ==
    /\ Objects \subseteq Seq(Nat) \ {<<>>}
    /\ Params \subseteq [seg : Nat, data : Nat, parity : Nat]
    /\ ShortReads \in BOOLEAN

VARIABLES
    current,    \* the storage parameters of Greenfield
    sealed,     \* [object, params]: what Greenfield holds under the name
    params,     \* s.params, as a set: empty until first fetched
    vfy         \* the call of verifyBundleIntegrity

hashVars == <<current, sealed, params, vfy>>

-----------------------------------------------------------------------------
(* Erasure coding *)

\* A hash that is not there yet, and what an empty list of hashes hashes to.
NoHash == {}

ShardSize(n, data) == n \div data + (IF n % data # 0 THEN 1 ELSE 0)

ValidShards(data, parity) == data > 0 /\ data + parity <= 256

\* The segment with zeros up to a multiple of the number of data shards.
Padded(segment, data) ==
    segment \o [i \in 1 .. ShardSize(Len(segment), data) * data - Len(segment)
                    |-> 0]

\* The shards of a segment: the data shards are the parts of it.
EncodeData(segment, data, parity) ==
    LET size == ShardSize(Len(segment), data)
        whole == Padded(segment, data)
    IN  [i \in 1 .. data + parity |->
            IF i <= data
            THEN <<"data", SubSeq(whole, (i - 1) * size + 1, i * size)>>
            ELSE <<i - data, whole>>]

-----------------------------------------------------------------------------
(* What Greenfield computes: the reference for the code *)

Segments(object, size) ==
    [k \in 1 .. ShardSize(Len(object), size) |->
        SubSeq(object, (k - 1) * size + 1,
               IF k * size <= Len(object) THEN k * size ELSE Len(object))]

Reference(object, prm) ==
    LET segs == Segments(object, prm.seg)
    IN  <<{segs}>> \o
        [i \in 1 .. prm.data + prm.parity |->
            {[k \in DOMAIN segs |->
                EncodeData(segs[k], prm.data, prm.parity)[i]]}]

Usable(prm) == prm.seg > 0 /\ ValidShards(prm.data, prm.parity)

-----------------------------------------------------------------------------
(* verifyBundleIntegrity *)

\* own: the object made again.  off: bytes read.  segs: segChecksumList.
\* enc: encodeDataHash.  hashes: hashList.  todo: the goroutines not done.
\* sums: the checksums Greenfield returned.
Call(pc, own) ==
    [pc |-> pc, own |-> own, off |-> 0, segs |-> <<>>, enc |-> <<>>,
     hashes |-> <<>>, todo |-> {}, sums |-> <<>>]

Idle == Call("idle", <<>>)

Go(pc) == vfy' = [vfy EXCEPT !.pc = pc]

\* The bundle object has been made from what the chain's nodes returned, which
\* is what was uploaded or is not.  Greenfield sealed the upload under the
\* parameters it then had.
StartVerify ==
    /\ vfy.pc = "idle"
    /\ \E own, object \in Objects :
        /\ sealed' = [object |-> object, params |-> current]
        /\ vfy' = Call("params", own)
    /\ UNCHANGED <<current, params>>

Unusable == {prm \in Params : ~Usable(prm)}

\* GetParams asks Greenfield once in the life of the process; a reply in which
\* the parameters are missing is kept like any other.
GetParams ==
    /\ vfy.pc = "params"
    /\ IF params = {}
       THEN \E prm \in {current} \cup Unusable : params' = {prm}
       ELSE UNCHANGED params
    /\ \E prm \in params' :
        vfy' = [vfy EXCEPT !.pc = "read",
                           !.enc = [i \in 1 .. prm.data + prm.parity |-> <<>>]]
    /\ UNCHANGED <<current, sealed>>

Prm == CHOOSE prm \in params : TRUE

\* What a Read of a segment may return.
ReadSizes ==
    LET rest == Len(vfy.own) - vfy.off
        full == IF rest < Prm.seg THEN rest ELSE Prm.seg
    IN  IF ShortReads THEN 1 .. full ELSE {full}

\* Mutant: the whole buffer is encoded, not the bytes that were read.
ReadSegment_WholeBuffer ==
    /\ vfy.pc = "read"
    /\ vfy.off < Len(vfy.own)
    /\ Usable(Prm)
    /\ \E n \in ReadSizes :
        LET segment == SubSeq(vfy.own, vfy.off + 1, vfy.off + n)
            buffer == segment \o [i \in 1 .. Prm.seg - n |-> 0]
            shards == EncodeData(buffer, Prm.data, Prm.parity)
        IN  vfy' = [vfy EXCEPT
                !.off = @ + n,
                !.segs = Append(@, buffer),
                !.enc = [i \in DOMAIN @ |-> Append(@[i], shards[i])]]
    /\ UNCHANGED <<current, sealed, params>>

\* One turn of the loop of ComputeIntegrityHashSerial.
ReadSegment ==
    /\ vfy.pc = "read"
    /\ vfy.off < Len(vfy.own)
    /\ Usable(Prm)
    /\ \E n \in ReadSizes :
        LET segment == SubSeq(vfy.own, vfy.off + 1, vfy.off + n)
            shards == EncodeData(segment, Prm.data, Prm.parity)
        IN  vfy' = [vfy EXCEPT
                !.off = @ + n,
                !.segs = Append(@, segment),
                !.enc = [i \in DOMAIN @ |-> Append(@[i], shards[i])]]
    /\ UNCHANGED <<current, sealed, params>>

\* End of file: the first hash is computed, and a goroutine started for each
\* shard.
Combine ==
    /\ vfy.pc = "read"
    /\ vfy.off = Len(vfy.own)
    /\ vfy' = [vfy EXCEPT
            !.pc = "wait",
            !.hashes = <<{vfy.segs}>> \o [i \in DOMAIN vfy.enc |-> NoHash],
            !.todo = DOMAIN vfy.enc]
    /\ UNCHANGED <<current, sealed, params>>

\* Mutant: the goroutine of the last shard ends without wg.Done.
HashShard_NoDone(i) ==
    /\ vfy.pc = "wait"
    /\ i \in vfy.todo
    /\ vfy' = [vfy EXCEPT
            !.hashes[i + 1] = {vfy.enc[i]},
            !.todo = IF i = Len(vfy.enc) THEN @ ELSE @ \ {i}]
    /\ UNCHANGED <<current, sealed, params>>

HashShard(i) ==
    /\ vfy.pc = "wait"
    /\ i \in vfy.todo
    /\ vfy' = [vfy EXCEPT !.hashes[i + 1] = {vfy.enc[i]}, !.todo = @ \ {i}]
    /\ UNCHANGED <<current, sealed, params>>

\* Mutant: the call does not wait for its goroutines.
WaitShards_None ==
    /\ vfy.pc = "wait"
    /\ Go("meta")
    /\ UNCHANGED <<current, sealed, params>>

\* wg.Wait
WaitShards ==
    /\ vfy.pc = "wait"
    /\ vfy.todo = {}
    /\ Go("meta")
    /\ UNCHANGED <<current, sealed, params>>

\* GetObjectMeta; a reply without the object's checksums passes for a list of
\* none.
GetChecksums ==
    /\ vfy.pc = "meta"
    /\ \E sums \in {Reference(sealed.object, sealed.params), <<>>} :
        vfy' = [vfy EXCEPT !.pc = "compare", !.sums = sums]
    /\ UNCHANGED <<current, sealed, params>>

\* Mutant: only as many checksums are compared as there are of both.
Matches_Common ==
    \A i \in DOMAIN vfy.hashes \cap DOMAIN vfy.sums :
        vfy.hashes[i] = vfy.sums[i]

\* As many checksums, and each the same.
Matches ==
    /\ Len(vfy.hashes) = Len(vfy.sums)
    /\ \A i \in DOMAIN vfy.sums : vfy.hashes[i] = vfy.sums[i]

\* The caller marks the slots Verified, or uploads the bundle again.
Compare ==
    /\ vfy.pc = "compare"
    /\ Go(IF Matches THEN "match" ELSE "mismatch")
    /\ UNCHANGED <<current, sealed, params>>

Return ==
    /\ vfy.pc \in {"match", "mismatch"}
    /\ vfy' = Idle
    /\ UNCHANGED <<current, sealed, params>>

\* A request that fails, or parameters no code exists for: verify() returns the
\* error and is called again.
VerifyFails ==
    /\ \/ vfy.pc \in {"params", "meta"}
       \/ /\ vfy.pc = "read"
          /\ ~Usable(Prm)
    /\ vfy' = Idle
    /\ UNCHANGED <<current, sealed, params>>

VerifyStep ==
    \/ StartVerify \/ GetParams \/ ReadSegment \/ Combine
    \/ \E i \in vfy.todo : HashShard(i)
    \/ WaitShards \/ GetChecksums \/ Compare \/ Return \/ VerifyFails

\* A vote on Greenfield changes the parameters of uploads to come.
ChangeParams ==
    /\ current' \in Params \ (Unusable \cup {current})
    /\ UNCHANGED <<sealed, params, vfy>>

\* What the process held is gone with it.
ForgetVerify ==
    /\ params' = {}
    /\ vfy' = Idle
    /\ UNCHANGED <<current, sealed>>

HashInit ==
    /\ current \in Params \ Unusable
    /\ sealed = [object |-> <<>>, params |-> current]
    /\ params = {}
    /\ vfy = Idle

-----------------------------------------------------------------------------
(* Properties *)

\* Types of the variables, and the shape of a hash list.
HashTypeOK ==
    /\ current \in Params
    /\ sealed \in [object : Objects \cup {<<>>}, params : Params]
    /\ params \subseteq Params /\ Cardinality(params) <= 1
    /\ vfy.pc \in {"idle", "params", "read", "wait", "meta", "compare", "match",
                   "mismatch"}
    /\ vfy.own \in Objects \cup {<<>>}
    /\ vfy.off \in 0 .. Len(vfy.own)
    /\ vfy.todo \subseteq DOMAIN vfy.enc

\* What is compared is complete and is what Greenfield computes for the object:
\* no piece left out, misplaced or padded otherwise, and no hash missing that
\* its goroutine has still to write.
HashIsReference ==
    vfy.pc \in {"compare", "match", "mismatch"} /\ ~ShortReads =>
        vfy.hashes = Reference(vfy.own, Prm)

\* A bundle whose check succeeds holds what the chain's nodes return, even if
\* Greenfield's parameters changed since they were fetched.
MatchMeansSame ==
    vfy.pc = "match" /\ ~ShortReads => vfy.own = sealed.object

\* A bundle that holds what the nodes return is not uploaded again, unless
\* Greenfield's parameters changed since the process asked for them or its
\* reply had no checksums.
SameMatches ==
    vfy.pc = "mismatch" /\ ~ShortReads /\ vfy.sums # <<>> =>
        vfy.own # sealed.object \/ Prm # sealed.params
=============================================================================
