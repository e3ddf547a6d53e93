--------------------------- MODULE SyncerProcessInv ---------------------------
(***************************************************************************)
(* Inductive invariants of the syncer as a process, and of the comparison  *)
(* of a bundle with Greenfield that runs in it: what the proofs of their   *)
(* properties rest on.                                                     *)
(***************************************************************************)
EXTENDS SyncerProcess

-----------------------------------------------------------------------------
(* The comparison *)

\* What j - 1 segments of size m hold: where segment j begins.
Offset(j, m) == (j - 1) * m

\* The shards of each segment, shard by shard.
Coded(segs, prm) ==
    [i \in 1 .. prm.data + prm.parity |->
        [k \in DOMAIN segs |-> EncodeData(segs[k], prm.data, prm.parity)[i]]]

\* The first k segments have been read.
HasRead(v, prm, k) ==
    /\ v.segs = [j \in 1 .. k |-> Segments(v.own, prm.seg)[j]]
    /\ v.off = IF Offset(k + 1, prm.seg) <= Len(v.own)
               THEN Offset(k + 1, prm.seg) ELSE Len(v.own)
    /\ v.enc = Coded(v.segs, prm)

\* The list of hashes while the goroutines in todo have not written theirs.
HashList(v, n) ==
    [i \in 1 .. n + 1 |->
        IF i = 1 THEN {v.segs}
        ELSE IF i - 1 \in v.todo THEN NoHash ELSE {v.enc[i - 1]}]

Reading == {"read", "wait", "meta", "compare", "match", "mismatch"}

Compared == {"compare", "match", "mismatch"}

SameList(hashes, sums) ==
    /\ Len(hashes) = Len(sums)
    /\ \A i \in DOMAIN sums : hashes[i] = sums[i]

CallShape(v) ==
    /\ v = [pc |-> v.pc, own |-> v.own, off |-> v.off, segs |-> v.segs,
            enc |-> v.enc, hashes |-> v.hashes, todo |-> v.todo,
            sums |-> v.sums]
    /\ v.pc \in {"idle", "params"} \cup Reading

\* What is read and encoded is what Greenfield would make of the object, as far
\* as it has been read; a hash that is missing has a goroutine that has still to
\* write it; and the list is compared when none is missing.
CallInv(v, s, prm) ==
    /\ v.own \in Objects /\ v.off \in 0 .. Len(v.own)
    /\ DOMAIN v.enc = 1 .. prm.data + prm.parity
    /\ ~Usable(prm) => v.pc = "read" /\ v.off = 0
    /\ ~ShortReads /\ Usable(prm) =>
            \E k \in 0 .. ShardSize(Len(v.own), prm.seg) : HasRead(v, prm, k)
    /\ v.todo \subseteq DOMAIN v.enc
    /\ v.pc # "wait" => v.todo = {}
    /\ v.pc # "read" => /\ v.off = Len(v.own)
                        /\ v.hashes = HashList(v, prm.data + prm.parity)
    /\ v.pc \in Compared => v.sums \in {Reference(s.object, s.params), <<>>}
    /\ v.pc = "match" => SameList(v.hashes, v.sums)
    /\ v.pc = "mismatch" => ~SameList(v.hashes, v.sums)

SealedInv(v, s) ==
    /\ s = [object |-> s.object, params |-> s.params]
    /\ s.object \in Objects \cup {<<>>} /\ s.params \in Params \ Unusable
    /\ v.pc # "idle" => s.object \in Objects

HashInv ==
    /\ current \in Params \ Unusable
    /\ SealedInv(vfy, sealed)
    /\ params = {} \/ \E prm \in Params : params = {prm}
    /\ CallShape(vfy)
    /\ vfy.pc = "idle" => vfy = Idle
    /\ vfy.pc = "params" => \E own \in Objects : vfy = Call("params", own)
    /\ vfy.pc \in Reading =>
            \E prm \in Params : params = {prm} /\ CallInv(vfy, sealed, prm)

-----------------------------------------------------------------------------
(* The process *)

\* main has a configuration once it has read one, and an accepted one once it
\* has validated it.
ConfigInv ==
    /\ cfg \subseteq SyncerConfig
    /\ IF main \in {"dead", "parse"} THEN cfg = {} ELSE \E c \in cfg : cfg = {c}
    /\ main \in {"open", "migrate", "new", "blocked"} =>
            \A c \in cfg : ValidSyncer(c)

\* The goroutines run when main is done, on a database main left whole.
MainInv ==
    /\ main \in {"dead", "parse", "validate", "open", "migrate", "new",
                 "blocked"}
    /\ tables \subseteq {Tables[i] : i \in 1 .. 3}
    /\ main \in {"new", "blocked"} => \A i \in 1 .. 3 : Tables[i] \in tables
    /\ alive \subseteq Goroutines
    /\ main # "blocked" => alive = {}
    /\ starts \in 0 .. MaxStarts

\* The gauge shows the quota last read.
GaugeInv ==
    \/ asked = {} /\ gauge = {}
    \/ \E q \in Quotas : asked = {q} /\ gauge = {Remaining(q)}

\* What happened between two starts of the process, and in any order of its
\* goroutines' steps, leaves: a comparison that agrees with Greenfield's as far
\* as it has come, in a process that is configured, on a database that is whole.
ProcessInv == ConfigInv /\ MainInv /\ GaugeInv /\ HashInv
=============================================================================
