-------------------------- MODULE SyncerProcess_proof --------------------------
(***************************************************************************)
(* Proofs about the syncer as a process: the comparison of a bundle with   *)
(* the object on Greenfield says what it should, whatever the object and   *)
(* the storage parameters; the loops run only on a whole database and with *)
(* an accepted configuration; and the gauge of the quota monitor.          *)
(***************************************************************************)
EXTENDS SyncerProcessInv, FiniteSetTheorems, SequenceTheorems, TLAPS

-----------------------------------------------------------------------------
(* Cutting an object into segments *)

LEMMA Euclid ==
    ASSUME NEW n \in Nat, NEW m \in Nat \ {0}
    PROVE  /\ n \div m \in Nat /\ n % m \in 0 .. m - 1
           /\ n = (n \div m) * m + (n % m)
OBVIOUS

LEMMA TimesMonotone ==
    ASSUME NEW x \in Int, NEW y \in Int, NEW m \in Nat, x <= y
    PROVE  x * m <= y * m
<1>1. y * m - x * m = (y - x) * m /\ y - x \in Nat
  OBVIOUS
<1>2. ASSUME NEW a \in Nat, NEW b \in Nat PROVE a * b \in Nat
  OBVIOUS
<1>3. (y - x) * m \in Nat
  BY <1>1, <1>2
<1>4. x * m \in Int /\ y * m \in Int
  OBVIOUS
<1> QED
  BY <1>1, <1>3, <1>4

LEMMA OffsetType ==
    \A m \in Nat : \A j \in Int : Offset(j, m) \in Int
BY DEF Offset

LEMMA OffsetFirst == \A m \in Nat : Offset(1, m) = 0
BY DEF Offset

LEMMA OffsetNext ==
    \A m \in Nat : \A j \in Int : Offset(j + 1, m) = Offset(j, m) + m
BY DEF Offset

LEMMA OffsetMonotone ==
    \A m \in Nat : \A i, j \in Int : i <= j => Offset(i, m) <= Offset(j, m)
<1> SUFFICES ASSUME NEW m \in Nat, NEW i \in Int, NEW j \in Int, i <= j
             PROVE  Offset(i, m) <= Offset(j, m)
  OBVIOUS
<1>1. i - 1 \in Int /\ j - 1 \in Int /\ i - 1 <= j - 1
  OBVIOUS
<1> QED
  BY <1>1, TimesMonotone DEF Offset

\* The pieces of size m that an object of n bytes is cut into: as many as it
\* takes, and the last is not empty.
LEMMA ShardSizeRounds ==
    ASSUME NEW n \in Nat \ {0}, NEW m \in Nat \ {0}
    PROVE  /\ ShardSize(n, m) \in Nat \ {0}
           /\ Offset(ShardSize(n, m), m) < n
           /\ n <= Offset(ShardSize(n, m), m) + m
<1> DEFINE q == n \div m
           r == n % m
<1>1. q \in Nat /\ r \in 0 .. m - 1 /\ n = q * m + r
  BY Euclid
<1> HIDE DEF q, r
<1>2. q * m \in Int /\ Offset(q + 1, m) = q * m /\ Offset(q, m) = q * m - m
  BY <1>1 DEF Offset
<1>3. CASE r = 0
  <2>1. ShardSize(n, m) = q
    BY <1>1, <1>3 DEF ShardSize, q, r
  <2>2. q # 0
    BY <1>1, <1>3
  <2> QED
    BY <1>1, <1>2, <1>3, <2>1, <2>2
<1>4. CASE r # 0
  <2>1. ShardSize(n, m) = q + 1
    BY <1>1, <1>4 DEF ShardSize, q, r
  <2> QED
    BY <1>1, <1>2, <1>4, <2>1
<1> QED
  BY <1>3, <1>4

\* There is only one such number.
LEMMA ShardSizeUnique ==
    ASSUME NEW n \in Nat \ {0}, NEW m \in Nat \ {0}, NEW k \in Nat,
           Offset(k, m) < n, n <= Offset(k, m) + m
    PROVE  k = ShardSize(n, m)
<1>1. PICK s \in Nat \ {0} : s = ShardSize(n, m)
  BY ShardSizeRounds
<1>2. Offset(s, m) < n /\ n <= Offset(s, m) + m
  BY <1>1, ShardSizeRounds
<1>3. ASSUME NEW x \in Int, NEW y \in Int, x + 1 <= y
      PROVE  Offset(x, m) + m <= Offset(y, m)
  <2>1. x + 1 \in Int
    OBVIOUS
  <2>2. Offset(x + 1, m) <= Offset(y, m)
    BY <2>1, <1>3, OffsetMonotone
  <2> QED
    BY <2>2, OffsetNext
<1>4. Offset(s, m) \in Int /\ Offset(k, m) \in Int
  BY OffsetType
<1>5. ~(k + 1 <= s)
  BY <1>2, <1>3, <1>4
<1>6. ~(s + 1 <= k)
  BY <1>2, <1>3, <1>4
<1> QED
  BY <1>1, <1>5, <1>6

LEMMA SubSeqBytes ==
    ASSUME NEW o \in Seq(Nat), NEW i \in Nat, NEW j \in i + 1 .. Len(o)
    PROVE  /\ Len(SubSeq(o, i + 1, j)) = j - i
           /\ \A p \in 1 .. j - i : SubSeq(o, i + 1, j)[p] = o[i + p]
<1>1. j - (i + 1) + 1 = j - i /\ i + 1 \in Int /\ j \in Int /\ j - i \in Nat
  OBVIOUS
<1>2. Len(SubSeq(o, i + 1, j)) = j - i
  BY <1>1
<1>3. ASSUME NEW p \in 1 .. j - i
      PROVE  SubSeq(o, i + 1, j)[p] = o[i + p]
  <2>1. (i + 1) + p - 1 = i + p /\ p \in 1 .. j - (i + 1) + 1
    BY <1>1
  <2> QED
    BY <2>1, <1>1
<1> QED
  BY <1>2, <1>3

\* The bytes of segment j.
LEMMA SegmentBytes ==
    ASSUME NEW o \in Seq(Nat) \ {<<>>}, NEW m \in Nat \ {0},
           NEW j \in 1 .. ShardSize(Len(o), m)
    PROVE  /\ Len(o) - Offset(j, m) \in Nat \ {0}
           /\ Len(Segments(o, m)[j]) = IF m <= Len(o) - Offset(j, m)
                                       THEN m ELSE Len(o) - Offset(j, m)
           /\ \A p \in 1 .. Len(Segments(o, m)[j]) :
                    Segments(o, m)[j][p] = o[Offset(j, m) + p]
<1> DEFINE last == IF Offset(j, m) + m <= Len(o)
                   THEN Offset(j, m) + m ELSE Len(o)
           segment == Segments(o, m)[j]
<1>1. Len(o) \in Nat \ {0}
  OBVIOUS
<1>2. PICK s \in Nat : s = ShardSize(Len(o), m) /\ Offset(s, m) < Len(o)
  BY <1>1, ShardSizeRounds
<1>3. /\ m \in Nat /\ j \in Int /\ 1 \in Int /\ s \in Int
      /\ 1 <= j /\ j <= s
  BY <1>2
<1>4. Offset(j, m) \in Nat
  <2>1. Offset(1, m) = 0 /\ Offset(j, m) \in Int
    BY <1>3, OffsetFirst, OffsetType
  <2>2. Offset(1, m) <= Offset(j, m)
    BY <1>3, OffsetMonotone
  <2> QED
    BY <2>1, <2>2
<1>5. Offset(j, m) < Len(o)
  <2>1. Offset(j, m) <= Offset(s, m) /\ Offset(s, m) \in Int
    BY <1>2, <1>3, OffsetMonotone, OffsetType
  <2> QED
    BY <2>1, <1>1, <1>2, <1>4
<1>6. segment = SubSeq(o, Offset(j, m) + 1, last)
  <2>1. j * m = Offset(j, m) + m
    BY <1>3 DEF Offset
  <2> QED
    BY <2>1 DEF Segments, Offset
<1>7. last \in Offset(j, m) + 1 .. Len(o)
      /\ last - Offset(j, m) = IF m <= Len(o) - Offset(j, m)
                               THEN m ELSE Len(o) - Offset(j, m)
  BY <1>1, <1>4, <1>5
<1> HIDE DEF last, segment
<1>8. /\ Len(segment) = last - Offset(j, m)
      /\ \A p \in 1 .. Len(segment) : segment[p] = o[Offset(j, m) + p]
  BY <1>4, <1>6, <1>7, SubSeqBytes
<1>9. Len(o) - Offset(j, m) \in Nat \ {0}
  BY <1>1, <1>4, <1>5
<1> QED
  BY <1>7, <1>8, <1>9 DEF segment

\* Every byte is in a segment.
LEMMA ByteInSegment ==
    ASSUME NEW o \in Seq(Nat) \ {<<>>}, NEW m \in Nat \ {0},
           NEW i \in 1 .. Len(o)
    PROVE  \E j \in 1 .. ShardSize(Len(o), m) :
                \E p \in 1 .. Len(Segments(o, m)[j]) : i = Offset(j, m) + p
<1>1. Len(o) \in Nat \ {0} /\ i - 1 \in Nat
  OBVIOUS
<1>2. PICK j \in Nat \ {0} : \E p \in 1 .. m : i = Offset(j, m) + p
  <2>1. PICK q \in Nat : \E r \in 0 .. m - 1 : i - 1 = q * m + r
    BY <1>1, Euclid
  <2> PICK r \in 0 .. m - 1 : i - 1 = q * m + r
    BY <2>1
  <2>2. Offset(q + 1, m) = q * m /\ q * m \in Int
    BY DEF Offset
  <2>3. i = Offset(q + 1, m) + (r + 1) /\ r + 1 \in 1 .. m
    BY <2>2
  <2> QED
    BY <2>3
<1> PICK p \in 1 .. m : i = Offset(j, m) + p
  BY <1>2
<1>3. PICK s \in Nat : s = ShardSize(Len(o), m) /\ Len(o) <= Offset(s, m) + m
  BY <1>1, ShardSizeRounds
<1>4. Offset(j, m) \in Int /\ Offset(s, m) \in Int
      /\ Offset(s + 1, m) = Offset(s, m) + m
  <2>1. m \in Nat /\ j \in Int /\ s \in Int
    OBVIOUS
  <2> QED
    BY <2>1, OffsetType, OffsetNext
<1>5. j <= s
  <2>1. SUFFICES ASSUME s + 1 <= j PROVE FALSE
    BY <1>3
  <2>2. Offset(s + 1, m) <= Offset(j, m)
    BY <2>1, OffsetMonotone
  <2> QED
    BY <2>2, <1>1, <1>3, <1>4
<1>6. j \in 1 .. ShardSize(Len(o), m)
  BY <1>3, <1>5
<1>7. p \in 1 .. Len(Segments(o, m)[j])
  <2>1. Len(Segments(o, m)[j]) = IF m <= Len(o) - Offset(j, m)
                                 THEN m ELSE Len(o) - Offset(j, m)
    BY <1>6, SegmentBytes
  <2> QED
    BY <2>1, <1>1, <1>4
<1> QED
  BY <1>6, <1>7

\* Two objects that are cut into the same segments are the same object, though
\* they be cut under different parameters: a single segment is the object, and
\* the first of several says how long a segment is.
LEMMA SegmentsInjective ==
    ASSUME NEW a \in Seq(Nat) \ {<<>>}, NEW b \in Seq(Nat) \ {<<>>},
           NEW m \in Nat \ {0}, NEW n \in Nat \ {0},
           Segments(a, m) = Segments(b, n)
    PROVE  a = b
<1>0. Len(a) \in Nat \ {0} /\ Len(b) \in Nat \ {0}
  OBVIOUS
<1>1. PICK q \in Nat \ {0} : q = ShardSize(Len(a), m)
  BY <1>0, ShardSizeRounds
<1>2. DOMAIN Segments(a, m) = 1 .. q
  BY <1>1 DEF Segments
<1>3. DOMAIN Segments(b, n) = 1 .. ShardSize(Len(b), n)
  BY DEF Segments
<1>4. q = ShardSize(Len(b), n)
  <2>1. PICK r \in Nat \ {0} : r = ShardSize(Len(b), n)
    BY <1>0, ShardSizeRounds
  <2>2. 1 .. q = 1 .. r
    BY <2>1, <1>2, <1>3
  <2>3. q \in 1 .. r /\ r \in 1 .. q
    BY <2>2
  <2> QED
    BY <2>1, <2>3
<1>5. /\ Offset(q, m) < Len(a) /\ Len(a) <= Offset(q, m) + m
      /\ Offset(q, n) < Len(b) /\ Len(b) <= Offset(q, n) + n
  BY <1>0, <1>1, <1>4, ShardSizeRounds
<1>6. /\ Offset(q, m) \in Int /\ Offset(q, n) \in Int
      /\ Offset(1, m) = 0 /\ Offset(1, n) = 0
  <2>1. m \in Nat /\ n \in Nat /\ q \in Int
    OBVIOUS
  <2> QED
    BY <2>1, OffsetType, OffsetFirst
<1>7. 1 < q => m <= Offset(q, m) /\ n <= Offset(q, n)
  <2> SUFFICES ASSUME 2 <= q PROVE m <= Offset(q, m) /\ n <= Offset(q, n)
    OBVIOUS
  <2>1. Offset(2, m) = m /\ Offset(2, n) = n
    BY DEF Offset
  <2> QED
    <3>1. m \in Nat /\ n \in Nat /\ q \in Int /\ 2 \in Int
      OBVIOUS
    <3>2. Offset(2, m) <= Offset(q, m) /\ Offset(2, n) <= Offset(q, n)
      BY <3>1, OffsetMonotone
    <3> QED
      BY <2>1, <3>2
<1>8. 1 \in 1 .. q /\ q \in 1 .. q
  BY <1>1
<1>9. /\ Len(Segments(a, m)[1]) = IF m <= Len(a) THEN m ELSE Len(a)
      /\ Len(Segments(b, n)[1]) = IF n <= Len(b) THEN n ELSE Len(b)
  <2>1. Len(Segments(a, m)[1]) = IF m <= Len(a) - Offset(1, m)
                                 THEN m ELSE Len(a) - Offset(1, m)
    BY <1>1, <1>8, SegmentBytes
  <2>2. Len(Segments(b, n)[1]) = IF n <= Len(b) - Offset(1, n)
                                 THEN n ELSE Len(b) - Offset(1, n)
    BY <1>4, <1>8, SegmentBytes
  <2> QED
    BY <2>1, <2>2, <1>0, <1>6
<1>10. Len(a) = Len(b) /\ (1 < q => m = n)
  <2>1. CASE q = 1
    BY <2>1, <1>0, <1>5, <1>6, <1>9
  <2>2. CASE 1 < q
    <3>1. m = n
      BY <2>2, <1>0, <1>5, <1>6, <1>7, <1>9
    <3>2. /\ Len(Segments(a, m)[q]) = IF m <= Len(a) - Offset(q, m)
                                      THEN m ELSE Len(a) - Offset(q, m)
          /\ Len(Segments(b, n)[q]) = IF n <= Len(b) - Offset(q, n)
                                      THEN n ELSE Len(b) - Offset(q, n)
      BY <1>1, <1>4, <1>8, SegmentBytes
    <3> QED
      BY <3>1, <3>2, <1>0, <1>5, <1>6
  <2> QED
    BY <2>1, <2>2
<1>11. ASSUME NEW i \in 1 .. Len(a)
       PROVE  a[i] = b[i]
  <2>1. PICK j \in 1 .. q :
            \E p \in 1 .. Len(Segments(a, m)[j]) : i = Offset(j, m) + p
    BY <1>1, ByteInSegment
  <2> PICK p \in 1 .. Len(Segments(a, m)[j]) : i = Offset(j, m) + p
    BY <2>1
  <2>2. \A k \in 1 .. Len(Segments(a, m)[j]) :
            Segments(a, m)[j][k] = a[Offset(j, m) + k]
    BY <1>1, SegmentBytes
  <2>3. \A k \in 1 .. Len(Segments(b, n)[j]) :
            Segments(b, n)[j][k] = b[Offset(j, n) + k]
    BY <1>4, SegmentBytes
  <2>4. Offset(j, m) = Offset(j, n)
    <3>1. CASE 1 < q
      BY <3>1, <1>10
    <3>2. CASE ~(1 < q)
      <4>1. j = 1
        BY <3>2, <1>1
      <4> QED
        BY <4>1, <1>6
    <3> QED
      BY <3>1, <3>2
  <2> QED
    BY <2>2, <2>3, <2>4
<1>12. DOMAIN a = 1 .. Len(a) /\ DOMAIN b = 1 .. Len(a)
  BY <1>10
<1> QED
  BY <1>11, <1>12

-----------------------------------------------------------------------------
(* Lists *)

\* One more element of a list that is made of the first k values of f.
LEMMA AppendNext ==
    ASSUME NEW k \in Nat, NEW f, NEW s, s = [j \in 1 .. k |-> f[j]], NEW x,
           x = f[k + 1]
    PROVE  /\ Len(s) = k
           /\ Append(s, x) = [j \in 1 .. k + 1 |-> f[j]]
<1> DEFINE S == {f[j] : j \in 1 .. k + 1}
           g == [j \in 1 .. k + 1 |-> f[j]]
<1>1. \A j \in 1 .. k + 1 : f[j] \in S
  OBVIOUS
<1>2. k + 1 \in 1 .. k + 1 /\ \A j \in 1 .. k : j \in 1 .. k + 1
  OBVIOUS
<1> HIDE DEF S
<1>3. s \in Seq(S) /\ Len(s) = k
  BY <1>1, <1>2
<1>4. x \in S
  BY <1>1, <1>2
<1>5. /\ DOMAIN Append(s, x) = 1 .. k + 1
      /\ \A j \in 1 .. k : Append(s, x)[j] = s[j]
      /\ Append(s, x)[k + 1] = x
      /\ Append(s, x) \in Seq(S)
  BY <1>3, <1>4, AppendProperties
<1>6. \A j \in 1 .. k + 1 : Append(s, x)[j] = f[j]
  BY <1>5
<1>7. Append(s, x) = [j \in DOMAIN Append(s, x) |-> Append(s, x)[j]]
  BY <1>5
<1> QED
  BY <1>3, <1>5, <1>6, <1>7

\* A list with one element in front.
LEMMA ConsList ==
    ASSUME NEW S, NEW n \in Nat, NEW f \in [1 .. n -> S], NEW a \in S
    PROVE  <<a>> \o f = [i \in 1 .. n + 1 |-> IF i = 1 THEN a ELSE f[i - 1]]
<1> DEFINE h == <<a>> \o f
<1>1. f \in Seq(S) /\ Len(f) = n
  OBVIOUS
<1>2. <<a>> \in Seq(S) /\ Len(<<a>>) = 1 /\ <<a>>[1] = a
  OBVIOUS
<1>3. /\ h \in Seq(S) /\ Len(h) = 1 + n
      /\ \A i \in 1 .. 1 + n : h[i] = IF i <= 1 THEN <<a>>[i] ELSE f[i - 1]
  BY <1>1, <1>2, ConcatProperties
<1> HIDE DEF h
<1>4. h = [i \in 1 .. n + 1 |-> h[i]]
  BY <1>3
<1>5. ASSUME NEW i \in 1 .. n + 1
      PROVE  h[i] = IF i = 1 THEN a ELSE f[i - 1]
  <2>1. i \in 1 .. 1 + n /\ (i <= 1 <=> i = 1)
    OBVIOUS
  <2> QED
    BY <1>2, <1>3, <2>1
<1> QED
  BY <1>4, <1>5 DEF h

-----------------------------------------------------------------------------
(* The comparison *)

LEMMA PrmIs ==
    ASSUME NEW prm, params = {prm}
    PROVE  Prm = prm
BY DEF Prm

LEMMA ParamsType ==
    ASSUME NEW prm \in Params
    PROVE  /\ prm.seg \in Nat /\ prm.data \in Nat /\ prm.parity \in Nat
           /\ prm.data + prm.parity \in Nat
BY IntegrityAssumption

LEMMA ObjectsType ==
    ASSUME NEW own \in Objects
    PROVE  own \in Seq(Nat) \ {<<>>} /\ Len(own) \in Nat \ {0}
BY IntegrityAssumption

\* A call that is reading or comparing goes on.
LEMMA CallGoesOn ==
    ASSUME HashInv, NEW prm \in Params, params = {prm},
           vfy.pc # "idle", CallShape(vfy'), vfy'.pc \in Reading,
           CallInv(vfy', sealed, prm),
           UNCHANGED <<current, sealed, params>>
    PROVE  HashInv'
<1>1. SealedInv(vfy', sealed')
  BY DEF HashInv, SealedInv
<1>2. vfy'.pc # "idle" /\ vfy'.pc # "params"
  BY DEF Reading
<1> QED
  BY <1>1, <1>2 DEF HashInv

LEMMA CallEnds ==
    ASSUME HashInv, vfy' = Idle, UNCHANGED <<current, sealed>>,
           params' = params \/ params' = {}
    PROVE  HashInv'
<1>1. vfy'.pc = "idle" /\ CallShape(vfy')
  BY DEF Idle, Call, CallShape
<1>2. SealedInv(vfy', sealed')
  BY <1>1 DEF HashInv, SealedInv
<1>3. params' = {} \/ \E prm \in Params : params' = {prm}
  BY DEF HashInv
<1> QED
  BY <1>1, <1>2, <1>3 DEF HashInv, Reading

LEMMA StartVerifyStep ==
    ASSUME HashInv, StartVerify PROVE HashInv'
<1>1. PICK own \in Objects, object \in Objects :
            /\ sealed' = [object |-> object, params |-> current]
            /\ vfy' = Call("params", own)
  BY DEF StartVerify
<1>2. vfy'.pc = "params" /\ CallShape(vfy')
  BY <1>1 DEF Call, CallShape
<1>3. SealedInv(vfy', sealed')
  BY <1>1 DEF HashInv, SealedInv
<1> QED
  BY <1>1, <1>2, <1>3 DEF HashInv, StartVerify, Reading

LEMMA GetParamsStep ==
    ASSUME HashInv, GetParams PROVE HashInv'
<1>1. PICK own \in Objects : vfy = Call("params", own)
  BY DEF HashInv, GetParams
<1>2. PICK prm \in Params : params' = {prm}
  BY DEF HashInv, GetParams, Unusable
<1>3. vfy' = [vfy EXCEPT !.pc = "read",
                         !.enc = [i \in 1 .. prm.data + prm.parity |-> <<>>]]
  BY <1>2 DEF GetParams
<1>4. vfy' = [pc |-> "read", own |-> own, off |-> 0, segs |-> <<>>,
              enc |-> [i \in 1 .. prm.data + prm.parity |-> <<>>],
              hashes |-> <<>>, todo |-> {}, sums |-> <<>>]
  BY <1>1, <1>3 DEF Call
<1>5. CallShape(vfy') /\ vfy'.pc = "read" /\ vfy'.pc \in Reading
  BY <1>4 DEF CallShape, Reading
<1>6. /\ own \in Seq(Nat) \ {<<>>} /\ Len(own) \in Nat \ {0}
      /\ prm.seg \in Nat
  BY ObjectsType, ParamsType
<1>7. Usable(prm) => \E k \in 0 .. ShardSize(Len(own), prm.seg) :
                        HasRead(vfy', prm, k)
  <2> SUFFICES ASSUME Usable(prm)
               PROVE  /\ 0 \in 0 .. ShardSize(Len(own), prm.seg)
                      /\ HasRead(vfy', prm, 0)
    OBVIOUS
  <2>1. prm.seg \in Nat \ {0}
    BY <1>6 DEF Usable
  <2>2. 0 \in 0 .. ShardSize(Len(own), prm.seg)
    BY <2>1, <1>6, ShardSizeRounds
  <2>3. Offset(0 + 1, prm.seg) = 0
    BY <2>1, OffsetFirst
  <2>4. <<>> = [j \in 1 .. 0 |-> Segments(own, prm.seg)[j]]
    OBVIOUS
  <2>5. ASSUME NEW i
        PROVE  <<>> = [k \in DOMAIN <<>> |->
                            EncodeData(<<>>[k], prm.data, prm.parity)[i]]
    OBVIOUS
  <2>6. vfy'.enc = Coded(<<>>, prm)
    BY <1>4, <2>5 DEF Coded
  <2> QED
    BY <1>4, <1>6, <2>2, <2>3, <2>4, <2>6 DEF HasRead
<1>8. CallInv(vfy', sealed, prm)
  <2>1. /\ vfy'.pc = "read" /\ vfy'.own = own /\ vfy'.off = 0 /\ vfy'.todo = {}
        /\ DOMAIN vfy'.enc = 1 .. prm.data + prm.parity
    BY <1>4
  <2> QED
    BY <2>1, <1>6, <1>7 DEF CallInv, Compared
<1>9. SealedInv(vfy', sealed')
  BY <1>1, <1>5 DEF HashInv, SealedInv, GetParams, Call
<1> QED
  BY <1>2, <1>5, <1>8, <1>9 DEF HashInv, GetParams

\* What a step of a call that is reading may use.
LEMMA CallFacts ==
    ASSUME HashInv, vfy.pc \in Reading
    PROVE  \E prm \in Params :
                /\ params = {prm} /\ Prm = prm
                /\ CallInv(vfy, sealed, prm) /\ CallShape(vfy)
                /\ vfy.pc # "idle" /\ vfy.own \in Objects
BY PrmIs DEF HashInv, CallInv, Reading

\* Reading the next segment: as long as a read returns all there is, one that
\* Greenfield cuts the object into.
LEMMA NextSegment ==
    ASSUME NEW own \in Seq(Nat) \ {<<>>}, NEW m \in Nat \ {0},
           NEW k \in 0 .. ShardSize(Len(own), m), NEW off, NEW n,
           off = IF Offset(k + 1, m) <= Len(own)
                 THEN Offset(k + 1, m) ELSE Len(own),
           off < Len(own),
           n = IF Len(own) - off < m THEN Len(own) - off ELSE m
    PROVE  /\ k + 1 \in 0 .. ShardSize(Len(own), m)
           /\ SubSeq(own, off + 1, off + n) = Segments(own, m)[k + 1]
           /\ off + n = IF Offset((k + 1) + 1, m) <= Len(own)
                        THEN Offset((k + 1) + 1, m) ELSE Len(own)
<1>1. Len(own) \in Nat \ {0}
  OBVIOUS
<1>2. PICK s \in Nat : /\ s = ShardSize(Len(own), m)
                       /\ Len(own) <= Offset(s, m) + m
  BY <1>1, ShardSizeRounds
<1>3. /\ m \in Nat /\ k \in Int /\ s \in Int /\ k + 1 \in Int /\ s + 1 \in Int
      /\ Offset(k + 1, m) \in Int /\ Offset(s, m) \in Int
      /\ Offset((k + 1) + 1, m) = Offset(k + 1, m) + m
      /\ Offset(s + 1, m) = Offset(s, m) + m
  <2>1. m \in Nat /\ k \in Int /\ s \in Int /\ k + 1 \in Int /\ s + 1 \in Int
    BY <1>2
  <2> QED
    BY <2>1, OffsetType, OffsetNext
<1>4. off = Offset(k + 1, m) /\ off \in Int
  BY <1>1, <1>3
<1>5. k + 1 <= s
  <2>1. SUFFICES ASSUME s + 1 <= k + 1 PROVE FALSE
    BY <1>3
  <2>2. Offset(s + 1, m) <= Offset(k + 1, m)
    BY <2>1, <1>3, OffsetMonotone
  <2> QED
    BY <2>2, <1>1, <1>2, <1>3, <1>4
<1>6. k + 1 \in 1 .. ShardSize(Len(own), m)
  BY <1>2, <1>5
<1>7. off + n = IF Offset(k + 1, m) + m <= Len(own)
                THEN Offset(k + 1, m) + m ELSE Len(own)
  BY <1>1, <1>3, <1>4
<1>8. (k + 1) * m = Offset(k + 1, m) + m /\ ((k + 1) - 1) * m = Offset(k + 1, m)
  BY <1>3 DEF Offset
<1>9. Segments(own, m)[k + 1] =
            SubSeq(own, Offset(k + 1, m) + 1,
                   IF Offset(k + 1, m) + m <= Len(own)
                   THEN Offset(k + 1, m) + m ELSE Len(own))
  BY <1>6, <1>8 DEF Segments
<1>10. k + 1 \in 0 .. ShardSize(Len(own), m)
  BY <1>6
<1>11. SubSeq(own, off + 1, off + n) = Segments(own, m)[k + 1]
  BY <1>4, <1>7, <1>9
<1> QED
  BY <1>3, <1>7, <1>10, <1>11

LEMMA ReadSegmentStep ==
    ASSUME HashInv, ReadSegment PROVE HashInv'
<1>1. vfy.pc = "read" /\ vfy.pc \in Reading
  BY DEF ReadSegment, Reading
<1>2. PICK prm \in Params :
            /\ params = {prm} /\ Prm = prm
            /\ CallInv(vfy, sealed, prm) /\ CallShape(vfy)
            /\ vfy.pc # "idle" /\ vfy.own \in Objects
  BY <1>1, CallFacts
<1>3. Usable(prm) /\ vfy.off < Len(vfy.own)
  BY <1>2 DEF ReadSegment
<1>4. PICK own \in Objects : own = vfy.own
  BY <1>2
<1>5. own \in Seq(Nat) \ {<<>>} /\ Len(own) \in Nat \ {0}
  BY ObjectsType
<1>6. PICK m \in Nat \ {0} : m = prm.seg
  BY <1>3, ParamsType DEF Usable
<1> DEFINE rest == Len(own) - vfy.off
           full == IF rest < m THEN rest ELSE m
           N == prm.data + prm.parity
<1>7. PICK n \in ReadSizes :
        vfy' = [vfy EXCEPT
            !.off = @ + n,
            !.segs = Append(@, SubSeq(own, vfy.off + 1, vfy.off + n)),
            !.enc = [i \in DOMAIN @ |->
                        Append(@[i], EncodeData(SubSeq(own, vfy.off + 1,
                                                       vfy.off + n),
                                                prm.data, prm.parity)[i])]]
  BY <1>2, <1>4 DEF ReadSegment
<1>8. n = full \/ (ShortReads /\ n \in 1 .. full)
  BY <1>2, <1>4, <1>6 DEF ReadSizes
<1>9. vfy.off \in 0 .. Len(own)
  BY <1>2, <1>4 DEF CallInv
<1>10. n \in Nat /\ vfy.off + n \in 0 .. Len(own)
  <2>1. rest \in Nat \ {0}
    BY <1>3, <1>4, <1>5, <1>9
  <2>2. full \in 1 .. rest
    BY <1>6, <2>1
  <2> HIDE DEF full
  <2>3. n \in 1 .. rest
    BY <1>8, <2>1, <2>2
  <2> QED
    BY <1>5, <1>9, <2>3
<1> DEFINE segment == SubSeq(own, vfy.off + 1, vfy.off + n)
<1> HIDE DEF segment
<1>11. vfy' = [pc |-> vfy.pc, own |-> own, off |-> vfy.off + n,
               segs |-> Append(vfy.segs, segment),
               enc |-> [i \in DOMAIN vfy.enc |->
                          Append(vfy.enc[i],
                              EncodeData(segment, prm.data, prm.parity)[i])],
               hashes |-> vfy.hashes, todo |-> vfy.todo, sums |-> vfy.sums]
  BY <1>2, <1>4, <1>7 DEF CallShape, segment
<1>12. /\ vfy'.pc = "read" /\ vfy'.own = own /\ vfy'.off = vfy.off + n
       /\ vfy'.segs = Append(vfy.segs, segment)
       /\ vfy'.enc = [i \in DOMAIN vfy.enc |->
                        Append(vfy.enc[i],
                            EncodeData(segment, prm.data, prm.parity)[i])]
       /\ vfy'.todo = vfy.todo
  BY <1>1, <1>11
<1>13. CallShape(vfy') /\ vfy'.pc \in Reading
  BY <1>1, <1>11 DEF CallShape, Reading
<1>14. DOMAIN vfy.enc = 1 .. N /\ DOMAIN vfy'.enc = 1 .. N /\ vfy.todo = {}
  BY <1>1, <1>2, <1>12 DEF CallInv
<1>15. ASSUME ~ShortReads
       PROVE  \E k \in 0 .. ShardSize(Len(own), m) : HasRead(vfy', prm, k)
  <2>1. PICK k \in 0 .. ShardSize(Len(own), m) : HasRead(vfy, prm, k)
    BY <1>2, <1>3, <1>4, <1>6, <1>15 DEF CallInv
  <2>2. /\ vfy.segs = [j \in 1 .. k |-> Segments(own, m)[j]]
        /\ vfy.off = IF Offset(k + 1, m) <= Len(own)
                     THEN Offset(k + 1, m) ELSE Len(own)
        /\ vfy.enc = Coded(vfy.segs, prm)
    BY <2>1, <1>4, <1>6 DEF HasRead
  <2>3. n = full
    BY <1>8, <1>15
  <2>4. /\ k + 1 \in 0 .. ShardSize(Len(own), m)
        /\ segment = Segments(own, m)[k + 1]
        /\ vfy.off + n = IF Offset((k + 1) + 1, m) <= Len(own)
                         THEN Offset((k + 1) + 1, m) ELSE Len(own)
    BY <2>2, <2>3, <1>3, <1>4, <1>5, NextSegment DEF segment
  <2>5. k \in Nat
    BY <2>4
  <2>6. /\ Len(vfy.segs) = k
        /\ Append(vfy.segs, segment) = [j \in 1 .. k + 1 |-> Segments(own, m)[j]]
    BY <2>2, <2>4, <2>5, AppendNext
  <2>7. ASSUME NEW i \in 1 .. N
        PROVE  Append(vfy.enc[i], EncodeData(segment, prm.data, prm.parity)[i])
               = [j \in DOMAIN vfy'.segs |->
                    EncodeData(vfy'.segs[j], prm.data, prm.parity)[i]]
    <3> DEFINE f == [j \in 1 .. k + 1 |->
                        EncodeData(Segments(own, m)[j], prm.data, prm.parity)[i]]
    <3>1. /\ \A j \in 1 .. k : j \in 1 .. k + 1
          /\ k + 1 \in 1 .. k + 1
      BY <2>5
    <3>2. DOMAIN vfy.segs = 1 .. k /\ \A j \in 1 .. k : vfy.segs[j] = Segments(own, m)[j]
      BY <2>2
    <3>3. vfy.enc[i] = [j \in 1 .. k |->
                EncodeData(vfy.segs[j], prm.data, prm.parity)[i]]
      BY <2>2, <3>2 DEF Coded
    <3>4. vfy.enc[i] = [j \in 1 .. k |-> f[j]]
      BY <3>1, <3>2, <3>3
    <3>5. EncodeData(segment, prm.data, prm.parity)[i] = f[k + 1]
      BY <2>4, <3>1
    <3> HIDE DEF f
    <3>6. Append(vfy.enc[i], EncodeData(segment, prm.data, prm.parity)[i])
          = [j \in 1 .. k + 1 |-> f[j]]
      BY <3>4, <3>5, <2>5, AppendNext
    <3>7. /\ DOMAIN vfy'.segs = 1 .. k + 1
          /\ \A j \in 1 .. k + 1 : vfy'.segs[j] = Segments(own, m)[j]
      BY <2>6, <1>12
    <3> QED
      BY <3>6, <3>7 DEF f
  <2>8. vfy'.enc = Coded(vfy'.segs, prm)
    BY <2>7, <1>12, <1>14 DEF Coded
  <2>9. HasRead(vfy', prm, k + 1)
    BY <2>4, <2>6, <2>8, <1>6, <1>12 DEF HasRead
  <2> QED
    BY <2>4, <2>9
<1>16. CallInv(vfy', sealed, prm)
  BY <1>3, <1>4, <1>6, <1>10, <1>12, <1>14, <1>15 DEF CallInv, Compared
<1> QED
  BY <1>2, <1>13, <1>16, CallGoesOn DEF ReadSegment

\* A step that leaves alone what has been read.
LEMMA ReadStays ==
    ASSUME NEW v, NEW w, NEW prm, NEW s, CallInv(v, s, prm),
           w.own = v.own, w.off = v.off, w.segs = v.segs, w.enc = v.enc
    PROVE  ~ShortReads /\ Usable(prm) =>
                \E k \in 0 .. ShardSize(Len(w.own), prm.seg) : HasRead(w, prm, k)
BY DEF CallInv, HasRead

LEMMA CombineStep ==
    ASSUME HashInv, Combine PROVE HashInv'
<1>1. vfy.pc = "read" /\ vfy.pc \in Reading
  BY DEF Combine, Reading
<1>2. PICK prm \in Params :
            /\ params = {prm} /\ Prm = prm
            /\ CallInv(vfy, sealed, prm) /\ CallShape(vfy)
            /\ vfy.pc # "idle" /\ vfy.own \in Objects
  BY <1>1, CallFacts
<1>3. PICK n \in Nat : n = prm.data + prm.parity
  BY ParamsType
<1>4. DOMAIN vfy.enc = 1 .. n
  BY <1>2, <1>3 DEF CallInv
<1>5. vfy' = [pc |-> "wait", own |-> vfy.own, off |-> vfy.off,
              segs |-> vfy.segs, enc |-> vfy.enc,
              hashes |-> <<{vfy.segs}>> \o [i \in 1 .. n |-> NoHash],
              todo |-> 1 .. n, sums |-> vfy.sums]
  BY <1>2, <1>4 DEF Combine, CallShape
<1>6. CallShape(vfy') /\ vfy'.pc = "wait" /\ vfy'.pc \in Reading
  BY <1>5 DEF CallShape, Reading
<1>7. Usable(prm)
  <2>1. vfy.off = Len(vfy.own) /\ Len(vfy.own) \in Nat \ {0}
    BY <1>2, ObjectsType DEF Combine
  <2> QED
    BY <2>1, <1>2 DEF CallInv
<1>8. vfy'.hashes = HashList(vfy', n)
  <2> DEFINE S == {{vfy.segs}, NoHash}
             f == [i \in 1 .. n |-> NoHash]
             a == {vfy.segs}
  <2>1. f \in [1 .. n -> S] /\ a \in S
    OBVIOUS
  <2> HIDE DEF S, f, a
  <2>2. <<a>> \o f = [i \in 1 .. n + 1 |-> IF i = 1 THEN a ELSE f[i - 1]]
    BY <2>1, ConsList
  <2>3. ASSUME NEW i \in 1 .. n + 1, i # 1
        PROVE  f[i - 1] = NoHash /\ i - 1 \in 1 .. n
    BY <2>3 DEF f
  <2>4. /\ vfy'.hashes = <<a>> \o f
        /\ a = {vfy'.segs} /\ vfy'.todo = 1 .. n
    BY <1>5 DEF f, a
  <2> QED
    BY <2>2, <2>3, <2>4 DEF HashList
<1>9. CallInv(vfy', sealed, prm)
  <2>1. /\ vfy'.own = vfy.own /\ vfy'.off = vfy.off /\ vfy'.segs = vfy.segs
        /\ vfy'.enc = vfy.enc /\ vfy'.todo = 1 .. n
    BY <1>5
  <2>2. ~ShortReads /\ Usable(prm) =>
            \E k \in 0 .. ShardSize(Len(vfy'.own), prm.seg) :
                HasRead(vfy', prm, k)
    BY <2>1, <1>2, ReadStays
  <2>3. vfy.off = Len(vfy.own)
    BY DEF Combine
  <2>4. vfy.off \in 0 .. Len(vfy.own)
    BY <1>2 DEF CallInv
  <2> QED
    BY <2>1, <2>2, <2>3, <2>4, <1>2, <1>3, <1>4, <1>6, <1>7, <1>8
    DEF CallInv, Compared
<1> QED
  BY <1>2, <1>6, <1>9, CallGoesOn DEF Combine

LEMMA HashShardStep ==
    ASSUME HashInv, NEW i \in vfy.todo, HashShard(i) PROVE HashInv'
<1>1. vfy.pc = "wait" /\ vfy.pc \in Reading
  BY DEF HashShard, Reading
<1>2. PICK prm \in Params :
            /\ params = {prm} /\ Prm = prm
            /\ CallInv(vfy, sealed, prm) /\ CallShape(vfy)
            /\ vfy.pc # "idle" /\ vfy.own \in Objects
  BY <1>1, CallFacts
<1>3. PICK n \in Nat : n = prm.data + prm.parity
  BY ParamsType
<1>4. /\ DOMAIN vfy.enc = 1 .. n /\ vfy.todo \subseteq 1 .. n
      /\ vfy.hashes = HashList(vfy, n)
  BY <1>1, <1>2, <1>3 DEF CallInv
<1>5. vfy' = [pc |-> vfy.pc, own |-> vfy.own, off |-> vfy.off,
              segs |-> vfy.segs, enc |-> vfy.enc,
              hashes |-> [vfy.hashes EXCEPT ![i + 1] = {vfy.enc[i]}],
              todo |-> vfy.todo \ {i}, sums |-> vfy.sums]
  BY <1>2 DEF HashShard, CallShape
<1>6. CallShape(vfy') /\ vfy'.pc = "wait" /\ vfy'.pc \in Reading
  BY <1>1, <1>5 DEF CallShape, Reading
<1>7. vfy'.hashes = HashList(vfy', n)
  <2>1. i \in 1 .. n /\ i + 1 \in 1 .. n + 1 /\ i + 1 # 1
    BY <1>4
  <2>2. /\ vfy'.segs = vfy.segs /\ vfy'.enc = vfy.enc
        /\ vfy'.todo = vfy.todo \ {i}
        /\ vfy'.hashes = [vfy.hashes EXCEPT ![i + 1] = {vfy.enc[i]}]
    BY <1>5
  <2>3. /\ DOMAIN vfy.hashes = 1 .. n + 1
        /\ vfy.hashes = [j \in 1 .. n + 1 |-> vfy.hashes[j]]
        /\ \A j \in 1 .. n + 1 : vfy.hashes[j] =
                IF j = 1 THEN {vfy.segs}
                ELSE IF j - 1 \in vfy.todo THEN NoHash ELSE {vfy.enc[j - 1]}
    BY <1>4 DEF HashList
  <2>4. vfy'.hashes = [j \in 1 .. n + 1 |-> IF j = i + 1 THEN {vfy.enc[i]}
                                            ELSE vfy.hashes[j]]
    BY <2>2, <2>3
  <2>5. ASSUME NEW j \in 1 .. n + 1
        PROVE  (IF j = i + 1 THEN {vfy.enc[i]} ELSE vfy.hashes[j]) =
                IF j = 1 THEN {vfy.segs}
                ELSE IF j - 1 \in vfy.todo \ {i} THEN NoHash
                ELSE {vfy.enc[j - 1]}
    <3>1. j - 1 = i <=> j = i + 1
      BY <2>1
    <3>2. CASE j = i + 1
      <4>1. j - 1 = i /\ j # 1
        BY <3>1, <3>2, <2>1
      <4> QED
        BY <4>1, <3>2
    <3>3. CASE j # i + 1
      BY <3>1, <3>3, <2>3
    <3> QED
      BY <3>2, <3>3
  <2>6. HashList(vfy', n) =
            [j \in 1 .. n + 1 |->
                IF j = 1 THEN {vfy.segs}
                ELSE IF j - 1 \in vfy.todo \ {i} THEN NoHash
                ELSE {vfy.enc[j - 1]}]
    BY <2>2 DEF HashList
  <2>7. [j \in 1 .. n + 1 |-> IF j = i + 1 THEN {vfy.enc[i]} ELSE vfy.hashes[j]]
        = [j \in 1 .. n + 1 |->
                IF j = 1 THEN {vfy.segs}
                ELSE IF j - 1 \in vfy.todo \ {i} THEN NoHash
                ELSE {vfy.enc[j - 1]}]
    BY <2>5
  <2> QED
    BY <2>4, <2>6, <2>7
<1>8. CallInv(vfy', sealed, prm)
  <2>1. /\ vfy'.own = vfy.own /\ vfy'.off = vfy.off /\ vfy'.segs = vfy.segs
        /\ vfy'.enc = vfy.enc /\ vfy'.todo = vfy.todo \ {i}
    BY <1>5
  <2>2. ~ShortReads /\ Usable(prm) =>
            \E k \in 0 .. ShardSize(Len(vfy'.own), prm.seg) :
                HasRead(vfy', prm, k)
    BY <2>1, <1>2, ReadStays
  <2> QED
    BY <2>1, <2>2, <1>1, <1>2, <1>3, <1>6, <1>7 DEF CallInv, Compared
<1> QED
  BY <1>2, <1>6, <1>8, CallGoesOn DEF HashShard

\* A step that leaves the hashes alone, once all are there.
LEMMA HashesStay ==
    ASSUME HashInv, NEW prm \in Params, params = {prm},
           CallInv(vfy, sealed, prm), vfy.pc \in Reading \ {"read"},
           vfy.todo = {}, NEW pc \in Reading \ {"read"}, NEW sums,
           vfy' = [vfy EXCEPT !.pc = pc, !.sums = sums],
           pc \in Compared => sums \in {Reference(sealed.object, sealed.params),
                                        <<>>},
           pc = "match" => SameList(vfy.hashes, sums),
           pc = "mismatch" => ~SameList(vfy.hashes, sums),
           UNCHANGED <<current, sealed, params>>
    PROVE  HashInv'
<1>1. CallShape(vfy) /\ vfy.pc # "idle"
  BY DEF HashInv, Reading
<1>2. vfy' = [pc |-> pc, own |-> vfy.own, off |-> vfy.off,
              segs |-> vfy.segs, enc |-> vfy.enc, hashes |-> vfy.hashes,
              todo |-> vfy.todo, sums |-> sums]
  BY <1>1 DEF CallShape
<1>3. CallShape(vfy') /\ vfy'.pc \in Reading
  BY <1>2 DEF CallShape
<1>4. /\ vfy'.own = vfy.own /\ vfy'.off = vfy.off /\ vfy'.segs = vfy.segs
      /\ vfy'.enc = vfy.enc /\ vfy'.todo = vfy.todo
      /\ vfy'.hashes = vfy.hashes /\ vfy'.pc = pc /\ vfy'.sums = sums
  BY <1>2
<1>5. ~ShortReads /\ Usable(prm) =>
            \E k \in 0 .. ShardSize(Len(vfy'.own), prm.seg) :
                HasRead(vfy', prm, k)
  BY <1>4, ReadStays
<1>6. HashList(vfy', prm.data + prm.parity) = HashList(vfy, prm.data + prm.parity)
  BY <1>4 DEF HashList
<1>7. CallInv(vfy', sealed, prm)
  BY <1>4, <1>5, <1>6 DEF CallInv
<1> QED
  BY <1>1, <1>3, <1>7, CallGoesOn

LEMMA SumsAlone ==
    ASSUME CallShape(vfy), NEW pc, vfy' = [vfy EXCEPT !.pc = pc]
    PROVE  vfy' = [vfy EXCEPT !.pc = pc, !.sums = vfy.sums]
BY DEF CallShape

LEMMA WaitShardsStep ==
    ASSUME HashInv, WaitShards PROVE HashInv'
<1>1. /\ vfy.pc \in Reading \ {"read"} /\ "meta" \in Reading \ {"read"}
      /\ "meta" \notin Compared /\ "meta" # "match" /\ "meta" # "mismatch"
  BY DEF WaitShards, Reading, Compared
<1>2. PICK prm \in Params :
            params = {prm} /\ CallInv(vfy, sealed, prm) /\ CallShape(vfy)
  BY <1>1, CallFacts
<1>3. vfy' = [vfy EXCEPT !.pc = "meta", !.sums = vfy.sums]
  BY <1>2, SumsAlone DEF WaitShards, Go
<1> QED
  BY <1>1, <1>2, <1>3, HashesStay DEF WaitShards

LEMMA GetChecksumsStep ==
    ASSUME HashInv, GetChecksums PROVE HashInv'
<1>1. vfy.pc = "meta" /\ vfy.pc \in Reading /\ "compare" \in Reading
  BY DEF GetChecksums, Reading
<1>2. PICK prm \in Params :
            params = {prm} /\ CallInv(vfy, sealed, prm) /\ CallShape(vfy)
  BY <1>1, CallFacts
<1>3. PICK sums \in {Reference(sealed.object, sealed.params), <<>>} :
            vfy' = [vfy EXCEPT !.pc = "compare", !.sums = sums]
  BY DEF GetChecksums
<1>4. vfy.todo = {}
  BY <1>1, <1>2 DEF CallInv
<1> QED
  BY <1>1, <1>2, <1>3, <1>4, HashesStay DEF GetChecksums

LEMMA CompareStep ==
    ASSUME HashInv, Compare PROVE HashInv'
<1> DEFINE pc == IF Matches THEN "match" ELSE "mismatch"
<1>1. /\ vfy.pc = "compare" /\ vfy.pc \in Reading /\ vfy.pc \in Compared
      /\ pc \in Reading \ {"read"}
  BY DEF Compare, Reading, Compared
<1>2. PICK prm \in Params :
            params = {prm} /\ CallInv(vfy, sealed, prm) /\ CallShape(vfy)
  BY <1>1, CallFacts
<1>3. vfy' = [vfy EXCEPT !.pc = pc, !.sums = vfy.sums]
  BY <1>2, SumsAlone DEF Compare, Go
<1>4. vfy.todo = {} /\ vfy.sums \in {Reference(sealed.object, sealed.params), <<>>}
  BY <1>1, <1>2 DEF CallInv
<1>5. /\ pc = "match" => SameList(vfy.hashes, vfy.sums)
      /\ pc = "mismatch" => ~SameList(vfy.hashes, vfy.sums)
  BY DEF Matches, SameList
<1> HIDE DEF pc
<1> QED
  BY <1>1, <1>2, <1>3, <1>4, <1>5, HashesStay DEF Compare

\* Every step of the comparison, of Greenfield and of the process keeps it.
LEMMA VerifyStepKeeps ==
    ASSUME HashInv, VerifyStep PROVE HashInv'
<1>1. CASE StartVerify
  BY <1>1, StartVerifyStep
<1>2. CASE GetParams
  BY <1>2, GetParamsStep
<1>3. CASE ReadSegment
  BY <1>3, ReadSegmentStep
<1>4. CASE Combine
  BY <1>4, CombineStep
<1>5. CASE \E i \in vfy.todo : HashShard(i)
  BY <1>5, HashShardStep
<1>6. CASE WaitShards
  BY <1>6, WaitShardsStep
<1>7. CASE GetChecksums
  BY <1>7, GetChecksumsStep
<1>8. CASE Compare
  BY <1>8, CompareStep
<1>9. CASE Return
  BY <1>9, CallEnds DEF Return
<1>10. CASE VerifyFails
  BY <1>10, CallEnds DEF VerifyFails
<1> QED
  BY <1>1, <1>2, <1>3, <1>4, <1>5, <1>6, <1>7, <1>8, <1>9, <1>10 DEF VerifyStep

LEMMA ChangeParamsKeeps ==
    ASSUME HashInv, ChangeParams PROVE HashInv'
BY DEF HashInv, ChangeParams

LEMMA HashStutters ==
    ASSUME HashInv, UNCHANGED hashVars PROVE HashInv'
BY DEF HashInv, hashVars

LEMMA ForgetVerifyKeeps ==
    ASSUME HashInv, ForgetVerify PROVE HashInv'
BY CallEnds DEF ForgetVerify

LEMMA HashInvInit ==
    ASSUME HashInit PROVE HashInv
BY DEF HashInit, HashInv, SealedInv, CallShape, Idle, Call, Reading

\* A reference list, element by element.
LEMMA ReferenceIs ==
    ASSUME NEW own, NEW prm \in Params
    PROVE  LET segs == Segments(own, prm.seg)
               n == prm.data + prm.parity
           IN  Reference(own, prm) =
                    [i \in 1 .. n + 1 |->
                        IF i = 1 THEN {segs} ELSE {Coded(segs, prm)[i - 1]}]
<1> DEFINE segs == Segments(own, prm.seg)
           a == {segs}
           f(n) == [i \in 1 .. n |-> {Coded(segs, prm)[i]}]
           S(n) == {f(n)[i] : i \in 1 .. n} \cup {a}
<1>1. PICK n \in Nat : n = prm.data + prm.parity
  BY ParamsType
<1>2. Reference(own, prm) = <<a>> \o f(n)
  <2>1. \A i \in 1 .. n : Coded(segs, prm)[i] =
            [k \in DOMAIN segs |-> EncodeData(segs[k], prm.data, prm.parity)[i]]
    BY <1>1 DEF Coded
  <2> QED
    BY <2>1, <1>1 DEF Reference
<1>3. f(n) \in [1 .. n -> S(n)] /\ a \in S(n)
  OBVIOUS
<1> DEFINE g == f(n)
           T == S(n)
<1>4. <<a>> \o g = [i \in 1 .. n + 1 |-> IF i = 1 THEN a ELSE g[i - 1]]
  <2> HIDE DEF g, T, a
  <2>1. g \in [1 .. n -> T] /\ a \in T
    BY <1>3 DEF g, T
  <2> QED
    BY <2>1, ConsList
<1>5. ASSUME NEW i \in 1 .. n + 1, i # 1
      PROVE  g[i - 1] = {Coded(segs, prm)[i - 1]}
  <2>1. i - 1 \in 1 .. n
    BY <1>5
  <2> QED
    BY <2>1
<1> QED
  BY <1>1, <1>2, <1>4, <1>5

\* When the whole object has been read, its segments are Greenfield's.
LEMMA AllRead ==
    ASSUME NEW own \in Objects, NEW m \in Nat \ {0},
           NEW k \in 0 .. ShardSize(Len(own), m),
           Len(own) = IF Offset(k + 1, m) <= Len(own)
                      THEN Offset(k + 1, m) ELSE Len(own)
    PROVE  [j \in 1 .. k |-> Segments(own, m)[j]] = Segments(own, m)
<1>1. Len(own) \in Nat \ {0}
  BY ObjectsType
<1>2. PICK s \in Nat : s = ShardSize(Len(own), m) /\ Offset(s, m) < Len(own)
  BY <1>1, ShardSizeRounds
<1>3. /\ m \in Nat /\ k \in Int /\ s \in Int /\ k + 1 \in Int /\ k <= s
      /\ k \in Nat
  BY <1>2
<1>4. /\ Offset(k, m) \in Int /\ Offset(s, m) \in Int
      /\ Offset(k + 1, m) = Offset(k, m) + m
      /\ Offset(k, m) <= Offset(s, m)
  BY <1>3, OffsetType, OffsetNext, OffsetMonotone
<1>5. k = s
  BY <1>1, <1>2, <1>3, <1>4, ShardSizeUnique
<1> QED
  BY <1>2, <1>5 DEF Segments

LEMMA HashesAreReference ==
    ASSUME HashInv, vfy.pc \in Compared, ~ShortReads
    PROVE  /\ Prm \in Params /\ Usable(Prm) /\ vfy.own \in Objects
           /\ vfy.hashes = Reference(vfy.own, Prm)
<1>1. vfy.pc \in Reading /\ vfy.pc # "read" /\ vfy.pc # "wait"
  BY DEF Compared, Reading
<1>2. PICK prm \in Params :
            /\ params = {prm} /\ Prm = prm
            /\ CallInv(vfy, sealed, prm) /\ vfy.own \in Objects
  BY <1>1, CallFacts
<1>3. /\ Usable(prm) /\ vfy.todo = {} /\ vfy.off = Len(vfy.own)
      /\ vfy.hashes = HashList(vfy, prm.data + prm.parity)
  BY <1>1, <1>2 DEF CallInv
<1>4. PICK own \in Objects : own = vfy.own
  BY <1>2
<1>5. PICK m \in Nat \ {0} : m = prm.seg
  BY <1>3, ParamsType DEF Usable
<1>6. PICK k \in 0 .. ShardSize(Len(own), m) : HasRead(vfy, prm, k)
  BY <1>2, <1>3, <1>4, <1>5 DEF CallInv
<1>7. vfy.segs = Segments(own, m) /\ vfy.enc = Coded(vfy.segs, prm)
  <2>1. /\ vfy.segs = [j \in 1 .. k |-> Segments(own, m)[j]]
        /\ Len(own) = IF Offset(k + 1, m) <= Len(own)
                      THEN Offset(k + 1, m) ELSE Len(own)
        /\ vfy.enc = Coded(vfy.segs, prm)
    BY <1>3, <1>4, <1>5, <1>6 DEF HasRead
  <2> QED
    BY <2>1, AllRead
<1>8. HashList(vfy, prm.data + prm.parity) = Reference(own, prm)
  BY <1>3, <1>5, <1>7, ReferenceIs DEF HashList
<1> QED
  BY <1>2, <1>3, <1>4, <1>8

LEMMA MatchIsSame ==
    ASSUME HashInv PROVE MatchMeansSame
<1> SUFFICES ASSUME vfy.pc = "match", ~ShortReads
             PROVE  vfy.own = sealed.object
  BY DEF MatchMeansSame
<1>1. vfy.pc \in Compared /\ vfy.pc \in Reading /\ vfy.pc # "idle"
  BY DEF Compared, Reading
<1>2. PICK prm \in Params : prm = Prm /\ Usable(prm)
  BY <1>1, HashesAreReference
<1>3. vfy.own \in Objects /\ vfy.hashes = Reference(vfy.own, prm)
  BY <1>1, <1>2, HashesAreReference
<1>4. /\ vfy.sums \in {Reference(sealed.object, sealed.params), <<>>}
      /\ SameList(vfy.hashes, vfy.sums)
  BY <1>1, CallFacts DEF CallInv
<1>5. /\ sealed.object \in Objects /\ sealed.params \in Params
      /\ Usable(sealed.params)
  BY <1>1 DEF HashInv, SealedInv, Unusable
<1>6. ASSUME NEW o, NEW q \in Params
      PROVE  /\ Len(Reference(o, q)) = q.data + q.parity + 1
             /\ 1 \in DOMAIN Reference(o, q)
             /\ Reference(o, q)[1] = {Segments(o, q.seg)}
  <2>1. PICK n \in Nat : n = q.data + q.parity
    BY ParamsType
  <2>2. n + 1 \in Nat /\ 1 \in 1 .. n + 1
    OBVIOUS
  <2> QED
    BY <2>1, <2>2, ReferenceIs
<1>7. vfy.sums # <<>>
  <2>1. Len(vfy.hashes) # 0
    BY <1>3, <1>6, ParamsType
  <2> QED
    BY <2>1, <1>4 DEF SameList
<1>8. Segments(vfy.own, prm.seg) = Segments(sealed.object, sealed.params.seg)
  <2>1. vfy.hashes[1] = vfy.sums[1]
    BY <1>4, <1>5, <1>6, <1>7 DEF SameList
  <2>2. vfy.hashes[1] = {Segments(vfy.own, prm.seg)}
    BY <1>3, <1>6
  <2>3. vfy.sums[1] = {Segments(sealed.object, sealed.params.seg)}
    BY <1>4, <1>5, <1>6, <1>7
  <2> QED
    BY <2>1, <2>2, <2>3
<1>9. /\ prm.seg \in Nat \ {0} /\ sealed.params.seg \in Nat \ {0}
      /\ vfy.own \in Seq(Nat) \ {<<>>} /\ sealed.object \in Seq(Nat) \ {<<>>}
  BY <1>2, <1>3, <1>5, ParamsType, ObjectsType DEF Usable
<1> QED
  BY <1>8, <1>9, SegmentsInjective

LEMMA SameIsMatch ==
    ASSUME HashInv PROVE SameMatches
<1> SUFFICES ASSUME vfy.pc = "mismatch", ~ShortReads, vfy.sums # <<>>,
                    vfy.own = sealed.object, Prm = sealed.params
             PROVE  FALSE
  BY DEF SameMatches
<1>1. vfy.pc \in Compared /\ vfy.pc \in Reading
  BY DEF Compared, Reading
<1>2. vfy.hashes = Reference(vfy.own, Prm)
  BY <1>1, HashesAreReference
<1>3. /\ vfy.sums \in {Reference(sealed.object, sealed.params), <<>>}
      /\ ~SameList(vfy.hashes, vfy.sums)
  BY <1>1, CallFacts DEF CallInv
<1> QED
  BY <1>2, <1>3 DEF SameList

LEMMA HashIsTyped ==
    ASSUME HashInv PROVE HashTypeOK
<1>1. params \subseteq Params /\ Cardinality(params) <= 1
  BY FS_EmptySet, FS_Singleton DEF HashInv
<1>2. sealed \in [object : Objects \cup {<<>>}, params : Params]
  BY DEF HashInv, SealedInv
<1>3. CASE vfy.pc = "idle"
  <2>1. vfy = [pc |-> "idle", own |-> <<>>, off |-> 0, segs |-> <<>>,
               enc |-> <<>>, hashes |-> <<>>, todo |-> {}, sums |-> <<>>]
    BY <1>3 DEF HashInv, Idle, Call
  <2> QED
    BY <2>1, <1>1, <1>2 DEF HashInv, HashTypeOK
<1>4. CASE vfy.pc = "params"
  <2>1. PICK own \in Objects :
            vfy = [pc |-> "params", own |-> own, off |-> 0, segs |-> <<>>,
                   enc |-> <<>>, hashes |-> <<>>, todo |-> {}, sums |-> <<>>]
    BY <1>4 DEF HashInv, Call
  <2>2. 0 \in 0 .. Len(own)
    BY ObjectsType
  <2> QED
    BY <2>1, <2>2, <1>1, <1>2 DEF HashInv, HashTypeOK
<1>5. CASE vfy.pc \in Reading
  BY <1>1, <1>2, <1>5 DEF HashInv, HashTypeOK, CallInv, Reading
<1> QED
  BY <1>3, <1>4, <1>5 DEF HashInv, CallShape

-----------------------------------------------------------------------------
(* The process *)

\* A process that ends leaves what its successor needs.
LEMMA DieKeeps ==
    ASSUME ProcessInv, Die PROVE ProcessInv'
<1>1. HashInv'
  BY ForgetVerifyKeeps DEF ProcessInv, Die
<1>2. ConfigInv' /\ MainInv' /\ GaugeInv'
  BY DEF ProcessInv, Die, ConfigInv, MainInv, GaugeInv
<1> QED
  BY <1>1, <1>2 DEF ProcessInv

LEMMA ConfigurationType ==
    ASSUME NEW file \in SyncerConfig, NEW env \in Environment
    PROVE  ParseSyncerConfigFromFile(file, env) \in SyncerConfig
<1>1. Credentials(file.db, env) \in DBConfig
  BY DEF Credentials, SyncerConfig, DBConfig, Environment
<1>2. (IF file.key = "none" THEN env.key ELSE file.key) \in Key
  BY DEF SyncerConfig, Environment
<1> QED
  BY <1>1, <1>2 DEF ParseSyncerConfigFromFile, SyncerConfig

LEMMA ConfigIs ==
    ASSUME NEW c, cfg = {c} PROVE Config1 = c
BY DEF Config1

LEMMA ProcessStepKeeps ==
    ASSUME ProcessInv, Start \/ ProcessStep PROVE ProcessInv'
<1> USE DEF ProcessInv
<1>1. CASE Start
  <2>1. HashInv' /\ ConfigInv' /\ GaugeInv'
    BY <1>1, HashStutters DEF Start, ConfigInv, GaugeInv
  <2>2. MainInv'
    BY <1>1, ProcessAssumption DEF Start, MainInv
  <2> QED
    BY <2>1, <2>2
<1>2. CASE Parse
  <2>1. HashInv' /\ GaugeInv' /\ MainInv'
    BY <1>2, HashStutters DEF Parse, GaugeInv, MainInv
  <2>2. ConfigInv'
    <3>1. PICK file \in Files, env \in Environments :
                cfg' = {ParseSyncerConfigFromFile(file, env)}
      BY <1>2 DEF Parse
    <3>2. ParseSyncerConfigFromFile(file, env) \in SyncerConfig
      BY ConfigurationType, ProcessAssumption
    <3> QED
      BY <1>2, <3>1, <3>2 DEF Parse, ConfigInv
  <2> QED
    BY <2>1, <2>2
<1>3. CASE Validate
  <2>1. CASE Die
    BY <2>1, DieKeeps
  <2>2. CASE ValidSyncer(Config1) /\ ~Die
    <3>1. HashInv' /\ GaugeInv' /\ MainInv'
      BY <1>3, <2>2, HashStutters DEF Validate, GaugeInv, MainInv
    <3>2. PICK c \in SyncerConfig : cfg = {c} /\ Config1 = c
      BY <1>3, ConfigIs DEF Validate, ConfigInv
    <3> QED
      BY <1>3, <2>2, <3>1, <3>2 DEF Validate, ConfigInv
  <2> QED
    BY <1>3, <2>1, <2>2 DEF Validate
<1>4. CASE OpenDB
  BY <1>4, HashStutters DEF OpenDB, ConfigInv, MainInv, GaugeInv
<1>5. CASE Migrate
  <2>1. HashInv' /\ GaugeInv' /\ ConfigInv'
    BY <1>5, HashStutters DEF Migrate, GaugeInv, ConfigInv
  <2>2. MainInv'
    BY <1>5 DEF Migrate, MainInv
  <2> QED
    BY <2>1, <2>2
<1>6. CASE NewBlobSyncer
  <2>1. CASE Die
    BY <2>1, DieKeeps
  <2>2. CASE ~Die
    <3>1. HashInv' /\ GaugeInv' /\ ConfigInv'
      BY <1>6, <2>2, HashStutters DEF NewBlobSyncer, GaugeInv, ConfigInv
    <3>2. MainInv'
      BY <1>6, <2>2 DEF NewBlobSyncer, MainInv, Goroutines
    <3> QED
      BY <3>1, <3>2
  <2> QED
    BY <2>1, <2>2
<1>7. CASE Resumed
  <2>1. HashInv' /\ GaugeInv' /\ ConfigInv'
    BY <1>7, HashStutters DEF Resumed, GaugeInv, ConfigInv
  <2>2. MainInv'
    BY <1>7 DEF Resumed, MainInv, Goroutines
  <2> QED
    BY <2>1, <2>2
<1>8. CASE MonitorQuota
  BY <1>8, HashStutters DEF MonitorQuota, ConfigInv, MainInv, GaugeInv
<1> QED
  BY <1>1, <1>2, <1>3, <1>4, <1>5, <1>6, <1>7, <1>8 DEF ProcessStep

LEMMA ProcessInvInit ==
    ASSUME ProcessInit PROVE ProcessInv
<1>1. HashInv
  BY HashInvInit DEF ProcessInit
<1>2. ConfigInv /\ MainInv /\ GaugeInv
  BY ProcessAssumption DEF ProcessInit, ConfigInv, MainInv, GaugeInv
<1> QED
  BY <1>1, <1>2 DEF ProcessInv

LEMMA ProcessInvStep ==
    ASSUME ProcessInv, [ProcessNext]_syncerVars PROVE ProcessInv'
<1>1. CASE Start \/ ProcessStep
  BY <1>1, ProcessStepKeeps
<1>2. CASE Panic
  BY <1>2, DieKeeps DEF Panic
<1>3. ASSUME HashInv', UNCHANGED processVars PROVE ProcessInv'
  BY <1>3 DEF ProcessInv, ConfigInv, MainInv, GaugeInv, processVars
<1>4. CASE Verify
  BY <1>3, <1>4, VerifyStepKeeps DEF Verify, ProcessInv
<1>5. CASE ChangeParams /\ UNCHANGED processVars
  BY <1>3, <1>5, ChangeParamsKeeps DEF ProcessInv
<1>6. CASE UNCHANGED syncerVars
  BY <1>3, <1>6, HashStutters DEF ProcessInv, syncerVars
<1> QED
  BY <1>1, <1>2, <1>4, <1>5, <1>6 DEF ProcessNext

-----------------------------------------------------------------------------
(* What the invariant implies *)

LEMMA RemainderOfSmall ==
    ASSUME NEW m \in Nat \ {0}, NEW x \in Int
    PROVE  x % m \in 0 .. m - 1 /\ (x \in 0 .. m - 1 => x % m = x)
<1>1. x % m \in 0 .. m - 1
  OBVIOUS
<1>2. ASSUME x \in 0 .. m - 1 PROVE x % m = x
  <2>1. x \in Nat /\ x < m
    BY <1>2
  <2>2. x \div m \in Nat /\ x = (x \div m) * m + (x % m)
    BY <2>1, Euclid
  <2>3. x \div m = 0
    <3>1. SUFFICES ASSUME 1 <= x \div m PROVE FALSE
      BY <2>2
    <3>2. 1 * m <= (x \div m) * m /\ (x \div m) * m \in Int
      BY <2>2, <3>1, TimesMonotone
    <3> QED
      BY <3>2, <2>1, <2>2, <1>1
  <2>4. 0 * m = 0
    OBVIOUS
  <2> QED
    BY <2>2, <2>3, <2>4, <1>1
<1> QED
  BY <1>1, <1>2

LEMMA QuotaType ==
    ASSUME NEW q \in Quotas
    PROVE  Granted(q) - Consumed(q) \in Int /\ Word \in Nat \ {0}
BY ProcessAssumption DEF Granted, Consumed

LEMMA ProcessIsTyped ==
    ASSUME ProcessInv PROVE ProcessTypeOK
<1>1. HashTypeOK
  BY HashIsTyped DEF ProcessInv
<1>2. asked \subseteq Quotas /\ gauge \subseteq 0 .. Word - 1
  <2>1. CASE asked = {} /\ gauge = {}
    BY <2>1
  <2>2. CASE ~(asked = {} /\ gauge = {})
    <3>1. PICK q \in Quotas : asked = {q} /\ gauge = {Remaining(q)}
      BY <2>2 DEF ProcessInv, GaugeInv
    <3>2. Remaining(q) \in 0 .. Word - 1
      BY QuotaType, RemainderOfSmall DEF Remaining
    <3> QED
      BY <3>1, <3>2
  <2> QED
    BY <2>1, <2>2
<1> QED
  BY <1>1, <1>2 DEF ProcessInv, ConfigInv, MainInv, ProcessTypeOK

LEMMA GaugeIsRight ==
    ASSUME ProcessInv PROVE GaugeIsRemaining
<1> SUFFICES ASSUME NEW q \in asked, NEW g \in gauge,
                    0 <= Granted(q) - Consumed(q),
                    Granted(q) - Consumed(q) < Word
             PROVE  g = Granted(q) - Consumed(q)
  BY DEF GaugeIsRemaining
<1>1. q \in Quotas /\ g = Remaining(q)
  BY DEF ProcessInv, GaugeInv
<1>2. PICK x \in Int : x = Granted(q) - Consumed(q)
  BY <1>1, QuotaType
<1>3. x \in 0 .. Word - 1 /\ Word \in Nat \ {0}
  BY <1>1, <1>2, QuotaType
<1>4. x % Word = x
  BY <1>3, RemainderOfSmall
<1> QED
  BY <1>1, <1>2, <1>4 DEF Remaining

LEMMA LoopsConfigured ==
    ASSUME ProcessInv PROVE LoopsAsConfigured
<1> SUFFICES ASSUME alive # {} PROVE LoopsAsConfigured
  BY DEF LoopsAsConfigured
<1>1. /\ main = "blocked"
      /\ \A i \in 1 .. 3 : Tables[i] \in tables
      /\ cfg \subseteq SyncerConfig /\ \A c \in cfg : ValidSyncer(c)
  BY DEF ProcessInv, MainInv, ConfigInv
<1>2. ASSUME NEW c \in cfg
      PROVE  /\ c.chain \in DOMAIN MaxInterval =>
                    GetCreateBundleInterval(c) \in 1 .. MaxInterval[c.chain]
             /\ GetReUploadBundleThresh(c) > 0
  <2>1. c.interval \in Nat /\ c.threshold \in Int
    BY <1>1 DEF SyncerConfig
  <2>2. /\ c.chain \in DOMAIN MaxInterval => c.interval <= MaxInterval[c.chain]
        /\ c.threshold > 60
    BY <1>1 DEF ValidSyncer
  <2>3. c.chain \in DOMAIN MaxInterval =>
            MaxInterval[c.chain] \in Nat /\ 30 <= MaxInterval[c.chain]
    BY DEF MaxInterval
  <2> QED
    BY <2>1, <2>2, <2>3
    DEF GetCreateBundleInterval, GetReUploadBundleThresh,
        DefaultCreateBundleSlotInterval
<1> QED
  BY <1>1, <1>2 DEF LoopsAsConfigured

-----------------------------------------------------------------------------
(* Theorems *)

\* Whatever the configurations, the parameters and the objects, and wherever
\* the process dies and is started again, its invariant holds.
THEOREM ProcessInvariant == ProcessSpec => []ProcessInv
<1>1. ProcessInit => ProcessInv
  BY ProcessInvInit
<1>2. ProcessInv /\ [ProcessNext]_syncerVars => ProcessInv'
  BY ProcessInvStep
<1> QED
  BY <1>1, <1>2, PTL DEF ProcessSpec

\* The variables of the process, the gauge and the comparison are typed.
THEOREM ProcessTypes == ProcessSpec => []ProcessTypeOK
<1>1. ProcessInv => ProcessTypeOK
  BY ProcessIsTyped
<1> QED
  BY <1>1, ProcessInvariant, PTL

\* The loops run on a database with every table, although a process before may
\* have died while it made them (AutoMigrateDB), and with a configuration that
\* Validate accepted.
THEOREM LoopsAreConfigured == ProcessSpec => []LoopsAsConfigured
<1>1. ProcessInv => LoopsAsConfigured
  BY LoopsConfigured
<1> QED
  BY <1>1, ProcessInvariant, PTL

\* The gauge of the quota monitor is what remains of the quota for any word
\* size, although the sums it is computed from may wrap.
THEOREM GaugeShowsRemaining == ProcessSpec => []GaugeIsRemaining
<1>1. ProcessInv => GaugeIsRemaining
  BY GaugeIsRight
<1> QED
  BY <1>1, ProcessInvariant, PTL

\* What verifyBundleIntegrity compares is complete and is what Greenfield
\* computes, for any object and any parameters, in whatever order the
\* goroutines of the shards end.
THEOREM HashesAreGreenfields == ProcessSpec => []HashIsReference
<1>1. ProcessInv => HashIsReference
  BY HashesAreReference DEF ProcessInv, HashIsReference, Compared
<1> QED
  BY <1>1, ProcessInvariant, PTL

\* A bundle that passes holds what the chain's nodes return, though Greenfield
\* sealed it under other parameters than the process uses.
THEOREM MatchingBundlesAreRight == ProcessSpec => []MatchMeansSame
<1>1. ProcessInv => MatchMeansSame
  BY MatchIsSame DEF ProcessInv
<1> QED
  BY <1>1, ProcessInvariant, PTL

\* A bundle that is right passes, unless the parameters changed or the reply
\* had no checksums.
THEOREM RightBundlesMatch == ProcessSpec => []SameMatches
<1>1. ProcessInv => SameMatches
  BY SameIsMatch DEF ProcessInv
<1> QED
  BY <1>1, ProcessInvariant, PTL
=============================================================================
