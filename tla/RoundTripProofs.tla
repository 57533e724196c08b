-------------------------- MODULE RoundTripProofs --------------------------
(***************************************************************************)
(* What is serialized is read back: sensor messages by the bridge, the     *)
(* frames of the client by the server and those of the server by the       *)
(* client, for contents of every size their length fields can say.         *)
(*                                                                         *)
(* Holds(b, offset, s) says that the bytes s are in a buffer at an offset; *)
(* a buffer that holds s \o t holds s, and t behind it, so the field every *)
(* read is meant for is where the read looks for it.                       *)
(*                                                                         *)
(* Bridge: each stream carries the beginning of one frame, from which the  *)
(* two reads of the bridge cut out what was serialized, for any number of  *)
(* connections, refusals and deaths of the sender.                         *)
(*                                                                         *)
(* Client: base64, the binary frames, the JSON texts; then, for any calls, *)
(* messages and connections, what a handler is given is what was meant.    *)
(* The two specifications share no name, and no theorem speaks of both.    *)
(***************************************************************************)
EXTENDS Bridge, Client, FiniteSetTheorems, SequenceTheorems, TLAPS

-----------------------------------------------------------------------------
(* induction, and what a buffer holds *)

\* Induction over the numbers, for the loops over the fields of a point cloud and
\* over the parameters of a message.
\* A smallest number that is not in S begins a smallest 0..i.
LEMMA SetInduction ==
    ASSUME NEW S, 0 \in S, \A i \in S \cap Nat : i + 1 \in S
    PROVE  Nat \subseteq S
<1> SUFFICES ASSUME NEW n \in Nat, n \notin S PROVE FALSE
  OBVIOUS
<1> DEFINE T == {0..i : i \in Nat \ S}
<1>1. T \subseteq FiniteSubsetsOf(Nat)
  <2> SUFFICES ASSUME NEW i \in Nat PROVE 0..i \in FiniteSubsetsOf(Nat)
    OBVIOUS
  <2>1. IsFiniteSet(0..i) BY FS_Interval
  <2> QED BY <2>1 DEF FiniteSubsetsOf
<1>2. T # {}
  OBVIOUS
<1>3. IsWellFoundedOn(StrictSubsetOrdering(Nat), FiniteSubsetsOf(Nat))
  BY FS_StrictSubsetOrderingWellFounded
<1>4. PICK x \in T : \A y \in T : ~(<<y, x>> \in StrictSubsetOrdering(Nat))
  BY <1>1, <1>2, <1>3, WFMin
<1>5. PICK i \in Nat \ S : x = 0..i
  OBVIOUS
<1>6. i # 0 /\ i - 1 \in Nat /\ i - 1 \notin S
  <2>1. i \in Nat /\ i \notin S OBVIOUS
  <2>2. i # 0 BY <2>1
  <2>3. i - 1 \in Nat /\ (i - 1) + 1 = i BY <2>1, <2>2
  <2>4. ASSUME i - 1 \in S PROVE FALSE
    <3>1. (i - 1) + 1 \in S BY <2>3, <2>4
    <3> QED BY <2>1, <2>3, <3>1
  <2> QED BY <2>2, <2>3, <2>4
<1>7. 0..(i - 1) \in T
  BY <1>6
<1>8. <<0..(i - 1), 0..i>> \in StrictSubsetOrdering(Nat)
  BY <1>6 DEF StrictSubsetOrdering
<1> QED BY <1>4, <1>5, <1>7, <1>8

\* The bytes s are in the buffer at an offset.
Holds(b, offset, s) ==
    /\ offset + Len(s) <= Len(b)
    /\ \A j \in 1..Len(s) : b[offset + j] = s[j]

\* The length of what is written behind something else.
LEMMA ConcatType ==
    ASSUME NEW S, NEW s \in Seq(S), NEW t \in Seq(S)
    PROVE  s \o t \in Seq(S) /\ Len(s \o t) = Len(s) + Len(t)
OBVIOUS

\* What was written first and what was written behind it are both in the buffer.
LEMMA HoldsConcat ==
    ASSUME NEW S, NEW b \in Seq(S), NEW offset \in Nat,
           NEW s \in Seq(S), NEW t \in Seq(S), Holds(b, offset, s \o t)
    PROVE  /\ Holds(b, offset, s)
           /\ Holds(b, offset + Len(s), t)
<1>1. Len(s \o t) = Len(s) + Len(t)
  OBVIOUS
<1>2. \A j \in 1..Len(s) : j \in 1..(Len(s) + Len(t)) /\ (s \o t)[j] = s[j]
  OBVIOUS
<1>3. \A j \in 1..Len(t) : Len(s) + j \in 1..(Len(s) + Len(t)) /\ (s \o t)[Len(s) + j] = t[j]
  OBVIOUS
<1>4. Holds(b, offset, s)
  BY <1>1, <1>2 DEF Holds
<1>5. Holds(b, offset + Len(s), t)
  <2>1. \A j \in 1..Len(t) : offset + Len(s) + j = offset + (Len(s) + j)
    OBVIOUS
  <2>2. \A j \in 1..Len(t) : b[offset + Len(s) + j] = t[j]
    BY <1>1, <1>3, <2>1 DEF Holds
  <2> QED BY <1>1, <2>2 DEF Holds
<1> QED BY <1>4, <1>5

\* A buffer holds itself.
LEMMA HoldsAll == ASSUME NEW S, NEW b \in Seq(S) PROVE Holds(b, 0, b)
BY DEF Holds

-----------------------------------------------------------------------------
(* memory *)

\* A byte, and the sizes a value may have.
Bytes == [of : Nat, at : Nat]
Widths == {1, 4, 8}

\* What an array is put of: its values in order, each in n bytes.
LEMMA PutAllType ==
    ASSUME NEW values \in Seq(Nat), NEW n \in Widths
    PROVE  /\ PutAll(values, n) \in Seq(Bytes)
           /\ Len(PutAll(values, n)) = Len(values) * n
           /\ \A j \in 1..(Len(values) * n) :
                PutAll(values, n)[j] = [of |-> values[((j - 1) \div n) + 1], at |-> ((j - 1) % n) + 1]
<1>1. Len(values) * n \in Nat
  BY DEF Widths
<1>2. ASSUME NEW j \in 1..(Len(values) * n)
      PROVE  ((j - 1) \div n) + 1 \in 1..Len(values) /\ ((j - 1) % n) + 1 \in Nat
  <2>1. CASE n = 1 BY <2>1
  <2>2. CASE n = 4 BY <2>2
  <2>3. CASE n = 8 BY <2>3
  <2> QED BY <2>1, <2>2, <2>3 DEF Widths
<1>3. \A j \in 1..(Len(values) * n) : PutAll(values, n)[j] \in Bytes
  BY <1>2 DEF PutAll, Bytes
<1>4. PutAll(values, n) = [j \in 1..(Len(values) * n) |->
                              [of |-> values[((j - 1) \div n) + 1], at |-> ((j - 1) % n) + 1]]
  BY DEF PutAll
<1>5. PutAll(values, n) \in [1..(Len(values) * n) -> Bytes]
  BY <1>3, <1>4
<1>6. PutAll(values, n) \in Seq(Bytes)
  BY <1>1, <1>5
<1> QED BY <1>1, <1>4, <1>6

\* A single value takes n bytes.
LEMMA PutType ==
    ASSUME NEW value \in Nat, NEW n \in Widths
    PROVE  Put(value, n) \in Seq(Bytes) /\ Len(Put(value, n)) = n
<1>1. <<value>> \in Seq(Nat) /\ Len(<<value>>) = 1
  OBVIOUS
<1>2. n \in Nat /\ 1 * n = n
  BY DEF Widths
<1>3. /\ PutAll(<<value>>, n) \in Seq(Bytes)
      /\ Len(PutAll(<<value>>, n)) = Len(<<value>>) * n
  BY <1>1, PutAllType
<1> QED BY <1>1, <1>2, <1>3 DEF Put

\* The j-th byte of a single value is its j-th.
LEMMA FirstOfOne ==
    ASSUME NEW n \in Widths, NEW j \in 1..n
    PROVE  ((j - 1) \div n) + 1 = 1 /\ ((j - 1) % n) + 1 = j
<1>1. (j - 1) \div n = 0
  BY DEF Widths
<1>2. (j - 1) % n = j - 1
  BY DEF Widths
<1> QED BY <1>1, <1>2 DEF Widths

\* Byte j of value i is byte (i - 1) * n + j of the array, and of no other value.
LEMMA ByteIndex ==
    ASSUME NEW n \in Widths, NEW m \in Nat, NEW i \in 1..m, NEW j \in 1..n
    PROVE  LET q == (i - 1) * n + j IN
           q \in 1..(m * n) /\ ((q - 1) \div n) + 1 = i /\ ((q - 1) % n) + 1 = j
<1> DEFINE q == (i - 1) * n + j
<1>1. CASE n = 1
  BY <1>1, SMTT(30)
<1>2. CASE n = 4
  <2>1. q \in 1..(m * n)
    BY <1>2, SMTT(30)
  <2>2. ((q - 1) \div n) + 1 = i
    BY <1>2, SMTT(30)
  <2>3. ((q - 1) % n) + 1 = j
    BY <1>2, SMTT(30)
  <2> QED BY <2>1, <2>2, <2>3
<1>3. CASE n = 8
  <2>1. q \in 1..(m * n)
    BY <1>3, SMTT(30)
  <2>2. ((q - 1) \div n) + 1 = i
    BY <1>3, SMTT(30)
  <2>3. ((q - 1) % n) + 1 = j
    BY <1>3, SMTT(30)
  <2> QED BY <2>1, <2>2, <2>3
<1> QED BY <1>1, <1>2, <1>3 DEF Widths

\* Reading the i-th of the values an array was put of.
LEMMA GetOfPutAll ==
    ASSUME NEW b \in Seq(Bytes), NEW offset \in Nat, NEW values \in Seq(Nat), NEW n \in Widths,
           Holds(b, offset, PutAll(values, n)), NEW i \in 1..Len(values)
    PROVE  Get(b, offset + (i - 1) * n, n) = values[i]
<1> DEFINE p == offset + (i - 1) * n
<1>1. p \in Nat /\ p + n <= offset + Len(values) * n
  <2>1. CASE n = 1 BY <2>1
  <2>2. CASE n = 4 BY <2>2
  <2>3. CASE n = 8 BY <2>3
  <2> QED BY <2>1, <2>2, <2>3 DEF Widths
<1>2. p + n <= Len(b)
  <2>1. Len(PutAll(values, n)) = Len(values) * n
    BY PutAllType
  <2>2. offset + Len(values) * n <= Len(b)
    BY <2>1 DEF Holds
  <2>3. Len(values) * n \in Nat /\ n \in Nat
    BY DEF Widths
  <2> HIDE DEF p
  <2> QED BY <1>1, <2>2, <2>3
<1>3. ASSUME NEW j \in 1..n
      PROVE  b[p + j] = [of |-> values[i], at |-> j]
  <2> DEFINE q == (i - 1) * n + j
  <2>1. q \in 1..(Len(values) * n) /\ ((q - 1) \div n) + 1 = i /\ ((q - 1) % n) + 1 = j
    BY ByteIndex
  <2>2. PutAll(values, n)[q] = [of |-> values[i], at |-> j]
    BY <2>1, PutAllType
  <2>3. b[offset + q] = PutAll(values, n)[q]
    BY <2>1, PutAllType DEF Holds
  <2>4. offset + q = p + j
    <3>1. n \in Nat /\ (i - 1) * n \in Int BY DEF Widths
    <3> QED BY <3>1
  <2> QED BY <2>2, <2>3, <2>4
<1>4. b[p + 1].of = values[i]
  <2>1. 1 \in 1..n
    BY DEF Widths
  <2>2. b[p + 1] = [of |-> values[i], at |-> 1]
    BY <1>3, <2>1
  <2> QED BY <2>2
<1>5. ASSUME NEW j \in 1..n
      PROVE  Put(values[i], n)[j] = [of |-> values[i], at |-> j]
  <2>1. <<values[i]>> \in Seq(Nat) /\ Len(<<values[i]>>) = 1 /\ <<values[i]>>[1] = values[i]
    OBVIOUS
  <2>2. ((j - 1) \div n) + 1 = 1 /\ ((j - 1) % n) + 1 = j
    BY FirstOfOne
  <2>3. 1 * n = n
    BY DEF Widths
  <2>4. \A q \in 1..(Len(<<values[i]>>) * n) :
          PutAll(<<values[i]>>, n)[q]
            = [of |-> <<values[i]>>[((q - 1) \div n) + 1], at |-> ((q - 1) % n) + 1]
    BY <2>1, PutAllType
  <2>5. PutAll(<<values[i]>>, n)[j] = [of |-> <<values[i]>>[1], at |-> j]
    BY <2>1, <2>2, <2>3, <2>4
  <2> QED BY <2>1, <2>5 DEF Put
<1>6. SubSeq(b, p + 1, p + n) = Put(values[i], n)
  <2>1. /\ Put(values[i], n) \in Seq(Bytes)
        /\ Len(Put(values[i], n)) = n
    BY PutType
  <2>2. /\ SubSeq(b, p + 1, p + n) \in Seq(Bytes)
        /\ Len(SubSeq(b, p + 1, p + n)) = n
        /\ \A j \in 1..n : SubSeq(b, p + 1, p + n)[j] = b[p + j]
    <3>1. p \in Nat /\ n \in Nat /\ p + n <= Len(b)
      BY <1>1, <1>2 DEF Widths
    <3> HIDE DEF p
    <3> DEFINE first == p + 1
               last == p + n
    <3>2. /\ first \in 1..(Len(b) + 1) /\ last \in (first - 1)..Len(b)
          /\ last - first + 1 = n /\ \A j \in 1..n : first + j - 1 = p + j
      BY <3>1
    <3> HIDE DEF first, last
    <3>3. /\ SubSeq(b, first, last) \in Seq(Bytes)
          /\ Len(SubSeq(b, first, last)) = n
          /\ \A j \in 1..n : SubSeq(b, first, last)[j] = b[p + j]
      BY <3>2, SubSeqProperties
    <3> QED BY <3>3 DEF first, last
  <2>3. \A j \in 1..n : SubSeq(b, p + 1, p + n)[j] = Put(values[i], n)[j]
    BY <1>3, <1>5, <2>2
  <2> HIDE DEF p
  <2> QED BY <2>1, <2>2, <2>3, SeqEqual
<1> HIDE DEF p
<1> QED BY <1>2, <1>4, <1>6 DEF Get, p

\* Reading a whole array back.
LEMMA GetAllOfPutAll ==
    ASSUME NEW b \in Seq(Bytes), NEW offset \in Nat, NEW values \in Seq(Nat), NEW n \in Widths,
           Holds(b, offset, PutAll(values, n))
    PROVE  GetAll(b, offset, Len(values), n) = values
<1>1. \A i \in 1..Len(values) : GetAll(b, offset, Len(values), n)[i] = values[i]
  BY GetOfPutAll DEF GetAll
<1> QED BY <1>1 DEF GetAll

\* Reading a single value back, and a size.
LEMMA GetOfPut ==
    ASSUME NEW b \in Seq(Bytes), NEW offset \in Nat, NEW value \in Nat, NEW n \in Widths,
           Holds(b, offset, Put(value, n))
    PROVE  /\ Get(b, offset, n) = value
           /\ GetSize(b, offset, n) = value
<1>1. <<value>> \in Seq(Nat) /\ Len(<<value>>) = 1 /\ <<value>>[1] = value
  OBVIOUS
<1>2. Get(b, offset + (1 - 1) * n, n) = <<value>>[1]
  <2>1. Holds(b, offset, PutAll(<<value>>, n)) /\ 1 \in 1..Len(<<value>>)
    BY <1>1 DEF Put
  <2> QED BY <1>1, <2>1, GetOfPutAll
<1>3. offset + (1 - 1) * n = offset
  BY DEF Widths
<1> QED BY <1>1, <1>2, <1>3, WireFormatAssumption DEF GetSize

\* A size is written as it is unless it does not fit.
LEMMA PutSizeType ==
    ASSUME NEW size \in Nat
    PROVE  /\ PutSize(size) \in Seq(Bytes)
           /\ Len(PutSize(size)) = 4
           /\ size < TwoTo32 => PutSize(size) = Put(size, 4)
<1>1. size % TwoTo32 \in Nat /\ (size < TwoTo32 => size % TwoTo32 = size)
  BY WireFormatAssumption
<1>2. 4 \in Widths
  BY DEF Widths
<1> HIDE DEF Widths
<1> QED BY <1>1, <1>2, PutType DEF PutSize, U32

-----------------------------------------------------------------------------
(* Header, LaserScan and Path *)

\* Header::deserialize finds a header wherever serialize() put it.
LEMMA HeaderRoundTrip ==
    ASSUME NEW h \in Headers
    PROVE  /\ HeaderSerialize(h) \in Seq(Bytes)
           /\ \A b \in Seq(Bytes) : \A offset \in Nat :
                Len(b) < TwoTo32 /\ Holds(b, offset, HeaderSerialize(h)) =>
                  HeaderDeserialize(b, offset)
                    = [value |-> h, offset |-> offset + Len(HeaderSerialize(h))]
<1> DEFINE seq == h.seq
           stamp == h.stamp
           text == h.frame_id
           size == Len(text)
           s1 == Put(seq, 4)
           s2 == Put(stamp, 8)
           s3 == PutSize(size)
           s4 == PutAll(text, 1)
           s12 == s1 \o s2
           s13 == s12 \o s3
           s14 == s13 \o s4
<1>1. seq \in Nat /\ stamp \in Nat /\ text \in Seq(Nat) /\ size \in Nat
  BY DEF Headers
<1>2. h = [seq |-> seq, stamp |-> stamp, frame_id |-> text]
  BY DEF Headers
<1>3. HeaderSerialize(h) = s14
  BY DEF HeaderSerialize, U8, U32, F64
<1> HIDE DEF seq, stamp, text
<1>4. 1 \in Widths /\ 4 \in Widths /\ 8 \in Widths
  BY DEF Widths
<1>5. s1 \in Seq(Bytes) /\ Len(s1) = 4
  BY <1>1, <1>4, PutType
<1>6. s2 \in Seq(Bytes) /\ Len(s2) = 8
  BY <1>1, <1>4, PutType
<1>7. s3 \in Seq(Bytes) /\ Len(s3) = 4 /\ (size < TwoTo32 => s3 = Put(size, 4))
  BY <1>1, PutSizeType
<1>8. s4 \in Seq(Bytes) /\ Len(s4) = size * 1
  BY <1>1, <1>4, PutAllType
<1> HIDE DEF size, s1, s2, s3, s4
<1>9. s12 \in Seq(Bytes) /\ Len(s12) = Len(s1) + Len(s2)
  BY <1>5, <1>6, ConcatType
<1> HIDE DEF s12
<1>10. s13 \in Seq(Bytes) /\ Len(s13) = Len(s12) + Len(s3)
  BY <1>7, <1>9, ConcatType
<1> HIDE DEF s13
<1>11. s14 \in Seq(Bytes) /\ Len(s14) = Len(s13) + Len(s4)
  BY <1>8, <1>10, ConcatType
<1> HIDE DEF s14
<1>11a. Len(s12) = 12 /\ Len(s13) = 16 /\ Len(s14) = 16 + size
  BY <1>1, <1>5, <1>6, <1>7, <1>8, <1>9, <1>10, <1>11
<1>12. ASSUME NEW b \in Seq(Bytes), NEW offset \in Nat, Len(b) < TwoTo32, Holds(b, offset, s14)
       PROVE  HeaderDeserialize(b, offset) = [value |-> h, offset |-> offset + Len(s14)]
  <2>1. Holds(b, offset, s13) /\ Holds(b, offset + 16, s4)
    BY <1>8, <1>10, <1>11a, <1>12, HoldsConcat DEF s14
  <2>2. Holds(b, offset, s12) /\ Holds(b, offset + 12, s3)
    BY <1>7, <1>9, <1>11a, <2>1, HoldsConcat DEF s13
  <2>3. Holds(b, offset, s1) /\ Holds(b, offset + 4, s2)
    BY <1>5, <1>6, <2>2, HoldsConcat DEF s12
  <2>4. size < TwoTo32
    BY <1>1, <1>8, <1>12, <2>1, WireFormatAssumption DEF Holds
  <2>5. GetSize(b, offset + 12, 4) = size
    BY <1>1, <1>4, <1>7, <2>2, <2>4, GetOfPut
  <2>6. Get(b, offset, 4) = seq
    BY <1>1, <1>4, <2>3, GetOfPut DEF s1
  <2>7. Get(b, offset + 4, 8) = stamp
    BY <1>1, <1>4, <2>3, GetOfPut DEF s2
  <2>8. GetAll(b, offset + 16, size, 1) = text
    BY <1>1, <1>4, <2>1, GetAllOfPutAll DEF s4, size
  <2>9. /\ offset + 4 + 8 = offset + 12 /\ offset + 4 + 8 + 4 = offset + 16
        /\ offset + 16 + size = offset + (16 + size)
    BY <1>1
  <2>10. HeaderDeserialize(b, offset)
           = [value  |-> [seq |-> seq, stamp |-> stamp, frame_id |-> text],
              offset |-> offset + (16 + size)]
    BY <2>5, <2>6, <2>7, <2>8, <2>9 DEF HeaderDeserialize, U8, U32, F64
  <2> QED BY <1>2, <1>11a, <2>10
<1> QED BY <1>3, <1>11, <1>12

\* LaserScan::deserialize inverts LaserScan::serialize, to the last byte.
THEOREM LaserScanRoundTrip ==
    ASSUME NEW scan \in LaserScans, Len(LaserScanSerialize(scan)) < TwoTo32
    PROVE  /\ LaserScanSerialize(scan) \in Seq(Bytes)
           /\ LaserScanDeserialize(LaserScanSerialize(scan))
                = [value |-> scan, offset |-> Len(LaserScanSerialize(scan))]
<1> DEFINE h == scan.header
           floats == scan.floats
           ranges == scan.ranges
           intensities == scan.intensities
           n == Len(ranges)
           m == Len(intensities)
           s1 == HeaderSerialize(h)
           s2 == PutAll(floats, 4)
           s3 == Put(n, 8)
           s4 == PutAll(ranges, 4)
           s5 == Put(m, 8)
           s6 == PutAll(intensities, 4)
           t2 == s1 \o s2
           t3 == t2 \o s3
           t4 == t3 \o s4
           t5 == t4 \o s5
           b == t5 \o s6
<1>1. /\ h \in Headers /\ floats \in [1..7 -> Nat]
      /\ ranges \in Seq(Nat) /\ intensities \in Seq(Nat)
  BY DEF LaserScans
<1>2. scan = [header |-> h, floats |-> floats, ranges |-> ranges, intensities |-> intensities]
  BY DEF LaserScans
<1>3. LaserScanSerialize(scan) = b
  BY DEF LaserScanSerialize, F32, SIZE_T
<1> HIDE DEF h, floats, ranges, intensities
<1>4. floats \in Seq(Nat) /\ Len(floats) = 7 /\ n \in Nat /\ m \in Nat
  <2>1. floats \in Seq(Nat)
    BY <1>1, SeqDef
  <2>2. Len(floats) = 7
    <3>1. DOMAIN floats = 1..7 /\ DOMAIN floats = 1..Len(floats) /\ Len(floats) \in Nat
      BY <1>1, <2>1, LenProperties
    <3> QED BY <3>1
  <2>3. n \in Nat /\ m \in Nat
    BY <1>1, LenProperties
  <2> QED BY <2>1, <2>2, <2>3
<1>5. 4 \in Widths /\ 8 \in Widths
  BY DEF Widths
<1>6. s1 \in Seq(Bytes) /\ Len(s1) \in Nat
  BY <1>1, HeaderRoundTrip
<1>7. s2 \in Seq(Bytes) /\ Len(s2) = Len(floats) * 4
  BY <1>4, <1>5, PutAllType
<1>8. s3 \in Seq(Bytes) /\ Len(s3) = 8
  BY <1>4, <1>5, PutType
<1>9. s4 \in Seq(Bytes) /\ Len(s4) = n * 4
  BY <1>1, <1>5, PutAllType
<1>10. s5 \in Seq(Bytes) /\ Len(s5) = 8
  BY <1>4, <1>5, PutType
<1>11. s6 \in Seq(Bytes) /\ Len(s6) = m * 4
  BY <1>1, <1>5, PutAllType
<1> HIDE DEF n, m, s1, s2, s3, s4, s5, s6
<1>12. t2 \in Seq(Bytes) /\ Len(t2) = Len(s1) + Len(s2)
  BY <1>6, <1>7, ConcatType
<1> HIDE DEF t2
<1>13. t3 \in Seq(Bytes) /\ Len(t3) = Len(t2) + Len(s3)
  BY <1>8, <1>12, ConcatType
<1> HIDE DEF t3
<1>14. t4 \in Seq(Bytes) /\ Len(t4) = Len(t3) + Len(s4)
  BY <1>9, <1>13, ConcatType
<1> HIDE DEF t4
<1>15. t5 \in Seq(Bytes) /\ Len(t5) = Len(t4) + Len(s5)
  BY <1>10, <1>14, ConcatType
<1> HIDE DEF t5
<1>16. b \in Seq(Bytes) /\ Len(b) = Len(t5) + Len(s6)
  BY <1>11, <1>15, ConcatType
<1> HIDE DEF b
<1> DEFINE H == Len(s1)
<1>17. /\ H \in Nat /\ Len(t2) = H + 28 /\ Len(t3) = H + 36 /\ Len(t4) = H + 36 + n * 4
       /\ Len(t5) = H + 36 + n * 4 + 8 /\ Len(b) = H + 36 + n * 4 + 8 + m * 4
  BY <1>4, <1>6, <1>7, <1>8, <1>9, <1>10, <1>11, <1>12, <1>13, <1>14, <1>15, <1>16
<1> HIDE DEF H
<1>18. Len(b) < TwoTo32
  BY <1>3
<1>19. Holds(b, 0, t5) /\ Holds(b, 0 + Len(t5), s6)
  BY <1>11, <1>15, <1>16, HoldsAll, HoldsConcat DEF b
<1>20. Holds(b, 0, t4) /\ Holds(b, 0 + Len(t4), s5)
  BY <1>10, <1>14, <1>16, <1>19, HoldsConcat DEF t5
<1>21. Holds(b, 0, t3) /\ Holds(b, 0 + Len(t3), s4)
  BY <1>9, <1>13, <1>16, <1>20, HoldsConcat DEF t4
<1>22. Holds(b, 0, t2) /\ Holds(b, 0 + Len(t2), s3)
  BY <1>8, <1>12, <1>16, <1>21, HoldsConcat DEF t3
<1>23. Holds(b, 0, s1) /\ Holds(b, 0 + Len(s1), s2)
  BY <1>6, <1>7, <1>16, <1>22, HoldsConcat DEF t2
<1>24. HeaderDeserialize(b, 0) = [value |-> h, offset |-> H]
  <2>1. HeaderDeserialize(b, 0) = [value |-> h, offset |-> 0 + Len(s1)]
    BY <1>1, <1>16, <1>18, <1>23, HeaderRoundTrip DEF s1
  <2> QED BY <1>6, <2>1 DEF H
<1>25. GetAll(b, H, 7, 4) = floats
  <2>1. Holds(b, H, PutAll(floats, 4))
    BY <1>6, <1>23 DEF H, s2
  <2>2. 4 \in Widths
    BY DEF Widths
  <2>3. H \in Nat /\ Len(floats) = 7
    BY <1>4, <1>5, <1>17
  <2>4. GetAll(b, H, Len(floats), 4) = floats
    <3>1. floats \in Seq(Nat) /\ b \in Seq(Bytes)
      BY <1>4, <1>16
    <3> HIDE DEF b, H
    <3> QED BY <2>1, <2>2, <2>3, <3>1, GetAllOfPutAll, ZenonT(30)
  <2> QED BY <2>3, <2>4
<1>26. GetSize(b, H + 28, 8) = n
  <2>1. Holds(b, H + 28, s3) /\ H + 28 \in Nat
    BY <1>17, <1>22
  <2> QED BY <1>4, <1>5, <1>16, <2>1, GetOfPut DEF s3
<1>27. GetAll(b, H + 36, n, 4) = ranges
  <2>1. Holds(b, H + 36, s4) /\ H + 36 \in Nat
    BY <1>17, <1>21
  <2> QED BY <1>1, <1>5, <1>16, <2>1, GetAllOfPutAll DEF s4, n
<1>28. GetSize(b, H + 36 + n * 4, 8) = m
  <2>1. Holds(b, H + 36 + n * 4, s5) /\ H + 36 + n * 4 \in Nat
    BY <1>4, <1>17, <1>20
  <2> QED BY <1>4, <1>5, <1>16, <2>1, GetOfPut DEF s5
<1>29. GetAll(b, H + 36 + n * 4 + 8, m, 4) = intensities
  <2>1. Holds(b, H + 36 + n * 4 + 8, s6) /\ H + 36 + n * 4 + 8 \in Nat
    BY <1>4, <1>17, <1>19
  <2> QED BY <1>1, <1>5, <1>16, <2>1, GetAllOfPutAll DEF s6, m
<1>30. H + 7 * 4 = H + 28 /\ H + 28 + 8 = H + 36
  BY <1>17
<1>31. LaserScanDeserialize(b)
         = [value  |-> [header |-> h, floats |-> floats, ranges |-> ranges,
                        intensities |-> intensities],
            offset |-> H + 36 + n * 4 + 8 + m * 4]
  BY <1>24, <1>25, <1>26, <1>27, <1>28, <1>29, <1>30 DEF LaserScanDeserialize, F32, SIZE_T
<1> QED BY <1>2, <1>3, <1>16, <1>17, <1>31

\* Path::deserialize inverts Path::serialize, to the last byte.
THEOREM PathRoundTrip ==
    ASSUME NEW path \in Paths, Len(PathSerialize(path)) < TwoTo32
    PROVE  /\ PathSerialize(path) \in Seq(Bytes)
           /\ PathDeserialize(PathSerialize(path))
                = [value |-> path, offset |-> Len(PathSerialize(path))]
<1> DEFINE h == path.header
           points == path.points
           n == Len(points)
           flat == [j \in 1..(7 * n) |-> points[((j - 1) \div 7) + 1][((j - 1) % 7) + 1]]
           s1 == HeaderSerialize(h)
           s2 == Put(n, 8)
           s3 == PutAll(flat, 8)
           t2 == s1 \o s2
           b == t2 \o s3
<1>1. h \in Headers /\ points \in Seq([1..7 -> Nat])
  BY DEF Paths
<1>2. path = [header |-> h, points |-> points]
  BY DEF Paths
<1>3. PathSerialize(path) = b
  BY DEF PathSerialize, F64, SIZE_T
<1> HIDE DEF h, points
<1>4. n \in Nat /\ \A i \in 1..n : points[i] \in [1..7 -> Nat]
  BY <1>1
<1> HIDE DEF n
<1>5. ASSUME NEW j \in 1..(7 * n)
      PROVE  /\ ((j - 1) \div 7) + 1 \in 1..n /\ ((j - 1) % 7) + 1 \in 1..7
             /\ points[((j - 1) \div 7) + 1][((j - 1) % 7) + 1] \in Nat
  <2>1. ((j - 1) \div 7) + 1 \in 1..n /\ ((j - 1) % 7) + 1 \in 1..7
    BY <1>4
  <2> QED BY <1>4, <2>1
<1>6. flat \in Seq(Nat) /\ Len(flat) = 7 * n
  <2>1. 7 * n \in Nat
    BY <1>4
  <2>2. flat \in [1..(7 * n) -> Nat]
    <3>1. \A j \in 1..(7 * n) : points[((j - 1) \div 7) + 1][((j - 1) % 7) + 1] \in Nat
      BY <1>5
    <3> QED BY <3>1
  <2> HIDE DEF flat
  <2>3. flat \in Seq(Nat)
    BY <2>1, <2>2, SeqDef
  <2>4. DOMAIN flat = 1..(7 * n) /\ DOMAIN flat = 1..Len(flat) /\ Len(flat) \in Nat
    BY <2>2, <2>3
  <2> QED BY <2>1, <2>3, <2>4
<1>7. ASSUME NEW i \in 1..n, NEW k \in 1..7
      PROVE  (i - 1) * 7 + k \in 1..Len(flat) /\ flat[(i - 1) * 7 + k] = points[i][k]
  <2> DEFINE q == (i - 1) * 7 + k
  <2>1. q \in 1..(7 * n) /\ ((q - 1) \div 7) + 1 = i /\ ((q - 1) % 7) + 1 = k
    BY <1>4
  <2> QED BY <1>6, <2>1
<1> HIDE DEF flat
<1>8. 8 \in Widths
  BY DEF Widths
<1>9. s1 \in Seq(Bytes) /\ Len(s1) \in Nat
  BY <1>1, HeaderRoundTrip
<1>10. s2 \in Seq(Bytes) /\ Len(s2) = 8
  BY <1>4, <1>8, PutType
<1>11. s3 \in Seq(Bytes) /\ Len(s3) = Len(flat) * 8
  BY <1>6, <1>8, PutAllType
<1> HIDE DEF s1, s2, s3
<1>12. t2 \in Seq(Bytes) /\ Len(t2) = Len(s1) + Len(s2)
  BY <1>9, <1>10, ConcatType
<1> HIDE DEF t2
<1>13. b \in Seq(Bytes) /\ Len(b) = Len(t2) + Len(s3)
  BY <1>11, <1>12, ConcatType
<1> HIDE DEF b
<1> DEFINE H == Len(s1)
<1>14. H \in Nat /\ Len(t2) = H + 8 /\ Len(b) = H + 8 + n * 7 * 8
  BY <1>4, <1>6, <1>9, <1>10, <1>11, <1>12, <1>13
<1> HIDE DEF H
<1>15. Len(b) < TwoTo32
  BY <1>3
<1>16. Holds(b, 0, t2) /\ Holds(b, 0 + Len(t2), s3)
  BY <1>11, <1>12, <1>13, HoldsAll, HoldsConcat DEF b
<1>17. Holds(b, 0, s1) /\ Holds(b, 0 + Len(s1), s2)
  BY <1>9, <1>10, <1>13, <1>16, HoldsConcat DEF t2
<1>18. HeaderDeserialize(b, 0) = [value |-> h, offset |-> H]
  <2>1. HeaderDeserialize(b, 0) = [value |-> h, offset |-> 0 + Len(s1)]
    BY <1>1, <1>13, <1>15, <1>17, HeaderRoundTrip DEF s1
  <2> QED BY <1>9, <2>1 DEF H
<1>19. GetSize(b, H, 8) = n
  <2>1. Holds(b, H, s2)
    BY <1>9, <1>17 DEF H
  <2> QED BY <1>4, <1>8, <1>13, <1>14, <2>1, GetOfPut DEF s2
<1>20. ASSUME NEW i \in 1..n
       PROVE  GetAll(b, H + 8 + (i - 1) * 7 * 8, 7, 8) = points[i]
  <2>1. Holds(b, H + 8, s3) /\ H + 8 \in Nat
    BY <1>14, <1>16
  <2>2. ASSUME NEW k \in 1..7
        PROVE  Get(b, H + 8 + (i - 1) * 7 * 8 + (k - 1) * 8, 8) = points[i][k]
    <3> DEFINE q == (i - 1) * 7 + k
    <3>1. q \in 1..Len(flat) /\ flat[q] = points[i][k]
      BY <1>7
    <3>2. Get(b, (H + 8) + (q - 1) * 8, 8) = flat[q]
      <4> HIDE DEF q
      <4> QED BY <1>6, <1>8, <1>13, <2>1, <3>1, GetOfPutAll DEF s3
    <3>3. (H + 8) + (q - 1) * 8 = H + 8 + (i - 1) * 7 * 8 + (k - 1) * 8
      BY <1>4, <1>14
    <3> QED BY <3>1, <3>2, <3>3
  <2>3. points[i] = [k \in 1..7 |-> points[i][k]]
    BY <1>4
  <2> QED BY <2>2, <2>3 DEF GetAll
<1>21. PathDeserialize(b)
         = [value |-> [header |-> h, points |-> points], offset |-> H + 8 + n * 7 * 8]
  <2> DEFINE header == HeaderDeserialize(b, 0)
             size == GetSize(b, header.offset, 8)
             read == [i \in 1..size |-> GetAll(b, header.offset + 8 + (i - 1) * 7 * 8, 7, 8)]
  <2>1. header.value = h /\ header.offset = H
    BY <1>18
  <2>2. PathDeserialize(b) = [value  |-> [header |-> header.value, points |-> read],
                              offset |-> header.offset + 8 + size * 7 * 8]
    BY DEF PathDeserialize, F64, SIZE_T
  <2> HIDE DEF header
  <2>3. size = n
    BY <1>19, <2>1
  <2> HIDE DEF size
  <2>4. points = [i \in 1..n |-> points[i]]
    BY <1>1 DEF n
  <2>5. read = points
    BY <1>20, <2>1, <2>3, <2>4
  <2> QED BY <2>1, <2>2, <2>3, <2>5
<1> QED BY <1>2, <1>3, <1>13, <1>14, <1>21

-----------------------------------------------------------------------------
(* PointField and PointCloud2 *)

\* PointField::deserialize finds a field wherever serialize() put it.
LEMMA PointFieldRoundTrip ==
    ASSUME NEW field \in PointFields
    PROVE  /\ PointFieldSerialize(field) \in Seq(Bytes)
           /\ Len(PointFieldSerialize(field)) > 0
           /\ \A b \in Seq(Bytes) : \A offset \in Nat :
                Len(b) < TwoTo32 /\ Holds(b, offset, PointFieldSerialize(field)) =>
                  PointFieldDeserialize(b, offset)
                    = [value |-> field, offset |-> offset + Len(PointFieldSerialize(field))]
<1> DEFINE name == field.name
           at == field.offset
           type == field.datatype
           count == field.count
           size == Len(name)
           s1 == PutSize(size)
           s2 == PutAll(name, 1)
           s3 == Put(at, 4)
           s4 == Put(type, 1)
           s5 == Put(count, 4)
           t2 == s1 \o s2
           t3 == t2 \o s3
           t4 == t3 \o s4
           t5 == t4 \o s5
<1>1. name \in Seq(Nat) /\ at \in Nat /\ type \in Nat /\ count \in Nat /\ size \in Nat
  BY DEF PointFields
<1>2. field = [name |-> name, offset |-> at, datatype |-> type, count |-> count]
  BY DEF PointFields
<1>3. PointFieldSerialize(field) = t5
  BY DEF PointFieldSerialize, U8, U32
<1> HIDE DEF name, at, type, count
<1>4. 1 \in Widths /\ 4 \in Widths
  BY DEF Widths
<1>5. s1 \in Seq(Bytes) /\ Len(s1) = 4 /\ (size < TwoTo32 => s1 = Put(size, 4))
  BY <1>1, PutSizeType
<1>6. s2 \in Seq(Bytes) /\ Len(s2) = size * 1
  BY <1>1, <1>4, PutAllType
<1>7. s3 \in Seq(Bytes) /\ Len(s3) = 4
  BY <1>1, <1>4, PutType
<1>8. s4 \in Seq(Bytes) /\ Len(s4) = 1
  BY <1>1, <1>4, PutType
<1>9. s5 \in Seq(Bytes) /\ Len(s5) = 4
  BY <1>1, <1>4, PutType
<1> HIDE DEF size, s1, s2, s3, s4, s5
<1>10. t2 \in Seq(Bytes) /\ Len(t2) = Len(s1) + Len(s2)
  BY <1>5, <1>6, ConcatType
<1> HIDE DEF t2
<1>11. t3 \in Seq(Bytes) /\ Len(t3) = Len(t2) + Len(s3)
  BY <1>7, <1>10, ConcatType
<1> HIDE DEF t3
<1>12. t4 \in Seq(Bytes) /\ Len(t4) = Len(t3) + Len(s4)
  BY <1>8, <1>11, ConcatType
<1> HIDE DEF t4
<1>13. t5 \in Seq(Bytes) /\ Len(t5) = Len(t4) + Len(s5)
  BY <1>9, <1>12, ConcatType
<1> HIDE DEF t5
<1>14. /\ Len(t2) = 4 + size /\ Len(t3) = 4 + size + 4 /\ Len(t4) = 4 + size + 4 + 1
       /\ Len(t5) = 4 + size + 4 + 1 + 4
  BY <1>1, <1>5, <1>6, <1>7, <1>8, <1>9, <1>10, <1>11, <1>12, <1>13
<1>15. ASSUME NEW b \in Seq(Bytes), NEW offset \in Nat, Len(b) < TwoTo32, Holds(b, offset, t5)
       PROVE  PointFieldDeserialize(b, offset) = [value |-> field, offset |-> offset + Len(t5)]
  <2>1. Holds(b, offset, t4) /\ Holds(b, offset + Len(t4), s5)
    BY <1>9, <1>12, <1>15, HoldsConcat DEF t5
  <2>2. Holds(b, offset, t3) /\ Holds(b, offset + Len(t3), s4)
    BY <1>8, <1>11, <2>1, HoldsConcat DEF t4
  <2>3. Holds(b, offset, t2) /\ Holds(b, offset + Len(t2), s3)
    BY <1>7, <1>10, <2>2, HoldsConcat DEF t3
  <2>4. Holds(b, offset, s1) /\ Holds(b, offset + Len(s1), s2)
    BY <1>5, <1>6, <2>3, HoldsConcat DEF t2
  <2>5. size < TwoTo32
    BY <1>1, <1>5, <1>6, <1>15, <2>4, WireFormatAssumption DEF Holds
  <2>6. GetSize(b, offset, 4) = size
    BY <1>1, <1>4, <1>5, <2>4, <2>5, GetOfPut
  <2>7. GetAll(b, offset + 4, size, 1) = name
    BY <1>1, <1>4, <1>5, <2>4, GetAllOfPutAll DEF s2, size
  <2>8. Get(b, offset + 4 + size, 4) = at
    <3>1. offset + Len(t2) = offset + 4 + size /\ offset + 4 + size \in Nat
      BY <1>1, <1>14
    <3> QED BY <1>1, <1>4, <2>3, <3>1, GetOfPut DEF s3
  <2>9. Get(b, offset + 4 + size + 4, 1) = type
    <3>1. offset + Len(t3) = offset + 4 + size + 4 /\ offset + 4 + size + 4 \in Nat
      BY <1>1, <1>14
    <3> QED BY <1>1, <1>4, <2>2, <3>1, GetOfPut DEF s4
  <2>10. Get(b, offset + 4 + size + 4 + 1, 4) = count
    <3>1. offset + Len(t4) = offset + 4 + size + 4 + 1 /\ offset + 4 + size + 4 + 1 \in Nat
      BY <1>1, <1>14
    <3> QED BY <1>1, <1>4, <2>1, <3>1, GetOfPut DEF s5
  <2>11. offset + 4 + size + 4 + 1 + 4 = offset + Len(t5)
    BY <1>1, <1>14
  <2>12. PointFieldDeserialize(b, offset)
           = [value  |-> [name |-> name, offset |-> at, datatype |-> type, count |-> count],
              offset |-> offset + 4 + size + 4 + 1 + 4]
    BY <2>6, <2>7, <2>8, <2>9, <2>10 DEF PointFieldDeserialize, U8, U32
  <2> QED BY <1>2, <2>11, <2>12
<1>16. Len(t5) > 0
  BY <1>1, <1>14
<1> QED BY <1>3, <1>13, <1>15, <1>16

\* What the loop over the fields has written after each of them.
LEMMA FieldsSerialized ==
    ASSUME NEW fields \in Seq(PointFields)
    PROVE  \E up \in [0..Len(fields) -> Seq(Bytes)] :
             /\ up[0] = <<>>
             /\ \A i \in 1..Len(fields) : /\ up[i] = up[i - 1] \o PointFieldSerialize(fields[i])
                                         /\ Len(up[i]) >= i
             /\ FieldsSerialize(fields) = up[Len(fields)]
<1> DEFINE n == Len(fields)
           Loop(f, m) == /\ f \in [0..m -> Seq(Bytes)]
                         /\ f[0] = <<>>
                         /\ \A i \in 1..m : f[i] = f[i - 1] \o PointFieldSerialize(fields[i])
                         /\ \A i \in 0..m : Len(f[i]) >= i
           upTo[i \in 0..Len(fields)] ==
               IF i = 0 THEN <<>> ELSE upTo[i - 1] \o PointFieldSerialize(fields[i])
           S == {m \in Nat : m <= n => \E f : Loop(f, m)}
<1>1. n \in Nat /\ \A i \in 1..n : fields[i] \in PointFields
  OBVIOUS
<1>2. FieldsSerialize(fields) = upTo[n]
  BY Zenon DEF FieldsSerialize
<1>3. 0 \in S
  <2>1. Loop([i \in 0..0 |-> <<>>], 0)
    OBVIOUS
  <2> HIDE DEF Loop
  <2> QED BY <2>1
<1> HIDE DEF Loop
<1>4. ASSUME NEW m \in S \cap Nat PROVE m + 1 \in S
  <2> SUFFICES ASSUME m + 1 <= n PROVE \E f : Loop(f, m + 1)
    BY <1>4
  <2>1. PICK f : Loop(f, m)
    BY <1>1, <1>4
  <2> DEFINE last == PointFieldSerialize(fields[m + 1])
             g == [i \in 0..(m + 1) |-> IF i <= m THEN f[i] ELSE f[m] \o last]
  <2>2. last \in Seq(Bytes) /\ Len(last) > 0 /\ Len(last) \in Nat
    BY <1>1, PointFieldRoundTrip
  <2> HIDE DEF last
  <2>3. f[m] \in Seq(Bytes) /\ Len(f[m]) \in Nat /\ Len(f[m]) >= m
    BY <2>1 DEF Loop
  <2>4. f[m] \o last \in Seq(Bytes) /\ Len(f[m] \o last) = Len(f[m]) + Len(last)
    BY <2>2, <2>3, ConcatType
  <2>5. Len(f[m] \o last) >= m + 1
    BY <2>2, <2>3, <2>4
  <2>6. g \in [0..(m + 1) -> Seq(Bytes)] /\ g[0] = <<>>
    BY <2>1, <2>4 DEF Loop
  <2>7. \A i \in 0..m : g[i] = f[i]
    OBVIOUS
  <2>8. g[m + 1] = f[m] \o last
    OBVIOUS
  <2> HIDE DEF g
  <2>9. ASSUME NEW i \in 1..(m + 1) PROVE g[i] = g[i - 1] \o PointFieldSerialize(fields[i])
    <3>1. CASE i = m + 1
      <4>1. g[m] = f[m] /\ i - 1 = m
        BY <2>7, <3>1
      <4> QED BY <2>8, <3>1, <4>1 DEF last
    <3>2. CASE i # m + 1
      <4>1. i \in 1..m /\ i \in 0..m /\ i - 1 \in 0..m
        BY <3>2
      <4> QED BY <2>1, <2>7, <4>1 DEF Loop
    <3> QED BY <3>1, <3>2
  <2>10. \A i \in 0..(m + 1) : Len(g[i]) >= i
    <3>1. ASSUME NEW i \in 0..m PROVE Len(g[i]) >= i
      BY <2>1, <2>7 DEF Loop
    <3>2. Len(g[m + 1]) >= m + 1
      BY <2>5, <2>8
    <3> QED BY <3>1, <3>2
  <2>11. Loop(g, m + 1)
    BY <2>6, <2>9, <2>10 DEF Loop
  <2> QED BY <2>11
<1>5. Nat \subseteq S
  <2> HIDE DEF S
  <2> QED BY <1>3, <1>4, SetInduction
<1>6. PICK f : Loop(f, n)
  <2>1. n \in S
    BY <1>1, <1>5
  <2> QED BY <1>1, <2>1
<1> HIDE DEF S
<1>7. f = [i \in 0..Len(fields) |->
              IF i = 0 THEN <<>> ELSE f[i - 1] \o PointFieldSerialize(fields[i])]
  <2>1. f \in [0..n -> Seq(Bytes)] /\ f[0] = <<>>
    BY <1>6 DEF Loop
  <2>2. \A i \in 1..n : f[i] = f[i - 1] \o PointFieldSerialize(fields[i])
    BY <1>6 DEF Loop
  <2>3. \A i \in 0..n : i = 0 \/ i \in 1..n
    BY <1>1
  <2>4. \A i \in 0..n : f[i] = IF i = 0 THEN <<>> ELSE f[i - 1] \o PointFieldSerialize(fields[i])
    BY <2>1, <2>2, <2>3, Zenon
  <2>5. f = [i \in 0..n |-> f[i]]
    BY <2>1
  <2> QED BY <2>4, <2>5, Zenon
<1>8. upTo = [i \in 0..Len(fields) |->
                 IF i = 0 THEN <<>> ELSE upTo[i - 1] \o PointFieldSerialize(fields[i])]
  BY <1>7, Zenon
<1> HIDE DEF upTo
<1> DEFINE E == {m \in Nat : m <= n => upTo[m] = f[m]}
<1>9. 0 \in E
  BY <1>1, <1>6, <1>8 DEF Loop
<1>10. ASSUME NEW m \in E \cap Nat PROVE m + 1 \in E
  <2> SUFFICES ASSUME m + 1 <= n PROVE upTo[m + 1] = f[m + 1]
    BY <1>10
  <2>1. m + 1 \in 1..n /\ m + 1 \in 0..Len(fields) /\ m + 1 # 0 /\ (m + 1) - 1 = m
    BY <1>1, <1>10
  <2>2. upTo[m + 1] = upTo[m] \o PointFieldSerialize(fields[m + 1])
    BY <1>8, <2>1
  <2>3. f[m + 1] = f[m] \o PointFieldSerialize(fields[m + 1])
    BY <1>6, <2>1 DEF Loop
  <2>4. upTo[m] = f[m]
    BY <1>1, <1>10
  <2> QED BY <2>2, <2>3, <2>4
<1>11. upTo[n] = f[n]
  <2>1. Nat \subseteq E
    <3> HIDE DEF E
    <3> QED BY <1>9, <1>10, SetInduction
  <2> QED BY <1>1, <2>1
<1>12. \A i \in 1..n : Len(f[i]) >= i
  BY <1>6 DEF Loop
<1> QED BY <1>2, <1>6, <1>11, <1>12 DEF Loop

\* The loop of PointCloud2::deserialize reads back the fields that were written.
LEMMA FieldsRoundTrip ==
    ASSUME NEW fields \in Seq(PointFields)
    PROVE  /\ FieldsSerialize(fields) \in Seq(Bytes)
           /\ Len(FieldsSerialize(fields)) >= Len(fields)
           /\ \A b \in Seq(Bytes) : \A offset \in Nat :
                Len(b) < TwoTo32 /\ Holds(b, offset, FieldsSerialize(fields)) =>
                  FieldsDeserialize(b, offset, Len(fields))
                    = [value |-> fields, offset |-> offset + Len(FieldsSerialize(fields))]
<1> DEFINE n == Len(fields)
<1>1. n \in Nat /\ \A i \in 1..n : fields[i] \in PointFields
  OBVIOUS
<1>2. PICK up \in [0..Len(fields) -> Seq(Bytes)] :
             /\ up[0] = <<>>
             /\ \A i \in 1..Len(fields) : /\ up[i] = up[i - 1] \o PointFieldSerialize(fields[i])
                                         /\ Len(up[i]) >= i
             /\ FieldsSerialize(fields) = up[Len(fields)]
  BY FieldsSerialized
<1>3. \A i \in 0..n : up[i] \in Seq(Bytes) /\ Len(up[i]) \in Nat
  BY <1>2
<1>4. FieldsSerialize(fields) \in Seq(Bytes) /\ Len(FieldsSerialize(fields)) >= n
  <2>1. up[n] \in Seq(Bytes) /\ Len(up[n]) \in Nat
    BY <1>1, <1>3
  <2>2. n = 0 \/ n \in 1..n
    BY <1>1
  <2>3. Len(up[n]) >= n
    <3>1. CASE n = 0
      <4>1. Len(up[n]) >= 0
        BY <2>1
      <4> QED BY <3>1, <4>1
    <3>2. CASE n \in 1..n
      BY <1>2, <3>2
    <3> QED BY <2>2, <3>1, <3>2
  <2> QED BY <1>2, <2>1, <2>3
<1>5. ASSUME NEW b \in Seq(Bytes), NEW offset \in Nat,
             Len(b) < TwoTo32, Holds(b, offset, FieldsSerialize(fields))
      PROVE  FieldsDeserialize(b, offset, n)
               = [value |-> fields, offset |-> offset + Len(FieldsSerialize(fields))]
  <2>1. ASSUME NEW i \in 1..n, Holds(b, offset, up[i])
        PROVE  /\ Holds(b, offset, up[i - 1])
               /\ PointFieldDeserialize(b, offset + Len(up[i - 1]))
                    = [value |-> fields[i], offset |-> offset + Len(up[i])]
    <3> DEFINE s == up[i - 1]
               t == PointFieldSerialize(fields[i])
    <3>1. s \in Seq(Bytes) /\ Len(s) \in Nat
      BY <1>1, <1>3
    <3>2. t \in Seq(Bytes) /\ Len(t) \in Nat
      BY <1>1, PointFieldRoundTrip
    <3>3. up[i] = s \o t
      BY <1>2
    <3> HIDE DEF s
    <3>4. Holds(b, offset, s) /\ Holds(b, offset + Len(s), t)
      <4> HIDE DEF t
      <4> QED BY <2>1, <3>1, <3>2, <3>3, HoldsConcat
    <3>5. PointFieldDeserialize(b, offset + Len(s))
            = [value |-> fields[i], offset |-> offset + Len(s) + Len(t)]
      <4>1. offset + Len(s) \in Nat /\ fields[i] \in PointFields
        BY <1>1, <3>1
      <4> QED BY <1>5, <3>4, <4>1, PointFieldRoundTrip
    <3>6. offset + Len(s) + Len(t) = offset + Len(up[i])
      <4> HIDE DEF t
      <4>1. Len(s \o t) = Len(s) + Len(t)
        BY <3>1, <3>2, ConcatType
      <4> QED BY <3>1, <3>2, <3>3, <4>1
    <3> QED BY <3>4, <3>5, <3>6 DEF s
  <2> DEFINE D == {m \in Nat : m <= n => Holds(b, offset, up[n - m])}
  <2>2. \A i \in 0..n : Holds(b, offset, up[i])
    <3>1. 0 \in D
      BY <1>1, <1>2, <1>5
    <3>2. ASSUME NEW m \in D \cap Nat PROVE m + 1 \in D
      <4> SUFFICES ASSUME m + 1 <= n PROVE Holds(b, offset, up[n - (m + 1)])
        BY <3>2
      <4>1. Holds(b, offset, up[n - m]) /\ n - m \in 1..n /\ n - (m + 1) = (n - m) - 1
        BY <1>1, <3>2
      <4> QED BY <2>1, <4>1
    <3>3. Nat \subseteq D
      <4> HIDE DEF D
      <4> QED BY <3>1, <3>2, SetInduction
    <3>4. ASSUME NEW i \in 0..n PROVE Holds(b, offset, up[i])
      <4> DEFINE m == n - i
      <4>1. m \in Nat /\ m <= n /\ n - m = i
        BY <1>1
      <4>2. m \in D
        BY <3>3, <4>1
      <4> HIDE DEF m
      <4> QED BY <4>1, <4>2
    <3> QED BY <3>4
  <2> HIDE DEF D
  <2> DEFINE upTo[i \in 0..n] ==
               IF i = 0
                 THEN [value |-> <<>>, offset |-> offset]
                 ELSE LET field == PointFieldDeserialize(b, upTo[i - 1].offset)
                      IN  [value  |-> Append(upTo[i - 1].value, field.value),
                           offset |-> field.offset]
             f == [i \in 0..n |-> [value |-> SubSeq(fields, 1, i), offset |-> offset + Len(up[i])]]
  <2>3. FieldsDeserialize(b, offset, n) = upTo[n]
    BY Zenon DEF FieldsDeserialize
  <2>4. ASSUME NEW i \in 1..n
        PROVE  f[i] = [value  |-> Append(f[i - 1].value,
                                         PointFieldDeserialize(b, f[i - 1].offset).value),
                       offset |-> PointFieldDeserialize(b, f[i - 1].offset).offset]
    <3>1. i \in 0..n /\ i - 1 \in 0..n
      BY <1>1
    <3>2. f[i - 1].value = SubSeq(fields, 1, i - 1) /\ f[i - 1].offset = offset + Len(up[i - 1])
      BY <3>1
    <3>3. f[i] = [value |-> SubSeq(fields, 1, i), offset |-> offset + Len(up[i])]
      BY <3>1
    <3> HIDE DEF f
    <3>4. PointFieldDeserialize(b, f[i - 1].offset)
            = [value |-> fields[i], offset |-> offset + Len(up[i])]
      BY <2>1, <2>2, <3>1, <3>2
    <3>5. SubSeq(fields, 1, i) = Append(SubSeq(fields, 1, i - 1), fields[i])
      OBVIOUS
    <3> DEFINE field == PointFieldDeserialize(b, f[i - 1].offset)
    <3>6. field.value = fields[i] /\ field.offset = offset + Len(up[i])
      BY <3>4
    <3> HIDE DEF field
    <3>7. f[i] = [value |-> Append(f[i - 1].value, field.value), offset |-> field.offset]
      BY <3>2, <3>3, <3>5, <3>6, ZenonT(30)
    <3> QED BY <3>7, ZenonT(30) DEF field
  <2>5. f[0] = [value |-> <<>>, offset |-> offset]
    <3>1. 0 \in 0..n /\ SubSeq(fields, 1, 0) = <<>>
      BY <1>1
    <3>2. offset + Len(up[0]) = offset
      BY <1>2
    <3>3. f[0] = [value |-> SubSeq(fields, 1, 0), offset |-> offset + Len(up[0])]
      BY <3>1
    <3> QED BY <3>1, <3>2, <3>3
  <2>6. f = [i \in 0..n |->
               IF i = 0
                 THEN [value |-> <<>>, offset |-> offset]
                 ELSE LET field == PointFieldDeserialize(b, f[i - 1].offset)
                      IN  [value  |-> Append(f[i - 1].value, field.value),
                           offset |-> field.offset]]
    <3>1. f = [i \in 0..n |-> f[i]]
      OBVIOUS
    <3>2. \A i \in 0..n : i = 0 \/ i \in 1..n
      BY <1>1
    <3> HIDE DEF f
    <3> QED BY <2>4, <2>5, <3>1, <3>2
  <2>7. upTo = [i \in 0..n |->
                  IF i = 0
                    THEN [value |-> <<>>, offset |-> offset]
                    ELSE LET field == PointFieldDeserialize(b, upTo[i - 1].offset)
                         IN  [value  |-> Append(upTo[i - 1].value, field.value),
                              offset |-> field.offset]]
    <3> HIDE DEF f
    <3> QED BY <2>6, Zenon
  <2> HIDE DEF upTo, f
  <2> DEFINE E == {m \in Nat : m <= n => upTo[m] = f[m]}
  <2>8. 0 \in E
    BY <1>1, <2>5, <2>7
  <2>9. ASSUME NEW m \in E \cap Nat PROVE m + 1 \in E
    <3> SUFFICES ASSUME m + 1 <= n PROVE upTo[m + 1] = f[m + 1]
      BY <2>9
    <3>1. m + 1 \in 1..n /\ m + 1 \in 0..n /\ m + 1 # 0 /\ (m + 1) - 1 = m
      BY <1>1, <2>9
    <3>2. upTo[m + 1] = [value  |-> Append(upTo[m].value,
                                           PointFieldDeserialize(b, upTo[m].offset).value),
                         offset |-> PointFieldDeserialize(b, upTo[m].offset).offset]
      BY <2>7, <3>1
    <3>3. f[m + 1] = [value  |-> Append(f[m].value,
                                        PointFieldDeserialize(b, f[m].offset).value),
                      offset |-> PointFieldDeserialize(b, f[m].offset).offset]
      BY <2>4, <3>1
    <3>4. upTo[m] = f[m]
      BY <1>1, <2>9
    <3> QED BY <3>2, <3>3, <3>4
  <2>10. upTo[n] = f[n]
    <3>1. Nat \subseteq E
      <4> HIDE DEF E
      <4> QED BY <2>8, <2>9, SetInduction
    <3> QED BY <1>1, <3>1
  <2>11. f[n] = [value |-> fields, offset |-> offset + Len(up[n])]
    <3>1. SubSeq(fields, 1, n) = fields
      BY SubSeqFull
    <3> QED BY <1>1, <3>1 DEF f
  <2> QED BY <1>2, <2>3, <2>10, <2>11
<1> QED BY <1>4, <1>5

\* PointCloud2::deserialize inverts PointCloud2::serialize, to the last byte.
THEOREM PointCloud2RoundTrip ==
    ASSUME NEW cloud \in PointClouds, Len(PointCloud2Serialize(cloud)) < TwoTo32
    PROVE  /\ PointCloud2Serialize(cloud) \in Seq(Bytes)
           /\ PointCloud2Deserialize(PointCloud2Serialize(cloud))
                = [value |-> cloud, offset |-> Len(PointCloud2Serialize(cloud))]
<1> DEFINE h == cloud.header
           height == cloud.height
           width == cloud.width
           fields == cloud.fields
           big == cloud.is_bigendian
           pstep == cloud.point_step
           rstep == cloud.row_step
           data == cloud.data
           dense == cloud.is_dense
           n == Len(fields)
           m == Len(data)
           s1 == HeaderSerialize(h)
           s2 == Put(height, 4)
           s3 == Put(width, 4)
           s4 == PutSize(n)
           s5 == FieldsSerialize(fields)
           s6 == Put(big, 1)
           s7 == Put(pstep, 4)
           s8 == Put(rstep, 4)
           s9 == PutSize(m)
           s10 == PutAll(data, 1)
           s11 == Put(dense, 1)
           t2 == s1 \o s2
           t3 == t2 \o s3
           t4 == t3 \o s4
           t5 == t4 \o s5
           t6 == t5 \o s6
           t7 == t6 \o s7
           t8 == t7 \o s8
           t9 == t8 \o s9
           t10 == t9 \o s10
           b == t10 \o s11
<1>1. /\ h \in Headers /\ height \in Nat /\ width \in Nat /\ fields \in Seq(PointFields)
      /\ big \in Nat /\ pstep \in Nat /\ rstep \in Nat /\ data \in Seq(Nat) /\ dense \in Nat
  BY DEF PointClouds
<1>2. cloud = [header |-> h, height |-> height, width |-> width, fields |-> fields,
              is_bigendian |-> big, point_step |-> pstep, row_step |-> rstep,
              data |-> data, is_dense |-> dense]
  BY DEF PointClouds
<1>3. PointCloud2Serialize(cloud) = b
  BY DEF PointCloud2Serialize, U8, BOOL, U32
<1> HIDE DEF h, height, width, fields, big, pstep, rstep, data, dense
<1>4. n \in Nat /\ m \in Nat
  BY <1>1
<1>5. 1 \in Widths /\ 4 \in Widths
  BY DEF Widths
<1>6. s1 \in Seq(Bytes) /\ Len(s1) \in Nat
  BY <1>1, HeaderRoundTrip
<1>7. s2 \in Seq(Bytes) /\ Len(s2) = 4
  BY <1>1, <1>5, PutType
<1>8. s3 \in Seq(Bytes) /\ Len(s3) = 4
  BY <1>1, <1>5, PutType
<1>9. s4 \in Seq(Bytes) /\ Len(s4) = 4 /\ (n < TwoTo32 => s4 = Put(n, 4))
  BY <1>4, PutSizeType
<1>10. s5 \in Seq(Bytes) /\ Len(s5) \in Nat /\ Len(s5) >= n
  BY <1>1, FieldsRoundTrip
<1>11. s6 \in Seq(Bytes) /\ Len(s6) = 1
  BY <1>1, <1>5, PutType
<1>12. s7 \in Seq(Bytes) /\ Len(s7) = 4
  BY <1>1, <1>5, PutType
<1>13. s8 \in Seq(Bytes) /\ Len(s8) = 4
  BY <1>1, <1>5, PutType
<1>14. s9 \in Seq(Bytes) /\ Len(s9) = 4 /\ (m < TwoTo32 => s9 = Put(m, 4))
  BY <1>4, PutSizeType
<1>15. s10 \in Seq(Bytes) /\ Len(s10) = m * 1
  BY <1>1, <1>5, PutAllType
<1>16. s11 \in Seq(Bytes) /\ Len(s11) = 1
  BY <1>1, <1>5, PutType
<1> HIDE DEF n, m, s1, s2, s3, s4, s5, s6, s7, s8, s9, s10, s11
<1>17. t2 \in Seq(Bytes) /\ Len(t2) = Len(s1) + Len(s2)
  BY <1>6, <1>7, ConcatType
<1> HIDE DEF t2
<1>18. t3 \in Seq(Bytes) /\ Len(t3) = Len(t2) + Len(s3)
  BY <1>8, <1>17, ConcatType
<1> HIDE DEF t3
<1>19. t4 \in Seq(Bytes) /\ Len(t4) = Len(t3) + Len(s4)
  BY <1>9, <1>18, ConcatType
<1> HIDE DEF t4
<1>20. t5 \in Seq(Bytes) /\ Len(t5) = Len(t4) + Len(s5)
  BY <1>10, <1>19, ConcatType
<1> HIDE DEF t5
<1>21. t6 \in Seq(Bytes) /\ Len(t6) = Len(t5) + Len(s6)
  BY <1>11, <1>20, ConcatType
<1> HIDE DEF t6
<1>22. t7 \in Seq(Bytes) /\ Len(t7) = Len(t6) + Len(s7)
  BY <1>12, <1>21, ConcatType
<1> HIDE DEF t7
<1>23. t8 \in Seq(Bytes) /\ Len(t8) = Len(t7) + Len(s8)
  BY <1>13, <1>22, ConcatType
<1> HIDE DEF t8
<1>24. t9 \in Seq(Bytes) /\ Len(t9) = Len(t8) + Len(s9)
  BY <1>14, <1>23, ConcatType
<1> HIDE DEF t9
<1>25. t10 \in Seq(Bytes) /\ Len(t10) = Len(t9) + Len(s10)
  BY <1>15, <1>24, ConcatType
<1> HIDE DEF t10
<1>26. b \in Seq(Bytes) /\ Len(b) = Len(t10) + Len(s11)
  BY <1>16, <1>25, ConcatType
<1> HIDE DEF b
<1> DEFINE H == Len(s1)
           F == Len(s5)
           o2 == H + 12 + F
<1>27. /\ H \in Nat /\ F \in Nat /\ o2 \in Nat
       /\ Len(t2) = H + 4
       /\ Len(t3) = H + 8
       /\ Len(t4) = H + 12
       /\ Len(t5) = o2
       /\ Len(t6) = o2 + 1
       /\ Len(t7) = o2 + 1 + 4
       /\ Len(t8) = o2 + 9
       /\ Len(t9) = o2 + 9 + 4
       /\ Len(t10) = o2 + 9 + 4 + m
       /\ Len(b) = o2 + 9 + 4 + m + 1
  BY <1>4, <1>6, <1>7, <1>8, <1>9, <1>10, <1>11, <1>12, <1>13, <1>14, <1>15, <1>16, <1>17, <1>18, <1>19, <1>20, <1>21, <1>22, <1>23, <1>24, <1>25, <1>26
<1> HIDE DEF H, F, o2
<1>28. Len(b) < TwoTo32
  BY <1>3
<1>29. Holds(b, 0, t10) /\ Holds(b, 0 + Len(t10), s11)
  BY <1>16, <1>25, <1>26, HoldsAll, HoldsConcat DEF b
<1>30. Holds(b, 0, t9) /\ Holds(b, 0 + Len(t9), s10)
  BY <1>15, <1>24, <1>26, <1>29, HoldsConcat DEF t10
<1>31. Holds(b, 0, t8) /\ Holds(b, 0 + Len(t8), s9)
  BY <1>14, <1>23, <1>26, <1>30, HoldsConcat DEF t9
<1>32. Holds(b, 0, t7) /\ Holds(b, 0 + Len(t7), s8)
  BY <1>13, <1>22, <1>26, <1>31, HoldsConcat DEF t8
<1>33. Holds(b, 0, t6) /\ Holds(b, 0 + Len(t6), s7)
  BY <1>12, <1>21, <1>26, <1>32, HoldsConcat DEF t7
<1>34. Holds(b, 0, t5) /\ Holds(b, 0 + Len(t5), s6)
  BY <1>11, <1>20, <1>26, <1>33, HoldsConcat DEF t6
<1>35. Holds(b, 0, t4) /\ Holds(b, 0 + Len(t4), s5)
  BY <1>10, <1>19, <1>26, <1>34, HoldsConcat DEF t5
<1>36. Holds(b, 0, t3) /\ Holds(b, 0 + Len(t3), s4)
  BY <1>9, <1>18, <1>26, <1>35, HoldsConcat DEF t4
<1>37. Holds(b, 0, t2) /\ Holds(b, 0 + Len(t2), s3)
  BY <1>8, <1>17, <1>26, <1>36, HoldsConcat DEF t3
<1>38. Holds(b, 0, s1) /\ Holds(b, 0 + Len(s1), s2)
  BY <1>6, <1>7, <1>26, <1>37, HoldsConcat DEF t2
<1>39. HeaderDeserialize(b, 0) = [value |-> h, offset |-> H]
  <2>1. HeaderDeserialize(b, 0) = [value |-> h, offset |-> 0 + Len(s1)]
    BY <1>1, <1>26, <1>28, <1>38, HeaderRoundTrip DEF s1
  <2> QED BY <1>6, <2>1 DEF H
<1>40. Get(b, H, 4) = height
  <2>1. Holds(b, H, s2) /\ H \in Nat
    BY <1>4, <1>27, <1>38 DEF H
  <2> QED BY <1>1, <1>5, <1>26, <2>1, GetOfPut DEF s2
<1>41. Get(b, H + 4, 4) = width
  <2>1. Holds(b, H + 4, s3) /\ H + 4 \in Nat
    BY <1>4, <1>27, <1>37 DEF H
  <2> QED BY <1>1, <1>5, <1>26, <2>1, GetOfPut DEF s3
<1>42. GetSize(b, H + 8, 4) = n
  <2>1. Holds(b, H + 8, s4) /\ H + 8 \in Nat
    BY <1>4, <1>27, <1>36 DEF H
  <2>2. n < TwoTo32
    BY <1>4, <1>10, <1>27, <1>28, WireFormatAssumption DEF F, o2
  <2> QED BY <1>4, <1>5, <1>9, <1>26, <2>1, <2>2, GetOfPut
<1>43. FieldsDeserialize(b, H + 12, n) = [value |-> fields, offset |-> o2]
  <2>1. Holds(b, H + 12, s5) /\ H + 12 \in Nat
    BY <1>4, <1>27, <1>35 DEF H
  <2>2. FieldsDeserialize(b, H + 12, n) = [value |-> fields, offset |-> H + 12 + F]
    BY <1>1, <1>26, <1>28, <2>1, FieldsRoundTrip DEF s5, n, F
  <2> QED BY <2>2 DEF o2
<1>44. Get(b, o2, 1) = big
  <2>1. Holds(b, o2, s6) /\ o2 \in Nat
    BY <1>4, <1>27, <1>34 DEF H
  <2> QED BY <1>1, <1>5, <1>26, <2>1, GetOfPut DEF s6
<1>45. Get(b, o2 + 1, 4) = pstep
  <2>1. Holds(b, o2 + 1, s7) /\ o2 + 1 \in Nat
    BY <1>4, <1>27, <1>33 DEF H
  <2> QED BY <1>1, <1>5, <1>26, <2>1, GetOfPut DEF s7
<1>46. Get(b, o2 + 1 + 4, 4) = rstep
  <2>1. Holds(b, o2 + 1 + 4, s8) /\ o2 + 1 + 4 \in Nat
    BY <1>4, <1>27, <1>32 DEF H
  <2> QED BY <1>1, <1>5, <1>26, <2>1, GetOfPut DEF s8
<1>47. GetSize(b, o2 + 9, 4) = m
  <2>1. Holds(b, o2 + 9, s9) /\ o2 + 9 \in Nat
    BY <1>4, <1>27, <1>31 DEF H
  <2>2. m < TwoTo32
    BY <1>4, <1>15, <1>27, <1>28, WireFormatAssumption DEF F, o2
  <2> QED BY <1>4, <1>5, <1>14, <1>26, <2>1, <2>2, GetOfPut
<1>48. GetAll(b, o2 + 9 + 4, m, 1) = data
  <2>1. Holds(b, o2 + 9 + 4, s10) /\ o2 + 9 + 4 \in Nat
    BY <1>4, <1>27, <1>30 DEF H
  <2> QED BY <1>1, <1>5, <1>26, <2>1, GetAllOfPutAll DEF s10, m
<1>49. Get(b, o2 + 9 + 4 + m, 1) = dense
  <2>1. Holds(b, o2 + 9 + 4 + m, s11) /\ o2 + 9 + 4 + m \in Nat
    BY <1>4, <1>27, <1>29 DEF H
  <2> QED BY <1>1, <1>5, <1>26, <2>1, GetOfPut DEF s11
<1>50. PointCloud2Deserialize(b)
         = [value  |-> [header |-> h, height |-> height, width |-> width, fields |-> fields,
                       is_bigendian |-> big, point_step |-> pstep, row_step |-> rstep,
                       data |-> data, is_dense |-> dense],
            offset |-> o2 + 9 + 4 + m + 1]
  <2> DEFINE header == HeaderDeserialize(b, 0)
             o1 == header.offset
             size == GetSize(b, o1 + 8, 4)
             read == FieldsDeserialize(b, o1 + 12, size)
             p2 == read.offset
             p3 == p2 + 1 + 8
             bytes == GetSize(b, p3, 4)
             p4 == p3 + 4 + bytes
  <2>1. PointCloud2Deserialize(b)
          = [value  |-> [header       |-> header.value,
                         height       |-> Get(b, o1, 4),
                         width        |-> Get(b, o1 + 4, 4),
                         fields       |-> read.value,
                         is_bigendian |-> Get(b, p2, 1),
                         point_step   |-> Get(b, p2 + 1, 4),
                         row_step     |-> Get(b, p2 + 1 + 4, 4),
                         data         |-> GetAll(b, p3 + 4, bytes, 1),
                         is_dense     |-> Get(b, p4, 1)],
             offset |-> p4 + 1]
    BY DEF PointCloud2Deserialize, U8, BOOL, U32
  <2>2. header.value = h /\ o1 = H
    BY <1>39
  <2> HIDE DEF header, o1
  <2>3. size = n
    BY <1>42, <2>2
  <2> HIDE DEF size
  <2>4. read.value = fields /\ p2 = o2
    BY <1>43, <2>2, <2>3
  <2> HIDE DEF read, p2
  <2>5. p3 = o2 + 9
    BY <1>27, <2>4
  <2> HIDE DEF p3
  <2>6. bytes = m
    BY <1>47, <2>5
  <2> HIDE DEF bytes
  <2>7. p4 = o2 + 9 + 4 + m
    BY <2>5, <2>6
  <2> HIDE DEF p4
  <2> QED BY <1>40, <1>41, <1>44, <1>45, <1>46, <1>48, <1>49,
             <2>1, <2>2, <2>4, <2>5, <2>6, <2>7
<1> QED BY <1>2, <1>3, <1>26, <1>27, <1>50

-----------------------------------------------------------------------------
(* The bridge *)

\* What a round of the sender writes to a connection: the length, the data.
Size(k) == PutSize(Len(Serialize(k)))
Frame(k) == Size(k) \o Serialize(k)

\* One connection as the bridge finds it in its backlog.
Stream == [bytes : Seq(Bytes), eof : BOOLEAN]

\* A stream carries the beginning of one frame, cut between its writes; unless
\* the sender died, only the stream a thread is writing to is cut.
Carries(k) ==
    \A i \in 1..Len(conns[k]) :
      /\ conns[k][i].bytes \in {<<>>, Size(k), Frame(k)}
      /\ conns[k][i].bytes = Frame(k) \/ crashes > 0 \/ (socket[k] /\ i = Len(conns[k]))

\* The messages are the sender's and every port carries its own kind.
StreamInv ==
    /\ msgs \in Messages
    /\ conns \in [Kinds -> Seq(Stream)]
    /\ \A k \in Kinds : Carries(k)

\* A thread with a socket has written what its place in the round says.  The
\* threads die together.
Written(k) ==
    socket[k] =>
      /\ spc[k] = "length" => conns[k][Len(conns[k])].bytes = <<>>
      /\ spc[k] = "data" => conns[k][Len(conns[k])].bytes = Size(k)
      /\ spc[k] \in {"sleep", "connect"} => conns[k][Len(conns[k])].bytes = Frame(k)
      /\ spc[k] # "dead"

\* The threads of the sender.
SocketInv ==
    /\ \A k \in Kinds : Written(k)
    /\ \A j, k \in Kinds : spc[j] = "dead" => spc[k] = "dead"

\* A read waits at a stream, and the length it has read is the one sent.
ReadInv ==
    phase = "receiving" =>
      /\ rpc \in {"length", "data"} => conns[turn] # <<>>
      /\ rpc = "data" => /\ length = Len(Serialize(turn))
                         /\ Len(Head(conns[turn]).bytes) >= 4

\* The kinds whose turn is over have been received, and nothing is published
\* before all have.
BufferInv ==
    /\ buffer = [k \in Kinds |-> buffer[k]]
    /\ \A k \in Kinds :
         /\ buffer[k] \in {None, Serialize(k)}
         /\ phase = "receiving" /\ k < turn => buffer[k] = Serialize(k)
         /\ phase \in {"serving", "stopped"} => buffer[k] = Serialize(k)
    /\ published # {} => phase \in {"serving", "stopped"}

\* The inductive invariant.
BridgeInv == TypeOK /\ StreamInv /\ SocketInv /\ ReadInv /\ BufferInv /\ TerminatedByCrash

\* The frame of a message, and what the bridge's two reads make of its beginning.
LEMMA FrameFacts ==
    ASSUME msgs \in Messages, NEW k \in Kinds
    PROVE  /\ Serialize(k) \in Seq(Bytes) /\ Len(Serialize(k)) \in Nat
           /\ Len(Serialize(k)) < TwoTo32
           /\ Size(k) \in Seq(Bytes) /\ Len(Size(k)) = 4
           /\ Frame(k) \in Seq(Bytes) /\ Len(Frame(k)) = 4 + Len(Serialize(k))
           /\ \A bytes \in {<<>>, Size(k), Frame(k)} :
                /\ Len(bytes) >= 4 => GetSize(bytes, 0, 4) = Len(Serialize(k))
                /\ Len(bytes) >= 4 + Len(Serialize(k)) =>
                     SubSeq(bytes, 5, 4 + Len(Serialize(k))) = Serialize(k)
<1>1. /\ msgs[1] \in LaserScans /\ Len(LaserScanSerialize(msgs[1])) < TwoTo32
      /\ msgs[2] \in PointClouds /\ Len(PointCloud2Serialize(msgs[2])) < TwoTo32
      /\ msgs[3] \in Paths /\ Len(PathSerialize(msgs[3])) < TwoTo32
  BY MessagesAssumption
<1>2. k = 1 \/ k = 2 \/ k = 3
  BY DEF Kinds
<1>3. Serialize(k) \in Seq(Bytes) /\ Len(Serialize(k)) < TwoTo32
  <2>1. CASE k = 1
    BY <1>1, <2>1, LaserScanRoundTrip DEF Serialize
  <2>2. CASE k = 2
    BY <1>1, <2>2, PointCloud2RoundTrip DEF Serialize
  <2>3. CASE k = 3
    BY <1>1, <2>3, PathRoundTrip DEF Serialize
  <2> QED BY <1>2, <2>1, <2>2, <2>3
<1> DEFINE data == Serialize(k)
           n == Len(data)
           size == Size(k)
<1>4. n \in Nat
  BY <1>3
<1>5. size \in Seq(Bytes) /\ Len(size) = 4 /\ size = Put(n, 4)
  BY <1>3, <1>4, PutSizeType DEF Size
<1>6. Frame(k) = size \o data
  BY DEF Frame
<1>7. data \in Seq(Bytes) /\ n < TwoTo32
  BY <1>3
<1> HIDE DEF data, n, size
<1>8. Frame(k) \in Seq(Bytes) /\ Len(Frame(k)) = Len(size) + Len(data)
  BY <1>5, <1>6, <1>7, ConcatType
<1>9. Len(Frame(k)) = 4 + n
  BY <1>4, <1>5, <1>8 DEF n
<1>10. Holds(size, 0, size) /\ Holds(Frame(k), 0, size) /\ Holds(Frame(k), 0 + Len(size), data)
  <2>1. Holds(size, 0, size) /\ Holds(Frame(k), 0, Frame(k))
    BY <1>5, <1>8, HoldsAll
  <2>2. Holds(Frame(k), 0, size \o data)
    BY <1>6, <2>1
  <2> QED BY <1>5, <1>7, <1>8, <2>1, <2>2, HoldsConcat
<1>11. 4 \in Widths
  BY DEF Widths
<1>12. GetSize(size, 0, 4) = n /\ GetSize(Frame(k), 0, 4) = n
  BY <1>4, <1>5, <1>8, <1>10, <1>11, GetOfPut
<1>13. SubSeq(Frame(k), 5, 4 + n) = data
  <2>1. /\ SubSeq(Frame(k), 5, 4 + n) \in Seq(Bytes)
        /\ Len(SubSeq(Frame(k), 5, 4 + n)) = n
        /\ \A j \in 1..n : SubSeq(Frame(k), 5, 4 + n)[j] = Frame(k)[4 + j]
    BY <1>4, <1>8, <1>9
  <2>2. \A j \in 1..n : Frame(k)[4 + j] = data[j]
    BY <1>4, <1>5, <1>10 DEF Holds, n
  <2>3. \A j \in 1..n : SubSeq(Frame(k), 5, 4 + n)[j] = data[j]
    BY <2>1, <2>2
  <2> QED BY <1>7, <2>1, <2>3, SeqEqual DEF n
<1>14. ASSUME 4 >= 4 + n PROVE SubSeq(size, 5, 4 + n) = data
  <2>1. n = 0
    BY <1>4, <1>14
  <2>2. data = <<>> /\ SubSeq(size, 5, 4 + 0) = <<>>
    BY <1>5, <1>7, <2>1 DEF n
  <2> QED BY <2>1, <2>2
<1>15. ASSUME NEW bytes \in {<<>>, size, Frame(k)}
       PROVE  /\ Len(bytes) >= 4 => GetSize(bytes, 0, 4) = n
              /\ Len(bytes) >= 4 + n => SubSeq(bytes, 5, 4 + n) = data
  <2>1. CASE bytes = <<>>
    BY <1>4, <2>1
  <2>2. CASE bytes = size
    BY <1>5, <1>12, <1>14, <2>2
  <2>3. CASE bytes = Frame(k)
    BY <1>12, <1>13, <2>3
  <2> QED BY <2>1, <2>2, <2>3
<1> QED BY <1>4, <1>5, <1>7, <1>8, <1>9, <1>15 DEF data, n, size

\* The messages do not change, so neither does what is sent.
LEMMA FrameStays ==
    ASSUME msgs' = msgs
    PROVE  \A k \in Kinds : /\ Serialize(k)' = Serialize(k)
                            /\ Size(k)' = Size(k)
                            /\ Frame(k)' = Frame(k)
BY DEF Serialize, Size, Frame

\* Closing a socket changes nothing that was written.
LEMMA HangUpKeepsBytes ==
    ASSUME TypeOK, StreamInv, NEW k \in Kinds
    PROVE  /\ HangUp(k) \in Seq(Stream)
           /\ Len(HangUp(k)) = Len(conns[k])
           /\ \A i \in 1..Len(conns[k]) : HangUp(k)[i].bytes = conns[k][i].bytes
<1> DEFINE s == conns[k]
           n == Len(s)
<1>1. s \in Seq(Stream) /\ n \in Nat
  BY DEF StreamInv
<1>2. CASE ~socket[k]
  BY <1>1, <1>2 DEF HangUp
<1>3. CASE socket[k]
  <2>1. s # <<>>
    BY <1>3 DEF TypeOK
  <2>2. n \in 1..n /\ s[n] \in Stream
    <3> HIDE DEF s
    <3> QED BY <1>1, <2>1
  <2> DEFINE last == [s[n] EXCEPT !.eof = TRUE]
  <2>3. last \in Stream /\ last.bytes = s[n].bytes
    BY <2>2 DEF Stream
  <2>4. HangUp(k) = [s EXCEPT ![n] = last]
    BY <1>3 DEF HangUp
  <2> HIDE DEF last, s
  <2>5. /\ [s EXCEPT ![n] = last] \in Seq(Stream)
        /\ Len([s EXCEPT ![n] = last]) = Len(s)
        /\ \A j \in 1..Len(s) : [s EXCEPT ![n] = last][j] = IF j = n THEN last ELSE s[j]
    BY <1>1, <2>2, <2>3, ExceptSeq
  <2>6. \A i \in 1..Len(s) : HangUp(k)[i].bytes = s[i].bytes
    BY <2>3, <2>4, <2>5
  <2> QED BY <2>4, <2>5, <2>6 DEF s
<1> QED BY <1>2, <1>3

\* A write to a socket adds to the last stream of its port.
LEMMA WriteAppends ==
    ASSUME TypeOK, StreamInv, NEW k \in Kinds, socket[k], NEW bytes \in Seq(Bytes),
           conns' = [conns EXCEPT ![k][Len(conns[k])].bytes = @ \o bytes]
    PROVE  /\ conns' \in [Kinds -> Seq(Stream)]
           /\ Len(conns'[k]) = Len(conns[k]) /\ Len(conns[k]) \in Nat \ {0}
           /\ conns'[k][Len(conns[k])].bytes = conns[k][Len(conns[k])].bytes \o bytes
           /\ conns'[k][Len(conns[k])].eof = conns[k][Len(conns[k])].eof
           /\ \A i \in 1..Len(conns[k]) : i # Len(conns[k]) => conns'[k][i] = conns[k][i]
           /\ \A j \in Kinds : j # k => conns'[j] = conns[j]
<1> DEFINE s == conns[k]
           n == Len(s)
           last == [s[n] EXCEPT !.bytes = @ \o bytes]
<1>1. conns \in [Kinds -> Seq(Stream)] /\ s \in Seq(Stream) /\ n \in Nat /\ s # <<>>
  BY DEF StreamInv, TypeOK
<1>2. n \in 1..n /\ s[n] \in Stream /\ n # 0
  <2> HIDE DEF s
  <2> QED BY <1>1
<1>3. s[n].bytes \in Seq(Bytes) /\ s[n].bytes \o bytes \in Seq(Bytes)
  BY <1>2, ConcatType DEF Stream
<1>4. last \in Stream /\ last.bytes = s[n].bytes \o bytes /\ last.eof = s[n].eof
  BY <1>2, <1>3 DEF Stream
<1>5. conns' = [conns EXCEPT ![k] = [s EXCEPT ![n] = last]]
  OBVIOUS
<1> HIDE DEF last
<1>6. /\ [s EXCEPT ![n] = last] \in Seq(Stream)
      /\ Len([s EXCEPT ![n] = last]) = Len(s)
      /\ \A j \in 1..Len(s) : [s EXCEPT ![n] = last][j] = IF j = n THEN last ELSE s[j]
  <2> HIDE DEF s
  <2> QED BY <1>1, <1>2, <1>4, ExceptSeq
<1>7. conns'[k] = [s EXCEPT ![n] = last] /\ \A j \in Kinds : j # k => conns'[j] = conns[j]
  BY <1>1, <1>5
<1>8. conns' \in [Kinds -> Seq(Stream)]
  BY <1>1, <1>5, <1>6
<1> QED BY <1>2, <1>1, <1>4, <1>6, <1>7, <1>8

\* The sender touches nothing of the bridge but the streams, to which it adds.
LEMMA SenderLeavesBridge ==
    ASSUME BridgeInv, UNCHANGED <<msgs, bridgeVars>>, conns' \in [Kinds -> Seq(Stream)],
           \A j \in Kinds : conns[j] # <<>> =>
              conns'[j] # <<>> /\ Len(conns'[j][1].bytes) >= Len(conns[j][1].bytes)
    PROVE  ReadInv' /\ BufferInv'
<1>1. \A k \in Kinds : Serialize(k)' = Serialize(k)
  BY FrameStays
<1>2. BufferInv'
  BY <1>1 DEF BridgeInv, BufferInv, bridgeVars
<1>3. turn \in Kinds /\ turn' = turn /\ phase' = phase /\ rpc' = rpc /\ length' = length
  BY DEF BridgeInv, TypeOK, bridgeVars
<1>4. Serialize(turn)' = Serialize(turn)
  BY <1>3, FrameStays DEF Serialize
<1>5. ASSUME phase = "receiving", rpc \in {"length", "data"}
      PROVE  /\ conns'[turn] # <<>>
             /\ rpc = "data" => Len(Head(conns'[turn]).bytes) >= 4
  <2>1. conns[turn] # <<>> /\ (rpc = "data" => Len(Head(conns[turn]).bytes) >= 4)
    BY <1>5 DEF BridgeInv, ReadInv
  <2>2. conns[turn] \in Seq(Stream) /\ conns'[turn] \in Seq(Stream)
    BY <1>3 DEF BridgeInv, StreamInv
  <2>3. conns'[turn] # <<>> /\ Len(conns'[turn][1].bytes) >= Len(conns[turn][1].bytes)
    BY <1>3, <2>1
  <2>4. Head(conns'[turn]) = conns'[turn][1] /\ Head(conns[turn]) = conns[turn][1]
    BY <2>1, <2>2, <2>3
  <2>5. conns[turn][1] \in Stream /\ conns'[turn][1] \in Stream
    BY <2>1, <2>2, <2>3
  <2>6. Len(conns[turn][1].bytes) \in Nat /\ Len(conns'[turn][1].bytes) \in Nat
    BY <2>5 DEF Stream
  <2> QED BY <2>1, <2>3, <2>4, <2>6
<1>6. ReadInv'
  BY <1>3, <1>4, <1>5 DEF BridgeInv, ReadInv
<1> QED BY <1>2, <1>6

\* A step of one thread of the sender concerns the port of its kind only.
LEMMA OnePort ==
    ASSUME BridgeInv, UNCHANGED <<msgs, bridgeVars, crashes>>, NEW k \in Kinds,
           conns' \in [Kinds -> Seq(Stream)], socket' \in [Kinds -> BOOLEAN],
           spc' \in [Kinds -> {"connect", "length", "data", "sleep"}],
           \A j \in Kinds : j # k => /\ conns'[j] = conns[j]
                                    /\ socket'[j] = socket[j]
                                    /\ spc'[j] = spc[j],
           conns[k] # <<>> =>
             conns'[k] # <<>> /\ Len(conns'[k][1].bytes) >= Len(conns[k][1].bytes),
           socket'[k] => conns'[k] # <<>> /\ ~conns'[k][Len(conns'[k])].eof,
           conns'[k] # <<>> => Listening(k),
           Carries(k)', Written(k)'
    PROVE  BridgeInv'
<1>0. \A j \in Kinds : conns[j] # <<>> =>
         conns'[j] # <<>> /\ Len(conns'[j][1].bytes) >= Len(conns[j][1].bytes)
  <2> SUFFICES ASSUME NEW j \in Kinds, j # k, conns[j] # <<>>
               PROVE  Len(conns[j][1].bytes) >= Len(conns[j][1].bytes)
    OBVIOUS
  <2>1. conns[j] \in Seq(Stream)
    BY DEF BridgeInv, StreamInv
  <2>2. conns[j][1] \in Stream
    BY <2>1
  <2>3. Len(conns[j][1].bytes) \in Nat
    BY <2>2 DEF Stream
  <2> QED BY <2>3
<1>1. ReadInv' /\ BufferInv'
  BY <1>0, SenderLeavesBridge
<1>2. \A j \in Kinds : Size(j)' = Size(j) /\ Frame(j)' = Frame(j)
  BY FrameStays
<1>3. \A j \in Kinds : Carries(j)' /\ Written(j)'
  <2> SUFFICES ASSUME NEW j \in Kinds, j # k PROVE Carries(j)' /\ Written(j)'
    OBVIOUS
  <2>1. Carries(j) /\ Written(j)
    BY DEF BridgeInv, StreamInv, SocketInv
  <2>2. Carries(j)'
    BY <1>2, <2>1 DEF Carries
  <2>3. Written(j)'
    BY <1>2, <2>1 DEF Written
  <2> QED BY <2>2, <2>3
<1>4. StreamInv' /\ SocketInv'
  BY <1>3 DEF BridgeInv, StreamInv, SocketInv
<1>5. running' \in BOOLEAN
  BY Zenon DEF BridgeInv, TypeOK, bridgeVars
<1>6. \A j \in Kinds : socket'[j] => conns'[j] # <<>> /\ ~conns'[j][Len(conns'[j])].eof
  BY DEF BridgeInv, TypeOK
<1>7. \A j \in Kinds : Listening(j)' <=> Listening(j)
  BY DEF Listening, bridgeVars
<1>8. \A j \in Kinds : conns'[j] # <<>> => Listening(j)'
  BY <1>7 DEF BridgeInv, TypeOK
<1>9. spc' \in [Kinds -> {"connect", "length", "data", "sleep", "dead"}]
  OBVIOUS
<1>10. TypeOK'
  BY <1>5, <1>6, <1>8, <1>9 DEF BridgeInv, TypeOK, bridgeVars
<1>11. TerminatedByCrash'
  BY DEF BridgeInv, TerminatedByCrash, bridgeVars
<1> QED BY <1>1, <1>4, <1>10, <1>11 DEF BridgeInv

\* A thread of the sender that takes a step is alive, and so are the others.
LEMMA ThreadsAlive ==
    ASSUME BridgeInv, NEW k \in Kinds, spc[k] # "dead",
           NEW pc \in {"connect", "length", "data", "sleep"}, spc' = [spc EXCEPT ![k] = pc]
    PROVE  /\ spc' \in [Kinds -> {"connect", "length", "data", "sleep"}]
           /\ spc'[k] = pc
           /\ \A j \in Kinds : j # k => spc'[j] = spc[j]
<1>1. spc \in [Kinds -> {"connect", "length", "data", "sleep", "dead"}]
  BY DEF BridgeInv, TypeOK
<1>2. \A j \in Kinds : spc[j] # "dead"
  BY DEF BridgeInv, SocketInv
<1> QED BY <1>1, <1>2

\* Connecting keeps the invariant: the stream left behind is complete, the new
\* one is empty.
LEMMA ConnectKeepsInv ==
    ASSUME BridgeInv, NEW k \in Kinds, SendConnect(k)
    PROVE  BridgeInv'
<1> DEFINE s == conns[k]
           n == Len(s)
<1>1. /\ TypeOK /\ StreamInv /\ Carries(k) /\ Written(k)
      /\ conns \in [Kinds -> Seq(Stream)] /\ s \in Seq(Stream) /\ n \in Nat
      /\ socket \in [Kinds -> BOOLEAN]
  BY DEF BridgeInv, TypeOK, StreamInv, SocketInv
<1>2. UNCHANGED <<msgs, bridgeVars, crashes>> /\ spc[k] = "connect"
  BY DEF SendConnect
<1>3. Size(k)' = Size(k) /\ Frame(k)' = Frame(k)
  BY <1>2, FrameStays
<1>4. CASE ~Listening(k)
  <2>1. s = <<>> /\ ~socket[k]
    BY <1>1, <1>4 DEF TypeOK
  <2>2. /\ conns' = [conns EXCEPT ![k] = HangUp(k)] /\ socket' = [socket EXCEPT ![k] = FALSE]
        /\ spc' = [spc EXCEPT ![k] = "sleep"]
    BY <1>4 DEF SendConnect
  <2>3. HangUp(k) = conns[k]
    BY <2>1 DEF HangUp
  <2>4. conns' = conns /\ socket' = socket
    BY <1>1, <2>1, <2>2, <2>3
  <2>5. /\ spc' \in [Kinds -> {"connect", "length", "data", "sleep"}]
        /\ \A j \in Kinds : j # k => spc'[j] = spc[j]
    BY <1>2, <2>2, ThreadsAlive
  <2>6. Carries(k)' /\ Written(k)'
    BY <2>1, <2>4 DEF Carries, Written
  <2> HIDE DEF s, n
  <2>7. conns'[k] = <<>> /\ conns[k] = <<>> /\ ~socket'[k]
    BY <2>1, <2>4 DEF s
  <2> QED BY <1>1, <1>2, <2>4, <2>5, <2>6, <2>7, OnePort
<1>5. CASE Listening(k)
  <2> DEFINE new == [bytes |-> <<>>, eof |-> FALSE]
             t == HangUp(k)
  <2>1. /\ conns' = [conns EXCEPT ![k] = Append(t, new)]
        /\ socket' = [socket EXCEPT ![k] = TRUE] /\ spc' = [spc EXCEPT ![k] = "length"]
    BY <1>5 DEF SendConnect
  <2>2. t \in Seq(Stream) /\ Len(t) = n /\ \A i \in 1..n : t[i].bytes = s[i].bytes
    BY <1>1, HangUpKeepsBytes
  <2>3. new \in Stream
    BY DEF Stream
  <2>4. new.bytes = <<>> /\ ~new.eof
    OBVIOUS
  <2> HIDE DEF new, t
  <2>5. /\ Append(t, new) \in Seq(Stream) /\ Append(t, new) # <<>>
        /\ Len(Append(t, new)) = n + 1 /\ Append(t, new)[n + 1] = new
        /\ \A i \in 1..n : Append(t, new)[i] = t[i]
    <3>1. /\ Append(t, new) \in Seq(Stream) /\ Append(t, new) # <<>>
          /\ Len(Append(t, new)) = Len(t) + 1 /\ Append(t, new)[Len(t) + 1] = new
          /\ \A i \in 1..Len(t) : Append(t, new)[i] = t[i]
      BY <2>2, <2>3, AppendProperties
    <3> QED BY <2>2, <3>1
  <2>6. /\ conns' \in [Kinds -> Seq(Stream)] /\ conns'[k] = Append(t, new)
        /\ \A j \in Kinds : j # k => conns'[j] = conns[j]
    BY <1>1, <2>1, <2>5
  <2>7. /\ socket' \in [Kinds -> BOOLEAN] /\ socket'[k]
        /\ \A j \in Kinds : j # k => socket'[j] = socket[j]
    BY <1>1, <2>1
  <2>8. /\ spc' \in [Kinds -> {"connect", "length", "data", "sleep"}] /\ spc'[k] = "length"
        /\ \A j \in Kinds : j # k => spc'[j] = spc[j]
    BY <1>2, <2>1, ThreadsAlive
  <2>9. ASSUME NEW i \in 1..n
        PROVE  /\ conns'[k][i].bytes = s[i].bytes
               /\ s[i].bytes \in {<<>>, Size(k), Frame(k)}
               /\ s[i].bytes = Frame(k) \/ crashes > 0
    <3>1. conns'[k][i].bytes = s[i].bytes
      BY <2>2, <2>5, <2>6
    <3>2. /\ s[i].bytes \in {<<>>, Size(k), Frame(k)}
          /\ s[i].bytes = Frame(k) \/ crashes > 0 \/ (socket[k] /\ i = n)
      BY <1>1 DEF Carries
    <3>3. socket[k] => s[n].bytes = Frame(k)
      BY <1>1, <1>2 DEF Written
    <3> QED BY <3>1, <3>2, <3>3
  <2>10. conns'[k][n + 1].bytes = <<>> /\ ~conns'[k][n + 1].eof /\ Len(conns'[k]) = n + 1
    BY <2>4, <2>5, <2>6
  <2> HIDE DEF s, n
  <2>11. Carries(k)'
    <3>1. ASSUME NEW i \in 1..(n + 1)
          PROVE  /\ conns'[k][i].bytes \in {<<>>, Size(k), Frame(k)}
                 /\ conns'[k][i].bytes = Frame(k) \/ crashes > 0 \/ i = n + 1
      <4>1. CASE i = n + 1
        BY <2>10, <4>1
      <4>2. CASE i \in 1..n
        BY <2>9, <4>2
      <4> QED BY <1>1, <4>1, <4>2
    <3> QED BY <1>2, <1>3, <2>7, <2>10, <3>1 DEF Carries
  <2>12. Written(k)'
    BY <2>8, <2>10 DEF Written
  <2>13. ASSUME conns[k] # <<>>
         PROVE  conns'[k] # <<>> /\ Len(conns'[k][1].bytes) >= Len(conns[k][1].bytes)
    <3>1. 1 \in 1..n /\ s[1] \in Stream
      BY <1>1, <2>13 DEF s, n
    <3>2. Len(s[1].bytes) \in Nat
      BY <3>1 DEF Stream
    <3> QED BY <2>5, <2>6, <2>9, <3>1, <3>2 DEF s
  <2>14. socket'[k] => conns'[k] # <<>> /\ ~conns'[k][Len(conns'[k])].eof
    BY <2>5, <2>6, <2>10
  <2> QED BY <1>2, <1>5, <2>6, <2>7, <2>8, <2>11, <2>12, <2>13, <2>14, OnePort
<1> QED BY <1>4, <1>5

\* A write that belongs to the thread's place in the round keeps it.
LEMMA WriteKeepsInv ==
    ASSUME BridgeInv, NEW k \in Kinds, UNCHANGED <<msgs, socket, bridgeVars, crashes>>,
           NEW bytes \in Seq(Bytes), NEW next \in {"data", "sleep"}, Write(k, bytes, next),
           \/ spc[k] = "length" /\ bytes = Size(k) /\ next = "data"
           \/ spc[k] = "data" /\ bytes = Serialize(k) /\ next = "sleep"
    PROVE  BridgeInv'
<1> DEFINE s == conns[k]
           n == Len(s)
<1>1. /\ TypeOK /\ StreamInv /\ Carries(k) /\ Written(k)
      /\ conns \in [Kinds -> Seq(Stream)] /\ s \in Seq(Stream) /\ n \in Nat
      /\ socket \in [Kinds -> BOOLEAN] /\ msgs \in Messages
      /\ (s # <<>> => Listening(k))
      /\ (socket[k] => s # <<>> /\ ~s[n].eof)
  BY DEF BridgeInv, TypeOK, StreamInv, SocketInv
<1>2. Size(k)' = Size(k) /\ Frame(k)' = Frame(k)
  BY FrameStays
<1>3. PICK pc \in {"data", "sleep"} : spc' = [spc EXCEPT ![k] = pc] /\ (socket[k] => pc = next)
  BY DEF Write
<1>4. /\ spc' \in [Kinds -> {"connect", "length", "data", "sleep"}] /\ spc'[k] = pc
      /\ \A j \in Kinds : j # k => spc'[j] = spc[j]
  BY <1>3, ThreadsAlive
<1>5. CASE ~socket[k]
  <2>1. conns' = conns /\ ~socket'[k]
    BY <1>5 DEF Write
  <2>2. Carries(k)'
    BY <1>1, <1>2, <2>1 DEF Carries
  <2>3. Written(k)'
    BY <2>1 DEF Written
  <2>4. s # <<>> => Len(s[1].bytes) >= Len(s[1].bytes)
    <3>1. s # <<>> => s[1] \in Stream
      <4> HIDE DEF s
      <4> QED BY <1>1
    <3>2. s # <<>> => Len(s[1].bytes) \in Nat
      BY <3>1 DEF Stream
    <3> QED BY <3>2
  <2> QED BY <1>1, <1>4, <2>1, <2>2, <2>3, <2>4, OnePort
<1>6. CASE socket[k]
  <2>1. conns' = [conns EXCEPT ![k][Len(conns[k])].bytes = @ \o bytes]
    BY <1>6 DEF Write
  <2>2. /\ conns' \in [Kinds -> Seq(Stream)]
        /\ Len(conns'[k]) = n /\ n \in Nat \ {0}
        /\ conns'[k][n].bytes = s[n].bytes \o bytes
        /\ conns'[k][n].eof = s[n].eof
        /\ \A i \in 1..n : i # n => conns'[k][i] = s[i]
        /\ \A j \in Kinds : j # k => conns'[j] = conns[j]
    BY <1>1, <1>6, <2>1, WriteAppends
  <2>3. /\ Serialize(k) \in Seq(Bytes) /\ Size(k) \in Seq(Bytes)
        /\ Frame(k) = Size(k) \o Serialize(k)
    BY <1>1, FrameFacts DEF Frame
  <2>4. \/ pc = "data" /\ conns'[k][n].bytes = Size(k)
        \/ pc = "sleep" /\ conns'[k][n].bytes = Frame(k)
    <3>1. CASE spc[k] = "length" /\ bytes = Size(k) /\ next = "data"
      <4>1. s[n].bytes = <<>>
        BY <1>1, <1>6, <3>1 DEF Written
      <4>2. <<>> \o Size(k) = Size(k)
        BY <2>3
      <4> QED BY <1>3, <1>6, <2>2, <3>1, <4>1, <4>2
    <3>2. CASE spc[k] = "data" /\ bytes = Serialize(k) /\ next = "sleep"
      <4>1. s[n].bytes = Size(k)
        BY <1>1, <1>6, <3>2 DEF Written
      <4> QED BY <1>3, <1>6, <2>2, <2>3, <3>2, <4>1
    <3> QED BY <3>1, <3>2
  <2>5. \A i \in 1..n : /\ s[i].bytes \in {<<>>, Size(k), Frame(k)}
                        /\ s[i].bytes = Frame(k) \/ crashes > 0 \/ i = n
    BY <1>1 DEF Carries
  <2>6. Carries(k)'
    <3> HIDE DEF s, n
    <3>1. ASSUME NEW i \in 1..n
          PROVE  /\ conns'[k][i].bytes \in {<<>>, Size(k), Frame(k)}
                 /\ conns'[k][i].bytes = Frame(k) \/ crashes > 0 \/ i = n
      BY <2>2, <2>4, <2>5
    <3> QED BY <1>2, <1>6, <2>2, <3>1 DEF Carries
  <2>7. Written(k)'
    <3> HIDE DEF s, n
    <3> QED BY <1>2, <1>4, <2>2, <2>4 DEF Written
  <2>8. Len(conns'[k][1].bytes) >= Len(s[1].bytes)
    <3> HIDE DEF s, n
    <3>1. 1 \in 1..n /\ s[1] \in Stream /\ s[n] \in Stream
      BY <1>1, <2>2 DEF n
    <3>2. Len(s[1].bytes) \in Nat /\ s[n].bytes \in Seq(Bytes)
      BY <3>1 DEF Stream
    <3>3. CASE n = 1
      <4>1. Len(s[n].bytes \o bytes) = Len(s[n].bytes) + Len(bytes) /\ Len(bytes) \in Nat
        BY <3>2, ConcatType
      <4> QED BY <2>2, <3>2, <3>3, <4>1
    <3>4. CASE n # 1
      BY <2>2, <3>1, <3>2, <3>4
    <3> QED BY <3>3, <3>4
  <2>9. conns'[k] # <<>> /\ ~conns'[k][Len(conns'[k])].eof /\ Listening(k)
    <3>1. conns'[k] \in Seq(Stream) /\ Len(conns'[k]) # 0
      BY <2>2
    <3>2. conns'[k] # <<>>
      BY <3>1
    <3> QED BY <1>1, <1>6, <2>2, <3>2
  <2> HIDE DEF n
  <2>10. socket' \in [Kinds -> BOOLEAN] /\ \A j \in Kinds : socket'[j] = socket[j]
    BY <1>1
  <2> QED BY <1>4, <2>2, <2>6, <2>7, <2>8, <2>9, <2>10, OnePort
<1> QED BY <1>5, <1>6

\* The sender keeps the invariant, whatever it is at and also when it dies.
LEMMA SenderKeepsInv ==
    ASSUME BridgeInv, (\E k \in Kinds : SendStep(k)) \/ SenderCrash \/ SenderRestart
    PROVE  BridgeInv'
<1>1. ASSUME NEW k \in Kinds, SendLength(k) PROVE BridgeInv'
  <2>1. /\ UNCHANGED <<msgs, socket, bridgeVars, crashes>>
        /\ spc[k] = "length" /\ Write(k, Size(k), "data")
    BY <1>1 DEF SendLength, Size
  <2>2. Size(k) \in Seq(Bytes)
    BY FrameFacts DEF BridgeInv, StreamInv
  <2> QED BY <2>1, <2>2, WriteKeepsInv
<1>2. ASSUME NEW k \in Kinds, SendData(k) PROVE BridgeInv'
  <2>1. /\ UNCHANGED <<msgs, socket, bridgeVars, crashes>>
        /\ spc[k] = "data" /\ Write(k, Serialize(k), "sleep")
    BY <1>2 DEF SendData
  <2>2. Serialize(k) \in Seq(Bytes)
    BY FrameFacts DEF BridgeInv, StreamInv
  <2> QED BY <2>1, <2>2, WriteKeepsInv
<1>3. ASSUME NEW k \in Kinds, SendSleep(k) PROVE BridgeInv'
  <2>1. /\ UNCHANGED <<msgs, socket, conns, bridgeVars, crashes>>
        /\ spc[k] = "sleep" /\ spc' = [spc EXCEPT ![k] = "connect"]
    BY <1>3 DEF SendSleep
  <2>2. /\ spc' \in [Kinds -> {"connect", "length", "data", "sleep"}] /\ spc'[k] = "connect"
        /\ \A j \in Kinds : j # k => spc'[j] = spc[j]
    BY <2>1, ThreadsAlive
  <2>3. Size(k)' = Size(k) /\ Frame(k)' = Frame(k)
    BY <2>1, FrameStays
  <2>4. /\ Carries(k) /\ Written(k) /\ conns \in [Kinds -> Seq(Stream)]
        /\ socket \in [Kinds -> BOOLEAN]
        /\ (socket[k] => conns[k] # <<>> /\ ~conns[k][Len(conns[k])].eof)
        /\ (conns[k] # <<>> => Listening(k))
    BY DEF BridgeInv, TypeOK, StreamInv, SocketInv
  <2>5. Carries(k)'
    BY <2>1, <2>3, <2>4 DEF Carries
  <2>6. Written(k)'
    BY <2>1, <2>2, <2>3, <2>4 DEF Written
  <2>7. conns[k] # <<>> => Len(conns[k][1].bytes) >= Len(conns[k][1].bytes)
    <3>1. conns[k] # <<>> => conns[k][1] \in Stream
      BY <2>4
    <3>2. conns[k] # <<>> => Len(conns[k][1].bytes) \in Nat
      BY <3>1 DEF Stream
    <3> QED BY <3>2
  <2> QED BY <2>1, <2>2, <2>4, <2>5, <2>6, <2>7, OnePort
<1>4. ASSUME NEW k \in Kinds, SendStep(k) PROVE BridgeInv'
  BY <1>1, <1>2, <1>3, <1>4, ConnectKeepsInv DEF SendStep
<1>5. CASE SenderCrash
  <2>1. /\ UNCHANGED <<msgs, bridgeVars>> /\ crashes' = crashes + 1 /\ crashes < MaxCrashes
        /\ conns' = [k \in Kinds |-> HangUp(k)] /\ socket' = [k \in Kinds |-> FALSE]
        /\ spc' = [k \in Kinds |-> "dead"]
    BY <1>5 DEF SenderCrash
  <2>2. TypeOK /\ StreamInv /\ conns \in [Kinds -> Seq(Stream)] /\ crashes \in Nat
    BY BridgeAssumption DEF BridgeInv, StreamInv, TypeOK
  <2>3. \A k \in Kinds : /\ conns'[k] \in Seq(Stream) /\ Len(conns'[k]) = Len(conns[k])
                         /\ \A i \in 1..Len(conns[k]) : conns'[k][i].bytes = conns[k][i].bytes
    BY <2>1, <2>2, HangUpKeepsBytes
  <2>4. conns' \in [Kinds -> Seq(Stream)]
    BY <2>1, <2>3
  <2>5. \A k \in Kinds : Size(k)' = Size(k) /\ Frame(k)' = Frame(k)
    BY <2>1, FrameStays
  <2>6. crashes' \in 0..MaxCrashes /\ crashes' > 0
    BY <2>1, <2>2, BridgeAssumption
  <2>7. ASSUME NEW k \in Kinds
        PROVE  /\ Carries(k)' /\ Written(k)'
               /\ conns'[k] # <<>> <=> conns[k] # <<>>
               /\ conns[k] # <<>> => Len(conns'[k][1].bytes) >= Len(conns[k][1].bytes)
    <3>1. Carries(k)
      BY <2>2 DEF StreamInv
    <3>2. Carries(k)'
      BY <2>3, <2>5, <2>6, <3>1 DEF Carries
    <3>3. Written(k)'
      BY <2>1 DEF Written
    <3>4. conns[k] \in Seq(Stream) /\ conns'[k] \in Seq(Stream) /\ Len(conns'[k]) = Len(conns[k])
      BY <2>2, <2>3
    <3>5. conns'[k] # <<>> <=> conns[k] # <<>>
      BY <3>4
    <3>6. ASSUME conns[k] # <<>> PROVE Len(conns'[k][1].bytes) >= Len(conns[k][1].bytes)
      <4>1. 1 \in 1..Len(conns[k]) /\ conns[k][1] \in Stream
        BY <3>4, <3>6
      <4>2. Len(conns[k][1].bytes) \in Nat
        BY <4>1 DEF Stream
      <4> QED BY <2>3, <4>1, <4>2
    <3> QED BY <3>2, <3>3, <3>5, <3>6
  <2>8. ReadInv' /\ BufferInv'
    BY <2>1, <2>4, <2>7, SenderLeavesBridge
  <2>9. StreamInv' /\ SocketInv'
    BY <2>1, <2>2, <2>4, <2>7 DEF StreamInv, SocketInv
  <2>10. running' \in BOOLEAN
    BY <2>1, <2>2, Zenon DEF TypeOK, bridgeVars
  <2>11. \A k \in Kinds : conns'[k] # <<>> => Listening(k)'
    BY <2>1, <2>2, <2>7 DEF TypeOK, Listening, bridgeVars
  <2>12. socket' \in [Kinds -> BOOLEAN] /\ \A k \in Kinds : ~socket'[k]
    BY <2>1
  <2>13. spc' \in [Kinds -> {"connect", "length", "data", "sleep", "dead"}]
    BY <2>1
  <2>14. TypeOK'
    BY <2>1, <2>2, <2>6, <2>10, <2>11, <2>12, <2>13 DEF TypeOK, bridgeVars
  <2>15. TerminatedByCrash'
    BY <2>6 DEF TerminatedByCrash
  <2> QED BY <2>8, <2>9, <2>14, <2>15 DEF BridgeInv
<1>6. CASE SenderRestart
  <2>1. /\ UNCHANGED <<msgs, socket, conns, bridgeVars, crashes>>
        /\ spc' = [k \in Kinds |-> "connect"] /\ \E k \in Kinds : spc[k] = "dead"
    BY <1>6 DEF SenderRestart, Alive
  <2>2. \A k \in Kinds : spc[k] = "dead"
    BY <2>1 DEF BridgeInv, SocketInv
  <2>3. \A k \in Kinds : ~socket[k]
    BY <2>2 DEF BridgeInv, SocketInv, Written
  <2>4. \A k \in Kinds : Size(k)' = Size(k) /\ Frame(k)' = Frame(k)
    BY <2>1, FrameStays
  <2>5. TypeOK /\ StreamInv /\ conns \in [Kinds -> Seq(Stream)] /\ \A k \in Kinds : Carries(k)
    BY DEF BridgeInv, StreamInv
  <2>6. \A k \in Kinds : Carries(k)' /\ Written(k)'
    BY <2>1, <2>3, <2>4, <2>5 DEF Carries, Written
  <2>7. StreamInv' /\ SocketInv'
    BY <2>1, <2>5, <2>6 DEF StreamInv, SocketInv
  <2>8. \A k \in Kinds : conns[k] # <<>> => Len(conns[k][1].bytes) >= Len(conns[k][1].bytes)
    <3> SUFFICES ASSUME NEW k \in Kinds, conns[k] # <<>>
                 PROVE  Len(conns[k][1].bytes) >= Len(conns[k][1].bytes)
      OBVIOUS
    <3>1. conns[k] \in Seq(Stream)
      BY <2>5
    <3>2. conns[k][1] \in Stream
      BY <3>1
    <3>3. Len(conns[k][1].bytes) \in Nat
      BY <3>2 DEF Stream
    <3> QED BY <3>3
  <2>9. ReadInv' /\ BufferInv'
    BY <2>1, <2>5, <2>8, SenderLeavesBridge
  <2>10. running' \in BOOLEAN
    BY <2>1, <2>5, Zenon DEF TypeOK, bridgeVars
  <2>11. spc' \in [Kinds -> {"connect", "length", "data", "sleep", "dead"}]
    BY <2>1
  <2>12. \A k \in Kinds : Listening(k)' <=> Listening(k)
    BY <2>1 DEF Listening, bridgeVars
  <2>13. TypeOK'
    BY <2>1, <2>5, <2>10, <2>11, <2>12 DEF TypeOK, bridgeVars
  <2>14. TerminatedByCrash'
    BY <2>1 DEF BridgeInv, TerminatedByCrash, bridgeVars
  <2> QED BY <2>7, <2>9, <2>13, <2>14 DEF BridgeInv
<1> QED BY <1>4, <1>5, <1>6

\* The bridge reads lengths and data as they were sent, and finds a stream broken
\* only if the sender died.
LEMMA BridgeKeepsInv ==
    ASSUME BridgeInv, BridgeStep \/ Interrupt
    PROVE  BridgeInv'
<1>0. /\ TypeOK /\ StreamInv /\ SocketInv /\ ReadInv /\ BufferInv /\ TerminatedByCrash
      /\ turn \in Kinds /\ msgs \in Messages /\ conns \in [Kinds -> Seq(Stream)]
      /\ conns[turn] \in Seq(Stream) /\ Carries(turn)
  BY DEF BridgeInv, TypeOK, StreamInv
<1>1. msgs' = msgs /\ spc' = spc /\ crashes' = crashes /\ running' \in BOOLEAN
  <2>1. msgs' = msgs /\ spc' = spc /\ crashes' = crashes
    BY DEF BridgeStep, ReceiveListen, ReceiveAccept, ReceiveLength, ReceiveData, ReceiveFail,
           Broadcast, Stop, Interrupt, senderVars
  <2>2. running' = running \/ running' = FALSE
    BY DEF BridgeStep, ReceiveListen, ReceiveAccept, ReceiveLength, ReceiveData, ReceiveFail,
           Broadcast, Stop, Interrupt
  <2>3. running' \in BOOLEAN
    BY <1>0, <2>2, Zenon DEF TypeOK
  <2> QED BY <2>1, <2>3
<1>2. \A k \in Kinds : Serialize(k)' = Serialize(k) /\ Size(k)' = Size(k) /\ Frame(k)' = Frame(k)
  BY <1>1, FrameStays
<1>3. ASSUME conns' = conns, socket' = socket PROVE StreamInv' /\ SocketInv'
  <2>1. \A k \in Kinds : Carries(k)' /\ Written(k)'
    BY <1>0, <1>1, <1>2, <1>3 DEF StreamInv, SocketInv, Carries, Written
  <2> QED BY <1>0, <1>1, <1>3, <2>1 DEF StreamInv, SocketInv
<1>4. ASSUME \A k \in Kinds : ~socket'[k] /\ conns'[k] = <<>>,
             conns' \in [Kinds -> Seq(Stream)]
      PROVE  StreamInv' /\ SocketInv'
  <2>1. \A k \in Kinds : Carries(k)' /\ Written(k)'
    BY <1>4 DEF Carries, Written
  <2> QED BY <1>0, <1>1, <1>4, <2>1 DEF StreamInv, SocketInv
<1>5. CASE ReceiveListen
  <2>1. /\ phase = "receiving" /\ rpc = "listen" /\ rpc' = "accept"
        /\ conns' = conns /\ socket' = socket /\ phase' = phase /\ turn' = turn
        /\ length' = length /\ buffer' = buffer /\ published' = published
    BY <1>5 DEF ReceiveListen, senderVars
  <2>2. \A k \in Kinds : conns[k] = <<>>
    BY <1>0, <2>1 DEF TypeOK, Listening
  <2>3. TypeOK'
    BY <1>0, <1>1, <2>1, <2>2 DEF TypeOK
  <2>4. ReadInv' /\ BufferInv' /\ TerminatedByCrash'
    BY <1>0, <1>2, <2>1 DEF ReadInv, BufferInv, TerminatedByCrash
  <2> QED BY <1>3, <2>1, <2>3, <2>4 DEF BridgeInv
<1>6. CASE ReceiveAccept
  <2>1. /\ phase = "receiving" /\ rpc = "accept" /\ rpc' = "length" /\ conns[turn] # <<>>
        /\ conns' = conns /\ socket' = socket /\ phase' = phase /\ turn' = turn
        /\ length' = length /\ buffer' = buffer /\ published' = published
    BY <1>6 DEF ReceiveAccept, senderVars
  <2>2. TypeOK'
    BY <1>0, <1>1, <2>1 DEF TypeOK, Listening
  <2>3. ReadInv' /\ BufferInv' /\ TerminatedByCrash'
    BY <1>0, <1>1, <1>2, <2>1 DEF ReadInv, BufferInv, TerminatedByCrash
  <2> QED BY <1>3, <2>1, <2>2, <2>3 DEF BridgeInv
<1> DEFINE head == Head(conns[turn])
<1>7. ASSUME phase = "receiving", rpc \in {"length", "data"}
      PROVE  /\ conns[turn] # <<>> /\ head = conns[turn][1] /\ Len(conns[turn]) \in Nat \ {0}
             /\ head.bytes \in {<<>>, Size(turn), Frame(turn)} /\ Len(head.bytes) \in Nat
             /\ head.bytes = Frame(turn) \/ crashes > 0 \/ ~head.eof
  <2>1. conns[turn] # <<>>
    BY <1>0, <1>7 DEF ReadInv
  <2>2. head = conns[turn][1] /\ Len(conns[turn]) \in Nat \ {0} /\ conns[turn][1] \in Stream
    BY <1>0, <2>1
  <2>3. /\ head.bytes \in {<<>>, Size(turn), Frame(turn)}
        /\ \/ head.bytes = Frame(turn) \/ crashes > 0
           \/ socket[turn] /\ 1 = Len(conns[turn])
    <3>1. 1 \in 1..Len(conns[turn])
      BY <2>2
    <3>2. \A i \in 1..Len(conns[turn]) :
            /\ conns[turn][i].bytes \in {<<>>, Size(turn), Frame(turn)}
            /\ \/ conns[turn][i].bytes = Frame(turn) \/ crashes > 0
               \/ socket[turn] /\ i = Len(conns[turn])
      BY <1>0, Zenon DEF Carries
    <3> HIDE DEF head
    <3> QED BY <2>2, <3>1, <3>2
  <2>4. socket[turn] /\ 1 = Len(conns[turn]) => ~head.eof
    BY <1>0, <2>2 DEF TypeOK
  <2>5. Len(head.bytes) \in Nat
    BY <2>2 DEF Stream
  <2> QED BY <2>1, <2>2, <2>3, <2>4, <2>5
<1>8. /\ Len(Serialize(turn)) \in Nat /\ Len(Frame(turn)) = 4 + Len(Serialize(turn))
      /\ \A bytes \in {<<>>, Size(turn), Frame(turn)} :
           /\ Len(bytes) >= 4 => GetSize(bytes, 0, 4) = Len(Serialize(turn))
           /\ Len(bytes) >= 4 + Len(Serialize(turn)) =>
                SubSeq(bytes, 5, 4 + Len(Serialize(turn))) = Serialize(turn)
  BY <1>0, FrameFacts
<1>9. CASE ReceiveLength
  <2>1. /\ phase = "receiving" /\ rpc = "length" /\ rpc' = "data"
        /\ Len(head.bytes) >= 4 /\ length' = GetSize(head.bytes, 0, 4)
        /\ conns' = conns /\ socket' = socket /\ phase' = phase /\ turn' = turn
        /\ buffer' = buffer /\ published' = published
    BY <1>9 DEF ReceiveLength, Readable, senderVars, U32
  <2>2. length' = Len(Serialize(turn)) /\ length' \in Nat /\ conns[turn] # <<>>
    BY <1>7, <1>8, <2>1
  <2>3. TypeOK'
    BY <1>0, <1>1, <2>1, <2>2 DEF TypeOK, Listening
  <2>4. Serialize(turn)' = Serialize(turn)
    BY <1>1, <2>1 DEF Serialize
  <2>5. ReadInv'
    BY <2>1, <2>2, <2>4 DEF ReadInv
  <2>6. BufferInv' /\ TerminatedByCrash'
    BY <1>0, <1>1, <1>2, <2>1 DEF BufferInv, TerminatedByCrash
  <2> QED BY <1>3, <2>1, <2>3, <2>5, <2>6 DEF BridgeInv
<1>10. CASE ReceiveData
  <2>1. /\ phase = "receiving" /\ rpc = "data" /\ Len(head.bytes) >= 4 + length
        /\ buffer' = [buffer EXCEPT ![turn] = SubSeq(head.bytes, 4 + 1, 4 + length)]
        /\ conns' = [conns EXCEPT ![turn] = <<>>] /\ socket' = [socket EXCEPT ![turn] = FALSE]
        /\ rpc' = "listen" /\ length' = 0 /\ published' = published
        /\ IF turn = 3
             THEN phase' = "serving" /\ turn' = 1
             ELSE turn' = turn + 1 /\ phase' = phase
    BY <1>10 DEF ReceiveData, Readable, U32
  <2>2. length = Len(Serialize(turn))
    BY <1>0, <2>1 DEF ReadInv
  <2>3. SubSeq(head.bytes, 4 + 1, 4 + length) = Serialize(turn)
    BY <1>7, <1>8, <2>1, <2>2
  <2> HIDE DEF head
  <2>4. \A k \in Kinds : k # turn => conns[k] = <<>> /\ ~socket[k]
    BY <1>0 DEF TypeOK, Listening
  <2>5. conns' \in [Kinds -> Seq(Stream)] /\ \A k \in Kinds : conns'[k] = <<>>
    BY <1>0, <2>1, <2>4
  <2>6. socket' \in [Kinds -> BOOLEAN] /\ \A k \in Kinds : ~socket'[k]
    BY <1>0, <2>1, <2>4 DEF TypeOK
  <2>7. turn' \in Kinds /\ phase' \in {"receiving", "serving"}
    BY <1>0, <2>1 DEF Kinds
  <2>8. TypeOK'
    BY <1>0, <1>1, <2>1, <2>5, <2>6, <2>7 DEF TypeOK
  <2>9. ReadInv' /\ TerminatedByCrash'
    BY <2>1, <2>7 DEF ReadInv, TerminatedByCrash
  <2>10. /\ buffer' = [k \in Kinds |-> buffer'[k]] /\ buffer'[turn] = Serialize(turn)
         /\ \A k \in Kinds : k # turn => buffer'[k] = buffer[k]
    <3>1. buffer' = [buffer EXCEPT ![turn] = Serialize(turn)]
      BY <2>1, <2>3
    <3>2. buffer = [k \in Kinds |-> buffer[k]]
      BY <1>0 DEF BufferInv
    <3> QED BY <1>0, <3>1, <3>2
  <2>11. ASSUME NEW k \in Kinds
         PROVE  /\ buffer'[k] \in {None, Serialize(k)}
                /\ phase' = "receiving" /\ k < turn' => buffer'[k] = Serialize(k)
                /\ phase' = "serving" => buffer'[k] = Serialize(k)
    <3>1. CASE k = turn
      BY <2>10, <3>1
    <3>2. CASE k # turn
      <4>1. /\ buffer'[k] = buffer[k] /\ buffer[k] \in {None, Serialize(k)}
            /\ k < turn => buffer[k] = Serialize(k)
        BY <1>0, <2>1, <2>10, <3>2 DEF BufferInv
      <4>2. /\ phase' = "receiving" /\ k < turn' => k < turn
            /\ phase' = "serving" => k < turn
        BY <1>0, <2>1, <3>2 DEF Kinds
      <4> QED BY <4>1, <4>2
    <3> QED BY <3>1, <3>2
  <2>12. published = {}
    BY <1>0, <2>1 DEF BufferInv
  <2>13. BufferInv'
    BY <1>2, <2>1, <2>7, <2>10, <2>11, <2>12 DEF BufferInv
  <2> QED BY <1>4, <2>5, <2>6, <2>8, <2>9, <2>13 DEF BridgeInv
<1>11. CASE ReceiveFail
  <2>1. /\ phase = "receiving" /\ rpc \in {"length", "data"}
        /\ ~(Len(head.bytes) >= (IF rpc = "length" THEN 4 ELSE 4 + length)) /\ head.eof
        /\ phase' = "terminated" /\ conns' = [k \in Kinds |-> <<>>]
        /\ socket' = [k \in Kinds |-> FALSE] /\ turn' = turn /\ rpc' = rpc
        /\ length' = length /\ buffer' = buffer /\ published' = published
    BY <1>11 DEF ReceiveFail, Broken, Readable, U32
  <2>2. rpc = "data" => length = Len(Serialize(turn))
    BY <1>0, <2>1 DEF ReadInv
  <2>3. head.bytes # Frame(turn)
    BY <1>8, <2>1, <2>2
  <2>4. crashes > 0
    BY <1>7, <2>1, <2>3
  <2> HIDE DEF head
  <2>5. \A k \in Kinds : ~socket'[k] /\ conns'[k] = <<>>
    BY <2>1
  <2>6. conns' \in [Kinds -> Seq(Stream)] /\ socket' \in [Kinds -> BOOLEAN]
    BY <2>1
  <2>7. TypeOK'
    BY <1>0, <1>1, <2>1, <2>5, <2>6 DEF TypeOK
  <2>8. published = {}
    BY <1>0, <2>1 DEF BufferInv
  <2>9. ReadInv' /\ BufferInv' /\ TerminatedByCrash'
    BY <1>0, <1>1, <1>2, <2>1, <2>4, <2>8 DEF ReadInv, BufferInv, TerminatedByCrash
  <2> QED BY <1>4, <2>5, <2>6, <2>7, <2>9 DEF BridgeInv
<1>12. CASE Broadcast \/ Stop \/ Interrupt
  <2>1. /\ phase = "serving" /\ phase' \in {"serving", "stopped"} /\ conns' = conns
        /\ socket' = socket /\ rpc' = rpc /\ length' = length /\ buffer' = buffer
    BY <1>12 DEF Broadcast, Stop, Interrupt, senderVars
  <2>2. turn' \in Kinds
    BY <1>0, <1>12 DEF Broadcast, Stop, Interrupt, Kinds
  <2>3. \A k \in Kinds : conns[k] = <<>> /\ ~socket[k]
    BY <1>0, <2>1 DEF TypeOK, Listening
  <2>4. TypeOK'
    BY <1>0, <1>1, <2>1, <2>2, <2>3 DEF TypeOK
  <2>5. ReadInv' /\ BufferInv' /\ TerminatedByCrash'
    BY <1>0, <1>2, <2>1 DEF ReadInv, BufferInv, TerminatedByCrash
  <2> QED BY <1>3, <2>1, <2>4, <2>5 DEF BridgeInv
<1> QED BY <1>5, <1>6, <1>9, <1>10, <1>11, <1>12 DEF BridgeStep

\* The invariant holds initially and every step keeps it.
LEMMA BridgeInductive ==
    /\ Init => BridgeInv
    /\ BridgeInv /\ [Next]_vars => BridgeInv'
<1>1. Init => BridgeInv
  <2> SUFFICES ASSUME Init PROVE BridgeInv
    OBVIOUS
  <2>1. running \in BOOLEAN
    BY Zenon DEF Init
  <2>2. /\ conns \in [Kinds -> Seq(Stream)] /\ socket \in [Kinds -> BOOLEAN]
        /\ \A k \in Kinds : conns[k] = <<>> /\ ~socket[k] /\ spc[k] = "connect"
    BY DEF Init
  <2>3. TypeOK
    BY <2>1, <2>2, BridgeAssumption DEF Init, TypeOK, Kinds
  <2>4. StreamInv /\ SocketInv
    BY <2>2 DEF Init, StreamInv, SocketInv, Carries, Written
  <2>5. ReadInv /\ BufferInv /\ TerminatedByCrash
    BY DEF Init, ReadInv, BufferInv, TerminatedByCrash, Kinds
  <2> QED BY <2>3, <2>4, <2>5 DEF BridgeInv
<1>2. BridgeInv /\ UNCHANGED vars => BridgeInv'
  <2> SUFFICES ASSUME BridgeInv, UNCHANGED vars PROVE BridgeInv'
    OBVIOUS
  <2>0. running' \in BOOLEAN
    BY Zenon DEF BridgeInv, TypeOK, vars
  <2>1. \A k \in Kinds : Serialize(k)' = Serialize(k) /\ Size(k)' = Size(k) /\ Frame(k)' = Frame(k)
    BY FrameStays DEF vars
  <2>2. Serialize(turn)' = Serialize(turn)
    BY DEF Serialize, vars
  <2>3. TypeOK'
    BY <2>0 DEF BridgeInv, TypeOK, Listening, vars
  <2>4. \A k \in Kinds : Carries(k)' /\ Written(k)'
    BY <2>1 DEF BridgeInv, StreamInv, SocketInv, Carries, Written, vars
  <2>5. StreamInv' /\ SocketInv'
    BY <2>4 DEF BridgeInv, StreamInv, SocketInv, vars
  <2>6. ReadInv'
    BY <2>2 DEF BridgeInv, ReadInv, vars
  <2>7. BufferInv' /\ TerminatedByCrash'
    BY <2>1 DEF BridgeInv, BufferInv, TerminatedByCrash, vars
  <2> QED BY <2>3, <2>5, <2>6, <2>7 DEF BridgeInv
<1> QED BY <1>1, <1>2, SenderKeepsInv, BridgeKeepsInv DEF Next

\* Deserializing what a sender of these messages serialized gives the message
\* back, of whichever kind it is.
LEMMA ReceivedOfSerialized ==
    ASSUME msgs \in Messages, NEW k \in Kinds, buffer[k] = Serialize(k)
    PROVE  /\ Received(k) = [value |-> msgs[k], offset |-> Len(buffer[k])]
           /\ msgs[k].header.stamp \in Nat
<1>1. /\ msgs[1] \in LaserScans /\ Len(LaserScanSerialize(msgs[1])) < TwoTo32
      /\ msgs[2] \in PointClouds /\ Len(PointCloud2Serialize(msgs[2])) < TwoTo32
      /\ msgs[3] \in Paths /\ Len(PathSerialize(msgs[3])) < TwoTo32
  BY MessagesAssumption
<1>2. CASE k = 1
  <2>1. msgs[k].header.stamp \in Nat
    BY <1>1, <1>2 DEF LaserScans, Headers
  <2> QED BY <1>1, <1>2, <2>1, LaserScanRoundTrip DEF Serialize, Received
<1>3. CASE k = 2
  <2>1. msgs[k].header.stamp \in Nat
    BY <1>1, <1>3 DEF PointClouds, Headers
  <2> QED BY <1>1, <1>3, <2>1, PointCloud2RoundTrip DEF Serialize, Received
<1>4. CASE k = 3
  <2>1. msgs[k].header.stamp \in Nat
    BY <1>1, <1>4 DEF Paths, Headers
  <2> QED BY <1>1, <1>4, <2>1, PathRoundTrip DEF Serialize, Received
<1> QED BY <1>2, <1>3, <1>4 DEF Kinds

\* The fraction of a second is dropped.
LEMMA TimeOfStamp ==
    ASSUME NEW stamp \in Nat
    PROVE  Time(stamp) = [sec |-> stamp \div Ticks, nsec |-> 0]
<1>1. Ticks \in Nat \ {0}
  BY BridgeAssumption
<1>2. (stamp - (stamp \div Ticks) * Ticks) \div Ticks = 0
  BY <1>1
<1> QED BY <1>2 DEF Time

\* What the bridge holds is what the sender sent, for any messages that fit the
\* length field and any number of connections, refusals and crashes.
THEOREM ReceivesWhatWasSent == Spec => []ReceivedIsSent
<1>1. ASSUME BridgeInv PROVE ReceivedIsSent
  <2>1. TypeOK /\ msgs \in Messages
    BY <1>1 DEF BridgeInv, StreamInv
  <2>2. ASSUME NEW k \in Kinds, buffer[k] = Serialize(k)
        PROVE  /\ Received(k) = [value |-> msgs[k], offset |-> Len(buffer[k])]
               /\ Message(k).timestamp = [sec |-> msgs[k].header.stamp \div Ticks, nsec |-> 0]
    <3>1. /\ Received(k) = [value |-> msgs[k], offset |-> Len(buffer[k])]
          /\ msgs[k].header.stamp \in Nat
      BY <2>1, <2>2, ReceivedOfSerialized
    <3>2. Received(k).value = msgs[k]
      BY <3>1
    <3>3. Message(k).timestamp = Time(msgs[k].header.stamp)
      <4>1. CASE k = 1
        BY <3>2, <4>1 DEF Message
      <4>2. CASE k = 2
        BY <3>2, <4>2 DEF Message
      <4>3. CASE k = 3
        BY <3>2, <4>3 DEF Message
      <4> QED BY <4>1, <4>2, <4>3 DEF Kinds
    <3> QED BY <3>1, <3>3, TimeOfStamp
  <2>3. \A k \in Kinds : /\ buffer[k] # None => buffer[k] = Serialize(k)
                         /\ k \in published => buffer[k] = Serialize(k)
    BY <1>1 DEF BridgeInv, BufferInv
  <2> QED BY <2>1, <2>2, <2>3 DEF ReceivedIsSent
<1> QED BY <1>1, BridgeInductive, PTL DEF Spec

\* Only the death of the sender ends the bridge.
THEOREM OnlyCrashTerminates == Spec => []TerminatedByCrash
<1>1. BridgeInv => TerminatedByCrash
  BY DEF BridgeInv
<1> QED BY <1>1, BridgeInductive, PTL DEF Spec

-----------------------------------------------------------------------------
(* base64 *)

\* Every sextet has its character, and none of them is the pad.
LEMMA SextetOfAlphabet ==
    ASSUME NEW n \in 0..63
    PROVE  Alphabet(n) \in Nat /\ SextetOf(Alphabet(n)) = n
<1>1. CASE n \in 0..25  BY <1>1 DEF Alphabet, SextetOf
<1>2. CASE n \in 26..51 BY <1>2 DEF Alphabet, SextetOf
<1>3. CASE n \in 52..61 BY <1>3 DEF Alphabet, SextetOf
<1>4. CASE n = 62       BY <1>4 DEF Alphabet, SextetOf
<1>5. CASE n = 63       BY <1>5 DEF Alphabet, SextetOf
<1> QED BY <1>1, <1>2, <1>3, <1>4, <1>5

\* A byte of the bytes, 0 behind its end, and the sextets of a group of three.
ByteOf(bytes, i) == IF i <= Len(bytes) THEN bytes[i] ELSE 0
SextetIn(bytes, g, k) ==
    CASE k = 0 -> ByteOf(bytes, 3 * g + 1) \div 4
      [] k = 1 -> (ByteOf(bytes, 3 * g + 1) % 4) * 16 + ByteOf(bytes, 3 * g + 2) \div 16
      [] k = 2 -> (ByteOf(bytes, 3 * g + 2) % 16) * 4 + ByteOf(bytes, 3 * g + 3) \div 64
      [] k = 3 -> ByteOf(bytes, 3 * g + 3) % 64

\* The characters of an encoding, and those that are not padding.
EncodedSize(n) == 4 * ((n + 2) \div 3)
Padding(n)     == (3 - (n % 3)) % 3

LEMMA EncodingIs ==
    ASSUME NEW bytes \in Seq(Octets)
    PROVE  base64Encode(bytes) =
             [j \in 1..EncodedSize(Len(bytes)) |->
                IF j > EncodedSize(Len(bytes)) - Padding(Len(bytes)) THEN Pad
                ELSE Alphabet(SextetIn(bytes, (j - 1) \div 4, (j - 1) % 4))]
BY Zenon DEF base64Encode, EncodedSize, Padding, SextetIn, ByteOf

LEMMA ByteType ==
    ASSUME NEW bytes \in Seq(Octets), NEW i \in Nat, i > 0
    PROVE  ByteOf(bytes, i) \in 0..255
<1>1. CASE i <= Len(bytes)
  <2>1. i \in 1..Len(bytes)
    BY <1>1
  <2>2. bytes[i] \in Octets
    BY <2>1
  <2> QED BY <1>1, <2>2 DEF ByteOf, Octets
<1>2. CASE ~(i <= Len(bytes))
  BY <1>2 DEF ByteOf
<1> QED BY <1>1, <1>2

LEMMA GroupType ==
    ASSUME NEW bytes \in Seq(Octets), NEW g \in Nat
    PROVE  /\ ByteOf(bytes, 3 * g + 1) \in 0..255
           /\ ByteOf(bytes, 3 * g + 2) \in 0..255
           /\ ByteOf(bytes, 3 * g + 3) \in 0..255
<1>1. 3 * g + 1 \in Nat /\ 3 * g + 2 \in Nat /\ 3 * g + 3 \in Nat
  OBVIOUS
<1>2. 3 * g + 1 > 0 /\ 3 * g + 2 > 0 /\ 3 * g + 3 > 0
  OBVIOUS
<1> QED BY <1>1, <1>2, ByteType

\* The four sextets of a group.
LEMMA GroupSextets ==
    ASSUME NEW bytes, NEW g
    PROVE  /\ SextetIn(bytes, g, 0) = ByteOf(bytes, 3 * g + 1) \div 4
           /\ SextetIn(bytes, g, 1) = (ByteOf(bytes, 3 * g + 1) % 4) * 16 + ByteOf(bytes, 3 * g + 2) \div 16
           /\ SextetIn(bytes, g, 2) = (ByteOf(bytes, 3 * g + 2) % 16) * 4 + ByteOf(bytes, 3 * g + 3) \div 64
           /\ SextetIn(bytes, g, 3) = ByteOf(bytes, 3 * g + 3) % 64
BY DEF SextetIn

LEMMA SextetType ==
    ASSUME NEW bytes \in Seq(Octets), NEW g \in Nat, NEW k \in 0..3
    PROVE  SextetIn(bytes, g, k) \in 0..63
<1> DEFINE a == ByteOf(bytes, 3 * g + 1)
           b == ByteOf(bytes, 3 * g + 2)
           c == ByteOf(bytes, 3 * g + 3)
<1>2. a \in 0..255 /\ b \in 0..255 /\ c \in 0..255
  BY GroupType
<1>3. /\ SextetIn(bytes, g, 0) = a \div 4
      /\ SextetIn(bytes, g, 1) = (a % 4) * 16 + b \div 16
      /\ SextetIn(bytes, g, 2) = (b % 16) * 4 + c \div 64
      /\ SextetIn(bytes, g, 3) = c % 64
  BY GroupSextets
<1> HIDE DEF a, b, c
<1>4. /\ a \div 4 \in 0..63
      /\ (a % 4) * 16 + b \div 16 \in 0..63
      /\ (b % 16) * 4 + c \div 64 \in 0..63
      /\ c % 64 \in 0..63
  <2>1. a \div 4 \in 0..63
    BY <1>2
  <2>2. (a % 4) * 16 + b \div 16 \in 0..63
    BY <1>2
  <2>3. (b % 16) * 4 + c \div 64 \in 0..63
    BY <1>2
  <2>4. c % 64 \in 0..63
    BY <1>2
  <2> QED BY <2>1, <2>2, <2>3, <2>4
<1>5. /\ SextetIn(bytes, g, 0) \in 0..63 /\ SextetIn(bytes, g, 1) \in 0..63
      /\ SextetIn(bytes, g, 2) \in 0..63 /\ SextetIn(bytes, g, 3) \in 0..63
  BY <1>3, <1>4, Zenon
<1>6. k = 0 \/ k = 1 \/ k = 2 \/ k = 3
  OBVIOUS
<1> QED BY <1>5, <1>6, Zenon

\* How many characters there are.
LEMMA Sizes ==
    ASSUME NEW n \in Nat
    PROVE  LET size == EncodedSize(n)
               d    == size - Padding(n)
           IN  /\ size \in Nat /\ d \in Nat /\ d <= size
               /\ size % 4 = 0
               /\ d < size => size - d \in {1, 2}
               /\ DecodedSize(d) = n
               /\ \A g \in Nat : /\ 3 * g + 1 <= n => 4 * g + 2 <= d
                                 /\ 3 * g + 2 <= n => 4 * g + 3 <= d
                                 /\ 3 * g + 3 <= n => 4 * g + 4 <= d
<1> DEFINE q == n \div 3
           r == n % 3
           size == EncodedSize(n)
<1>1. q \in Nat /\ r \in 0..2 /\ n = 3 * q + r
  OBVIOUS
<1>2. (n + 2) \div 3 = IF r = 0 THEN q ELSE q + 1
  OBVIOUS
<1>3. Padding(n) = (3 - r) % 3 /\ EncodedSize(n) = 4 * (IF r = 0 THEN q ELSE q + 1)
  BY <1>2 DEF Padding, EncodedSize
<1> HIDE DEF q, r
<1>4. CASE r = 0
  <2>1. Padding(n) = 0 /\ EncodedSize(n) = 4 * q
    BY <1>1, <1>3, <1>4
  <2>2. size - Padding(n) = 4 * q /\ size = 4 * q
    BY <1>1, <2>1
  <2>3. DecodedSize(4 * q) = n
    BY <1>1, <1>4 DEF DecodedSize
  <2>4. \A g \in Nat : /\ 3 * g + 1 <= n => 4 * g + 2 <= 4 * q
                       /\ 3 * g + 2 <= n => 4 * g + 3 <= 4 * q
                       /\ 3 * g + 3 <= n => 4 * g + 4 <= 4 * q
    BY <1>1, <1>4
  <2>5. size \in Nat /\ 4 * q \in Nat /\ 4 * q <= size /\ size % 4 = 0
    BY <1>1, <2>2
  <2>6. 4 * q < size => size - (4 * q) \in {1, 2}
    BY <1>1, <2>2
  <2> QED BY <2>2, <2>3, <2>4, <2>5, <2>6
<1>5. CASE r = 1
  <2>1. Padding(n) = 2 /\ EncodedSize(n) = 4 * q + 4
    BY <1>1, <1>3, <1>5
  <2>2. size - Padding(n) = 4 * q + 2 /\ size = 4 * q + 4
    BY <1>1, <2>1
  <2>3. DecodedSize(4 * q + 2) = n
    BY <1>1, <1>5 DEF DecodedSize
  <2>4. \A g \in Nat : /\ 3 * g + 1 <= n => 4 * g + 2 <= 4 * q + 2
                       /\ 3 * g + 2 <= n => 4 * g + 3 <= 4 * q + 2
                       /\ 3 * g + 3 <= n => 4 * g + 4 <= 4 * q + 2
    BY <1>1, <1>5
  <2>5. size \in Nat /\ 4 * q + 2 \in Nat /\ 4 * q + 2 <= size /\ size % 4 = 0
    BY <1>1, <2>2
  <2>6. 4 * q + 2 < size => size - (4 * q + 2) \in {1, 2}
    BY <1>1, <2>2
  <2> QED BY <2>2, <2>3, <2>4, <2>5, <2>6
<1>6. CASE r = 2
  <2>1. Padding(n) = 1 /\ EncodedSize(n) = 4 * q + 4
    BY <1>1, <1>3, <1>6
  <2>2. size - Padding(n) = 4 * q + 3 /\ size = 4 * q + 4
    BY <1>1, <2>1
  <2>3. DecodedSize(4 * q + 3) = n
    BY <1>1, <1>6 DEF DecodedSize
  <2>4. \A g \in Nat : /\ 3 * g + 1 <= n => 4 * g + 2 <= 4 * q + 3
                       /\ 3 * g + 2 <= n => 4 * g + 3 <= 4 * q + 3
                       /\ 3 * g + 3 <= n => 4 * g + 4 <= 4 * q + 3
    BY <1>1, <1>6
  <2>5. size \in Nat /\ 4 * q + 3 \in Nat /\ 4 * q + 3 <= size /\ size % 4 = 0
    BY <1>1, <2>2
  <2>6. 4 * q + 3 < size => size - (4 * q + 3) \in {1, 2}
    BY <1>1, <2>2
  <2> QED BY <2>2, <2>3, <2>4, <2>5, <2>6
<1> QED BY <1>1, <1>4, <1>5, <1>6

\* The loop of base64Decode ends at the first pad, or at the end.
LEMMA DigitsOfEncoding ==
    ASSUME NEW bytes \in Seq(Octets)
    PROVE  LET s == base64Encode(bytes)
               d == EncodedSize(Len(bytes)) - Padding(Len(bytes))
           IN  /\ s \in Seq(Nat) /\ Len(s) = EncodedSize(Len(bytes))
               /\ d < Len(s) => s[d + 1] = Pad
               /\ Digits(s) = d
               /\ \A g \in Nat : \A i \in 1..4 :
                    4 * g + i <= d => SextetOf(s[4 * g + i]) = SextetIn(bytes, g, i - 1)
<1> DEFINE n == Len(bytes)
           size == EncodedSize(n)
           d == size - Padding(n)
           s == base64Encode(bytes)
<1>1. size \in Nat /\ d \in Nat /\ d <= size
  BY Sizes
<1>2. ASSUME NEW j \in 1..size
      PROVE  /\ s[j] = IF j > d THEN Pad ELSE Alphabet(SextetIn(bytes, (j - 1) \div 4, (j - 1) % 4))
             /\ SextetIn(bytes, (j - 1) \div 4, (j - 1) % 4) \in 0..63
  <2>1. (j - 1) \div 4 \in Nat /\ (j - 1) % 4 \in 0..3
    BY <1>1
  <2>2. s[j] = IF j > d THEN Pad ELSE Alphabet(SextetIn(bytes, (j - 1) \div 4, (j - 1) % 4))
    BY EncodingIs, Zenon
  <2> QED BY <2>1, <2>2, SextetType
<1>3. DOMAIN s = 1..size /\ s = [j \in 1..size |-> s[j]]
  BY EncodingIs
<1> HIDE DEF s, d, size, n
<1>4. \A j \in 1..size : s[j] \in Nat /\ (SextetOf(s[j]) = -1 <=> j > d)
  <2>1. Pad \in Nat /\ SextetOf(Pad) = -1
    BY DEF Pad, SextetOf
  <2> SUFFICES ASSUME NEW j \in 1..size
               PROVE  s[j] \in Nat /\ (SextetOf(s[j]) = -1 <=> j > d)
    OBVIOUS
  <2> DEFINE x == SextetIn(bytes, (j - 1) \div 4, (j - 1) % 4)
  <2>2. x \in 0..63 /\ s[j] = IF j > d THEN Pad ELSE Alphabet(x)
    BY <1>2
  <2> HIDE DEF x
  <2>3. Alphabet(x) \in Nat /\ SextetOf(Alphabet(x)) = x
    BY <2>2, SextetOfAlphabet, Zenon
  <2>4. x # -1
    BY <2>2
  <2> QED BY <2>1, <2>2, <2>3, <2>4
<1>5. s \in Seq(Nat) /\ Len(s) = size
  <2>1. \A j \in 1..size : s[j] \in Nat
    BY <1>4
  <2>2. s \in [1..size -> Nat]
    BY <1>3, <2>1
  <2> QED BY <1>1, <2>2
<1>6. d < size => s[d + 1] = Pad
  BY <1>1, <1>2
<1>7. Digits(s) = d
  <2> DEFINE t == Append(s, Pad)
             I == {i \in 1..Len(t) : SextetOf(t[i]) = -1}
  <2>1. Len(t) = size + 1 /\ t[size + 1] = Pad /\ \A i \in 1..size : t[i] = s[i]
    BY <1>1, <1>5
  <2>2. \A i \in 1..Len(t) : SextetOf(t[i]) = -1 <=> i > d
    <3>1. SextetOf(Pad) = -1
      BY DEF Pad, SextetOf
    <3>2. \A i \in 1..Len(t) : i \in 1..size \/ i = size + 1
      BY <1>1, <2>1
    <3> HIDE DEF t
    <3> QED BY <1>1, <1>4, <2>1, <3>1, <3>2
  <2>3. Digits(s) = (IF I # {} THEN Min(I) ELSE 0) - 1
    BY Zenon DEF Digits, SelectInSeq
  <2> HIDE DEF t
  <2>4. d + 1 \in I /\ \A i \in I : i \in Nat /\ d + 1 <= i
    BY <1>1, <2>1, <2>2
  <2> HIDE DEF I
  <2>5. Min(I) = d + 1
    BY <1>1, <2>4 DEF Min
  <2> QED BY <1>1, <2>3, <2>4, <2>5
<1>8. ASSUME NEW g \in Nat, NEW i \in 1..4, 4 * g + i <= d
      PROVE  SextetOf(s[4 * g + i]) = SextetIn(bytes, g, i - 1)
  <2> DEFINE j == 4 * g + i
  <2>1. j \in 1..size /\ (j - 1) \div 4 = g /\ (j - 1) % 4 = i - 1 /\ ~(j > d)
    <3>1. i = 1 \/ i = 2 \/ i = 3 \/ i = 4
      OBVIOUS
    <3>2. j \in Nat /\ j >= 1 /\ j <= size /\ ~(j > d)
      BY <1>1, <1>8
    <3>3. (j - 1) \div 4 = g /\ (j - 1) % 4 = i - 1
      BY <3>1
    <3> HIDE DEF j
    <3> QED BY <1>1, <3>2, <3>3
  <2> HIDE DEF j
  <2>2. SextetOf(s[j]) = SextetIn(bytes, g, i - 1)
    BY <1>2, <2>1, SextetOfAlphabet
  <2> QED BY <2>2 DEF j
<1> QED BY <1>5, <1>6, <1>7, <1>8 DEF s, d, size, n

\* base64Decode inverts base64Encode.
THEOREM Base64RoundTrip ==
    ASSUME NEW bytes \in Seq(Octets)
    PROVE  /\ Decodable(base64Encode(bytes))
           /\ base64Decode(base64Encode(bytes)) = bytes
<1> DEFINE n == Len(bytes)
           s == base64Encode(bytes)
           d == EncodedSize(n) - Padding(n)
           Digit(g, k) == SextetOf(s[4 * g + k])
           Byte(g, k) == CASE k = 0 -> Digit(g, 1) * 4 + Digit(g, 2) \div 16
                           [] k = 1 -> (Digit(g, 2) % 16) * 16 + Digit(g, 3) \div 4
                           [] k = 2 -> (Digit(g, 3) % 4) * 64 + Digit(g, 4)
<1>1. n \in Nat /\ bytes = [j \in 1..n |-> bytes[j]]
  OBVIOUS
<1>2. /\ Len(s) = EncodedSize(n) /\ Digits(s) = d
      /\ d < Len(s) => s[d + 1] = Pad
  BY DigitsOfEncoding
<1>3. \A g \in Nat : \A i \in 1..4 :
        4 * g + i <= d => SextetOf(s[4 * g + i]) = SextetIn(bytes, g, i - 1)
  BY DigitsOfEncoding
<1>4. Decodable(s)
  <2> HIDE DEF s, d, n
  <2>1. EncodedSize(n) % 4 = 0 /\ (d < EncodedSize(n) => EncodedSize(n) - d \in {1, 2})
    BY <1>1, Sizes DEF d
  <2> QED BY <1>2, <2>1 DEF Decodable
<1>5. base64Decode(s) = [j \in 1..DecodedSize(d) |-> Byte((j - 1) \div 3, (j - 1) % 3)]
  <2> HIDE DEF s, d, n
  <2> QED BY <1>2, Zenon DEF base64Decode
<1>6. DecodedSize(d) = n
  BY <1>1, Sizes
<1>7. ASSUME NEW j \in 1..n
      PROVE  Byte((j - 1) \div 3, (j - 1) % 3) = bytes[j]
  <2> DEFINE g == (j - 1) \div 3
             k == (j - 1) % 3
             a == ByteOf(bytes, 3 * g + 1)
             b == ByteOf(bytes, 3 * g + 2)
             c == ByteOf(bytes, 3 * g + 3)
  <2>1. g \in Nat /\ k \in 0..2 /\ j = 3 * g + k + 1
    <3>1. j - 1 \in Nat
      BY <1>1
    <3> DEFINE m == j - 1
    <3>2. m \div 3 \in Nat /\ m % 3 \in 0..2 /\ m = 3 * (m \div 3) + (m % 3)
      <4> HIDE DEF m
      <4> QED BY <3>1 DEF m
    <3> QED BY <1>1, <3>2
  <2> HIDE DEF s, d, n, g, k
  <2>3. a \in 0..255 /\ b \in 0..255 /\ c \in 0..255
    BY <2>1, GroupType
  <2>4. /\ 3 * g + 1 <= n => 4 * g + 2 <= d
        /\ 3 * g + 2 <= n => 4 * g + 3 <= d
        /\ 3 * g + 3 <= n => 4 * g + 4 <= d
    BY <1>1, <2>1, Sizes DEF d
  <2>5. d \in Nat
    BY <1>1, Sizes DEF d
  <2>6. bytes[j] = ByteOf(bytes, 3 * g + k + 1)
    BY <1>1, <2>1 DEF ByteOf, n
  <2>7. /\ SextetIn(bytes, g, 0) = a \div 4
        /\ SextetIn(bytes, g, 1) = (a % 4) * 16 + b \div 16
        /\ SextetIn(bytes, g, 2) = (b % 16) * 4 + c \div 64
        /\ SextetIn(bytes, g, 3) = c % 64
    BY GroupSextets
  <2>8. \A i \in 1..4 : 4 * g + i <= d => Digit(g, i) = SextetIn(bytes, g, i - 1)
    BY <1>3, <2>1
  <2> HIDE DEF a, b, c, Digit
  <2>9. CASE k = 0
    <3>1. 4 * g + 1 <= d /\ 4 * g + 2 <= d
      BY <1>1, <2>1, <2>4, <2>5, <2>9
    <3>2. Digit(g, 1) = a \div 4 /\ Digit(g, 2) = (a % 4) * 16 + b \div 16
      BY <2>7, <2>8, <3>1
    <3>3. Byte(g, k) = Digit(g, 1) * 4 + Digit(g, 2) \div 16
      BY <2>9
    <3>4. bytes[j] = a
      BY <2>1, <2>6, <2>9 DEF a
    <3> HIDE DEF Byte
    <3>5. Byte(g, k) = a
      <4>1. (a \div 4) * 4 + ((a % 4) * 16 + b \div 16) \div 16 = a
        BY <2>3
      <4> QED BY <3>2, <3>3, <4>1, Zenon
    <3> QED BY <3>4, <3>5, Zenon DEF g, k
  <2>10. CASE k = 1
    <3>1. 4 * g + 2 <= d /\ 4 * g + 3 <= d
      BY <1>1, <2>1, <2>4, <2>5, <2>10
    <3>2. Digit(g, 2) = (a % 4) * 16 + b \div 16 /\ Digit(g, 3) = (b % 16) * 4 + c \div 64
      BY <2>7, <2>8, <3>1
    <3>3. Byte(g, k) = (Digit(g, 2) % 16) * 16 + Digit(g, 3) \div 4
      BY <2>10
    <3>4. bytes[j] = b
      BY <2>1, <2>6, <2>10 DEF b
    <3> HIDE DEF Byte
    <3>5. Byte(g, k) = b
      <4>1. (((a % 4) * 16 + b \div 16) % 16) * 16 + ((b % 16) * 4 + c \div 64) \div 4 = b
        BY <2>3
      <4> QED BY <3>2, <3>3, <4>1, Zenon
    <3> QED BY <3>4, <3>5, Zenon DEF g, k
  <2>11. CASE k = 2
    <3>1. 4 * g + 3 <= d /\ 4 * g + 4 <= d
      BY <1>1, <2>1, <2>4, <2>5, <2>11
    <3>2. Digit(g, 3) = (b % 16) * 4 + c \div 64 /\ Digit(g, 4) = c % 64
      BY <2>7, <2>8, <3>1
    <3>3. Byte(g, k) = (Digit(g, 3) % 4) * 64 + Digit(g, 4)
      BY <2>11
    <3>4. bytes[j] = c
      BY <2>1, <2>6, <2>11 DEF c
    <3> HIDE DEF Byte
    <3>5. Byte(g, k) = c
      <4>1. c \div 64 \in 0..3
        BY <2>3
      <4>2. ((b % 16) * 4 + c \div 64) % 4 = c \div 64
        BY <2>3, <4>1
      <4>3. (c \div 64) * 64 + (c % 64) = c
        BY <2>3
      <4> QED BY <3>2, <3>3, <4>2, <4>3, Zenon
    <3> QED BY <3>4, <3>5, Zenon DEF g, k
  <2>12. k = 0 \/ k = 1 \/ k = 2
    BY <2>1
  <2> HIDE DEF Byte
  <2> QED BY <2>9, <2>10, <2>11, <2>12
<1> HIDE DEF n, s, d, Byte
<1> QED BY <1>1, <1>4, <1>5, <1>6, <1>7 DEF s

-----------------------------------------------------------------------------
(* binary frames *)

\* Parts of a frame can be put together in any order.
LEMMA Associative ==
    ASSUME NEW s \in Seq(Octets), NEW t \in Seq(Octets), NEW u \in Seq(Octets)
    PROVE  (s \o t) \o u = s \o (t \o u)
BY ConcatAssociative

\* What is left of a frame behind its first part.
LEMMA RestIs ==
    ASSUME NEW s \in Seq(Octets), NEW t \in Seq(Octets)
    PROVE  At(s \o t, Len(s)) = t
<1>1. Len(s \o t) = Len(s) + Len(t)
  OBVIOUS
<1>2. At(s \o t, Len(s)) = SubSeq(s \o t, Len(s) + 1, Len(s) + Len(t))
  BY <1>1 DEF At
<1>3. SubSeq(s \o t, Len(s) + 1, Len(s) + Len(t)) = t
  OBVIOUS
<1> QED BY <1>2, <1>3

\* What is cut out of the middle of a frame.
LEMMA MiddleIs ==
    ASSUME NEW b \in Seq(Octets), NEW offset \in Nat, NEW s \in Seq(Octets), Holds(b, offset, s)
    PROVE  SubSeq(b, offset + 1, offset + Len(s)) = s
<1> DEFINE m == SubSeq(b, offset + 1, offset + Len(s))
<1>1. m \in Seq(Octets) /\ Len(m) = Len(s)
  BY DEF Holds
<1>2. \A j \in 1..Len(s) : m[j] = b[offset + j]
  BY DEF Holds
<1>3. \A j \in 1..Len(s) : m[j] = s[j]
  BY <1>2 DEF Holds
<1> HIDE DEF m
<1> QED BY <1>1, <1>3 DEF m

\* ReadUint32LE inverts WriteUint32LE, wherever in a frame.
LEMMA WordType ==
    ASSUME NEW v \in Uint32
    PROVE  WriteUint32LE(v) \in Seq(Octets) /\ Len(WriteUint32LE(v)) = 4
<1>1. v \in Nat
  BY DEF Uint32
<1>2. /\ v % 256 \in Octets /\ (v \div 256) % 256 \in Octets
      /\ (v \div 65536) % 256 \in Octets /\ (v \div 16777216) % 256 \in Octets
  BY <1>1 DEF Octets
<1> QED BY <1>2 DEF WriteUint32LE

LEMMA WordRoundTrip ==
    ASSUME NEW b \in Seq(Octets), NEW n \in Nat, NEW v \in Uint32, Holds(b, n, WriteUint32LE(v))
    PROVE  ReadUint32LE(At(b, n)) = v
<1>1. v \in Nat /\ v \div 16777216 < 256
  BY DEF Uint32
<1>2. n + 4 <= Len(b)
  BY WordType DEF Holds
<1>3. At(b, n)[1] = b[n + 1] /\ At(b, n)[2] = b[n + 2] /\ At(b, n)[3] = b[n + 3] /\ At(b, n)[4] = b[n + 4]
  BY <1>2 DEF At
<1>4. \A j \in 1..4 : b[n + j] = WriteUint32LE(v)[j]
  BY WordType DEF Holds
<1>5. /\ b[n + 1] = v % 256 /\ b[n + 2] = (v \div 256) % 256
      /\ b[n + 3] = (v \div 65536) % 256 /\ b[n + 4] = (v \div 16777216) % 256
  BY <1>4 DEF WriteUint32LE
<1>6. v = (v % 256) + 256 * ((v \div 256) % 256) + 65536 * ((v \div 65536) % 256)
            + 16777216 * ((v \div 16777216) % 256)
  BY <1>1
<1>7. ReadUint32LE(At(b, n)) = b[n + 1] + 256 * b[n + 2] + 65536 * b[n + 3] + 16777216 * b[n + 4]
  BY <1>3 DEF ReadUint32LE
<1>8. b[n + 1] + 256 * b[n + 2] + 65536 * b[n + 3] + 16777216 * b[n + 4] = v
  <2> DEFINE w1 == v % 256
             w2 == (v \div 256) % 256
             w3 == (v \div 65536) % 256
             w4 == (v \div 16777216) % 256
  <2>1. b[n + 1] = w1 /\ b[n + 2] = w2 /\ b[n + 3] = w3 /\ b[n + 4] = w4
    BY <1>5
  <2>2. v = w1 + 256 * w2 + 65536 * w3 + 16777216 * w4
    BY <1>6
  <2>3. w1 \in Octets /\ w2 \in Octets /\ w3 \in Octets /\ w4 \in Octets
    BY <1>1 DEF Octets
  <2> HIDE DEF w1, w2, w3, w4
  <2> QED BY <2>1, <2>2
<1> QED BY <1>7, <1>8

\* ServiceResponse::read inverts write.
LEMMA ServiceRoundTrip ==
    ASSUME NEW r \in Requests
    PROVE  /\ ServiceWrite(r) \in Seq(Octets) /\ Len(ServiceWrite(r)) >= 12
           /\ ServiceRead(ServiceWrite(r)) = r
<1> DEFINE e == r.encoding
           rest == r.data
           s1 == WriteUint32LE(r.serviceId)
           s2 == WriteUint32LE(r.callId)
           s3 == WriteUint32LE(Len(e))
           t2 == s1 \o s2
           t3 == t2 \o s3
           t4 == t3 \o e
           b == t4 \o rest
<1>1. /\ r.serviceId \in Uint32 /\ r.callId \in Uint32 /\ Len(e) \in Uint32
      /\ e \in Seq(Octets) /\ rest \in Seq(Octets)
      /\ r = [serviceId |-> r.serviceId, callId |-> r.callId, encoding |-> e, data |-> rest]
  BY DEF Requests
<1>2. ServiceWrite(r) = b
  BY DEF ServiceWrite
<1>3. /\ s1 \in Seq(Octets) /\ Len(s1) = 4
      /\ s2 \in Seq(Octets) /\ Len(s2) = 4
      /\ s3 \in Seq(Octets) /\ Len(s3) = 4
  BY <1>1, WordType
<1> HIDE DEF e, rest, s1, s2, s3
<1>4. t2 \in Seq(Octets) /\ Len(t2) = 8
  <2>1. t2 \in Seq(Octets) /\ Len(t2) = Len(s1) + Len(s2)
    BY <1>3, ConcatType
  <2> QED BY <1>3, <2>1
<1> HIDE DEF t2
<1>5. t3 \in Seq(Octets) /\ Len(t3) = 12
  <2>1. t3 \in Seq(Octets) /\ Len(t3) = Len(t2) + Len(s3)
    BY <1>3, <1>4, ConcatType
  <2> QED BY <1>3, <1>4, <2>1
<1> HIDE DEF t3
<1>6. t4 \in Seq(Octets) /\ Len(t4) = 12 + Len(e)
  BY <1>1, <1>5, ConcatType
<1> HIDE DEF t4
<1>7. b \in Seq(Octets) /\ Len(b) = Len(t4) + Len(rest)
  BY <1>1, <1>6, ConcatType
<1>8. At(b, 12 + Len(e)) = rest
  BY <1>1, <1>6, RestIs
<1>9. Holds(b, 0, t4)
  BY <1>1, <1>6, <1>7, HoldsAll, HoldsConcat
<1> HIDE DEF b
<1>10. Holds(b, 0, t3) /\ Holds(b, 12, e)
  <2>1. Holds(b, 0, t3) /\ Holds(b, 0 + Len(t3), e)
    BY <1>1, <1>5, <1>7, <1>9, HoldsConcat DEF t4
  <2> QED BY <1>5, <2>1
<1>11. Holds(b, 0, t2) /\ Holds(b, 8, s3)
  <2>1. Holds(b, 0, t2) /\ Holds(b, 0 + Len(t2), s3)
    BY <1>3, <1>4, <1>7, <1>10, HoldsConcat DEF t3
  <2> QED BY <1>4, <2>1
<1>12. Holds(b, 0, s1) /\ Holds(b, 4, s2)
  <2>1. Holds(b, 0, s1) /\ Holds(b, 0 + Len(s1), s2)
    BY <1>3, <1>7, <1>11, HoldsConcat DEF t2
  <2> QED BY <1>3, <2>1
<1>13. /\ ReadUint32LE(At(b, 0)) = r.serviceId
       /\ ReadUint32LE(At(b, 4)) = r.callId
       /\ ReadUint32LE(At(b, 8)) = Len(e)
  BY <1>1, <1>7, <1>11, <1>12, WordRoundTrip DEF s1, s2, s3
<1>14. At(b, 0) = b
  BY <1>7 DEF At
<1>15. SubSeq(b, 13, 12 + Len(e)) = e
  <2>1. SubSeq(b, 12 + 1, 12 + Len(e)) = e
    BY <1>1, <1>7, <1>10, MiddleIs
  <2> QED BY <2>1
<1>16. ServiceRead(b) = [serviceId |-> r.serviceId, callId |-> r.callId, encoding |-> e, data |-> rest]
  BY <1>8, <1>13, <1>14, <1>15, Zenon DEF ServiceRead
<1>17. Len(b) >= 12
  <2>1. Len(e) \in Nat /\ Len(rest) \in Nat
    BY <1>1
  <2> QED BY <1>6, <1>7, <2>1
<1> QED BY <1>1, <1>2, <1>7, <1>16, <1>17

\* ReadUint32LE twice inverts WriteUint64LE.
LEMMA TimeRoundTrip ==
    ASSUME NEW t \in Uint64
    PROVE  /\ WriteUint64LE(t) \in Seq(Octets) /\ Len(WriteUint64LE(t)) = 8
           /\ \A b \in Seq(Octets), n \in Nat : Holds(b, n, WriteUint64LE(t)) =>
                <<ReadUint32LE(At(b, n)), ReadUint32LE(At(b, n + 4))>> = t
<1> DEFINE s1 == WriteUint32LE(t[1])
           s2 == WriteUint32LE(t[2])
<1>1. t[1] \in Uint32 /\ t[2] \in Uint32 /\ t = <<t[1], t[2]>>
  BY DEF Uint64
<1>2. WriteUint64LE(t) = s1 \o s2
  BY DEF WriteUint64LE
<1>3. s1 \in Seq(Octets) /\ Len(s1) = 4 /\ s2 \in Seq(Octets) /\ Len(s2) = 4
  BY <1>1, WordType
<1> HIDE DEF s1, s2
<1>4. s1 \o s2 \in Seq(Octets) /\ Len(s1 \o s2) = 8
  <2>1. s1 \o s2 \in Seq(Octets) /\ Len(s1 \o s2) = Len(s1) + Len(s2)
    BY <1>3, ConcatType
  <2> QED BY <1>3, <2>1
<1>5. ASSUME NEW b \in Seq(Octets), NEW n \in Nat, Holds(b, n, s1 \o s2)
      PROVE  <<ReadUint32LE(At(b, n)), ReadUint32LE(At(b, n + 4))>> = t
  <2>1. Holds(b, n, s1) /\ Holds(b, n + Len(s1), s2)
    BY <1>3, <1>5, HoldsConcat
  <2>2. n + Len(s1) = n + 4 /\ n + 4 \in Nat
    BY <1>3
  <2>3. ReadUint32LE(At(b, n)) = t[1]
    BY <1>1, <2>1, WordRoundTrip DEF s1
  <2>4. ReadUint32LE(At(b, n + 4)) = t[2]
    BY <1>1, <2>1, <2>2, WordRoundTrip DEF s2
  <2> QED BY <1>1, <2>3, <2>4, Zenon
<1> QED BY <1>2, <1>4, <1>5

\* A frame that begins with an opcode and a word.
LEMMA OpcodeAndWord ==
    ASSUME NEW op \in Octets, NEW v \in Uint32, NEW t \in Seq(Octets)
    PROVE  LET h == <<op>> \o WriteUint32LE(v)
               b == h \o t
           IN  /\ h \in Seq(Octets) /\ Len(h) = 5
               /\ b \in Seq(Octets) /\ Len(b) = 5 + Len(t)
               /\ b[1] = op
               /\ ReadUint32LE(At(b, 1)) = v
               /\ At(b, 5) = t
               /\ Holds(b, 5, t)
<1> DEFINE o == <<op>>
           w == WriteUint32LE(v)
           h == o \o w
           b == h \o t
<1>1. o \in Seq(Octets) /\ Len(o) = 1 /\ o[1] = op
  OBVIOUS
<1>2. w \in Seq(Octets) /\ Len(w) = 4
  BY WordType
<1> HIDE DEF o, w
<1>3. h \in Seq(Octets) /\ Len(h) = 5
  <2>1. h \in Seq(Octets) /\ Len(h) = Len(o) + Len(w)
    BY <1>1, <1>2, ConcatType
  <2> QED BY <1>1, <1>2, <2>1
<1> HIDE DEF h
<1>4. b \in Seq(Octets) /\ Len(b) = Len(h) + Len(t)
  BY <1>3, ConcatType
<1>5. Holds(b, 0, b)
  BY <1>4, HoldsAll
<1>6. Holds(b, 0, h) /\ Holds(b, 0 + Len(h), t)
  BY <1>3, <1>4, <1>5, HoldsConcat
<1>7. At(b, Len(h)) = t
  BY <1>3, RestIs
<1> HIDE DEF b
<1>8. Holds(b, 0, o) /\ Holds(b, 0 + Len(o), w)
  BY <1>1, <1>2, <1>4, <1>6, HoldsConcat DEF h
<1>9. Holds(b, 1, w)
  BY <1>1, <1>8
<1>10. ReadUint32LE(At(b, 1)) = v
  BY <1>4, <1>9, WordRoundTrip DEF w
<1>11. b[1] = op
  <2>1. b[0 + 1] = o[1]
    BY <1>1, <1>8 DEF Holds
  <2> QED BY <1>1, <2>1
<1>12. Holds(b, 5, t) /\ At(b, 5) = t /\ Len(b) = 5 + Len(t)
  BY <1>3, <1>4, <1>6, <1>7
<1> QED BY <1>3, <1>4, <1>10, <1>11, <1>12 DEF b, h, o, w

\* publish
LEMMA PublishSurvives ==
    ASSUME NEW c \in [op : {"publish"}, channelId : Uint32, data : Seq(Octets)]
    PROVE  ServerReads(ClientFrame(c)) = Meant(c)
<1> DEFINE b == <<1>> \o WriteUint32LE(c.channelId) \o c.data
<1>1. /\ c.channelId \in Uint32 /\ c.data \in Seq(Octets) /\ c.op = "publish"
      /\ c = [op |-> "publish", channelId |-> c.channelId, data |-> c.data]
  OBVIOUS
<1>2. /\ Len(b) = 5 + Len(c.data) /\ b[1] = 1
      /\ ReadUint32LE(At(b, 1)) = c.channelId /\ At(b, 5) = c.data
  <2>1. 1 \in Octets
    BY DEF Octets
  <2> QED BY <1>1, <2>1, OpcodeAndWord
<1>3. ClientFrame(c) = [binary |-> TRUE, body |-> b]
  BY <1>1 DEF ClientFrame, publish, Binary, MESSAGE_DATA
<1> HIDE DEF b
<1>4. ~(Len(b) < 5)
  BY <1>1, <1>2
<1>5. ReadBinary(b) = [op |-> "publish", channelId |-> c.channelId, data |-> c.data]
  <2>1. b[1] = MESSAGE_DATA /\ b[1] # SERVICE_CALL_REQUEST
    BY <1>2 DEF MESSAGE_DATA, SERVICE_CALL_REQUEST
  <2>2. ReadBinary(b) = [op |-> "publish", channelId |-> ReadUint32LE(At(b, 1)), data |-> At(b, 5)]
    BY <1>4, <2>1, Zenon DEF ReadBinary
  <2> QED BY <1>2, <2>2, Zenon
<1>6. ServerReads(ClientFrame(c)) = ReadBinary(b)
  BY <1>3 DEF ServerReads
<1>7. Meant(c) = c
  BY <1>1 DEF Meant
<1> QED BY <1>1, <1>5, <1>6, <1>7

\* sendServiceRequest
LEMMA ServiceRequestSurvives ==
    ASSUME NEW c \in [op : {"serviceRequest"}, request : Requests]
    PROVE  ServerReads(ClientFrame(c)) = Meant(c)
<1> DEFINE o == <<2>>
           s == ServiceWrite(c.request)
           b == o \o s
<1>1. /\ c.request \in Requests /\ c.op = "serviceRequest"
      /\ c = [op |-> "serviceRequest", request |-> c.request]
  OBVIOUS
<1>2. s \in Seq(Octets) /\ Len(s) >= 12 /\ ServiceRead(s) = c.request
  BY <1>1, ServiceRoundTrip
<1>3. ClientFrame(c) = [binary |-> TRUE, body |-> b]
  BY <1>1 DEF ClientFrame, sendServiceRequest, Binary, SERVICE_CALL_REQUEST
<1> HIDE DEF s
<1>4. o \in Seq(Octets) /\ Len(o) = 1 /\ o[1] = 2
  BY DEF Octets
<1>5. At(b, Len(o)) = s
  BY <1>2, <1>4, RestIs
<1>6. Len(b) = 1 + Len(s) /\ b[1] = 2
  BY <1>2
<1>7. At(b, 1) = s /\ ~(Len(b) < 12) /\ b[1] # 1
  BY <1>2, <1>4, <1>5, <1>6
<1> HIDE DEF b, o
<1>8. ReadBinary(b) = [op |-> "serviceRequest", request |-> ServiceRead(s)]
  BY <1>6, <1>7 DEF ReadBinary, MESSAGE_DATA, SERVICE_CALL_REQUEST, EmptySize
<1>9. ServerReads(ClientFrame(c)) = ReadBinary(b)
  BY <1>3 DEF ServerReads
<1>10. Meant(c) = c
  BY <1>1 DEF Meant
<1> QED BY <1>1, <1>2, <1>8, <1>9, <1>10

\* sendMessage
LEMMA DataSurvives ==
    ASSUME NEW m \in [op : {"data"}, subId : Uint32, timestamp : Uint64, data : Seq(Octets)]
    PROVE  HandlerReads(ServerFrame(m)) = Meant(m)
<1> DEFINE h == <<1>> \o WriteUint32LE(m.subId)
           w == WriteUint64LE(m.timestamp)
           p == h \o w
           b == p \o m.data
<1>1. /\ m.subId \in Uint32 /\ m.timestamp \in Uint64 /\ m.data \in Seq(Octets) /\ m.op = "data"
      /\ m = [op |-> "data", subId |-> m.subId, timestamp |-> m.timestamp, data |-> m.data]
  OBVIOUS
<1>2. /\ w \in Seq(Octets) /\ Len(w) = 8
      /\ \A f \in Seq(Octets), n \in Nat : Holds(f, n, w) =>
           <<ReadUint32LE(At(f, n)), ReadUint32LE(At(f, n + 4))>> = m.timestamp
  BY <1>1, TimeRoundTrip
<1>3. ServerFrame(m) = [binary |-> TRUE, body |-> b]
  BY <1>1 DEF ServerFrame, DataFrame, Binary, MESSAGE_DATA
<1>4. b = h \o (w \o m.data) /\ w \o m.data \in Seq(Octets) /\ h \in Seq(Octets) /\ Len(h) = 5
  <2>1. 1 \in Octets
    BY DEF Octets
  <2>2. h \in Seq(Octets) /\ Len(h) = 5
    BY <1>1, <2>1, OpcodeAndWord
  <2> HIDE DEF h, w
  <2>3. w \o m.data \in Seq(Octets)
    BY <1>1, <1>2, ConcatType
  <2>4. (h \o w) \o m.data = h \o (w \o m.data)
    BY <1>1, <1>2, <2>2, Associative
  <2> QED BY <2>2, <2>3, <2>4
<1>5. b \in Seq(Octets) /\ b[1] = 1 /\ ReadUint32LE(At(b, 1)) = m.subId /\ Holds(b, 5, w \o m.data)
  <2>1. 1 \in Octets
    BY DEF Octets
  <2> DEFINE t == w \o m.data
             f == h \o t
  <2>3. t \in Seq(Octets)
    BY <1>4
  <2> HIDE DEF t
  <2>2. f \in Seq(Octets) /\ f[1] = 1 /\ ReadUint32LE(At(f, 1)) = m.subId /\ Holds(f, 5, t)
    BY <1>1, <2>1, <2>3, OpcodeAndWord
  <2> HIDE DEF b, h, w
  <2> QED BY <1>4, <2>2 DEF t
<1> HIDE DEF h, w
<1>6. p \in Seq(Octets) /\ Len(p) = 13
  <2>2. h \in Seq(Octets) /\ w \in Seq(Octets)
    BY <1>2, <1>4
  <2>1. p \in Seq(Octets) /\ Len(p) = Len(h) + Len(w)
    BY <2>2, ConcatType, Zenon
  <2> QED BY <1>2, <1>4, <2>1
<1> HIDE DEF p
<1>7. At(b, Len(p)) = m.data
  BY <1>1, <1>6, RestIs
<1> HIDE DEF b
<1>8. At(b, 13) = m.data
  BY <1>6, <1>7
<1>9. <<ReadUint32LE(At(b, 5)), ReadUint32LE(At(b, 5 + 4))>> = m.timestamp
  <2>1. Holds(b, 5, w)
    BY <1>1, <1>2, <1>5, HoldsConcat
  <2> QED BY <1>2, <1>5, <2>1
<1>10. HandlerReads(ServerFrame(m)) =
         [op |-> "data", subId |-> m.subId, timestamp |-> m.timestamp, data |-> m.data]
  <2>1. b[1] = MESSAGE_DATA /\ b[1] # TIME_DATA /\ b[1] # SERVICE_CALL_RESPONSE /\ b[1] # FETCH_ASSET_RESPONSE
    BY <1>5 DEF MESSAGE_DATA, TIME_DATA, SERVICE_CALL_RESPONSE, FETCH_ASSET_RESPONSE
  <2>2. HandlerReads([binary |-> TRUE, body |-> b]) =
          [op |-> "data", subId |-> ReadUint32LE(At(b, 1)),
           timestamp |-> <<ReadUint32LE(At(b, 5)), ReadUint32LE(At(b, 5 + 4))>>, data |-> At(b, 13)]
    BY <2>1, Zenon DEF HandlerReads
  <2> QED BY <1>3, <1>5, <1>8, <1>9, <2>2, Zenon
<1>11. Meant(m) = m
  BY <1>1 DEF Meant
<1> QED BY <1>1, <1>10, <1>11

\* broadcastTime
LEMMA TimeSurvives ==
    ASSUME NEW m \in [op : {"time"}, timestamp : Uint64]
    PROVE  HandlerReads(ServerFrame(m)) = Meant(m)
<1> DEFINE o == <<2>>
           w == WriteUint64LE(m.timestamp)
           b == o \o w
<1>1. /\ m.timestamp \in Uint64 /\ m.op = "time"
      /\ m = [op |-> "time", timestamp |-> m.timestamp]
  OBVIOUS
<1>2. /\ w \in Seq(Octets)
      /\ \A f \in Seq(Octets), n \in Nat : Holds(f, n, w) =>
           <<ReadUint32LE(At(f, n)), ReadUint32LE(At(f, n + 4))>> = m.timestamp
  BY <1>1, TimeRoundTrip
<1>3. ServerFrame(m) = [binary |-> TRUE, body |-> b]
  BY <1>1 DEF ServerFrame, TimeFrame, Binary, TIME_DATA
<1> HIDE DEF w
<1>4. o \in Seq(Octets) /\ Len(o) = 1
  BY DEF Octets
<1>5. b \in Seq(Octets) /\ b[1] = 2
  BY <1>2, <1>4
<1>6. Holds(b, 0 + Len(o), w)
  BY <1>2, <1>4, <1>5, HoldsAll, HoldsConcat
<1> HIDE DEF b
<1>7. Holds(b, 1, w)
  BY <1>4, <1>6
<1>8. <<ReadUint32LE(At(b, 1)), ReadUint32LE(At(b, 1 + 4))>> = m.timestamp
  BY <1>2, <1>5, <1>7
<1>9. HandlerReads(ServerFrame(m)) = [op |-> "time", timestamp |-> m.timestamp]
  <2>1. b[1] # MESSAGE_DATA /\ b[1] = TIME_DATA /\ b[1] # SERVICE_CALL_RESPONSE /\ b[1] # FETCH_ASSET_RESPONSE
    BY <1>5 DEF MESSAGE_DATA, TIME_DATA, SERVICE_CALL_RESPONSE, FETCH_ASSET_RESPONSE
  <2>2. HandlerReads([binary |-> TRUE, body |-> b]) =
          [op |-> "time", timestamp |-> <<ReadUint32LE(At(b, 1)), ReadUint32LE(At(b, 1 + 4))>>]
    BY <2>1, Zenon DEF HandlerReads
  <2> QED BY <1>3, <1>8, <2>2, Zenon
<1>10. Meant(m) = m
  BY <1>1 DEF Meant
<1> QED BY <1>1, <1>9, <1>10

\* sendServiceResponse
LEMMA ServiceResponseSurvives ==
    ASSUME NEW m \in [op : {"serviceResponse"}, response : Requests]
    PROVE  HandlerReads(ServerFrame(m)) = Meant(m)
<1> DEFINE o == <<3>>
           s == ServiceWrite(m.response)
           b == o \o s
<1>1. /\ m.response \in Requests /\ m.op = "serviceResponse"
      /\ m = [op |-> "serviceResponse", response |-> m.response]
  OBVIOUS
<1>2. s \in Seq(Octets) /\ ServiceRead(s) = m.response
  BY <1>1, ServiceRoundTrip
<1>3. ServerFrame(m) = [binary |-> TRUE, body |-> b]
  BY <1>1 DEF ServerFrame, ResponseFrame, Binary, SERVICE_CALL_RESPONSE
<1> HIDE DEF s
<1>4. o \in Seq(Octets) /\ Len(o) = 1
  BY DEF Octets
<1>5. At(b, Len(o)) = s
  BY <1>2, <1>4, RestIs
<1>6. At(b, 1) = s /\ b[1] = 3
  BY <1>2, <1>4, <1>5
<1> HIDE DEF b, o
<1>7. HandlerReads(ServerFrame(m)) = [op |-> "serviceResponse", response |-> m.response]
  <2>1. b[1] # MESSAGE_DATA /\ b[1] # TIME_DATA /\ b[1] = SERVICE_CALL_RESPONSE /\ b[1] # FETCH_ASSET_RESPONSE
    BY <1>6 DEF MESSAGE_DATA, TIME_DATA, SERVICE_CALL_RESPONSE, FETCH_ASSET_RESPONSE
  <2>2. HandlerReads([binary |-> TRUE, body |-> b]) =
          [op |-> "serviceResponse", response |-> ServiceRead(At(b, 1))]
    BY <2>1, Zenon DEF HandlerReads
  <2> QED BY <1>2, <1>3, <1>6, <2>2, Zenon
<1>8. Meant(m) = m
  BY <1>1 DEF Meant
<1> QED BY <1>1, <1>7, <1>8

\* sendFetchAssetResponse, but for a response with an error message that is not sent.
LEMMA AssetSurvives ==
    ASSUME NEW m \in [op : {"asset"}, requestId : Uint32, status : {0, 1},
                      errorMessage : Seq(Octets), data : Seq(Octets)],
           Len(m.errorMessage) \in Uint32, ~Garbled(m)
    PROVE  HandlerReads(ServerFrame(m)) = Meant(m)
<1> DEFINE e == m.errorMessage
           tail == IF m.status = 1 THEN e ELSE m.data
           o == <<4>>
           w == WriteUint32LE(m.requestId)
           h == o \o w
           u == <<m.status>>
           p == h \o u
           v == WriteUint32LE(Len(e))
           q == p \o v
           b == q \o tail
<1>1. /\ m.requestId \in Uint32 /\ m.status \in {0, 1} /\ m.op = "asset" /\ m.data \in Seq(Octets)
      /\ e \in Seq(Octets) /\ tail \in Seq(Octets) /\ Len(e) \in Nat /\ Len(e) \in Uint32
      /\ m = [op |-> "asset", requestId |-> m.requestId, status |-> m.status,
              errorMessage |-> m.errorMessage, data |-> m.data]
  OBVIOUS
<1>2. m.status = 0 => e = <<>>
  BY <1>1 DEF Garbled
<1>3. ServerFrame(m) = [binary |-> TRUE, body |-> b]
  BY <1>1 DEF ServerFrame, AssetFrame, Binary, FETCH_ASSET_RESPONSE
<1>4. /\ o \in Seq(Octets) /\ Len(o) = 1 /\ o[1] = 4
      /\ u \in Seq(Octets) /\ Len(u) = 1 /\ u[1] = m.status
  BY <1>1 DEF Octets
<1>5. w \in Seq(Octets) /\ Len(w) = 4 /\ v \in Seq(Octets) /\ Len(v) = 4
  BY <1>1, WordType
<1>6. tail = IF m.status = 1 THEN e ELSE m.data
  OBVIOUS
<1> HIDE DEF tail, o, u, w, v, e
<1>7. h \in Seq(Octets) /\ Len(h) = 5
  <2>1. h \in Seq(Octets) /\ Len(h) = Len(o) + Len(w)
    BY <1>4, <1>5, ConcatType
  <2> QED BY <1>4, <1>5, <2>1
<1> HIDE DEF h
<1>8. p \in Seq(Octets) /\ Len(p) = 6
  <2>2. h \in Seq(Octets) /\ u \in Seq(Octets)
    BY <1>4, <1>7
  <2>1. p \in Seq(Octets) /\ Len(p) = Len(h) + Len(u)
    BY <2>2, ConcatType, Zenon
  <2> QED BY <1>4, <1>7, <2>1
<1> HIDE DEF p
<1>9. q \in Seq(Octets) /\ Len(q) = 10
  <2>2. p \in Seq(Octets) /\ v \in Seq(Octets)
    BY <1>5, <1>8
  <2>1. q \in Seq(Octets) /\ Len(q) = Len(p) + Len(v)
    BY <2>2, ConcatType, Zenon
  <2> QED BY <1>5, <1>8, <2>1
<1> HIDE DEF q
<1>10. b \in Seq(Octets) /\ Len(b) = Len(q) + Len(tail)
  BY <1>1, <1>9, ConcatType
<1>11. Holds(b, 0, q) /\ Holds(b, 0 + Len(q), tail) /\ At(b, Len(q)) = tail
  BY <1>1, <1>9, <1>10, HoldsAll, HoldsConcat, RestIs
<1> HIDE DEF b
<1>12. Holds(b, 0, p) /\ Holds(b, 0 + Len(p), v)
  BY <1>5, <1>8, <1>10, <1>11, HoldsConcat DEF q
<1>13. Holds(b, 0, h) /\ Holds(b, 0 + Len(h), u)
  BY <1>4, <1>7, <1>10, <1>12, HoldsConcat DEF p
<1>14. Holds(b, 0, o) /\ Holds(b, 0 + Len(o), w)
  BY <1>4, <1>5, <1>10, <1>13, HoldsConcat DEF h
<1>15. Holds(b, 1, w) /\ Holds(b, 6, v) /\ Holds(b, 10, tail) /\ At(b, 10) = tail /\ Len(b) = 10 + Len(tail)
  BY <1>4, <1>8, <1>9, <1>10, <1>11, <1>12, <1>14
<1>16. b[1] = 4 /\ b[6] = m.status
  <2>1. b[0 + 1] = o[1]
    BY <1>4, <1>14 DEF Holds
  <2>2. b[5 + 1] = u[1]
    BY <1>4, <1>7, <1>13 DEF Holds
  <2> QED BY <1>4, <2>1, <2>2
<1>17. ReadUint32LE(At(b, 1)) = m.requestId
  BY <1>1, <1>10, <1>15, WordRoundTrip DEF w
<1>18. ReadUint32LE(At(b, 6)) = Len(e)
  BY <1>1, <1>10, <1>15, WordRoundTrip DEF v
<1> DEFINE rest == IF m.status = 1 THEN <<>> ELSE m.data
<1>19. SubSeq(b, 11, 10 + Len(e)) = e /\ At(b, 10 + Len(e)) = rest /\ ~(Len(b) < 10 + Len(e))
  <2>1. CASE m.status = 1
    <3>1. tail = e /\ rest = <<>>
      BY <1>6, <2>1
    <3>2. SubSeq(b, 10 + 1, 10 + Len(e)) = e
      BY <1>1, <1>10, <1>15, <3>1, MiddleIs
    <3>3. Len(b) = 10 + Len(e)
      BY <1>15, <3>1
    <3>4. At(b, 10 + Len(e)) = <<>>
      BY <1>1, <1>10, <3>3 DEF At
    <3> QED BY <1>1, <3>1, <3>2, <3>3, <3>4
  <2>2. CASE m.status = 0
    <3>1. tail = m.data /\ rest = m.data /\ e = <<>> /\ Len(e) = 0 /\ Len(tail) \in Nat
      BY <1>1, <1>2, <1>6, <2>2
    <3>2. SubSeq(b, 11, 10) = <<>>
      BY <1>10
    <3>3. 10 + Len(e) = 10
      BY <3>1
    <3> QED BY <1>15, <3>1, <3>2, <3>3
  <2> QED BY <1>1, <2>1, <2>2
<1> HIDE DEF rest
<1>20. HandlerReads(ServerFrame(m)) =
         [op |-> "asset", requestId |-> m.requestId, status |-> m.status, errorMessage |-> e, data |-> rest]
  <2>1. b[1] # MESSAGE_DATA /\ b[1] # TIME_DATA /\ b[1] # SERVICE_CALL_RESPONSE /\ b[1] = FETCH_ASSET_RESPONSE
    BY <1>16 DEF MESSAGE_DATA, TIME_DATA, SERVICE_CALL_RESPONSE, FETCH_ASSET_RESPONSE
  <2> DEFINE n == ReadUint32LE(At(b, 6))
  <2>2. HandlerReads([binary |-> TRUE, body |-> b]) =
          IF Len(b) < 10 + n THEN Refused
          ELSE [op |-> "asset", requestId |-> ReadUint32LE(At(b, 1)), status |-> b[6],
                errorMessage |-> SubSeq(b, 11, 10 + n), data |-> At(b, 10 + n)]
    BY <2>1, Zenon DEF HandlerReads
  <2>3. n = Len(e)
    BY <1>18
  <2> HIDE DEF n
  <2> QED BY <1>3, <1>16, <1>17, <1>19, <2>2, <2>3, Zenon
<1>21. Meant(m) = [op |-> "asset", requestId |-> m.requestId, status |-> m.status, errorMessage |-> e,
                   data |-> rest]
  BY <1>1 DEF Meant, e, rest
<1> QED BY <1>20, <1>21

-----------------------------------------------------------------------------
(* text frames *)

\* The elements of a sequence.
LEMMA Elements ==
    ASSUME NEW S, NEW s \in Seq(S)
    PROVE  s = [i \in DOMAIN s |-> s[i]] /\ \A i \in DOMAIN s : s[i] \in S
OBVIOUS

\* subscribe
LEMMA SubscribeSurvives ==
    ASSUME NEW c \in [op : {"subscribe"}, subscriptions : Seq([subId : Uint32, channelId : Uint32])]
    PROVE  ServerReads(ClientFrame(c)) = Meant(c)
<1> DEFINE s == c.subscriptions
           Sent(x) == [id |-> x.subId, channelId |-> x.channelId]
           Read(x) == [subId |-> x.id, channelId |-> x.channelId]
           sent == [i \in DOMAIN s |-> Sent(s[i])]
           read == [i \in DOMAIN s |-> Read(sent[i])]
           j == [op |-> "subscribe", subscriptions |-> sent]
<1>1. /\ s \in Seq([subId : Uint32, channelId : Uint32]) /\ c.op = "subscribe"
      /\ c = [op |-> "subscribe", subscriptions |-> s]
  OBVIOUS
<1>2. ClientFrame(c) = [binary |-> FALSE, body |-> j]
  BY <1>1 DEF ClientFrame, subscribe, Text, Each
<1>3. ReadText(j) = [op |-> "subscribe", subscriptions |-> read]
  BY DEF ReadText, ReadSubscribe, Each
<1>4. read = s
  <2>1. s = [i \in DOMAIN s |-> s[i]]
    BY <1>1
  <2>2. ASSUME NEW i \in DOMAIN s
        PROVE  Read(sent[i]) = s[i]
    <3>1. s[i] \in [subId : Uint32, channelId : Uint32]
      <4> HIDE DEF s
      <4> QED BY <1>1, Elements, Zenon
    <3>2. sent[i] = Sent(s[i])
      OBVIOUS
    <3> QED BY <3>1, <3>2
  <2> HIDE DEF s, sent, Read
  <2> QED BY <2>1, <2>2
<1>5. ServerReads(ClientFrame(c)) = ReadText(j)
  BY <1>2 DEF ServerReads
<1>6. Meant(c) = c
  BY <1>1 DEF Meant
<1> QED BY <1>1, <1>3, <1>4, <1>5, <1>6

\* advertise
LEMMA AdvertiseSurvives ==
    ASSUME NEW c \in [op : {"advertise"}, channels : Seq([channelId : Uint32, topic : Texts, encoding : Texts,
                                                         schemaName : Texts, schema : Seq(Octets)])]
    PROVE  ServerReads(ClientFrame(c)) = Meant(c)
<1> DEFINE s == c.channels
           Sent(a) == [id |-> a.channelId, topic |-> a.topic, encoding |-> a.encoding,
                       schemaName |-> a.schemaName]
           Read(a) == [channelId |-> a.id, topic |-> a.topic, encoding |-> a.encoding,
                       schemaName |-> a.schemaName, schema |-> <<>>]
           sent == [i \in DOMAIN s |-> Sent(s[i])]
           read == [i \in DOMAIN s |-> Read(sent[i])]
           meant == [i \in DOMAIN s |-> [s[i] EXCEPT !.schema = <<>>]]
           j == [op |-> "advertise", channels |-> sent]
<1>1. /\ s \in Seq([channelId : Uint32, topic : Texts, encoding : Texts, schemaName : Texts,
                    schema : Seq(Octets)])
      /\ c.op = "advertise" /\ c = [op |-> "advertise", channels |-> s]
  OBVIOUS
<1>2. ClientFrame(c) = [binary |-> FALSE, body |-> j]
  BY <1>1 DEF ClientFrame, advertise, Text, Each
<1>3. ReadText(j) = [op |-> "advertise", channels |-> read]
  BY DEF ReadText, ReadAdvertise, Each
<1>4. read = meant
  <2>1. ASSUME NEW i \in DOMAIN s
        PROVE  Read(sent[i]) = [s[i] EXCEPT !.schema = <<>>]
    <3>1. s[i] \in [channelId : Uint32, topic : Texts, encoding : Texts, schemaName : Texts,
                    schema : Seq(Octets)]
      <4> HIDE DEF s
      <4> QED BY <1>1, Elements, Zenon
    <3>2. sent[i] = Sent(s[i])
      OBVIOUS
    <3> DEFINE a == s[i]
    <3> HIDE DEF a, s, sent
    <3>3. a = [channelId |-> a.channelId, topic |-> a.topic, encoding |-> a.encoding,
               schemaName |-> a.schemaName, schema |-> a.schema]
      BY <3>1 DEF a
    <3>4. Read(Sent(a)) = [a EXCEPT !.schema = <<>>]
      BY <3>3
    <3> QED BY <3>2, <3>4 DEF a
  <2> HIDE DEF s, sent, Read
  <2> QED BY <2>1
<1>5. ServerReads(ClientFrame(c)) = ReadText(j)
  BY <1>2 DEF ServerReads
<1>6. Meant(c) = [op |-> "advertise", channels |-> meant]
  BY <1>1 DEF Meant, Each
<1> QED BY <1>3, <1>4, <1>5, <1>6

\* The commands whose object is the op and the arguments.
LEMMA PlainSurvives ==
    ASSUME NEW c \in [op : {"unsubscribe"}, subscriptionIds : Seq(Uint32)]
                       \cup [op : {"unadvertise"}, channelIds : Seq(Uint32)]
                       \cup [op : {"fetchAsset"}, uri : Texts, requestId : Uint32]
    PROVE  ServerReads(ClientFrame(c)) = Meant(c)
<1>1. c.op \in {"unsubscribe", "unadvertise", "fetchAsset"}
  OBVIOUS
<1>2. ClientFrame(c) = [binary |-> FALSE, body |-> c]
  BY <1>1 DEF ClientFrame, PlainCommand, Text
<1>3. ReadText(c) = c
  BY <1>1 DEF ReadText
<1>4. Meant(c) = c
  BY <1>1 DEF Meant
<1> QED BY <1>2, <1>3, <1>4 DEF ServerReads

\* subscribeParameterUpdates, unsubscribeParameterUpdates
LEMMA InterestSurvives ==
    ASSUME NEW c \in [op : {"subscribeParameterUpdates", "unsubscribeParameterUpdates"},
                      parameterNames : Seq(Texts)]
    PROVE  ServerReads(ClientFrame(c)) = Meant(c)
<1> DEFINE names == ToSet(c.parameterNames)
<1>1. /\ c.op \in {"subscribeParameterUpdates", "unsubscribeParameterUpdates"}
      /\ c = [op |-> c.op, parameterNames |-> c.parameterNames]
  OBVIOUS
<1>2. ClientFrame(c) = [binary |-> FALSE, body |-> c]
  BY <1>1 DEF ClientFrame, PlainCommand, Text
<1>3. ReadText(c) = [op |-> c.op, parameterNames |-> names]
  BY <1>1 DEF ReadText, ReadParameterNames
<1>4. Meant(c) = [op |-> c.op, parameterNames |-> names]
  BY <1>1 DEF Meant
<1> QED BY <1>2, <1>3, <1>4 DEF ServerReads

\* An optional member is found where it was written, and only there.
LEMMA OptionalIsFound ==
    ASSUME NEW S, NEW member \in Maybe(S), NEW key
    PROVE  /\ Found(Optional(key, member), key) = member
           /\ DOMAIN Optional(key, member) \subseteq {key}
<1>1. CASE member = <<>>
  BY <1>1 DEF Optional, Found
<1>2. CASE member # <<>>
  <2>1. Len(member) = 1 /\ member = <<member[1]>>
    <3>1. member \in Seq(S) /\ Len(member) <= 1
      BY DEF Maybe
    <3>2. Len(member) \in Nat /\ Len(member) # 0
      BY <1>2, <3>1
    <3>3. Len(member) = 1
      <4> DEFINE n == Len(member)
      <4>1. n \in Nat /\ n # 0 /\ n <= 1
        BY <3>1, <3>2
      <4> HIDE DEF n
      <4>2. n = 1
        BY <4>1
      <4> QED BY <4>2 DEF n
    <3>4. member = [k \in 1..1 |-> member[k]]
      BY <3>1, <3>3
    <3> QED BY <3>3, <3>4
  <2>2. Optional(key, member) = [k \in {key} |-> member[1]]
    BY <1>2 DEF Optional, Entry
  <2> QED BY <2>1, <2>2, Zenon DEF Found
<1> QED BY <1>1, <1>2

\* getParameters
LEMMA GetParametersSurvives ==
    ASSUME NEW c \in [op : {"getParameters"}, names : Seq(Texts), id : Maybe(Texts)]
    PROVE  ServerReads(ClientFrame(c)) = Meant(c)
<1> DEFINE i == Optional("id", c.id)
           j == Joined([op |-> "getParameters", parameterNames |-> c.names], i)
<1>1. /\ c.op = "getParameters" /\ c.id \in Maybe(Texts)
      /\ c = [op |-> "getParameters", names |-> c.names, id |-> c.id]
  OBVIOUS
<1>2. Found(i, "id") = c.id /\ DOMAIN i \subseteq {"id"}
  BY <1>1, OptionalIsFound
<1>3. ClientFrame(c) = [binary |-> FALSE, body |-> j]
  BY <1>1 DEF ClientFrame, getParameters, Text
<1> HIDE DEF i
<1>4. j.op = "getParameters" /\ j.parameterNames = c.names /\ Found(j, "id") = Found(i, "id")
  BY <1>2 DEF Joined, Found
<1> HIDE DEF j
<1>5. ReadText(j) = [op |-> "getParameters", names |-> c.names, id |-> c.id]
  BY <1>2, <1>4 DEF ReadText, ReadGetParameters
<1>6. Meant(c) = c
  BY <1>1 DEF Meant
<1> QED BY <1>1, <1>3, <1>5, <1>6 DEF ServerReads

-----------------------------------------------------------------------------
(* parameters *)

\* A value that is neither array nor struct, inside of one.
LEMMA ScalarSurvives ==
    ASSUME NEW v \in Scalars
    PROVE  /\ ScalarFromJson(ScalarToJson(v)) = Element(v)
           /\ v.type \notin {"array", "struct", "null"}
           /\ v = [type |-> v.type, val |-> v.val]
<1>1. CASE v \in [type : {"byte_array"}, val : Seq(Octets)]
  BY <1>1 DEF ScalarFromJson, ScalarToJson, Element
<1>2. CASE v \in [type : {"bool", "integer", "double", "string"}, val : Seq(Int)]
  BY <1>2 DEF ScalarFromJson, ScalarToJson, Element, NotSet
<1>3. CASE v = NotSet
  BY <1>3 DEF ScalarFromJson, ScalarToJson, Element, NotSet
<1> QED BY <1>1, <1>2, <1>3 DEF Scalars

\* All the values of an array or a struct.
LEMMA ScalarsSurvive ==
    ASSUME NEW s, \A i \in DOMAIN s : s[i] \in Scalars
    PROVE  Each(ScalarFromJson, Each(ScalarToJson, s)) = Each(Element, s)
<1> DEFINE j == [i \in DOMAIN s |-> ScalarToJson(s[i])]
<1>1. Each(ScalarToJson, s) = j
  BY DEF Each
<1>2. Each(ScalarFromJson, j) = [i \in DOMAIN s |-> ScalarFromJson(j[i])]
  BY DEF Each
<1>3. \A i \in DOMAIN s : ScalarFromJson(j[i]) = Element(s[i])
  <2> TAKE i \in DOMAIN s
  <2>1. j[i] = ScalarToJson(s[i])
    OBVIOUS
  <2> HIDE DEF j
  <2> QED BY <2>1, ScalarSurvives, Zenon
<1>4. Each(Element, s) = [i \in DOMAIN s |-> Element(s[i])]
  BY DEF Each
<1> HIDE DEF j
<1> QED BY <1>1, <1>2, <1>3, <1>4, Zenon

\* What becomes of a value: only its parameter knows that it was bytes.
LEMMA ValueSurvives ==
    ASSUME NEW v \in ParameterValues
    PROVE  /\ v = [type |-> v.type, val |-> v.val]
           /\ ValueFromJson(ValueToJson(v)) =
                IF v.type = "byte_array" THEN [type |-> "string", val |-> base64Encode(v.val)] ELSE Value(v)
           /\ v.type = "byte_array" => v.val \in Seq(Octets)
<1>1. CASE v \in Scalars
  <2>1. /\ ScalarFromJson(ScalarToJson(v)) = Element(v) /\ v.type \notin {"array", "struct", "null"}
        /\ v = [type |-> v.type, val |-> v.val]
    BY <1>1, ScalarSurvives
  <2>2. ScalarToJson(v).type \notin {"array", "struct"}
    BY <1>1, <2>1 DEF ScalarToJson
  <2>3. ValueFromJson(ValueToJson(v)) = Element(v)
    BY <2>1, <2>2 DEF ValueFromJson, ValueToJson
  <2>4. Element(v) = IF v.type = "byte_array" THEN [type |-> "string", val |-> base64Encode(v.val)] ELSE Value(v)
    BY <2>1 DEF Element, Value
  <2>5. v.type = "byte_array" => v.val \in Seq(Octets)
    BY <1>1 DEF Scalars, NotSet
  <2> QED BY <2>1, <2>3, <2>4, <2>5
<1>2. CASE v \notin Scalars
  <2> DEFINE s == v.val
  <2>1. v.type \in {"array", "struct"} /\ v = [type |-> v.type, val |-> s]
    BY <1>2 DEF ParameterValues
  <2>2. \A i \in DOMAIN s : s[i] \in Scalars
    <3>1. CASE v \in [type : {"array"}, val : Seq(Scalars)]
      BY <3>1, Elements
    <3>2. CASE v \in [type : {"struct"}, val : UNION {[K -> Scalars] : K \in KeySets}]
      <4>1. PICK K \in KeySets : s \in [K -> Scalars]
        BY <3>2
      <4> QED BY <4>1
    <3> QED BY <1>2, <3>1, <3>2 DEF ParameterValues
  <2>3. Each(ScalarFromJson, Each(ScalarToJson, s)) = Each(Element, s)
    BY <2>2, ScalarsSurvive
  <2> HIDE DEF s
  <2>4. ValueToJson(v) = [type |-> v.type, val |-> Each(ScalarToJson, s)]
    BY <2>1 DEF ValueToJson, s
  <2>5. ValueFromJson(ValueToJson(v)) = [type |-> v.type, val |-> Each(Element, s)]
    BY <2>1, <2>3, <2>4 DEF ValueFromJson
  <2>6. Value(v) = [type |-> v.type, val |-> Each(Element, s)]
    BY <2>1 DEF Value, s
  <2> QED BY <2>1, <2>5, <2>6 DEF s
<1> QED BY <1>1, <1>2

\* A parameter: bytes are bytes again.
LEMMA ParameterSurvives ==
    ASSUME NEW p \in Parameter
    PROVE  /\ ParameterReadable(ParameterToJson(p))
           /\ ParameterFromJson(ParameterToJson(p)) = [p EXCEPT !.value = Value(@)]
<1> DEFINE v == p.value
           j == ParameterToJson(p)
           carried == [name |-> p.name, value |-> Value(v)]
<1>1. v \in ParameterValues /\ p = [name |-> p.name, value |-> v]
  BY DEF Parameter
<1>2. [p EXCEPT !.value = Value(@)] = carried
  BY <1>1
<1> HIDE DEF v
<1>3. /\ v = [type |-> v.type, val |-> v.val]
      /\ ValueFromJson(ValueToJson(v)) =
           IF v.type = "byte_array" THEN [type |-> "string", val |-> base64Encode(v.val)] ELSE Value(v)
      /\ v.type = "byte_array" => v.val \in Seq(Octets)
  BY <1>1, ValueSurvives
<1>4. CASE v.type = "byte_array"
  <2>1. /\ j.name = p.name /\ j["value"] = ValueToJson(v) /\ j["type"] = "byte_array"
        /\ "value" \in DOMAIN j /\ "type" \in DOMAIN j
    BY <1>4 DEF ParameterToJson, Joined, Entry, v
  <2>2. ValueToJson(v) = [type |-> "string", val |-> base64Encode(v.val)]
    BY <1>4 DEF ValueToJson, ScalarToJson
  <2>3. Decodable(base64Encode(v.val)) /\ base64Decode(base64Encode(v.val)) = v.val
    BY <1>3, <1>4, Base64RoundTrip
  <2>4. Value(v) = v
    BY <1>4 DEF Value
  <2> HIDE DEF j
  <2>5. ParameterReadable(j)
    BY <2>1, <2>2, <2>3 DEF ParameterReadable
  <2>6. ParameterFromJson(j) = [name |-> p.name, value |-> [type |-> "byte_array", val |-> v.val]]
    BY <1>3, <1>4, <2>1, <2>3 DEF ParameterFromJson
  <2> QED BY <1>2, <1>3, <1>4, <2>4, <2>5, <2>6 DEF j
<1>5. CASE v.type # "byte_array"
  <2>1. /\ j.name = p.name /\ j["value"] = ValueToJson(v)
        /\ "value" \in DOMAIN j /\ "type" \notin DOMAIN j
    BY <1>5 DEF ParameterToJson, Joined, v
  <2> HIDE DEF j
  <2>2. ParameterReadable(j)
    BY <2>1 DEF ParameterReadable
  <2>3. ParameterFromJson(j) = carried
    BY <1>3, <1>5, <2>1 DEF ParameterFromJson
  <2> QED BY <1>2, <2>2, <2>3 DEF j
<1> QED BY <1>4, <1>5

\* All the parameters of a message.
LEMMA ParametersSurvive ==
    ASSUME NEW ps \in Seq(Parameter)
    PROVE  LET j == Each(ParameterToJson, ps) IN
           /\ \A p \in ToSet(j) : ParameterReadable(p)
           /\ Each(ParameterFromJson, j) = Parameters(ps)
<1> DEFINE j == [i \in DOMAIN ps |-> ParameterToJson(ps[i])]
<1>1. Each(ParameterToJson, ps) = j
  BY DEF Each
<1>2. Each(ParameterFromJson, j) = [i \in DOMAIN ps |-> ParameterFromJson(j[i])]
  BY DEF Each
<1>3. \A i \in DOMAIN ps : /\ ParameterReadable(j[i])
                           /\ ParameterFromJson(j[i]) = [ps[i] EXCEPT !.value = Value(@)]
  <2> TAKE i \in DOMAIN ps
  <2>1. j[i] = ParameterToJson(ps[i])
    OBVIOUS
  <2>2. ps[i] \in Parameter
    BY Elements, Zenon
  <2> HIDE DEF j
  <2> QED BY <2>1, <2>2, ParameterSurvives, Zenon
<1>4. Parameters(ps) = [i \in DOMAIN ps |-> [ps[i] EXCEPT !.value = Value(@)]]
  BY DEF Parameters, Each
<1>5. DOMAIN j = DOMAIN ps
  OBVIOUS
<1> HIDE DEF j
<1>6. \A p \in ToSet(j) : ParameterReadable(p)
  BY <1>3, <1>5 DEF ToSet
<1>7. Each(ParameterFromJson, j) = Parameters(ps)
  BY <1>2, <1>3, <1>4, Zenon
<1> QED BY <1>1, <1>6, <1>7, Zenon

\* setParameters
LEMMA SetParametersSurvives ==
    ASSUME NEW c \in [op : {"setParameters"}, parameters : Seq(Parameter), id : Maybe(Texts)]
    PROVE  ServerReads(ClientFrame(c)) = Meant(c)
<1> DEFINE i == Optional("id", c.id)
           ps == Each(ParameterToJson, c.parameters)
           j == Joined([op |-> "setParameters", parameters |-> ps], i)
           meant == Parameters(c.parameters)
<1>1. /\ c.op = "setParameters" /\ c.id \in Maybe(Texts) /\ c.parameters \in Seq(Parameter)
      /\ c = [op |-> "setParameters", parameters |-> c.parameters, id |-> c.id]
  OBVIOUS
<1>2. Found(i, "id") = c.id /\ DOMAIN i \subseteq {"id"}
  BY <1>1, OptionalIsFound
<1>3. ClientFrame(c) = [binary |-> FALSE, body |-> j]
  BY <1>1 DEF ClientFrame, setParameters, Text
<1>4. (\A p \in ToSet(ps) : ParameterReadable(p)) /\ Each(ParameterFromJson, ps) = meant
  BY <1>1, ParametersSurvive
<1>5. Meant(c) = [op |-> "setParameters", parameters |-> meant, id |-> c.id]
  BY <1>1 DEF Meant
<1> HIDE DEF i, ps, meant
<1>6. j.op = "setParameters" /\ j.parameters = ps /\ Found(j, "id") = Found(i, "id")
  BY <1>2 DEF Joined, Found
<1> HIDE DEF j
<1>7. ReadText(j) = ReadSetParameters(j)
  BY <1>6 DEF ReadText
<1>8. ReadSetParameters(j) = [op |-> "setParameters", parameters |-> meant, id |-> c.id]
  BY <1>2, <1>4, <1>6, Zenon DEF ReadSetParameters
<1> QED BY <1>3, <1>5, <1>7, <1>8 DEF ServerReads

\* The loop over the parameters ends with parameters.
LEMMA WithValueType ==
    ASSUME NEW ps \in Seq(Parameter)
    PROVE  WithValue(ps) \in Seq(Parameter)
<1> DEFINE n == Len(ps)
           Kept(s, i) == IF ps[i].value.type = "not_set" THEN s ELSE Append(s, ps[i])
           Loop(f, m) == /\ f \in [0..m -> Seq(Parameter)]
                         /\ f[0] = <<>>
                         /\ \A i \in 1..m : f[i] = Kept(f[i - 1], i)
           upTo[i \in 0..Len(ps)] ==
               IF i = 0 THEN <<>>
               ELSE IF ps[i].value.type = "not_set" THEN upTo[i - 1]
               ELSE Append(upTo[i - 1], ps[i])
           S == {m \in Nat : m <= n => \E f : Loop(f, m)}
           T == {m \in Nat : m <= n => upTo[m] \in Seq(Parameter)}
<1>1. n \in Nat /\ \A i \in 1..n : ps[i] \in Parameter
  OBVIOUS
<1>2. WithValue(ps) = upTo[n]
  BY Zenon DEF WithValue
<1>3. ASSUME NEW s \in Seq(Parameter), NEW i \in 1..n
      PROVE  Kept(s, i) \in Seq(Parameter)
  BY <1>1
<1>4. 0 \in S
  <2>1. Loop([i \in 0..0 |-> <<>>], 0)
    OBVIOUS
  <2> HIDE DEF Loop
  <2> QED BY <2>1
<1> HIDE DEF Kept, Loop
<1>5. ASSUME NEW m \in S \cap Nat PROVE m + 1 \in S
  <2> SUFFICES ASSUME m + 1 <= n PROVE \E f : Loop(f, m + 1)
    BY <1>5
  <2>1. PICK f : Loop(f, m)
    BY <1>1, <1>5
  <2> DEFINE last == Kept(f[m], m + 1)
             g == [i \in 0..(m + 1) |-> IF i <= m THEN f[i] ELSE last]
  <2>2. f \in [0..m -> Seq(Parameter)] /\ f[0] = <<>> /\ \A i \in 1..m : f[i] = Kept(f[i - 1], i)
    BY <2>1 DEF Loop
  <2>3. m + 1 \in 1..n /\ f[m] \in Seq(Parameter)
    BY <1>1, <2>2
  <2>4. last \in Seq(Parameter)
    BY <1>3, <2>3
  <2> HIDE DEF last
  <2>5. g \in [0..(m + 1) -> Seq(Parameter)] /\ g[0] = <<>>
    BY <2>2, <2>4
  <2>6. (\A i \in 0..m : g[i] = f[i]) /\ g[m + 1] = last
    OBVIOUS
  <2> HIDE DEF g
  <2>7. ASSUME NEW i \in 1..(m + 1) PROVE g[i] = Kept(g[i - 1], i)
    <3>1. CASE i = m + 1
      <4>1. g[m] = f[m] /\ i - 1 = m
        BY <2>6, <3>1
      <4> QED BY <2>6, <3>1, <4>1 DEF last
    <3>2. CASE i # m + 1
      <4>1. i \in 1..m /\ i \in 0..m /\ i - 1 \in 0..m
        BY <3>2
      <4> QED BY <2>2, <2>6, <4>1
    <3> QED BY <3>1, <3>2
  <2>8. Loop(g, m + 1)
    BY <2>5, <2>7 DEF Loop
  <2> QED BY <2>8
<1>6. PICK f : Loop(f, n)
  <2>1. Nat \subseteq S
    <3> HIDE DEF S
    <3> QED BY <1>4, <1>5, SetInduction
  <2>2. n \in S
    BY <1>1, <2>1
  <2> QED BY <1>1, <2>2
<1> HIDE DEF S
<1>7. f = [i \in 0..Len(ps) |-> IF i = 0 THEN <<>>
                                ELSE IF ps[i].value.type = "not_set" THEN f[i - 1]
                                ELSE Append(f[i - 1], ps[i])]
  <2>1. f \in [0..n -> Seq(Parameter)] /\ f[0] = <<>> /\ \A i \in 1..n : f[i] = Kept(f[i - 1], i)
    BY <1>6 DEF Loop
  <2>2. \A i \in 0..n : i = 0 \/ i \in 1..n
    BY <1>1
  <2>3. \A i \in 0..n : f[i] = IF i = 0 THEN <<>>
                               ELSE IF ps[i].value.type = "not_set" THEN f[i - 1]
                               ELSE Append(f[i - 1], ps[i])
    BY <2>1, <2>2, Zenon DEF Kept
  <2>4. f = [i \in 0..n |-> f[i]]
    BY <2>1
  <2> QED BY <2>3, <2>4, Zenon
<1>8. upTo = [i \in 0..Len(ps) |-> IF i = 0 THEN <<>>
                                   ELSE IF ps[i].value.type = "not_set" THEN upTo[i - 1]
                                   ELSE Append(upTo[i - 1], ps[i])]
  BY <1>7, Zenon
<1> HIDE DEF upTo
<1>9. 0 \in T
  BY <1>1, <1>8
<1>10. ASSUME NEW m \in T \cap Nat PROVE m + 1 \in T
  <2> SUFFICES ASSUME m + 1 <= n PROVE upTo[m + 1] \in Seq(Parameter)
    BY <1>10
  <2>1. m + 1 \in 1..n /\ m + 1 \in 0..Len(ps) /\ m + 1 # 0 /\ (m + 1) - 1 = m
    BY <1>1, <1>10
  <2>2. upTo[m + 1] = Kept(upTo[m], m + 1)
    BY <1>8, <2>1 DEF Kept
  <2>3. upTo[m] \in Seq(Parameter)
    BY <1>1, <1>10
  <2> QED BY <1>3, <2>1, <2>2, <2>3
<1>11. upTo[n] \in Seq(Parameter)
  <2>1. Nat \subseteq T
    <3> HIDE DEF T
    <3> QED BY <1>9, <1>10, SetInduction
  <2> QED BY <1>1, <2>1
<1> QED BY <1>2, <1>11

\* publishParameterValues
LEMMA ParameterValuesSurvive ==
    ASSUME NEW m \in [op : {"parameterValues"}, parameters : Seq(Parameter), id : Maybe(Texts)]
    PROVE  HandlerReads(ServerFrame(m)) = Meant(m)
<1> DEFINE i == Optional("id", m.id)
           set == WithValue(m.parameters)
           ps == Each(ParameterToJson, set)
           j == Joined([op |-> "parameterValues", parameters |-> ps], i)
           meant == Parameters(set)
<1>1. /\ m.op = "parameterValues" /\ m.id \in Maybe(Texts) /\ m.parameters \in Seq(Parameter)
      /\ m = [op |-> "parameterValues", parameters |-> m.parameters, id |-> m.id]
  OBVIOUS
<1>2. Found(i, "id") = m.id /\ DOMAIN i \subseteq {"id"}
  BY <1>1, OptionalIsFound
<1>3. ServerFrame(m) = [binary |-> FALSE, body |-> j]
  BY <1>1 DEF ServerFrame, ParametersFrame, Text
<1>4. Meant(m) = [op |-> "parameterValues", parameters |-> meant, id |-> m.id]
  BY <1>1 DEF Meant
<1>5. set \in Seq(Parameter)
  BY <1>1, WithValueType
<1> HIDE DEF i, set
<1>6. Each(ParameterFromJson, ps) = meant
  BY <1>5, ParametersSurvive
<1> HIDE DEF ps, meant
<1>7. j.op = "parameterValues" /\ j.parameters = ps /\ Found(j, "id") = Found(i, "id")
  BY <1>2 DEF Joined, Found
<1> HIDE DEF j
<1>8. HandlerReads([binary |-> FALSE, body |-> j]) =
        [op |-> j.op, id |-> Found(j, "id"), parameters |-> Each(ParameterFromJson, j.parameters)]
  <2>1. j.op # "advertise" /\ j.op # "advertiseServices"
    BY <1>7
  <2> QED BY <1>7, <2>1 DEF HandlerReads
<1>9. HandlerReads([binary |-> FALSE, body |-> j]) =
        [op |-> "parameterValues", id |-> m.id, parameters |-> meant]
  BY <1>2, <1>6, <1>7, <1>8, Zenon
<1>10. [op |-> "parameterValues", id |-> m.id, parameters |-> meant] = Meant(m)
  BY <1>4
<1> QED BY <1>3, <1>9, <1>10

-----------------------------------------------------------------------------
(* channels and services *)

\* What is found in an object that was put together of two.
LEMMA JoinedIs ==
    ASSUME NEW a, NEW b
    PROVE  /\ DOMAIN Joined(a, b) = DOMAIN a \cup DOMAIN b
           /\ \A key : key \in DOMAIN a => Joined(a, b)[key] = a[key]
BY DEF Joined

LEMMA FoundInFirst ==
    ASSUME NEW a, NEW b, NEW key, key \notin DOMAIN b
    PROVE  Found(Joined(a, b), key) = Found(a, key)
BY DEF Joined, Found

LEMMA FoundInSecond ==
    ASSUME NEW a, NEW b, NEW key, key \notin DOMAIN a
    PROVE  Found(Joined(a, b), key) = Found(b, key)
BY DEF Joined, Found

\* A channel with or without its optional member.
LEMMA ChannelSurvives ==
    ASSUME NEW c \in Channel
    PROVE  ChannelFromJson(ChannelToJson(c)) = c
<1> DEFINE a == [id |-> c.id, topic |-> c.topic, encoding |-> c.encoding, schemaName |-> c.schemaName,
                 schema |-> c.schema]
           b == Optional("schemaEncoding", c.schemaEncoding)
           j == Joined(a, b)
<1>1. /\ c.schemaEncoding \in Maybe(Texts)
      /\ c = [id |-> c.id, topic |-> c.topic, encoding |-> c.encoding, schemaName |-> c.schemaName,
              schema |-> c.schema, schemaEncoding |-> c.schemaEncoding]
  BY DEF Channel
<1>2. Found(b, "schemaEncoding") = c.schemaEncoding
  BY <1>1, OptionalIsFound
<1>3. ChannelToJson(c) = j
  BY DEF ChannelToJson
<1> HIDE DEF b
<1>4. Found(j, "schemaEncoding") = c.schemaEncoding
  <2>1. "schemaEncoding" \notin DOMAIN a
    OBVIOUS
  <2> HIDE DEF a
  <2> QED BY <1>2, <2>1, FoundInSecond
<1>5. /\ j.id = c.id /\ j.topic = c.topic /\ j.encoding = c.encoding
      /\ j.schemaName = c.schemaName /\ j.schema = c.schema
  BY DEF Joined
<1> HIDE DEF j
<1> QED BY <1>1, <1>3, <1>4, <1>5 DEF ChannelFromJson

\* The definition of a request or of a response, if there is one.
LEMMA DefinitionSurvives ==
    ASSUME NEW r \in Maybe(Definition)
    PROVE  Each(DefinitionToJson, r) = r /\ Each(DefinitionFromJson, r) = r
<1>1. r = [i \in DOMAIN r |-> r[i]] /\ \A i \in DOMAIN r : r[i] \in Definition
  BY Elements DEF Maybe
<1>2. \A d \in Definition : DefinitionToJson(d) = d
  BY DEF Definition, DefinitionToJson
<1>3. \A i \in DOMAIN r : DefinitionToJson(r[i]) = r[i]
  BY <1>1, <1>2
<1> QED BY <1>1, <1>3, Zenon DEF Each, DefinitionFromJson

\* A service with or without each of its optional members.
LEMMA ServiceSurvives ==
    ASSUME NEW s \in Service
    PROVE  ServiceFromJson(ServiceToJson(s)) = s
<1> DEFINE a == [id |-> s.id, name |-> s.name, type |-> s.type]
           b == Optional("request", s.request)
           c == Optional("response", s.response)
           d == Optional("requestSchema", s.requestSchema)
           e == Optional("responseSchema", s.responseSchema)
           bc == Joined(b, c)
           abc == Joined(a, bc)
           de == Joined(d, e)
           j == Joined(abc, de)
<1>1. /\ s.request \in Maybe(Definition) /\ s.response \in Maybe(Definition)
      /\ s.requestSchema \in Maybe(Texts) /\ s.responseSchema \in Maybe(Texts)
      /\ s = [id |-> s.id, name |-> s.name, type |-> s.type, request |-> s.request,
              response |-> s.response, requestSchema |-> s.requestSchema,
              responseSchema |-> s.responseSchema]
  BY DEF Service
<1>2. /\ Each(DefinitionToJson, s.request) = s.request /\ Each(DefinitionFromJson, s.request) = s.request
      /\ Each(DefinitionToJson, s.response) = s.response /\ Each(DefinitionFromJson, s.response) = s.response
  BY <1>1, DefinitionSurvives
<1>3. ServiceToJson(s) = j
  BY <1>2, Zenon DEF ServiceToJson
<1>4. /\ Found(b, "request") = s.request /\ DOMAIN b \subseteq {"request"}
      /\ Found(c, "response") = s.response /\ DOMAIN c \subseteq {"response"}
      /\ Found(d, "requestSchema") = s.requestSchema /\ DOMAIN d \subseteq {"requestSchema"}
      /\ Found(e, "responseSchema") = s.responseSchema /\ DOMAIN e \subseteq {"responseSchema"}
  BY <1>1, OptionalIsFound
<1>5. a.id = s.id /\ a.name = s.name /\ a.type = s.type /\ DOMAIN a = {"id", "name", "type"}
  OBVIOUS
<1> HIDE DEF a, b, c, d, e
<1>6. /\ DOMAIN bc = DOMAIN b \cup DOMAIN c
      /\ DOMAIN de = DOMAIN d \cup DOMAIN e
  BY JoinedIs
<1>7. DOMAIN abc = DOMAIN a \cup DOMAIN bc
  <2> HIDE DEF bc
  <2> QED BY JoinedIs
<1>8. Found(bc, "request") = s.request /\ Found(bc, "response") = s.response
  <2>1. "request" \notin DOMAIN c /\ "response" \notin DOMAIN b
    BY <1>4
  <2> QED BY <1>4, <2>1, FoundInFirst, FoundInSecond
<1>9. Found(de, "requestSchema") = s.requestSchema /\ Found(de, "responseSchema") = s.responseSchema
  <2>1. "requestSchema" \notin DOMAIN e /\ "responseSchema" \notin DOMAIN d
    BY <1>4
  <2> QED BY <1>4, <2>1, FoundInFirst, FoundInSecond
<1> HIDE DEF bc, de
<1>10. Found(abc, "request") = s.request /\ Found(abc, "response") = s.response
  <2>1. "request" \notin DOMAIN a /\ "response" \notin DOMAIN a
    BY <1>5
  <2> QED BY <1>8, <2>1, FoundInSecond
<1>11. abc["id"] = s.id /\ abc["name"] = s.name /\ abc["type"] = s.type
  <2>1. "id" \in DOMAIN a /\ "name" \in DOMAIN a /\ "type" \in DOMAIN a
    BY <1>5
  <2>2. abc["id"] = a["id"] /\ abc["name"] = a["name"] /\ abc["type"] = a["type"]
    BY <2>1, JoinedIs, Zenon
  <2> QED BY <1>5, <2>2
<1> HIDE DEF abc
<1>12. Found(j, "request") = s.request /\ Found(j, "response") = s.response
  <2>1. "request" \notin DOMAIN de /\ "response" \notin DOMAIN de
    BY <1>4, <1>6
  <2> QED BY <1>10, <2>1, FoundInFirst
<1>13. Found(j, "requestSchema") = s.requestSchema /\ Found(j, "responseSchema") = s.responseSchema
  <2>1. "requestSchema" \notin DOMAIN abc /\ "responseSchema" \notin DOMAIN abc
    BY <1>4, <1>5, <1>6, <1>7
  <2> QED BY <1>9, <2>1, FoundInSecond
<1>14. j["id"] = s.id /\ j["name"] = s.name /\ j["type"] = s.type
  <2>1. "id" \in DOMAIN abc /\ "name" \in DOMAIN abc /\ "type" \in DOMAIN abc
    BY <1>5, <1>7
  <2>2. j["id"] = abc["id"] /\ j["name"] = abc["name"] /\ j["type"] = abc["type"]
    BY <2>1, JoinedIs, Zenon
  <2> QED BY <1>11, <2>2
<1> HIDE DEF j
<1>15. ServiceFromJson(j) =
         [id |-> s.id, name |-> s.name, type |-> s.type, request |-> s.request, response |-> s.response,
          requestSchema |-> s.requestSchema, responseSchema |-> s.responseSchema]
  BY <1>2, <1>12, <1>13, <1>14, Zenon DEF ServiceFromJson
<1> QED BY <1>1, <1>3, <1>15, Zenon

\* The advertisements of channels and of services.
LEMMA AdvertisementsSurvive ==
    ASSUME NEW m \in [op : {"advertise"}, items : Seq(Channel)]
                       \cup [op : {"advertiseServices"}, items : Seq(Service)]
    PROVE  HandlerReads(ServerFrame(m)) = Meant(m)
<1> DEFINE s == m.items
<1>1. /\ m = [op |-> m.op, items |-> s] /\ m.op \in {"advertise", "advertiseServices"}
      /\ m.op = "advertise" => s \in Seq(Channel)
      /\ m.op = "advertiseServices" => s \in Seq(Service)
  OBVIOUS
<1>2. Meant(m) = m
  BY <1>1 DEF Meant
<1> HIDE DEF s
<1>3. CASE m.op = "advertise"
  <2> DEFINE sent == [i \in DOMAIN s |-> ChannelToJson(s[i])]
             j == [op |-> m.op, items |-> sent]
  <2>1. ServerFrame(m) = [binary |-> FALSE, body |-> j]
    BY <1>1, <1>3 DEF ServerFrame, AdvertiseFrame, Text, Each, s
  <2>2. HandlerReads([binary |-> FALSE, body |-> j]) =
          [op |-> m.op, items |-> [i \in DOMAIN s |-> ChannelFromJson(sent[i])]]
    BY <1>3 DEF HandlerReads, Each
  <2>3. ASSUME NEW i \in DOMAIN s PROVE ChannelFromJson(sent[i]) = s[i]
    <3>1. s[i] \in Channel
      BY <1>1, <1>3, Elements
    <3>2. sent[i] = ChannelToJson(s[i])
      OBVIOUS
    <3> HIDE DEF sent
    <3> QED BY <3>1, <3>2, ChannelSurvives
  <2>4. s = [i \in DOMAIN s |-> s[i]]
    BY <1>1, <1>3, Elements
  <2> HIDE DEF sent
  <2>5. [i \in DOMAIN s |-> ChannelFromJson(sent[i])] = s
    BY <2>3, <2>4, Zenon
  <2> QED BY <1>1, <1>2, <2>1, <2>2, <2>5, Zenon
<1>4. CASE m.op = "advertiseServices"
  <2> DEFINE sent == [i \in DOMAIN s |-> ServiceToJson(s[i])]
             j == [op |-> m.op, items |-> sent]
  <2>1. ServerFrame(m) = [binary |-> FALSE, body |-> j]
    BY <1>1, <1>4 DEF ServerFrame, AdvertiseFrame, Text, Each, s
  <2>2. HandlerReads([binary |-> FALSE, body |-> j]) =
          [op |-> m.op, items |-> [i \in DOMAIN s |-> ServiceFromJson(sent[i])]]
    BY <1>4 DEF HandlerReads, Each
  <2>3. ASSUME NEW i \in DOMAIN s PROVE ServiceFromJson(sent[i]) = s[i]
    <3>1. s[i] \in Service
      BY <1>1, <1>4, Elements
    <3>2. sent[i] = ServiceToJson(s[i])
      OBVIOUS
    <3> HIDE DEF sent
    <3> QED BY <3>1, <3>2, ServiceSurvives
  <2>4. s = [i \in DOMAIN s |-> s[i]]
    BY <1>1, <1>4, Elements
  <2> HIDE DEF sent
  <2>5. [i \in DOMAIN s |-> ServiceFromJson(sent[i])] = s
    BY <2>3, <2>4, Zenon
  <2> QED BY <1>1, <1>2, <2>1, <2>2, <2>5, Zenon
<1> QED BY <1>1, <1>3, <1>4

-----------------------------------------------------------------------------
(* what is sent is what is read *)

\* Every call, for arguments of any size.
THEOREM CallsSurvive ==
    ASSUME NEW c \in ClientCalls
    PROVE  ServerReads(ClientFrame(c)) = Meant(c)
BY PublishSurvives, ServiceRequestSurvives, SubscribeSurvives, AdvertiseSurvives, PlainSurvives,
   InterestSurvives, GetParametersSurvives, SetParametersSurvives DEF ClientCalls

\* Every message of the server, but the response that is garbled.
THEOREM MessagesOfServerSurvive ==
    ASSUME NEW m \in ServerMessages, ~Garbled(m)
    PROVE  HandlerReads(ServerFrame(m)) = Meant(m)
BY DataSurvives, TimeSurvives, ServiceResponseSurvives, AssetSurvives, ParameterValuesSurvive,
   AdvertisementsSurvive DEF ServerMessages

\* What is read of a frame is what was meant by it.
Right(d) == Garbled(d.meant) \/ d.read = Meant(d.meant)

\* What is on its way to the server are frames of calls: a handler of the server
\* reads nothing that was not written by the client.
InFlight == {[meant |-> c, frame |-> ClientFrame(c)] : c \in Calls}

FramesInv ==
    /\ wire \in [Conns -> Seq(InFlight)]
    /\ Right(handled) /\ Right(shown)

LEMMA NothingIsRight == Right(Nothing)
BY DEF Right, Nothing, Refused, Meant

LEMMA TransmitKeepsWire ==
    ASSUME FramesInv, NEW c \in Calls, Transmit(c)
    PROVE  wire' \in [Conns -> Seq(InFlight)]
<1> DEFINE f == [meant |-> c, frame |-> ClientFrame(c)]
<1>1. f \in InFlight
  BY DEF InFlight
<1>2. wire' = [wire EXCEPT ![con] = Append(@, f)]
  BY DEF Transmit
<1> HIDE DEF f
<1>3. \A k \in Conns : Append(wire[k], f) \in Seq(InFlight)
  BY <1>1 DEF FramesInv
<1> QED BY <1>2, <1>3 DEF FramesInv

LEMMA ServerTakesKeepsInv ==
    ASSUME FramesInv, NEW k \in Conns, ServerTakes(k)
    PROVE  FramesInv'
<1>1. wire[k] \in Seq(InFlight) /\ wire[k] # <<>>
  BY DEF FramesInv, ServerTakes
<1>2. Head(wire[k]) \in InFlight /\ Tail(wire[k]) \in Seq(InFlight)
  BY <1>1
<1>3. wire' \in [Conns -> Seq(InFlight)] /\ shown' = shown
  BY <1>2 DEF FramesInv, ServerTakes
<1>4. PICK c \in Calls : Head(wire[k]) = [meant |-> c, frame |-> ClientFrame(c)]
  BY <1>2 DEF InFlight
<1>5. handled' = [meant |-> c, read |-> ServerReads(ClientFrame(c))]
  BY <1>4 DEF ServerTakes
<1>6. c \in ClientCalls
  BY ClientAssumption
<1>7. ServerReads(ClientFrame(c)) = Meant(c)
  BY <1>6, CallsSurvive
<1>8. Right(handled')
  BY <1>5, <1>7 DEF Right
<1> QED BY <1>3, <1>8 DEF FramesInv, Right

LEMMA HandlerShown ==
    ASSUME FramesInv, NEW m \in Incoming, messageHandler(m)
    PROVE  FramesInv'
<1>1. m \in ServerMessages
  BY ClientAssumption
<1>2. Garbled(m) \/ HandlerReads(ServerFrame(m)) = Meant(m)
  BY <1>1, MessagesOfServerSurvive
<1>3. shown' = [meant |-> m, read |-> HandlerReads(ServerFrame(m))] /\ wire' = wire /\ handled' = handled
  BY DEF messageHandler
<1>4. Right(shown')
  BY <1>2, <1>3 DEF Right
<1> QED BY <1>3, <1>4 DEF FramesInv, Right

\* A connection that ends takes its frames with it.
LEMMA EndKeepsInv ==
    ASSUME FramesInv, NEW k \in Conns, End(k)
    PROVE  FramesInv'
<1>1. <<>> \in Seq(InFlight)
  OBVIOUS
<1> QED BY <1>1 DEF FramesInv, End, Right

LEMMA FramesInvariant == ClientSpec => []FramesInv
<1>1. ClientInit => FramesInv
  <2>1. <<>> \in Seq(InFlight)
    OBVIOUS
  <2> QED BY <2>1, NothingIsRight DEF ClientInit, FramesInv
<1>2. ASSUME FramesInv, [ClientNext]_clientVars PROVE FramesInv'
  <2>1. CASE UNCHANGED frames
    BY <1>2, <2>1 DEF FramesInv, frames, Right
  <2>2. ASSUME NEW c \in Calls, Send(c) \/ HandlerSend(c) PROVE FramesInv'
    <3>1. Transmit(c) /\ handled' = handled /\ shown' = shown
      BY <2>2 DEF Send, HandlerSend
    <3> QED BY <1>2, <3>1, TransmitKeepsWire DEF FramesInv, Right
  <2>3. ASSUME NEW k \in Conns, PeerCloses(k) \/ Closed(k) PROVE FramesInv'
    BY <1>2, <2>3, EndKeepsInv DEF PeerCloses, Closed
  <2>4. ASSUME NEW k \in Conns, ServerTakes(k) PROVE FramesInv'
    BY <1>2, <2>4, ServerTakesKeepsInv
  <2>5. ASSUME NEW m \in Incoming, messageHandler(m) PROVE FramesInv'
    BY <1>2, <2>5, HandlerShown
  <2>6. CASE HandlerThrows \/ HandlerLocks \/ HandlerReturns
    BY <1>2, <2>6, NothingIsRight DEF HandlerThrows, HandlerLocks, HandlerReturns, HandlerLeaves, FramesInv, Right
  <2>7. CASE ServerDone
    BY <1>2, <2>7, NothingIsRight DEF ServerDone, FramesInv, Right
  <2>8. CASE (\E k \in Conns : Connect(k)) \/ ConnectBadUri \/ Close \/ DtorBegin \/ DtorClose
             \/ DtorStopPerpetual \/ DtorJoin
    BY <2>1, <2>8 DEF Connect, ConnectBadUri, Close, DtorBegin, DtorClose, DtorStopPerpetual, DtorJoin, close
  <2>9. CASE (\E k \in Conns : Resolve(k) \/ Arrives(k)) \/ RunEnds
    BY <2>1, <2>9 DEF Resolve, Arrives, RunEnds
  <2>10. CASE UNCHANGED clientVars
    BY <2>1, <2>10 DEF clientVars
  <2> QED BY <1>2, <2>2, <2>3, <2>4, <2>5, <2>6, <2>7, <2>8, <2>9, <2>10 DEF ClientNext, Step
<1> QED BY <1>1, <1>2, PTL DEF ClientSpec

\* In every state, what a handler of the server or of the client was given is
\* what was meant, whatever was sent, ended, closed or lost before.
THEOREM ReadsWhatWasMeant == ClientSpec => []MessagesSurvive
<1>1. FramesInv => MessagesSurvive
  BY DEF FramesInv, Right, MessagesSurvive
<1> QED BY <1>1, FramesInvariant, PTL
=============================================================================
