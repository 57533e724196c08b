----------------------------- MODULE WireFormat -----------------------------
(***************************************************************************)
(* The byte format of the three sensor messages: what serialize() of the   *)
(* sender (dora/*.h) writes and what deserialize() of the bridge           *)
(* (examples/src/*.h) reads back.                                          *)
(*                                                                         *)
(* A byte is known by the value it is a piece of and its place in it, so   *)
(* bytes read with the wrong width or at the wrong offset make no value.   *)
(* Both programs run on one machine: byte order and the width of size_t    *)
(* are the same on both sides.                                             *)
(***************************************************************************)
EXTENDS Naturals, Sequences

CONSTANTS
    Garbage,   \* what memcpy makes of bytes that are not one value's
    TwoTo32    \* 2^32, or a smaller number TLC can represent

\* Values are numbers: characters by their code, bools as 0 and 1.
ASSUME WireFormatAssumption ==
    /\ Garbage \notin Nat
    /\ TwoTo32 \in Nat \ {0}

\* sizeof of the types used
U8 == 1
BOOL == 1
U32 == 4
F32 == 4
F64 == 8
SIZE_T == 8

-----------------------------------------------------------------------------
(* memory *)

\* buffer.insert of an array of n-byte values; Put of a single one
PutAll(values, n) ==
    [j \in 1..(Len(values) * n) |->
        [of |-> values[((j - 1) \div n) + 1], at |-> ((j - 1) % n) + 1]]
Put(value, n) == PutAll(<<value>>, n)

\* a size() assigned to an uint32_t
PutSize(size) == Put(size % TwoTo32, U32)

\* memcpy of n bytes at an offset into a variable, of count variables in a row
Get(buffer, offset, n) ==
    IF /\ offset + n <= Len(buffer)
       /\ SubSeq(buffer, offset + 1, offset + n) = Put(buffer[offset + 1].of, n)
      THEN buffer[offset + 1].of
      ELSE Garbage
GetAll(buffer, offset, count, n) ==
    [i \in 1..count |-> Get(buffer, offset + (i - 1) * n, n)]

\* A size read back; what garbage would be is left open by taking 0.
GetSize(buffer, offset, n) ==
    LET size == Get(buffer, offset, n) IN IF size = Garbage THEN 0 ELSE size

-----------------------------------------------------------------------------
(* Header.  A deserialize() returns the value and the offset behind the     *)
(* last byte it read.                                                       *)

Headers == [seq : Nat, stamp : Nat, frame_id : Seq(Nat)]

HeaderSerialize(h) ==
    Put(h.seq, U32) \o Put(h.stamp, F64) \o PutSize(Len(h.frame_id)) \o PutAll(h.frame_id, U8)

HeaderDeserialize(buffer, offset) ==
    LET size == GetSize(buffer, offset + U32 + F64, U32)
        text == offset + U32 + F64 + U32
    IN  [value  |-> [seq      |-> Get(buffer, offset, U32),
                     stamp    |-> Get(buffer, offset + U32, F64),
                     frame_id |-> GetAll(buffer, text, size, U8)],
         offset |-> text + size]

-----------------------------------------------------------------------------
(* LaserScan; floats are angle_min, angle_max, angle_increment,            *)
(* time_increment, scan_time, range_min, range_max                         *)

LaserScans ==
    [header : Headers, floats : [1..7 -> Nat], ranges : Seq(Nat), intensities : Seq(Nat)]

LaserScanSerialize(scan) ==
    HeaderSerialize(scan.header)
      \o PutAll(scan.floats, F32)
      \o Put(Len(scan.ranges), SIZE_T) \o PutAll(scan.ranges, F32)
      \o Put(Len(scan.intensities), SIZE_T) \o PutAll(scan.intensities, F32)

\* Faulty variant: the size of ranges is read as an uint32_t.
LaserScanDeserializeNarrow(buffer) ==
    LET header == HeaderDeserialize(buffer, 0)
        o1 == header.offset + 7 * F32
        n  == GetSize(buffer, o1, U32)
        o2 == o1 + U32 + n * F32
        m  == GetSize(buffer, o2, SIZE_T)
    IN  [value  |-> [header |-> header.value,
                     floats |-> GetAll(buffer, header.offset, 7, F32),
                     ranges |-> GetAll(buffer, o1 + U32, n, F32),
                     intensities |-> GetAll(buffer, o2 + SIZE_T, m, F32)],
         offset |-> o2 + SIZE_T + m * F32]

LaserScanDeserialize(buffer) ==
    LET header == HeaderDeserialize(buffer, 0)
        o1 == header.offset + 7 * F32
        n  == GetSize(buffer, o1, SIZE_T)
        o2 == o1 + SIZE_T + n * F32
        m  == GetSize(buffer, o2, SIZE_T)
    IN  [value  |-> [header |-> header.value,
                     floats |-> GetAll(buffer, header.offset, 7, F32),
                     ranges |-> GetAll(buffer, o1 + SIZE_T, n, F32),
                     intensities |-> GetAll(buffer, o2 + SIZE_T, m, F32)],
         offset |-> o2 + SIZE_T + m * F32]

-----------------------------------------------------------------------------
(* PointField and PointCloud2 *)

PointFields == [name : Seq(Nat), offset : Nat, datatype : Nat, count : Nat]

PointFieldSerialize(field) ==
    PutSize(Len(field.name)) \o PutAll(field.name, U8)
      \o Put(field.offset, U32) \o Put(field.datatype, U8) \o Put(field.count, U32)

PointFieldDeserialize(buffer, offset) ==
    LET size == GetSize(buffer, offset, U32)
        o1   == offset + U32 + size
    IN  [value  |-> [name     |-> GetAll(buffer, offset + U32, size, U8),
                     offset   |-> Get(buffer, o1, U32),
                     datatype |-> Get(buffer, o1 + U32, U8),
                     count    |-> Get(buffer, o1 + U32 + U8, U32)],
         offset |-> o1 + U32 + U8 + U32]

\* The fields one after the other, and the loop that reads them back.
FieldsSerialize(fields) ==
    LET upTo[i \in 0..Len(fields)] ==
            IF i = 0 THEN <<>> ELSE upTo[i - 1] \o PointFieldSerialize(fields[i])
    IN  upTo[Len(fields)]

FieldsDeserialize(buffer, offset, count) ==
    LET upTo[i \in 0..count] ==
            IF i = 0
              THEN [value |-> <<>>, offset |-> offset]
              ELSE LET field == PointFieldDeserialize(buffer, upTo[i - 1].offset)
                   IN  [value  |-> Append(upTo[i - 1].value, field.value),
                        offset |-> field.offset]
    IN  upTo[count]

PointClouds ==
    [header : Headers, height : Nat, width : Nat, fields : Seq(PointFields),
     is_bigendian : Nat, point_step : Nat, row_step : Nat, data : Seq(Nat), is_dense : Nat]

PointCloud2Serialize(cloud) ==
    HeaderSerialize(cloud.header)
      \o Put(cloud.height, U32) \o Put(cloud.width, U32)
      \o PutSize(Len(cloud.fields)) \o FieldsSerialize(cloud.fields)
      \o Put(cloud.is_bigendian, BOOL) \o Put(cloud.point_step, U32) \o Put(cloud.row_step, U32)
      \o PutSize(Len(cloud.data)) \o PutAll(cloud.data, U8)
      \o Put(cloud.is_dense, BOOL)

PointCloud2Deserialize(buffer) ==
    LET header == HeaderDeserialize(buffer, 0)
        o1     == header.offset
        fields == FieldsDeserialize(buffer, o1 + 3 * U32, GetSize(buffer, o1 + 2 * U32, U32))
        o2     == fields.offset
        o3     == o2 + BOOL + 2 * U32
        size   == GetSize(buffer, o3, U32)
        o4     == o3 + U32 + size
    IN  [value  |-> [header       |-> header.value,
                     height       |-> Get(buffer, o1, U32),
                     width        |-> Get(buffer, o1 + U32, U32),
                     fields       |-> fields.value,
                     is_bigendian |-> Get(buffer, o2, BOOL),
                     point_step   |-> Get(buffer, o2 + BOOL, U32),
                     row_step     |-> Get(buffer, o2 + BOOL + U32, U32),
                     data         |-> GetAll(buffer, o3 + U32, size, U8),
                     is_dense     |-> Get(buffer, o4, BOOL)],
         offset |-> o4 + BOOL]

-----------------------------------------------------------------------------
(* Path; a pose is its seven doubles: position x y z, orientation x y z w *)

Paths == [header : Headers, points : Seq([1..7 -> Nat])]

PathSerialize(path) ==
    HeaderSerialize(path.header)
      \o Put(Len(path.points), SIZE_T)
      \o PutAll([j \in 1..(7 * Len(path.points)) |->
                    path.points[((j - 1) \div 7) + 1][((j - 1) % 7) + 1]], F64)

PathDeserialize(buffer) ==
    LET header == HeaderDeserialize(buffer, 0)
        o1     == header.offset + SIZE_T
        size   == GetSize(buffer, header.offset, SIZE_T)
    IN  [value  |-> [header |-> header.value,
                     points |-> [i \in 1..size |-> GetAll(buffer, o1 + (i - 1) * 7 * F64, 7, F64)]],
         offset |-> o1 + size * 7 * F64]
=============================================================================
