------------------------------ MODULE MCBridge ------------------------------
(* Bridge for TLC: a few messages of every kind, with arrays of different   *)
(* lengths (none included) and values that tell the fields apart.  The      *)
(* kinds do not meet, so their variants need not be combined.               *)
EXTENDS Bridge

MCHeader(stamp, frame_id) == [seq |-> 11, stamp |-> stamp, frame_id |-> frame_id]

MCScan(stamp, frame_id, ranges, intensities) ==
    [header |-> MCHeader(stamp, frame_id), floats |-> <<21, 22, 23, 24, 25, 26, 27>>,
     ranges |-> ranges, intensities |-> intensities]

MCField(name, type) == [name |-> name, offset |-> 41, datatype |-> type, count |-> 1]

MCCloud(stamp, fields, data) ==
    [header |-> MCHeader(stamp, <<12>>), height |-> 1, width |-> 2, fields |-> fields,
     is_bigendian |-> 0, point_step |-> 12, row_step |-> 24, data |-> data, is_dense |-> 1]

MCPath(stamp, points) == [header |-> MCHeader(stamp, <<>>), points |-> points]

MCMessages ==
    {<<MCScan(4, <<12, 13>>, <<31, 32>>, <<33>>),
       MCCloud(7, <<MCField(<<14>>, 7), MCField(<<15, 16>>, 9)>>, <<51, 52, 53>>),
       MCPath(8, <<>>)>>,
     <<MCScan(5, <<>>, <<>>, <<33, 34>>),
       MCCloud(6, <<>>, <<51>>),
       MCPath(9, <<<<61, 62, 63, 64, 65, 66, 67>>, <<71, 72, 73, 74, 75, 76, 77>>>>)>>,
     <<MCScan(5, <<12>>, <<31>>, <<>>),
       MCCloud(7, <<MCField(<<>>, 8)>>, <<>>),
       MCPath(9, <<<<61, 62, 63, 64, 65, 66, 67>>>>)>>}
=============================================================================
