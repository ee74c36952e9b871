-------------------------------- MODULE MCSdo --------------------------------
(* Instances of Sdo for TLC.  The payload sizes are scaled down: one byte  *)
(* expedited, two in a segment, block downloads from five bytes on, two    *)
(* segments in a sub-block.                                                *)
EXTENDS Sdo

CONSTANTS fix, vec, ro, wo, big

MCByte == 0..9
MCInit(i) == CASE i = fix -> <<9, 9, 9>> [] i = big -> <<9, 9, 9, 9, 9, 9>>
               [] i = vec -> <<8, 8, 8, 8, 8, 8>> [] i = ro -> <<7>>
               [] i = wo -> <<6>> [] OTHER -> <<9, 9, 9, 9, 9>>
MCInitData == [i \in Idx |-> MCInit(i)]
MCAccess == [i \in Idx |-> CASE i = ro -> "RO" [] i = wo -> "WO" [] OTHER -> "RW"]
MCResizable == [i \in Idx |-> i \in {vec, ro}]
NoLocalValues == [i \in Idx |-> {}]
LocalOnVec == [i \in Idx |-> IF i = vec THEN {<<4, 4, 4, 4, 4>>} ELSE {}]

Vector(bytes) == [data |-> bytes, resizable |-> TRUE]
Buffer(bytes) == [data |-> bytes, resizable |-> FALSE]

Empty == Vector(<<>>)
Expedited == Vector(<<1>>)
Segmented == Vector(<<1, 2, 3>>)
Block == Vector(<<1, 2, 3, 4, 5>>)
VectorReads == {Empty}
BothReads == {Empty, Buffer(<<0, 0, 0>>), Buffer(<<0>>)}
LongWrites == {Segmented, Block}
EveryKind == {Expedited, Segmented, Block}
NoStrays == {}
StrayLengths == {0, 2, 3}
=============================================================================
