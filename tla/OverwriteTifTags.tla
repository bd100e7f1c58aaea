-------------------------- MODULE OverwriteTifTags --------------------------
(***************************************************************************)
(* overwrite_tif_tags(): the bounding boxes are written over the TIFF tags *)
(* of the JPEG APP1 segment.  A buffer is given by its first six bytes     *)
(* (the marker and the big-endian segment length); the result records the *)
(* return value, the bytes written from byte[0] = buf[12] on, and          *)
(* byte_count, the end of the zero padding.                                *)
(***************************************************************************)
EXTENDS Integers, Sequences, SequencesExt

SIZE_FIELD_OFFSET        == 4
TIFF_TAGS_OFFSET         == 12
BYTE_OFFSET_OF_BBOX_DATA == 50
BYTES_PER_COORD          == 2

JpegApp1 == << 255, 216, 255, 225 >>     \* 0xff 0xd8 0xff 0xe1

\* (n & (0xff << 8k)) >> 8k
ByteOf(n, k) == (n \div 2^(8 * k)) % 256

BE16(n) == << ByteOf(n, 1), ByteOf(n, 0) >>
BE32(n) == << ByteOf(n, 3), ByteOf(n, 2), ByteOf(n, 1), ByteOf(n, 0) >>

\* byte[0 .. 49]: byte order, version, IFD offset, IFD count, the width,
\* height and bbox entries, and the end-of-IFDs marker.
TiffDirectory(cols, rows, n) ==
    << 77, 77, 0, 42, 0, 0, 0, 8, 0, 3 >>
    \o << 1, 0, 0, 4, 0, 0, 0, 1 >> \o BE32(cols)
    \o << 1, 1, 0, 4, 0, 0, 0, 1 >> \o BE32(rows)
    \o << 150, 150, 0, 3, 0, 0 >> \o BE16(n) \o << 0, 0, 0, BYTE_OFFSET_OF_BBOX_DATA >>
    \o << 0, 0, 0, 0 >>

\* Mutant: the loop writes the low byte of each coordinate first.
CoordBytesLowFirst(coord, n) ==
    FlattenSeq([i \in 1 .. n |-> << ByteOf(coord[i], 0), ByteOf(coord[i], 1) >>])

\* The for (ii ...) loop writing bbox_coord[0 .. n-1], each big-endian.
CoordBytes(coord, n) == FlattenSeq([i \in 1 .. n |-> BE16(coord[i])])

NoWrite == [ret |-> -1, tags |-> << >>, end |-> 0]

\* while (p < &byte[byte_count]) *(p++) = 0;  the writes end at byte_count.
PaddingEnd(byte_count) == byte_count

\* buf is a function on 0..5, coord a sequence (coord[i] is bbox_coord[i-1]).
OverwriteTifTags(cols, rows, bbox_coord_count, coord, buf) ==
    IF << buf[0], buf[1], buf[2], buf[3] >> # JpegApp1 THEN NoWrite
    ELSE LET total_header_bytes == buf[4] * 256 + buf[5] + SIZE_FIELD_OFFSET
             byte_count == (total_header_bytes - TIFF_TAGS_OFFSET) % 2^16
             max_data_bytes == byte_count - BYTE_OFFSET_OF_BBOX_DATA
         IN  IF max_data_bytes < 0 THEN NoWrite
             ELSE LET max_coords == max_data_bytes \div BYTES_PER_COORD
                      fit == IF bbox_coord_count > max_coords
                             THEN max_coords ELSE bbox_coord_count
                      n == fit - (fit % 4)
                  IN  [ret  |-> n,
                       tags |-> TiffDirectory(cols, rows, n) \o CoordBytes(coord, n),
                       end  |-> PaddingEnd(byte_count)]

-----------------------------------------------------------------------------
(***************************************************************************)
(* Reference: the bytes the call leaves at byte[0 .. end-1] (the padding   *)
(* loop zeroes what the tags do not cover), and a reader of the TIFF       *)
(* layout that follows the IFD offset, the entry count and the tags, as a  *)
(* conforming reader would (spec 8, serialization round-trip).             *)
(***************************************************************************)
Written(res) ==
    [i \in 0 .. res.end - 1 |-> IF i < Len(res.tags) THEN res.tags[i + 1] ELSE 0]

U16(w, i) == w[i] * 256 + w[i + 1]
U32(w, i) == U16(w, i) * 65536 + U16(w, i + 2)

\* The value of the IFD entry with the given tag: inline for one 4-byte
\* integer, or a list of 16-bit values at the entry's offset.
EntryValue(w, tag) ==
    LET ifd == U32(w, 4)
        e   == CHOOSE j \in 0 .. U16(w, ifd) - 1 : U16(w, ifd + 2 + 12 * j) = tag
        at  == ifd + 2 + 12 * e
    IN  IF U16(w, at + 2) = 4 THEN U32(w, at + 8)
        ELSE [i \in 1 .. U32(w, at + 4) |-> U16(w, U32(w, at + 8) + 2 * (i - 1))]

ReadTiff(w) ==
    [order  |-> << w[0], w[1] >>,
     cols   |-> EntryValue(w, 256),
     rows   |-> EntryValue(w, 257),
     coords |-> EntryValue(w, 38550)]

-----------------------------------------------------------------------------
(***************************************************************************)
(* One call per step, with the arguments drawn from small sets: a header   *)
(* whose segment length is one of SegmentLengths, image dimensions from    *)
(* Dims, and a prefix of one of CoordArrays as the boxes.                  *)
(***************************************************************************)
CONSTANTS Markers, SegmentLengths, Dims, CoordArrays

Header(marker, len) ==
    [i \in 0 .. 5 |-> IF i < 4 THEN marker[i + 1]
                      ELSE IF i = 4 THEN len \div 256 ELSE len % 256]

VARIABLES buf, cols, rows, coord, count, result

vars == << buf, cols, rows, coord, count, result >>

\* The state after a call with these arguments.
Called(m, len, d, c, k) ==
    /\ buf = Header(m, len)
    /\ cols = d[1] /\ rows = d[2]
    /\ coord = c /\ count = k
    /\ result = OverwriteTifTags(d[1], d[2], k, c, Header(m, len))

Init ==
    \E m \in Markers, len \in SegmentLengths, d \in Dims, c \in CoordArrays :
        \E k \in 0 .. Len(c) : Called(m, len, d, c, k)

Encode ==
    \E m \in Markers, len \in SegmentLengths, d \in Dims, c \in CoordArrays :
        \E k \in 0 .. Len(c) :
            /\ buf' = Header(m, len)
            /\ cols' = d[1] /\ rows' = d[2]
            /\ coord' = c /\ count' = k
            /\ result' = OverwriteTifTags(d[1], d[2], k, c, Header(m, len))

Spec == Init /\ [][Encode]_vars

SegmentLength == buf[4] * 256 + buf[5]

(***************************************************************************)
(* Round trip (spec 8): when overwrite_tif_tags succeeds, a TIFF reader    *)
(* of the bytes it wrote finds Motorola order, the width and height, and   *)
(* exactly the first ret coordinates, where ret is the largest multiple of *)
(* four that fits both the caller's count and the header space.  The      *)
(* byte splitting, the IFD offsets and the truncation must all agree.      *)
(***************************************************************************)
RoundTrip ==
    result.ret >= 0 =>
        LET n     == result.ret
            space == SegmentLength + SIZE_FIELD_OFFSET - TIFF_TAGS_OFFSET
                       - BYTE_OFFSET_OF_BBOX_DATA
        IN  /\ ReadTiff(Written(result))
                  = [order |-> << 77, 77 >>, cols |-> cols, rows |-> rows,
                     coords |-> SubSeq(coord, 1, n)]
            /\ n % 4 = 0 /\ n <= count /\ BYTES_PER_COORD * n <= space
            /\ n + 4 > count \/ BYTES_PER_COORD * (n + 4) > space

(***************************************************************************)
(* Every byte overwrite_tif_tags writes, the tags and the zero padding     *)
(* alike, lies inside the APP1 segment its length field declares (buf[4]  *)
(* .. buf[4 + length - 1]); a header too short for the tags must be       *)
(* refused (spec 4.6 and the comment on the return value in               *)
(* overwrite_tif_tags.h).                                                  *)
(***************************************************************************)
WritesWithinSegment ==
    result.ret >= 0 =>
        TIFF_TAGS_OFFSET + Max({ result.end, Len(result.tags) })
            <= SIZE_FIELD_OFFSET + SegmentLength

====
