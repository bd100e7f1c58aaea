------------------------- MODULE MCOverwriteTifTags -------------------------
EXTENDS OverwriteTifTags

\* The APP1 marker, and the APP0 marker of a JFIF file that must be refused.
MCMarkers == { JpegApp1, << 255, 216, 255, 224 >> }

\* Around the smallest header that holds the directory (58) and room for
\* one (66) and two (74) boxes.
MCSegmentLengths == { 8, 57, 58, 59, 65, 66, 67, 73, 74, 75 }

\* The short segment lengths whose byte_count wraps, with the above.
MCShortLengths == MCSegmentLengths \cup { 0, 7 }

\* 640 x 480, and dimensions that use all four bytes (TLC integers stop at 2^31 - 1).
MCDims == { << 640, 480 >>, << 16909060, 2147483647 >> }

\* Nine coordinates: every byte value pattern of an unsigned short.
MCCoordArrays == { << 10, 10, 50, 50, 258, 1, 65535, 0, 4660 >> }
=============================================================================
