------------------------ MODULE MCDetectColorBlobs ------------------------
(***************************************************************************)
(* Model values for DetectColorBlobs.                                      *)
(***************************************************************************)
EXTENDS DetectColorBlobs

\* Every chroma row and every luma row of a 4-pixel-wide image.
AllChromaRows == SUBSET ChromaCols
AllLumaRows   == SUBSET PixelCols

\* 8-pixel rows: chroma all in, and luma rows of one and two runs whose
\* overlaps make a run of one row meet two runs of the next.
WideChromaRows == { ChromaCols }
WideLumaRows   == { {}, {0}, {0, 1, 2}, {2, 3, 4}, {0, 2, 3, 4}, {0, 1, 2, 4} }
====
