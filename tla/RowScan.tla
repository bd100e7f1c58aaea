------------------------------ MODULE RowScan ------------------------------
(***************************************************************************)
(* The scanning half of the row loop of detect_color_blobs(): chroma runs  *)
(* are recomputed on even rows only and reused on the odd row of the pair, *)
(* then the luma runs of every row are cut out of them.  Each step is one  *)
(* iteration of the for (ii ...) loop, with the image row chosen freely.   *)
(***************************************************************************)
EXTENDS RunExtraction

CONSTANT Rows                 \* rows per frame

ASSUME Rows \in Nat /\ Rows > 0

VARIABLES
    ii,         \* the row being scanned next
    inUV,       \* chroma cells that pass, for the current row pair
    bright,     \* luma columns that pass, for the last scanned row
    uvRun,      \* uv_run[0 .. uv_run_count-1]
    yuvRun      \* yuv_run1[0 .. yuv_run1_count-1]

vars == << ii, inUV, bright, uvRun, yuvRun >>

Init ==
    /\ ii = 0
    /\ inUV = {}
    /\ bright = {}
    /\ uvRun = << >>
    /\ yuvRun = << >>

\* Mutant: the row loop runs while ii <= rows.
ScanRowPastLastRow ==
    /\ \/ /\ ii % 2 = 0
          /\ \E c \in SUBSET ChromaCols :
                /\ inUV' = c
                /\ uvRun' = CreateUvRunSequence(c)
       \/ /\ ii % 2 = 1
          /\ UNCHANGED << inUV, uvRun >>
    /\ \E b \in SUBSET PixelCols :
          /\ bright' = b
          /\ yuvRun' = DetectYuvRunsInRow(b, uvRun')
    /\ ii' = (ii + 1) % (Rows + 1)

\* One iteration of the row loop (detect_color_blobs lines 490-515); after
\* the last row the next frame starts at row 0.
ScanRow ==
    /\ \/ /\ ii % 2 = 0
          /\ \E c \in SUBSET ChromaCols :
                /\ inUV' = c
                /\ uvRun' = CreateUvRunSequence(c)
       \/ /\ ii % 2 = 1
          /\ UNCHANGED << inUV, uvRun >>
    /\ \E b \in SUBSET PixelCols :
          /\ bright' = b
          /\ yuvRun' = DetectYuvRunsInRow(b, uvRun')
    /\ ii' = (ii + 1) % Rows

Next == ScanRow

Spec == Init /\ [][Next]_vars

-----------------------------------------------------------------------------
TypeOK ==
    /\ ii \in 0 .. Rows - 1
    /\ inUV \subseteq ChromaCols
    /\ bright \subseteq PixelCols
    /\ uvRun \in Seq([run_low : PixelCols, run_high : 0 .. Cols])
    /\ yuvRun \in Seq([run_low : PixelCols, run_high : 0 .. Cols])

(***************************************************************************)
(* The luma runs of a row are non-empty, column-ascending and separated by *)
(* at least one column, and every column in them passes both the chroma    *)
(* test of its row pair and the luma floor: the nested cursors of          *)
(* detect_yuv_runs_in_row never step outside the chroma run they scan nor  *)
(* glue two runs together.                                                 *)
(***************************************************************************)
RunsAreSeparatedQualifyingIntervals ==
    /\ \A k \in 1 .. Len(yuvRun) :
          /\ yuvRun[k].run_low < yuvRun[k].run_high
          /\ \A c \in RunCols(yuvRun[k]) : Qualifies(inUV, bright, c)
    /\ \A k \in 1 .. Len(yuvRun) - 1 :
          yuvRun[k].run_high < yuvRun[k + 1].run_low

(***************************************************************************)
(* The run lists fit the buffers detect_color_blobs() mallocs for them:    *)
(* cols/4 chroma runs and cols/2 luma runs per row.                        *)
(***************************************************************************)
RunsWithinBuffers ==
    /\ Len(uvRun) <= Cols \div 4
    /\ Len(yuvRun) <= Cols \div 2

(***************************************************************************)
(* Every pixel that passes both tests lies in some luma run (spec 4.1:     *)
(* a chroma run closes at the first disqualifying column; spec 8: a        *)
(* 20x20 square at the origin yields the box (0,0,19,19)).                 *)
(***************************************************************************)
EveryQualifyingPixelInARun ==
    \A c \in PixelCols :
        Qualifies(inUV, bright, c) =>
            \E k \in 1 .. Len(yuvRun) : c \in RunCols(yuvRun[k])

=============================================================================
