--------------------------- MODULE RunExtraction ---------------------------
(***************************************************************************)
(* The two run scanners of detect_color_blobs.c, as pure operators.        *)
(*                                                                         *)
(* The pixel values are abstracted to what the thresholds tell apart:      *)
(*   - a chroma row is the set of chroma cells (column jj covers cell      *)
(*     jj \div 2) whose u and v both lie inside their windows;             *)
(*   - a luma row is the set of columns whose y is >= y_low.               *)
(* A run is a record [run_low, run_high] with run_high one past its last   *)
(* column, as the comments on Uv_Run and Yuv_Run say.                      *)
(***************************************************************************)
EXTENDS Naturals, Sequences

CONSTANT Cols                 \* pixels per row (cols)

ASSUME Cols \in Nat /\ Cols > 0 /\ Cols % 2 = 0

PixelCols  == 0 .. Cols - 1
ChromaCols == 0 .. (Cols \div 2) - 1

\* uv_is_in: pixel column jj reads chroma cell jj / 2.
UvIsIn(inUV, jj) == jj \div 2 \in inUV

\* Mutant: the run is never extended past its first chroma column.
UvRunEndNoExtend(inUV, jj) == jj

\* The inner loop of create_uv_run_sequence: advance by the chroma stride
\* while the run still qualifies; the result is the first column past it.
RECURSIVE UvRunEnd(_, _)
UvRunEnd(inUV, jj) ==
    IF jj < Cols /\ UvIsIn(inUV, jj) THEN UvRunEnd(inUV, jj + 2) ELSE jj

\* The outer loop of create_uv_run_sequence, from column jj on.  A run is
\* closed with run_high = jj - 1 where jj is the first column past it.
RECURSIVE UvRunsFrom(_, _)
UvRunsFrom(inUV, jj) ==
    IF jj >= Cols THEN << >>
    ELSE IF UvIsIn(inUV, jj)
         THEN LET end == UvRunEnd(inUV, jj + 2)
              IN  << [run_low |-> jj, run_high |-> end - 1] >>
                    \o UvRunsFrom(inUV, end)
         ELSE UvRunsFrom(inUV, jj + 2)

CreateUvRunSequence(inUV) == UvRunsFrom(inUV, 0)

\* while (yi < high && y_row[yi] < y_low) ++yi;
RECURSIVE SkipDark(_, _, _)
SkipDark(bright, yi, high) ==
    IF yi < high /\ yi \notin bright THEN SkipDark(bright, yi + 1, high) ELSE yi

\* Mutant: the luma test is dropped from the run-extending loop.
RECURSIVE SkipBrightAnyLuma(_, _, _)
SkipBrightAnyLuma(bright, yi, high) ==
    IF yi < high THEN SkipBrightAnyLuma(bright, yi + 1, high) ELSE yi

\* while (yi < high && y_row[yi] >= y_low) ++yi;
RECURSIVE SkipBright(_, _, _)
SkipBright(bright, yi, high) ==
    IF yi < high /\ yi \in bright THEN SkipBright(bright, yi + 1, high) ELSE yi

\* The body of the while (yi < cols) loop of detect_yuv_runs_in_row, with
\* uvi the 1-based position of the current chroma run.
RECURSIVE YuvRunsFrom(_, _, _, _)
YuvRunsFrom(bright, uv, uvi, yi) ==
    IF yi >= Cols THEN << >>
    ELSE LET high  == uv[uvi].run_high
             start == SkipDark(bright, yi, high)
             stop  == SkipBright(bright, start + 1, high)
             next  == IF start < high THEN stop ELSE start
         IN  (IF start < high
                THEN << [run_low |-> start, run_high |-> stop] >>
                ELSE << >>)
             \o (IF next < high THEN YuvRunsFrom(bright, uv, uvi, next)
                 ELSE IF uvi + 1 > Len(uv) THEN << >>
                 ELSE YuvRunsFrom(bright, uv, uvi + 1, uv[uvi + 1].run_low))

DetectYuvRunsInRow(bright, uv) ==
    IF Len(uv) < 1 THEN << >> ELSE YuvRunsFrom(bright, uv, 1, uv[1].run_low)

(***************************************************************************)
(* Reference: a pixel is detected when its chroma cell and its luma both   *)
(* pass (spec 4.1, 4.2).                                                   *)
(***************************************************************************)
Qualifies(inUV, bright, c) == UvIsIn(inUV, c) /\ c \in bright

RunCols(run) == run.run_low .. run.run_high - 1

=============================================================================
