-------------------------- MODULE DetectColorBlobs --------------------------
(***************************************************************************)
(* detect_color_blobs.c: the disjoint-set forest with per-set statistics,  *)
(* the row-pair sweep that unions overlapping luma runs of consecutive     *)
(* rows, the frame loop that feeds it, and copy_best_bounding_boxes().     *)
(*                                                                         *)
(* One step is one iteration of a loop of the code: a row scanned, one     *)
(* iteration of the sweep in yuv_run_row_union (with the whole             *)
(* yuv_run_union call it makes, find_root recursion and link included),    *)
(* the end of a row, the selection, the start of the next frame.           *)
(*                                                                         *)
(* The program is built with or without NDEBUG.  With asserts, a failed    *)
(* assert() aborts the process (fault = "assert").  Without them the code  *)
(* runs on; a read outside root_list is undefined behaviour and ends the   *)
(* model (fault = "ub").                                                   *)
(*                                                                         *)
(* Abstractions: the statistics written into the sentinel blob_set[0] are  *)
(* dropped (it is never on root_list, so nothing reads them); sum_x and    *)
(* sum_y are left out (no output reads them).  members and image are       *)
(* history variables used only by the properties.                          *)
(***************************************************************************)
EXTENDS RunExtraction, FiniteSets, FiniteSetsExt, Graphs, TLC

CONSTANTS
    Rows,             \* rows per frame
    MaxRuns,          \* max_runs of blob_list_init: blob_set has MaxRuns+1 entries
    MaxBlobs,         \* max_blobs of blob_list_init: root_list capacity
    MinPixels,        \* min_pixels_per_blob of copy_best_bounding_boxes
    BboxElementCount, \* bbox_element_count of copy_best_bounding_boxes
    NDEBUG,           \* TRUE when assert() is compiled out
    ChromaRows,       \* the chroma rows (sets of passing cells) a frame may hold
    LumaRows          \* the luma rows (sets of passing columns) a frame may hold

ASSUME /\ Rows \in Nat /\ Rows > 0
       /\ MaxRuns \in Nat /\ MaxBlobs \in Nat \ {0}
       /\ MinPixels \in Nat /\ BboxElementCount \in Nat
       /\ NDEBUG \in BOOLEAN
       /\ ChromaRows \subseteq SUBSET ChromaCols /\ ChromaRows # {}
       /\ LumaRows \subseteq SUBSET PixelCols /\ LumaRows # {}

MaxSets == MaxRuns + 1                 \* max_blob_set_count
Entries == 0 .. MaxRuns
Slots   == 0 .. MaxBlobs - 1

VARIABLES
    blobSet,    \* blob_set[]: parent_index, rank, root_list_index, stats
    usedSets,   \* used_blob_set_count
    usedRoots,  \* used_root_list_count
    rootList,   \* root_list[]
    fault,      \* "none", "assert" (aborted) or "ub"
    pc,         \* "idle", "scan", "union" or "select"
    ii,         \* row index of the frame loop
    uvRun,      \* chroma runs of the current row pair
    prevRuns,   \* yuv_run0: runs of row ii-1, with parent_index
    curRuns,    \* yuv_run1: runs of row ii, with parent_index
    ai, bi, x,  \* cursors of yuv_run_row_union
    bbox,       \* bbox_element[], one record per box (blob is history)
    members,    \* history: runs whose pixels were added to each entry
    image       \* history: runs of finished rows with their final parent

vars == << blobSet, usedSets, usedRoots, rootList, fault, pc, ii, uvRun,
           prevRuns, curRuns, ai, bi, x, bbox, members, image >>

-----------------------------------------------------------------------------
(* Blob_Stats operations on an entry record. *)

Blank == [parent |-> 0, rank |-> 0, rli |-> 0, min_x |-> 0, max_x |-> 0,
          min_y |-> 0, max_y |-> 0, count |-> 0]

RunAt(row, run) == [row |-> row, run_low |-> run.run_low, run_high |-> run.run_high]

Width(run) == run.run_high - run.run_low

\* Mutant: stats_init sets max_x = col_high, one past the run.
NewEntryMaxXPastRun(n, slot, row, run) ==
    [parent |-> n, rank |-> 0, rli |-> slot,
     min_x |-> run.run_low, max_x |-> run.run_high,
     min_y |-> row, max_y |-> row, count |-> Width(run)]

\* make_set's entry: a self-parented root whose stats are stats_init's.
NewEntry(n, slot, row, run) ==
    [parent |-> n, rank |-> 0, rli |-> slot,
     min_x |-> run.run_low, max_x |-> run.run_high - 1,
     min_y |-> row, max_y |-> row, count |-> Width(run)]

\* stats_add_singleton, with its comparison of row against min_y.
StatsAddSingleton(e, row, run) ==
    LET minY == IF row < e.min_y THEN row ELSE e.min_y
    IN  [e EXCEPT !.min_x = IF run.run_low < @ THEN run.run_low ELSE @,
                  !.max_x = IF run.run_high - 1 > @ THEN run.run_high - 1 ELSE @,
                  !.min_y = minY,
                  !.max_y = IF row > minY THEN row ELSE @,
                  !.count = @ + Width(run)]

\* Mutant: the child's pixel count is not added.
StatsAddDropsCount(a, b) ==
    [a EXCEPT !.min_x = IF b.min_x < @ THEN b.min_x ELSE @,
              !.max_x = IF b.max_x > @ THEN b.max_x ELSE @,
              !.min_y = IF b.min_y < @ THEN b.min_y ELSE @,
              !.max_y = IF b.max_y > @ THEN b.max_y ELSE @]

\* stats_add: a = a + b.
StatsAdd(a, b) ==
    [a EXCEPT !.min_x = IF b.min_x < @ THEN b.min_x ELSE @,
              !.max_x = IF b.max_x > @ THEN b.max_x ELSE @,
              !.min_y = IF b.min_y < @ THEN b.min_y ELSE @,
              !.max_y = IF b.max_y > @ THEN b.max_y ELSE @,
              !.count = @ + b.count]

-----------------------------------------------------------------------------
(* The Blob_List operations, as functions of a record F holding the forest *)
(* (bs, used, nroots, rl), the fault flag and the members history.         *)

Live(F) == F.fault = "none"

\* assert(cond): aborts unless NDEBUG.
CAssert(F, cond) ==
    IF Live(F) /\ ~cond /\ ~NDEBUG THEN [F EXCEPT !.fault = "assert"] ELSE F

\* Mutant: blob_set is full only past max_blob_set_count.
MakeSetSetGuardOffByOne(F, run, row) ==
    IF F.used > MaxSets \/ F.nroots >= MaxBlobs
    THEN [f |-> F, idx |-> 0]
    ELSE LET n == F.used
             slot == F.nroots
         IN  [f |-> [F EXCEPT !.bs[n] = NewEntry(n, slot, row, run),
                              !.rl[slot] = n,
                              !.nroots = slot + 1,
                              !.used = n + 1,
                              !.members[n] = {RunAt(row, run)}],
              idx |-> n]

MakeSet(F, run, row) ==
    IF F.used >= MaxSets \/ F.nroots >= MaxBlobs
    THEN [f |-> F, idx |-> 0]
    ELSE LET n == F.used
             slot == F.nroots
         IN  [f |-> [F EXCEPT !.bs[n] = NewEntry(n, slot, row, run),
                              !.rl[slot] = n,
                              !.nroots = slot + 1,
                              !.used = n + 1,
                              !.members[n] = {RunAt(row, run)}],
              idx |-> n]

\* Mutant: the moved entry's root_list_index is not updated.
DeleteRootListEntryNoBackPointer(F, d) ==
    LET ix == F.bs[d].rli
        F1 == CAssert(CAssert(F, ix < F.nroots), F.rl[ix] = d)
    IN  IF ~Live(F1) THEN F1
        ELSE IF F1.nroots = 0 THEN [F1 EXCEPT !.fault = "ub"]
        ELSE [F1 EXCEPT !.nroots = F1.nroots - 1, !.rl[ix] = F1.rl[F1.nroots - 1]]

DeleteRootListEntry(F, d) ==
    LET ix == F.bs[d].rli
        F1 == CAssert(CAssert(F, ix < F.nroots), F.rl[ix] = d)
    IN  IF ~Live(F1) THEN F1
        ELSE IF F1.nroots = 0 THEN [F1 EXCEPT !.fault = "ub"]
        ELSE LET last == F1.nroots - 1
                 bx == F1.rl[last]
             IN  [F1 EXCEPT !.nroots = last, !.rl[ix] = bx, !.bs[bx].rli = ix]

SetParent(F, c, p) ==
    LET F1 == CAssert(CAssert(F, c < F.used), p < F.used)
    IN  IF ~Live(F1) THEN F1
        ELSE DeleteRootListEntry(
                 [F1 EXCEPT !.bs[c].parent = p,
                            !.bs[p] = StatsAdd(@, F1.bs[c])], c)

RECURSIVE FindRoot(_, _)
FindRoot(F, i) ==
    LET F1 == CAssert(F, i < F.used)
    IN  IF Live(F1) /\ F1.bs[i].parent # i
        THEN LET R == FindRoot(F1, F1.bs[i].parent)
             IN  IF Live(R.f) THEN [f |-> SetParent(R.f, i, R.root), root |-> R.root]
                 ELSE R
        ELSE [f |-> F1, root |-> i]

Link(F, s, t) ==
    LET F1 == CAssert(CAssert(CAssert(CAssert(F, s > 0), s < F.used), t > 0), t < F.used)
        sRank == F1.bs[s].rank
        tRank == F1.bs[t].rank
    IN  IF ~Live(F1) THEN [f |-> F1, root |-> t]
        ELSE IF sRank > tRank THEN [f |-> SetParent(F1, t, s), root |-> s]
        ELSE [f |-> SetParent(IF sRank = tRank
                                THEN [F1 EXCEPT !.bs[t].rank = tRank + 1]
                                ELSE F1, s, t),
              root |-> t]

\* assert(a_parent < used) then stats_add_singleton on a_parent.
AddSingleton(F, e, row, run) ==
    LET F1 == CAssert(F, e < F.used)
    IN  IF ~Live(F1) THEN F1
        ELSE [F1 EXCEPT !.bs[e] = IF e = 0 THEN @ ELSE StatsAddSingleton(@, row, run),
                        !.members[e] = @ \cup {RunAt(row, run)}]

\* yuv_run_union: the result carries the new parent_index of a and of b.
YuvRunUnion(F, aRow, a, bRow, b) ==
    CASE a.parent = 0 /\ b.parent = 0 ->
           LET M == MakeSet(F, a, aRow)
           IN  [f |-> AddSingleton(M.f, M.idx, bRow, b), aTag |-> M.idx, bTag |-> M.idx]
      [] a.parent # 0 /\ b.parent = 0 ->
           LET R == FindRoot(F, a.parent)
           IN  [f |-> AddSingleton(R.f, R.root, bRow, b), aTag |-> R.root, bTag |-> R.root]
      [] a.parent = 0 /\ b.parent # 0 ->
           LET R == FindRoot(F, b.parent)
           IN  [f |-> AddSingleton(R.f, R.root, aRow, a), aTag |-> R.root, bTag |-> R.root]
      [] OTHER ->
           LET Ra == FindRoot(F, a.parent)
               Rb == FindRoot(Ra.f, b.parent)
               L  == Link(Rb.f, Ra.root, Rb.root)
           IN  IF Ra.root # Rb.root
               THEN [f |-> L.f, aTag |-> Ra.root, bTag |-> L.root]
               ELSE [f |-> Rb.f, aTag |-> Ra.root, bTag |-> b.parent]

Forest == [bs |-> blobSet, used |-> usedSets, nroots |-> usedRoots,
           rl |-> rootList, fault |-> fault, members |-> members]

SetForest(F) ==
    /\ blobSet' = F.bs
    /\ usedSets' = F.used
    /\ usedRoots' = F.nroots
    /\ rootList' = F.rl
    /\ fault' = F.fault
    /\ members' = F.members

-----------------------------------------------------------------------------
(* shell_sort_blobs_by_pixel_count and copy_best_bounding_boxes. *)

IncSchedule == << 1, 4, 10, 23, 57, 132, 301, 701 >>

\* Mutant: the comparison of is_less is reversed.
IsLessReversed(bs, a, b) == bs[a].count > bs[b].count

\* is_less: pixel count of a below that of b.
IsLess(bs, a, b) == bs[a].count < bs[b].count

\* The inner while loop: shift arr[j - inc] up while it is less than temp.
RECURSIVE ShiftIn(_, _, _, _, _)
ShiftIn(bs, arr, j, inc, temp) ==
    IF j >= inc /\ IsLess(bs, arr[j - inc], temp)
    THEN ShiftIn(bs, [arr EXCEPT ![j] = arr[j - inc]], j - inc, inc, temp)
    ELSE [arr EXCEPT ![j] = temp]

\* for (i = inc; i < arr_size; ++i)
RECURSIVE GapPass(_, _, _, _, _)
GapPass(bs, arr, n, inc, i) ==
    IF i >= n THEN arr
    ELSE GapPass(bs, ShiftIn(bs, arr, i, inc, arr[i]), n, inc, i + 1)

\* for (k = INC_SCHEDULE_SIZE - 1; k >= 0; --k), with k 1-based here.
RECURSIVE SortFrom(_, _, _, _)
SortFrom(bs, arr, n, k) ==
    IF k < 1 THEN arr ELSE SortFrom(bs, GapPass(bs, arr, n, IncSchedule[k], IncSchedule[k]), n, k - 1)

ShellSortBlobsByPixelCount(bs, arr, n) == SortFrom(bs, arr, n, Len(IncSchedule))

Box(e) == << e.min_x, e.min_y, e.max_x, e.max_y >>

\* The selection loop of copy_best_bounding_boxes from position i on.
RECURSIVE CopyFrom(_, _, _, _, _, _, _)
CopyFrom(bs, arr, n, i, boxes, min_pixels_per_blob, bbox_element_count) ==
    IF i >= n THEN boxes
    ELSE IF bs[arr[i]].count >= min_pixels_per_blob
         THEN LET more == Append(boxes, [blob |-> arr[i], coords |-> Box(bs[arr[i]])])
              IN  IF Len(more) >= bbox_element_count \div 4 THEN more
                  ELSE CopyFrom(bs, arr, n, i + 1, more, min_pixels_per_blob,
                                bbox_element_count)
         ELSE CopyFrom(bs, arr, n, i + 1, boxes, min_pixels_per_blob,
                       bbox_element_count)

-----------------------------------------------------------------------------
(* The state machine. *)

\* blob_list_init followed by its blob_list_clear; root_list is left as
\* malloc returns it (never read before it is written).
Init ==
    /\ blobSet = [e \in Entries |-> Blank]
    /\ usedSets = 1
    /\ usedRoots = 0
    /\ rootList = [s \in Slots |-> 0]
    /\ fault = "none"
    /\ pc = "idle"
    /\ ii = 0
    /\ uvRun = << >>
    /\ prevRuns = << >>
    /\ curRuns = << >>
    /\ ai = 0 /\ bi = 0 /\ x = 0
    /\ bbox = << >>
    /\ members = [e \in Entries |-> {}]
    /\ image = {}

\* Entry of detect_color_blobs: empty run lists, then blob_list_clear.
NewFrame ==
    /\ pc = "idle"
    /\ usedSets' = 1
    /\ usedRoots' = 0
    /\ blobSet' = [blobSet EXCEPT ![0] = [@ EXCEPT !.parent = 0, !.rli = 0, !.rank = 0]]
    /\ members' = [e \in Entries |-> {}]
    /\ ii' = 0
    /\ uvRun' = << >>
    /\ prevRuns' = << >>
    /\ curRuns' = << >>
    /\ image' = {}
    /\ pc' = "scan"
    /\ UNCHANGED << rootList, fault, ai, bi, x, bbox >>

\* Top of the row loop: chroma runs on even rows, then the luma runs of
\* row ii, each with parent_index 0 (lines 499-515).
ScanRow ==
    /\ pc = "scan"
    /\ \/ /\ ii % 2 = 0
          /\ \E c \in ChromaRows : uvRun' = CreateUvRunSequence(c)
       \/ /\ ii % 2 = 1
          /\ UNCHANGED uvRun
    /\ \E b \in LumaRows :
          LET found == DetectYuvRunsInRow(b, uvRun')
          IN  curRuns' = [k \in 1 .. Len(found) |->
                             [run_low |-> found[k].run_low,
                              run_high |-> found[k].run_high, parent |-> 0]]
    /\ ai' = 0 /\ bi' = 0 /\ x' = 0
    /\ pc' = "union"
    /\ UNCHANGED << blobSet, usedSets, usedRoots, rootList, fault, ii,
                    prevRuns, bbox, members, image >>

SweepGoesOn == ai < Len(prevRuns) /\ bi < Len(curRuns)

\* Mutant: x is raised to the low of run a only.
SweepXIgnoresB == IF x < prevRuns[ai + 1].run_low THEN prevRuns[ai + 1].run_low ELSE x

\* x raised to the lows of the two current runs.
SweepX == LET xa == IF x < prevRuns[ai + 1].run_low THEN prevRuns[ai + 1].run_low ELSE x
          IN  IF xa < curRuns[bi + 1].run_low THEN curRuns[bi + 1].run_low ELSE xa

\* The two runs overlap: union them, then advance the one ending first.
SweepUnion ==
    /\ pc = "union" /\ fault = "none" /\ SweepGoesOn
    /\ LET a == prevRuns[ai + 1]
           b == curRuns[bi + 1]
           U == YuvRunUnion(Forest, ii - 1, a, ii, b)
       IN  /\ SweepX < a.run_high
           /\ SweepX < b.run_high
           /\ SetForest(U.f)
           /\ prevRuns' = [prevRuns EXCEPT ![ai + 1].parent = U.aTag]
           /\ curRuns' = [curRuns EXCEPT ![bi + 1].parent = U.bTag]
           /\ IF a.run_high < b.run_high
              THEN ai' = ai + 1 /\ bi' = bi
              ELSE ai' = ai /\ bi' = bi + 1
    /\ x' = SweepX
    /\ UNCHANGED << pc, ii, uvRun, bbox, image >>

\* x is inside run a but past run b.
SweepSkipB ==
    /\ pc = "union" /\ fault = "none" /\ SweepGoesOn
    /\ SweepX < prevRuns[ai + 1].run_high
    /\ SweepX >= curRuns[bi + 1].run_high
    /\ bi' = bi + 1
    /\ x' = SweepX
    /\ UNCHANGED << blobSet, usedSets, usedRoots, rootList, fault, pc, ii,
                    uvRun, prevRuns, curRuns, ai, bbox, members, image >>

\* x is past run a.
SweepSkipA ==
    /\ pc = "union" /\ fault = "none" /\ SweepGoesOn
    /\ SweepX >= prevRuns[ai + 1].run_high
    /\ ai' = ai + 1
    /\ x' = SweepX
    /\ UNCHANGED << blobSet, usedSets, usedRoots, rootList, fault, pc, ii,
                    uvRun, prevRuns, curRuns, bi, bbox, members, image >>

Tagged(runs, row) ==
    { [row |-> row, run_low |-> r.run_low, run_high |-> r.run_high, parent |-> r.parent]
        : r \in {runs[k] : k \in 1 .. Len(runs)} }

\* Mutant: the row loop runs while ii <= rows.
EndRowPastLastRow ==
    /\ pc = "union" /\ fault = "none" /\ ~SweepGoesOn
    /\ image' = image \cup Tagged(prevRuns, ii - 1)
    /\ prevRuns' = curRuns
    /\ ii' = ii + 1
    /\ pc' = IF ii + 1 <= Rows THEN "scan" ELSE "select"
    /\ UNCHANGED << blobSet, usedSets, usedRoots, rootList, fault, uvRun,
                    curRuns, ai, bi, x, bbox, members >>

\* The sweep is over: swap yuv_run0 and yuv_run1, next row.
EndRow ==
    /\ pc = "union" /\ fault = "none" /\ ~SweepGoesOn
    /\ image' = image \cup Tagged(prevRuns, ii - 1)
    /\ prevRuns' = curRuns
    /\ ii' = ii + 1
    /\ pc' = IF ii + 1 < Rows THEN "scan" ELSE "select"
    /\ UNCHANGED << blobSet, usedSets, usedRoots, rootList, fault, uvRun,
                    curRuns, ai, bi, x, bbox, members >>

\* copy_best_bounding_boxes: sort root_list in place, then copy the boxes.
SelectBoxes ==
    /\ pc = "select"
    /\ LET sorted == ShellSortBlobsByPixelCount(blobSet, rootList, usedRoots)
       IN  /\ rootList' = sorted
           /\ bbox' = CopyFrom(blobSet, sorted, usedRoots, 0, << >>,
                              MinPixels, BboxElementCount)
    /\ pc' = "idle"
    /\ UNCHANGED << blobSet, usedSets, usedRoots, fault, ii, uvRun, prevRuns,
                    curRuns, ai, bi, x, members, image >>

Next ==
    \/ NewFrame
    \/ ScanRow
    \/ SweepUnion
    \/ SweepSkipB
    \/ SweepSkipA
    \/ EndRow
    \/ SelectBoxes

Spec == Init /\ [][Next]_vars

-----------------------------------------------------------------------------
(* Definitions used by the properties. *)

Registered == { rootList[s] : s \in 0 .. usedRoots - 1 }

IsRoot(e) == blobSet[e].parent = e

RECURSIVE RootOf(_)
RootOf(e) == IF IsRoot(e) THEN e ELSE RootOf(blobSet[e].parent)

\* The runs whose pixels the tree under root r stands for.
MembersOf(r) == UNION { members[e] : e \in { d \in 1 .. usedSets - 1 : RootOf(d) = r } }

PixelsIn(runs) == MapThenSumSet(Width, runs)

\* Every run of the frame, with the parent_index the code left it.
AllRuns == image \cup Tagged(prevRuns, ii - 1)

Plain(u) == [row |-> u.row, run_low |-> u.run_low, run_high |-> u.run_high]

\* 4-connectivity of two runs: adjacent rows and a column in common.
Touch(u, v) ==
    /\ (u.row = v.row + 1 \/ v.row = u.row + 1)
    /\ u.run_low < v.run_high
    /\ v.run_low < u.run_high

RunGraph ==
    LET nodes == { Plain(u) : u \in AllRuns }
    IN  [node |-> nodes, edge |-> { e \in nodes \X nodes : Touch(e[1], e[2]) }]

-----------------------------------------------------------------------------
TypeOK ==
    /\ blobSet \in [Entries -> [parent : Entries, rank : Nat, rli : Slots,
                                min_x : Nat, max_x : Nat, min_y : Nat,
                                max_y : Nat, count : Nat]]
    /\ usedSets \in 1 .. MaxSets
    /\ usedRoots \in 0 .. MaxBlobs
    /\ rootList \in [Slots -> Entries]
    /\ fault \in {"none", "assert", "ub"}
    /\ pc \in {"idle", "scan", "union", "select"}
    /\ ii \in 0 .. Rows
    /\ ai \in Nat /\ bi \in Nat /\ x \in Nat
    /\ members \in [Entries -> SUBSET [row : 0 .. Rows - 1, run_low : PixelCols,
                                       run_high : 0 .. Cols]]

(***************************************************************************)
(* While a frame is scanned, root_list[0 .. used_root_list_count-1] holds  *)
(* each root of the forest exactly once, never the sentinel, and every     *)
(* root's root_list_index points back at its slot.  This is what lets      *)
(* delete_root_list_entry swap the last slot into the deleted one and what *)
(* copy_best_bounding_boxes relies on to see every blob once.              *)
(***************************************************************************)
RootRegistryExact ==
    (pc \in {"scan", "union", "select"} /\ fault = "none") =>
        /\ Registered = { e \in 1 .. usedSets - 1 : IsRoot(e) }
        /\ Cardinality(Registered) = usedRoots
        /\ \A s \in 0 .. usedRoots - 1 : blobSet[rootList[s]].rli = s

(***************************************************************************)
(* The pixel count of every registered blob equals the number of pixels of *)
(* the runs merged into its tree: make_set, stats_add_singleton, link and  *)
(* the folding in find_root together neither lose nor count twice a run.   *)
(***************************************************************************)
PixelCountsExact ==
    fault = "none" =>
        \A r \in Registered : blobSet[r].count = PixelsIn(MembersOf(r))

(***************************************************************************)
(* Every registered blob's box lies inside the bounding box of the runs    *)
(* merged into its tree: min_x, max_x and min_y are exact, and max_y is    *)
(* the row of one of its runs.  Rows reach stats_add_singleton out of      *)
(* order (yuv_run_union swaps a and b), and its max_y test compares with   *)
(* min_y (spec 9), so max_y may stop short of the lowest row, but the      *)
(* folding of stats in find_root and link never widens a box past its     *)
(* blob.                                                                   *)
(***************************************************************************)
BoxesWithinBlobs ==
    fault = "none" =>
        \A r \in Registered :
            LET runs == MembersOf(r)
                rows == {u.row : u \in runs}
            IN  runs # {} =>
                /\ blobSet[r].min_x = Min({u.run_low : u \in runs})
                /\ blobSet[r].max_x = Max({u.run_high - 1 : u \in runs})
                /\ blobSet[r].min_y = Min(rows)
                /\ blobSet[r].max_y \in rows

(***************************************************************************)
(* At the end of the frame the forest partitions the runs into their       *)
(* 4-connected components: two runs of adjacent rows that share a column   *)
(* have the same root, and two runs with the same non-sentinel root are    *)
(* joined by a chain of such runs.  The sweep's cursor x and its           *)
(* advance-the-one-ending-first rule must not skip an overlapping pair.    *)
(***************************************************************************)
ComponentsAreConnectedRuns ==
    (pc = "select" /\ fault = "none") =>
        LET conn == ConnectionsIn(RunGraph)
        IN  \A u, v \in AllRuns :
                /\ Touch(u, v) => RootOf(u.parent) = RootOf(v.parent)
                /\ (RootOf(u.parent) = RootOf(v.parent) /\ RootOf(u.parent) # 0)
                      => conn[Plain(u), Plain(v)]

(***************************************************************************)
(* Every run of the frame ends up in some blob (spec 4.4: a set is created *)
(* for a run with no prior neighbour).                                     *)
(***************************************************************************)
EveryRunInABlob ==
    (pc = "select" /\ fault = "none") =>
        \A u \in AllRuns : RootOf(u.parent) # 0

(***************************************************************************)
(* No assert() of detect_color_blobs.c fails.                              *)
(***************************************************************************)
NoAssertionFailure == fault # "assert"

\* Bounds of the selection check below: root lists of up to six roots,
\* pixel counts up to three, and room for one, two or three boxes.
SelectRootsMax   == 6
SelectCountMax   == 3
SelectMinPixels  == { 1, 2 }
SelectCapacities == { 4, 8, 12 }

\* copy_best_bounding_boxes on roots 0 .. n-1 (root_list in index order)
\* whose pixel counts are cnt; a root's box names it by its min_x.
Selection(cnt, n, min_pixels, cap) ==
    LET bs  == [e \in 0 .. n - 1 |-> [Blank EXCEPT !.count = cnt[e], !.min_x = e]]
        arr == [s \in 0 .. n - 1 |-> s]
    IN  CopyFrom(bs, ShellSortBlobsByPixelCount(bs, arr, n), n, 0, << >>,
                 min_pixels, cap)

\* Reference: the pixel counts of the blobs of at least min_pixels pixels,
\* from the largest down, as many as cap elements hold.
ReferenceSelection(cnt, n, min_pixels, cap) ==
    LET big  == SelectSeq([i \in 1 .. n |-> cnt[i - 1]], LAMBDA c : c >= min_pixels)
        desc == SortSeq(big, LAMBDA a, b : a > b)
    IN  SubSeq(desc, 1, IF Len(desc) < cap \div 4 THEN Len(desc) ELSE cap \div 4)

SelectionMatchesReference ==
    \A n \in 0 .. SelectRootsMax, mp \in SelectMinPixels, cap \in SelectCapacities :
        \A cnt \in [0 .. n - 1 -> 0 .. SelectCountMax] :
            LET boxes == Selection(cnt, n, mp, cap)
            IN  /\ [k \in 1 .. Len(boxes) |-> cnt[boxes[k].coords[1]]]
                     = ReferenceSelection(cnt, n, mp, cap)
                /\ Cardinality({ boxes[k].blob : k \in 1 .. Len(boxes) }) = Len(boxes)

(***************************************************************************)
(* Whenever copy_best_bounding_boxes is about to run, it reports the      *)
(* largest blobs of at least min_pixels_per_blob pixels, largest first,   *)
(* each blob once, as many as bbox_element holds.  The frames of this     *)
(* model hold too few roots for that to be tested, so the shell sort and  *)
(* the copy loop are checked against a reference over every root list     *)
(* of the bounds above: with six roots the gap-4 pass runs before the     *)
(* gap-1 pass, and ties, blobs below the minimum and a full bbox_element  *)
(* all occur.  The comparison direction of is_less, the shifts of the     *)
(* insertion passes and the early break decide the answer.                *)
(***************************************************************************)
SelectionIsLargestFirst ==
    pc = "select" => SelectionMatchesReference

(***************************************************************************)
(* No fixed-size array is overrun: blob_set and root_list stay within      *)
(* their capacity, the run lists within the buffers detect_color_blobs()   *)
(* mallocs, and the boxes within bbox_element[].                           *)
(***************************************************************************)
WithinCapacity ==
    /\ usedSets <= MaxSets
    /\ usedRoots <= MaxBlobs
    /\ Len(uvRun) <= Cols \div 4
    /\ Len(curRuns) <= Cols \div 2
    /\ 4 * Len(bbox) <= BboxElementCount

=============================================================================
