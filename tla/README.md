# TLA+ models of the raspicam color-blob detector

This directory holds TLA+ models of the raspicam input plugin and its blob detector in
`src/mjpg-streamer-experimental/plugins/input_raspicam_696/`, and the TLC
configurations that check them. `PROJECT.json` lists the components, the runs,
the mutants, the map from each definition to the C lines it translates, the
findings and the hazards.

## The system

The plugin receives camera frames in YUV 4:2:0 through MMAL callbacks.

* **Chroma run extraction** (`create_uv_run_sequence`, `uv_is_in`). This step
  runs on even rows only. It walks the row in steps of 2 pixel columns and
  records maximal runs of chroma cells whose u and v both lie in their windows.
* **Luma run extraction** (`detect_yuv_runs_in_row`). This step runs on every
  row. Inside each chroma run it cuts out maximal runs of columns whose
  y >= y_low. Each run starts with `parent_index = 0`.
* **Row-pair union** (`yuv_run_row_union`, `yuv_run_union`). A two-cursor
  sweep compares the runs of row ii-1 with those of row ii. It unions every
  pair of runs that share a column.
* **Disjoint-set forest** (`make_set`, `find_root`, `set_parent`, `link`,
  `delete_root_list_entry`, `stats_*`). The blobs are kept in a union-find
  forest:
  * It uses union by rank and recursive path compression.
  * The compression folds each child's statistics into the root.
  * Entry 0 is a sentinel that absorbs overflow.
  * `root_list` registers the roots. A deletion swaps the last root into the
    deleted slot.
* **Selection** (`shell_sort_blobs_by_pixel_count`,
  `copy_best_bounding_boxes`). A shell sort with Ciura's gaps orders
  `root_list` by descending pixel count. Selection then copies the boxes of
  the blobs that have at least the minimum pixel count, largest first, until
  the output buffer is full.
* **Serialization** (`overwrite_tif_tags`). Writes the boxes into the JPEG's
  TIFF header.
* **Callbacks** (`splitter_buffer_callback`, `encoder_buffer_callback`). The
  two callbacks run on MMAL threads and hand the boxes over under
  `bbox_mutex`.
* **TCP command server** (`tcp_comms.c`). A server thread with one connection
  thread per client. The file does not compile and nothing calls it.

* **Start-up** (`input_init`, `input_run`, the set-up in `worker_thread`).
  main parses the options, allocates the frame buffer and starts the worker.
  The worker builds the MMAL graph; the splitter exists only with
  `-blobyuv` or `-writeimages`. Its callback runs only after the splitter
  pool's buffers are sent to its port, and only the video branch sends them
  (line 1551). With `-usestills` detection therefore never runs.

One frame flows through these parts in this order:
`detect_color_blobs` → per row: scan → sweep → swap buffers; then
`copy_best_bounding_boxes`. At the same time the encoder callback embeds the
last copied boxes into each JPEG, and clients copy the published JPEG under
the `db` mutex.

## Modules

| module | models | state | actions / operators |
|---|---|---|---|
| `RunExtraction` | `uv_is_in`, `create_uv_run_sequence`, `detect_yuv_runs_in_row` | none (operators) | `UvRunEnd`, `UvRunsFrom` (the inner and outer `while`), `SkipDark`, `SkipBright`, `YuvRunsFrom` (the nested cursor loops); reference `Qualifies`, `RunCols` |
| `RowScan` | the scanning half of the row loop | `ii`, `inUV`, `bright`, `uvRun`, `yuvRun` | `ScanRow`: chroma runs recomputed on even rows, reused on odd rows, luma runs for every row |
| `MCRowScan` | instantiation | — | — |
| `DetectColorBlobs` | all of `detect_color_blobs.c` except drawing and highlighting | `blobSet` (entries with parent, rank, root_list_index, box, count), `usedSets`, `usedRoots`, `rootList`, `fault`, `pc`, `ii`, `uvRun`, `prevRuns`/`curRuns` (yuv_run0/1 with parent_index), `ai`, `bi`, `x`, `bbox`; the history variables `members` and `image` are read only by properties | `NewFrame` (blob_list_clear), `ScanRow`, `SweepUnion`, `SweepSkipB`, `SweepSkipA` (one iteration each of the sweep's three branches), `EndRow` (buffer swap), `SelectBoxes` (sort plus copy) |
| `MCDetectColorBlobs` | instantiation, with the sets of abstract rows | — | — |
| `OverwriteTifTags` | `overwrite_tif_tags.c` | one call's arguments and `result` (return value, bytes written, end of the padding) | `OverwriteTifTags` (the whole function as an operator, with `TiffDirectory`, `CoordBytes`, `PaddingEnd`); `Encode`, a call with arguments from small sets; reference `ReadTiff`, a TIFF reader of the written bytes |
| `MCOverwriteTifTags` | instantiation: segment lengths around the fitting boundaries, the APP1 marker and a JFIF APP0 marker | — | — |
| `BboxHandoff` | the promise of the box buffer (spec 5) | `pending`, `published`, `embedded` | `Detect`, `Publish` (a whole selection at once), `Embed` |
| `FramePipeline` | start-up, both MMAL callbacks, `worker_thread` (stills and video), teardown, `worker_cleanup`, and one client of the frame | splitter `sp_pc`, `sp_sel`, `sp_k`; `bbox_mutex`, `bbox_element`, `bbox_element_count`; encoder `enc_pc`, `cur`, `offset`, `embedded`; camera `stream`, `triggers`, `cameraOn`, `encEnabled`; `db`, `buf`, `size`, `bufState`; `complete_semaphore`, `semState`; `splitterPool`, `splBufs` (the splitter's pool and whether its port was given buffers); `w_pc`, `stop`; `main_pc`, `argv`, `usestills`, `detect_yuv`, `write_images`, `blobLists`; client `c_pc`, `seen`; history `failedFrames` (frames ended by `TRANSMISSION_FAILED`, read only by a property) | Main `InitStart` (the `controls_mutex` init, which may exit), `InitOption`, `InitDone`, `InputRun`; Splitter `SplDetect`, `SplLock`, `SplCopyBox` (one box of the copy loop), `SplUnlock`, `SplNoDetect`; Encoder `CameraFrame` (the camera), `EncReceive`, `EncLockDb`, `EncLockBbox`, `EncOverwrite`, `EncCopy`, `EncEmptyBuffer` (each ending in `Finish`, the flags test); Worker `WorkerCreate` (components, line 975-1335), `WorkerConnect` (splitter with `CreateSplitterComponent`'s outcomes, connections, port enable, 1336-1477), `WorkerLoop`, `WorkerCapture`, `WorkerWait`, `WorkerStartVideo`, `WorkerPoll`, `WorkerDeleteSem`, `WorkerDisable`, `WorkerCleanup`; `Stop`; Client `ClientLock`, `ClientWait`, `ClientRelock`, `ClientCopy`; `Exit` |
| `MCFramePipeline` | instantiation: three boxes, selections of 0..3 boxes, four ways of splitting a JPEG into buffers (one failing mid-frame), seven command lines | — | — |

How the code is abstracted:

* **Pixel values.** A chroma row is the set of chroma cells that pass both
  windows. A luma row is the set of columns that pass the floor. Every
  threshold comparison in the code is a membership test on these sets, so the
  model keeps all of the control flow.
* **Forest operations.** Each one is an operator on a record
  `F = [bs, used, nroots, rl, fault, members]` that returns the new record.
  One `SweepUnion` step is therefore the whole `yuv_run_union` call, with
  every nested `find_root`/`set_parent`/`delete_root_list_entry` it makes.
* **`assert`.** It is `CAssert`:
  * with `NDEBUG = FALSE` a failed assert moves `fault` to `"assert"`, and
    the process is dead;
  * with `NDEBUG = TRUE` execution continues.
* **Undefined behaviour.** Decrementing `used_root_list_count` below 0 (an
  unsigned wrap, followed by reads at a huge index) is modelled as the
  terminal fault `"ub"`.
* **FramePipeline.** Each label of a callback or thread where another
  thread can interleave (a mutex taken, a condition waited on, a loop
  round) is one action. The code between two such points is one step.
  * A detection pass is the selection it yields. `DetectColorBlobs` models
    the pass itself.
  * A JPEG is a sequence of numbered chunks, and a buffer carries one chunk
    or none, with the flags `FRAME_END`/`TRANSMISSION_FAILED`.
  * `pthread_mutex_unlock` of a normal mutex releases it whoever holds it:
    `Finish` sets `db` to `"none"`.
  * `mmal_port_disable` waits for a callback in progress: `WorkerDisable`
    waits for `enc_pc = "idle"`.
  * The client stands for an output plugin (not in this repository): lock
    `db`, `pthread_cond_wait(db_update)`, copy `size` bytes, unlock.
  * An option is one of seven kinds. `"setting"` stands for every option
    whose value nothing modelled reads.
* **Left out.**
  * `sum_x`/`sum_y`: nothing reads them.
  * The sentinel's statistics: they are never reported.
  * `printf` and the debug drawing.

## Runs

| run | cfg | expect | what it shows |
|---|---|---|---|
| rowscan | `MCRowScan.cfg` (Cols 8, Rows 2, every row pattern) | pass | Luma runs are non-empty, ordered and separated, and hold only qualifying pixels. Both run lists fit `cols/4` and `cols/2`. |
| rowscan_complete | `MCRowScan_complete.cfg` | violation | The last pixel of a chroma run is never examined. Cause: `run_high = jj - 1`, line 144. |
| detect | `MCDetectColorBlobs.cfg` (4×3 frames, every row pattern, ample capacity) | pass | While scanning, `root_list` holds exactly the roots, with exact back pointers. Pixel counts are exact, and each blob's box spans exactly its runs' columns and first row, its `max_y` a row of the blob (`BoxesWithinBlobs`). At the end of the frame, blobs are exactly the connected components of the runs. Sort and copy, checked against a reference over every root list of up to six roots with counts 0..3, report the largest blobs of at least the minimum, largest first, each once, as many as fit (`SelectionIsLargestFirst`). |
| detect_overflow_sets | `..._overflow.cfg` (blob_set holds 1 set) | pass | `make_set` refuses the second set. No array is overrun. |
| detect_assert | `..._assert.cfg` (8×3, selected rows) | violation | `find_root` re-folds a child whose parent is already the root. `delete_root_list_entry`'s assert then fails. |
| detect_singlerow | `..._singlerow.cfg` | violation | A run that touches no run in an adjacent row gets no set. Spec 4.4 says it should. |
| overwrite | `MCOverwriteTifTags.cfg` (ten lengths from 8 to 75) | pass | `RoundTrip`: a TIFF reader of the written bytes finds the order, width, height and exactly the first `ret` coordinates, `ret` the largest multiple of 4 that fits within the space the header declares. |
| overwrite_short | `MCOverwriteTifTags_short.cfg` (adds the lengths 0 and 7) | violation | The `unsigned short` `byte_count` wraps (line 31), and the call writes about 64 KB past the segment instead of returning -1. |
| pipeline | `MCFramePipeline.cfg` | pass | From option parsing to teardown, stills and video, with and without the splitter: the box handoff refines `BboxHandoff`; a client copies a whole JPEG or the start of one whose transmission failed, never bytes of two frames (`ClientCopiesFrames`); the encoder always releases `db` at a frame's end while the plugin runs (`DbReleased`); the frame buffer is live whenever the encoder copies into it; every still-capture wait ends. |
| pipeline_stills | `MCFramePipeline_stills.cfg` (`-usestills -blobyuv`) | violation | `DetectionRuns` fails: the camera captures frames, but the splitter callback port never gets a buffer, so no detection pass runs and no JPEG carries boxes. |
| pipeline_failed | `MCFramePipeline_failed.cfg` (a frame that is only an empty `TRANSMISSION_FAILED` buffer) | violation | The encoder callback unlocks `db` (line 621) without having locked it (line 552 locks only for data at offset 0). That can release a client's lock. |
| pipeline_semaphore | `MCFramePipeline_semaphore.cfg` (video) | violation | Teardown deletes `complete_semaphore` (line 1578) before it disables the encoder port (line 1594). A frame ending in between posts a destroyed semaphore (line 659). |

The `max_y` defect of `stats_add_singleton` (it compares `row > min_y`,
line 82) is translated in `StatsAddSingleton`; spec 9 already records it as a
bug, so no run is spent repeating it. `BoxesWithinBlobs` checks what
still holds despite it: `max_y` may stop short, but it is always a row of
the blob, and the other three edges are exact.

With `NDEBUG` the `find_root` defect of `detect_assert` goes on silently: the
second `delete_root_list_entry` removes a live root from `root_list`. The
module keeps the `NDEBUG` constant; no run is spent on that consequence.

Each property of a passing run has a mutant in `PROJECT.json`. A mutant is a
plausible bug in the mapped code, written as an operator just before the
definition it replaces, and TLC finds the property violated with it. The
mutants are:

* a loop bound `<=` instead of `<`;
* a dropped luma test;
* a run end that never extends;
* a missing back-pointer update in `delete_root_list_entry`;
* a dropped pixel count in `stats_add`;
* `stats_init`'s `max_x` one past the run;
* a sweep cursor that ignores run b;
* a reversed `is_less`;
* an off-by-one in `make_set`'s set guard;
* coordinates written low byte first;
* a box copy loop that breaks one box late;
* `offset` not reset at the end of a frame;
* the boxes read without `bbox_mutex`;
* `complete_semaphore` posted only for a buffer with data;
* `worker_cleanup` run before the MMAL close;
* `db` unlocked only on `FRAME_END`, not on `TRANSMISSION_FAILED`.

### The refinement

`FramePipeline` implements `BboxHandoff` under this mapping:

* `pending` is `Best(sp_sel)`, what the copy loop will copy from this pass;
* `published` is `Best(sp_sel)` while the splitter holds `bbox_mutex`, and
  otherwise the selection `bbox_element` and `bbox_element_count` hold;
* `embedded` is `embedded`.

Each step of the splitter or encoder is then a `Detect`, a `Publish`, an
`Embed` or a stutter. A torn read (the count of one pass with the boxes of
another) would be none of these. The `EncLockBboxNoLock` mutant produces
exactly such a read, and TLC reports the refinement violated.

### Bounds

* **RowScan: 8 columns.** This gives four chroma cells, so the `cols/4` and
  `cols/2` limits are reached. Every subset of cells and columns is
  enumerated.
* **DetectColorBlobs: 4 columns × 3 rows, every row pattern.** Three rows are
  the fewest in which a blob can branch and re-merge, so `link` happens
  across a sweep. `find_root` never compresses a path in this run: at this
  size, any `find_root` through a non-root node fails the assert in
  `delete_root_list_entry` (the `detect_assert` defect), and the run checks
  deadlock, which that fault state would be. So the stale parents of
  `yuv_run_union` are covered only by `detect_assert`. The main run has 1.39
  million states. Four rows exceed the time budget.
* **Selection: up to six roots, counts 0..3, capacities of 1, 2 and 3
  boxes, minimum 1 or 2.** A 4×3 frame has too few roots for the order of
  the selection to matter, and it uses one box. So `SelectionIsLargestFirst`
  runs `shell_sort_blobs_by_pixel_count` and `copy_best_bounding_boxes` on
  every such root list, and compares the result with a reference: filter,
  sort with `SortSeq`, truncate. Six roots are the fewest for which the gap-4
  pass runs before the gap-1 pass. TLC evaluates this constant check once.
* **The find_root defect needs 8 columns.** It needs two runs in one row,
  both linked into a third. The assert run therefore uses 8 columns with a
  handful of selected row patterns (`WideLumaRows`).
* **Overflow run.** It shrinks the set capacity to 1. Only then does the
  second `make_set` of a 4×3 frame hit a guard. With 4 columns, at most two
  sets can ever be made. The root guard cannot be reached alone at this size:
  whenever the roots are full, so are the sets.
* **OverwriteTifTags: segment lengths 8, 57-59, 65-67, 73-75.** These sit
  one below, at and one above the lengths that hold the directory (58), one
  box (66) and two boxes (74), so the refusal and the truncation to a
  multiple of 4 coordinates both bind. Every count 0..9 of nine
  coordinates with every byte pattern of an `unsigned short`, and
  dimensions that use all four bytes, are combined with them. The wrap run
  adds the lengths 0 and 7, below 8.
* **FramePipeline.**
  * `MAX_BBOXES = 2` with a three-box selection, so the copy loop's cap
    binds.
  * Two frames per port. That is enough for a second frame to overwrite
    the first while a client waits, and for a frame to be in flight at
    stop.
  * Four buffer shapes: one buffer; two data buffers, so `db` is held
    across callbacks; data and then an empty `FRAME_END`; one data buffer
    and then an empty `TRANSMISSION_FAILED` of a two-chunk JPEG. With two
    frames a failed frame can follow a longer one, which is when stale
    bytes could be published. The `pipeline_failed` run adds a frame that
    fails before any data.
  * Failure outcomes: every `malloc` of `blob_list_init` and each set-up
    step may fail (the process exits or dies), and the splitter pool may be
    NULL, which video mode dereferences (the process dies).
  * Seven command lines: video and stills with detection (one repeating
    `-blobyuv`), `-writeimages` alone, `-usestills` alone, and three refused
    ones.
  * The main run has 734,690 distinct states and takes about 1 min 40 s.
  * In the stills run the counterexample ends where the bounded worker
    loop has captured its two frames; the real loop goes on capturing, still
    without a splitter buffer.

### Fairness and deadlock

* **RowScan, DetectColorBlobs, OverwriteTifTags.** Only safety properties
  are checked, so no fairness is assumed. In the passing runs, deadlock is
  checked:
  * after `SelectBoxes` the next frame may always start;
  * no fault state is reachable there.

  The violation runs set `CHECK_DEADLOCK FALSE`, because a failed assert
  ends the process.
* **FramePipeline: weak fairness per thread.** It is assumed for main,
  the splitter callback, the encoder (and the camera delivering a frame it
  was asked for), the worker and the client:
  * MMAL runs each callback on its own thread.
  * The worker blocks only on `complete_semaphore`.
  * The client's critical sections are finite.
* **Stop is not fair.** main sets `stop` only on a signal.
* **`Exit` stutters once `stop` is set, or once the process has exited.**
  After `stop`, main exits the process whether or not the worker is done.
  The end states of a refused command line or a failed set-up are the same
  exit. Deadlock is checked, and no other state is final.

## Not modelled

* **`tcp_comms.c`.** It does not compile (a duplicate case label, a
  socket address passed with the wrong type) and nothing in the plugin
  calls it; the spec puts it out of scope. There is no defined behaviour
  to translate.
* **The individual MMAL calls.** Component creation, port formats and
  `connect_ports` configure the hardware. Every failure there is
  `exit(EXIT_FAILURE)`, the failure disjunct of `WorkerCreate` or
  `WorkerConnect`. `create_splitter_component` is modelled by its three
  outcomes (`CreateSplitterComponent`): no component, which exits; the
  splitter with a pool; and the splitter with a NULL pool, which video mode
  dereferences.
* **Teardown of the splitter.** Teardown never disables or destroys the
  splitter, its callback port, connection or pool (lines 1580-1630); `destroy_splitter_component` (line 846) is never
  called. The
  model does not track MMAL objects as resources. The splitter callback
  stops with the camera.
* **The stills loop's `frames` counter** (lines 1515-1527). It is counted
  twice per successful capture and reset only at exactly 100, so after a
  failed capture it is never reset. It only feeds the fps message.
* **Option values.** Sizes, fps, quality, the camera parameters and the six
  `-blobyuv` thresholds are not modelled. Only which options were given
  reaches a thread modelled here.
* **The `frame_no` counters.** They are only printed.
* **Teardown mid-frame.** If stop comes while a frame is in flight, the
  encoder port is disabled before that frame's end and `db` stays locked.
  The model reaches this state, and `DbReleased` exempts it (`\/ stop`).
  Nothing states what a client may expect after shutdown.
* **Clients at shutdown.** `worker_cleanup` frees the frame buffer
  (line 1656) without taking `db`. The model reaches a client copying after
  the free. Whether an output plugin can still be copying then depends on
  the host program's shutdown order, which is not in this repository. It is
  listed as a hazard; no run states it.
* **Buffer pool accounting** (`mmal_queue_get` and `send`), the `DSC` debug
  dump and `camera_control_callback`: prints and debug only.
* **`get_usecs` and `draw_bounding_boxes`.** Debug only.
* **The memcpy bound at line 595.** Buffer sizes are abstracted to chunks.
  `-x` and `-y` go through `atoi` unchecked, so `-x 1 -y 1` gives a 3-byte
  frame buffer that any JPEG overruns, and a large size overflows the `int`
  product `width*height*3` (line 876). Both are listed as hazards; a
  property about them would need byte counts, not chunks.
* **`-fps 0`.** The stills loop divides by the frame rate (line 1484). It is
  a hazard; option values are not modelled.
* **The splitter's calls.** It calls `blob_list_purge_small_bboxes`, which
  does not exist, and calls `copy_best_bounding_boxes` with 3 arguments. The
  model takes the 4-parameter definition in `detect_color_blobs.c`.
