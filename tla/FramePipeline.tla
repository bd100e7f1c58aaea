---------------------------- MODULE FramePipeline ----------------------------
(***************************************************************************)
(* The threads of input_raspicam_696.c around one camera:                  *)
(*  - the splitter callback (an MMAL thread) runs a detection pass on each *)
(*    preview frame and copies the selection into bbox_element under       *)
(*    bbox_mutex;                                                          *)
(*  - the encoder callback (another MMAL thread) receives each JPEG in     *)
(*    buffers, embeds the boxes into the first one under bbox_mutex,       *)
(*    copies the data into the global frame buffer under the db mutex,     *)
(*    publishes the frame and posts complete_semaphore at its end;         *)
(*  - worker_thread triggers still captures (or starts video), waits, and  *)
(*    tears the camera down and frees the frame buffer when stop is set;   *)
(*  - a client of the global buffer (an output plugin, outside this        *)
(*    repository) waits on db_update and copies the published frame.      *)
(* A detection pass is abstracted to the selection it yields (its detail  *)
(* is DetectColorBlobs), a box to a model value, a JPEG to numbered chunks *)
(* of one byte-run each.                                                   *)
(***************************************************************************)
EXTENDS Naturals, Sequences

CONSTANTS Selections,   \* the selections a pass can yield (sequences of boxes)
          MAX_BBOXES,   \* bbox_element holds MAX_BBOXES boxes of 4 coordinates
          NoBox,        \* the value of a zero-initialized slot
          FrameShapes,  \* how the encoder hands a JPEG over: [n, bufs]
          MaxFrames,    \* frames the camera produces on each port
          Argvs         \* the option lists input_init may be given

EndFlags == {"end", "failed"}   \* FRAME_END | TRANSMISSION_FAILED

VARIABLES
    sp_pc, sp_sel, sp_k, spFrames,             \* splitter callback
    bbox_mutex, bbox_element, bbox_element_count,
    enc_pc, cur, stream, encFrames, triggers,  \* encoder callback, camera
    offset, embedded, encEnabled, cameraOn,
    splitterPool, splBufs,                     \* the splitter's pool, port
    db, buf, size, bufState,                   \* pglobal->in[plugin_number]
    complete_semaphore, semState,
    w_pc, stop,                                \* worker_thread, main
    main_pc, argv, usestills, detect_yuv,      \* input_init, input_run
    write_images, blobLists,
    c_pc, seen,                                \* a client of the frame
    failedFrames                               \* history: frames ended by
                                               \* TRANSMISSION_FAILED

vars == << sp_pc, sp_sel, sp_k, spFrames, bbox_mutex, bbox_element,
          bbox_element_count, enc_pc, cur, stream, encFrames, triggers,
          offset, embedded, encEnabled, cameraOn, db, buf, size, bufState,
          complete_semaphore, semState, w_pc, stop, c_pc, seen, main_pc, argv,
          usestills, detect_yuv, write_images, blobLists, splitterPool,
          splBufs, failedFrames >>

\* The boxes a reader of bbox_element and bbox_element_count gets.
Sel(element, count) == [i \in 1 .. count \div 4 |-> element[i]]

\* The buffers of one JPEG as the encoder delivers them: a data buffer
\* carries chunk i of the n chunks of frame f; the first data buffer
\* begins with the APP1 marker.
Buffers(shape, f) ==
    LET bufs == shape.bufs
        DataBefore(j) == Len(SelectSeq(SubSeq(bufs, 1, j), LAMBDA b : b.len > 0))
    IN  [j \in 1 .. Len(bufs) |->
            [len |-> bufs[j].len, flags |-> bufs[j].flags,
             marker |-> (j = 1 /\ bufs[j].len > 0),
             f |-> f, i |-> DataBefore(j), n |-> shape.n]]

Chunk(b) == [f |-> b.f, i |-> b.i, n |-> b.n]

Init ==
    \* init_splitter_callback_data; the static bbox_element is zeroed
    /\ sp_pc = "idle" /\ sp_sel = << >> /\ sp_k = 0 /\ spFrames = 0
    /\ bbox_mutex = "none"
    /\ bbox_element = [i \in 1 .. MAX_BBOXES |-> NoBox]
    /\ bbox_element_count = 0
    \* callback_data as worker_thread sets it up; no camera and no frame
    \* buffer before input_run
    /\ enc_pc = "idle" /\ cur = [len |-> 0, flags |-> "none", marker |-> FALSE,
                                 f |-> 0, i |-> 0, n |-> 0]
    /\ stream = << >> /\ encFrames = 0 /\ triggers = 0
    /\ offset = 0 /\ embedded = << >> /\ encEnabled = FALSE /\ cameraOn = FALSE
    /\ splitterPool = "none" /\ splBufs = FALSE
    /\ db = "none" /\ buf = << >> /\ size = 0 /\ bufState = "none"
    /\ complete_semaphore = 0 /\ semState = "live"
    /\ w_pc = "none" /\ stop = FALSE
    \* the static option variables, and the command line to parse
    /\ main_pc = "load" /\ argv \in Argvs
    /\ usestills = FALSE /\ detect_yuv = FALSE /\ write_images = FALSE
    /\ blobLists = 0
    /\ c_pc = "lock" /\ seen = << >> /\ failedFrames = {}

\* The variables each part owns, for UNCHANGED.
spVars     == << sp_pc, sp_sel, sp_k, spFrames >>
bboxVars   == << bbox_mutex, bbox_element, bbox_element_count >>
camVars    == << stream, encFrames, triggers, encEnabled, cameraOn,
                splitterPool, splBufs >>
encVars    == << enc_pc, cur, offset, embedded >>
dbVars     == << db, buf, size, bufState >>
semVars    == << complete_semaphore, semState >>
workerVars == << w_pc, stop >>
mainVars   == << main_pc, argv, usestills, detect_yuv, write_images, blobLists >>
clientVars == << c_pc, seen, failedFrames >>

-----------------------------------------------------------------------------
(* input_init and input_run, called by main                                 *)

\* The options the model tells apart: "setting" stands for every option that
\* only sets a value the threads here do not read (size, fps, quality and
\* the camera parameters); "blobyuv_bad" is -blobyuv with fewer than six
\* numbers.
Options == {"help", "unknown", "setting", "usestills", "blobyuv",
            "blobyuv_bad", "writeimages"}

\* case 32: six thresholds, each clamped to 255 (the data the detection
\* pass abstracts), detect_yuv = true, and a blob_list_init whose result
\* replaces the list of an earlier -blobyuv without freeing it.  When one
\* of its two mallocs fails, blob_list_init sets blob_set to NULL and then
\* calls blob_list_clear, which writes blob_set[0]: the process dies.
ParseBlobyuv ==
    \/ detect_yuv' = TRUE /\ blobLists' = blobLists + 1
       /\ UNCHANGED << main_pc, usestills, write_images >>
    \/ main_pc' = "exited"
       /\ UNCHANGED << usestills, detect_yuv, write_images, blobLists >>

\* input_init before its option loop: pthread_mutex_init of controls_mutex
\* (failure is exit(EXIT_FAILURE)), init_splitter_callback_data, the camera
\* defaults and the trace of argv.
InitStart ==
    /\ main_pc = "load"
    /\ main_pc' \in {"init", "exited"}
    /\ UNCHANGED << spVars, bboxVars, camVars, encVars, dbVars, semVars,
                    workerVars, clientVars, argv, usestills, detect_yuv,
                    write_images, blobLists >>

\* One round of the getopt_long_only loop with the option at the head of
\* argv: help, an unknown option or a bad -blobyuv makes input_init return
\* 1 and main exits; otherwise the switch sets its static variable.
InitOption ==
    /\ main_pc = "init" /\ argv # << >>
    /\ argv' = Tail(argv)
    /\ LET o == Head(argv) IN
       \/ o \in {"help", "unknown", "blobyuv_bad"} /\ main_pc' = "exited"
          /\ UNCHANGED << usestills, detect_yuv, write_images, blobLists >>
       \/ o = "setting" /\ UNCHANGED << main_pc, usestills, detect_yuv,
                                        write_images, blobLists >>
       \/ o = "usestills" /\ usestills' = TRUE
          /\ UNCHANGED << main_pc, detect_yuv, write_images, blobLists >>
       \/ o = "blobyuv" /\ ParseBlobyuv
       \/ o = "writeimages" /\ write_images' = TRUE
          /\ UNCHANGED << main_pc, usestills, detect_yuv, blobLists >>
    /\ UNCHANGED << spVars, bboxVars, camVars, encVars, dbVars, semVars,
                    workerVars, clientVars >>

\* getopt returns -1: pglobal is set and input_init returns 0.
InitDone ==
    /\ main_pc = "init" /\ argv = << >> /\ main_pc' = "run"
    /\ UNCHANGED << spVars, bboxVars, camVars, encVars, dbVars, semVars,
                    workerVars, clientVars, argv, usestills, detect_yuv,
                    write_images, blobLists >>

\* malloc(width * height * 3) and pthread_create(worker_thread), then
\* pthread_detach; either failing is exit(EXIT_FAILURE).  main starts the
\* output plugins (the clients) after this.
InputRun ==
    /\ main_pc = "run"
    /\ \/ bufState' = "live" /\ w_pc' = "setup" /\ main_pc' = "started"
       \/ main_pc' = "exited" /\ UNCHANGED << bufState, w_pc >>
    /\ UNCHANGED << spVars, bboxVars, camVars, encVars, db, buf, size, semVars,
                    stop, clientVars, argv, usestills, detect_yuv,
                    write_images, blobLists >>

-----------------------------------------------------------------------------
(* splitter_buffer_callback                                                 *)

\* detect_color_blobs, and the blobs of at least MIN_PIXELS_PER_BLOB pixels
\* in the order copy_best_bounding_boxes' sort gives them; the sort permutes
\* the splitter's own blob_list, so it may run before the lock.  The
\* callback runs only once buffers were sent to its port (splBufs), and
\* only video mode sends them (line 1551).
SplDetect ==
    /\ sp_pc = "idle" /\ cameraOn /\ splBufs /\ spFrames < MaxFrames /\ detect_yuv
    /\ \E s \in Selections : sp_sel' = s
    /\ sp_pc' = "lock" /\ spFrames' = spFrames + 1
    /\ UNCHANGED << sp_k, bboxVars, camVars, encVars, dbVars, semVars,
                    workerVars, clientVars, mainVars >>

SplLock ==
    /\ sp_pc = "lock" /\ bbox_mutex = "none"
    /\ bbox_mutex' = "splitter" /\ sp_k' = 0 /\ sp_pc' = "copy"
    /\ UNCHANGED << sp_sel, spFrames, bbox_element, bbox_element_count,
                    camVars, encVars, dbVars, semVars, workerVars, clientVars, mainVars >>

\* copy_best_bounding_boxes copies the qualifying blobs in order and stops
\* when bbox_element is full: the selection a pass yields.
Best(s) == SubSeq(s, 1, IF Len(s) < MAX_BBOXES THEN Len(s) ELSE MAX_BBOXES)

\* Mutant: the loop breaks only once k > bbox_element_count / 4.
SplCopyBoxPastCap ==
    /\ sp_pc = "copy" /\ sp_k < Len(sp_sel) /\ sp_k <= MAX_BBOXES
    /\ bbox_element' = [bbox_element EXCEPT ![sp_k + 1] = sp_sel[sp_k + 1]]
    /\ sp_k' = sp_k + 1
    /\ UNCHANGED << sp_pc, sp_sel, spFrames, bbox_mutex, bbox_element_count,
                    camVars, encVars, dbVars, semVars, workerVars, clientVars, mainVars >>

\* One box of the copy loop: bbox_element[k*4 .. k*4+3]; ++k.
SplCopyBox ==
    /\ sp_pc = "copy" /\ sp_k < Len(sp_sel) /\ sp_k < MAX_BBOXES
    /\ bbox_element' = [bbox_element EXCEPT ![sp_k + 1] = sp_sel[sp_k + 1]]
    /\ sp_k' = sp_k + 1
    /\ UNCHANGED << sp_pc, sp_sel, spFrames, bbox_mutex, bbox_element_count,
                    camVars, encVars, dbVars, semVars, workerVars, clientVars, mainVars >>

\* The loop ends (no blob left, or k >= bbox_element_count / 4);
\* bbox_element_count = k * 4; unlock; then the buffer goes back to the
\* pool and a new one to the port.
SplUnlock ==
    /\ sp_pc = "copy" /\ (sp_k = Len(sp_sel) \/ sp_k >= MAX_BBOXES)
    /\ bbox_element_count' = 4 * sp_k
    /\ bbox_mutex' = "none" /\ sp_pc' = "idle"
    /\ UNCHANGED << sp_sel, sp_k, spFrames, bbox_element,
                    camVars, encVars, dbVars, semVars, workerVars, clientVars, mainVars >>

\* The splitter exists when -writeimages alone was given; its callback
\* then only returns the buffer and sends a new one.
SplNoDetect ==
    /\ sp_pc = "idle" /\ cameraOn /\ splBufs /\ spFrames < MaxFrames
    /\ ~detect_yuv /\ write_images
    /\ spFrames' = spFrames + 1
    /\ UNCHANGED << sp_pc, sp_sel, sp_k, bboxVars, camVars, encVars, dbVars,
                    semVars, workerVars, clientVars, mainVars >>

-----------------------------------------------------------------------------
(* The camera and encoder_buffer_callback                                   *)

\* The encoder delivers the buffers of one more JPEG: after each still
\* capture trigger, or continuously once video capture has started.
CameraFrame ==
    /\ stream = << >> /\ cameraOn /\ encFrames < MaxFrames
    /\ IF usestills THEN triggers > 0 ELSE w_pc # "start"
    /\ \E shape \in FrameShapes : stream' = Buffers(shape, encFrames + 1)
    /\ encFrames' = encFrames + 1
    /\ triggers' = IF usestills THEN triggers - 1 ELSE triggers
    /\ UNCHANGED << encEnabled, cameraOn, splitterPool, splBufs, spVars,
                    bboxVars, encVars, dbVars,
                    semVars, workerVars, clientVars, mainVars >>

\* After the db lock: embed the boxes if the data begins with APP1.
AfterDb(b) == IF b.marker THEN "lock_bbox" ELSE "copy"

\* if (buffer->length): the db mutex is taken at the start of a frame.
EncReceive ==
    /\ enc_pc = "idle" /\ encEnabled /\ stream # << >> /\ Head(stream).len > 0
    /\ cur' = Head(stream) /\ stream' = Tail(stream)
    /\ enc_pc' = IF offset = 0 THEN "lock_db" ELSE AfterDb(Head(stream))
    /\ UNCHANGED << encFrames, triggers, encEnabled, cameraOn, splitterPool,
                    splBufs, offset, embedded, spVars, bboxVars, dbVars, semVars, workerVars, clientVars, mainVars >>

EncLockDb ==
    /\ enc_pc = "lock_db" /\ db = "none"
    /\ db' = "encoder" /\ enc_pc' = AfterDb(cur)
    /\ UNCHANGED << cur, offset, embedded, buf, size, bufState, spVars,
                    bboxVars, camVars, semVars, workerVars, clientVars, mainVars >>

\* Mutant: the boxes are read without taking bbox_mutex.
EncLockBboxNoLock ==
    /\ enc_pc = "lock_bbox" /\ enc_pc' = "overwrite"
    /\ UNCHANGED << cur, offset, embedded, bboxVars, spVars, camVars, dbVars,
                    semVars, workerVars, clientVars, mainVars >>

EncLockBbox ==
    /\ enc_pc = "lock_bbox" /\ bbox_mutex = "none"
    /\ bbox_mutex' = "encoder" /\ enc_pc' = "overwrite"
    /\ UNCHANGED << cur, offset, embedded, bbox_element, bbox_element_count,
                    spVars, camVars, dbVars, semVars, workerVars, clientVars, mainVars >>

\* overwrite_tif_tags reads bbox_element_count and bbox_element; unlock.
EncOverwrite ==
    /\ enc_pc = "overwrite"
    /\ embedded' = Sel(bbox_element, bbox_element_count)
    /\ bbox_mutex' = "none" /\ enc_pc' = "copy"
    /\ UNCHANGED << cur, offset, bbox_element, bbox_element_count,
                    spVars, camVars, dbVars, semVars, workerVars, clientVars, mainVars >>

\* Mutant: pData->offset is not reset at the end of a frame.
FinishKeepsOffset(b, off) ==
    /\ IF b.flags \in EndFlags
       THEN /\ size' = off /\ offset' = off
            /\ c_pc' = IF c_pc = "blocked" THEN "woken" ELSE c_pc
            /\ db' = "none"
            /\ complete_semaphore' = complete_semaphore + 1
       ELSE /\ offset' = off
            /\ UNCHANGED << size, c_pc, db, complete_semaphore >>
    /\ enc_pc' = "idle"
    /\ failedFrames' = IF b.flags = "failed" THEN failedFrames \cup {b.f}
                       ELSE failedFrames
    /\ UNCHANGED << bufState, semState, seen >>

\* Mutant: complete is set only inside if (buffer->length).
FinishPostsOnData(b, off) ==
    /\ IF b.flags \in EndFlags
       THEN /\ size' = off /\ offset' = 0
            /\ c_pc' = IF c_pc = "blocked" THEN "woken" ELSE c_pc
            /\ db' = "none"
            /\ complete_semaphore' = complete_semaphore + (IF b.len > 0 THEN 1 ELSE 0)
       ELSE /\ offset' = off
            /\ UNCHANGED << size, c_pc, db, complete_semaphore >>
    /\ enc_pc' = "idle"
    /\ failedFrames' = IF b.flags = "failed" THEN failedFrames \cup {b.f}
                       ELSE failedFrames
    /\ UNCHANGED << bufState, semState, seen >>

\* Mutant: db is unlocked only on FRAME_END.
FinishUnlocksOnEnd(b, off) ==
    /\ IF b.flags \in EndFlags
       THEN /\ size' = off /\ offset' = 0
            /\ c_pc' = IF c_pc = "blocked" THEN "woken" ELSE c_pc
            /\ db' = IF b.flags = "end" THEN "none" ELSE db
            /\ complete_semaphore' = complete_semaphore + 1
       ELSE /\ offset' = off
            /\ UNCHANGED << size, c_pc, db, complete_semaphore >>
    /\ enc_pc' = "idle"
    /\ failedFrames' = IF b.flags = "failed" THEN failedFrames \cup {b.f}
                       ELSE failedFrames
    /\ UNCHANGED << bufState, semState, seen >>

\* The flags test that ends the callback, with off the bytes so far: on
\* FRAME_END or TRANSMISSION_FAILED the frame is published, the waiting
\* clients are woken and db is unlocked (held or not: a normal mutex is
\* simply released); the buffer goes back and complete_semaphore is posted.
Finish(b, off) ==
    /\ IF b.flags \in EndFlags
       THEN /\ size' = off /\ offset' = 0
            /\ c_pc' = IF c_pc = "blocked" THEN "woken" ELSE c_pc
            /\ db' = "none"
            /\ complete_semaphore' = complete_semaphore + 1
       ELSE /\ offset' = off
            /\ UNCHANGED << size, c_pc, db, complete_semaphore >>
    /\ enc_pc' = "idle"
    /\ failedFrames' = IF b.flags = "failed" THEN failedFrames \cup {b.f}
                       ELSE failedFrames
    /\ UNCHANGED << bufState, semState, seen >>

\* memcpy(offset + buf, buffer->data, length); offset += length; the end test.
EncCopy ==
    /\ enc_pc = "copy"
    /\ buf' = IF offset < Len(buf) THEN [buf EXCEPT ![offset + 1] = Chunk(cur)]
              ELSE Append(buf, Chunk(cur))
    /\ Finish(cur, offset + cur.len)
    /\ UNCHANGED << cur, embedded, spVars, bboxVars, camVars, workerVars, mainVars >>

\* A buffer of length 0 goes straight to the end test.
EncEmptyBuffer ==
    /\ enc_pc = "idle" /\ encEnabled /\ stream # << >> /\ Head(stream).len = 0
    /\ cur' = Head(stream) /\ stream' = Tail(stream)
    /\ Finish(Head(stream), offset)
    /\ UNCHANGED << buf, embedded, encFrames, triggers, encEnabled, cameraOn,
                    splitterPool, splBufs,
                    spVars, bboxVars, workerVars, mainVars >>

-----------------------------------------------------------------------------
(* worker_thread, its clean-up handler, and main's stop and input_stop     *)

\* Cancellation is disabled, then the camera, its parameters, the preview
\* and the encoder with its pool are created; each failure is
\* exit(EXIT_FAILURE).
WorkerCreate ==
    /\ w_pc = "setup"
    /\ \/ w_pc' = "connect" /\ UNCHANGED main_pc
       \/ main_pc' = "exited" /\ UNCHANGED w_pc
    /\ UNCHANGED << stop, spVars, bboxVars, camVars, encVars, dbVars, semVars,
                    clientVars, argv, usestills, detect_yuv, write_images,
                    blobLists >>

\* What create_splitter_component returns: no component ("failed") when
\* the camera is missing or creating, formatting or enabling the splitter
\* fails (goto error); otherwise the splitter and its pool, which is NULL
\* when mmal_port_pool_create fails, a failure only logged (line 826).
CreateSplitterComponent == {"failed", "ok", "null"}

\* The splitter only when detect_yuv or write_images; a NULL component is
\* status MMAL_ENOSYS.  The ports are connected, the splitter callback port
\* and the encoder output port enabled, complete_semaphore created; any
\* failure status is exit(EXIT_FAILURE).
WorkerConnect ==
    /\ w_pc = "connect"
    /\ \/ /\ \E pool \in IF detect_yuv \/ write_images
                         THEN CreateSplitterComponent \ {"failed"}
                         ELSE {"none"} : splitterPool' = pool
          /\ cameraOn' = TRUE /\ encEnabled' = TRUE
          /\ w_pc' = IF usestills THEN "loop" ELSE "start"
          /\ UNCHANGED main_pc
       \/ main_pc' = "exited"
          /\ UNCHANGED << cameraOn, encEnabled, w_pc, splitterPool >>
    /\ UNCHANGED << stream, encFrames, triggers, splBufs, stop, spVars,
                    bboxVars, encVars, dbVars, semVars, clientVars, argv,
                    usestills, detect_yuv, write_images, blobLists >>

\* while (!pglobal->stop) { usleep; send the pool's buffers; capture }
WorkerLoop ==
    /\ w_pc = "loop"
    /\ IF stop THEN w_pc' = "delete_sem"
       ELSE /\ encFrames + triggers < MaxFrames
            /\ w_pc' = "capture"
    /\ UNCHANGED << stop, spVars, bboxVars, camVars, encVars,
                    dbVars, semVars, clientVars, mainVars >>

\* MMAL_PARAMETER_CAPTURE: on success wait for the frame, else go round.
WorkerCapture ==
    /\ w_pc = "capture"
    /\ \/ triggers' = triggers + 1 /\ w_pc' = "wait"
       \/ UNCHANGED triggers /\ w_pc' = "loop"
    /\ UNCHANGED << stream, encFrames, encEnabled, cameraOn, splitterPool,
                    splBufs, stop,
                    spVars, bboxVars, encVars, dbVars, semVars, clientVars, mainVars >>

\* vcos_semaphore_wait(&callback_data.complete_semaphore)
WorkerWait ==
    /\ w_pc = "wait" /\ complete_semaphore > 0
    /\ complete_semaphore' = complete_semaphore - 1 /\ w_pc' = "loop"
    /\ UNCHANGED << semState, stop, spVars, bboxVars, camVars,
                    encVars, dbVars, clientVars, mainVars >>

\* Video mode: send the encoder's buffers and, when the splitter callback
\* port exists, the splitter's (a NULL pool is dereferenced: the process
\* dies); then start capture.
WorkerStartVideo ==
    /\ w_pc = "start"
    /\ \/ /\ splitterPool # "null"
          /\ splBufs' = (splitterPool = "ok") /\ w_pc' = "poll"
          /\ UNCHANGED main_pc
       \/ /\ splitterPool = "null" /\ main_pc' = "exited"
          /\ UNCHANGED << splBufs, w_pc >>
    /\ UNCHANGED << stream, encFrames, triggers, encEnabled, cameraOn,
                    splitterPool, stop, spVars, bboxVars, encVars, dbVars,
                    semVars, clientVars, argv, usestills, detect_yuv,
                    write_images, blobLists >>

\* while (!pglobal->stop) usleep(1000);
WorkerPoll ==
    /\ w_pc = "poll" /\ stop /\ w_pc' = "delete_sem"
    /\ UNCHANGED << stop, spVars, bboxVars, camVars, encVars,
                    dbVars, semVars, clientVars, mainVars >>

\* Mutant: pthread_cleanup_pop(1) moved up before the MMAL close.
WorkerDeleteSemFreesEarly ==
    /\ w_pc = "delete_sem" /\ semState' = "deleted" /\ w_pc' = "disable"
    /\ bufState' = "freed"
    /\ UNCHANGED << complete_semaphore, stop, spVars, bboxVars,
                    camVars, encVars, db, buf, size, clientVars, mainVars >>

\* vcos_semaphore_delete, before anything MMAL is closed.
WorkerDeleteSem ==
    /\ w_pc = "delete_sem" /\ semState' = "deleted" /\ w_pc' = "disable"
    /\ UNCHANGED << complete_semaphore, stop, spVars, bboxVars,
                    camVars, encVars, dbVars, clientVars, mainVars >>

\* Disable the camera and the encoder output port; a callback in progress
\* completes first.
WorkerDisable ==
    /\ w_pc = "disable" /\ enc_pc = "idle"
    /\ encEnabled' = FALSE /\ cameraOn' = FALSE /\ w_pc' = "cleanup"
    /\ UNCHANGED << stream, encFrames, triggers, splitterPool, splBufs, stop,
                    spVars, bboxVars, encVars, dbVars, semVars, clientVars,
                    mainVars >>

\* pthread_cleanup_pop(1): worker_cleanup frees pglobal->in[].buf.
WorkerCleanup ==
    /\ w_pc = "cleanup" /\ bufState' = "freed" /\ w_pc' = "done"
    /\ UNCHANGED << db, buf, size, stop, spVars, bboxVars, camVars,
                    encVars, semVars, clientVars, mainVars >>

\* main sets pglobal->stop.  Its later input_stop (pthread_cancel) has no
\* effect: worker_thread disables cancellation first (line 981).
Stop ==
    /\ main_pc = "started" /\ ~stop /\ stop' = TRUE
    /\ UNCHANGED << w_pc, spVars, bboxVars, camVars, encVars,
                    dbVars, semVars, clientVars, mainVars >>

-----------------------------------------------------------------------------
(* A client of the frame (output plugins, not in this repository):         *)
(* lock db; pthread_cond_wait(db_update, db); copy size bytes; unlock.      *)

ClientLock ==
    /\ main_pc = "started"
    /\ c_pc = "lock" /\ db = "none" /\ db' = "client" /\ c_pc' = "wait"
    /\ UNCHANGED << seen, failedFrames, buf, size, bufState, spVars, bboxVars, camVars,
                    encVars, semVars, workerVars, mainVars >>

ClientWait ==
    /\ c_pc = "wait" /\ db' = "none" /\ c_pc' = "blocked"
    /\ UNCHANGED << seen, failedFrames, buf, size, bufState, spVars, bboxVars, camVars,
                    encVars, semVars, workerVars, mainVars >>

ClientRelock ==
    /\ c_pc = "woken" /\ db = "none" /\ db' = "client" /\ c_pc' = "copy"
    /\ UNCHANGED << seen, failedFrames, buf, size, bufState, spVars, bboxVars, camVars,
                    encVars, semVars, workerVars, mainVars >>

ClientCopy ==
    /\ c_pc = "copy" /\ seen' = SubSeq(buf, 1, size)
    /\ db' = "none" /\ c_pc' = "lock"
    /\ UNCHANGED << failedFrames, buf, size, bufState, spVars, bboxVars,
                    camVars, encVars, semVars, workerVars, mainVars >>

\* After setting stop, main stops the plugins and exits the process,
\* whether or not the worker has ended; or the process has exited.
Exit == (stop \/ main_pc = "exited") /\ UNCHANGED vars

Main     == InitStart \/ InitOption \/ InitDone \/ InputRun
Splitter == SplDetect \/ SplLock \/ SplCopyBox \/ SplUnlock \/ SplNoDetect
Encoder  == CameraFrame \/ EncReceive \/ EncLockDb \/ EncLockBbox
            \/ EncOverwrite \/ EncCopy \/ EncEmptyBuffer
Worker   == WorkerCreate \/ WorkerConnect \/ WorkerLoop \/ WorkerCapture \/ WorkerWait \/ WorkerStartVideo
            \/ WorkerPoll \/ WorkerDeleteSem \/ WorkerDisable \/ WorkerCleanup
Client   == ClientLock \/ ClientWait \/ ClientRelock \/ ClientCopy

Next == Main \/ Splitter \/ Encoder \/ Worker \/ Client \/ Stop \/ Exit

\* Every thread that can go on eventually does; the camera delivers a frame
\* it was asked for.  main's stop is not assumed to happen.
Fairness ==
    /\ WF_vars(Main) /\ WF_vars(Splitter) /\ WF_vars(Encoder) /\ WF_vars(Worker)
    /\ WF_vars(Client)

Spec == Init /\ [][Next]_vars /\ Fairness

-----------------------------------------------------------------------------
Boxes == UNION {{s[i] : i \in DOMAIN s} : s \in Selections}
ChunkSet == [f : 0 .. MaxFrames, i : 0 .. 2 * MaxFrames, n : 0 .. 2 * MaxFrames]

TypeOK ==
    /\ sp_pc \in {"idle", "lock", "copy"} /\ sp_sel \in Selections
    /\ sp_k \in 0 .. MAX_BBOXES
    /\ bbox_mutex \in {"none", "splitter", "encoder"}
    /\ bbox_element \in [1 .. MAX_BBOXES -> Boxes \cup {NoBox}]
    /\ bbox_element_count \in 0 .. 4 * MAX_BBOXES
    /\ enc_pc \in {"idle", "lock_db", "lock_bbox", "overwrite", "copy"}
    /\ db \in {"none", "encoder", "client"}
    /\ buf \in Seq(ChunkSet) /\ offset \in 0 .. Len(buf) /\ size \in 0 .. Len(buf)
    /\ w_pc \in {"none", "setup", "connect", "loop", "capture", "wait", "start", "poll", "delete_sem",
                 "disable", "cleanup", "done"}
    /\ c_pc \in {"lock", "wait", "blocked", "woken", "copy"}
    /\ main_pc \in {"load", "init", "run", "started", "exited"}
    /\ argv \in Seq(Options) /\ blobLists \in Nat
    /\ splitterPool \in {"none", "ok", "null"} /\ splBufs \in BOOLEAN
    /\ failedFrames \subseteq 1 .. MaxFrames

(***************************************************************************)
(* The shared box buffer implements BboxHandoff (spec 5): while the        *)
(* splitter holds bbox_mutex the published selection is the one it is      *)
(* copying in, otherwise it is what bbox_element and bbox_element_count    *)
(* hold.  Every step of either callback is then a whole-selection publish, *)
(* an embed of the published selection, or no change: the encoder never    *)
(* embeds part of a pass, nor a count from one pass with boxes of another. *)
(***************************************************************************)
Handoff == INSTANCE BboxHandoff
               WITH Selections <- {Best(s) : s \in Selections},
                    pending   <- Best(sp_sel),
                    published <- IF bbox_mutex = "splitter" THEN Best(sp_sel)
                                 ELSE Sel(bbox_element, bbox_element_count),
                    embedded  <- embedded

HandoffRefined == Handoff!Spec

\* Chunks 1 .. Len(s) of one frame, in order; all n of them for a whole JPEG.
FramePrefix(s) ==
    /\ Len(s) > 0
    /\ \A j \in 1 .. Len(s) : s[j] = [f |-> s[1].f, i |-> j, n |-> s[1].n]
WholeFrame(s) == FramePrefix(s) /\ Len(s) = s[1].n

(***************************************************************************)
(* What a client copies under db after a db_update broadcast is one whole  *)
(* JPEG, or the start of one JPEG whose transmission failed: the encoder   *)
(* callback holds db from the first buffer of a frame (offset 0) to its    *)
(* FRAME_END or TRANSMISSION_FAILED, across callbacks, sets size only      *)
(* then, and resets offset so the next frame starts at byte 0 (line 611);  *)
(* never bytes of two frames, nor stale bytes past a shorter frame.        *)
(***************************************************************************)
ClientCopiesFrames ==
    \/ seen = << >>
    \/ WholeFrame(seen)
    \/ FramePrefix(seen) /\ seen[1].f \in failedFrames

(***************************************************************************)
(* The encoder callback does not keep db: once it has locked db for a      *)
(* frame (line 552), it unlocks it again at the frame's end, FRAME_END or  *)
(* TRANSMISSION_FAILED (line 621), unless main stops the plugin first, so  *)
(* clients and the next frame's lock are not blocked for ever.             *)
(***************************************************************************)
DbReleased == db = "encoder" ~> (db # "encoder" \/ stop)

(***************************************************************************)
(* With -blobyuv, frames reach the detection pass: once the camera runs,   *)
(* splitter_buffer_callback eventually runs on a preview frame (spec 5:    *)
(* detection is invoked from the frame-arrival thread), while the camera   *)
(* stays on.                                                               *)
(***************************************************************************)
DetectionRuns == (cameraOn /\ detect_yuv) ~> (spFrames > 0 \/ ~cameraOn)

(***************************************************************************)
(* A still capture ends: once worker_thread waits on complete_semaphore,   *)
(* the encoder callback eventually posts it for the captured frame and     *)
(* the worker goes on (the wait has no timeout, line 1513).                *)
(***************************************************************************)
CaptureWaitEnds == w_pc = "wait" ~> w_pc # "wait"

\* The encoder callback ends a frame with this buffer.
EncoderEndsFrame ==
    \/ EncCopy /\ cur.flags \in EndFlags
    \/ EncEmptyBuffer /\ Head(stream).flags \in EndFlags

(***************************************************************************)
(* encoder_buffer_callback unlocks db (line 621) only while it holds it;   *)
(* unlocking a mutex the thread does not own is undefined, and for a       *)
(* normal mutex releases whoever holds it.                                 *)
(***************************************************************************)
DbUnlockedOnlyByHolder == [][EncoderEndsFrame => db = "encoder"]_vars

(***************************************************************************)
(* complete_semaphore is posted (line 659) only while it exists: the       *)
(* worker deletes it (line 1578) only when no encoder callback can still   *)
(* post it.                                                                *)
(***************************************************************************)
SemaphorePostedOnlyWhileLive ==
    [][complete_semaphore' > complete_semaphore => semState = "live"]_vars

(***************************************************************************)
(* The encoder callback copies into pglobal->in[].buf (line 595) only      *)
(* while the buffer input_run allocated is live: worker_cleanup frees it   *)
(* only after the encoder port is disabled, also when a video frame is in  *)
(* flight at stop.                                                         *)
(***************************************************************************)
FrameBufferLiveWhileCopying == enc_pc = "copy" => bufState = "live"

====
