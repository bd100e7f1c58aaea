--------------------------- MODULE MCFramePipeline ---------------------------
EXTENDS FramePipeline

CONSTANTS b1, b2, b3     \* three boxes

\* No blob, one, two, and three: more than bbox_element holds.
MCSelections == { << >>, << b1 >>, << b2, b1 >>, << b1, b2, b3 >> }

\* One buffer with FRAME_END; two data buffers; data then an empty
\* FRAME_END buffer; a two-chunk JPEG whose transmission fails after its
\* first chunk.
MCFrameShapes ==
    { [n |-> 1, bufs |-> << [len |-> 1, flags |-> "end"] >>],
      [n |-> 2, bufs |-> << [len |-> 1, flags |-> "none"],
                            [len |-> 1, flags |-> "end"] >>],
      [n |-> 1, bufs |-> << [len |-> 1, flags |-> "none"],
                            [len |-> 0, flags |-> "end"] >>],
      [n |-> 2, bufs |-> << [len |-> 1, flags |-> "none"],
                            [len |-> 0, flags |-> "failed"] >>] }

\* Command lines: video and stills with detection (the second with a
\* repeated -blobyuv), -writeimages alone, -usestills alone, and the three
\* ways input_init refuses its options.
MCArgvs ==
    { << "setting", "blobyuv" >>, << "blobyuv", "usestills", "blobyuv" >>,
      << "writeimages" >>, << "usestills" >>,
      << "help" >>, << "unknown" >>, << "setting", "blobyuv_bad" >> }
MCStillsArgv == { << "usestills", "blobyuv" >> }
MCVideoArgv == { << "blobyuv" >> }

\* A transmission failure reported before any data of the frame.
MCFailedShapes ==
    MCFrameShapes \cup { [n |-> 1, bufs |-> << [len |-> 0, flags |-> "failed"] >>] }
====
