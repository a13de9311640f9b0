# Verification of the RK3588 video DMA pipeline

TLA+ models of the program in `main.c` and its modules: a camera pipeline whose
threads pass DMA-BUF and V4L2 buffers to one another, encode one branch for RTMP
and run an image encoder and a language model on the other.  TLC checks the
models on small instances; TLAPS proves their safety properties, and the
refinements between them, for every value of the constants.

## The system

The upper halves of `main.c`, `infer_bridge.c`, `infer_llm.cpp` and
`rtmp_stream.c` are an older version, commented out; what follows is about the
active halves.

| Component | State | Operations | Interacts with |
|---|---|---|---|
| DMA-BUF pool (`dmabuf/dmabuf_manager.c`) | per buffer: fd, FREE / WRITING / READY / READING, frame id; one mutex and condition variable | GetWriteIndex, Publish, GetReadIndex, ReleaseIndex, WakeAll, Init, Deinit | RgaThread writes both pools; PushThread and InferThread read one each |
| Capture loop (`main`) | the one buffer in hand | GetFrame, RgaSubmitAndWait, PutFrame, for ever | V4L2 driver; RgaThread through `g_rga_job`, `_pending`, `_done` |
| RgaThread (`main.c`) | `raw_buf`, `dma_idx`, `infer_idx`, `g_rga_count`, the time of the last inference | take a job, convert to NV12, publish, every 500 ms convert to RGB888, publish, report | both pools, the RGA |
| PushThread, InferThread (`main.c`) | the index in hand | get a frame, push or feed it, release it | a pool; RTMP backend, inference bridge |
| V4L2 capture (`video/`) | mapped buffers, `iVideoBufCurIndex` | init, start, GetFrame, PutFrame | kernel driver; the registry of `video_manager.c` |
| Inference bridge (`infer/infer_bridge.c`) | one cached mapping, the previous RGB frame | map, compare with the previous frame, feed or drop | InferLlm |
| Image encoder and LLM (`infer/infer_llm.cpp`) | packed embeddings, job, pending / busy flags, LlmThread | Init, FeedRgb888, the thread's loop, Exit | the NPU runtime |
| RTMP/MPP backend (`FFmpeg/rtmp_stream.c`) | encoder, muxer, last timestamp, counters | init, push, drain, exit | MPP, FFmpeg, the network |
| Stream manager (`FFmpeg/Ffmpeg_stream.c`) | linked list of backends, the current one | register, init, push, exit | the backends |
| RTSP and SRT backends | as RTMP, software encoder | init, push, exit | registered, never selected by `main` |
| Start-up (`main`, `V4l2InitDevice`, `DmaBufPoolInit`) | descriptors, mapped and queued buffers, the device's format and size | open, configure, map, queue, allocate, undo | the kernel |
| Display, render, convert | video memories, the framebuffer, converters and their tables | get, put and flush a memory; fill, merge, zoom; convert | legacy (README.md:67 of the repository): compiled (Makefile:144-152) and called by nothing, but for `GetDispResolution` in `V4l2InitDevice` |

Hard about it: four threads that share buffers owned by hardware; three
condition variables signalled, never broadcast, one of them shared by readers
and writers; conversions that fail halfway through a frame; a consumer that may
block on the network, another that may be busy for many seconds, neither of
which may stop the camera; an NPU runtime that must not be used by the encoder
and the LLM at once.  What makes each part correct:

- pool: no two threads on one buffer; the reader gets the newest frame, never
  one twice; no buffer is lost on an error path; nobody sleeps through a signal;
- hand-over: the camera never writes a buffer the RGA reads; every frame is
  processed once and goes back to the driver;
- pipeline: camera and stream do not depend on the progress of inference, and
  the camera not on that of the stream;
- LLM: encoder and LLM take turns; a job is eight whole embeddings in order;
- bridge: the bytes compared are those of the buffer fed; the gate compares with
  the frame sampled before;
- RTMP: packets keep the order of their frames and timestamps strictly increase,
  whatever fails; the encoder is done with a buffer when its push returns 0 (with
  an encoder faster than the drain loop; PushThread releases the buffer after a
  push that returned -1 as well, and of those nothing is claimed);
- stream manager: whoever was told 0 pushes into a backend that has what its
  pushes use, whatever attempts came before, but for the three allocations that
  `rtsp_stream.c` and `srt_stream.c` never look at;
- start-up: every failure closes what was opened, once, and what it leaves
  stored is not used; a device is polled only when it can answer;
- legacy parts: the framebuffer's own memory is nobody's while there are caches;
  the page shown is the page asked for as long as calls do not overlap; pixels
  are what the arguments say, where an address fits the code's pointers; a
  conversion that returns 0 keeps the colours, of YUYV the red and the blue.

`g_exit_flag` of `main.c` is initialised to 0 and never assigned;
`DmaBufPoolWakeAll`, `InferBridgeExit`, `InferLlmExit` and `FfmpegStreamExit`
have no callers.  The program ends by `return -1` from `main`.

## Modules

| Module | Models | Correspondence |
|---|---|---|
| `DmaBufPool` | the pool's functions | state and operators only.  A function's critical section is one step; a thread in `pthread_cond_wait` is a member of `waiters`; the exit flag is the user's |
| `DmaBufChannel` | a pool between one writing and one reading thread | the loops of RgaThread and of PushThread / InferThread as far as one pool sees them.  `Wait` is the `wait` argument (1 for the stream pool, 0 for the infer pool) |
| `LatestFrame` | what a pool promises: a mailbox of one frame | abstract specification; `DmaBufChannel!MailboxSpec` states the refinement |
| `RgaHandoff` | `main`'s loop, `RgaSubmitAndWait`, RgaThread's side of it, V4L2 GetFrame / PutFrame | one action per critical section and driver call |
| `VideoPipeline` | all threads of `main.c` with both pools | instances of `RgaHandoff` and two of `DmaBufChannel`; RgaThread's work on a frame is spread over `rga_stage` |
| `InferLlm` | `infer_llm.cpp` | one action per critical section; an embedding is the id of its frame |
| `InferBridge` | `infer_bridge.c`: the mapping cache and the difference gate | state and operators, like `DmaBufPool`.  A picture is a function from pixels to brightness; the descriptors of the infer pool, which stay open, are its indices |
| `InferPath` | infer pool, InferThread, bridge and LLM together | instances of `DmaBufChannel` and `InferLlm`; the frame fed is whatever the pool gave, of any id; `pixels` is the memory of the pool's buffers, `Torn` while it is being converted into |
| `RtmpStream` | `rtmp_PushDma` and its drain loop, the timestamps, the encoder at its own pace | one action per answer of `encode_get_packet`; `usleep(1000)` is `wake`; the encoder and the clock are external actions |
| `PacketStream` | what a player is promised: frames in order, increasing timestamps, gaps allowed | abstract specification; implemented by `RtmpStream` and by the software backends of `StreamManager` |
| `Registry` | the intrusive list that four registries of the program build alike | operators; a list is a head and a `ptNext` for every node, so that a node registered twice does what it does in the code |
| `StreamManager` | `Ffmpeg_stream.c`; `Init` and `Exit` of all three backends; pushes through `rtsp_stream.c` and `srt_stream.c` | `Init` is a sequence of acquisitions, each of which may fail, noticed or not; `held` is what a backend's pointers hold afterwards |
| `MCFfmpeg` | the two before, one per behaviour | they share no state |
| `Startup` | `main` up to and through its loop, `V4l2InitDevice`, `VideoDeviceInit`, `DmaHeapAlloc`, `DmaBufPoolInit` / `Deinit` | `open` is the process's descriptor table; the kernel gives the lowest free number.  A failed `V4l2InitDevice` leaves in `iFd`, format, count and mappings what it had stored; only `ptOPr` tells that the device is there |
| `VideoMem` | `disp_manager.c` and `FBShowPage`: registration, the video memories | the two clients are external and threads of their own; no lock: each node `GetVideoMem` looks at is an action (`Look`), and claiming what it found another (`Claim`), as are the two halves of `PutVideoMem`; a page is a number |
| `PixelMem` | `FBShowPixel`, clearing, `PicMerge`, `PicMergeRegion`, `PicZoom` | memory is a function from byte offsets, at address `base`; one action per function; `TruncatedRows` is a pointer that goes through an `unsigned int` of `UIntRange` values |
| `VideoConvert` | registration and choice of a converter, the tables of `color.c`, the three converters, the errors of libjpeg and malloc | arithmetic as the code does it, bytes modulo 256; `out` is the output memory, `dangling` the pointer `mjpeg2rgb.c:110-114` keeps to memory it freed |
| `MCLegacy` | the three before, one per behaviour; their properties restated | they share no state |
| `MCInferPath`, `MCGateDefaults` | pictures for TLC | |
| `DmaBufChannelProofs`, `RgaHandoffProofs`, `InferLlmProofs` | proofs about the three components | |
| `VideoPipelineProofs`, `InferPathProofs` | proofs about the compositions | instantiate the proofs of the components |
| `FfmpegProofs` | proofs about `RtmpStream` and `StreamManager` | why those two name their parts differently (`RtmpSpec`, `written`) |
| `StartupProofs`, `MCLegacyProofs` | proofs about start-up and the legacy parts | |

Definitions whose comment starts with "Faulty" are not part of any
specification.  Each is a plausible bug in the code, put in the place of the
definition after it to see that a property notices.

Modelling decisions:

- A wait loop under a mutex (`while (!cond) pthread_cond_wait`) is two actions:
  look and go on, or look and block.  A woken thread looks again.  Spurious
  wake-ups are actions.
- The V4L2 driver may hand out any queued buffer.
- When `GetFrame` or `PutFrame` fails, `main` returns and with it every thread
  ends: `running` guards every action.
- The exit flag is exercised in `DmaBufChannel`, as the pool's interface: the
  owner sets it without the mutex, then calls `DmaBufPoolWakeAll`.  In
  `VideoPipeline` it is a variable nothing changes; `RgaHandoff` leaves its
  branches out.
- Branches the code has but this program cannot take are left out and a
  property says so: the first wait in `RgaSubmitAndWait`
  (theorem `SubmitNeverBlocks`), blocking for a stream buffer and going without an
  infer buffer (`WriterNeverBlocks`, and for all threads together the theorem
  `WritersNeverBlock`).  The drop branch of `SubmitLlmJobOrDrop`
  is in its action; `NoJobDropped` says it is not taken.
- `ShouldRunInfer` is a flag the clock raises and RgaThread lowers.
- `InferLlmInit` and `InferLlmExit` are called while no frame is being fed, the
  first only when not initialised.  `main` calls the first once and nothing
  calls the second; re-initialisation is modelled as the interface allows it.
- `FfmpegStreamInit` may be called again after it failed, with another backend
  or format, as its interface allows (`main` gives up), and `FfmpegStreamExit`
  once, at the end.
- MPP gives back a buffer it was handed (`mpp_buffer_put`) by reference count:
  the encoder keeps reading after `rtmp_PushDma` let go.  That is why the model
  asks how long the drain loop lasts.
- The allocations whose result a backend does not look at may fail like the
  others.  Two are used at once (`UsedAtOnce`: the codec's context and the
  frame), and without them the process is killed within `Init`; with three
  (`Unnoticed`: `image`, `sws`, `nv12_buf`) `Init` returns 0, and a push kills the
  process (`PushIsKilled`), or fails where the library called refuses a NULL.
- The legacy parts have no callers.  Their clients are external and keep to the
  headers; each module's heading says what that means.  The headers do not say
  that calls must not overlap, so those of `VideoMem` may.
- What is done through a pointer to freed memory is undefined: the process is
  killed, or goes on and nothing is claimed of that memory.

## Runs

| Run | Bounds | Shows |
|---|---|---|
| `channel_two` | 2 buffers (main.c:701-702), 4 frames | the pool as `main.c` sets it up: ownership, newest frame first, frames on offer answered, refinement of `LatestFrame`.  Three frames make the writer take a frame back; the fourth follows that |
| `channel_one` | 1 buffer, 8 frames | with a single buffer the writer does block; both threads then share the condition variable, without a lost wake-up, and an exit ends them |
| `handoff` | 4 V4L2 buffers (`NB_BUFFER`) | the hand-over's safety, and that a frame goes back.  No counter is bounded: the state is finite |
| `llm` | jobs of 3 frames, 8 frames | turns, order of jobs, exit and re-initialisation; a job submitted is answered and the LLM free again, not only taken.  Eight frames are two jobs, a skipped frame and a failed one |
| `pipeline` | 4 V4L2 buffers, 2+2 pool buffers, 3 frames | inference follows the stream; the pipeline implements both channels, so that no buffer is left behind on a failed conversion, and the hand-over with its fairness, though PushThread and InferThread may stop for ever; if PushThread runs, the stream flows while inference is stuck |
| `infer_path` | 2 infer buffers, 5 frames, jobs of 2, three pictures of two pixels | what is encoded is the frame that is named, whole; the gate compares neighbours; the LLM is fed growing ids; InferThread gives its buffer back though the LLM never answers.  Five frames are two jobs and a frame skipped or dropped.  The pictures are such that two small changes add up to a large one |
| `ffmpeg` | `MaxRetry` 5 (the code's), encoder up to 4 ms, 3 frames, 14 ms; 3 attempts of `FfmpegStreamInit`, 3 frames | RTMP: the DMA-BUF is free when a push returns 0; packets keep order and timestamps.  4 ms is the edge: with 5 the first property fails, and no line of the code says the encoder keeps it.  Two frames can be in the encoder at once after a failed push, and 14 ms are two whole drains.  Stream manager: the list survives being registered again; what a push uses is there, but for what nobody looks at; the software backends implement `PacketStream`.  The third attempt finds what two failed ones left, of one backend or two |
| `startup` | 4 V4L2 buffers, 2+2 pool buffers | no descriptor leaks, and the closed one that a failed `V4l2InitDevice` leaves in `iFd` is not used; `poll` can return.  Every call fails at every point; devices with streaming, with read/write and with neither; the code's own counts |
| `startup_format` | the same | a disagreement, see below |
| `gate_defaults` | 100 pixels, 2 frames, thresholds of `config.h` | a disagreement, see below |
| `legacy` | 0 to 2 caches, 1 page with an id and 2 without, two threads; a 3x2 picture at 8, 16, 32 bits and sources up to 4x3, at addresses below, across and beyond the range of an `unsigned int`; 8 levels per channel | the framebuffer's own memory is never lent when there are caches, however calls overlap; until they do, the page flushed is the page asked for; drawing changes the pixels named; a conversion that returns 0 keeps the colours to the precision of the formats, after failed ones too.  Two caches are one for each client, one is where a memory is stolen, none is drawing on the screen.  The range is 64 addresses, so that a picture of 48 bytes lies below it (8), across it (56) or beyond (128).  Sources are smaller than, as large as and larger than the memory in each direction; the levels are the edges and the middle of a byte, where the tables round and the sums wrap.  The tolerance of 6 for YUYV is tight: 5 fails, at a blue of 223 |
| `legacy_clear` | a 2x2 picture beyond the range | a disagreement, see below |

Bounds: `MaxFrame` bounds frame ids; the id is the only data of the pipeline
that grows.  The pool tells only newer from older, and at most two older frames
are in a pool of two buffers at a time, so three or four ids show every relation.

The deadlock check is off where the system may stop: in the channel runs the
threads end after an exit and the writer ends at the bound; `ffmpeg` ends at its
bounds of frames, time and attempts, or with the process killed; in the start-up
runs `main` returns; in the legacy runs one drawing operation is made, and a
conversion may kill the process.  The others check for deadlock,
and a process that has exited stutters in an action of its own.

Fairness.  Weak fairness of a thread's step says that the scheduler runs it and
the call it is in returns.  `CaptureFairSpec` asks that only of RgaThread and
`main` (`imcvtcolor` returns); nothing is asked of the camera, of a thread that
may sit in `av_write_frame`, or of the LLM.  `StreamKeepsFlowing` names the
fairness of PushThread as its hypothesis.  `FairSpec` of `InferLlm` asks that
`rkllm_run` and `run_imgenc` return, `InferFairSpec` of `InferPath` only the
latter.  That spurious wake-ups, frames, or exits happen is never assumed; an
exit that was asked for is carried through.  That the encoder is done within
`EncodeMs` is a bound on time in `RtmpStream`, not fairness.

That the RGA's work on a frame ends is assumed in `RgaHandoff` and is shown for
the pipeline by `pipeline`: it depends on the pools never blocking the writer.
`infer_path` shows that InferThread's share of the fairness `InferLlm` assumes
is there; LlmThread's is the same assumption on both sides.

### Where the repository disagrees with itself

`gate_defaults` is expected to fail.  README.md:126-127 of the repository gives
the gate's settings as 45 and 0.03f, and README.md:188 shows a frame with ratio
0.0558 pass; config.h:21-22 has 80 and 0.1f, and the gate drops such a frame.

`startup_format` is expected to fail.  main.c:1060 says "RGA thread currently
supports YUYV input only", for the check at main.c:1059; but the format checked
is the one v4l2.c:99 stored itself.  What VIDIOC_S_FMT settled on is read back
for the size (v4l2.c:121-122) and not for the format, so that a camera which
answers with another one is captured from.

`legacy_clear` is expected to fail.  `ClearVideoMemRegion` goes from one row to the
next with `(unsigned int)pwVM16bpp + iLineBytes` (disp_manager.c:518, and :531 at
32 bits), which on a 64-bit target loses the upper half of the address; the
comment at disp_manager.c:463 says that the region is set to the colour as a
whole.  The rows after the first are written elsewhere.  At 8 bits the code adds
to the pointer itself.

Two more disagreements need no run: config.h:12-13 and README.md:102-106 give a
capture size of 640x480 that nothing uses (v4l2.c:112-113 asks for 1920x1080);
and Ffmpeg_stream.h:19 says that `isSupport` judges format and protocol, while
all three backends look at the protocol only.

One more thing the model shows, though nothing in the repository promises
otherwise: the gate runs before the LLM is asked whether it can take a frame, so
a change first seen while the LLM is busy becomes the baseline, and is never
encoded if the scene then stays as it is.

## Proofs

Every safety property and refinement that a passing run checks is also a theorem
(of the two refinements with fairness, the part without it).  Each proof module has one inductive
invariant for each component, a lemma that every action keeps it, and theorems
that follow.

The components of the pipeline:

- `DmaBufChannelProofs`, from `CountAssumption` and `ChannelAssumption`.
  `ChannelInv` is the conjunction of the safety properties and of
  `ReadWasPublished`.  They need each other: that a signal is not lost rests on
  the writer not being blocked while it writes; that the offer is new rests on
  what the reader took; that the writer finds a buffer (`WriterAlwaysServed`)
  rests on ownership, since with one buffer READING at most, one of two is
  FREE or READY.  `ChannelImplementsMailbox` (for two buffers or more) first
  shows what the abstract variables are without CHOOSE (`MailboxIs`), then maps
  each step.  `ReadsAlwaysGoForward` says it for the reader: each frame it takes
  is the newest there is and newer than all before.
- `RgaHandoffProofs`, for any set of V4L2 buffers.  `FramePlace` says where a
  frame is: with main, in the job, with RgaThread, done.  The flags alone are
  not inductive, because a stale `g_rga_job_done` is told from a fresh one only
  by where the frame is.
  `SubmitNeverBlocks` justifies leaving out the first wait of `RgaSubmitAndWait`.
- `InferLlmProofs`, for every `FRAME_NUM`.  `Turns` says whose turn it is and
  gives exclusion; `JobsOrdered` relates the three vectors, the frames fed and
  the last answer, and gives `JobInOrder`.

Their compositions.  Each step of the whole is a step of each part or leaves it
alone, and the proofs of the parts are instantiated with the variables of the
whole.  So what was proved of a part on its own holds among all the threads.

- `VideoPipelineProofs`, from `PipelineAssumption`: any set of camera buffers,
  any number of frames, the two buffers per pool of main.c:701-702.
  `PipelineInv` is the invariants of the hand-over and both channels and
  `Stages`, which ties RgaThread's place in a frame to the places the parts
  know.  `Stages` is needed twice over: a job may be taken only between frames,
  or the channels would see a conversion nobody claimed a buffer for; and the
  counter of the infer pool is behind that of the stream pool just where
  RgaThread may claim an infer buffer.  The theorems: the pipeline implements
  hand-over, channels and mailboxes; inference follows the stream; the writer
  never waits; camera, RGA and readers are never in the same memory; neither
  reader takes a frame twice or an older one after a newer.
- `InferPathProofs`, from `PathAssumption`: any pictures, thresholds and
  `FRAME_NUM`.  `PathInv` adds to the invariants of the pool and the LLM where
  InferThread is in the bridge (`Places`), how the ids compare (`FedIds`), who
  sees whole pictures (`Whole`), and that the baseline of the gate is the
  picture compared last (`Baseline`).  That the encoder reads the picture that
  passed (`EncodesTheFrameItNames`) rests on the pool's `FrameHeldStill`, on
  `Places`, since the mapping is that of the index in hand, and on `Whole`.
  That the ids fed grow (`FeedsNewer`) is a consequence of `FedIds`, not a guard:
  `FeedLlm` hands over whatever InferThread took from the pool, as
  infer_llm.cpp:436 does.  `InferLlm` alone is specified with growing ids, so
  `ImplementsLlm` rests on `FeedsNewer`.

The folders around it:

- `FfmpegProofs`, `RtmpStream`.  `Drained` assumes `EncodeMs < MaxRetry` and
  nothing else about either, and holds for any number of frames.
  `ReturnedMeansDrained` is not inductive: that the last of `MaxRetry + 1` empty
  polls finds the encoder empty rests on how long the polls before it took.
  `Waited` carries that: a frame in the encoder has waited at least `retry`
  milliseconds, and no longer than `EncodeMs`.  `Refinement` needs no assumption
  about speed; its invariant `StretchesInOrder` says that what was written, what
  is ready and what is being encoded are three stretches of the frame numbers,
  in that order, whatever was lost.
- `FfmpegProofs`, `StreamManager`, for any number of attempts and frames.
  `RegisterAllIs` computes the list: the second registration of a backend cuts
  the list at its `ptNext` and leaves a stale link behind the cut, and yet after
  the third backend the list is the one of the first initialisation.
  `HeldInv` adds to `PushFindsItsBackend` little more than types: what a failed
  attempt leaves behind never matters, because a push needs the last attempt
  to have gone through whole.  `StepsSuffice` compares what each `Init` acquires
  with what a push uses.  The theorem does not say that a push is safe: of the
  software backends any of the three unnoticed allocations may be missing, and
  then `PushIsKilled` is possible.  The RTMP backend, the only one `main`
  selects, lacks nothing.  `SoftRefinement` has its own `InOrder`.
- `StartupProofs`, for any numbers of buffers.  `FdInv` is
  `EveryDescriptorOwned` with `Apart`, which says that no descriptor has two
  owners: without it a close could take away a number that another owner still
  counts on.  That the kernel finds a number at all (`NewFdIsNew`) is a
  counting argument: the descriptors in use are at most those the program has
  room for.  The closed number a failed `V4l2InitDevice` leaves in `iFd` may be
  anybody's later; the device is reached through `ptOPr` alone, which is stored
  only after success, and `EveryDescriptorOwned` counts `iFd` from then on.
  `PollInv` gives `PollCanReturn`: the driver streams and has a
  buffer, from STREAMON on and between every GetFrame and PutFrame.
- `MCLegacyProofs`, memories: any number of video memories, any pages.
  `HeldInv` holds however the calls of the two threads overlap; its
  `FrameBufferLast` says that the framebuffer's own memory is last in the list,
  never free and never found, which gives `DeviceMemKept`.  That two threads keep
  out of one another's cache memories is not claimed, for it is not so: both
  may find the same memory free before either claims it.  `SerialInv` and
  `PicturesKnown` hold until calls overlap or a memory is stolen.  `HeldIsBusy`
  says that a memory is free exactly if it is in nobody's hands, and that with
  two caches none is stolen; `LookedOver`, that what a loop went past is not
  free, so that with two caches the fourth pass is not reached.
  `PicturesKnown` says that a memory marked PS_GENERATED shows the page whose
  ID it carries; that makes `GetVideoMem`'s reuse by ID right (`PageShown`).
- `MCLegacyProofs`, converters: every colour (`Levels` is any set of bytes).
  Each table rounds by less than one; the sums that encode stay within a byte
  and those that decode are clipped; adding the errors up gives what
  `PictureKept` allows.  A pixel that shares its U and V with a darker neighbour
  can lose 6, 4 of them in a picture of one colour.  `PixelsKept` is the
  invariant, for whatever the output memory holds; after an error it holds
  nothing, or what an earlier conversion left.  Green of YUYV is left out.
- `MCLegacyProofs`, drawing: pictures of any size, from `DrawingAssumption` (none
  is empty; `PicZoom` divides by the memory's sizes).  There is next to nothing
  to be inductive about; the work is in the addresses, which are products of
  sizes.  `AddressIs` takes an address apart into row, column and byte, and
  `FilledIs`, `PlacedIs` and `ScaledIs` say which pixels the loops reach.
  `RegionIs` says when the pointer of `ClearVideoMemRegion` loses nothing: at 8
  bits, for one row, or with the whole memory below the range (`Reachable`).

Some theorems state what no run lists: that the writer takes a frame back only
from a busy reader (`ReclaimsFromBusyReader`), that the driver has every buffer
but the one `main` works on (`AlwaysOneBufferOut`), that no descriptor is owned
twice (`DescriptorsAlwaysApart`), the mailboxes of the pipeline, the types.

Only model-checked: liveness and fairness, which are out of the prover's reach.
That includes the fairness in `HandoffFairSpec` and `LlmFairSpec`; their safety
parts are the theorems `ImplementsHandoff` and `ImplementsLlm`.

## Not modelled

- Branches on `g_exit_flag` in `main.c`: nothing sets it.  Should something do
  so, `RgaSubmitAndWait` would return while the RGA still reads, and RgaThread
  would leave without signalling `main`.
- V4L2 read/write mode beyond set-up (VIDIOC_STREAMON fails without streaming
  i/o), `StopDevice`, `ExitDevice`, `InferBridgeExit`, `freeLut`: no callers.
- `h264_has_idr`, which sets a packet's key flag, and `sig_handler`, which ends
  the process on SIGSEGV and SIGABRT.
- The bytes that `rtsp_stream.c` and `srt_stream.c` convert to NV12.
- Uses the interfaces do not allow, of code nothing calls: a stream used after
  `FfmpegStreamExit`, which destroys the mutex; `rtsp_Exit` after a failed
  `Init`; `PicMerge` beyond the memory's edge.
- The green channel of YUYV: color.c:88 has its two coefficients the other way
  round than the comments there, and nothing says what is meant.
- The framebuffer's `mmap`, whose failure fb.c:71 cannot notice, and padded
  lines.
- `infer_llm_stub.c` (the interface without effects), the vendored JPEG sources
  (third-party), the older halves of the files, which are commented out.

## Plan

What is left to prove is what `PacketStream` promises in terms of a player,
for RTMP and the software backends together, as `ReadersAlwaysGoForward` does for
the readers of the pools.  Liveness stays with TLC.
