------------------------------ MODULE Startup ------------------------------
(***************************************************************************)
(* main of main.c from its first call to its capture loop, with what it    *)
(* calls: the registry of video_manager.c, the V4L2 device of v4l2.c, and  *)
(* DmaHeapAlloc, DmaBufPoolInit and DmaBufPoolDeinit of dmabuf_manager.c   *)
(* for the two pools.  Each call can fail, and main then returns.          *)
(*                                                                         *)
(* External: the kernel, which gives the lowest free descriptor, accepts   *)
(* or adjusts the format it is asked for, and grants one to NB_BUFFER      *)
(* buffers (more would overrun pucVideBuf).  A device without streaming    *)
(* i/o refuses VIDIOC_STREAMON.  What InferBridgeInit, FfmpegStreamInit    *)
(* and the threads do has modules of its own; here they succeed or fail.   *)
(***************************************************************************)
EXTENDS Integers, Sequences, SequencesExt, Registry

CONSTANTS
    NB_BUFFER,
    RGA_DMA_BUF_COUNT, INFER_DMA_BUF_COUNT,
    DriverSizes             \* widths the camera has

ASSUME StartupAssumption ==
    /\ NB_BUFFER \in Nat \ {0}
    /\ RGA_DMA_BUF_COUNT \in Nat \ {0}
    /\ INFER_DMA_BUF_COUNT \in Nat \ {0}
    /\ DriverSizes \subseteq Nat

CAPTURE_WIDTH == 1920               \* what V4l2InitDevice asks for
PixelFormats == {"YUYV", "MJPEG", "RGB565", "NV12"}

\* What a device says it can: V4L2_CAP_STREAMING, without it V4L2_CAP_READWRITE,
\* or none of the two.
Capabilities == {"streaming", "readwrite", "neither"}

None == -1

VARIABLES
    pc,                     \* the call main makes next
    oprs,                   \* g_ptVideoOprHead and every ptNext
    open,                   \* descriptors open in this process
    iFd, iPixelFormat, iWidth, iVideoBufCnt, iVideoBufCurIndex,     \* tVideoDevice,
    ptOPr,                  \* not initialised by main: NULL is whatever it held
    getFrame,               \* the function in g_tV4l2VideoOpr.GetFrame
    driver,                 \* the driver's own [format, width, caps, streaming]
    mapped, queued,         \* buffers mapped, and queued in the driver
    heap_fd,                \* the local of DmaHeapAlloc
    bufs                    \* by pool, the fds of its buffers; <<>> is bufs = NULL

deviceVars ==
    <<iFd, iPixelFormat, iWidth, iVideoBufCnt, iVideoBufCurIndex, ptOPr, getFrame>>
driverVars == <<driver, mapped, queued>>
poolVars   == <<heap_fd, bufs>>
vars == <<pc, oprs, open, deviceVars, driverVars, poolVars>>

Init ==
    /\ pc = "VideoInit"
    /\ oprs = NoneRegistered({"v4l2"})
    /\ open = {}
    /\ iFd = None
    /\ iPixelFormat = "none"
    /\ iWidth = 0
    /\ iVideoBufCnt = 0
    /\ iVideoBufCurIndex = None
    /\ ptOPr = NULL
    /\ getFrame = "streaming"
    /\ driver = [format |-> "none", width |-> 0, caps |-> "neither", streaming |-> FALSE]
    /\ mapped = {}
    /\ queued = {}
    /\ heap_fd = None
    /\ bufs = [stream |-> <<>>, infer |-> <<>>]

\* The descriptor the kernel gives out next.
NewFd == Min(0 .. 2 + RGA_DMA_BUF_COUNT + INFER_DMA_BUF_COUNT \ open)

VideoInit ==
    /\ pc = "VideoInit"
    /\ oprs' = Register(oprs, "v4l2")
    /\ pc' = "VideoDeviceInit"
    /\ UNCHANGED <<open, deviceVars, driverVars, poolVars>>

isSupportThisFormat(format) == format \in {"YUYV", "MJPEG", "RGB565"}

\* The formats the device has are enumerated, with isSupportThisFormat, and the
\* outcome overwritten with YUYV; the size that VIDIOC_S_FMT settles on is read
\* back, the pixel format is not.
SetFormat ==
    /\ iPixelFormat' = "YUYV"
    /\ \E format \in PixelFormats, width \in DriverSizes, caps \in Capabilities :
          /\ CAPTURE_WIDTH \in DriverSizes => width = CAPTURE_WIDTH
          /\ driver' = [format |-> format, width |-> width, caps |-> caps, streaming |-> FALSE]
    /\ iWidth' = driver'.width

\* The device cannot be opened.
V4l2OpenFails ==
    /\ UNCHANGED <<open, deviceVars, driverVars>>
    /\ pc' = "returned"

\* A later call of V4l2InitDevice fails and it goes to err_exit, which closes the
\* descriptor and nothing else: its number, and whatever had been stored, mapped
\* (the first m buffers) and queued (the first q) by then, stays.
V4l2InitDeviceFails(granted) ==
    /\ iFd' = NewFd
    /\ \/ /\ iPixelFormat' \in {iPixelFormat, "YUYV"}     \* VIDIOC_QUERYCAP, VIDIOC_S_FMT
          /\ UNCHANGED <<iWidth, iVideoBufCnt, driverVars>>
       \/ /\ SetFormat                                     \* VIDIOC_REQBUFS
          /\ UNCHANGED <<iVideoBufCnt, mapped, queued>>
       \/ /\ SetFormat                                     \* a buffer
          /\ driver'.caps = "streaming"
          /\ iVideoBufCnt' = granted
          /\ \/ \E m \in 0 .. granted - 1 : mapped' = 0 .. m - 1 /\ queued' = {}
             \/ \E q \in 0 .. granted - 1 : mapped' = 0 .. granted - 1 /\ queued' = 0 .. q - 1
    /\ UNCHANGED <<open, iVideoBufCurIndex, ptOPr, getFrame>>
    /\ pc' = "returned"

\* Faulty: "i < iVideoBufCnt - 1" in the loop that queues the buffers.
QueuesAllButLast(granted) == 0 .. granted - 2

\* VIDIOC_QBUF of every buffer the driver granted.
QueueAll(granted) == 0 .. granted - 1

\* V4l2InitDevice succeeds.
V4l2InitDevice(granted) ==
    /\ iFd' = NewFd
    /\ open' = open \union {NewFd}
    /\ SetFormat
    /\ \/ /\ driver'.caps = "streaming"
          /\ iVideoBufCnt' = granted
          /\ mapped' = 0 .. granted - 1
          /\ queued' = QueueAll(granted)
          /\ UNCHANGED getFrame
       \/ /\ driver'.caps = "readwrite"
          /\ iVideoBufCnt' = 1
          /\ getFrame' = "read"
          /\ UNCHANGED <<mapped, queued>>
       \/ /\ driver'.caps = "neither"
          /\ iVideoBufCnt' = granted
          /\ UNCHANGED <<mapped, queued, getFrame>>
    /\ ptOPr' = "v4l2"
    /\ UNCHANGED iVideoBufCurIndex
    /\ pc' = "StartDevice"

\* VideoDeviceInit tries the registered operators in turn; there is one.
\* main then compares what GetFormat says with V4L2_PIX_FMT_YUYV, which
\* V4l2InitDevice has just stored.
VideoDeviceInit ==
    /\ pc = "VideoDeviceInit"
    /\ FirstNode(oprs, {"v4l2"}) = "v4l2"
    /\ \E granted \in 1 .. NB_BUFFER :
          V4l2OpenFails \/ V4l2InitDeviceFails(granted) \/ V4l2InitDevice(granted)
    /\ UNCHANGED <<oprs, poolVars>>

\* VIDIOC_STREAMON, which is up to the driver.
V4l2StartDevice ==
    /\ pc = "StartDevice"
    /\ \/ /\ driver.caps = "streaming"
          /\ driver' = [driver EXCEPT !.streaming = TRUE]
          /\ pc' = "DmaPoolInit"
       \/ pc' = "returned" /\ UNCHANGED driver
    /\ UNCHANGED <<oprs, open, deviceVars, mapped, queued, poolVars>>

\* The pool DmaPoolInit or InferDmaPoolInit is working on, and its size.
Pool == IF pc = "DmaPoolInit" THEN "stream" ELSE "infer"
PoolCount == IF pc = "DmaPoolInit" THEN RGA_DMA_BUF_COUNT ELSE INFER_DMA_BUF_COUNT

InPoolInit == pc \in {"DmaPoolInit", "InferDmaPoolInit"}

\* DmaBufPoolDeinit: close what was allocated and forget the pool.
DmaBufPoolDeinit ==
    /\ open' = open \ Range(bufs[Pool])
    /\ bufs' = [bufs EXCEPT ![Pool] = <<>>]

\* DmaHeapAlloc opens one of the heaps, or none.
OpenHeap ==
    /\ InPoolInit
    /\ heap_fd = None
    /\ \/ /\ heap_fd' = NewFd
          /\ open' = open \union {NewFd}
          /\ UNCHANGED <<pc, bufs>>
       \/ /\ DmaBufPoolDeinit
          /\ pc' = "returned"
          /\ UNCHANGED heap_fd
    /\ UNCHANGED <<oprs, deviceVars, driverVars>>

\* Faulty: returns before the heap is closed when the ioctl fails.
AllocBufferLeaksHeap ==
    /\ InPoolInit
    /\ heap_fd # None
    /\ heap_fd' = None
    /\ \/ /\ open' = (open \union {NewFd}) \ {heap_fd}
          /\ bufs' = [bufs EXCEPT ![Pool] = Append(@, NewFd)]
          /\ pc' = IF Len(bufs[Pool]) + 1 < PoolCount THEN pc
                   ELSE IF pc = "DmaPoolInit" THEN "InferDmaPoolInit" ELSE "InferBridgeInit"
       \/ /\ open' = open \ Range(bufs[Pool])
          /\ bufs' = [bufs EXCEPT ![Pool] = <<>>]
          /\ pc' = "returned"
    /\ UNCHANGED <<oprs, deviceVars, driverVars>>

\* Its ioctl gives a buffer or fails, and the heap is closed.  DmaBufPoolInit
\* stores the buffer, or undoes the ones before.
AllocBuffer ==
    /\ InPoolInit
    /\ heap_fd # None
    /\ heap_fd' = None
    /\ \/ /\ open' = (open \union {NewFd}) \ {heap_fd}
          /\ bufs' = [bufs EXCEPT ![Pool] = Append(@, NewFd)]
          /\ pc' = IF Len(bufs[Pool]) + 1 < PoolCount THEN pc
                   ELSE IF pc = "DmaPoolInit" THEN "InferDmaPoolInit" ELSE "InferBridgeInit"
       \/ /\ open' = open \ (Range(bufs[Pool]) \union {heap_fd})
          /\ bufs' = [bufs EXCEPT ![Pool] = <<>>]
          /\ pc' = "returned"
    /\ UNCHANGED <<oprs, deviceVars, driverVars>>

\* InferBridgeInit, FfmpegStreamInit and the threads.
StartRest ==
    /\ \/ pc = "InferBridgeInit" /\ pc' \in {"FfmpegStreamInit", "returned"}
       \/ pc = "FfmpegStreamInit" /\ pc' \in {"pthread_create", "returned"}
       \/ pc = "pthread_create" /\ pc' \in {"GetFrame", "returned"}
    /\ UNCHANGED <<oprs, open, deviceVars, driverVars, poolVars>>

\* V4l2GetFrameForStreaming: poll without a timeout, then VIDIOC_DQBUF.
GetFrame ==
    /\ pc = "GetFrame"
    /\ \/ \E i \in queued :
             /\ queued' = queued \ {i}
             /\ iVideoBufCurIndex' = i
             /\ pc' = "PutFrame"
       \/ pc' = "returned" /\ UNCHANGED <<queued, iVideoBufCurIndex>>
    /\ UNCHANGED <<oprs, open, iFd, iPixelFormat, iWidth, iVideoBufCnt, ptOPr, getFrame, driver,
                   mapped, poolVars>>

\* RgaSubmitAndWait and V4l2PutFrameForStreaming.
PutFrame ==
    /\ pc = "PutFrame"
    /\ \/ queued' = queued \union {iVideoBufCurIndex} /\ pc' = "GetFrame"
       \/ pc' = "returned" /\ UNCHANGED queued
    /\ UNCHANGED <<oprs, open, deviceVars, driver, mapped, poolVars>>

Next ==
    \/ VideoInit \/ VideoDeviceInit \/ V4l2StartDevice \/ OpenHeap \/ AllocBuffer
    \/ StartRest \/ GetFrame \/ PutFrame

Spec == Init /\ [][Next]_vars

-----------------------------------------------------------------------------

\* The descriptors something in the program may still use: the device's is used
\* through ptOPr alone.
Owned ==
    UNION { IF ptOPr = NULL THEN {} ELSE {iFd},
            {heap_fd} \ {None}, Range(bufs.stream), Range(bufs.infer) }

\* Whichever call fails, and at whichever buffer, exactly the descriptors the
\* program may use are open: none leaks, and none is used after it was closed,
\* when its number may already be another file's.  A failed V4l2InitDevice does
\* leave a closed one in iFd, next to a format, a count and mappings; but main
\* goes on to use the device only with ptOPr stored, and then iFd is open.
\* (err_exit of V4l2InitDevice, DmaHeapAlloc, DmaBufPoolInit and DmaBufPoolDeinit.)
EveryDescriptorOwned ==
    /\ open = Owned
    /\ pc \notin {"VideoInit", "VideoDeviceInit", "returned"} => ptOPr # NULL

\* poll has no timeout.  When main enters it, the device is streaming, into
\* buffers of which at least one is queued, and all are mapped: the call can
\* return.  (V4l2InitDevice's loops and the capture loop of main.)
PollCanReturn ==
    pc = "GetFrame" =>
        /\ driver.streaming
        /\ queued # {}
        /\ queued \subseteq mapped

\* main.c:1060 says "RGA thread currently supports YUYV input only", for the
\* check before it: the frames of the capture loop are YUYV.
OnlyYuyvIsCaptured == pc = "PutFrame" => driver.format = "YUYV"

=============================================================================
