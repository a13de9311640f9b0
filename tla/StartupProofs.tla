--------------------------- MODULE StartupProofs ---------------------------
(***************************************************************************)
(* Proofs about Startup, for every number of buffers and camera.           *)
(*                                                                         *)
(* FdInv says that what the program refers to is open and that no          *)
(* descriptor is referred to twice: closing one then takes nothing else    *)
(* away.  That needs the kernel to find a free number, which it does       *)
(* because there are never more descriptors than NewFd has numbers.        *)
(* PollInv follows the driver's buffers from VIDIOC_QBUF to poll.          *)
(***************************************************************************)
EXTENDS Startup, FiniteSetTheorems, SequenceTheorems, FunctionTheorems, TLAPS

\* The numbers a descriptor can have.
Fd == 0 .. 2 + RGA_DMA_BUF_COUNT + INFER_DMA_BUF_COUNT

\* The descriptor of the device main has open, and the heap's while a pool is made.
Device == IF ptOPr = NULL THEN {} ELSE {iFd}
Heap == {heap_fd} \ {None}

\* What main has not come to yet is empty, and a pool is never over-full.
Stages ==
    /\ pc \in {"VideoInit", "VideoDeviceInit", "StartDevice", "DmaPoolInit",
               "InferDmaPoolInit", "InferBridgeInit", "FfmpegStreamInit",
               "pthread_create", "GetFrame", "PutFrame", "returned"}
    /\ pc \in {"VideoInit", "VideoDeviceInit"} => ptOPr = NULL
    /\ pc \notin {"VideoInit", "VideoDeviceInit", "returned"} => ptOPr # NULL
    /\ pc \in {"VideoInit", "VideoDeviceInit", "StartDevice"} => bufs.stream = <<>>
    /\ pc \in {"VideoInit", "VideoDeviceInit", "StartDevice", "DmaPoolInit"} => bufs.infer = <<>>
    /\ ~InPoolInit => heap_fd = None
    /\ Len(bufs.stream) <= RGA_DMA_BUF_COUNT
    /\ Len(bufs.infer) <= INFER_DMA_BUF_COUNT
    /\ InPoolInit => Len(bufs[Pool]) < PoolCount

\* The descriptors the program holds are descriptors, or none.
FdTypes ==
    /\ ptOPr # NULL => iFd \in Fd
    /\ heap_fd \in Fd \union {None}
    /\ bufs \in [stream : Seq(Fd), infer : Seq(Fd)]

\* No descriptor has two owners.
Apart ==
    /\ Device \intersect Heap = {}
    /\ (Device \union Heap) \intersect (Range(bufs.stream) \union Range(bufs.infer)) = {}
    /\ Range(bufs.stream) \intersect Range(bufs.infer) = {}

\* Who owns which descriptor, at every step of the way up.
FdInv == FdTypes /\ Stages /\ Apart /\ EveryDescriptorOwned

\* What the driver's record can be.
Drivers ==
    [format : PixelFormats \union {"none"}, width : Nat, caps : Capabilities,
     streaming : BOOLEAN]

\* Once the device streams it has a mapped buffer to fill, but for the moment
\* main holds one.
PollInv ==
    /\ driver \in Drivers
    /\ pc = "StartDevice" /\ driver.caps = "streaming" => queued # {} /\ queued \subseteq mapped
    /\ pc \in {"DmaPoolInit", "InferDmaPoolInit", "InferBridgeInit", "FfmpegStreamInit",
               "pthread_create", "GetFrame"} =>
          driver.streaming /\ queued # {} /\ queued \subseteq mapped
    /\ pc = "PutFrame" =>
          driver.streaming /\ queued \union {iVideoBufCurIndex} \subseteq mapped

\* A set of numbers has a least one.
LEMMA LeastOf ==
    ASSUME NEW S \in SUBSET Nat, S # {}
    PROVE  Min(S) \in S
<1> DEFINE below == {0 .. x : x \in S}
<1>1. below \subseteq FiniteSubsetsOf(Nat) /\ below # {}
  <2>1. ASSUME NEW x \in S
        PROVE  0 .. x \in FiniteSubsetsOf(Nat)
    <3>1. x \in Int /\ 0 \in Int
      OBVIOUS
    <3>2. IsFiniteSet(0 .. x)
      BY <3>1, FS_Interval
    <3> QED
      BY <3>2 DEF FiniteSubsetsOf
  <2> QED
    BY <2>1
<1>2. PICK b \in below : \A u \in below : ~ (<<u, b>> \in StrictSubsetOrdering(Nat))
  BY <1>1, FS_StrictSubsetOrderingWellFounded, WFMin
<1>3. PICK x \in S : b = 0 .. x
  OBVIOUS
<1>4. ASSUME NEW y \in S, y < x
      PROVE  FALSE
  <2>1. 0 .. y \in SUBSET Nat /\ 0 .. x \in SUBSET Nat
    OBVIOUS
  <2>2. 0 .. y \subseteq 0 .. x /\ x \in 0 .. x /\ x \notin 0 .. y
    BY <1>4
  <2>3. <<0 .. y, 0 .. x>> \in StrictSubsetOrdering(Nat)
    BY <2>1, <2>2 DEF StrictSubsetOrdering
  <2> QED
    BY <1>2, <1>3, <2>3
<1>5. \A y \in S : x <= y
  BY <1>4
<1> QED
  BY <1>5 DEF Min

\* A sequence of descriptors has no more of them than it is long.
LEMMA RangeCount ==
    ASSUME NEW s \in Seq(Fd)
    PROVE  /\ Range(s) \subseteq Fd
           /\ IsFiniteSet(Range(s))
           /\ Cardinality(Range(s)) \in Nat
           /\ Cardinality(Range(s)) <= Len(s)
<1>1. s \in [1 .. Len(s) -> Fd] /\ Len(s) \in Nat
  OBVIOUS
<1>2. IsFiniteSet(1 .. Len(s)) /\ Cardinality(1 .. Len(s)) = Len(s)
  <2> DEFINE n == Len(s)
  <2>1. n \in Int /\ n >= 0
    BY <1>1
  <2> HIDE DEF n
  <2>2. IsFiniteSet(1 .. n) /\ Cardinality(1 .. n) = IF 1 > n THEN 0 ELSE n - 1 + 1
    BY <2>1, FS_Interval
  <2>3. IsFiniteSet(1 .. n) /\ Cardinality(1 .. n) = n
    BY <2>1, <2>2
  <2> QED
    BY <2>3 DEF n
<1>3. s \in Surjection(1 .. Len(s), Range(s)) /\ Range(s) \subseteq Fd
  BY <1>1, Fun_RangeProperties
<1>4. IsFiniteSet(Range(s)) /\ Cardinality(Range(s)) <= Cardinality(1 .. Len(s))
  BY <1>2, <1>3, FS_Surjection
<1> QED
  BY <1>2, <1>3, <1>4, FS_CardinalityType

\* Append adds one element to what a sequence holds.
LEMMA RangeGrows ==
    ASSUME NEW S, NEW s \in Seq(S), NEW e \in S
    PROVE  Range(Append(s, e)) = Range(s) \union {e}
<1>1. /\ Append(s, e) \in Seq(S) /\ Len(Append(s, e)) = Len(s) + 1
      /\ \A i \in 1 .. Len(s) : Append(s, e)[i] = s[i]
      /\ Append(s, e)[Len(s) + 1] = e
      /\ Len(s) \in Nat
  BY AppendProperties
<1> DEFINE t == Append(s, e)
<1> HIDE DEF t
<1>2. Range(t) = {t[i] : i \in 1 .. Len(s) + 1}
  BY <1>1, RangeEquality DEF t
<1>3. Range(s) = {s[i] : i \in 1 .. Len(s)}
  BY RangeEquality
<1>4. /\ \A i \in 1 .. Len(s) : t[i] = s[i]
      /\ t[Len(s) + 1] = e
  BY <1>1 DEF t
<1>5. \A i \in 1 .. Len(s) + 1 : i \in 1 .. Len(s) \/ i = Len(s) + 1
  BY <1>1
<1>6. \A i \in 1 .. Len(s) : i \in 1 .. Len(s) + 1
  BY <1>1
<1>7. Len(s) + 1 \in 1 .. Len(s) + 1
  BY <1>1
<1> QED
  BY <1>2, <1>3, <1>4, <1>5, <1>6, <1>7 DEF t

\* An empty sequence holds nothing.
LEMMA NoRange == Range(<<>>) = {}
  BY DEF Range

\* Two sets together have no more elements than one after the other.
LEMMA UnionCount ==
    ASSUME NEW S, NEW T, IsFiniteSet(S), IsFiniteSet(T)
    PROVE  /\ IsFiniteSet(S \union T)
           /\ Cardinality(S) \in Nat /\ Cardinality(T) \in Nat
           /\ Cardinality(S \union T) \in Nat
           /\ Cardinality(S \union T) <= Cardinality(S) + Cardinality(T)
<1>1. IsFiniteSet(S \union T) /\ IsFiniteSet(S \intersect T)
  BY FS_Union, FS_Subset
<1>2. Cardinality(S \union T) = Cardinality(S) + Cardinality(T) - Cardinality(S \intersect T)
  BY FS_Union
<1>3. /\ Cardinality(S) \in Nat /\ Cardinality(T) \in Nat
      /\ Cardinality(S \union T) \in Nat /\ Cardinality(S \intersect T) \in Nat
  BY <1>1, FS_CardinalityType
<1> QED
  BY <1>1, <1>2, <1>3

\* A set of one element or none.
LEMMA AtMostOne ==
    ASSUME NEW S, NEW x, S = {} \/ S = {x}
    PROVE  IsFiniteSet(S) /\ Cardinality(S) \in Nat /\ Cardinality(S) <= 1
<1>1. CASE S = {}
  BY <1>1, FS_EmptySet
<1>2. CASE S = {x}
  <2>1. IsFiniteSet({x}) /\ Cardinality({x}) = 1
    BY FS_Singleton
  <2> QED
    BY <1>2, <2>1
<1> QED
  BY <1>1, <1>2

\* The kernel finds a number that is not in use.
LEMMA NewFdIsNew ==
    ASSUME FdInv
    PROVE  NewFd \in Fd /\ NewFd \notin open
<1> USE StartupAssumption
<1> DEFINE A == Device \union Heap
           B == Range(bufs.stream) \union Range(bufs.infer)
<1>1. open = A \union B
  BY DEF FdInv, EveryDescriptorOwned, Owned, Device, Heap
<1>2. bufs.stream \in Seq(Fd) /\ bufs.infer \in Seq(Fd)
  BY DEF FdInv, FdTypes
<1>3. /\ IsFiniteSet(Device) /\ Cardinality(Device) <= 1
      /\ IsFiniteSet(Heap) /\ Cardinality(Heap) <= 1
  <2>1. Device = {} \/ Device = {iFd}
    BY DEF Device
  <2>2. Heap = {} \/ Heap = {heap_fd}
    BY DEF Heap
  <2> HIDE DEF Device, Heap
  <2> QED
    BY <2>1, <2>2, AtMostOne
<1>4. IsFiniteSet(A) /\ Cardinality(A) \in Nat /\ Cardinality(A) <= 2
  BY <1>3, UnionCount
<1>5. /\ IsFiniteSet(B) /\ Cardinality(B) \in Nat
      /\ Cardinality(B) <= RGA_DMA_BUF_COUNT + INFER_DMA_BUF_COUNT
  <2>1. Len(bufs.stream) \in Nat /\ Len(bufs.infer) \in Nat
    BY <1>2
  <2>2. Len(bufs.stream) <= RGA_DMA_BUF_COUNT /\ Len(bufs.infer) <= INFER_DMA_BUF_COUNT
    BY DEF FdInv, Stages
  <2> QED
    <3> DEFINE s == Range(bufs.stream)
               i == Range(bufs.infer)
    <3>1. /\ IsFiniteSet(s) /\ Cardinality(s) \in Nat /\ Cardinality(s) <= Len(bufs.stream)
          /\ IsFiniteSet(i) /\ Cardinality(i) \in Nat /\ Cardinality(i) <= Len(bufs.infer)
      BY <1>2, RangeCount
    <3> HIDE DEF s, i
    <3>2. /\ IsFiniteSet(s \union i) /\ Cardinality(s \union i) \in Nat
          /\ Cardinality(s \union i) <= Cardinality(s) + Cardinality(i)
      BY <3>1, UnionCount
    <3> QED
      BY <2>1, <2>2, <3>1, <3>2 DEF s, i
<1> HIDE DEF A, B
<1>6. /\ IsFiniteSet(open) /\ Cardinality(open) \in Nat
      /\ Cardinality(open) <= 2 + RGA_DMA_BUF_COUNT + INFER_DMA_BUF_COUNT
  BY <1>1, <1>4, <1>5, UnionCount
<1>7. Cardinality(Fd) = 3 + RGA_DMA_BUF_COUNT + INFER_DMA_BUF_COUNT
  BY FS_Interval DEF Fd
<1>8. ~ (Fd \subseteq open)
  <2> SUFFICES ASSUME Fd \subseteq open
               PROVE  FALSE
    OBVIOUS
  <2>1. Cardinality(Fd) <= Cardinality(open)
    BY <1>6, FS_Subset
  <2> QED
    BY <1>6, <1>7, <2>1
<1>9. Fd \ open # {} /\ Fd \ open \in SUBSET Nat
  BY <1>8 DEF Fd
<1>10. NewFd = Min(Fd \ open)
  BY DEF NewFd, Fd
<1> QED
  BY <1>9, <1>10, LeastOf


\* Which pool InPoolInit is about.
LEMMA PoolIs ==
    ASSUME InPoolInit
    PROVE  \/ pc = "DmaPoolInit" /\ Pool = "stream" /\ PoolCount = RGA_DMA_BUF_COUNT
           \/ pc = "InferDmaPoolInit" /\ Pool = "infer" /\ PoolCount = INFER_DMA_BUF_COUNT
  BY DEF InPoolInit, Pool, PoolCount

\* A pool's buffers change; the other pool's do not.
LEMMA PoolFields ==
    ASSUME FdTypes, InPoolInit, NEW s \in Seq(Fd), bufs' = [bufs EXCEPT ![Pool] = s]
    PROVE  /\ bufs' \in [stream : Seq(Fd), infer : Seq(Fd)]
           /\ Pool = "stream" =>
                 bufs'.stream = s /\ bufs'.infer = bufs.infer /\ bufs[Pool] = bufs.stream
           /\ Pool = "infer" =>
                 bufs'.infer = s /\ bufs'.stream = bufs.stream /\ bufs[Pool] = bufs.infer
<1>1. bufs \in [stream : Seq(Fd), infer : Seq(Fd)]
  BY DEF FdTypes
<1>2. CASE Pool = "stream"
  BY <1>1, <1>2
<1>3. CASE Pool = "infer"
  BY <1>1, <1>3
<1> QED
  BY <1>2, <1>3, PoolIs

\* DmaBufPoolDeinit closes what the pool held, and nothing else.
LEMMA DeinitStep ==
    ASSUME FdInv, InPoolInit, open' = open \ (Range(bufs[Pool]) \union Heap),
           bufs' = [bufs EXCEPT ![Pool] = <<>>],
           heap_fd' = None, pc' = "returned", UNCHANGED deviceVars
    PROVE  FdInv'
<1> USE StartupAssumption
<1>1. /\ bufs' \in [stream : Seq(Fd), infer : Seq(Fd)]
      /\ Pool = "stream" =>
            bufs'.stream = <<>> /\ bufs'.infer = bufs.infer /\ bufs[Pool] = bufs.stream
      /\ Pool = "infer" =>
            bufs'.infer = <<>> /\ bufs'.stream = bufs.stream /\ bufs[Pool] = bufs.infer
  <2>1. FdTypes /\ <<>> \in Seq(Fd)
    BY DEF FdInv
  <2> QED
    BY <2>1, PoolFields, Zenon
<1>2. FdTypes'
  BY <1>1 DEF FdInv, FdTypes, deviceVars
<1>3. Stages'
  BY <1>1, PoolIs DEF FdInv, Stages, InPoolInit, deviceVars
<1>4. Device' = Device /\ Heap' = {}
  BY DEF Device, Heap, deviceVars
<1>5. \/ /\ Range(bufs[Pool]) = Range(bufs.stream)
         /\ Range(bufs'.stream) = {} /\ Range(bufs'.infer) = Range(bufs.infer)
      \/ /\ Range(bufs[Pool]) = Range(bufs.infer)
         /\ Range(bufs'.infer) = {} /\ Range(bufs'.stream) = Range(bufs.stream)
  BY <1>1, PoolIs, NoRange
<1>6. Apart'
  BY <1>4, <1>5 DEF FdInv, Apart
<1>7. open = Device \union Heap \union Range(bufs.stream) \union Range(bufs.infer)
  BY DEF FdInv, EveryDescriptorOwned, Owned, Device, Heap
<1>8. open' = Device' \union Heap' \union Range(bufs'.stream) \union Range(bufs'.infer)
  BY <1>4, <1>5, <1>7 DEF FdInv, Apart
<1>9. EveryDescriptorOwned'
  BY <1>3, <1>8 DEF EveryDescriptorOwned, Owned, Device, Heap, Stages
<1> QED
  BY <1>2, <1>3, <1>6, <1>9 DEF FdInv

\* DmaHeapAlloc's buffer takes the place of the heap, in the pool.
LEMMA BufferStep ==
    ASSUME FdInv, InPoolInit, heap_fd # None, heap_fd' = None,
           open' = (open \union {NewFd}) \ {heap_fd},
           bufs' = [bufs EXCEPT ![Pool] = Append(@, NewFd)],
           pc' = IF Len(bufs[Pool]) + 1 < PoolCount THEN pc
                 ELSE IF pc = "DmaPoolInit" THEN "InferDmaPoolInit" ELSE "InferBridgeInit",
           UNCHANGED deviceVars
    PROVE  FdInv'
<1> USE StartupAssumption
<1>0. NewFd \in Fd /\ NewFd \notin open
  BY NewFdIsNew
<1> DEFINE s == Append(bufs[Pool], NewFd)
<1>a. bufs.stream \in Seq(Fd) /\ bufs.infer \in Seq(Fd)
  BY DEF FdInv, FdTypes
<1>b. bufs[Pool] \in Seq(Fd)
  BY <1>a, PoolIs
<1>c. s \in Seq(Fd) /\ Len(s) = Len(bufs[Pool]) + 1 /\ Range(s) = Range(bufs[Pool]) \union {NewFd}
  BY <1>0, <1>b, AppendProperties, RangeGrows
<1>d. bufs' = [bufs EXCEPT ![Pool] = s]
  OBVIOUS
<1> HIDE DEF s
<1>1. /\ bufs' \in [stream : Seq(Fd), infer : Seq(Fd)]
      /\ Pool = "stream" =>
            bufs'.stream = s /\ bufs'.infer = bufs.infer /\ bufs[Pool] = bufs.stream
      /\ Pool = "infer" =>
            bufs'.infer = s /\ bufs'.stream = bufs.stream /\ bufs[Pool] = bufs.infer
  BY <1>c, <1>d, PoolFields DEF FdInv
<1>2. FdTypes'
  BY <1>1 DEF FdInv, FdTypes, deviceVars
<1>3. Stages'
  <2>1. Len(bufs.stream) \in Nat /\ Len(bufs.infer) \in Nat
    BY <1>a
  <2>2. CASE pc = "DmaPoolInit"
    <3>1. /\ bufs'.stream = s /\ bufs'.infer = <<>> /\ Len(s) = Len(bufs.stream) + 1
          /\ Len(bufs.stream) < RGA_DMA_BUF_COUNT
          /\ pc' = IF Len(bufs.stream) + 1 < RGA_DMA_BUF_COUNT THEN pc ELSE "InferDmaPoolInit"
      BY <1>1, <1>c, <2>2, PoolIs DEF FdInv, Stages
    <3>2. Len(bufs'.infer) = 0
      BY <3>1
    <3>3. InPoolInit' => Len(bufs'[Pool']) < PoolCount'
      BY <2>1, <2>2, <3>1, <3>2 DEF InPoolInit, Pool, PoolCount
    <3>4. ptOPr' = ptOPr
      BY DEF deviceVars
    <3> QED
      BY <2>1, <2>2, <3>1, <3>2, <3>3, <3>4 DEF FdInv, Stages
  <2>3. CASE pc = "InferDmaPoolInit"
    <3>1. /\ bufs'.infer = s /\ bufs'.stream = bufs.stream /\ Len(s) = Len(bufs.infer) + 1
          /\ Len(bufs.infer) < INFER_DMA_BUF_COUNT
          /\ pc' = IF Len(bufs.infer) + 1 < INFER_DMA_BUF_COUNT THEN pc ELSE "InferBridgeInit"
      BY <1>1, <1>c, <2>3, PoolIs DEF FdInv, Stages
    <3>3. InPoolInit' => Len(bufs'[Pool']) < PoolCount'
      BY <2>1, <2>3, <3>1 DEF InPoolInit, Pool, PoolCount
    <3>4. ptOPr' = ptOPr
      BY DEF deviceVars
    <3> QED
      BY <2>1, <2>3, <3>1, <3>3, <3>4 DEF FdInv, Stages
  <2> QED
    BY <2>2, <2>3, PoolIs
<1>4. Device' = Device /\ Heap' = {} /\ Heap = {heap_fd}
  BY DEF Device, Heap, deviceVars
<1>5. \/ /\ Range(bufs'.stream) = Range(bufs.stream) \union {NewFd}
         /\ Range(bufs'.infer) = Range(bufs.infer)
      \/ /\ Range(bufs'.infer) = Range(bufs.infer) \union {NewFd}
         /\ Range(bufs'.stream) = Range(bufs.stream)
  BY <1>1, <1>c, PoolIs
<1>7. open = Device \union Heap \union Range(bufs.stream) \union Range(bufs.infer)
  BY DEF FdInv, EveryDescriptorOwned, Owned, Device, Heap
<1>6. Apart'
  BY <1>0, <1>4, <1>5, <1>7 DEF FdInv, Apart
<1>8. open' = Device' \union Heap' \union Range(bufs'.stream) \union Range(bufs'.infer)
  BY <1>0, <1>4, <1>5, <1>7 DEF FdInv, Apart
<1>9. EveryDescriptorOwned'
  BY <1>3, <1>8 DEF EveryDescriptorOwned, Owned, Device, Heap, Stages
<1> QED
  BY <1>2, <1>3, <1>6, <1>9 DEF FdInv

\* Every step keeps every descriptor with its one owner.
LEMMA FdInvStep ==
    ASSUME FdInv, [Next]_vars
    PROVE  FdInv'
<1> USE StartupAssumption
<1>0. open = Device \union Heap \union Range(bufs.stream) \union Range(bufs.infer)
  BY DEF FdInv, EveryDescriptorOwned, Owned, Device, Heap
<1>1. ASSUME UNCHANGED <<open, iFd, ptOPr, heap_fd, bufs>>,
             Stages'
      PROVE  FdInv'
  BY <1>1 DEF FdInv, FdTypes, Stages, Apart, EveryDescriptorOwned, Owned, Device, Heap
<1>2. CASE VideoInit
  <2>1. Stages'
    BY <1>2 DEF VideoInit, deviceVars, poolVars, FdInv, Stages, InPoolInit
  <2> QED
    BY <1>1, <1>2, <2>1 DEF VideoInit, deviceVars, poolVars
<1>3. CASE VideoDeviceInit
  <2>1. PICK granted \in 1 .. NB_BUFFER :
           V4l2OpenFails \/ V4l2InitDeviceFails(granted) \/ V4l2InitDevice(granted)
    BY <1>3 DEF VideoDeviceInit
  <2>2. pc = "VideoDeviceInit" /\ UNCHANGED poolVars /\ ptOPr = NULL
    BY <1>3 DEF VideoDeviceInit, FdInv, Stages
  <2>3. heap_fd = None /\ bufs.stream = <<>> /\ bufs.infer = <<>>
    BY <2>2 DEF FdInv, Stages, InPoolInit
  <2>4. CASE V4l2OpenFails \/ V4l2InitDeviceFails(granted)
    <3>1. pc' = "returned" /\ ptOPr' = NULL /\ UNCHANGED <<open, heap_fd, bufs>>
      BY <2>2, <2>4 DEF V4l2OpenFails, V4l2InitDeviceFails, poolVars, deviceVars
    <3>2. Stages'
      BY <2>2, <2>3, <3>1 DEF FdInv, Stages, InPoolInit
    <3> QED
      BY <2>2, <3>1, <3>2 DEF FdInv, FdTypes, Apart, EveryDescriptorOwned, Owned, Device, Heap
  <2>5. CASE V4l2InitDevice(granted)
    <3>1. /\ iFd' = NewFd /\ open' = open \union {NewFd} /\ ptOPr' = "v4l2"
          /\ pc' = "StartDevice" /\ UNCHANGED <<heap_fd, bufs>>
      BY <2>2, <2>5 DEF V4l2InitDevice, poolVars
    <3>0. ptOPr' # NULL
      BY <3>1 DEF NULL
    <3>2. NewFd \in Fd
      BY NewFdIsNew
    <3>3. Stages'
      BY <2>3, <3>0, <3>1 DEF FdInv, Stages, InPoolInit
    <3>4. Device' = {NewFd} /\ Heap' = {} /\ Device = {} /\ Heap = {}
      BY <2>2, <2>3, <3>0, <3>1 DEF Device, Heap
    <3>5. Range(bufs.stream) = {} /\ Range(bufs.infer) = {}
      BY <2>3, NoRange
    <3>6. open' = {NewFd}
      BY <1>0, <3>1, <3>4, <3>5
    <3>7. EveryDescriptorOwned'
      BY <3>0, <3>1, <3>3, <3>4, <3>5, <3>6 DEF EveryDescriptorOwned, Owned, Device, Heap, Stages
    <3>8. Apart'
      BY <3>1, <3>4, <3>5 DEF Apart
    <3>9. FdTypes'
      BY <3>1, <3>2 DEF FdInv, FdTypes
    <3> QED
      BY <3>3, <3>7, <3>8, <3>9 DEF FdInv
  <2> QED
    BY <2>1, <2>4, <2>5
<1>4. CASE V4l2StartDevice
  <2>1. pc = "StartDevice" /\ pc' \in {"DmaPoolInit", "returned"}
    BY <1>4 DEF V4l2StartDevice
  <2>2. UNCHANGED <<open, iFd, ptOPr, heap_fd, bufs>>
    BY <1>4 DEF V4l2StartDevice, deviceVars, poolVars
  <2>3. bufs.stream = <<>> /\ bufs.infer = <<>> /\ heap_fd = None
    BY <2>1 DEF FdInv, Stages, InPoolInit
  <2>4. Stages'
    BY <2>1, <2>2, <2>3 DEF FdInv, Stages, InPoolInit, Pool, PoolCount
  <2> QED
    BY <1>1, <2>2, <2>4
<1>5. CASE OpenHeap
  <2>1. InPoolInit /\ heap_fd = None /\ UNCHANGED deviceVars
    BY <1>5 DEF OpenHeap
  <2>2. Heap = {}
    BY <2>1 DEF Heap
  <2>3. CASE heap_fd' = NewFd /\ open' = open \union {NewFd} /\ UNCHANGED <<pc, bufs>>
    <3>1. NewFd \in Fd /\ NewFd \notin open
      BY NewFdIsNew
    <3>2. NewFd # None
      BY <3>1 DEF Fd, None
    <3>3. Device' = Device /\ Heap' = {NewFd}
      BY <2>1, <2>3, <3>2 DEF Device, Heap, deviceVars
    <3>4. FdTypes'
      BY <2>1, <2>3, <3>1 DEF FdInv, FdTypes, deviceVars
    <3>5. Stages'
      BY <2>1, <2>3 DEF FdInv, Stages, InPoolInit, Pool, PoolCount, deviceVars
    <3>6. Apart'
      BY <1>0, <2>2, <2>3, <3>1, <3>3 DEF FdInv, Apart
    <3>7. open' = Device' \union Heap' \union Range(bufs'.stream) \union Range(bufs'.infer)
      BY <1>0, <2>2, <2>3, <3>3
    <3>8. EveryDescriptorOwned'
      BY <3>5, <3>7 DEF EveryDescriptorOwned, Owned, Device, Heap, Stages
    <3> QED
      BY <3>4, <3>5, <3>6, <3>8 DEF FdInv
  <2>4. CASE DmaBufPoolDeinit /\ pc' = "returned" /\ UNCHANGED heap_fd
    BY <2>1, <2>2, <2>4, DeinitStep DEF DmaBufPoolDeinit
  <2> QED
    BY <1>5, <2>3, <2>4 DEF OpenHeap
<1>6. CASE AllocBuffer
  <2>1. InPoolInit /\ heap_fd # None /\ heap_fd' = None /\ UNCHANGED deviceVars
    BY <1>6 DEF AllocBuffer
  <2>2. Heap = {heap_fd}
    BY <2>1 DEF Heap
  <2> QED
    BY <1>6, <2>1, <2>2, BufferStep, DeinitStep DEF AllocBuffer
<1>7. CASE StartRest
  <2>1. Stages'
    BY <1>7 DEF StartRest, deviceVars, poolVars, FdInv, Stages, InPoolInit
  <2> QED
    BY <1>1, <1>7, <2>1 DEF StartRest, deviceVars, poolVars
<1>8. CASE GetFrame
  <2>1. Stages'
    BY <1>8 DEF GetFrame, poolVars, FdInv, Stages, InPoolInit
  <2> QED
    BY <1>1, <1>8, <2>1 DEF GetFrame, poolVars
<1>9. CASE PutFrame
  <2>1. Stages'
    BY <1>9 DEF PutFrame, deviceVars, poolVars, FdInv, Stages, InPoolInit
  <2> QED
    BY <1>1, <1>9, <2>1 DEF PutFrame, deviceVars, poolVars
<1>10. CASE UNCHANGED vars
  <2>1. Stages'
    BY <1>10 DEF vars, deviceVars, poolVars, FdInv, Stages, InPoolInit, Pool, PoolCount
  <2> QED
    BY <1>1, <1>10, <2>1 DEF vars, deviceVars, poolVars
<1> QED
  BY <1>2, <1>3, <1>4, <1>5, <1>6, <1>7, <1>8, <1>9, <1>10 DEF Next

\* When main begins nothing is open.
LEMMA FdInvInit == Init => FdInv
<1> SUFFICES ASSUME Init
             PROVE  FdInv
  OBVIOUS
<1> USE StartupAssumption
<1>1. bufs.stream = <<>> /\ bufs.infer = <<>> /\ bufs \in [stream : Seq(Fd), infer : Seq(Fd)]
  BY DEF Init
<1>2. Range(bufs.stream) = {} /\ Range(bufs.infer) = {}
  BY <1>1, NoRange
<1>3. FdTypes /\ Apart /\ EveryDescriptorOwned
  BY <1>1, <1>2 DEF Init, FdTypes, Apart, EveryDescriptorOwned, Owned, Device, Heap
<1>4. Stages
  BY <1>1 DEF Init, Stages, InPoolInit
<1> QED
  BY <1>3, <1>4 DEF FdInv

\* Whichever call fails, the open descriptors are those the program refers to.
\* (err_exit of V4l2InitDevice, DmaHeapAlloc, DmaBufPoolInit, DmaBufPoolDeinit.)
THEOREM DescriptorsAlwaysOwned == Spec => []EveryDescriptorOwned
<1>1. FdInv => EveryDescriptorOwned
  BY DEF FdInv
<1>2. FdInv /\ [Next]_vars => FdInv'
  BY FdInvStep
<1> QED
  BY <1>1, <1>2, FdInvInit, PTL DEF Spec

\* No descriptor is referred to twice, so that no close takes away a file
\* something else still uses; and the pools are never over-full.
THEOREM DescriptorsAlwaysApart == Spec => [](Apart /\ Stages)
<1>1. FdInv => Apart /\ Stages
  BY DEF FdInv
<1>2. FdInv /\ [Next]_vars => FdInv'
  BY FdInvStep
<1> QED
  BY <1>1, <1>2, FdInvInit, PTL DEF Spec

\* Whenever main polls without a timeout, the driver has a buffer to fill.
\* (V4l2InitDevice, V4l2StartDevice and the capture loop of main.)
THEOREM PollCanAlwaysReturn == Spec => []PollCanReturn
<1> USE StartupAssumption
<1>1. Init => PollInv
  BY DEF Init, PollInv, Drivers, Capabilities
<1>2. PollInv /\ [Next]_vars => PollInv'
  <2> SUFFICES ASSUME PollInv, [Next]_vars
               PROVE  PollInv'
    OBVIOUS
  <2>t. driver \in Drivers
    BY DEF PollInv
  <2>1. CASE VideoInit
    BY <2>1 DEF VideoInit, PollInv, driverVars
  <2>2. CASE VideoDeviceInit
    <3>1. PICK granted \in 1 .. NB_BUFFER :
             V4l2OpenFails \/ V4l2InitDeviceFails(granted) \/ V4l2InitDevice(granted)
      BY <2>2 DEF VideoDeviceInit
    <3>s. SetFormat => driver' \in Drivers
      <4> SUFFICES ASSUME SetFormat PROVE driver' \in Drivers
        OBVIOUS
      <4>1. PICK format \in PixelFormats, width \in DriverSizes, caps \in Capabilities :
               driver' = [format |-> format, width |-> width, caps |-> caps,
                          streaming |-> FALSE]
        BY DEF SetFormat
      <4>2. width \in Nat
        OBVIOUS
      <4> QED
        BY <4>1, <4>2 DEF Drivers
    <3>2. CASE V4l2OpenFails \/ V4l2InitDeviceFails(granted)
      <4>1. pc' = "returned" /\ (UNCHANGED driver \/ SetFormat)
        BY <3>2 DEF V4l2OpenFails, V4l2InitDeviceFails, driverVars
      <4> QED
        BY <2>t, <3>s, <4>1 DEF PollInv
    <3>3. CASE V4l2InitDevice(granted)
      <4>1. driver' \in Drivers /\ pc' = "StartDevice"
        BY <3>s, <3>3 DEF V4l2InitDevice
      <4>2. driver'.caps = "streaming" =>
               queued' = 0 .. granted - 1 /\ mapped' = 0 .. granted - 1
        BY <3>3 DEF V4l2InitDevice, QueueAll
      <4>3. 0 \in 0 .. granted - 1
        OBVIOUS
      <4> QED
        BY <4>1, <4>2, <4>3 DEF PollInv
    <3> QED
      BY <3>1, <3>2, <3>3
  <2>3. CASE V4l2StartDevice
    <3>1. CASE driver' = [driver EXCEPT !.streaming = TRUE] /\ driver.caps = "streaming"
                /\ pc' = "DmaPoolInit"
      <4>1. /\ driver' \in Drivers
            /\ driver'.streaming
        BY <2>t, <3>1 DEF Drivers
      <4> QED
        BY <2>3, <3>1, <4>1 DEF V4l2StartDevice, PollInv
    <3>2. CASE UNCHANGED driver /\ pc' = "returned"
      BY <2>t, <3>2 DEF PollInv
    <3> QED
      BY <2>3, <3>1, <3>2 DEF V4l2StartDevice
  <2>4. CASE OpenHeap
    BY <2>4 DEF OpenHeap, InPoolInit, DmaBufPoolDeinit, PollInv, deviceVars, driverVars
  <2>5. CASE AllocBuffer
    BY <2>5 DEF AllocBuffer, InPoolInit, PollInv, deviceVars, driverVars
  <2>6. CASE StartRest
    BY <2>6 DEF StartRest, PollInv, deviceVars, driverVars
  <2>7. CASE GetFrame
    BY <2>7 DEF GetFrame, PollInv
  <2>8. CASE PutFrame
    BY <2>8 DEF PutFrame, PollInv, deviceVars
  <2>9. CASE UNCHANGED vars
    BY <2>9 DEF vars, PollInv, deviceVars, driverVars
  <2> QED
    BY <2>1, <2>2, <2>3, <2>4, <2>5, <2>6, <2>7, <2>8, <2>9 DEF Next
<1>3. PollInv => PollCanReturn
  BY DEF PollInv, PollCanReturn
<1> QED
  BY <1>1, <1>2, <1>3, PTL DEF Spec

=============================================================================
