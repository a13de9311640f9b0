--------------------------- MODULE MCLegacyProofs ---------------------------
(***************************************************************************)
(* Proofs about the legacy folders: VideoMem for any number of memories    *)
(* and any pages, PixelMem for pictures of any size, VideoConvert for      *)
(* every colour.                                                           *)
(*                                                                         *)
(* The video memories: HeldInv holds however the clients' calls overlap,   *)
(* and keeps the framebuffer's own memory out of their hands.  SerialInv   *)
(* and PicturesKnown hold until calls overlap or a memory is stolen: one   *)
(* that is not free is in the hands of one client, what was looked at      *)
(* stays as it was seen, with two caches or more there is one to give      *)
(* before any has to be stolen, and a memory that is drawn shows the page  *)
(* it is marked with.                                                      *)
(*                                                                         *)
(* The converters: each table and each shift rounds by less than one unit. *)
(* Adding the errors up along the chain RGB -> YUYV -> RGB -> screen gives *)
(* linear inequalities over the bytes of one pixel, and those bound what a *)
(* channel loses.                                                          *)
(*                                                                         *)
(* Drawing: AddressIs takes an address apart into row, column and byte.    *)
(* FilledIs, PlacedIs and ScaledIs then say which pixels the three ways of *)
(* going through the memory reach; the distance from where a copy starts   *)
(* (AheadIs) is negative in a row before, and at the end of a row for a    *)
(* pixel to the left, and either is past what is copied.                   *)
(***************************************************************************)
EXTENDS MCLegacy, FiniteSetTheorems, TLAPS

-----------------------------------------------------------------------------
(* The video memories. *)

\* The enums of disp_manager.h and the fields of a T_VideoMem.
MemStates == {"VMS_FREE", "VMS_USED_FOR_CUR", "VMS_USED_FOR_PREPARE"}
PicStates == {"PS_BLANK", "PS_GENERATED"}

VideoMemory ==
    [iID : Int, bDevFrameBuffer : {0, 1}, eVideoMemState : MemStates, ePicState : PicStates]

\* The positions of the list, the framebuffer's last; and those that are lent:
\* the caches, or the framebuffer if there is no cache.
Positions == 1 .. iNum + 1
Lent == {m \in Positions : iNum = 0 \/ m <= iNum}

\* What the variables hold before there are memories (iNum < 0) and after.
MemTypes ==
    /\ iNum \in Int
    /\ stolen \in BOOLEAN /\ overlapped \in BOOLEAN
    /\ page \in [Clients -> Pages \union {NoPage}]
    /\ mem \in [Clients -> Nat]
    /\ doing \in [Clients -> {"nothing", "looks", "found", "freed"}]
    /\ pass \in [Clients -> 0 .. 4]
    /\ ptTmp \in [Clients -> Nat]
    /\ iNum < 0 =>
        /\ stolen = FALSE /\ overlapped = FALSE
        /\ \A c \in Clients : mem[c] = 0 /\ doing[c] = "nothing"
    /\ iNum >= 0 =>
        /\ mems \in [Positions -> VideoMemory]
        /\ DOMAIN pixels = Positions
        /\ \A c \in Clients : mem[c] \in 0 .. iNum + 1

\* Where a client can be in a call, and what it has then.
CallsKnown ==
    \A c \in Clients :
        /\ doing[c] \in {"looks", "found"} =>
              /\ iNum >= 0 /\ mem[c] = 0 /\ page[c] \in Pages
              /\ pass[c] >= 1 /\ ptTmp[c] >= 1
        /\ doing[c] = "found" => pass[c] <= 3 /\ ptTmp[c] \in Positions
        /\ doing[c] = "freed" => mem[c] # 0
        /\ mem[c] # 0 => page[c] \in Pages

\* The framebuffer's own memory is the last one, and if there are caches it is
\* in use for ever and nobody's, nor about to be.
FrameBufferLast ==
    iNum >= 0 =>
        /\ \A m \in Positions : mems[m].bDevFrameBuffer = IF m = iNum + 1 THEN 1 ELSE 0
        /\ iNum >= 1 =>
            /\ ~Free(iNum + 1)
            /\ \A c \in Clients :
                  mem[c] # iNum + 1 /\ (doing[c] = "found" => ptTmp[c] # iNum + 1)

\* What holds however the calls overlap.
HeldInv == MemTypes /\ CallsKnown /\ FrameBufferLast

\* A set of numbers has a least one.
LEMMA LeastOf ==
    ASSUME NEW S \in SUBSET Nat, S # {}
    PROVE  Min(S) \in S
<1> DEFINE below == {0 .. x : x \in S}
<1>1. below \subseteq FiniteSubsetsOf(Nat) /\ below # {}
  <2>1. ASSUME NEW x \in S
        PROVE  0 .. x \in FiniteSubsetsOf(Nat)
    <3>1. x \in Int /\ 0 \in Int
      OBVIOUS
    <3>2. IsFiniteSet(0 .. x)
      BY <3>1, FS_Interval
    <3> QED
      BY <3>2 DEF FiniteSubsetsOf
  <2> QED
    BY <2>1
<1>2. PICK b \in below : \A u \in below : ~ (<<u, b>> \in StrictSubsetOrdering(Nat))
  BY <1>1, FS_StrictSubsetOrderingWellFounded, WFMin
<1>3. PICK x \in S : b = 0 .. x
  OBVIOUS
<1>4. ASSUME NEW y \in S, y < x
      PROVE  FALSE
  <2>1. 0 .. y \in SUBSET Nat /\ 0 .. x \in SUBSET Nat
    OBVIOUS
  <2>2. 0 .. y \subseteq 0 .. x /\ x \in 0 .. x /\ x \notin 0 .. y
    BY <1>4
  <2>3. <<0 .. y, 0 .. x>> \in StrictSubsetOrdering(Nat)
    BY <2>1, <2>2 DEF StrictSubsetOrdering
  <2> QED
    BY <1>2, <1>3, <2>3
<1>5. \A y \in S : x <= y
  BY <1>4
<1> QED
  BY <1>5 DEF Min

\* The list AllocVideoMem builds.
LEMMA ListIs ==
    ASSUME NEW n \in Nat, NEW state
    PROVE  [i \in 1 .. n |-> CacheMem] \o <<FrameBufferMem(state)>>
             = [i \in 1 .. n + 1 |-> IF i = n + 1 THEN FrameBufferMem(state) ELSE CacheMem]
<1>1. [i \in 1 .. n |-> CacheMem] \in Seq({CacheMem})
  OBVIOUS
<1> QED
  BY <1>1

\* A page's ID is the page, if it has one.
LEMMA IDIs ==
    ASSUME NEW p \in Pages
    PROVE  /\ iIDOf(p) \in Int
           /\ iIDOf(p) \in PagesWithID => iIDOf(p) = p
           /\ iIDOf(p) # -1 => p \in PagesWithID /\ iIDOf(p) = p
  BY VideoMemAssumption DEF iIDOf, Pages

\* A call that does not overlap another is the only one.
LEMMA Begins ==
    ASSUME MemTypes, NEW c \in Clients, BeginCall(c)
    PROVE  /\ overlapped' \in BOOLEAN /\ doing[c] = "nothing"
           /\ overlapped' = FALSE =>
                 overlapped = FALSE /\ \A d \in Clients : doing[d] = "nothing"
<1>1. doing[c] = "nothing"
  BY DEF BeginCall
<1>2. overlapped' = (overlapped \/ \E d \in Clients \ {c} : doing[d] # "nothing")
  BY DEF BeginCall
<1>3. overlapped \in BOOLEAN
  BY DEF MemTypes
<1>4. overlapped' \in BOOLEAN
  BY <1>2, Zenon
<1>5. ASSUME overlapped' = FALSE
      PROVE  overlapped = FALSE /\ \A d \in Clients \ {c} : doing[d] = "nothing"
  BY <1>2, <1>3, <1>5, Zenon
<1> QED
  BY <1>1, <1>4, <1>5

\* What a claim changes.
LEMMA LendIs ==
    ASSUME HeldInv, NEW c \in Clients, NEW m \in Positions, iNum >= 0, page[c] \in Pages,
           Lend(c, m)
    PROVE  /\ mems' \in [Positions -> VideoMemory]
           /\ mems'[m].iID = IF pass[c] = 1 THEN mems[m].iID ELSE iIDOf(page[c])
           /\ mems'[m].ePicState = IF pass[c] <= 2 THEN mems[m].ePicState ELSE "PS_BLANK"
           /\ mems'[m].bDevFrameBuffer = mems[m].bDevFrameBuffer
           /\ mems'[m].eVideoMemState # "VMS_FREE"
           /\ \A o \in Positions \ {m} : mems'[o] = mems[o]
           /\ doing' = [doing EXCEPT ![c] = "nothing"]
           /\ pass' = [pass EXCEPT ![c] = 0]
           /\ ptTmp' = [ptTmp EXCEPT ![c] = 0]
           /\ mem' = [mem EXCEPT ![c] = m]
           /\ page' = page
           /\ iNum' = iNum /\ screen' = screen /\ pixels' = pixels /\ overlapped' = overlapped
<1>1. iNum \in Nat /\ mems \in [Positions -> VideoMemory]
        /\ page \in [Clients -> Pages \union {NoPage}]
  BY DEF HeldInv, MemTypes
<1> DEFINE iID == IF pass[c] = 1 THEN mems[m].iID ELSE iIDOf(page[c])
           ePicState == IF pass[c] <= 2 THEN mems[m].ePicState ELSE "PS_BLANK"
           state == IF c = "cur" THEN "VMS_USED_FOR_CUR" ELSE "VMS_USED_FOR_PREPARE"
<1>2. mems' = [mems EXCEPT ![m].iID = iID, ![m].ePicState = ePicState,
                           ![m].eVideoMemState = state]
  BY <1>1 DEF Lend
<1>3. iID \in Int /\ ePicState \in PicStates
        /\ state \in MemStates /\ state # "VMS_FREE"
  <2>1. iIDOf(page[c]) \in Int
    BY IDIs
  <2> QED
    BY <1>1, <2>1 DEF VideoMemory, PicStates, MemStates
<1>4. page' = page
  BY <1>1 DEF Lend, Return
<1> HIDE DEF iID, ePicState, state
<1>5. /\ mems' \in [Positions -> VideoMemory]
      /\ mems'[m].iID = iID /\ mems'[m].ePicState = ePicState
      /\ mems'[m].bDevFrameBuffer = mems[m].bDevFrameBuffer
      /\ mems'[m].eVideoMemState # "VMS_FREE"
      /\ \A o \in Positions \ {m} : mems'[o] = mems[o]
  BY <1>1, <1>2, <1>3 DEF VideoMemory
<1> QED
  BY <1>4, <1>5 DEF Lend, Return, iID, ePicState

\* A claim keeps the types, and the framebuffer's own memory out of it.
LEMMA LendKeepsHeld ==
    ASSUME HeldInv, NEW c \in Clients, NEW m \in Positions, iNum >= 0, page[c] \in Pages,
           Lend(c, m), stolen' \in BOOLEAN, iNum >= 1 => m # iNum + 1
    PROVE  HeldInv'
<1>1. MemTypes /\ CallsKnown /\ FrameBufferLast
  BY DEF HeldInv
<1>2. /\ mems' \in [Positions -> VideoMemory]
      /\ mems'[m].bDevFrameBuffer = mems[m].bDevFrameBuffer
      /\ \A o \in Positions \ {m} : mems'[o] = mems[o]
      /\ doing' = [doing EXCEPT ![c] = "nothing"]
      /\ pass' = [pass EXCEPT ![c] = 0]
      /\ ptTmp' = [ptTmp EXCEPT ![c] = 0]
      /\ mem' = [mem EXCEPT ![c] = m]
      /\ page' = page
      /\ iNum' = iNum /\ pixels' = pixels /\ overlapped' = overlapped
  BY LendIs
<1>3. iNum \in Nat /\ Positions' = Positions /\ m \in Nat /\ m \in 0 .. iNum + 1
  BY <1>1, <1>2 DEF MemTypes, Positions
<1>4. MemTypes'
  BY <1>1, <1>2, <1>3 DEF MemTypes
<1>5. CallsKnown'
  BY <1>1, <1>2, <1>3 DEF MemTypes, CallsKnown
<1>6. FrameBufferLast'
  <2>1. \A o \in Positions : mems'[o].bDevFrameBuffer = mems[o].bDevFrameBuffer
    BY <1>2
  <2>2. iNum >= 1 => ~Free(iNum + 1)'
    <3>1. iNum >= 1 => iNum + 1 \in Positions \ {m}
      BY <1>3 DEF Positions
    <3> QED
      BY <1>1, <1>2, <1>3, <3>1 DEF FrameBufferLast, Free
  <2>3. iNum >= 1 => \A d \in Clients :
            mem'[d] # iNum + 1 /\ (doing'[d] = "found" => ptTmp'[d] # iNum + 1)
    BY <1>1, <1>2, <1>3 DEF FrameBufferLast, MemTypes
  <2> QED
    BY <1>1, <1>2, <1>3, <2>1, <2>2, <2>3 DEF FrameBufferLast
<1> QED
  BY <1>4, <1>5, <1>6 DEF HeldInv

\* What a client does next, and what it has then.
Moves(c, now, k, t, p, m) ==
    /\ doing' = [doing EXCEPT ![c] = now]
    /\ pass' = [pass EXCEPT ![c] = k]
    /\ ptTmp' = [ptTmp EXCEPT ![c] = t]
    /\ page' = [page EXCEPT ![c] = p]
    /\ mem' = [mem EXCEPT ![c] = m]

\* So does a change to a memory that a client holds, and a client that moves.
LEMMA HoldKeepsHeld ==
    ASSUME HeldInv, iNum >= 0, iNum' = iNum, DOMAIN pixels' = DOMAIN pixels,
           mems' \in [Positions -> VideoMemory],
           \A o \in Positions : mems'[o].bDevFrameBuffer = mems[o].bDevFrameBuffer,
           iNum >= 1 => mems'[iNum + 1] = mems[iNum + 1],
           stolen' \in BOOLEAN, overlapped' \in BOOLEAN,
           NEW c \in Clients, NEW now \in {"nothing", "looks", "found", "freed"},
           NEW k \in 0 .. 4, NEW t \in Nat, NEW p \in Pages \union {NoPage}, NEW m \in Nat,
           Moves(c, now, k, t, p, m),
           m \in {0, mem[c]}, m # 0 => p = page[c], now = "freed" => m # 0,
           now \in {"looks", "found"} => m = 0 /\ p \in Pages /\ k >= 1 /\ t >= 1,
           now = "found" => k <= 3 /\ t \in Positions /\ Free(t) /\ mems' = mems
    PROVE  HeldInv'
<1>1. MemTypes /\ CallsKnown /\ FrameBufferLast
  BY DEF HeldInv
<1>2. iNum \in Nat /\ Positions' = Positions /\ mem[c] \in 0 .. iNum + 1
  BY <1>1 DEF MemTypes, Positions
<1>3. MemTypes'
  BY <1>1, <1>2 DEF MemTypes, Moves
<1>4. CallsKnown'
  BY <1>1, <1>2 DEF MemTypes, CallsKnown, Moves
<1>5. FrameBufferLast'
  <2>1. iNum >= 1 => ~Free(iNum + 1)'
    BY <1>1, <1>2 DEF FrameBufferLast, Free
  <2>2. iNum >= 1 => \A d \in Clients :
            mem'[d] # iNum + 1 /\ (doing'[d] = "found" => ptTmp'[d] # iNum + 1)
    BY <1>1, <1>2 DEF FrameBufferLast, MemTypes, Moves
  <2> QED
    BY <1>1, <1>2, <2>1, <2>2 DEF FrameBufferLast
<1> QED
  BY <1>3, <1>4, <1>5 DEF HeldInv

\* A change to one field of a memory in a client's hands.
LEMMA TouchIs ==
    ASSUME HeldInv, iNum >= 0, NEW m \in Positions, NEW s \in MemStates, NEW e \in PicStates,
           mems' = [mems EXCEPT ![m] = [mems[m] EXCEPT !.eVideoMemState = s, !.ePicState = e]]
    PROVE  /\ mems' \in [Positions -> VideoMemory]
           /\ mems'[m].iID = mems[m].iID
           /\ mems'[m].bDevFrameBuffer = mems[m].bDevFrameBuffer
           /\ mems'[m].eVideoMemState = s /\ mems'[m].ePicState = e
           /\ \A o \in Positions \ {m} : mems'[o] = mems[o]
           /\ \A o \in Positions : mems'[o].bDevFrameBuffer = mems[o].bDevFrameBuffer
<1>1. mems \in [Positions -> VideoMemory]
  BY DEF HeldInv, MemTypes
<1> QED
  BY <1>1 DEF VideoMemory

\* The memory a client holds, and what becomes of it.
LEMMA HeldIs ==
    ASSUME HeldInv, NEW c \in Clients, mem[c] # 0
    PROVE  /\ iNum >= 0 /\ iNum \in Nat
           /\ mem[c] \in Positions /\ mem[c] \in Lent
           /\ page[c] \in Pages
           /\ iNum >= 1 => mem[c] # iNum + 1
           /\ mems[mem[c]].bDevFrameBuffer = IF mem[c] = iNum + 1 THEN 1 ELSE 0
<1>1. MemTypes /\ CallsKnown /\ FrameBufferLast
  BY DEF HeldInv
<1>2. iNum >= 0 /\ iNum \in Nat /\ mem[c] \in Positions /\ page[c] \in Pages
  BY <1>1 DEF MemTypes, CallsKnown, Positions
<1>3. iNum >= 1 => mem[c] # iNum + 1
  BY <1>1, <1>2 DEF FrameBufferLast
<1>4. mem[c] \in Lent
  BY <1>2, <1>3 DEF Lent, Positions
<1> QED
  BY <1>1, <1>2, <1>3, <1>4 DEF FrameBufferLast

LEMMA DrawIs ==
    ASSUME HeldInv, NEW c \in Clients, Draw(c)
    PROVE  /\ mems' \in [Positions -> VideoMemory]
           /\ mems'[mem[c]].iID = mems[mem[c]].iID
           /\ mems'[mem[c]].eVideoMemState = mems[mem[c]].eVideoMemState
           /\ \A o \in Positions \ {mem[c]} : mems'[o] = mems[o]
           /\ \A o \in Positions : /\ mems'[o].bDevFrameBuffer = mems[o].bDevFrameBuffer
                                   /\ mems'[o].eVideoMemState = mems[o].eVideoMemState
<1> DEFINE m == mem[c]
<1>1. mem[c] # 0 /\ mems' = [mems EXCEPT ![m].ePicState = "PS_GENERATED"]
  BY DEF Draw
<1>2. m \in Positions /\ iNum >= 0
  BY <1>1, HeldIs
<1> HIDE DEF m
<1>3. mems \in [Positions -> VideoMemory]
  BY <1>2 DEF HeldInv, MemTypes
<1>4. /\ mems' = [mems EXCEPT ![m] = [mems[m] EXCEPT !.eVideoMemState = mems[m].eVideoMemState,
                                                   !.ePicState = "PS_GENERATED"]]
      /\ mems[m].eVideoMemState \in MemStates /\ "PS_GENERATED" \in PicStates
  BY <1>1, <1>2, <1>3 DEF VideoMemory, PicStates
<1> QED
  BY <1>2, <1>4, TouchIs DEF m

LEMMA PutIs ==
    ASSUME HeldInv, NEW c \in Clients, PutVideoMem(c)
    PROVE  /\ mems' \in [Positions -> VideoMemory]
           /\ mems'[mem[c]].iID = mems[mem[c]].iID
           /\ mems'[mem[c]].ePicState = mems[mem[c]].ePicState
           /\ mems'[mem[c]].eVideoMemState = "VMS_FREE"
           /\ \A o \in Positions \ {mem[c]} : mems'[o] = mems[o]
           /\ \A o \in Positions : mems'[o].bDevFrameBuffer = mems[o].bDevFrameBuffer
<1> DEFINE m == mem[c]
<1>1. mem[c] # 0 /\ mems' = [mems EXCEPT ![m].eVideoMemState = "VMS_FREE"]
  BY DEF PutVideoMem
<1>2. m \in Positions /\ iNum >= 0
  BY <1>1, HeldIs
<1> HIDE DEF m
<1>3. mems \in [Positions -> VideoMemory]
  BY <1>2 DEF HeldInv, MemTypes
<1>4. /\ mems' = [mems EXCEPT ![m] = [mems[m] EXCEPT !.eVideoMemState = "VMS_FREE",
                                                   !.ePicState = mems[m].ePicState]]
      /\ "VMS_FREE" \in MemStates /\ mems[m].ePicState \in PicStates
  BY <1>1, <1>2, <1>3 DEF VideoMemory, MemStates
<1> QED
  BY <1>2, <1>4, TouchIs DEF m

LEMMA BlankIs ==
    ASSUME HeldInv, NEW c \in Clients, BlankPicture(c)
    PROVE  /\ mem[c] # 0
           /\ mems' \in [Positions -> VideoMemory]
           /\ mems'[mem[c]].iID = mems[mem[c]].iID
           /\ mems'[mem[c]].ePicState =
                  IF mems[mem[c]].iID = -1 THEN "PS_BLANK" ELSE mems[mem[c]].ePicState
           /\ mems'[mem[c]].eVideoMemState = mems[mem[c]].eVideoMemState
           /\ \A o \in Positions \ {mem[c]} : mems'[o] = mems[o]
           /\ \A o \in Positions : /\ mems'[o].bDevFrameBuffer = mems[o].bDevFrameBuffer
                                   /\ mems'[o].eVideoMemState = mems[o].eVideoMemState
<1> DEFINE m == mem[c]
           e == IF mems[m].iID = -1 THEN "PS_BLANK" ELSE mems[m].ePicState
<1>1. mem[c] # 0 /\ mems' = [mems EXCEPT ![m].ePicState =
                                 IF mems[m].iID = -1 THEN "PS_BLANK" ELSE @]
  BY DEF BlankPicture, HeldInv, CallsKnown
<1>2. m \in Positions /\ iNum >= 0
  BY <1>1, HeldIs
<1> HIDE DEF m
<1>3. mems \in [Positions -> VideoMemory]
  BY <1>2 DEF HeldInv, MemTypes
<1>4. /\ mems' = [mems EXCEPT ![m] = [mems[m] EXCEPT !.eVideoMemState = mems[m].eVideoMemState,
                                                   !.ePicState = e]]
      /\ mems[m].eVideoMemState \in MemStates /\ e \in PicStates
  BY <1>1, <1>2, <1>3 DEF VideoMemory, PicStates
<1> HIDE DEF e
<1>5. /\ mems' \in [Positions -> VideoMemory]
      /\ mems'[m].iID = mems[m].iID /\ mems'[m].ePicState = e
      /\ mems'[m].eVideoMemState = mems[m].eVideoMemState
      /\ \A o \in Positions \ {m} : mems'[o] = mems[o]
      /\ \A o \in Positions : mems'[o].bDevFrameBuffer = mems[o].bDevFrameBuffer
  BY <1>2, <1>3, <1>4 DEF VideoMemory
<1>6. \A o \in Positions : mems'[o].eVideoMemState = mems[o].eVideoMemState
  BY <1>5
<1> QED
  BY <1>1, <1>5, <1>6 DEF m, e

\* Each step keeps what holds however the calls overlap.
LEMMA HeldStep == HeldInv /\ [Next]_vars => HeldInv'
<1> SUFFICES ASSUME HeldInv, [Next]_vars
             PROVE  HeldInv'
  OBVIOUS
<1>0. MemTypes /\ CallsKnown /\ FrameBufferLast
  BY DEF HeldInv
<1>1. ASSUME UNCHANGED <<iNum, mems, pixels, clientVars, history>>
      PROVE  HeldInv'
  BY <1>0, <1>1 DEF HeldInv, MemTypes, CallsKnown, FrameBufferLast, Positions,
                    Free, clientVars, callVars, history
<1>2. CASE DisplayInit
  BY <1>1, <1>2 DEF DisplayInit
<1>3. ASSUME NEW name \in {"fb", "lcd"}, SelectAndInitDefaultDispDev(name)
      PROVE  HeldInv'
  BY <1>1, <1>3 DEF SelectAndInitDefaultDispDev
<1>4. ASSUME NEW n \in 0 .. MaxNum, AllocVideoMem(n)
      PROVE  HeldInv'
  <2> DEFINE state == IF n = 0 THEN "VMS_FREE" ELSE "VMS_USED_FOR_CUR"
  <2>1. /\ iNum = -1 /\ n \in Nat
        /\ UNCHANGED <<page, mem, doing, pass, ptTmp, stolen, overlapped>>
        /\ \A c \in Clients : mem[c] = 0 /\ doing[c] = "nothing"
    BY <1>0, <1>4, VideoMemAssumption
       DEF AllocVideoMem, MemTypes, clientVars, callVars, history
  <2>2. CASE iNum' = Failed
    BY <1>0, <2>1, <2>2 DEF HeldInv, MemTypes, CallsKnown, FrameBufferLast, Failed
  <2>3. CASE iNum' # Failed
    <3>1. iNum' = n /\ mems' = [i \in 1 .. n |-> CacheMem] \o <<FrameBufferMem(state)>>
      BY <1>4, <2>3 DEF AllocVideoMem
    <3>2. /\ CacheMem \in VideoMemory /\ FrameBufferMem(state) \in VideoMemory
          /\ CacheMem.bDevFrameBuffer = 0
          /\ FrameBufferMem(state).bDevFrameBuffer = 1
          /\ FrameBufferMem(state).eVideoMemState = state
      BY DEF CacheMem, FrameBufferMem, VideoMemory, MemStates, PicStates
    <3> HIDE DEF state
    <3>3. mems' = [i \in 1 .. n + 1 |-> IF i = n + 1 THEN FrameBufferMem(state) ELSE CacheMem]
      BY <2>1, <3>1, ListIs
    <3>4. DOMAIN pixels' = 1 .. n + 1
      BY <1>4, <3>3 DEF AllocVideoMem
    <3>5. Positions' = 1 .. n + 1
      BY <3>1 DEF Positions
    <3>6. MemTypes'
      <4>1. mems' \in [Positions' -> VideoMemory]
        BY <3>2, <3>3, <3>5
      <4>2. iNum' \in Int /\ ~(iNum' < 0) /\ \A c \in Clients : mem'[c] \in 0 .. iNum' + 1
        BY <2>1, <3>1
      <4> QED
        BY <1>0, <2>1, <3>4, <3>5, <4>1, <4>2 DEF MemTypes
    <3>7. CallsKnown'
      BY <2>1 DEF CallsKnown
    <3>8. FrameBufferLast'
      BY <2>1, <3>1, <3>2, <3>3, <3>5 DEF FrameBufferLast, Free, state
    <3> QED
      BY <3>6, <3>7, <3>8 DEF HeldInv
  <2> QED
    BY <2>2, <2>3
\* A client moves within its call, and the list stays as it is.
<1>5. ASSUME NEW c \in Clients, NEW now \in {"nothing", "looks", "found"},
             NEW k \in 0 .. 4, NEW t \in Nat, NEW p \in Pages \union {NoPage},
             iNum >= 0, mem[c] = 0,
             UNCHANGED <<iNum, mems, pixels, stolen>>, overlapped' \in BOOLEAN,
             Moves(c, now, k, t, p, 0),
             now \in {"looks", "found"} => p \in Pages /\ k >= 1 /\ t >= 1,
             now = "found" => k <= 3 /\ t \in Positions /\ Free(t)
      PROVE  HeldInv'
  <2>1. mems \in [Positions -> VideoMemory] /\ stolen \in BOOLEAN
    BY <1>0, <1>5 DEF MemTypes
  <2>2. now \in {"nothing", "looks", "found", "freed"} /\ 0 \in {0, mem[c]} /\ 0 \in Nat
    BY <1>5
  <2> QED
    BY <1>5, <2>1, <2>2, HoldKeepsHeld
<1>6. ASSUME NEW c \in Clients, NEW p \in Pages, GetVideoMem(c, p)
      PROVE  HeldInv'
  <2>1. overlapped' \in BOOLEAN
    BY <1>0, <1>6, Begins DEF GetVideoMem
  <2>2. Moves(c, "looks", 1, 1, p, 0)
    BY <1>0, <1>6 DEF GetVideoMem, Moves, MemTypes
  <2> QED
    BY <1>5, <1>6, <2>1, <2>2 DEF GetVideoMem
<1>7. ASSUME NEW c \in Clients, Look(c)
      PROVE  HeldInv'
  <2>1. /\ doing[c] = "looks" /\ pass[c] \in 1 .. 3 /\ ptTmp[c] \in Nat /\ ptTmp[c] >= 1
        /\ iNum >= 0 /\ mem[c] = 0 /\ page[c] \in Pages
        /\ overlapped \in BOOLEAN
        /\ ptTmp[c] \in Positions
    BY <1>0, <1>7 DEF Look, MemTypes, CallsKnown
  <2>2. UNCHANGED <<iNum, mems, pixels, stolen, overlapped>>
    BY <1>7 DEF Look, history
  <2>3. CASE Suits(c, ptTmp[c])
    <3>1. Moves(c, "found", pass[c], ptTmp[c], page[c], 0) /\ Free(ptTmp[c])
      BY <1>0, <1>7, <2>1, <2>3 DEF Look, Moves, MemTypes, Suits
    <3> QED
      BY <1>5, <2>1, <2>2, <3>1
  <2>4. CASE ~Suits(c, ptTmp[c])
    <3>1. Moves(c, "looks", pass[c], ptTmp[c] + 1, page[c], 0)
      BY <1>0, <1>7, <2>1, <2>4 DEF Look, Moves, MemTypes
    <3>2. /\ pass[c] \in 0 .. 4 /\ pass[c] >= 1
          /\ ptTmp[c] + 1 \in Nat /\ ptTmp[c] + 1 >= 1
          /\ "looks" \in {"nothing", "looks", "found"} /\ "looks" # "found"
          /\ page[c] \in Pages \union {NoPage} /\ overlapped' \in BOOLEAN
      BY <2>1, <2>2
    <3>3. iNum >= 0 /\ mem[c] = 0 /\ page[c] \in Pages
          /\ UNCHANGED <<iNum, mems, pixels, stolen>>
      BY <2>1, <2>2
    <3> QED
      BY <1>5, <3>1, <3>2, <3>3
  <2> QED
    BY <2>3, <2>4
<1>8. ASSUME NEW c \in Clients, NextPass(c)
      PROVE  HeldInv'
  <2>1. /\ doing[c] = "looks" /\ pass[c] \in 1 .. 3
        /\ iNum >= 0 /\ mem[c] = 0 /\ page[c] \in Pages
        /\ overlapped \in BOOLEAN
    BY <1>0, <1>8 DEF NextPass, MemTypes, CallsKnown
  <2>2. /\ Moves(c, "looks", pass[c] + 1, 1, page[c], 0)
        /\ UNCHANGED <<iNum, mems, pixels, stolen, overlapped>>
    BY <1>0, <1>8, <2>1 DEF NextPass, Moves, MemTypes, history
  <2>3. /\ pass[c] + 1 \in 0 .. 4 /\ pass[c] + 1 >= 1 /\ 1 \in Nat /\ 1 >= 1
        /\ "looks" \in {"nothing", "looks", "found"} /\ "looks" # "found"
        /\ page[c] \in Pages \union {NoPage} /\ overlapped' \in BOOLEAN
    BY <2>1, <2>2
  <2>4. iNum >= 0 /\ mem[c] = 0 /\ page[c] \in Pages
        /\ UNCHANGED <<iNum, mems, pixels, stolen>>
    BY <2>1, <2>2
  <2>5. Moves(c, "looks", pass[c] + 1, 1, page[c], 0)
    BY <2>2
  <2> QED
    BY <1>5, <2>3, <2>4, <2>5
<1>9. ASSUME NEW c \in Clients, Claim(c)
      PROVE  HeldInv'
  <2>1. /\ iNum >= 0 /\ page[c] \in Pages /\ ptTmp[c] \in Positions
        /\ iNum >= 1 => ptTmp[c] # iNum + 1
    BY <1>0, <1>9 DEF Claim, CallsKnown, FrameBufferLast
  <2>2. stolen' \in BOOLEAN /\ Lend(c, ptTmp[c])
    BY <1>0, <1>9 DEF Claim, MemTypes
  <2> QED
    BY <2>1, <2>2, LendKeepsHeld
<1>10. ASSUME NEW c \in Clients, TakeHead(c)
       PROVE  HeldInv'
  <2>1. iNum >= 0 /\ iNum \in Nat /\ page[c] \in Pages /\ mem[c] = 0 /\ overlapped \in BOOLEAN
    BY <1>0, <1>10 DEF TakeHead, CallsKnown, MemTypes
  <2>2. CASE c = "cur"
    <3>1. Lend(c, 1) /\ stolen' \in BOOLEAN
      BY <1>10, <2>2 DEF TakeHead
    <3>2. 1 \in Positions /\ (iNum >= 1 => 1 # iNum + 1)
      BY <2>1 DEF Positions
    <3> QED
      BY <2>1, <3>1, <3>2, LendKeepsHeld
  <2>3. CASE c # "cur"
    <3>1. /\ Moves(c, "nothing", 0, 0, NoPage, 0)
          /\ UNCHANGED <<iNum, mems, pixels, stolen, overlapped>>
      BY <1>10, <2>3 DEF TakeHead, Return, Moves, history
    <3> QED
      BY <1>5, <2>1, <3>1
  <2> QED
    BY <2>2, <2>3
<1>11. ASSUME NEW c \in Clients, Draw(c)
       PROVE  HeldInv'
  <2>1. /\ iNum >= 0 /\ iNum \in Nat /\ mem[c] \in Positions /\ iNum >= 1 => mem[c] # iNum + 1
        /\ DOMAIN pixels = Positions
    BY <1>0, <1>11, HeldIs DEF Draw, MemTypes
  <2>2. DOMAIN pixels' = DOMAIN pixels /\ UNCHANGED <<iNum, clientVars, history>>
    BY <1>11 DEF Draw
  <2>3. /\ mems' \in [Positions -> VideoMemory]
        /\ \A o \in Positions : /\ mems'[o].bDevFrameBuffer = mems[o].bDevFrameBuffer
                                /\ mems'[o].eVideoMemState = mems[o].eVideoMemState
    BY <1>11, DrawIs
  <2>4. Positions' = Positions
    BY <2>2 DEF Positions
  <2> QED
    BY <1>0, <2>1, <2>2, <2>3, <2>4
       DEF HeldInv, MemTypes, CallsKnown, FrameBufferLast, Positions, Free,
           clientVars, callVars, history
<1>12. ASSUME NEW c \in Clients, FlushPixelDatasToDev(c)
       PROVE  HeldInv'
  BY <1>1, <1>12 DEF FlushPixelDatasToDev
<1>13. ASSUME NEW c \in Clients, PutVideoMem(c)
       PROVE  HeldInv'
  <2>1. /\ mem[c] # 0 /\ iNum >= 0 /\ iNum \in Nat /\ mem[c] \in Positions
        /\ page[c] \in Pages
        /\ iNum >= 1 => mem[c] # iNum + 1
    BY <1>13, HeldIs DEF PutVideoMem
  <2>2. /\ doing' = [doing EXCEPT ![c] = "freed"]
        /\ UNCHANGED <<iNum, pixels, page, mem, pass, ptTmp, stolen>>
    BY <1>13 DEF PutVideoMem
  <2>3. overlapped' \in BOOLEAN /\ stolen' \in BOOLEAN
    BY <1>0, <1>13, <2>2, Begins DEF PutVideoMem, MemTypes
  <2>4. /\ mems' \in [Positions -> VideoMemory]
        /\ \A o \in Positions \ {mem[c]} : mems'[o] = mems[o]
        /\ \A o \in Positions : mems'[o].bDevFrameBuffer = mems[o].bDevFrameBuffer
    BY <1>13, PutIs
  <2>5. iNum >= 1 => mems'[iNum + 1] = mems[iNum + 1]
    BY <2>1, <2>4 DEF Positions
  <2>6. /\ Moves(c, "freed", pass[c], ptTmp[c], page[c], mem[c])
        /\ pass[c] \in 0 .. 4 /\ ptTmp[c] \in Nat /\ mem[c] \in Nat
    BY <1>0, <2>2 DEF MemTypes, Moves
  <2> QED
    BY <2>1, <2>2, <2>3, <2>4, <2>5, <2>6, HoldKeepsHeld
<1>14. ASSUME NEW c \in Clients, BlankPicture(c)
       PROVE  HeldInv'
  <2>1. /\ mem[c] # 0 /\ iNum >= 0 /\ iNum \in Nat /\ mem[c] \in Positions
        /\ iNum >= 1 => mem[c] # iNum + 1
    BY <1>14, HeldIs, BlankIs
  <2>2. /\ mems' \in [Positions -> VideoMemory]
        /\ \A o \in Positions \ {mem[c]} : mems'[o] = mems[o]
        /\ \A o \in Positions : mems'[o].bDevFrameBuffer = mems[o].bDevFrameBuffer
    BY <1>14, BlankIs
  <2>3. iNum >= 1 => mems'[iNum + 1] = mems[iNum + 1]
    BY <2>1, <2>2 DEF Positions
  <2>4. /\ Moves(c, "nothing", 0, 0, NoPage, 0)
        /\ UNCHANGED <<iNum, pixels, stolen, overlapped>>
    BY <1>14 DEF BlankPicture, Return, Moves, history
  <2>5. stolen' \in BOOLEAN /\ overlapped' \in BOOLEAN
    BY <1>0, <2>4 DEF MemTypes
  <2>6. /\ Moves(c, "nothing", 0, 0, NoPage, 0)
        /\ iNum >= 0 /\ iNum' = iNum /\ DOMAIN pixels' = DOMAIN pixels
        /\ 0 \in Nat /\ 0 \in 0 .. 4 /\ NoPage \in Pages \union {NoPage}
        /\ 0 \in {0, mem[c]}
        /\ "nothing" \in {"nothing", "looks", "found", "freed"}
    BY <2>1, <2>4
  <2> QED
    BY <2>2, <2>3, <2>5, <2>6, HoldKeepsHeld
<1>15. CASE UNCHANGED vars
  BY <1>1, <1>15 DEF vars
<1> QED
  BY <1>2, <1>3, <1>4, <1>6, <1>7, <1>8, <1>9, <1>10, <1>11, <1>12, <1>13, <1>14, <1>15
     DEF Next

-----------------------------------------------------------------------------

\* No calls overlapped, and no memory was stolen.
Quiet == overlapped = FALSE /\ stolen = FALSE

\* There is one call at a time unless some overlapped.
OneCall ==
    overlapped = FALSE =>
        \A c, d \in Clients : doing[c] # "nothing" /\ doing[d] # "nothing" => c = d

\* A memory that is not free is in the hands of one client; with two caches
\* none is ever stolen.
HeldIsBusy ==
    /\ iNum >= 0 /\ Quiet =>
        /\ \A m \in Lent : Free(m) <=> \A c \in Clients : mem[c] = m => doing[c] = "freed"
        /\ mem["cur"] # 0 => mem["cur"] # mem["prepare"]
    /\ iNum >= 2 /\ overlapped = FALSE => stolen = FALSE

\* What GetVideoMem has looked at is not free, and what it found is.
LookedOver ==
    iNum >= 0 /\ Quiet =>
        \A c \in Clients :
            /\ doing[c] = "looks" =>
                  \A m \in Lent : pass[c] = 4 \/ (pass[c] = 3 /\ m < ptTmp[c]) => ~Free(m)
            /\ doing[c] = "found" => Suits(c, ptTmp[c])

\* What holds as long as calls do not overlap.
SerialInv == OneCall /\ HeldIsBusy /\ LookedOver

\* The fourth pass has nothing to steal if there are two caches.
LEMMA NoneToSteal ==
    ASSUME HeldInv, SerialInv, overlapped = FALSE, iNum >= 2, NEW c \in Clients,
           doing[c] = "looks", pass[c] = 4
    PROVE  FALSE
<1>1. MemTypes /\ CallsKnown /\ HeldIsBusy /\ LookedOver
  BY DEF HeldInv, SerialInv
<1>2. stolen = FALSE /\ iNum \in Nat /\ mem[c] = 0
  BY <1>1 DEF HeldIsBusy, MemTypes, CallsKnown
<1>3. 1 \in Lent /\ 2 \in Lent
  BY <1>2 DEF Lent, Positions
<1>4. ~Free(1) /\ ~Free(2)
  BY <1>1, <1>2, <1>3 DEF LookedOver, Quiet
<1>5. PICK d \in Clients : mem[d] = 1
  BY <1>1, <1>2, <1>3, <1>4 DEF HeldIsBusy, Quiet
<1>6. PICK f \in Clients : mem[f] = 2
  BY <1>1, <1>2, <1>3, <1>4 DEF HeldIsBusy, Quiet
<1> QED
  BY <1>2, <1>5, <1>6 DEF Clients

\* What was found is nobody's.
LEMMA FoundIsNobodys ==
    ASSUME HeldInv, SerialInv, Quiet, NEW c \in Clients, doing[c] = "found"
    PROVE  /\ iNum >= 0 /\ iNum \in Nat /\ ptTmp[c] \in Lent /\ ptTmp[c] \in Positions
           /\ Suits(c, ptTmp[c]) /\ page[c] \in Pages
           /\ \A d \in Clients : mem[d] # ptTmp[c]
<1>1. MemTypes /\ CallsKnown /\ FrameBufferLast /\ OneCall /\ HeldIsBusy /\ LookedOver
  BY DEF HeldInv, SerialInv
<1>2. iNum >= 0 /\ iNum \in Nat /\ ptTmp[c] \in Positions /\ page[c] \in Pages /\ mem[c] = 0
  BY <1>1 DEF MemTypes, CallsKnown
<1>3. ptTmp[c] \in Lent
  BY <1>1, <1>2 DEF FrameBufferLast, Lent, Positions
<1>4. Suits(c, ptTmp[c])
  BY <1>1, <1>2 DEF LookedOver
<1>5. \A d \in Clients : mem[d] = ptTmp[c] => doing[d] = "freed"
  BY <1>1, <1>2, <1>3, <1>4 DEF HeldIsBusy, Suits
<1>6. \A d \in Clients : doing[d] = "freed" => d = c
  BY <1>1 DEF OneCall, Quiet
<1> QED
  BY <1>2, <1>3, <1>4, <1>5, <1>6

\* Each step keeps it.
LEMMA SerialStep == HeldInv /\ SerialInv /\ [Next]_vars => SerialInv'
<1> SUFFICES ASSUME HeldInv, SerialInv, [Next]_vars
             PROVE  SerialInv'
  OBVIOUS
<1>0. MemTypes /\ CallsKnown /\ FrameBufferLast /\ OneCall /\ HeldIsBusy /\ LookedOver
  BY DEF HeldInv, SerialInv
<1>1. ASSUME UNCHANGED <<iNum, mems, pixels, clientVars, history>>
      PROVE  SerialInv'
  BY <1>0, <1>1 DEF SerialInv, OneCall, HeldIsBusy, LookedOver, Quiet, Lent, Positions,
                    Free, Suits, iIDOf, clientVars, callVars, history
\* A list that a client only looks at.
<1>2. ASSUME UNCHANGED <<iNum, mems, mem, stolen>>, iNum >= 0,
             overlapped' = FALSE => overlapped = FALSE /\ OneCall',
             NEW c \in Clients, mem[c] = 0, doing[c] # "freed",
             \A d \in Clients \ {c} :
                 doing'[d] = doing[d] /\ page'[d] = page[d] /\ pass'[d] = pass[d]
                 /\ ptTmp'[d] = ptTmp[d],
             overlapped' = FALSE /\ stolen = FALSE =>
                 /\ doing'[c] = "looks" =>
                       \A m \in Lent :
                           pass'[c] = 4 \/ (pass'[c] = 3 /\ m < ptTmp'[c]) => ~Free(m)
                 /\ doing'[c] = "found" => Suits(c, ptTmp[c])'
      PROVE  SerialInv'
  <2>1. Lent' = Lent /\ Positions' = Positions /\ (\A m : Free(m)' <=> Free(m))
    BY <1>2 DEF Lent, Positions, Free
  <2>2. \A m \in Lent : m # 0
    BY <1>0, <1>2 DEF Lent, Positions, MemTypes
  <2>3. OneCall'
    BY <1>2 DEF OneCall
  <2>4. HeldIsBusy'
    <3>1. \A m \in Lent, d \in Clients :
              (mem'[d] = m => doing'[d] = "freed") <=> (mem[d] = m => doing[d] = "freed")
      BY <1>2, <2>2
    <3>2. Quiet' => Quiet
      BY <1>2 DEF Quiet
    <3>3. ASSUME iNum >= 0, Quiet'
          PROVE  /\ \A m \in Lent :
                       Free(m) <=> \A d \in Clients : mem'[d] = m => doing'[d] = "freed"
                 /\ mem'["cur"] # 0 => mem'["cur"] # mem'["prepare"]
      BY <1>0, <1>2, <3>1, <3>2, <3>3 DEF HeldIsBusy
    <3>4. iNum >= 2 /\ overlapped' = FALSE => stolen' = FALSE
      BY <1>0, <1>2 DEF HeldIsBusy
    <3> QED
      BY <1>2, <2>1, <3>3, <3>4 DEF HeldIsBusy
  <2>5. LookedOver'
    <3> SUFFICES ASSUME Quiet', NEW d \in Clients
                 PROVE  /\ doing'[d] = "looks" =>
                              \A m \in Lent :
                                  pass'[d] = 4 \/ (pass'[d] = 3 /\ m < ptTmp'[d]) => ~Free(m)
                        /\ doing'[d] = "found" => Suits(d, ptTmp[d])'
      BY <2>1 DEF LookedOver
    <3>1. overlapped' = FALSE /\ stolen = FALSE /\ Quiet
      BY <1>2 DEF Quiet
    <3>2. CASE d = c
      BY <1>2, <3>1, <3>2
    <3>3. CASE d # c
      BY <1>0, <1>2, <3>1, <3>3 DEF LookedOver, Suits, Free, iIDOf
    <3> QED
      BY <3>2, <3>3
  <2> QED
    BY <2>3, <2>4, <2>5 DEF SerialInv
<1>3. CASE DisplayInit
  BY <1>1, <1>3 DEF DisplayInit
<1>4. ASSUME NEW name \in {"fb", "lcd"}, SelectAndInitDefaultDispDev(name)
      PROVE  SerialInv'
  BY <1>1, <1>4 DEF SelectAndInitDefaultDispDev
<1>5. ASSUME NEW n \in 0 .. MaxNum, AllocVideoMem(n)
      PROVE  SerialInv'
  <2> DEFINE state == IF n = 0 THEN "VMS_FREE" ELSE "VMS_USED_FOR_CUR"
  <2>1. /\ iNum = -1 /\ n \in Nat
        /\ UNCHANGED <<page, mem, doing, pass, ptTmp, stolen, overlapped>>
        /\ stolen = FALSE
        /\ \A c \in Clients : mem[c] = 0 /\ doing[c] = "nothing"
    BY <1>0, <1>5, VideoMemAssumption
       DEF AllocVideoMem, MemTypes, clientVars, callVars, history
  <2>2. OneCall' /\ LookedOver'
    BY <2>1 DEF OneCall, LookedOver
  <2>3. HeldIsBusy'
    <3>1. CASE iNum' = Failed
      BY <2>1, <3>1 DEF HeldIsBusy, Failed
    <3>2. CASE iNum' # Failed
      <4>1. iNum' = n /\ mems' = [i \in 1 .. n |-> CacheMem] \o <<FrameBufferMem(state)>>
        BY <1>5, <3>2 DEF AllocVideoMem
      <4>2. /\ CacheMem.eVideoMemState = "VMS_FREE"
            /\ FrameBufferMem(state).eVideoMemState = state
        BY DEF CacheMem, FrameBufferMem
      <4> HIDE DEF state
      <4>3. mems' = [i \in 1 .. n + 1 |-> IF i = n + 1 THEN FrameBufferMem(state) ELSE CacheMem]
        BY <2>1, <4>1, ListIs
      <4>4. \A m \in Lent' : Free(m)' /\ m # 0
        BY <2>1, <4>1, <4>2, <4>3 DEF Lent, Positions, Free, state
      <4> QED
        BY <2>1, <4>4 DEF HeldIsBusy, Clients
    <3> QED
      BY <3>1, <3>2
  <2> QED
    BY <2>2, <2>3 DEF SerialInv
<1>6. ASSUME NEW c \in Clients, NEW p \in Pages, GetVideoMem(c, p)
      PROVE  SerialInv'
  <2>1. /\ overlapped' = FALSE =>
              overlapped = FALSE /\ \A d \in Clients : doing[d] = "nothing"
        /\ doing[c] = "nothing"
    BY <1>0, <1>6, Begins DEF GetVideoMem
  <2>2. /\ UNCHANGED <<iNum, mems, mem, stolen>> /\ iNum >= 0 /\ mem[c] = 0
        /\ doing' = [doing EXCEPT ![c] = "looks"]
        /\ pass' = [pass EXCEPT ![c] = 1] /\ ptTmp' = [ptTmp EXCEPT ![c] = 1]
        /\ page' = [page EXCEPT ![c] = p]
    BY <1>6 DEF GetVideoMem
  <2>3. /\ \A d \in Clients \ {c} : doing'[d] = doing[d] /\ page'[d] = page[d]
                                    /\ pass'[d] = pass[d] /\ ptTmp'[d] = ptTmp[d]
        /\ doing'[c] = "looks" /\ pass'[c] = 1
    BY <1>0, <2>2 DEF MemTypes
  <2>4. overlapped' = FALSE => overlapped = FALSE /\ OneCall'
    BY <2>1, <2>3 DEF OneCall
  <2>5. overlapped' = FALSE /\ stolen = FALSE =>
           /\ doing'[c] = "looks" =>
                 \A m \in Lent :
                     pass'[c] = 4 \/ (pass'[c] = 3 /\ m < ptTmp'[c]) => ~Free(m)
           /\ doing'[c] = "found" => Suits(c, ptTmp[c])'
    BY <2>3
  <2>6. UNCHANGED <<iNum, mems, mem, stolen>> /\ doing[c] # "freed"
    BY <2>1, <2>2
  <2> QED
    BY <1>2, <2>2, <2>3, <2>4, <2>5, <2>6
<1>7. ASSUME NEW c \in Clients, Look(c)
      PROVE  SerialInv'
  <2>1. /\ doing[c] = "looks" /\ pass[c] \in 1 .. 3 /\ ptTmp[c] \in Positions
        /\ iNum >= 0 /\ iNum \in Nat /\ mem[c] = 0
    BY <1>0, <1>7 DEF Look, MemTypes, CallsKnown
  <2>2. UNCHANGED <<iNum, mems, mem, stolen, overlapped, page, pass>>
    BY <1>7 DEF Look, history
  <2>3. CASE Suits(c, ptTmp[c])
    <3>1. doing' = [doing EXCEPT ![c] = "found"] /\ ptTmp' = ptTmp
      BY <1>7, <2>3 DEF Look
    <3>2. /\ \A d \in Clients \ {c} : doing'[d] = doing[d] /\ page'[d] = page[d]
                                      /\ pass'[d] = pass[d] /\ ptTmp'[d] = ptTmp[d]
          /\ doing'[c] = "found"
      BY <1>0, <2>2, <3>1 DEF MemTypes
    <3>3. overlapped' = FALSE => overlapped = FALSE /\ OneCall'
      BY <1>0, <2>1, <2>2, <3>2 DEF OneCall
    <3>4. Suits(c, ptTmp[c])'
      BY <2>2, <2>3, <3>1 DEF Suits, Free, iIDOf
    <3> QED
      BY <1>2, <2>1, <2>2, <3>2, <3>3, <3>4
  <2>4. CASE ~Suits(c, ptTmp[c])
    <3>1. doing' = doing /\ ptTmp' = [ptTmp EXCEPT ![c] = ptTmp[c] + 1]
      BY <1>7, <2>4 DEF Look
    <3>2. /\ \A d \in Clients \ {c} : doing'[d] = doing[d] /\ page'[d] = page[d]
                                      /\ pass'[d] = pass[d] /\ ptTmp'[d] = ptTmp[d]
          /\ doing'[c] = "looks" /\ pass'[c] = pass[c] /\ ptTmp'[c] = ptTmp[c] + 1
      BY <1>0, <2>1, <2>2, <3>1 DEF MemTypes
    <3>3. overlapped' = FALSE => overlapped = FALSE /\ OneCall'
      BY <1>0, <2>2, <3>1 DEF OneCall
    <3>4. ASSUME overlapped' = FALSE, stolen = FALSE, NEW m \in Lent,
                 pass[c] = 3, m < ptTmp[c] + 1
          PROVE  ~Free(m)
      <4>1. m \in Nat /\ ptTmp[c] \in Nat
        BY <2>1 DEF Lent, Positions
      <4>2. CASE m < ptTmp[c]
        BY <1>0, <2>1, <2>2, <3>4, <4>2 DEF LookedOver, Quiet
      <4>3. CASE m = ptTmp[c]
        BY <2>4, <3>4, <4>3 DEF Suits
      <4> QED
        BY <3>4, <4>1, <4>2, <4>3
    <3>5. \A m \in Lent :
             overlapped' = FALSE /\ stolen = FALSE /\
                 (pass'[c] = 4 \/ (pass'[c] = 3 /\ m < ptTmp'[c])) => ~Free(m)
      <4>1. pass'[c] # 4
        BY <2>1, <3>2
      <4> QED
        BY <3>2, <3>4, <4>1
    <3>6. overlapped' = FALSE /\ stolen = FALSE =>
             /\ doing'[c] = "looks" =>
                   \A m \in Lent :
                       pass'[c] = 4 \/ (pass'[c] = 3 /\ m < ptTmp'[c]) => ~Free(m)
             /\ doing'[c] = "found" => Suits(c, ptTmp[c])'
      BY <3>2, <3>5
    <3> QED
      BY <1>2, <2>1, <2>2, <3>2, <3>3, <3>6
  <2> QED
    BY <2>3, <2>4
<1>8. ASSUME NEW c \in Clients, NextPass(c)
      PROVE  SerialInv'
  <2>1. /\ doing[c] = "looks" /\ pass[c] \in 1 .. 3 /\ ptTmp[c] \in Nat
        /\ ptTmp[c] >= 1 /\ ptTmp[c] \notin Positions
        /\ iNum >= 0 /\ iNum \in Nat /\ mem[c] = 0
    BY <1>0, <1>8 DEF NextPass, MemTypes, CallsKnown
  <2>2. /\ UNCHANGED <<iNum, mems, mem, stolen, overlapped, page, doing>>
        /\ pass' = [pass EXCEPT ![c] = pass[c] + 1] /\ ptTmp' = [ptTmp EXCEPT ![c] = 1]
    BY <1>8 DEF NextPass, history
  <2>3. /\ \A d \in Clients \ {c} : doing'[d] = doing[d] /\ page'[d] = page[d]
                                    /\ pass'[d] = pass[d] /\ ptTmp'[d] = ptTmp[d]
        /\ doing'[c] = "looks" /\ pass'[c] = pass[c] + 1 /\ ptTmp'[c] = 1
    BY <1>0, <2>1, <2>2 DEF MemTypes
  <2>4. overlapped' = FALSE => overlapped = FALSE /\ OneCall'
    BY <1>0, <2>2 DEF OneCall
  <2>5. ASSUME overlapped' = FALSE, stolen = FALSE, NEW m \in Lent,
               pass[c] + 1 = 4 \/ (pass[c] + 1 = 3 /\ m < 1)
        PROVE  ~Free(m)
    <3>1. m \in Positions /\ m >= 1 /\ m < ptTmp[c] /\ pass[c] = 3
      BY <2>1, <2>5 DEF Lent, Positions
    <3> QED
      BY <1>0, <2>1, <2>2, <2>5, <3>1 DEF LookedOver, Quiet
  <2> QED
    BY <1>2, <2>1, <2>2, <2>3, <2>4, <2>5
\* A claim, of a memory that is nobody's unless stolen' says otherwise.
<1>9. ASSUME NEW c \in Clients, NEW m \in Positions, iNum >= 0, page[c] \in Pages, mem[c] = 0,
             doing[c] \in {"looks", "found"}, Lend(c, m),
             stolen' = FALSE => stolen = FALSE,
             Quiet' => m \in Lent /\ (\A d \in Clients : mem[d] # m),
             iNum >= 2 /\ overlapped = FALSE => stolen' = FALSE
      PROVE  SerialInv'
  <2>1. /\ mems'[m].eVideoMemState # "VMS_FREE"
        /\ \A o \in Positions \ {m} : mems'[o] = mems[o]
        /\ doing' = [doing EXCEPT ![c] = "nothing"]
        /\ mem' = [mem EXCEPT ![c] = m]
        /\ iNum' = iNum /\ overlapped' = overlapped
    BY <1>9, LendIs
  <2>2. iNum \in Nat /\ Lent' = Lent
    BY <1>0, <1>9, <2>1 DEF MemTypes, Lent, Positions
  <2>3. OneCall'
    BY <1>0, <2>1 DEF OneCall, MemTypes
  <2>4. overlapped' = FALSE => \A d \in Clients : doing'[d] = "nothing"
    BY <1>0, <1>9, <2>1 DEF OneCall, MemTypes
  <2>5. LookedOver'
    BY <2>4 DEF LookedOver, Quiet
  <2>6. ASSUME Quiet'
        PROVE  /\ \A o \in Lent :
                     Free(o)' <=> \A d \in Clients : mem'[d] = o => doing'[d] = "freed"
               /\ mem'["cur"] # 0 => mem'["cur"] # mem'["prepare"]
    <3>1. /\ Quiet /\ m \in Lent /\ (\A d \in Clients : mem[d] # m)
          /\ \A d \in Clients : doing'[d] = "nothing"
      BY <1>9, <2>1, <2>4, <2>6 DEF Quiet
    <3>2. \A d \in Clients : doing[d] # "freed"
      BY <1>0, <1>9, <3>1 DEF OneCall, Quiet
    <3>3. ~Free(m)' /\ mem'[c] = m /\ m # 0
      BY <1>0, <1>9, <2>1, <2>2 DEF Free, MemTypes, Positions
    <3>4. ASSUME NEW o \in Lent, o # m
          PROVE  Free(o)' <=> \A d \in Clients : mem'[d] # o
      <4>1. o \in Positions \ {m} /\ o # 0
        BY <2>2, <3>4 DEF Lent, Positions
      <4>2. Free(o)' <=> Free(o)
        BY <2>1, <4>1 DEF Free
      <4>3. Free(o) <=> \A d \in Clients : mem[d] # o
        BY <1>0, <1>9, <3>1, <3>2 DEF HeldIsBusy
      <4>4. (\A d \in Clients : mem'[d] # o) <=> \A d \in Clients : mem[d] # o
        BY <1>0, <1>9, <2>1, <3>4, <4>1 DEF MemTypes
      <4> QED
        BY <4>2, <4>3, <4>4
    <3>5. mem'["cur"] # 0 => mem'["cur"] # mem'["prepare"]
      BY <1>0, <1>9, <2>1, <3>1, <3>3 DEF HeldIsBusy, Clients, MemTypes
    <3> QED
      BY <3>1, <3>3, <3>4, <3>5
  <2>7. HeldIsBusy'
    BY <1>9, <2>1, <2>2, <2>6 DEF HeldIsBusy
  <2> QED
    BY <2>3, <2>5, <2>7 DEF SerialInv
<1>10. ASSUME NEW c \in Clients, Claim(c)
       PROVE  SerialInv'
  <2>1. /\ doing[c] = "found" /\ Lend(c, ptTmp[c]) /\ stolen' = stolen
        /\ overlapped' = overlapped
    BY <1>10 DEF Claim, Lend
  <2>2. iNum >= 0 /\ page[c] \in Pages /\ mem[c] = 0 /\ ptTmp[c] \in Positions
    BY <1>0, <2>1 DEF CallsKnown
  <2>3. Quiet' => ptTmp[c] \in Lent /\ (\A d \in Clients : mem[d] # ptTmp[c])
    BY <2>1, FoundIsNobodys DEF Quiet
  <2>4. iNum >= 2 /\ overlapped = FALSE => stolen' = FALSE
    BY <1>0, <2>1 DEF HeldIsBusy
  <2> QED
    BY <1>9, <2>1, <2>2, <2>3, <2>4
<1>11. ASSUME NEW c \in Clients, TakeHead(c)
       PROVE  SerialInv'
  <2>1. /\ iNum >= 0 /\ iNum \in Nat /\ page[c] \in Pages /\ mem[c] = 0
        /\ doing[c] = "looks" /\ pass[c] = 4
    BY <1>0, <1>11 DEF TakeHead, CallsKnown, MemTypes
  <2>2. CASE c = "cur"
    <3>1. Lend(c, 1) /\ stolen' = TRUE
      BY <1>11, <2>2 DEF TakeHead
    <3>2. 1 \in Positions
      BY <2>1 DEF Positions
    <3>3. ~(iNum >= 2 /\ overlapped = FALSE)
      BY <2>1, NoneToSteal
    <3> QED
      BY <1>9, <2>1, <3>1, <3>2, <3>3 DEF Quiet
  <2>3. CASE c # "cur"
    <3>1. /\ doing' = [doing EXCEPT ![c] = "nothing"] /\ pass' = [pass EXCEPT ![c] = 0]
          /\ ptTmp' = [ptTmp EXCEPT ![c] = 0] /\ page' = [page EXCEPT ![c] = NoPage]
          /\ mem' = mem
          /\ UNCHANGED <<iNum, mems, stolen, overlapped>>
      BY <1>0, <1>11, <2>1, <2>3 DEF TakeHead, Return, history, MemTypes
    <3>2. /\ \A d \in Clients \ {c} : doing'[d] = doing[d] /\ page'[d] = page[d]
                                      /\ pass'[d] = pass[d] /\ ptTmp'[d] = ptTmp[d]
          /\ doing'[c] = "nothing"
      BY <1>0, <3>1 DEF MemTypes
    <3>3. overlapped' = FALSE => overlapped = FALSE /\ OneCall'
      BY <1>0, <3>1, <3>2 DEF OneCall
    <3> QED
      BY <1>2, <2>1, <3>1, <3>2, <3>3
  <2> QED
    BY <2>2, <2>3
<1>12. ASSUME NEW c \in Clients, Draw(c)
       PROVE  SerialInv'
  <2>1. /\ mem[c] # 0 /\ doing[c] = "nothing"
        /\ UNCHANGED <<iNum, page, mem, doing, pass, ptTmp, stolen, overlapped>>
    BY <1>12 DEF Draw, clientVars, callVars, history
  <2>2. iNum >= 0 /\ iNum \in Nat /\ mem[c] \in Lent /\ mem[c] \in Positions
    BY <2>1, HeldIs
  <2>3. /\ \A o \in Positions \ {mem[c]} : mems'[o] = mems[o]
        /\ \A o \in Positions : mems'[o].eVideoMemState = mems[o].eVideoMemState
    BY <1>12, DrawIs
  <2>4. Lent' = Lent /\ (\A o \in Lent : Free(o)' <=> Free(o)) /\ (Quiet' <=> Quiet)
    BY <2>1, <2>3 DEF Lent, Positions, Free, Quiet
  <2>5. OneCall' /\ HeldIsBusy'
    BY <1>0, <2>1, <2>4 DEF OneCall, HeldIsBusy
  <2>6. ASSUME Quiet, NEW d \in Clients, doing[d] = "found"
        PROVE  Suits(d, ptTmp[d])'
    <3>1. Suits(d, ptTmp[d]) /\ ptTmp[d] \in Positions \ {mem[c]}
      BY <2>6, FoundIsNobodys
    <3> QED
      BY <2>1, <2>3, <3>1 DEF Suits, Free, iIDOf
  <2>7. LookedOver'
    BY <1>0, <2>1, <2>4, <2>6 DEF LookedOver
  <2> QED
    BY <2>5, <2>7 DEF SerialInv
<1>13. ASSUME NEW c \in Clients, FlushPixelDatasToDev(c)
       PROVE  SerialInv'
  BY <1>1, <1>13 DEF FlushPixelDatasToDev
<1>14. ASSUME NEW c \in Clients, PutVideoMem(c)
       PROVE  SerialInv'
  <2> DEFINE m == mem[c]
  <2>1. /\ m # 0 /\ doing' = [doing EXCEPT ![c] = "freed"]
        /\ UNCHANGED <<iNum, page, mem, pass, ptTmp, stolen>>
    BY <1>14 DEF PutVideoMem
  <2>2. overlapped' = FALSE => overlapped = FALSE /\ \A d \in Clients : doing[d] = "nothing"
    BY <1>0, <1>14, Begins DEF PutVideoMem
  <2>3. iNum >= 0 /\ iNum \in Nat /\ m \in Lent /\ m \in Positions
    BY <2>1, HeldIs
  <2>4. /\ mems'[m].eVideoMemState = "VMS_FREE"
        /\ \A o \in Positions \ {m} : mems'[o] = mems[o]
    BY <1>14, PutIs
  <2>5. Lent' = Lent /\ (Quiet' => Quiet /\ \A d \in Clients : doing[d] = "nothing")
    BY <2>1, <2>2 DEF Lent, Positions, Quiet
  <2>6. OneCall' /\ LookedOver'
    BY <1>0, <2>1, <2>2, <2>5 DEF OneCall, LookedOver, MemTypes, Quiet
  <2>7. ASSUME Quiet'
        PROVE  \A o \in Lent : Free(o)' <=> \A d \in Clients : mem[d] = o => doing'[d] = "freed"
    <3>1. Free(m)' /\ \A d \in Clients : mem[d] = m => doing'[d] = "freed"
      <4>1. \A d \in Clients : mem[d] = m => d = c
        BY <1>0, <2>1, <2>3, <2>5, <2>7 DEF HeldIsBusy, Clients
      <4> QED
        BY <1>0, <2>1, <2>4, <4>1 DEF Free, MemTypes
    <3>2. ASSUME NEW o \in Lent, o # m
          PROVE  Free(o)' <=> \A d \in Clients : mem[d] = o => doing'[d] = "freed"
      <4>1. Free(o)' <=> Free(o)
        BY <2>4, <3>2 DEF Free, Lent
      <4>2. \A d \in Clients : mem[d] = o => doing'[d] = doing[d]
        BY <1>0, <2>1, <3>2 DEF MemTypes
      <4> QED
        BY <1>0, <2>3, <2>5, <2>7, <4>1, <4>2 DEF HeldIsBusy
    <3> QED
      BY <2>1, <3>1, <3>2 DEF Free
  <2>8. iNum' >= 2 /\ overlapped' = FALSE => stolen' = FALSE
    BY <1>0, <2>1, <2>2 DEF HeldIsBusy
  <2>9. Quiet' => (mem'["cur"] # 0 => mem'["cur"] # mem'["prepare"])
    BY <1>0, <2>1, <2>3, <2>5 DEF HeldIsBusy
  <2>10. HeldIsBusy'
    BY <2>1, <2>5, <2>7, <2>8, <2>9 DEF HeldIsBusy
  <2> QED
    BY <2>6, <2>10 DEF SerialInv
<1>15. ASSUME NEW c \in Clients, BlankPicture(c)
       PROVE  SerialInv'
  <2> DEFINE m == mem[c]
  <2>1. /\ m # 0 /\ doing[c] = "freed"
        /\ doing' = [doing EXCEPT ![c] = "nothing"]
        /\ mem' = [mem EXCEPT ![c] = 0]
        /\ UNCHANGED <<iNum, stolen, overlapped>>
    BY <1>0, <1>15 DEF BlankPicture, Return, history, CallsKnown
  <2>2. iNum >= 0 /\ iNum \in Nat /\ m \in Lent /\ m \in Positions
    BY <2>1, HeldIs
  <2>3. \A o \in Positions : mems'[o].eVideoMemState = mems[o].eVideoMemState
    BY <1>15, BlankIs
  <2>4. Lent' = Lent /\ (\A o \in Lent : Free(o)' <=> Free(o)) /\ (Quiet' <=> Quiet)
    BY <2>1, <2>3 DEF Lent, Positions, Free, Quiet
  <2>5. OneCall'
    BY <1>0, <2>1 DEF OneCall, MemTypes
  <2>6. overlapped' = FALSE => \A d \in Clients : doing'[d] = "nothing"
    BY <1>0, <2>1 DEF OneCall, MemTypes
  <2>7. LookedOver'
    BY <2>6 DEF LookedOver, Quiet
  <2>8. ASSUME Quiet, NEW o \in Lent
        PROVE  Free(o) <=> \A d \in Clients : mem'[d] = o => doing'[d] = "freed"
    <3>1. o # 0
      BY <2>2 DEF Lent, Positions
    <3>2. \A d \in Clients : d # c => (doing[d] = "nothing" /\ mem[d] # m)
      BY <1>0, <2>1, <2>2, <2>8 DEF OneCall, HeldIsBusy, Clients, Quiet
    <3>3. \A d \in Clients : d # c => (mem'[d] = mem[d] /\ doing'[d] = doing[d])
      BY <1>0, <2>1 DEF MemTypes
    <3>4. mem'[c] = 0
      BY <1>0, <2>1 DEF MemTypes
    <3>5. Free(o) <=> \A d \in Clients : mem[d] = o => doing[d] = "freed"
      BY <1>0, <2>2, <2>8 DEF HeldIsBusy
    <3> QED
      BY <2>1, <3>1, <3>2, <3>3, <3>4, <3>5
  <2>9. HeldIsBusy'
    BY <1>0, <2>1, <2>2, <2>4, <2>8 DEF HeldIsBusy, Clients, MemTypes
  <2> QED
    BY <2>5, <2>7, <2>9 DEF SerialInv
<1>16. CASE UNCHANGED vars
  BY <1>1, <1>16 DEF vars
<1> QED
  BY <1>3, <1>4, <1>5, <1>6, <1>7, <1>8, <1>10, <1>11, <1>12, <1>13, <1>14, <1>15, <1>16
     DEF Next


\* What a memory shows: the framebuffer's own, what is on the screen.
Content(m) == IF m = iNum + 1 THEN screen ELSE pixels[m]

Generated(m) == mems[m].ePicState = "PS_GENERATED"

\* As long as it is quiet: a client's memory carries the ID of the client's
\* page, and that page if it is drawn; one that is nobody's and is drawn shows
\* the page whose ID it carries, and that page has one.
PicturesKnown ==
    iNum >= 0 /\ Quiet =>
        /\ \A c \in Clients : mem[c] # 0 =>
              /\ mems[mem[c]].iID = iIDOf(page[c])
              /\ Generated(mem[c]) => Content(mem[c]) = page[c]
        /\ \A m \in Lent :
              (\A c \in Clients : mem[c] # m) /\ Generated(m) =>
                  mems[m].iID \in PagesWithID /\ Content(m) = mems[m].iID

\* Memories are allocated for a device that was selected, once.
SelectedFirst == iNum >= 0 => selected # NULL

\* The invariant of the video memories.
MemInv == HeldInv /\ SerialInv /\ SelectedFirst /\ PicturesKnown

\* Nothing changes of the pictures and of who holds them.
LEMMA PicturesStay ==
    ASSUME MemInv, iNum' = iNum, pixels' = pixels, mem' = mem,
           iNum < 0 \/ screen' = screen, Quiet' => Quiet,
           iNum >= 0 => \A o \in Positions :
               mems'[o].iID = mems[o].iID /\ mems'[o].ePicState = mems[o].ePicState,
           \A c \in Clients : mem[c] # 0 => page'[c] = page[c]
    PROVE  PicturesKnown'
<1>1. HeldInv /\ PicturesKnown
  BY DEF MemInv
<1> SUFFICES ASSUME iNum >= 0, Quiet
             PROVE  PicturesKnown'
  BY DEF PicturesKnown
<1>2. Lent' = Lent /\ screen' = screen /\ \A o : Content(o)' = Content(o)
  BY <1>1 DEF HeldInv, MemTypes, Lent, Positions, Content
<1>3. \A o \in Positions : mems'[o].iID = mems[o].iID /\ (Generated(o)' <=> Generated(o))
  BY DEF Generated
<1>4. ASSUME NEW c \in Clients, mem[c] # 0
      PROVE  /\ mems'[mem[c]].iID = iIDOf(page'[c])
             /\ mems'[mem[c]].ePicState = "PS_GENERATED" => Content(mem[c]) = page'[c]
  <2>1. mem[c] \in Positions
    BY <1>1, <1>4, HeldIs
  <2> QED
    BY <1>1, <1>4, <2>1 DEF PicturesKnown, Generated
<1>5. ASSUME NEW o \in Lent, \A c \in Clients : mem[c] # o, Generated(o)'
      PROVE  mems'[o].iID \in PagesWithID /\ Content(o) = mems'[o].iID
  <2>1. o \in Positions
    BY DEF Lent
  <2> QED
    BY <1>1, <1>3, <1>5, <2>1 DEF PicturesKnown
<1> QED
  BY <1>2, <1>4, <1>5 DEF PicturesKnown, Generated, Content, iIDOf

\* Each step keeps what is known of the pictures.
LEMMA PicturesStep == MemInv /\ [Next]_vars => PicturesKnown'
<1> SUFFICES ASSUME MemInv, [Next]_vars
             PROVE  PicturesKnown'
  OBVIOUS
<1>0. /\ HeldInv /\ SerialInv /\ MemTypes /\ CallsKnown /\ FrameBufferLast
      /\ OneCall /\ HeldIsBusy /\ SelectedFirst /\ PicturesKnown
  BY DEF MemInv, HeldInv, SerialInv
<1>1. CASE DisplayInit
  BY <1>1, PicturesStay DEF DisplayInit, clientVars, history, Quiet
<1>2. ASSUME NEW name \in {"fb", "lcd"}, SelectAndInitDefaultDispDev(name)
      PROVE  PicturesKnown'
  <2>1. iNum < 0
    BY <1>0, <1>2 DEF SelectAndInitDefaultDispDev, SelectedFirst, MemTypes
  <2> QED
    BY <1>2, <2>1, PicturesStay DEF SelectAndInitDefaultDispDev, clientVars, history, Quiet
<1>3. ASSUME NEW n \in 0 .. MaxNum, AllocVideoMem(n)
      PROVE  PicturesKnown'
  <2> DEFINE state == IF n = 0 THEN "VMS_FREE" ELSE "VMS_USED_FOR_CUR"
  <2>1. n \in Nat /\ iNum = -1 /\ (\A c \in Clients : mem[c] = 0) /\ mem' = mem
    BY <1>0, <1>3, VideoMemAssumption DEF AllocVideoMem, MemTypes, clientVars
  <2>2. CASE iNum' = Failed
    BY <2>2 DEF PicturesKnown, Failed
  <2>3. CASE iNum' # Failed
    <3>1. iNum' = n /\ mems' = [i \in 1 .. n |-> CacheMem] \o <<FrameBufferMem(state)>>
      BY <1>3, <2>3 DEF AllocVideoMem
    <3> HIDE DEF state
    <3>2. mems' = [i \in 1 .. n + 1 |-> IF i = n + 1 THEN FrameBufferMem(state) ELSE CacheMem]
      BY <2>1, <3>1, ListIs
    <3>3. \A m \in Lent' : mems'[m].ePicState = "PS_BLANK"
      BY <3>1, <3>2 DEF Lent, Positions, CacheMem, FrameBufferMem
    <3> QED
      BY <2>1, <3>3 DEF PicturesKnown, Generated
  <2> QED
    BY <2>2, <2>3
<1>4. ASSUME NEW c \in Clients, NEW p \in Pages, GetVideoMem(c, p)
      PROVE  PicturesKnown'
  <2>1. overlapped' = FALSE => overlapped = FALSE
    BY <1>0, <1>4, Begins DEF GetVideoMem
  <2>2. mem[c] = 0 /\ page' = [page EXCEPT ![c] = p] /\ stolen' = stolen
          /\ iNum' = iNum /\ mems' = mems /\ pixels' = pixels /\ screen' = screen /\ mem' = mem
    BY <1>4 DEF GetVideoMem
  <2>3. \A d \in Clients : mem[d] # 0 => page'[d] = page[d]
    BY <1>0, <2>2 DEF MemTypes
  <2> QED
    BY <2>1, <2>2, <2>3, PicturesStay DEF Quiet
<1>5. ASSUME NEW c \in Clients, Look(c)
      PROVE  PicturesKnown'
  BY <1>5, PicturesStay DEF Look, history, Quiet
<1>6. ASSUME NEW c \in Clients, NextPass(c)
      PROVE  PicturesKnown'
  BY <1>6, PicturesStay DEF NextPass, history, Quiet
\* A memory is found by its ID, or blank, or is blanked.
<1>7. ASSUME NEW c \in Clients, Claim(c)
      PROVE  PicturesKnown'
  <2> DEFINE m == ptTmp[c]
  <2>1. doing[c] = "found" /\ Lend(c, m) /\ stolen' = stolen
    BY <1>7 DEF Claim
  <2>2. /\ iNum >= 0 /\ page[c] \in Pages /\ mem[c] = 0 /\ m \in Positions
        /\ pass[c] \in 1 .. 3
    BY <1>0, <2>1 DEF CallsKnown, MemTypes
  <2>3. /\ mems'[m].iID = IF pass[c] = 1 THEN mems[m].iID ELSE iIDOf(page[c])
        /\ mems'[m].ePicState = IF pass[c] <= 2 THEN mems[m].ePicState ELSE "PS_BLANK"
        /\ \A o \in Positions \ {m} : mems'[o] = mems[o]
        /\ mem' = [mem EXCEPT ![c] = m]
        /\ page' = page
        /\ iNum' = iNum /\ screen' = screen /\ pixels' = pixels /\ overlapped' = overlapped
    BY <1>0, <2>1, <2>2, LendIs
  <2> SUFFICES ASSUME Quiet
               PROVE  PicturesKnown'
    BY <2>1, <2>3 DEF PicturesKnown, Quiet
  <2>4. m \in Lent /\ Suits(c, m) /\ (\A d \in Clients : mem[d] # m)
    BY <1>0, <2>1, FoundIsNobodys
  <2> HIDE DEF m
  <2>5. Lent' = Lent /\ (\A o : Content(o)' = Content(o))
          /\ iNum \in Nat /\ m # 0
    BY <1>0, <2>2, <2>3 DEF Lent, Positions, Content, MemTypes
  <2>6. mems'[m].iID = iIDOf(page[c])
    BY <2>3, <2>4 DEF Suits
  <2>7. mems'[m].ePicState = "PS_GENERATED" => Content(m) = page[c]
    <3> SUFFICES ASSUME mems'[m].ePicState = "PS_GENERATED"
                 PROVE  Content(m) = page[c]
      OBVIOUS
    <3>1. pass[c] = 1 /\ Generated(m) /\ mems[m].iID = iIDOf(page[c])
      BY <2>2, <2>3, <2>4 DEF Suits, Generated
    <3>2. mems[m].iID \in PagesWithID /\ Content(m) = mems[m].iID
      BY <1>0, <2>2, <2>4, <3>1 DEF PicturesKnown
    <3> QED
      BY <2>2, <3>1, <3>2, IDIs
  <2>8. ASSUME NEW d \in Clients, mem'[d] # 0
        PROVE  /\ mems'[mem'[d]].iID = iIDOf(page[d])
               /\ mems'[mem'[d]].ePicState = "PS_GENERATED" => Content(mem'[d]) = page[d]
    <3>1. CASE d = c
      BY <1>0, <2>3, <2>6, <2>7, <3>1 DEF MemTypes
    <3>2. CASE d # c
      <4>1. mem'[d] = mem[d]
        BY <1>0, <2>3, <3>2 DEF MemTypes
      <4>2. mem[d] \in Positions \ {m}
        BY <1>0, <2>4, <2>8, <4>1, HeldIs
      <4> QED
        BY <1>0, <2>2, <2>3, <2>8, <4>1, <4>2 DEF PicturesKnown, Generated
    <3> QED
      BY <3>1, <3>2
  <2>9. ASSUME NEW o \in Lent, \A d \in Clients : mem'[d] # o,
               mems'[o].ePicState = "PS_GENERATED"
        PROVE  mems'[o].iID \in PagesWithID /\ Content(o) = mems'[o].iID
    <3>1. o # m /\ \A d \in Clients : mem[d] # o
      <4>1. o # m
        BY <1>0, <2>3, <2>9 DEF MemTypes
      <4>2. o # 0
        BY <2>5 DEF Lent, Positions
      <4> QED
        BY <1>0, <2>2, <2>3, <2>9, <4>1, <4>2 DEF MemTypes
    <3>2. o \in Positions \ {m}
      BY <3>1 DEF Lent
    <3> QED
      BY <1>0, <2>2, <2>3, <2>9, <3>1, <3>2 DEF PicturesKnown, Generated
  <2> QED
    BY <2>3, <2>5, <2>8, <2>9 DEF PicturesKnown, Generated, Content, iIDOf
<1>8. ASSUME NEW c \in Clients, TakeHead(c)
      PROVE  PicturesKnown'
  <2>1. CASE c = "cur"
    BY <1>8, <2>1 DEF TakeHead, PicturesKnown, Quiet
  <2>2. CASE c # "cur"
    <3>1. /\ mem' = [mem EXCEPT ![c] = 0] /\ page' = [page EXCEPT ![c] = NoPage]
          /\ mem[c] = 0
          /\ UNCHANGED <<screen, iNum, mems, pixels, stolen, overlapped>>
      BY <1>0, <1>8, <2>2 DEF TakeHead, Return, history, CallsKnown
    <3>2. mem' = mem /\ \A d \in Clients : mem[d] # 0 => page'[d] = page[d]
      BY <1>0, <3>1 DEF MemTypes
    <3> QED
      BY <3>1, <3>2, PicturesStay DEF Quiet
  <2> QED
    BY <2>1, <2>2
<1>9. ASSUME NEW c \in Clients, Draw(c)
      PROVE  PicturesKnown'
  <2> DEFINE m == mem[c]
  <2>1. /\ m # 0 /\ iNum' = iNum /\ mem' = mem /\ page' = page
        /\ (Quiet' <=> Quiet)
        /\ IF mems[m].bDevFrameBuffer = 1
           THEN screen' = page[c] /\ pixels' = pixels
           ELSE pixels' = [pixels EXCEPT ![m] = page[c]] /\ screen' = screen
    BY <1>9 DEF Draw, clientVars, history, Quiet
  <2>2. /\ iNum >= 0 /\ iNum \in Nat /\ m \in Positions /\ m \in Lent
        /\ mems[m].bDevFrameBuffer = IF m = iNum + 1 THEN 1 ELSE 0
        /\ DOMAIN pixels = Positions
    BY <1>0, <2>1, HeldIs DEF MemTypes
  <2>3. mems'[m].iID = mems[m].iID /\ \A o \in Positions \ {m} : mems'[o] = mems[o]
    BY <1>0, <1>9, DrawIs
  <2> SUFFICES ASSUME Quiet
               PROVE  PicturesKnown'
    BY <2>1 DEF PicturesKnown
  <2>4. \A d \in Clients : d # c => mem[d] # m
    BY <1>0, <2>1, <2>2 DEF HeldIsBusy, Clients
  <2>5. mems[m].iID = iIDOf(page[c])
    BY <1>0, <2>1, <2>2 DEF PicturesKnown
  <2>10. \A d \in Clients : mem[d] # 0 => mem[d] \in Positions
    BY <1>0, HeldIs
  <2>6. Content(m)' = page[c]
    BY <2>1, <2>2 DEF Content, Positions
  <2> HIDE DEF m
  <2>7. \A o \in Positions \ {m} : (IF o = iNum + 1 THEN screen' ELSE pixels'[o]) = Content(o)
    BY <2>1, <2>2 DEF Content, Positions
  <2>8. ASSUME NEW d \in Clients, mem[d] # 0
        PROVE  /\ mems'[mem[d]].iID = iIDOf(page[d])
               /\ mems'[mem[d]].ePicState = "PS_GENERATED" =>
                     (IF mem[d] = iNum + 1 THEN screen' ELSE pixels'[mem[d]]) = page[d]
    <3>1. CASE d = c
      BY <2>1, <2>3, <2>5, <2>6, <3>1 DEF Content, m
    <3>2. CASE d # c
      <4>1. mem[d] \in Positions \ {m}
        BY <2>4, <2>8, <2>10, <3>2
      <4> QED
        BY <1>0, <2>2, <2>3, <2>7, <2>8, <4>1 DEF PicturesKnown, Generated
    <3> QED
      BY <3>1, <3>2
  <2>9. ASSUME NEW o \in Lent, \A d \in Clients : mem[d] # o,
               mems'[o].ePicState = "PS_GENERATED"
        PROVE  /\ mems'[o].iID \in PagesWithID
               /\ (IF o = iNum + 1 THEN screen' ELSE pixels'[o]) = mems'[o].iID
    <3>1. o \in Positions \ {m}
      BY <2>9 DEF Lent, m
    <3> QED
      BY <1>0, <2>2, <2>3, <2>7, <2>9, <3>1 DEF PicturesKnown, Generated
  <2>11. Lent' = Lent
    BY <2>1 DEF Lent, Positions
  <2> QED
    BY <2>1, <2>8, <2>9, <2>11 DEF PicturesKnown, Generated, Content, iIDOf
<1>10. ASSUME NEW c \in Clients, FlushPixelDatasToDev(c)
       PROVE  PicturesKnown'
  <2>1. /\ mem[c] # 0
        /\ UNCHANGED <<iNum, mems, pixels, mem, page, stolen, overlapped>>
        /\ (mems[mem[c]].bDevFrameBuffer = 1 => screen' = screen)
    BY <1>10 DEF FlushPixelDatasToDev, clientVars, history
  <2>2. /\ iNum >= 0 /\ iNum \in Nat /\ mem[c] \in Positions
        /\ mems[mem[c]].bDevFrameBuffer = IF mem[c] = iNum + 1 THEN 1 ELSE 0
    BY <1>0, <2>1, HeldIs
  <2>3. CASE iNum = 0
    <3>1. mem[c] = iNum + 1
      BY <2>2, <2>3 DEF Positions
    <3> QED
      BY <2>1, <2>2, <3>1, PicturesStay DEF Quiet
  <2>4. CASE iNum # 0
    <3>1. \A o \in Lent : o # iNum + 1 /\ Content(o)' = Content(o)
      BY <2>1, <2>2, <2>4 DEF Lent, Positions, Content
    <3>2. Lent' = Lent /\ (Quiet' <=> Quiet)
      BY <2>1 DEF Lent, Positions, Quiet
    <3>3. \A d \in Clients : mem[d] # 0 => mem[d] \in Lent
      BY <1>0, HeldIs
    <3>4. ASSUME NEW d \in Clients, mem[d] # 0
          PROVE  (IF mem[d] = iNum + 1 THEN screen' ELSE pixels'[mem[d]]) = Content(mem[d])
      BY <2>1, <3>1, <3>3, <3>4 DEF Content
    <3> QED
      BY <1>0, <2>1, <3>1, <3>2, <3>4 DEF PicturesKnown, Generated, Content, iIDOf
  <2> QED
    BY <2>3, <2>4
<1>11. ASSUME NEW c \in Clients, PutVideoMem(c)
       PROVE  PicturesKnown'
  <2>1. overlapped' = FALSE => overlapped = FALSE
    BY <1>0, <1>11, Begins DEF PutVideoMem
  <2>2. UNCHANGED <<screen, iNum, pixels, page, mem, stolen>>
    BY <1>11 DEF PutVideoMem
  <2>3. \A o \in Positions :
            mems'[o].iID = mems[o].iID /\ mems'[o].ePicState = mems[o].ePicState
    BY <1>0, <1>11, PutIs
  <2> QED
    BY <2>1, <2>2, <2>3, PicturesStay DEF Quiet
\* A memory that a client gives up still shows the client's page.
<1>12. ASSUME NEW c \in Clients, BlankPicture(c)
       PROVE  PicturesKnown'
  <2> DEFINE m == mem[c]
  <2>1. /\ m # 0 /\ mem' = [mem EXCEPT ![c] = 0] /\ page' = [page EXCEPT ![c] = NoPage]
        /\ UNCHANGED <<screen, iNum, pixels, stolen, overlapped>>
    BY <1>0, <1>12 DEF BlankPicture, Return, history, CallsKnown
  <2>2. iNum >= 0 /\ m \in Positions /\ m \in Lent /\ page[c] \in Pages
    BY <1>0, <2>1, HeldIs
  <2>3. /\ mems'[m].iID = mems[m].iID
        /\ mems'[m].ePicState = IF mems[m].iID = -1 THEN "PS_BLANK" ELSE mems[m].ePicState
        /\ \A o \in Positions \ {m} : mems'[o] = mems[o]
    BY <1>0, <1>12, BlankIs
  <2> SUFFICES ASSUME Quiet
               PROVE  PicturesKnown'
    BY <2>1 DEF PicturesKnown, Quiet
  <2>4. \A d \in Clients : d # c => mem[d] # m
    BY <1>0, <2>1, <2>2 DEF HeldIsBusy, Clients
  <2>5. mems[m].iID = iIDOf(page[c]) /\ (Generated(m) => Content(m) = page[c])
    BY <1>0, <2>1, <2>2 DEF PicturesKnown
  <2>10. \A d \in Clients : mem[d] # 0 => mem[d] \in Positions
    BY <1>0, HeldIs
  <2> HIDE DEF m
  <2>6. Lent' = Lent /\ (\A o : Content(o)' = Content(o))
    BY <2>1 DEF Lent, Positions, Content
  <2>7. \A d \in Clients : /\ d = c => mem'[d] = 0
                           /\ d # c => mem'[d] = mem[d] /\ page'[d] = page[d]
    BY <1>0, <2>1 DEF MemTypes
  <2>8. ASSUME NEW d \in Clients, mem'[d] # 0
        PROVE  /\ mems'[mem'[d]].iID = iIDOf(page'[d])
               /\ mems'[mem'[d]].ePicState = "PS_GENERATED" => Content(mem'[d]) = page'[d]
    <3>1. d # c /\ mem'[d] = mem[d] /\ page'[d] = page[d]
      BY <2>7, <2>8
    <3>2. mem[d] \in Positions \ {m}
      BY <2>4, <2>8, <2>10, <3>1
    <3> QED
      BY <1>0, <2>2, <2>3, <2>8, <3>1, <3>2 DEF PicturesKnown, Generated
  <2>9. ASSUME NEW o \in Lent, \A d \in Clients : mem'[d] # o,
               mems'[o].ePicState = "PS_GENERATED"
        PROVE  mems'[o].iID \in PagesWithID /\ Content(o) = mems'[o].iID
    <3>1. CASE o = m
      <4>1. mems[m].iID # -1 /\ Content(m) = page[c]
        BY <2>3, <2>5, <2>9, <3>1 DEF Generated
      <4> QED
        BY <2>2, <2>3, <2>5, <3>1, <4>1, IDIs
    <3>2. CASE o # m
      <4>1. mems'[o] = mems[o]
        BY <2>3, <3>2 DEF Lent
      <4>2. \A d \in Clients : mem[d] # o
        BY <2>7, <2>9, <3>2 DEF m
      <4> QED
        BY <1>0, <2>2, <2>9, <4>1, <4>2 DEF PicturesKnown, Generated
    <3> QED
      BY <3>1, <3>2
  <2> QED
    BY <2>1, <2>6, <2>8, <2>9 DEF PicturesKnown, Generated, Content, iIDOf
<1>13. CASE UNCHANGED vars
  BY <1>13, PicturesStay DEF vars, clientVars, history, Quiet
<1> QED
  BY <1>1, <1>2, <1>3, <1>4, <1>5, <1>6, <1>7, <1>8, <1>9, <1>10, <1>11, <1>12, <1>13
     DEF Next

-----------------------------------------------------------------------------
(* The converters. *)

\* A colour channel.
Byte == 0 .. 255

\* x and y differ by e at most.
Near(x, y, e) == x <= y + e /\ y <= x + e

\* What a table rounds down: less than one.
LEMMA Thousandth ==
    ASSUME NEW a \in Nat
    PROVE  /\ Converting!Quotient(a, 1000) \in Nat
           /\ 1000 * Converting!Quotient(a, 1000) <= a /\ a < 1000 * Converting!Quotient(a, 1000) + 1000
  BY DEF Converting!Quotient

\* What one with negative entries rounds towards zero.
LEMMA SignedThousandth ==
    ASSUME NEW a \in Int
    PROVE  /\ Converting!Quotient(a, 1000) \in Int
           /\ Near(1000 * Converting!Quotient(a, 1000), a, 999)
  BY DEF Converting!Quotient, Near

\* RGB24_TO_Y stays within a byte, a little below the exact luma.
LEMMA Luma ==
    ASSUME NEW r \in Byte, NEW g \in Byte, NEW b \in Byte
    PROVE  LET y == Converting!RGB24_TO_Y(r, g, b)
           IN  /\ y \in Byte
               /\ 1000 * y <= 299 * r + 587 * g + 114 * b
               /\ 299 * r + 587 * g + 114 * b <= 1000 * y + 2997
               /\ Converting!LutYr(r) <= y /\ Converting!LutYb(b) <= y
               /\ y <= Converting!LutYr(r) + 178 /\ y <= Converting!LutYb(b) + 225
               /\ Near(b, y, 226)
<1> DEFINE fr == Converting!Quotient(r * 299, 1000)
           fg == Converting!Quotient(g * 587, 1000)
           fb == Converting!Quotient(b * 114, 1000)
<1>1. /\ fr \in Nat /\ 1000 * fr <= r * 299 /\ r * 299 < 1000 * fr + 1000
      /\ fg \in Nat /\ 1000 * fg <= g * 587 /\ g * 587 < 1000 * fg + 1000
      /\ fb \in Nat /\ 1000 * fb <= b * 114 /\ b * 114 < 1000 * fb + 1000
  <2>1. r * 299 \in Nat /\ g * 587 \in Nat /\ b * 114 \in Nat
    BY DEF Byte
  <2> QED
    BY <2>1, Thousandth
<1> HIDE DEF fr, fg, fb
<1>2. fr + fg + fb \in Byte
  BY <1>1 DEF Byte
<1>3. Converting!RGB24_TO_Y(r, g, b) = fr + fg + fb
  BY <1>1, <1>2 DEF Converting!RGB24_TO_Y, Converting!LutYr, Converting!LutYg, Converting!LutYb, fr, fg, fb, Byte
<1>4. Converting!LutYr(r) = fr /\ Converting!LutYb(b) = fb
  BY DEF Converting!LutYr, Converting!LutYb, fr, fb
<1> QED
  BY <1>1, <1>2, <1>3, <1>4 DEF Byte, Near

\* A Y made from three bytes is a byte.
LEMMA LumaIsByte ==
    ASSUME NEW r \in Byte, NEW g \in Byte, NEW b \in Byte
    PROVE  Converting!RGB24_TO_Y(r, g, b) \in Byte
  BY Luma

\* YR_TO_V stays within a byte, for a Y that was made from this red.
LEMMA RedDifference ==
    ASSUME NEW r \in Byte, NEW y \in Byte, Converting!LutYr(r) <= y, y <= Converting!LutYr(r) + 178
    PROVE  /\ Converting!YR_TO_V(r, y) \in Byte
           /\ Near(711 * (r - y), 1000 * (Converting!YR_TO_V(r, y) - 128), 999)
<1> DEFINE fr == Converting!Quotient(r * 299, 1000)
           qr == Converting!Quotient(r * 711, 1000)
           qy == Converting!Quotient(y * 711, 1000)
<1>1. /\ fr \in Nat /\ 1000 * fr <= r * 299 /\ r * 299 < 1000 * fr + 1000
      /\ qr \in Nat /\ 1000 * qr <= r * 711 /\ r * 711 < 1000 * qr + 1000
      /\ qy \in Nat /\ 1000 * qy <= y * 711 /\ y * 711 < 1000 * qy + 1000
  <2>1. r * 299 \in Nat /\ r * 711 \in Nat /\ y * 711 \in Nat
    BY DEF Byte
  <2> QED
    BY <2>1, Thousandth
<1>2. fr <= y /\ y <= fr + 178
  BY DEF Converting!LutYr
<1> HIDE DEF fr, qr, qy
<1>3. qr + 128 - qy \in Byte
  BY <1>1, <1>2, SMTT(60) DEF Byte
<1>4. Converting!YR_TO_V(r, y) = qr + 128 - qy
  BY <1>1, <1>3 DEF Converting!YR_TO_V, Converting!LutVr, Converting!LutVrY, qr, qy, Byte
<1> QED
  BY <1>1, <1>3, <1>4 DEF Byte, Near

\* YB_TO_U likewise.
LEMMA BlueDifference ==
    ASSUME NEW b \in Byte, NEW y \in Byte, Converting!LutYb(b) <= y, y <= Converting!LutYb(b) + 225
    PROVE  /\ Converting!YB_TO_U(b, y) \in Byte
           /\ Near(560 * (b - y), 1000 * (Converting!YB_TO_U(b, y) - 128), 999)
<1> DEFINE fb == Converting!Quotient(b * 114, 1000)
           qb == Converting!Quotient(b * 560, 1000)
           qy == Converting!Quotient(y * 560, 1000)
<1>1. /\ fb \in Nat /\ 1000 * fb <= b * 114 /\ b * 114 < 1000 * fb + 1000
      /\ qb \in Nat /\ 1000 * qb <= b * 560 /\ b * 560 < 1000 * qb + 1000
      /\ qy \in Nat /\ 1000 * qy <= y * 560 /\ y * 560 < 1000 * qy + 1000
  <2>1. b * 114 \in Nat /\ b * 560 \in Nat /\ y * 560 \in Nat
    BY DEF Byte
  <2> QED
    BY <2>1, Thousandth
<1>2. fb <= y /\ y <= fb + 225
  BY DEF Converting!LutYb
<1> HIDE DEF fb, qb, qy
<1>3. qb + 128 - qy \in Byte
  BY <1>1, <1>2, SMTT(60) DEF Byte
<1>4. Converting!YB_TO_U(b, y) = qb + 128 - qy
  BY <1>1, <1>3 DEF Converting!YB_TO_U, Converting!LutUb, Converting!LutUbY, qb, qy, Byte
<1> QED
  BY <1>1, <1>3, <1>4 DEF Byte, Near

\* An entry of LutRv.
LEMMA LutRvIs ==
    ASSUME NEW i \in Byte
    PROVE  /\ Converting!LutRv(i) \in Int
           /\ Near(1000 * Converting!LutRv(i), 1402 * (i - 128), 999)
<1>1. PICK a \in Int : a = (i - 128) * 1402
  BY DEF Byte
<1>2. Converting!LutRv(i) = Converting!Quotient(a, 1000)
  BY <1>1 DEF Converting!LutRv
<1>3. /\ Converting!Quotient(a, 1000) \in Int
      /\ Near(1000 * Converting!Quotient(a, 1000), a, 999)
  BY SignedThousandth
<1> QED
  BY <1>1, <1>2, <1>3 DEF Byte, Near

\* LutRv turns V back into the difference from Y: off by 3.
LEMMA RedBack ==
    ASSUME NEW r \in Byte, NEW y \in Byte, NEW v \in Byte,
           Near(711 * (r - y), 1000 * (v - 128), 999)
    PROVE  /\ Converting!LutRv(v) \in Int
           /\ Near(y + Converting!LutRv(v), r, 4)
<1>1. /\ Converting!LutRv(v) \in Int
      /\ Near(1000 * Converting!LutRv(v), 1402 * (v - 128), 999)
  BY LutRvIs
<1> QED
  BY <1>1 DEF Byte, Near

\* An entry of LutBu.
LEMMA LutBuIs ==
    ASSUME NEW i \in Byte
    PROVE  /\ Converting!LutBu(i) \in Int
           /\ Near(1000 * Converting!LutBu(i), 1772 * (i - 128), 999)
<1>1. PICK a \in Int : a = (i - 128) * 1772
  BY DEF Byte
<1>2. Converting!LutBu(i) = Converting!Quotient(a, 1000)
  BY <1>1 DEF Converting!LutBu
<1>3. /\ Converting!Quotient(a, 1000) \in Int
      /\ Near(1000 * Converting!Quotient(a, 1000), a, 999)
  BY SignedThousandth
<1> QED
  BY <1>1, <1>2, <1>3 DEF Byte, Near

\* LutBu turns U back: off by 4.
LEMMA BlueBack ==
    ASSUME NEW b \in Byte, NEW y \in Byte, NEW u \in Byte, Near(b, y, 226),
           Near(560 * (b - y), 1000 * (u - 128), 999)
    PROVE  /\ Converting!LutBu(u) \in Int
           /\ Near(y + Converting!LutBu(u), b, 4)
<1>1. /\ Converting!LutBu(u) \in Int
      /\ Near(1000 * Converting!LutBu(u), 1772 * (u - 128), 999)
  BY LutBuIs
<1> QED
  BY <1>1 DEF Byte, Near

\* The tables of green hold numbers.
LEMMA GreenIsInt ==
    ASSUME NEW i \in Int
    PROVE  Converting!LutGu(i) \in Int /\ Converting!LutGv(i) \in Int
<1>1. PICK a \in Int, c \in Int : a = (128 - i) * 714 /\ c = (128 - i) * 344
  OBVIOUS
<1>2. Converting!Quotient(a, 1000) \in Int /\ Converting!Quotient(c, 1000) \in Int
  BY SignedThousandth
<1> QED
  BY <1>1, <1>2 DEF Converting!LutGu, Converting!LutGv

\* Clipping a sum brings it no further from a byte.
LEMMA ClipIsNearer ==
    ASSUME NEW x \in Int, NEW e \in Nat, NEW r \in Byte, Near(x, r, e)
    PROVE  Converting!CLIP(x) \in Byte /\ Near(Converting!CLIP(x), r, e)
  BY DEF Converting!CLIP, Byte, Near

\* The three channels of a packed pixel.
LEMMA Rgb32Channels ==
    ASSUME NEW r \in Byte, NEW g \in Byte, NEW b \in Byte
    PROVE  LET w == Converting!Rgb32(r, g, b)
           IN  /\ w \div 2 ^ 16 = r
               /\ (w \div 2 ^ 8) % 256 = g
               /\ w % 256 = b
  BY DEF Converting!Rgb32, Byte

\* The fields of a 16-bit word.
LEMMA Fields565 ==
    ASSUME NEW r \in 0 .. 31, NEW g \in 0 .. 63, NEW b \in 0 .. 31
    PROVE  LET w == r * 2 ^ 11 + g * 2 ^ 5 + b
           IN  /\ w \div 2 ^ 11 = r
               /\ (w \div 2 ^ 5) % 64 = g
               /\ w % 32 = b
  OBVIOUS

\* The three fields of a packed word are the channels' upper bits.
LEMMA Rgb565Channels ==
    ASSUME NEW r \in Byte, NEW g \in Byte, NEW b \in Byte
    PROVE  LET w == Converting!Rgb565(r, g, b)
           IN  /\ w \div 2 ^ 11 = r \div 8
               /\ (w \div 2 ^ 5) % 64 = g \div 4
               /\ w % 32 = b \div 8
<1>1. r \div 8 \in 0 .. 31 /\ g \div 4 \in 0 .. 63 /\ b \div 8 \in 0 .. 31
  BY DEF Byte
<1>2. PICK x \in 0 .. 31, y \in 0 .. 63, z \in 0 .. 31 :
            x = r \div 8 /\ y = g \div 4 /\ z = b \div 8
  BY <1>1
<1>3. Converting!Rgb565(r, g, b) = x * 2 ^ 11 + y * 2 ^ 5 + z
  BY <1>2 DEF Converting!Rgb565
<1>4. LET w == x * 2 ^ 11 + y * 2 ^ 5 + z
      IN  w \div 2 ^ 11 = x /\ (w \div 2 ^ 5) % 64 = y /\ w % 32 = z
  BY Fields565
<1> QED
  BY <1>2, <1>3, <1>4

\* The two pixels of a frame, as the client is modelled: the second one is the
\* first, or brighter.
Pixel == [1 .. 3 -> Byte]

Frame(both) ==
    /\ both \in [1 .. 2 -> Pixel]
    /\ \E more \in {0, 20} : \A i \in 1 .. 3 : both[2][i] = both[1][i] + more

\* What Channels reads from what Stored packs: no channel is more, and none
\* is less by more than the output format has no bits for.
LEMMA StoredIs ==
    ASSUME NEW r \in Byte, NEW g \in Byte, NEW b \in Byte,
           iPixelFormatOut \in {"RGB565", "RGB32"}
    PROVE  LET read == Converting!Channels(Converting!Stored(r, g, b))
           IN  /\ read[1] \in Int /\ read[2] \in Int /\ read[3] \in Int
               /\ iPixelFormatOut = "RGB32" => read[1] = r /\ read[2] = g /\ read[3] = b
               /\ iPixelFormatOut = "RGB565" =>
                     /\ read[1] <= r /\ r <= read[1] + 7
                     /\ read[2] <= g /\ g <= read[2] + 3
                     /\ read[3] <= b /\ b <= read[3] + 7
<1>1. CASE iPixelFormatOut = "RGB32"
  <2>1. Converting!Stored(r, g, b) = Converting!Rgb32(r, g, b)
    BY <1>1 DEF Converting!Stored
  <2>2. Converting!Channels(Converting!Rgb32(r, g, b)) = <<r, g, b>>
    BY <1>1, Rgb32Channels DEF Converting!Channels
  <2> QED
    BY <1>1, <2>1, <2>2 DEF Byte
<1>2. CASE iPixelFormatOut = "RGB565"
  <2>1. Converting!Stored(r, g, b) = Converting!Rgb565(r, g, b)
    BY <1>2 DEF Converting!Stored
  <2>2. Converting!Channels(Converting!Rgb565(r, g, b))
          = <<(r \div 8) * 8, (g \div 4) * 4, (b \div 8) * 8>>
    BY <1>2, Rgb565Channels DEF Converting!Channels
  <2> QED
    BY <1>2, <2>1, <2>2 DEF Byte
<1> QED
  BY <1>1, <1>2

\* A pixel that is brighter by as much in every channel is so in its luma.
LEMMA BrighterLuma ==
    ASSUME NEW r \in Byte, NEW g \in Byte, NEW b \in Byte, NEW more \in Nat,
           r + more \in Byte, g + more \in Byte, b + more \in Byte
    PROVE  Near(Converting!RGB24_TO_Y(r + more, g + more, b + more),
                Converting!RGB24_TO_Y(r, g, b) + more, 2)
<1>1. PICK r2 \in Byte, g2 \in Byte, b2 \in Byte :
            r2 = r + more /\ g2 = g + more /\ b2 = b + more
  OBVIOUS
<1> DEFINE y == Converting!RGB24_TO_Y(r, g, b)
           y2 == Converting!RGB24_TO_Y(r2, g2, b2)
<1>2. /\ y \in Byte
      /\ 1000 * y <= 299 * r + 587 * g + 114 * b
      /\ 299 * r + 587 * g + 114 * b <= 1000 * y + 2997
  BY Luma
<1>3. /\ y2 \in Byte
      /\ 1000 * y2 <= 299 * r2 + 587 * g2 + 114 * b2
      /\ 299 * r2 + 587 * g2 + 114 * b2 <= 1000 * y2 + 2997
  BY <1>1, Luma
<1> HIDE DEF y, y2
<1>4. Near(y2, y + more, 2)
  BY <1>1, <1>2, <1>3 DEF Near, Byte
<1> QED
  BY <1>1, <1>4 DEF y, y2

\* The sums of Pyuv422torgb32, before they are packed: U and V are those of
\* a pixel, y is its own luma or that of a brighter one.
LEMMA YuvSums ==
    ASSUME NEW r \in Byte, NEW g \in Byte, NEW b \in Byte, NEW y \in Byte,
           NEW more \in Nat, r + more \in Byte, b + more \in Byte,
           Near(y, Converting!RGB24_TO_Y(r, g, b) + more, 2)
    PROVE  LET Y == Converting!RGB24_TO_Y(r, g, b)
               U == Converting!YB_TO_U(b, Y)
               V == Converting!YR_TO_V(r, Y)
           IN  /\ Converting!R_FROMYV(y, V) \in Byte
               /\ Converting!G_FROMYUV(y, U, V) \in Byte
               /\ Converting!B_FROMYU(y, U) \in Byte
               /\ Near(Converting!R_FROMYV(y, V), r + more, 6)
               /\ Near(Converting!B_FROMYU(y, U), b + more, 6)
<1> DEFINE Y == Converting!RGB24_TO_Y(r, g, b)
           U == Converting!YB_TO_U(b, Y)
           V == Converting!YR_TO_V(r, Y)
<1>1. /\ Y \in Byte
      /\ Converting!LutYr(r) <= Y /\ Y <= Converting!LutYr(r) + 178
      /\ Converting!LutYb(b) <= Y /\ Y <= Converting!LutYb(b) + 225
      /\ Near(b, Y, 226)
  BY Luma
<1>2. Near(y, Y + more, 2)
  OBVIOUS
<1> HIDE DEF Y
<1>3. /\ V \in Byte /\ Near(711 * (r - Y), 1000 * (V - 128), 999)
      /\ U \in Byte /\ Near(560 * (b - Y), 1000 * (U - 128), 999)
  BY <1>1, RedDifference, BlueDifference
<1> HIDE DEF U, V
<1>4. Converting!LutRv(V) \in Int /\ Near(Y + Converting!LutRv(V), r, 4)
  BY <1>1, <1>3, RedBack
<1>5. Converting!LutBu(U) \in Int /\ Near(Y + Converting!LutBu(U), b, 4)
  BY <1>1, <1>3, BlueBack
<1>6. PICK red \in Int, blue \in Int :
            red = y + Converting!LutRv(V) /\ blue = y + Converting!LutBu(U)
  BY <1>4, <1>5 DEF Byte
<1>7. Near(red, r + more, 6) /\ Near(blue, b + more, 6)
  BY <1>1, <1>2, <1>4, <1>5, <1>6 DEF Near, Byte
<1>8. /\ Converting!CLIP(red) \in Byte /\ Near(Converting!CLIP(red), r + more, 6)
      /\ Converting!CLIP(blue) \in Byte /\ Near(Converting!CLIP(blue), b + more, 6)
  BY <1>6, <1>7, ClipIsNearer
<1>9. /\ Converting!R_FROMYV(y, V) = Converting!CLIP(red)
      /\ Converting!B_FROMYU(y, U) = Converting!CLIP(blue)
  BY <1>6 DEF Converting!R_FROMYV, Converting!B_FROMYU
<1>10. Converting!G_FROMYUV(y, U, V) \in Byte
  <2>1. Converting!LutGu(U) \in Int /\ Converting!LutGv(V) \in Int
    BY <1>3, GreenIsInt DEF Byte
  <2>2. PICK green \in Int : green = y + Converting!LutGu(U) + Converting!LutGv(V)
    BY <2>1 DEF Byte
  <2>3. Converting!CLIP(green) \in Byte
    BY <2>2 DEF Converting!CLIP, Byte
  <2> QED
    BY <2>2, <2>3 DEF Converting!G_FROMYUV
<1> QED
  BY <1>8, <1>9, <1>10 DEF Y, U, V

\* PictureKept for pixel k of the picture.
PixelKept(pixel, k) ==
    \A channel \in 1 .. 3 :
        ~(iPixelFormatIn = "YUYV" /\ channel = 2) =>
            Converting!Channels(pixel)[channel] - colours[k][channel]
                \in -Converting!Lost(channel) .. Converting!Lost(channel)

\* It follows from a bound for each channel.
LEMMA KeptByChannel ==
    ASSUME Frame(colours), NEW k \in 1 .. 2, NEW pixel, NEW packed \in Nat, NEW green \in Nat,
           NEW e \in Nat,
           Converting!Lost(1) = packed + e, Converting!Lost(3) = packed + e,
           Converting!Lost(2) = green + e,
           \A channel \in 1 .. 3 : Converting!Channels(pixel)[channel] \in Int,
           Near(Converting!Channels(pixel)[1], colours[k][1], packed + e),
           Near(Converting!Channels(pixel)[3], colours[k][3], packed + e),
           iPixelFormatIn # "YUYV" =>
               Near(Converting!Channels(pixel)[2], colours[k][2], green + e)
    PROVE  PixelKept(pixel, k)
<1>1. \A c \in 1 .. 3 : colours[k][c] \in Int
  BY DEF Frame, Pixel, Byte
<1>2. ASSUME NEW x \in Int, NEW y \in Int, NEW n \in Nat, Near(x, y, n)
      PROVE  x - y \in -n .. n
  BY <1>2 DEF Near
<1>3. packed + e \in Nat /\ green + e \in Nat
  OBVIOUS
<1>4. 1 \in 1 .. 3 /\ 2 \in 1 .. 3 /\ 3 \in 1 .. 3
  OBVIOUS
<1>5. Converting!Channels(pixel)[1] - colours[k][1] \in -(packed + e) .. packed + e
  BY <1>1, <1>2, <1>3, <1>4
<1>6. Converting!Channels(pixel)[3] - colours[k][3] \in -(packed + e) .. packed + e
  BY <1>1, <1>2, <1>3, <1>4
<1>7. iPixelFormatIn # "YUYV" =>
        Converting!Channels(pixel)[2] - colours[k][2] \in -(green + e) .. green + e
  BY <1>1, <1>2, <1>3, <1>4
<1>8. \A channel \in 1 .. 3 : channel = 1 \/ channel = 2 \/ channel = 3
  OBVIOUS
<1> QED
  BY <1>5, <1>6, <1>7, <1>8 DEF PixelKept

\* What Lost is.
LEMMA LostIs ==
    LET e == IF iPixelFormatIn = "YUYV" THEN 6 ELSE 0
        packs == "RGB565" \in {iPixelFormatIn, iPixelFormatOut}
    IN  /\ Converting!Lost(1) = (IF packs THEN 7 ELSE 0) + e
        /\ Converting!Lost(2) = (IF packs THEN 3 ELSE 0) + e
        /\ Converting!Lost(3) = (IF packs THEN 7 ELSE 0) + e
  BY DEF Converting!Lost

\* A pixel whose channels are near the frame's is kept when it is stored.
LEMMA StoredKept ==
    ASSUME Frame(colours), NEW k \in 1 .. 2, iPixelFormatOut \in {"RGB565", "RGB32"},
           iPixelFormatIn # "RGB565",
           NEW r \in Byte, NEW g \in Byte, NEW b \in Byte,
           NEW e \in Nat, e = IF iPixelFormatIn = "YUYV" THEN 6 ELSE 0,
           Near(r, colours[k][1], e), Near(b, colours[k][3], e),
           iPixelFormatIn # "YUYV" => Near(g, colours[k][2], e)
    PROVE  PixelKept(Converting!Stored(r, g, b), k)
<1> DEFINE pixel == Converting!Stored(r, g, b)
           read == Converting!Channels(pixel)
<1>1. \A c \in 1 .. 3 : colours[k][c] \in Int
  BY DEF Frame, Pixel, Byte
<1>2. /\ read[1] \in Int /\ read[2] \in Int /\ read[3] \in Int
      /\ iPixelFormatOut = "RGB32" => read[1] = r /\ read[2] = g /\ read[3] = b
      /\ iPixelFormatOut = "RGB565" =>
            /\ read[1] <= r /\ r <= read[1] + 7
            /\ read[2] <= g /\ g <= read[2] + 3
            /\ read[3] <= b /\ b <= read[3] + 7
  BY StoredIs
<1>3. \A channel \in 1 .. 3 : channel = 1 \/ channel = 2 \/ channel = 3
  OBVIOUS
<1> HIDE DEF pixel
<1>4. \A channel \in 1 .. 3 : read[channel] \in Int
  BY <1>2, <1>3
<1>5. CASE iPixelFormatOut = "RGB32"
  <2>1. /\ Converting!Lost(1) = 0 + e /\ Converting!Lost(3) = 0 + e
        /\ Converting!Lost(2) = 0 + e
    BY <1>5, LostIs
  <2>2. /\ Near(read[1], colours[k][1], 0 + e) /\ Near(read[3], colours[k][3], 0 + e)
        /\ iPixelFormatIn # "YUYV" => Near(read[2], colours[k][2], 0 + e)
    BY <1>2, <1>5 DEF Near
  <2> QED
    BY <1>4, <2>1, <2>2, KeptByChannel DEF pixel
<1>6. CASE iPixelFormatOut = "RGB565"
  <2>1. /\ Converting!Lost(1) = 7 + e /\ Converting!Lost(3) = 7 + e
        /\ Converting!Lost(2) = 3 + e
    BY <1>6, LostIs
  <2>2. /\ Near(read[1], colours[k][1], 7 + e) /\ Near(read[3], colours[k][3], 7 + e)
        /\ iPixelFormatIn # "YUYV" => Near(read[2], colours[k][2], 3 + e)
    BY <1>1, <1>2, <1>6 DEF Near, Byte
  <2> QED
    BY <1>4, <2>1, <2>2, KeptByChannel DEF pixel
<1> QED
  BY <1>5, <1>6

\* A list of the converters.
Chain(l) ==
    \E head, next : /\ l = [head |-> head, next |-> next]
                   /\ DOMAIN next = Converting!Converters

\* Registering one leaves a list of the converters.
LEMMA RegisterKeepsChain ==
    ASSUME NEW l, Chain(l), NEW n
    PROVE  Chain(Converting!Register(l, n))
<1>1. PICK head, next : l = [head |-> head, next |-> next] /\ DOMAIN next = Converting!Converters
  BY DEF Chain
<1>2. CASE l.head = Converting!NULL
  <2>1. Converting!Register(l, n) = [head |-> n, next |-> [next EXCEPT ![n] = Converting!NULL]]
    BY <1>1, <1>2 DEF Converting!Register
  <2>2. DOMAIN [next EXCEPT ![n] = Converting!NULL] = Converting!Converters
    BY <1>1
  <2> QED
    BY <2>1, <2>2 DEF Chain
<1>3. CASE l.head # Converting!NULL
  <2> DEFINE links == [[next EXCEPT ![Converting!LastNode(l)] = n] EXCEPT ![n] = Converting!NULL]
  <2>1. Converting!Register(l, n) = [head |-> head, next |-> links]
    BY <1>1, <1>3 DEF Converting!Register
  <2>2. DOMAIN links = Converting!Converters
    BY <1>1
  <2> HIDE DEF links
  <2> QED
    BY <2>1, <2>2 DEF Chain
<1> QED
  BY <1>2, <1>3

\* The loop that looks for a converter goes over as many nodes as there are.
LEMMA ThreeConverters == Cardinality(Converting!Converters) = 3
<1>1. Cardinality({}) = 0 /\ IsFiniteSet({})
  BY FS_EmptySet
<1>2. Cardinality({"yuv2rgb"}) = 1 /\ IsFiniteSet({"yuv2rgb"})
  BY FS_Singleton
<1>3. {"yuv2rgb"} \union {"mjpeg2rgb"} = {"yuv2rgb", "mjpeg2rgb"}
  OBVIOUS
<1>4. Cardinality({"yuv2rgb", "mjpeg2rgb"}) = 2 /\ IsFiniteSet({"yuv2rgb", "mjpeg2rgb"})
  BY <1>2, <1>3, FS_AddElement
<1>5. {"yuv2rgb", "mjpeg2rgb"} \union {"rgb2rgb"} = Converting!Converters
  BY DEF Converting!Converters
<1> QED
  BY <1>4, <1>5, FS_AddElement

\* What it stops at is one that was looked for.
LEMMA FirstIsWanted ==
    ASSUME NEW l, Chain(l), NEW wanted, Converting!FirstNode(l, wanted) # Converting!NULL
    PROVE  Converting!FirstNode(l, wanted) \in wanted
<1> DEFINE Eq(w) == w = [k \in 0 .. 3 |->
                IF k = 0 THEN l.head
                ELSE IF w[k - 1] = Converting!NULL THEN Converting!NULL
                ELSE l.next[w[k - 1]]]
           Follow(x) == IF x = Converting!NULL THEN Converting!NULL ELSE l.next[x]
           seen == [k \in 0 .. 3 |->
                IF k = 0 THEN l.head
                ELSE IF k = 1 THEN Follow(l.head)
                ELSE IF k = 2 THEN Follow(Follow(l.head))
                ELSE Follow(Follow(Follow(l.head)))]
           found == {k \in DOMAIN Converting!Walk(l) : Converting!Walk(l)[k] \in wanted}
<1>1. Converting!Cardinality(DOMAIN l.next) = 3
  <2>1. DOMAIN l.next = Converting!Converters
    BY DEF Chain
  <2>2. Converting!Cardinality(Converting!Converters) = Cardinality(Converting!Converters)
    BY DEF Converting!Cardinality, Cardinality
  <2> QED
    BY <2>1, <2>2, ThreeConverters
<1>2. Eq(seen)
  OBVIOUS
<1>3. Converting!Walk(l) = CHOOSE w : Eq(w)
  BY <1>1 DEF Converting!Walk, Converting!NULL
<1>4. Eq(Converting!Walk(l))
  BY <1>2, <1>3, Zenon
<1>5. DOMAIN Converting!Walk(l) = 0 .. 3
  BY <1>4
<1> HIDE DEF seen, Eq
<1>6. found \in SUBSET Nat
  BY <1>5
<1>7. found # {}
  BY DEF Converting!FirstNode
<1>8. Min(found) \in found
  BY <1>6, <1>7, LeastOf
<1>9. Converting!FirstNode(l, wanted) = Converting!Walk(l)[Min(found)]
  <2>1. Min(found) = CHOOSE k \in found : \A j \in found : k <= j
    BY DEF Min
  <2> QED
    BY <1>7, <2>1, Zenon DEF Converting!FirstNode
<1> QED
  BY <1>8, <1>9

-----------------------------------------------------------------------------

\* What was chosen can convert between the formats.
ChosenFits ==
    chosen # Converting!NULL =>
        \/ chosen = "yuv2rgb" /\ Converting!isSupportYuv2Rgb
        \/ chosen = "mjpeg2rgb" /\ Converting!isSupportMjpeg2Rgb
        \/ chosen = "rgb2rgb" /\ Converting!isSupportRgb2Rgb

\* The pixels there are were kept, whatever the last Convert returned.
PixelsKept == \A k \in DOMAIN out : PixelKept(out[k], k)

\* Only in the part that converts is there a frame and a picture.
ConvertInv ==
    /\ IF part = "converting" THEN Frame(colours) /\ Chain(list) ELSE out = <<>>
    /\ ChosenFits
    /\ PixelsKept

\* A conversion keeps the pixels if those that it writes are kept.
LEMMA KeptByPixel ==
    ASSUME PixelsKept, NEW made, Converting!Write(made),
           \A k \in DOMAIN made : PixelKept(made[k], k),
           UNCHANGED <<colours, iPixelFormatIn, iPixelFormatOut>>
    PROVE  PixelsKept'
<1>1. out' = out \/ out' = made
  BY DEF Converting!Write
<1> QED
  BY <1>1 DEF PixelsKept, PixelKept, Converting!Channels, Converting!Lost

\* And if none are written.
LEMMA NoPixels ==
    ASSUME PixelsKept, out' \in {<<>>, out},
           UNCHANGED <<colours, iPixelFormatIn, iPixelFormatOut>>
    PROVE  PixelsKept'
<1>1. CASE out' = <<>>
  BY <1>1 DEF PixelsKept
<1>2. CASE out' = out
  BY <1>2 DEF PixelsKept, PixelKept, Converting!Channels, Converting!Lost
<1> QED
  BY <1>1, <1>2

\* What is left of a byte that lost its low bits.
LEMMA DropBits ==
    ASSUME NEW x \in Byte
    PROVE  /\ (x \div 8) * 8 \in Byte /\ Near((x \div 8) * 8, x, 7)
           /\ (x \div 4) * 4 \in Byte /\ Near((x \div 4) * 4, x, 3)
  BY DEF Near, Byte

\* Each of the three converters keeps the picture.
LEMMA ConvertKeeps ==
    ASSUME ConvertInv, part = "converting", Converting!Convert
    PROVE  PixelsKept'
<1>1. Frame(colours) /\ ChosenFits /\ PixelsKept
  BY DEF ConvertInv
<1>2. UNCHANGED <<colours, iPixelFormatIn, iPixelFormatOut>>
  BY DEF Converting!Convert, Converting!formats
<1>3. /\ colours[1] \in Pixel /\ colours[2] \in Pixel
      /\ \A k \in 1 .. 2 : /\ colours[k][1] \in Byte
                           /\ colours[k][2] \in Byte
                           /\ colours[k][3] \in Byte
  BY <1>1 DEF Frame, Pixel
<1>4. CASE Converting!Yuv2RgbConvert
  <2> DEFINE Y(k) == Converting!RGB24_TO_Y(colours[k][1], colours[k][2], colours[k][3])
             U == Converting!YB_TO_U(colours[1][3], Y(1))
             V == Converting!YR_TO_V(colours[1][1], Y(1))
             pixel(k) == Converting!Stored(Converting!R_FROMYV(Y(k), V),
                                           Converting!G_FROMYUV(Y(k), U, V),
                                           Converting!B_FROMYU(Y(k), U))
  <2>1. iPixelFormatIn = "YUYV" /\ iPixelFormatOut \in {"RGB565", "RGB32"}
    BY <1>1, <1>4 DEF ChosenFits, Converting!Yuv2RgbConvert, Converting!isSupportYuv2Rgb, Converting!NULL
  <2>2. Converting!Write([k \in 1 .. 2 |-> pixel(k)])
    BY <1>4 DEF Converting!Yuv2RgbConvert
  <2>3. PICK more \in {0, 20} : \A i \in 1 .. 3 : colours[2][i] = colours[1][i] + more
    BY <1>1 DEF Frame
  <2>4. ASSUME NEW k \in 1 .. 2
        PROVE  /\ Converting!R_FROMYV(Y(k), V) \in Byte
               /\ Converting!G_FROMYUV(Y(k), U, V) \in Byte
               /\ Converting!B_FROMYU(Y(k), U) \in Byte
               /\ Near(Converting!R_FROMYV(Y(k), V), colours[k][1], 6)
               /\ Near(Converting!B_FROMYU(Y(k), U), colours[k][3], 6)
    <3>1. Y(k) \in Byte
      <4>1. colours[k][1] \in Byte /\ colours[k][2] \in Byte /\ colours[k][3] \in Byte
        BY <1>3
      <4> QED
        BY <4>1, LumaIsByte
    <3>2. PICK more2 \in Nat :
              /\ colours[k][1] = colours[1][1] + more2
              /\ colours[k][2] = colours[1][2] + more2
              /\ colours[k][3] = colours[1][3] + more2
              /\ k = 1 => more2 = 0
      <4>1. CASE k = 1
        BY <1>3, <4>1 DEF Byte
      <4>2. CASE k = 2
        BY <2>3, <4>2
      <4> QED
        BY <4>1, <4>2
    <3>3. Near(Y(k), Y(1) + more2, 2)
      BY <1>3, <3>2, BrighterLuma
    <3> HIDE DEF Y
    <3>4. /\ colours[1][1] \in Byte /\ colours[1][2] \in Byte /\ colours[1][3] \in Byte
          /\ colours[1][1] + more2 \in Byte /\ colours[1][3] + more2 \in Byte
      BY <1>3, <3>2
    <3> QED
      BY <3>1, <3>2, <3>3, <3>4, YuvSums DEF Y
  <2> HIDE DEF Y, U, V
  <2>5. \A k \in 1 .. 2 : PixelKept(pixel(k), k)
    BY <1>1, <2>1, <2>4, StoredKept
  <2> HIDE DEF pixel
  <2> QED
    BY <1>1, <1>2, <2>2, <2>5, KeptByPixel
<1>5. CASE Converting!Mjpeg2RgbConvert
  <2> DEFINE pixel(k) == Converting!Stored(colours[k][1], colours[k][2], colours[k][3])
  <2>1. iPixelFormatIn = "MJPEG" /\ iPixelFormatOut \in {"RGB565", "RGB32"}
    BY <1>1, <1>5 DEF ChosenFits, Converting!Mjpeg2RgbConvert, Converting!isSupportMjpeg2Rgb, Converting!NULL
  <2>2. Converting!Write([k \in 1 .. 2 |-> pixel(k)]) \/ out' \in {<<>>, out}
    BY <1>5 DEF Converting!Mjpeg2RgbConvert, Converting!MyErrorExit, Converting!NoLineBuffer
  <2>3. ASSUME NEW k \in 1 .. 2
        PROVE  PixelKept(pixel(k), k)
    <3>1. /\ Near(colours[k][1], colours[k][1], 0)
          /\ Near(colours[k][2], colours[k][2], 0)
          /\ Near(colours[k][3], colours[k][3], 0)
      <4>1. \A x \in Byte : Near(x, x, 0)
        BY DEF Near, Byte
      <4> QED
        BY <1>3, <4>1
    <3> QED
      BY <1>1, <1>3, <2>1, <3>1, StoredKept
  <2> HIDE DEF pixel
  <2>4. CASE Converting!Write([k \in 1 .. 2 |-> pixel(k)])
    BY <1>1, <1>2, <2>3, <2>4, KeptByPixel
  <2>5. CASE out' \in {<<>>, out}
    BY <1>1, <1>2, <2>5, NoPixels
  <2> QED
    BY <2>2, <2>4, <2>5
<1>6. CASE Converting!Rgb2RgbConvert
  <2>1. iPixelFormatIn = "RGB565" /\ iPixelFormatOut \in {"RGB565", "RGB32"}
    BY <1>1, <1>6 DEF ChosenFits, Converting!Rgb2RgbConvert, Converting!isSupportRgb2Rgb, Converting!NULL
  <2> DEFINE Word(k) == Converting!Rgb565(colours[k][1], colours[k][2], colours[k][3])
             r(k) == Word(k) \div 2 ^ 11
             g(k) == (Word(k) \div 2 ^ 5) % 64
             b(k) == Word(k) % 32
             pixel(k) == IF iPixelFormatOut = "RGB565" THEN Word(k)
                         ELSE Converting!Rgb32(r(k) * 8, g(k) * 4, b(k) * 8)
  <2>2. Converting!Write([k \in 1 .. 2 |-> pixel(k)])
    BY <1>6 DEF Converting!Rgb2RgbConvert
  <2>3. ASSUME NEW k \in 1 .. 2
        PROVE  PixelKept(pixel(k), k)
    <3>1. /\ r(k) = colours[k][1] \div 8
          /\ g(k) = colours[k][2] \div 4
          /\ b(k) = colours[k][3] \div 8
      BY <1>3, Rgb565Channels
    <3> HIDE DEF r, g, b
    <3>2. /\ r(k) * 8 \in Byte /\ Near(r(k) * 8, colours[k][1], 7)
          /\ g(k) * 4 \in Byte /\ Near(g(k) * 4, colours[k][2], 3)
          /\ b(k) * 8 \in Byte /\ Near(b(k) * 8, colours[k][3], 7)
      BY <1>3, <3>1, DropBits
    <3>3. Converting!Channels(pixel(k)) = <<r(k) * 8, g(k) * 4, b(k) * 8>>
      <4>1. CASE iPixelFormatOut = "RGB565"
        BY <4>1 DEF Converting!Channels, r, g, b
      <4>2. CASE iPixelFormatOut = "RGB32"
        BY <3>2, <4>2, Rgb32Channels DEF Converting!Channels
      <4> QED
        BY <2>1, <4>1, <4>2
    <3> HIDE DEF pixel
    <3>4. /\ Converting!Lost(1) = 7 + 0 /\ Converting!Lost(3) = 7 + 0
          /\ Converting!Lost(2) = 3 + 0
      BY <2>1, LostIs
    <3>5. /\ \A channel \in 1 .. 3 : Converting!Channels(pixel(k))[channel] \in Int
          /\ Near(Converting!Channels(pixel(k))[1], colours[k][1], 7 + 0)
          /\ Near(Converting!Channels(pixel(k))[2], colours[k][2], 3 + 0)
          /\ Near(Converting!Channels(pixel(k))[3], colours[k][3], 7 + 0)
      BY <3>2, <3>3 DEF Byte
    <3> QED
      BY <1>1, <3>4, <3>5, KeptByChannel
  <2> HIDE DEF pixel
  <2> QED
    BY <1>1, <1>2, <2>2, <2>3, KeptByPixel
<1> QED
  BY <1>4, <1>5, <1>6 DEF Converting!Convert

\* The converters' own actions keep the invariant.
LEMMA ConvertStep ==
    ASSUME ConvertInv, ConvertOne
    PROVE  ConvertInv'
<1>1. part = "converting" /\ part' = part
  BY DEF ConvertOne
<1>2. Frame(colours) /\ Chain(list) /\ ChosenFits /\ PixelsKept
  BY <1>1 DEF ConvertInv
<1>3. ASSUME UNCHANGED <<colours, iPixelFormatIn, iPixelFormatOut>>, Chain(list'),
             ChosenFits', PixelsKept'
      PROVE  ConvertInv'
  <2>1. Frame(colours)' /\ Chain(list)'
    BY <1>2, <1>3 DEF Frame, Chain
  <2> QED
    BY <1>1, <1>3, <2>1 DEF ConvertInv
<1>4. ASSUME UNCHANGED <<colours, iPixelFormatIn, iPixelFormatOut, chosen>>
      PROVE  ChosenFits'
  BY <1>2, <1>4 DEF ChosenFits, Converting!isSupportYuv2Rgb, Converting!isSupportMjpeg2Rgb,
                    Converting!isSupportRgb2Rgb
<1>5. ASSUME UNCHANGED <<colours, iPixelFormatIn, iPixelFormatOut, out>>
      PROVE  PixelsKept'
  BY <1>2, <1>5, NoPixels
<1>6. CASE Converting!VideoConvertInit
  <2>1. Chain(list')
    BY <1>2, <1>6, RegisterKeepsChain, Zenon DEF Converting!VideoConvertInit
  <2> QED
    BY <1>3, <1>4, <1>5, <1>6, <2>1 DEF Converting!VideoConvertInit, Converting!formats,
       Converting!picture
<1>7. CASE Converting!GetVideoConvertForFormats
  <2> DEFINE wanted == {c \in Converting!Converters :
                            \/ c = "yuv2rgb" /\ Converting!isSupportYuv2Rgb
                            \/ c = "mjpeg2rgb" /\ Converting!isSupportMjpeg2Rgb
                            \/ c = "rgb2rgb" /\ Converting!isSupportRgb2Rgb}
  <2>1. /\ chosen' = Converting!FirstNode(list, wanted) /\ chosen' # Converting!NULL
        /\ UNCHANGED <<colours, iPixelFormatIn, iPixelFormatOut, list, out>>
    BY <1>7 DEF Converting!GetVideoConvertForFormats, Converting!formats, Converting!picture
  <2>2. chosen' \in wanted
    BY <1>2, <2>1, FirstIsWanted
  <2>3. ChosenFits'
    BY <2>1, <2>2 DEF ChosenFits, Converting!isSupportYuv2Rgb, Converting!isSupportMjpeg2Rgb,
                      Converting!isSupportRgb2Rgb
  <2> QED
    BY <1>2, <1>3, <1>5, <2>1, <2>3
<1>8. CASE Converting!Convert
  <2>1. UNCHANGED <<colours, iPixelFormatIn, iPixelFormatOut, list, chosen>>
    BY <1>8 DEF Converting!Convert, Converting!formats
  <2>2. PixelsKept'
    BY <1>1, <1>8, ConvertKeeps
  <2> QED
    BY <1>2, <1>3, <1>4, <2>1, <2>2
<1>9. CASE Converting!ConvertExit
  <2>1. UNCHANGED <<colours, iPixelFormatIn, iPixelFormatOut, list, chosen>> /\ out' = <<>>
    BY <1>9 DEF Converting!ConvertExit, Converting!formats
  <2>2. PixelsKept'
    BY <1>2, <2>1, NoPixels
  <2> QED
    BY <1>2, <1>3, <1>4, <2>1, <2>2
<1> QED
  BY <1>6, <1>7, <1>8, <1>9 DEF ConvertOne, Converting!Next

-----------------------------------------------------------------------------
(* Drawing. *)

\* Multiplying keeps the order.
LEMMA Monotone ==
    ASSUME NEW a \in Int, NEW b \in Int, NEW c \in Nat, a <= b
    PROVE  a * c \in Int /\ b * c \in Int /\ a * c <= b * c
<1>1. b - a \in Nat
  OBVIOUS
<1>2. (b - a) * c \in Nat
  BY <1>1
<1>3. (b - a) * c = b * c - a * c
  OBVIOUS
<1> QED
  BY <1>2, <1>3

\* A number's rows and rest, if it is given as rows and a rest.
LEMMA DivMod ==
    ASSUME NEW q \in Int, NEW b \in Nat \ {0}, NEW r \in 0 .. b - 1
    PROVE  (q * b + r) \div b = q /\ (q * b + r) % b = r
<1> DEFINE n == q * b + r
           d == n \div b
           m == n % b
<1>1. n \in Int /\ d \in Int /\ m \in 0 .. b - 1 /\ n = d * b + m
  <2>1. n \in Int
    OBVIOUS
  <2> HIDE DEF n
  <2> QED
    BY <2>1
<1> HIDE DEF d, m
<1>2. CASE q < d
  <2>1. (q + 1) * b <= d * b
    BY <1>1, <1>2, Monotone
  <2>2. (q + 1) * b = q * b + b
    OBVIOUS
  <2> QED
    BY <1>1, <2>1, <2>2 DEF n
<1>3. CASE d < q
  <2>1. (d + 1) * b <= q * b
    BY <1>1, <1>3, Monotone
  <2>2. (d + 1) * b = d * b + b
    BY <1>1
  <2> QED
    BY <1>1, <2>1, <2>2 DEF n
<1>4. d = q /\ m = r
  BY <1>1, <1>2, <1>3 DEF n
<1> QED
  BY <1>4 DEF d, m, n

\* Division rounds down.
LEMMA Floor ==
    ASSUME NEW n \in Nat, NEW b \in Nat \ {0}
    PROVE  /\ n \div b \in Nat
           /\ (n \div b) * b <= n
           /\ n < (n \div b + 1) * b
  OBVIOUS

\* With d rows in between, a byte is in a stretch of m pixels from left on only
\* if d is 0: rows are too long for a stretch to reach another one.
LEMMA Strides ==
    ASSUME NEW W \in Nat, NEW B \in {1, 2, 4}, NEW d \in Int,
           NEW x \in 0 .. W - 1, NEW left \in Nat, NEW m \in Nat, left + m <= W,
           NEW k \in 0 .. B - 1
    PROVE  d * (W * B) + (x - left) * B + k \in 0 .. m * B - 1
               <=> d = 0 /\ x - left \in 0 .. m - 1
<1>1. W * B \in Nat
  OBVIOUS
<1> DEFINE row == d * (W * B)
<1>3. row \in Int
  BY <1>1
<1>2. CASE d = 0
  <2>1. row = 0
    BY <1>1, <1>2
  <2> HIDE DEF row
  <2> QED
    BY <1>2, <2>1
<1>4. CASE d >= 1
  <2>1. 1 * (W * B) <= row
    BY <1>1, <1>4, Monotone
  <2> HIDE DEF row
  <2> QED
    BY <1>3, <1>4, <2>1
<1>5. CASE d <= -1
  <2>1. row <= (-1) * (W * B)
    BY <1>1, <1>5, Monotone
  <2> HIDE DEF row
  <2> QED
    BY <1>3, <1>5, <2>1
<1> QED
  BY <1>2, <1>4, <1>5

\* The distance of two addresses, in rows, pixels and bytes.
LEMMA Offset ==
    ASSUME NEW W \in Nat, NEW B \in {1, 2, 4}, NEW x \in Int, NEW y \in Int, NEW k \in Int,
           NEW left \in Int, NEW top \in Int, NEW row \in Int
    PROVE  ((y * W + x) * B + k) - (top * (W * B) + left * B + row * (W * B))
               = (y - top - row) * (W * B) + (x - left) * B + k
  OBVIOUS

\* The address of a pixel, from a row and column both counted from another.
LEMMA Strided ==
    ASSUME NEW W \in Nat, NEW B \in {1, 2, 4}, NEW i \in Int, NEW j \in Int, NEW k \in Int,
           NEW sx \in Int, NEW sy \in Int
    PROVE  (sy * (W * B) + sx * B) + j * (W * B) + (i * B + k)
               = ((sy + j) * W + (sx + i)) * B + k
  OBVIOUS

\* The bytes of a pixel, and the pixels.
Bytes == Drawing!Bytes
Points == Drawing!Points

\* The address of byte k of the pixel p.
Address(p, k) == (p[2] * Width + p[1]) * Bytes + k

\* What drawing leaves alone; and in the other parts nothing is drawn.
DrawInv ==
    /\ part # "drawing" => drawn = TRUE
    /\ part = "drawing" =>
        /\ iBpp \in {8, 16, 32} /\ base \in Nat
        /\ size[1] \in SourceWidths /\ size[2] \in SourceHeights
        /\ DOMAIN memory = 0 .. Width * Height * Bytes - 1

\* A picture to draw in.
LEMMA Canvas ==
    ASSUME DrawInv, Drawing!Operation
    PROVE  /\ Bytes \in {1, 2, 4}
           /\ size[1] \in Nat \ {0} /\ size[2] \in Nat \ {0}
           /\ DOMAIN memory = 0 .. Width * Height * Bytes - 1
           /\ Bytes' = Bytes /\ size' = size /\ source' = source
           /\ Width \in Nat \ {0} /\ Height \in Nat \ {0}
<1>1. part = "drawing"
  BY DEF DrawInv, Drawing!Operation
<1>2. iBpp' = iBpp /\ size' = size /\ source' = source
  BY DEF Drawing!Operation
<1>3. Bytes' = Bytes
  BY <1>2 DEF Bytes, Drawing!Bytes
<1>4. iBpp \in {8, 16, 32}
  BY <1>1 DEF DrawInv
<1>5. Bytes \in {1, 2, 4}
  BY <1>4 DEF Bytes, Drawing!Bytes
<1> QED
  BY <1>1, <1>2, <1>3, <1>5, DrawingAssumption DEF DrawInv

\* Every byte of every pixel is in the memory, and tells its row, its place in
\* the row, and its place in the pixel.
LEMMA AddressIs ==
    ASSUME Bytes \in {1, 2, 4}, Width \in Nat \ {0}, Height \in Nat \ {0},
           NEW p \in Points, NEW k \in 0 .. Bytes - 1
    PROVE  /\ Address(p, k) \in 0 .. Width * Height * Bytes - 1
           /\ Address(p, k) = p[2] * (Width * Bytes) + (p[1] * Bytes + k)
           /\ p[1] * Bytes + k \in 0 .. Width * Bytes - 1
           /\ Address(p, k) \div (Width * Bytes) = p[2]
           /\ Address(p, k) % (Width * Bytes) = p[1] * Bytes + k
           /\ (p[1] * Bytes + k) \div Bytes = p[1]
           /\ Address(p, k) % Bytes = k
<1> DEFINE B == Bytes
           x == p[1]
           y == p[2]
           row == y * Width
<1>1. x \in 0 .. Width - 1 /\ y \in 0 .. Height - 1
  BY DEF Points, Drawing!Points
<1> HIDE DEF B, x, y
<1>2. B \in {1, 2, 4} /\ k \in 0 .. B - 1
  BY DEF B
<1>3. row \in Nat /\ row <= Width * Height - Width
  <2>1. row <= (Height - 1) * Width
    BY <1>1, Monotone
  <2>2. row \in Nat
    BY <1>1
  <2>3. (Height - 1) * Width = Width * Height - Width
    OBVIOUS
  <2> QED
    BY <2>1, <2>2, <2>3
<1>4. Width * Height \in Nat
  OBVIOUS
<1>5. (row + x) * B + k \in 0 .. Width * Height * B - 1
  <2> DEFINE all == Width * Height
  <2>1. row \in Nat /\ row <= all - Width /\ all \in Nat
    BY <1>3, <1>4
  <2> HIDE DEF row, all
  <2>2. (row + x) * B + k \in 0 .. all * B - 1
    BY <1>1, <1>2, <2>1
  <2> QED
    BY <2>2 DEF all
<1>6. (row + x) * B + k = y * (Width * B) + (x * B + k)
  BY <1>1, <1>2
<1>7. x * B + k \in 0 .. Width * B - 1
  BY <1>1, <1>2
<1>8. Width * B \in Nat \ {0}
  BY <1>2
<1>9. /\ (y * (Width * B) + (x * B + k)) \div (Width * B) = y
      /\ (y * (Width * B) + (x * B + k)) % (Width * B) = x * B + k
  <2> DEFINE L == Width * B
             r == x * B + k
  <2>1. L \in Nat \ {0} /\ r \in 0 .. L - 1 /\ y \in Int
    BY <1>1, <1>7, <1>8
  <2> HIDE DEF L, r
  <2>2. (y * L + r) \div L = y /\ (y * L + r) % L = r
    BY <2>1, DivMod
  <2> QED
    BY <2>2 DEF L, r
<1>10. (x * B + k) \div B = x
  BY <1>1, <1>2, DivMod
<1>11. ((row + x) * B + k) % B = k
  <2>1. row + x \in Int
    BY <1>1, <1>3
  <2> HIDE DEF row
  <2> QED
    BY <1>2, <2>1, DivMod
<1>12. Address(p, k) = (row + x) * B + k
  BY DEF Address, B, x, y
<1> HIDE DEF row
<1> QED
  BY <1>5, <1>6, <1>7, <1>9, <1>10, <1>11, <1>12 DEF B, x, y

\* A pixel's bytes, before and after, are those at its addresses.
LEMMA Looks ==
    ASSUME NEW p \in Points, Bytes' = Bytes
    PROVE  /\ Drawing!Now(p) = [k \in 0 .. Bytes - 1 |-> memory[Address(p, k)]]
           /\ Drawing!Later(p) = [k \in 0 .. Bytes - 1 |-> memory'[Address(p, k)]]
  BY DEF Drawing!Now, Drawing!Later, Drawing!Pixel, Address, Bytes

\* FillRows fills a rectangle.
LEMMA FilledIs ==
    ASSUME DrawInv, Drawing!Operation,
           NEW left \in Nat, NEW top \in Nat, NEW count \in Nat, NEW rows \in Nat,
           left + count <= Width, NEW colour,
           Drawing!FillRows(Drawing!Rows(top * (Width * Bytes) + left * Bytes, rows),
                            count, colour)
    PROVE  \A p \in Points :
               Drawing!Later(p) =
                   IF p[1] - left \in 0 .. count - 1 /\ p[2] - top \in 0 .. rows - 1
                   THEN [k \in 0 .. Bytes - 1 |-> Drawing!PixelByte(colour, k)]
                   ELSE Drawing!Now(p)
<1>1. /\ Bytes \in {1, 2, 4} /\ Bytes' = Bytes
      /\ DOMAIN memory = 0 .. Width * Height * Bytes - 1
      /\ Width \in Nat \ {0} /\ Height \in Nat \ {0}
  BY Canvas
<1> DEFINE Inside(p) == p[1] - left \in 0 .. count - 1 /\ p[2] - top \in 0 .. rows - 1
           start == top * (Width * Bytes) + left * Bytes
           Reached(a) == \E row \in 0 .. rows - 1 :
               a - (start + row * (Width * Bytes)) \in 0 .. count * Bytes - 1
<1>2. memory' = [a \in DOMAIN memory |->
          IF Reached(a) THEN Drawing!PixelByte(colour, a % Bytes) ELSE memory[a]]
  BY DEF Drawing!FillRows, Drawing!Rows, Drawing!iLineBytes, Bytes
<1>3. ASSUME NEW p \in Points, NEW k \in 0 .. Bytes - 1
      PROVE  Reached(Address(p, k)) <=> Inside(p)
  <2> DEFINE x == p[1]
             y == p[2]
  <2>1. x \in 0 .. Width - 1 /\ y \in 0 .. Height - 1
    BY <1>1 DEF Points, Drawing!Points
  <2>2. Address(p, k) = (y * Width + x) * Bytes + k
    BY DEF Address
  <2> HIDE DEF x, y
  <2>3. Bytes \in {1, 2, 4} /\ k \in 0 .. Bytes - 1
    BY <1>1
  <2>4. ASSUME NEW row \in 0 .. rows - 1
        PROVE  Address(p, k) - (start + row * (Width * Bytes)) \in 0 .. count * Bytes - 1
                   <=> y - top = row /\ x - left \in 0 .. count - 1
    <3>1. y - top - row \in Int
      BY <2>1
    <3>2. ((y * Width + x) * Bytes + k) - (top * (Width * Bytes) + left * Bytes + row * (Width * Bytes))
              = (y - top - row) * (Width * Bytes) + (x - left) * Bytes + k
      BY <1>1, <2>1, <2>3, Offset
    <3>3. (y - top - row) * (Width * Bytes) + (x - left) * Bytes + k \in 0 .. count * Bytes - 1
              <=> y - top - row = 0 /\ x - left \in 0 .. count - 1
      <4> DEFINE d == y - top - row
      <4> HIDE DEF d
      <4>1. d * (Width * Bytes) + (x - left) * Bytes + k \in 0 .. count * Bytes - 1
                <=> d = 0 /\ x - left \in 0 .. count - 1
        <5>1. d \in Int
          BY <3>1 DEF d
        <5> QED
          BY <1>1, <2>1, <2>3, <5>1, Strides
      <4> QED
        BY <4>1 DEF d
    <3>4. y - top - row = 0 <=> y - top = row
      BY <2>1
    <3> DEFINE here == (y * Width + x) * Bytes + k
               below == start + row * (Width * Bytes)
               there == (y - top - row) * (Width * Bytes) + (x - left) * Bytes + k
               upto == count * Bytes
    <3>5. Address(p, k) = here /\ here - below = there
      BY <2>2, <3>2
    <3>6. there \in 0 .. upto - 1 <=> y - top = row /\ x - left \in 0 .. count - 1
      BY <3>3, <3>4
    <3> HIDE DEF here, below, there, upto
    <3>7. Address(p, k) - below \in 0 .. upto - 1
              <=> y - top = row /\ x - left \in 0 .. count - 1
      BY <3>5, <3>6
    <3> QED
      BY <3>7 DEF below, upto
  <2>5. (\E row \in 0 .. rows - 1 : y - top = row) <=> y - top \in 0 .. rows - 1
    BY <2>1
  <2> QED
    BY <2>4, <2>5 DEF x, y
<1>4. ASSUME NEW p \in Points
      PROVE  Drawing!Later(p) = IF Inside(p)
                                THEN [k \in 0 .. Bytes - 1 |-> Drawing!PixelByte(colour, k)]
                                ELSE Drawing!Now(p)
  <2>1. ASSUME NEW k \in 0 .. Bytes - 1
        PROVE  memory'[Address(p, k)] = IF Inside(p) THEN Drawing!PixelByte(colour, k)
                                        ELSE memory[Address(p, k)]
    <3>1. Address(p, k) \in DOMAIN memory /\ Address(p, k) % Bytes = k
      BY <1>1, AddressIs
    <3>2. Reached(Address(p, k)) <=> Inside(p)
      BY <1>3
    <3> HIDE DEF Reached, Inside
    <3> QED
      BY <1>2, <3>1, <3>2
  <2>2. /\ Drawing!Now(p) = [k \in 0 .. Bytes - 1 |-> memory[Address(p, k)]]
        /\ Drawing!Later(p) = [k \in 0 .. Bytes - 1 |-> memory'[Address(p, k)]]
    BY <1>1, Looks
  <2> HIDE DEF Inside
  <2> QED
    BY <2>1, <2>2
<1> QED
  BY <1>4

\* How far byte k of pixel p is behind the first byte of the pixel <<X, Y>>.
Ahead(p, k, X, Y) == Address(p, k) - (Y * (Width * Bytes) + X * Bytes)

\* In whole rows and bytes: a pixel to the left of X is at the end of the row
\* before.
LEMMA AheadIs ==
    ASSUME Bytes \in {1, 2, 4}, Width \in Nat \ {0}, Height \in Nat \ {0},
           NEW p \in Points, NEW k \in 0 .. Bytes - 1,
           NEW X \in Nat, NEW Y \in Nat, X <= Width
    PROVE  /\ Ahead(p, k, X, Y) \in Int
           /\ p[1] >= X =>
                 /\ Ahead(p, k, X, Y) >= 0 <=> p[2] >= Y
                 /\ Ahead(p, k, X, Y) \div (Width * Bytes) = p[2] - Y
                 /\ Ahead(p, k, X, Y) % (Width * Bytes) = (p[1] - X) * Bytes + k
           /\ p[1] < X => Ahead(p, k, X, Y) % (Width * Bytes) >= (Width - X) * Bytes
<1> DEFINE x == p[1]
           y == p[2]
           n == Ahead(p, k, X, Y)
           L == Width * Bytes
           q == IF x >= X THEN y - Y ELSE y - Y - 1
           r == IF x >= X THEN (x - X) * Bytes + k ELSE L + (x - X) * Bytes + k
<1>0. x \in 0 .. Width - 1 /\ y \in Nat
  BY DEF Points, Drawing!Points
<1>a. n = ((y * Width + x) * Bytes + k) - (Y * (Width * Bytes) + X * Bytes)
  BY DEF Ahead, Address
<1> HIDE DEF x, y, n
<1>1. L \in Nat \ {0}
  OBVIOUS
<1>2. r \in 0 .. L - 1
  BY <1>0
<1>3. q \in Int
  BY <1>0
<1>4. n = q * L + r
  <2>1. ((y * Width + x) * Bytes + k) - (Y * (Width * Bytes) + X * Bytes + 0 * (Width * Bytes))
            = (y - Y - 0) * (Width * Bytes) + (x - X) * Bytes + k
    BY <1>0, Offset
  <2>2. n = (y - Y) * (Width * Bytes) + (x - X) * Bytes + k
    BY <1>0, <1>a, <2>1
  <2>3. CASE x >= X
    BY <1>0, <2>2, <2>3
  <2>4. CASE ~(x >= X)
    <3>1. (y - Y - 1) * (Width * Bytes) = (y - Y) * (Width * Bytes) - Width * Bytes
      BY <1>0
    <3> QED
      BY <1>0, <2>2, <2>4, <3>1
  <2> QED
    BY <2>3, <2>4
<1>5. x < X => r >= (Width - X) * Bytes
  BY <1>0
<1>6. x >= X => q = y - Y /\ r = (x - X) * Bytes + k
  OBVIOUS
<1> HIDE DEF q, r, L
<1>7. n \in Int /\ n \div L = q /\ n % L = r
  BY <1>1, <1>2, <1>3, <1>4, DivMod
<1>8. n >= 0 <=> q >= 0
  <2>1. CASE q >= 0
    <3>1. 0 * L <= q * L
      BY <1>1, <1>3, <2>1, Monotone
    <3> QED
      BY <1>1, <1>2, <1>3, <1>4, <2>1, <3>1
  <2>2. CASE q <= -1
    <3>1. q * L <= (-1) * L
      BY <1>1, <1>3, <2>2, Monotone
    <3>2. q * L \in Int /\ (-1) * L = -L
      BY <1>1, <1>3
    <3> QED
      BY <1>1, <1>2, <1>3, <1>4, <2>2, <3>1, <3>2
  <2> QED
    BY <1>3, <2>1, <2>2
<1>9. x >= X => (n >= 0 <=> y >= Y)
  BY <1>0, <1>6, <1>8
<1> QED
  BY <1>5, <1>6, <1>7, <1>9 DEF L, x, y, n

\* CopyRows copies a rectangle from one picture to the other.
LEMMA PlacedIs ==
    ASSUME DrawInv, Drawing!Operation,
           NEW X \in Nat, NEW Y \in Nat, NEW sx \in Nat, NEW sy \in Nat,
           NEW w \in Nat, NEW h \in Nat, X + w <= Width,
           NEW src, src = sy * (size[1] * Bytes) + sx * Bytes,
           Drawing!CopyRows(Y * (Width * Bytes) + X * Bytes, src, h, w * Bytes)
    PROVE  Drawing!Placed(X, Y, sx, sy, w, h)
<1>1. /\ Bytes \in {1, 2, 4} /\ Bytes' = Bytes
      /\ size[1] \in Nat \ {0}
      /\ DOMAIN memory = 0 .. Width * Height * Bytes - 1
      /\ Width \in Nat \ {0} /\ Height \in Nat \ {0}
  BY Canvas
<1> DEFINE Inside(p) == p[1] - X \in 0 .. w - 1 /\ p[2] - Y \in 0 .. h - 1
           L == Width * Bytes
           dst == Y * L + X * Bytes
           Copied(a) == a >= dst /\ (a - dst) \div L < h /\ (a - dst) % L < w * Bytes
           From(a) == src + ((a - dst) \div L) * (size[1] * Bytes) + ((a - dst) % L)
           At(p, k) == ((sy + (p[2] - Y)) * size[1] + (sx + (p[1] - X))) * Bytes + k
<1>2. memory' = [a \in DOMAIN memory |-> IF Copied(a) THEN source[From(a)] ELSE memory[a]]
  BY DEF Drawing!CopyRows, Drawing!iLineBytes, Drawing!sourceLineBytes, Bytes
<1>3. ASSUME NEW p \in Points, NEW k \in 0 .. Bytes - 1
      PROVE  /\ Copied(Address(p, k)) <=> Inside(p)
             /\ Inside(p) => From(Address(p, k)) = At(p, k)
  <2> DEFINE x == p[1]
             y == p[2]
             n == Ahead(p, k, X, Y)
  <2>1. x \in 0 .. Width - 1 /\ y \in Nat
    BY <1>1 DEF Points, Drawing!Points
  <2>2. /\ n \in Int
        /\ x >= X => /\ n >= 0 <=> y >= Y
                     /\ n \div L = y - Y
                     /\ n % L = (x - X) * Bytes + k
        /\ x < X => n % L >= (Width - X) * Bytes
    <3>1. X <= Width
      BY <1>1
    <3> QED
      BY <1>1, <3>1, AheadIs
  <2>3. n = Address(p, k) - dst
    BY DEF Ahead
  <2>4. Address(p, k) \in Int /\ dst \in Int
    <3>1. Address(p, k) \in 0 .. Width * Height * Bytes - 1
      BY <1>1, AddressIs
    <3> QED
      BY <1>1, <3>1
  <2> HIDE DEF x, y, n
  <2>5. Copied(Address(p, k)) <=> n >= 0 /\ n \div L < h /\ n % L < w * Bytes
    <3>1. Address(p, k) >= dst <=> n >= 0
      <4> HIDE DEF dst
      <4> QED
        BY <2>3, <2>4
    <3> HIDE DEF dst, L
    <3> QED
      BY <2>3, <3>1
  <2>6. n >= 0 /\ n \div L < h /\ n % L < w * Bytes
            <=> x - X \in 0 .. w - 1 /\ y - Y \in 0 .. h - 1
    <3> HIDE DEF L
    <3>1. CASE x >= X
      BY <1>1, <2>1, <2>2, <3>1
    <3>2. CASE x < X
      <4>1. (Width - X) * Bytes >= w * Bytes /\ n % L \in Int
        BY <1>1, <2>2 DEF L
      <4> QED
        BY <1>1, <2>1, <2>2, <3>2, <4>1
    <3> QED
      BY <2>1, <3>1, <3>2
  <2>7. x - X \in 0 .. w - 1 => n \div L = y - Y /\ n % L = (x - X) * Bytes + k
    <3> HIDE DEF L
    <3> QED
      BY <2>1, <2>2
  <2>8. Inside(p) <=> x - X \in 0 .. w - 1 /\ y - Y \in 0 .. h - 1
    BY DEF x, y
  <2>9. ASSUME Inside(p)
        PROVE  From(Address(p, k)) = At(p, k)
    <3> DEFINE i == x - X
               j == y - Y
    <3>1. i \in Int /\ j \in Int
      BY <2>1
    <3>2. n \div L = j /\ n % L = i * Bytes + k
      BY <2>7, <2>8, <2>9
    <3>3. From(Address(p, k)) = src + (n \div L) * (size[1] * Bytes) + (n % L)
      BY <2>3
    <3>4. At(p, k) = ((sy + j) * size[1] + (sx + i)) * Bytes + k
      BY DEF x, y
    <3> HIDE DEF i, j, L, From, At
    <3>5. (sy * (size[1] * Bytes) + sx * Bytes) + j * (size[1] * Bytes) + (i * Bytes + k)
              = ((sy + j) * size[1] + (sx + i)) * Bytes + k
      <4> DEFINE sw == size[1]
      <4>1. sw \in Nat
        BY <1>1
      <4> HIDE DEF sw
      <4>2. (sy * (sw * Bytes) + sx * Bytes) + j * (sw * Bytes) + (i * Bytes + k)
                = ((sy + j) * sw + (sx + i)) * Bytes + k
        BY <1>1, <3>1, <4>1, Strided
      <4> QED
        BY <4>2 DEF sw
    <3> QED
      BY <3>2, <3>3, <3>4, <3>5
  <2> QED
    BY <2>5, <2>6, <2>8, <2>9
<1>4. ASSUME NEW p \in Points
      PROVE  Drawing!Later(p) = IF Inside(p)
                                THEN Drawing!OfSource(sx + p[1] - X, sy + p[2] - Y)
                                ELSE Drawing!Now(p)
  <2>1. ASSUME NEW k \in 0 .. Bytes - 1
        PROVE  memory'[Address(p, k)] = IF Inside(p) THEN source[At(p, k)]
                                        ELSE memory[Address(p, k)]
    <3>1. Address(p, k) \in DOMAIN memory
      BY <1>1, AddressIs
    <3>2. /\ Copied(Address(p, k)) <=> Inside(p)
          /\ Inside(p) => From(Address(p, k)) = At(p, k)
      BY <1>3
    <3> HIDE DEF Copied, Inside, From, At
    <3> QED
      BY <1>2, <3>1, <3>2
  <2>2. /\ Drawing!Now(p) = [k \in 0 .. Bytes - 1 |-> memory[Address(p, k)]]
        /\ Drawing!Later(p) = [k \in 0 .. Bytes - 1 |-> memory'[Address(p, k)]]
    BY <1>1, Looks
  <2>3. Drawing!OfSource(sx + p[1] - X, sy + p[2] - Y)
            = [k \in 0 .. Bytes - 1 |-> source[At(p, k)]]
    BY DEF Drawing!OfSource, Drawing!Pixel, Bytes
  <2> HIDE DEF Inside, At
  <2> QED
    BY <2>1, <2>2, <2>3
<1> QED
  BY <1>4 DEF Drawing!Placed, Points

\* The source's column below a column of the memory is one of the source's.
LEMMA Scale ==
    ASSUME NEW W \in Nat \ {0}, NEW x \in 0 .. W - 1, NEW sw \in Nat \ {0}
    PROVE  LET q == (x * sw) \div W
           IN  q \in 0 .. sw - 1 /\ q * W <= x * sw /\ x * sw < (q + 1) * W
<1> DEFINE q == (x * sw) \div W
<1>1. x * sw \in Nat /\ x * sw < sw * W
  <2>1. (x + 1) * sw <= W * sw
    BY Monotone
  <2> QED
    BY <2>1
<1>2. q \in Nat /\ q * W <= x * sw /\ x * sw < (q + 1) * W
  <2> DEFINE n == x * sw
  <2>1. n \in Nat
    BY <1>1
  <2> HIDE DEF n
  <2>2. n \div W \in Nat /\ (n \div W) * W <= n /\ n < (n \div W + 1) * W
    BY <2>1, Floor
  <2> QED
    BY <2>2 DEF n
<1> HIDE DEF q
<1>3. CASE q >= sw
  <2>1. sw * W <= q * W
    BY <1>2, <1>3, Monotone
  <2> QED
    BY <1>1, <1>2, <2>1
<1>4. q \in 0 .. sw - 1
  BY <1>2, <1>3
<1> QED
  BY <1>2, <1>4 DEF q

\* PicZoom scales to nearest neighbours.
LEMMA ScaledIs ==
    ASSUME DrawInv, Drawing!PicZoom
    PROVE  Drawing!Scaled
<1>1. /\ Bytes \in {1, 2, 4} /\ Bytes' = Bytes
      /\ size[1] \in Nat \ {0} /\ size[2] \in Nat \ {0}
      /\ DOMAIN memory = 0 .. Width * Height * Bytes - 1
      /\ Width \in Nat \ {0} /\ Height \in Nat \ {0}
  BY Canvas DEF Drawing!PicZoom
<1> DEFINE L == Width * Bytes
           X(x) == (x * size[1]) \div Width
           Y(y) == (y * size[2]) \div Height
           From(a) == Y(a \div L) * (size[1] * Bytes) + X((a % L) \div Bytes) * Bytes + (a % Bytes)
           At(p, k) == (Y(p[2]) * size[1] + X(p[1])) * Bytes + k
<1>2. memory' = [a \in DOMAIN memory |-> source[From(a)]]
  BY DEF Drawing!PicZoom, Drawing!iLineBytes, Drawing!sourceLineBytes, Bytes
<1>3. ASSUME NEW p \in Points
      PROVE  /\ X(p[1]) \in 0 .. size[1] - 1
             /\ X(p[1]) * Width <= p[1] * size[1] /\ p[1] * size[1] < (X(p[1]) + 1) * Width
             /\ Y(p[2]) \in 0 .. size[2] - 1
             /\ Y(p[2]) * Height <= p[2] * size[2] /\ p[2] * size[2] < (Y(p[2]) + 1) * Height
  <2> DEFINE x == p[1]
             y == p[2]
             sw == size[1]
             sh == size[2]
  <2>1. /\ x \in 0 .. Width - 1 /\ y \in 0 .. Height - 1
        /\ sw \in Nat \ {0} /\ sh \in Nat \ {0}
    BY <1>1 DEF Points, Drawing!Points
  <2> HIDE DEF x, y, sw, sh
  <2>2. /\ (x * sw) \div Width \in 0 .. sw - 1
        /\ ((x * sw) \div Width) * Width <= x * sw
        /\ x * sw < ((x * sw) \div Width + 1) * Width
    BY <1>1, <2>1, Scale
  <2>3. /\ (y * sh) \div Height \in 0 .. sh - 1
        /\ ((y * sh) \div Height) * Height <= y * sh
        /\ y * sh < ((y * sh) \div Height + 1) * Height
    BY <1>1, <2>1, Scale
  <2> QED
    BY <2>2, <2>3 DEF x, y, sw, sh
<1>4. ASSUME NEW p \in Points, NEW k \in 0 .. Bytes - 1
      PROVE  memory'[Address(p, k)] = source[At(p, k)]
  <2>1. /\ Address(p, k) \in DOMAIN memory
        /\ Address(p, k) \div L = p[2]
        /\ (Address(p, k) % L) \div Bytes = p[1]
        /\ Address(p, k) % Bytes = k
    BY <1>1, AddressIs
  <2>2. From(Address(p, k)) = Y(p[2]) * (size[1] * Bytes) + X(p[1]) * Bytes + k
    BY <2>1
  <2>3. X(p[1]) \in Int /\ Y(p[2]) \in Int
    BY <1>3
  <2> HIDE DEF X, Y, From
  <2>4. Y(p[2]) * (size[1] * Bytes) + X(p[1]) * Bytes + k = At(p, k)
    BY <1>1, <2>3
  <2> QED
    BY <1>2, <2>1, <2>2, <2>4
<1>5. ASSUME NEW p \in Points
      PROVE  Drawing!Later(p) = Drawing!OfSource(X(p[1]), Y(p[2]))
  <2>1. Drawing!Later(p) = [k \in 0 .. Bytes - 1 |-> memory'[Address(p, k)]]
    BY <1>1, Looks
  <2> HIDE DEF X, Y
  <2>2. Drawing!OfSource(X(p[1]), Y(p[2])) = [k \in 0 .. Bytes - 1 |-> source[At(p, k)]]
    BY DEF Drawing!OfSource, Drawing!Pixel, Bytes
  <2> HIDE DEF At
  <2> QED
    BY <1>4, <2>1, <2>2
<1> HIDE DEF X, Y
<1>6. ASSUME NEW p \in Points
      PROVE  \E x \in 0 .. size[1] - 1, y \in 0 .. size[2] - 1 :
                 /\ x * Width <= p[1] * size[1] /\ p[1] * size[1] < (x + 1) * Width
                 /\ y * Height <= p[2] * size[2] /\ p[2] * size[2] < (y + 1) * Height
                 /\ Drawing!Later(p) = Drawing!OfSource(x, y)
  BY <1>3, <1>5
<1> QED
  BY <1>6 DEF Drawing!Scaled, Points

\* DrawInv holds in the initial states.
LEMMA DrawInit == LegacyInit => DrawInv
<1> SUFFICES ASSUME LegacyInit
             PROVE  DrawInv
  OBVIOUS
<1>1. CASE part = "drawing" /\ Drawing!Init
  <2>1. /\ iBpp \in {8, 16, 32} /\ base \in Nat
        /\ size[1] \in SourceWidths /\ size[2] \in SourceHeights
    BY <1>1, DrawingAssumption DEF Drawing!Init
  <2>2. DOMAIN memory = 0 .. Width * Height * Bytes - 1
    BY <1>1 DEF Drawing!Init, Bytes, Drawing!Bytes
  <2> QED
    BY <1>1, <2>1, <2>2 DEF DrawInv
<1>2. CASE part # "drawing" /\ NothingToDraw
  BY <1>2 DEF NothingToDraw, DrawInv
<1> QED
  BY <1>1, <1>2 DEF LegacyInit

\* Of the steps only those that draw change what DrawInv is about.
LEMMA DrawStep == DrawInv /\ [LegacyNext]_<<part, vars, drawVars, convertVars>> => DrawInv'
<1> SUFFICES ASSUME DrawInv, [LegacyNext]_<<part, vars, drawVars, convertVars>>
             PROVE  DrawInv'
  OBVIOUS
<1>1. CASE UNCHANGED <<part, drawVars>>
  BY <1>1 DEF DrawInv, drawVars, Bytes, Drawing!Bytes
<1>2. CASE DrawOnce
  <2>1. part = "drawing" /\ part' = part /\ Drawing!Next
    BY <1>2 DEF DrawOnce
  <2>2. Drawing!Operation
    BY <2>1 DEF Drawing!Next, Drawing!ClearVideoMem, Drawing!ClearVideoMemRegion,
       Drawing!FBShowPixel, Drawing!PicMerge, Drawing!PicMergeRegion, Drawing!PicZoom
  <2>3. DOMAIN memory' = DOMAIN memory
    BY <2>1 DEF Drawing!Next, Drawing!ClearVideoMem, Drawing!ClearVideoMemRegion,
       Drawing!FBShowPixel, Drawing!PicMerge, Drawing!PicMergeRegion, Drawing!PicZoom,
       Drawing!FillRows, Drawing!CopyRows
  <2> QED
    BY <2>1, <2>2, <2>3 DEF DrawInv, Drawing!Operation, Bytes, Drawing!Bytes
<1>3. CASE UseMemories \/ ConvertOne
  BY <1>1, <1>3 DEF UseMemories, ConvertOne
<1> QED
  BY <1>1, <1>2, <1>3 DEF LegacyNext

\* The rows of a region that no address is truncated in.
LEMMA RegionIs ==
    ASSUME DrawInv, Drawing!Operation, NEW left \in Nat, NEW top \in Nat, NEW bottom \in Nat,
           left < Width, top <= bottom, bottom < Height,
           iBpp = 8 \/ top = bottom \/ Drawing!Reachable
    PROVE  Drawing!RegionRows(left, top, bottom)
             = Drawing!Rows(top * (Width * Bytes) + left * Bytes, bottom - top + 1)
<1> DEFINE L == Width * Bytes
           start == top * L + left * Bytes
           rows == bottom - top + 1
<1>1. Bytes \in {1, 2, 4} /\ Width \in Nat \ {0} /\ Height \in Nat \ {0}
  BY Canvas
<1>2. base \in Nat /\ UIntRange \in Nat \ {0}
  BY DrawingAssumption DEF DrawInv, Drawing!Operation
<1>3. /\ L \in Nat /\ left * Bytes \in Nat /\ left * Bytes < L
      /\ top * L \in Nat /\ start \in Nat /\ rows \in Nat
  <2>1. L \in Nat /\ left * Bytes \in Nat /\ left * Bytes < L
    BY <1>1
  <2> HIDE DEF L
  <2>2. top * L \in Nat
    BY <2>1
  <2> QED
    BY <2>1, <2>2
<1>4. Drawing!RegionRows(left, top, bottom) = IF iBpp = 8 THEN Drawing!Rows(start, rows)
                                             ELSE Drawing!TruncatedRows(start, rows)
  BY DEF Drawing!RegionRows, Drawing!iLineBytes, Bytes
<1>5. ASSUME iBpp # 8
      PROVE  Drawing!TruncatedRows(start, rows) = Drawing!Rows(start, rows)
  <2>1. ASSUME NEW row \in 0 .. rows - 1
        PROVE  (IF row = 0 THEN start ELSE ((base + start + row * L) % UIntRange) - base)
                   = start + row * L
    <3>1. CASE row = 0
      <4>1. L \in Nat /\ start \in Nat
        BY <1>3
      <4> HIDE DEF L, start
      <4>2. start + 0 * L = start
        BY <4>1
      <4> QED
        BY <3>1, <4>2
    <3>2. CASE row # 0
      <4>1. row \in Nat /\ top + row \in Nat /\ top + row <= Height - 1
        <5>1. row \in 0 .. (bottom - top + 1) - 1
          OBVIOUS
        <5> HIDE DEF L, start, rows
        <5> QED
          BY <1>1, <5>1
      <4>2. base + Width * Height * Bytes <= UIntRange
        <5>1. Drawing!Reachable
          BY <1>5, <2>1, <3>2
        <5> QED
          BY <5>1 DEF Drawing!Reachable, Bytes
      <4> DEFINE here == (top + row) * L
      <4>3. /\ here = top * L + row * L /\ here <= (Height - 1) * L
            /\ (Height - 1) * L = Height * L - L /\ Height * L \in Nat
            /\ row * L \in Nat
        <5> HIDE DEF L
        <5>1. here <= (Height - 1) * L
          BY <1>1, <1>3, <4>1, Monotone
        <5> QED
          BY <1>1, <1>3, <4>1, <5>1
      <4>4. Height * L = Width * Height * Bytes
        BY <1>1
      <4> DEFINE below == row * L
                 all == Height * L
                 last == (Height - 1) * L
                 at == top * L
                 in == left * Bytes
                 v == base + start + below
      <4>5. v \in 0 .. UIntRange - 1
        <5>1. base + all <= UIntRange
          BY <4>2, <4>4
        <5>2. start = at + in /\ here = at + below /\ here <= last /\ last = all - L
          BY <4>3
        <5>3. /\ at \in Nat /\ in \in Nat /\ in < L /\ L \in Nat /\ all \in Nat
              /\ below \in Nat
          BY <1>3, <4>3
        <5> HIDE DEF below, all, last, at, in, here, L
        <5> QED
          BY <1>2, <5>1, <5>2, <5>3
      <4>6. below \in Nat /\ start \in Nat
        BY <1>3, <4>3
      <4> HIDE DEF below, start
      <4>7. v % UIntRange = v
        <5> HIDE DEF v
        <5> QED
          BY <1>2, <4>5
      <4>8. v - base = start + below
        BY <1>2, <4>6
      <4> HIDE DEF v
      <4> QED
        BY <3>2, <4>7, <4>8 DEF v, below
    <3> QED
      BY <3>1, <3>2
  <2> HIDE DEF start, rows
  <2> QED
    BY <2>1 DEF Drawing!TruncatedRows, Drawing!Rows, Drawing!iLineBytes, Bytes
<1> QED
  BY <1>4, <1>5

\* The rectangles of the functions that fill.
LEMMA FillsAsNamed ==
    ASSUME DrawInv, NEW c \in Colours
    PROVE  /\ Drawing!ClearVideoMem(c) => Drawing!Filled(Points, c)
           /\ \A r \in Drawing!Areas(Width, Height) :
                 Drawing!ClearVideoMemRegion(r[1], r[2], r[3], r[4], c)
                     /\ (iBpp = 8 \/ r[2] = r[4] \/ Drawing!Reachable) =>
                     Drawing!Filled((r[1] .. r[3]) \X (r[2] .. r[4]), c)
           /\ \A p \in Points :
                 Drawing!FBShowPixel(p[1], p[2], c) => Drawing!Filled({p}, c)
<1>0. Width \in Nat \ {0} /\ Height \in Nat \ {0}
  BY DrawingAssumption
<1>1. ASSUME NEW left \in Nat, NEW top \in Nat, NEW n \in Nat, NEW rows \in Nat,
             left + n <= Width, Drawing!Operation,
             Drawing!FillRows(Drawing!Rows(top * (Width * Bytes) + left * Bytes, rows), n, c),
             NEW area,
             \A p \in Points :
                 p \in area <=> p[1] - left \in 0 .. n - 1 /\ p[2] - top \in 0 .. rows - 1
      PROVE  Drawing!Filled(area, c)
  <2>1. \A p \in Points :
            Drawing!Later(p) =
                IF p[1] - left \in 0 .. n - 1 /\ p[2] - top \in 0 .. rows - 1
                THEN [k \in 0 .. Bytes - 1 |-> Drawing!PixelByte(c, k)]
                ELSE Drawing!Now(p)
    BY <1>1, FilledIs
  <2> QED
    BY <1>1, <2>1 DEF Drawing!Filled, Points, Bytes
<1>2. ASSUME NEW p \in Points
      PROVE  p[1] \in 0 .. Width - 1 /\ p[2] \in 0 .. Height - 1 /\ p = <<p[1], p[2]>>
  BY DEF Points, Drawing!Points
<1>3. ASSUME Drawing!ClearVideoMem(c)
      PROVE  Drawing!Filled(Points, c)
  <2>1. Drawing!Operation /\ Drawing!FillRows(Drawing!Rows(0, Height), Width, c)
    BY <1>3 DEF Drawing!ClearVideoMem
  <2>2. 0 * (Width * Bytes) + 0 * Bytes = 0
    <3>1. Bytes \in Int
      BY <2>1, Canvas
    <3> QED
      BY <1>0, <3>1
  <2>3. Drawing!FillRows(Drawing!Rows(0 * (Width * Bytes) + 0 * Bytes, Height), Width, c)
    BY <2>1, <2>2
  <2>4. \A p \in Points :
            p \in Points <=> p[1] - 0 \in 0 .. Width - 1 /\ p[2] - 0 \in 0 .. Height - 1
    BY <1>0, <1>2
  <2> QED
    BY <1>0, <1>1, <2>1, <2>3, <2>4
<1>4. ASSUME NEW r \in Drawing!Areas(Width, Height),
             Drawing!ClearVideoMemRegion(r[1], r[2], r[3], r[4], c),
             iBpp = 8 \/ r[2] = r[4] \/ Drawing!Reachable
      PROVE  Drawing!Filled((r[1] .. r[3]) \X (r[2] .. r[4]), c)
  <2> DEFINE left == r[1]
             top == r[2]
             right == r[3]
             bottom == r[4]
             area == (left .. right) \X (top .. bottom)
  <2>1. /\ left \in 0 .. Width - 1 /\ top \in 0 .. Height - 1
        /\ right \in 0 .. Width - 1 /\ bottom \in 0 .. Height - 1
        /\ left <= right /\ top <= bottom
    BY DEF Drawing!Areas
  <2>2. Drawing!Operation
    BY <1>4 DEF Drawing!ClearVideoMemRegion
  <2>3. Drawing!FillRows(Drawing!Rows(top * (Width * Bytes) + left * Bytes, bottom - top + 1),
                         right - left + 1, c)
    <3>1. Drawing!FillRows(Drawing!RegionRows(left, top, bottom), right - left + 1, c)
      BY <1>4 DEF Drawing!ClearVideoMemRegion
    <3>2. iBpp = 8 \/ top = bottom \/ Drawing!Reachable
      BY <1>4
    <3>3. left \in Nat /\ top \in Nat /\ bottom \in Nat /\ left < Width /\ bottom < Height
      BY <1>0, <2>1
    <3> HIDE DEF left, top, right, bottom
    <3> QED
      BY <2>1, <2>2, <3>1, <3>2, <3>3, RegionIs
  <2> HIDE DEF left, top, right, bottom
  <2>4. ASSUME NEW p \in Points
        PROVE  p \in area <=> /\ p[1] - left \in 0 .. (right - left + 1) - 1
                              /\ p[2] - top \in 0 .. (bottom - top + 1) - 1
    <3>1. p[1] - left \in 0 .. (right - left + 1) - 1 <=> p[1] \in left .. right
      BY <1>2, <2>1
    <3>2. p[2] - top \in 0 .. (bottom - top + 1) - 1 <=> p[2] \in top .. bottom
      BY <1>2, <2>1
    <3>3. p \in area <=> p[1] \in left .. right /\ p[2] \in top .. bottom
      BY <1>2
    <3> QED
      BY <3>1, <3>2, <3>3
  <2>5. /\ left \in Nat /\ top \in Nat
        /\ right - left + 1 \in Nat /\ bottom - top + 1 \in Nat
        /\ left + (right - left + 1) <= Width
    BY <1>0, <2>1
  <2> HIDE DEF area
  <2>6. Drawing!Filled(area, c)
    BY <1>1, <2>2, <2>3, <2>4, <2>5
  <2> QED
    BY <2>6 DEF area, left, top, right, bottom
<1>5. ASSUME NEW p \in Points, Drawing!FBShowPixel(p[1], p[2], c)
      PROVE  Drawing!Filled({p}, c)
  <2> DEFINE x == p[1]
             y == p[2]
  <2>1. x \in 0 .. Width - 1 /\ y \in 0 .. Height - 1
    BY <1>2
  <2>2. Drawing!Operation
    BY <1>5 DEF Drawing!FBShowPixel
  <2>3. Drawing!FillRows(Drawing!Rows((Width * Bytes) * y + Bytes * x, 1), 1, c)
    BY <1>5 DEF Drawing!FBShowPixel, Drawing!iLineBytes, Bytes
  <2>4. p = <<x, y>>
    BY <1>2
  <2> HIDE DEF x, y
  <2>5. (Width * Bytes) * y + Bytes * x = y * (Width * Bytes) + x * Bytes
    <3>1. Bytes \in Int
      BY <2>2, Canvas
    <3> QED
      BY <1>0, <2>1, <3>1
  <2>6. Drawing!FillRows(Drawing!Rows(y * (Width * Bytes) + x * Bytes, 1), 1, c)
    BY <2>3, <2>5
  <2>7. ASSUME NEW o \in Points
        PROVE  o \in {p} <=> o[1] - x \in 0 .. 1 - 1 /\ o[2] - y \in 0 .. 1 - 1
    <3>1. o[1] - x \in 0 .. 1 - 1 <=> o[1] = x
      BY <1>2, <2>1
    <3>2. o[2] - y \in 0 .. 1 - 1 <=> o[2] = y
      BY <1>2, <2>1
    <3>3. o = <<o[1], o[2]>>
      BY <1>2
    <3>4. <<x, y>>[1] = x /\ <<x, y>>[2] = y
      OBVIOUS
    <3> QED
      BY <2>4, <3>1, <3>2, <3>3, <3>4
  <2>8. x \in Nat /\ y \in Nat /\ 1 \in Nat /\ x + 1 <= Width
    BY <1>0, <2>1
  <2> QED
    BY <1>1, <2>2, <2>6, <2>7, <2>8
<1> QED
  BY <1>3, <1>4, <1>5

\* The rectangles of the functions that copy.
LEMMA CopiesAsNamed ==
    ASSUME DrawInv
    PROVE  /\ \A x \in 0 .. Width - size[1], y \in 0 .. Height - size[2] :
                 Drawing!PicMerge(x, y) => Drawing!Placed(x, y, 0, 0, size[1], size[2])
           /\ \A r \in Drawing!Merges :
                 Drawing!PicMergeRegion(r[1], r[2], r[3], r[4], r[5], r[6]) =>
                     Drawing!Placed(r[3], r[4], r[1], r[2], r[5], r[6])
<1>0. Width \in Nat \ {0} /\ Height \in Nat \ {0}
  BY DrawingAssumption
<1>1. ASSUME NEW x \in 0 .. Width - size[1], NEW y \in 0 .. Height - size[2],
             Drawing!PicMerge(x, y)
      PROVE  Drawing!Placed(x, y, 0, 0, size[1], size[2])
  <2> DEFINE w == size[1]
             h == size[2]
  <2>1. Drawing!Operation
    BY <1>1 DEF Drawing!PicMerge
  <2>2. Drawing!CopyRows(y * (Width * Bytes) + x * Bytes, 0, h, w * Bytes)
    BY <1>1 DEF Drawing!PicMerge, Drawing!iLineBytes, Drawing!sourceLineBytes, Bytes
  <2>3. w \in Nat /\ h \in Nat /\ Bytes \in Int
    BY <2>1, Canvas
  <2>4. x \in Nat /\ y \in Nat /\ x + w <= Width
    <3> HIDE DEF w, h
    <3>1. x \in 0 .. Width - w /\ y \in 0 .. Height - h
      BY DEF w, h
    <3> QED
      BY <1>0, <2>3, <3>1
  <2>5. 0 = 0 * (size[1] * Bytes) + 0 * Bytes
    BY <2>3
  <2> HIDE DEF w, h
  <2>6. Drawing!Placed(x, y, 0, 0, w, h)
    BY <2>1, <2>2, <2>3, <2>4, <2>5, PlacedIs
  <2> QED
    BY <2>6 DEF w, h
<1>2. ASSUME NEW r \in Drawing!Merges,
             Drawing!PicMergeRegion(r[1], r[2], r[3], r[4], r[5], r[6])
      PROVE  Drawing!Placed(r[3], r[4], r[1], r[2], r[5], r[6])
  <2> DEFINE sx == r[1]
             sy == r[2]
             x == r[3]
             y == r[4]
             w == r[5]
             h == r[6]
             src == sy * (size[1] * Bytes) + sx * Bytes
  <2>1. Drawing!Operation
    BY <1>2 DEF Drawing!PicMergeRegion
  <2>2. Drawing!CopyRows(y * (Width * Bytes) + x * Bytes, src, h, w * Bytes)
    BY <1>2 DEF Drawing!PicMergeRegion, Drawing!iLineBytes, Drawing!sourceLineBytes, Bytes
  <2>3. /\ sx \in Nat /\ sy \in Nat /\ x \in Nat /\ y \in Nat /\ w \in Nat /\ h \in Nat
        /\ x + w <= Width
    BY DEF Drawing!Merges
  <2>4. src = sy * (size[1] * Bytes) + sx * Bytes
    OBVIOUS
  <2> HIDE DEF sx, sy, x, y, w, h, src
  <2>5. Drawing!Placed(x, y, sx, sy, w, h)
    BY <2>1, <2>2, <2>3, <2>4, PlacedIs
  <2> QED
    BY <2>5 DEF x, y, sx, sy, w, h
<1> QED
  BY <1>1, <1>2

\* Each drawing function changes the pixels its arguments name, to what they
\* name, and no other, for pictures of any size, at every depth.  Of
\* ClearVideoMemRegion it is proved where no address is truncated: at 8 bits,
\* for a single row, and in memory that an unsigned int can address.  (The
\* strides of disp_manager.c, fb.c, merge.c and zoom.c.)
THEOREM AlwaysDrawnAsNamed == LegacySpec => DrawnAsNamed
<1> DEFINE AsNamed ==
       Drawing!Operation =>
       /\ \A c \in Colours :
             /\ Drawing!ClearVideoMem(c) => Drawing!Filled(Points, c)
             /\ \A r \in Drawing!Areas(Width, Height) :
                   Drawing!ClearVideoMemRegion(r[1], r[2], r[3], r[4], c)
                       /\ (iBpp = 8 \/ r[2] = r[4] \/ Drawing!Reachable) =>
                           Drawing!Filled((r[1] .. r[3]) \X (r[2] .. r[4]), c)
             /\ \A p \in Points :
                   Drawing!FBShowPixel(p[1], p[2], c) => Drawing!Filled({p}, c)
       /\ \A x \in 0 .. Width - size[1], y \in 0 .. Height - size[2] :
             Drawing!PicMerge(x, y) => Drawing!Placed(x, y, 0, 0, size[1], size[2])
       /\ \A r \in Drawing!Merges :
             Drawing!PicMergeRegion(r[1], r[2], r[3], r[4], r[5], r[6]) =>
                 Drawing!Placed(r[3], r[4], r[1], r[2], r[5], r[6])
       /\ Drawing!PicZoom => Drawing!Scaled
<1>1. DrawInv => AsNamed
  BY FillsAsNamed, CopiesAsNamed, ScaledIs
<1>2. DrawnAsNamed <=> [][AsNamed]_(Drawing!vars)
  BY DEF DrawnAsNamed, Drawing!DrawnAsNamed, Points
<1>3. LegacySpec => []DrawInv
  BY DrawInit, DrawStep, PTL DEF LegacySpec
<1> HIDE DEF AsNamed
<1>4. DrawInv => [AsNamed]_(Drawing!vars)
  BY <1>1
<1> QED
  BY <1>2, <1>3, <1>4, PTL

-----------------------------------------------------------------------------
(* All three parts. *)

legacyVars == <<part, vars, drawVars, convertVars>>

\* The video memories and the conversion, whichever part is running.
LegacyInv == MemInv /\ ConvertInv

\* It holds in the initial states of all three parts,
LEMMA LegacyInitInv == LegacyInit => LegacyInv
<1> SUFFICES ASSUME LegacyInit
             PROVE  LegacyInv
  OBVIOUS
<1>1. MemInv
  <2>1. /\ iNum = -1 /\ stolen = FALSE /\ overlapped = FALSE
        /\ page = [c \in Clients |-> NoPage] /\ mem = [c \in Clients |-> 0]
        /\ doing = [c \in Clients |-> "nothing"]
        /\ pass = [c \in Clients |-> 0] /\ ptTmp = [c \in Clients |-> 0]
    BY DEF LegacyInit, Init
  <2>2. MemTypes
    <3>1. stolen \in BOOLEAN /\ overlapped \in BOOLEAN
      BY <2>1, Zenon
    <3>2. page \in [Clients -> Pages \union {NoPage}]
      BY <2>1
    <3>3. /\ mem \in [Clients -> Nat]
          /\ doing \in [Clients -> {"nothing", "looks", "found", "freed"}]
          /\ pass \in [Clients -> 0 .. 4] /\ ptTmp \in [Clients -> Nat]
          /\ \A c \in Clients : mem[c] = 0 /\ doing[c] = "nothing"
      BY <2>1
    <3>4. iNum \in Int /\ ~(iNum >= 0)
      BY <2>1
    <3> QED
      BY <2>1, <3>1, <3>2, <3>3, <3>4 DEF MemTypes
  <2>3. CallsKnown /\ FrameBufferLast
    BY <2>1 DEF CallsKnown, FrameBufferLast
  <2>4. SerialInv
    BY <2>1 DEF SerialInv, OneCall, HeldIsBusy, LookedOver
  <2> QED
    BY <2>1, <2>2, <2>3, <2>4 DEF MemInv, HeldInv, SelectedFirst, PicturesKnown
<1>2. ASSUME out = <<>>
      PROVE  PixelsKept
  BY <1>2 DEF PixelsKept
<1>3. ASSUME NothingToConvert, part # "converting"
      PROVE  ConvertInv
  BY <1>2, <1>3 DEF NothingToConvert, ConvertInv, ChosenFits, NULL, Converting!NULL
<1>4. ASSUME part = "converting", Converting!Init
      PROVE  ConvertInv
  <2>1. out = <<>> /\ chosen = Converting!NULL
    BY <1>4 DEF Converting!Init
  <2>2. Chain(list)
    <3> DEFINE next == [n \in Converting!Converters |-> Converting!NULL]
    <3>1. list = [head |-> Converting!NULL, next |-> next] /\ DOMAIN next = Converting!Converters
      BY <1>4 DEF Converting!Init, Converting!NoneRegistered
    <3> HIDE DEF next
    <3> QED
      BY <3>1 DEF Chain
  <2>3. Frame(colours)
    <3>1. PICK rgb \in Levels \X Levels \X Levels, more \in {0, 20} :
              /\ \A i \in 1 .. 3 : rgb[i] + more <= 255
              /\ colours = <<rgb, [i \in 1 .. 3 |-> rgb[i] + more]>>
      BY <1>4 DEF Converting!Init
    <3>2. rgb[1] \in Byte /\ rgb[2] \in Byte /\ rgb[3] \in Byte
      BY LevelsAssumption DEF Byte
    <3>3. rgb \in Pixel
      <4>1. rgb = <<rgb[1], rgb[2], rgb[3]>>
        OBVIOUS
      <4> QED
        BY <3>2, <4>1 DEF Pixel
    <3>4. [i \in 1 .. 3 |-> rgb[i] + more] \in Pixel
      BY <3>1, <3>3 DEF Pixel, Byte
    <3> QED
      BY <3>1, <3>3, <3>4 DEF Frame
  <2> QED
    BY <1>2, <1>4, <2>1, <2>2, <2>3 DEF ConvertInv, ChosenFits
<1> QED
  BY <1>1, <1>3, <1>4 DEF LegacyInit, LegacyInv

\* and every step of any part keeps it.
LEMMA LegacyStep == LegacyInv /\ [LegacyNext]_legacyVars => LegacyInv'
<1> SUFFICES ASSUME LegacyInv, [LegacyNext]_legacyVars
             PROVE  LegacyInv'
  OBVIOUS
<1>0. MemInv /\ ConvertInv
  BY DEF LegacyInv
<1>1. ASSUME [Next]_vars
      PROVE  MemInv'
  <2>1. HeldInv' /\ SerialInv' /\ PicturesKnown'
    BY <1>0, <1>1, HeldStep, SerialStep, PicturesStep DEF MemInv
  <2>2. SelectedFirst'
    <3>1. HeldInv /\ SelectedFirst
      BY <1>0 DEF MemInv
    <3>2. ASSUME UNCHANGED <<iNum, selected>>
          PROVE  SelectedFirst'
      BY <3>1, <3>2 DEF SelectedFirst
    <3>3. ASSUME NEW name \in {"fb", "lcd"}, SelectAndInitDefaultDispDev(name)
          PROVE  SelectedFirst'
      BY <3>1, <3>3 DEF SelectAndInitDefaultDispDev, SelectedFirst
    <3>4. ASSUME NEW n \in 0 .. MaxNum, AllocVideoMem(n)
          PROVE  SelectedFirst'
      BY <3>4 DEF AllocVideoMem, SelectedFirst, deviceVars
    <3>5. ASSUME NEW c \in Clients,
                 \/ \E p \in Pages : GetVideoMem(c, p)
                 \/ Look(c) \/ NextPass(c) \/ Claim(c) \/ TakeHead(c)
                 \/ Draw(c) \/ FlushPixelDatasToDev(c)
                 \/ PutVideoMem(c) \/ BlankPicture(c)
          PROVE  SelectedFirst'
      BY <3>2, <3>5 DEF GetVideoMem, Look, NextPass, Claim, TakeHead, Lend, Draw,
                        FlushPixelDatasToDev, PutVideoMem, BlankPicture, deviceVars
    <3> QED
      BY <1>1, <3>2, <3>3, <3>4, <3>5 DEF Next, vars, DisplayInit, deviceVars
  <2> QED
    BY <2>1, <2>2 DEF MemInv
<1>2. ASSUME UNCHANGED <<part, convertVars>>
      PROVE  ConvertInv'
  BY <1>0, <1>2 DEF ConvertInv, convertVars, Frame, Chain, ChosenFits,
     Converting!isSupportYuv2Rgb, Converting!isSupportMjpeg2Rgb, Converting!isSupportRgb2Rgb,
     PixelsKept, PixelKept, Converting!Channels, Converting!Lost
<1>3. CASE UseMemories
  BY <1>1, <1>2, <1>3 DEF UseMemories, LegacyInv
<1>4. CASE DrawOnce
  BY <1>1, <1>2, <1>4 DEF DrawOnce, LegacyInv
<1>5. CASE ConvertOne
  <2>1. MemInv'
    BY <1>1, <1>5 DEF ConvertOne
  <2> QED
    BY <1>0, <1>5, <2>1, ConvertStep DEF LegacyInv
<1>6. CASE UNCHANGED legacyVars
  BY <1>1, <1>2, <1>6 DEF legacyVars, LegacyInv
<1> QED
  BY <1>3, <1>4, <1>5, <1>6 DEF LegacyNext

\* The framebuffer's memory is the last of the list, and nobody's if there are
\* others.
LEMMA LastIsKept == LegacyInv => DeviceMemKept
<1> SUFFICES ASSUME LegacyInv, iNum >= 1, NEW c \in Clients
             PROVE  mem[c] # GetDevVideoMem
  BY DEF DeviceMemKept
<1>1. MemTypes /\ FrameBufferLast
  BY DEF LegacyInv, MemInv, HeldInv
<1>2. iNum \in Nat /\ mems \in [Positions -> VideoMemory]
  BY <1>1 DEF MemTypes
<1>3. GetDevVideoMem = iNum + 1
  <2>1. {m \in DOMAIN mems : mems[m].bDevFrameBuffer = 1} = {iNum + 1}
    BY <1>1, <1>2 DEF FrameBufferLast, Positions
  <2>2. Min({iNum + 1}) \in {iNum + 1}
    BY <1>2, LeastOf
  <2> QED
    BY <2>1, <2>2 DEF GetDevVideoMem
<1> QED
  BY <1>1, <1>2, <1>3 DEF FrameBufferLast

\* If there are caches, no client ever works in the framebuffer's own memory,
\* for any number of caches and any pages, and however the clients' calls
\* overlap: that memory is never free, so that no pass claims it, and never the
\* head of the list.  (AllocVideoMem and the four passes of GetVideoMem.)
THEOREM DeviceMemAlwaysKept == LegacySpec => []DeviceMemKept
<1>1. LegacySpec => []LegacyInv
  BY LegacyInitInv, LegacyStep, PTL DEF LegacySpec, legacyVars
<1> QED
  BY <1>1, LastIsKept, PTL

\* The page that is flushed is the page that is shown, for any number of
\* memories and any pages, if no two calls overlapped, and if there is a memory
\* for each client or none was taken from one.  (GetVideoMem, PutVideoMem and
\* FBShowPage.)
THEOREM PageAlwaysShown == LegacySpec => PageShown
<1>1. LegacySpec => []LegacyInv
  BY LegacyInitInv, LegacyStep, PTL DEF LegacySpec, legacyVars
<1> DEFINE Shown == \A c \in Clients :
                      FlushPixelDatasToDev(c) /\ iXres # 0 /\ ~overlapped
                         /\ (stolen => iNum >= Cardinality(Clients)) =>
                             screen' = page[c]
<1>2. Cardinality(Clients) = 2
  <2>1. Cardinality({"cur"}) = 1 /\ IsFiniteSet({"cur"})
    BY FS_Singleton
  <2>2. {"cur"} \union {"prepare"} = Clients
    BY DEF Clients
  <2> QED
    BY <2>1, <2>2, FS_AddElement
<1>3. LegacyInv => Shown
  <2> SUFFICES ASSUME LegacyInv, NEW c \in Clients, FlushPixelDatasToDev(c), iXres # 0,
                      ~overlapped, stolen => iNum >= 2
               PROVE  screen' = page[c]
    BY <1>2
  <2>1. MemTypes /\ HeldInv /\ HeldIsBusy /\ PicturesKnown
    BY DEF LegacyInv, MemInv, HeldInv, SerialInv
  <2>2. mem[c] # 0 /\ Generated(mem[c])
    BY DEF FlushPixelDatasToDev, Generated
  <2>3. overlapped = FALSE /\ stolen \in BOOLEAN
    BY <2>1 DEF MemTypes
  <2>4. Quiet
    BY <2>1, <2>2, <2>3, HeldIs DEF HeldIsBusy, Quiet
  <2>5. /\ Content(mem[c]) = page[c]
        /\ mems[mem[c]].bDevFrameBuffer = IF mem[c] = iNum + 1 THEN 1 ELSE 0
    BY <2>1, <2>2, <2>4, HeldIs DEF PicturesKnown
  <2> QED
    BY <2>5 DEF FlushPixelDatasToDev, Content
<1> HIDE DEF Shown
<1>4. PageShown <=> [][Shown]_vars
  BY DEF PageShown, Shown
<1>5. []LegacyInv => [][Shown]_vars
  BY <1>3, PTL
<1> QED
  BY <1>1, <1>4, <1>5, PTL

\* A picture that a Convert said it made is the one that went in, to the
\* precision of the formats, for every colour of it: whichever converter the
\* formats select, and whatever failed before.  Of YUYV that is its red and
\* blue; of green nothing is proved, and nothing of memory that was freed.
\* (The tables of color.c, their byte sums and clipping, the packing, and the
\* error exits of mjpeg2rgb.c.)
THEOREM ColoursAlwaysKept == LegacySpec => []PictureKept
<1>1. LegacySpec => []LegacyInv
  BY LegacyInitInv, LegacyStep, PTL DEF LegacySpec, legacyVars
<1>2. PixelsKept => PictureKept
  BY DEF PixelsKept, PixelKept, PictureKept, Converting!PictureKept
<1>3. LegacyInv => PixelsKept
  BY DEF LegacyInv, ConvertInv
<1> QED
  BY <1>1, <1>2, <1>3, PTL

=============================================================================
