------------------------------ MODULE VideoMem ------------------------------
(***************************************************************************)
(* display/disp_manager.c over display/fb.c: registering and selecting the *)
(* framebuffer device, the cache of video memories, and showing a page.    *)
(*                                                                         *)
(* Nothing in the program calls these functions any more, so the clients   *)
(* are external and follow include/disp_manager.h: "cur" must show a page  *)
(* now (bCur is 1) and "prepare" draws pages in advance (bCur is 0).  Each *)
(* holds one memory at a time, draws only what is not PS_GENERATED, and    *)
(* gives the memory back.  They are two threads, and nothing takes a lock: *)
(* GetVideoMem looks at one node of the list after the other and claims    *)
(* what it found in a step of its own, PutVideoMem frees a memory before   *)
(* it blanks it.  (The stores of one claim are one step.)                  *)
(***************************************************************************)
EXTENDS Integers, Sequences, FiniteSetsExt, Registry

CONSTANTS
    MaxNum,                 \* bound: iNum of AllocVideoMem
    PagesWithID,            \* pages that have an iID of their own
    PagesWithoutID          \* pages whose iID is -1

ASSUME VideoMemAssumption ==
    /\ MaxNum \in Nat
    /\ PagesWithID \union PagesWithoutID \subseteq Nat \ {0}

NoPage == 0
Pages == PagesWithID \union PagesWithoutID

iIDOf(page) == IF page \in PagesWithID THEN page ELSE -1

Clients == {"cur", "prepare"}

VARIABLES
    oprs, selected,         \* g_ptDispOprHead with every ptNext; g_ptDefaultDispOpr
    iXres,                  \* of the framebuffer's T_DispOpr: 0 until DeviceInit fills it
    screen,                 \* what is in pucDispMem
    iNum,                   \* what AllocVideoMem allocated; -1 before
    mems,                   \* the list at g_ptVideoMemHead
    pixels,                 \* by position in it, what a cache memory holds
    page, mem,              \* by client, the page it works on and the memory it got
    doing,                  \* by client: "looks", "found" in GetVideoMem, "freed" in PutVideoMem
    pass, ptTmp,            \* by client, where GetVideoMem is
    stolen, overlapped      \* history: was a memory in use given out again?  Did a call of
                            \* one client begin within a call of the other?

deviceVars == <<oprs, selected, iXres>>
callVars == <<doing, pass, ptTmp>>
clientVars == <<page, mem, callVars>>
history == <<stolen, overlapped>>
vars == <<deviceVars, screen, iNum, mems, pixels, clientVars, history>>

Init ==
    /\ oprs = NoneRegistered({"fb"})
    /\ selected = NULL
    /\ iXres = 0
    /\ screen = NoPage
    /\ iNum = -1
    /\ mems = <<>>
    /\ pixels = <<>>
    /\ page = [c \in Clients |-> NoPage]
    /\ mem = [c \in Clients |-> 0]
    /\ doing = [c \in Clients |-> "nothing"]
    /\ pass = [c \in Clients |-> 0]
    /\ ptTmp = [c \in Clients |-> 0]
    /\ stolen = FALSE
    /\ overlapped = FALSE

\* FBInit registers the one device there is.
DisplayInit ==
    /\ Registered(oprs) = {}
    /\ oprs' = Register(oprs, "fb")
    /\ UNCHANGED <<selected, iXres, screen, iNum, mems, pixels, clientVars, history>>

\* FBDeviceInit fills in the resolution, or fails before it does.
FBDeviceInit == iXres' \in {0, 1}

\* FBCleanScreen(0); it knows no screen of zero bits per pixel.
FBCleanScreen == screen' = IF iXres' = 0 THEN screen ELSE NoPage

\* What FBDeviceInit returned is ignored.
SelectAndInitDefaultDispDev(name) ==
    /\ selected = NULL
    /\ Registered(oprs) # {}
    /\ selected' = FirstNode(oprs, {name})
    /\ IF selected' = NULL
       THEN UNCHANGED <<iXres, screen>>
       ELSE FBDeviceInit /\ FBCleanScreen
    /\ UNCHANGED <<oprs, iNum, mems, pixels, clientVars, history>>

FrameBufferMem(state) ==
    [iID |-> 0, bDevFrameBuffer |-> 1, eVideoMemState |-> state, ePicState |-> "PS_BLANK"]

CacheMem == [FrameBufferMem("VMS_FREE") EXCEPT !.bDevFrameBuffer = 0]

Failed == -2

\* Faulty: does not reserve the framebuffer's own memory.
AllocReservesNothing(n) ==
    /\ selected # NULL
    /\ iNum = -1
    /\ iNum' = n
    /\ mems' = [i \in 1 .. n |-> CacheMem] \o <<FrameBufferMem("VMS_FREE")>>
    /\ pixels' = [i \in DOMAIN mems' |-> NoPage]
    /\ UNCHANGED <<deviceVars, screen, clientVars, history>>

\* Each memory goes to the front of the list, the framebuffer is the first to.
\* If n caches are asked for, its own memory is never free.  When malloc fails
\* the call returns -1, with the list as far as it got.
AllocVideoMem(n) ==
    /\ selected # NULL
    /\ iNum = -1
    /\ LET state == IF n = 0 THEN "VMS_FREE" ELSE "VMS_USED_FOR_CUR"
       IN  \/ iNum' = Failed /\ UNCHANGED mems
           \/ \E k \in 0 .. n :
                 /\ iNum' = IF k = n THEN n ELSE Failed
                 /\ mems' = [i \in 1 .. k |-> CacheMem] \o <<FrameBufferMem(state)>>
    /\ pixels' = [i \in DOMAIN mems' |-> NoPage]
    /\ UNCHANGED <<deviceVars, screen, clientVars, history>>

Free(m) == mems[m].eVideoMemState = "VMS_FREE"

\* A client begins a call, within one of the other client or not.
BeginCall(c) ==
    /\ doing[c] = "nothing"
    /\ overlapped' = (overlapped \/ \E d \in Clients \ {c} : doing[d] # "nothing")

\* Client c leaves its call with memory m, or with none, for page p.
Return(c, m, p) ==
    /\ doing' = [doing EXCEPT ![c] = "nothing"]
    /\ pass' = [pass EXCEPT ![c] = 0]
    /\ ptTmp' = [ptTmp EXCEPT ![c] = 0]
    /\ mem' = [mem EXCEPT ![c] = m]
    /\ page' = [page EXCEPT ![c] = p]

GetVideoMem(c, p) ==
    /\ mem[c] = 0
    /\ iNum >= 0
    /\ BeginCall(c)
    /\ doing' = [doing EXCEPT ![c] = "looks"]
    /\ pass' = [pass EXCEPT ![c] = 1]
    /\ ptTmp' = [ptTmp EXCEPT ![c] = 1]
    /\ page' = [page EXCEPT ![c] = p]
    /\ UNCHANGED <<deviceVars, screen, iNum, mems, pixels, mem, stolen>>

\* The first pass wants a free memory with the page's ID, the second a free
\* blank one, the third a free one.
Suits(c, m) ==
    /\ Free(m)
    /\ pass[c] = 1 => mems[m].iID = iIDOf(page[c])
    /\ pass[c] = 2 => mems[m].ePicState = "PS_BLANK"

\* One turn of the loop of a pass.
Look(c) ==
    /\ doing[c] = "looks"
    /\ pass[c] <= 3
    /\ ptTmp[c] \in DOMAIN mems
    /\ IF Suits(c, ptTmp[c])
       THEN doing' = [doing EXCEPT ![c] = "found"] /\ UNCHANGED ptTmp
       ELSE ptTmp' = [ptTmp EXCEPT ![c] = @ + 1] /\ UNCHANGED doing
    /\ UNCHANGED <<deviceVars, screen, iNum, mems, pixels, page, mem, pass, history>>

\* The end of the list: the next pass starts at the head again.
NextPass(c) ==
    /\ doing[c] = "looks"
    /\ pass[c] <= 3
    /\ ptTmp[c] \notin DOMAIN mems
    /\ pass' = [pass EXCEPT ![c] = @ + 1]
    /\ ptTmp' = [ptTmp EXCEPT ![c] = 1]
    /\ UNCHANGED <<deviceVars, screen, iNum, mems, pixels, page, mem, doing, history>>

\* Client c gets memory m, whatever has become of it since it was looked at.
\* The first pass leaves its ID and its picture as they are, the second the
\* blank that it is.
Lend(c, m) ==
    /\ mems' = [mems EXCEPT
                    ![m].iID = IF pass[c] = 1 THEN @ ELSE iIDOf(page[c]),
                    ![m].ePicState = IF pass[c] <= 2 THEN @ ELSE "PS_BLANK",
                    ![m].eVideoMemState = IF c = "cur" THEN "VMS_USED_FOR_CUR"
                                          ELSE "VMS_USED_FOR_PREPARE"]
    /\ Return(c, m, page[c])
    /\ UNCHANGED <<deviceVars, screen, iNum, pixels, overlapped>>

Claim(c) ==
    /\ doing[c] = "found"
    /\ Lend(c, ptTmp[c])
    /\ UNCHANGED stolen

\* The fourth pass takes the head of the list, whatever its state, for bCur.
\* Without bCur the call returns NULL and the client gives the page up.
TakeHead(c) ==
    /\ doing[c] = "looks"
    /\ pass[c] = 4
    /\ IF c = "cur"
       THEN Lend(c, 1) /\ stolen' = TRUE
       ELSE /\ Return(c, 0, NoPage)
            /\ UNCHANGED <<deviceVars, screen, iNum, mems, pixels, history>>

\* The client draws its page, into the framebuffer if that is what it got.
Draw(c) ==
    /\ doing[c] = "nothing"
    /\ mem[c] # 0
    /\ mems[mem[c]].ePicState # "PS_GENERATED"
    /\ mems' = [mems EXCEPT ![mem[c]].ePicState = "PS_GENERATED"]
    /\ IF mems[mem[c]].bDevFrameBuffer = 1
       THEN screen' = page[c] /\ UNCHANGED pixels
       ELSE pixels' = [pixels EXCEPT ![mem[c]] = page[c]] /\ UNCHANGED screen
    /\ UNCHANGED <<deviceVars, iNum, clientVars, history>>

\* FBShowPage copies the memory to the framebuffer unless it is that already
\* (and copies nothing if the resolution is zero).
FlushPixelDatasToDev(c) ==
    /\ c = "cur"
    /\ doing[c] = "nothing"
    /\ mem[c] # 0
    /\ mems[mem[c]].ePicState = "PS_GENERATED"
    /\ screen' = IF mems[mem[c]].bDevFrameBuffer = 1 \/ iXres = 0 THEN screen
                 ELSE pixels[mem[c]]
    /\ UNCHANGED <<deviceVars, iNum, mems, pixels, clientVars, history>>

PutVideoMem(c) ==
    /\ mem[c] # 0
    /\ BeginCall(c)
    /\ mems' = [mems EXCEPT ![mem[c]].eVideoMemState = "VMS_FREE"]
    /\ doing' = [doing EXCEPT ![c] = "freed"]
    /\ UNCHANGED <<deviceVars, screen, iNum, pixels, page, mem, pass, ptTmp, stolen>>

\* Faulty: leaves ePicState as it is.
KeepPicture(c) ==
    /\ doing[c] = "freed"
    /\ Return(c, 0, NoPage)
    /\ UNCHANGED <<deviceVars, screen, iNum, mems, pixels, history>>

\* The rest of PutVideoMem: a memory of a page without an ID is blank again.
BlankPicture(c) ==
    /\ doing[c] = "freed"
    /\ mems' = [mems EXCEPT ![mem[c]].ePicState =
                    IF mems[mem[c]].iID = -1 THEN "PS_BLANK" ELSE @]
    /\ Return(c, 0, NoPage)
    /\ UNCHANGED <<deviceVars, screen, iNum, pixels, history>>

Next ==
    \/ DisplayInit
    \/ \E name \in {"fb", "lcd"} : SelectAndInitDefaultDispDev(name)
    \/ \E n \in 0 .. MaxNum : AllocVideoMem(n)
    \/ \E c \in Clients, p \in Pages : GetVideoMem(c, p)
    \/ \E c \in Clients :
          \/ Look(c) \/ NextPass(c) \/ Claim(c) \/ TakeHead(c)
          \/ Draw(c) \/ FlushPixelDatasToDev(c)
          \/ PutVideoMem(c) \/ BlankPicture(c)

Spec == Init /\ [][Next]_vars

-----------------------------------------------------------------------------

\* What GetDevVideoMem finds.
GetDevVideoMem == Min({m \in DOMAIN mems : mems[m].bDevFrameBuffer = 1})

\* A page that is flushed is the page that is shown, whether its memory was
\* drawn just now, was drawn in advance, or was found again by its ID, and
\* although memories change hands without being cleared.  It takes callers
\* that do not call at the same time, as no function locks the list, and a
\* memory for each of them, or luck: that none was taken from the other.
\* (GetVideoMem and PutVideoMem.)
PageShown ==
    [][\A c \in Clients :
          FlushPixelDatasToDev(c) /\ iXres # 0 /\ ~overlapped
             /\ (stolen => iNum >= Cardinality(Clients)) =>
                 screen' = page[c]]_vars

\* If there are caches, the framebuffer's own memory is nobody's, in whatever
\* order the clients' calls overlap, are found wanting and fall back on the
\* head of the list: what is on the screen is only what was flushed.
\* (AllocVideoMem, disp_manager.c:233-240, and GetVideoMem.)
DeviceMemKept ==
    iNum >= 1 => \A c \in Clients : mem[c] # GetDevVideoMem

=============================================================================
