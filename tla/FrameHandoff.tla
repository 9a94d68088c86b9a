---------------------------- MODULE FrameHandoff ----------------------------
(***************************************************************************)
(* How the camera program hands frames to the RTSP server: main's thread   *)
(* copies each frame of the encoder into the one itestBuffer and sets      *)
(* bUpdate (test_venc_rtsp.c); librtsp.c's SendFrameThread, while a client *)
(* is there, waits for bUpdate in test_GetFrame, takes the address, type   *)
(* and length, clears bUpdate and only then copies the frame.              *)
(*                                                                         *)
(* No lock guards any of it.  The accesses are taken in program order; the *)
(* compiler and the processor may do worse.  A memcpy is two steps: the    *)
(* buffer holds a beginning and a rest, each of some frame.  The encoder   *)
(* is external.  main's thread never gets to RTSP_Stop.                    *)
(***************************************************************************)
EXTENDS Naturals, Sequences

CONSTANTS
    MaxFrames,   \* bound: frames that the encoder delivers
    MaxClients   \* bound: clients at a time

Kinds == {"I", "P"}

VARIABLES
    main,    \* where main's thread is
    frame,   \* the last frame of the encoder, by number
    kinds,   \* whether each frame so far is an I frame: enH264EType
    buffer,  \* itestBuffer: whose bytes, length and kind it has, and bUpdate
    clients, \* stRtspInfo.client
    sender,  \* where SendFrameThread is, "off" before RTSP_Start
    taken,   \* videoFrame, while it is put together
    pushed   \* the AVFrame that PushFrame was given last

encoder == <<frame, kinds>>
vars == <<main, encoder, buffer, clients, sender, taken, pushed>>

Empty == [first |-> 0, rest |-> 0, lens |-> 0, kind |-> "P"]

\* RTSP_Init has run, and test_frame_Start; a static buffer is zero.
Init == /\ main = "start" /\ sender = "off"
        /\ frame = 0 /\ kinds = <<>>
        /\ buffer = [first |-> 0, rest |-> 0, lens |-> 0, kind |-> "P",
                     update |-> FALSE]
        /\ clients = 0
        /\ taken = Empty /\ pushed = Empty

-----------------------------------------------------------------------------
(* main.                                                                   *)

RtspStart ==
    /\ main = "start"
    /\ main' = "header" /\ sender' = "test"
    /\ UNCHANGED <<encoder, buffer, clients, taken, pushed>>

\* The SPS and PPS are fetched once; if that fails, main returns, and the
\* process with its threads is gone.
GetHeader ==
    /\ main = "header"
    /\ \/ main' = "get" /\ UNCHANGED sender
       \/ main' = "gone" /\ sender' = "gone"
    /\ UNCHANGED <<encoder, buffer, clients, taken, pushed>>

\* AW_MPI_VENC_GetStream waits for a frame; a failed call is made again.
GetStream ==
    /\ main = "get" /\ frame < MaxFrames
    /\ \E k \in Kinds : kinds' = Append(kinds, k)
    /\ frame' = frame + 1
    /\ main' = "first"
    /\ UNCHANGED <<buffer, clients, sender, taken, pushed>>

\* One store of main's thread to the buffer.
Store(at, field, value, next) ==
    /\ main = at
    /\ buffer' = [buffer EXCEPT ![field] = value]
    /\ main' = next
    /\ UNCHANGED <<encoder, clients, sender, taken, pushed>>

\* An I frame begins with the SPS and PPS.
StoreFirst  == Store("first", "first", frame, "rest")
StoreRest   == Store("rest", "rest", frame, "lens")
StoreLens   == Store("lens", "lens", frame, "kind")
StoreKind   == Store("kind", "kind", kinds[frame], "update")

\* The frame is released; whether that works changes nothing.
StoreUpdate == Store("update", "update", TRUE, "get")

-----------------------------------------------------------------------------
(* The callbacks, on the server's loop thread.                             *)

ClientConnects ==
    /\ main # "gone" /\ clients < MaxClients
    /\ clients' = clients + 1
    /\ UNCHANGED <<main, encoder, buffer, sender, taken, pushed>>

ClientLeaves ==
    /\ main # "gone" /\ clients > 0
    /\ clients' = clients - 1
    /\ UNCHANGED <<main, encoder, buffer, sender, taken, pushed>>

-----------------------------------------------------------------------------
(* SendFrameThread.                                                        *)

Sends(at, next) ==
    /\ sender = at /\ sender' = next
    /\ UNCHANGED <<main, encoder, clients>>

\* Without a client the thread sleeps and tests again.
TestClients == /\ Sends("test", "poll") /\ clients > 0
               /\ UNCHANGED <<buffer, taken, pushed>>

\* test_GetFrame from here to ClearUpdate.
PollUpdate == /\ Sends("poll", "kind") /\ buffer.update
              /\ UNCHANGED <<buffer, taken, pushed>>

\* One load of the frame thread.
Load(at, field, next) == /\ Sends(at, next)
                         /\ taken' = [taken EXCEPT ![field] = buffer[field]]
                         /\ UNCHANGED <<buffer, pushed>>

LoadKind == Load("kind", "kind", "lens")
LoadLens == Load("lens", "lens", "clear")

ClearUpdate == /\ Sends("clear", "first")
               /\ buffer' = [buffer EXCEPT !.update = FALSE]
               /\ UNCHANGED <<taken, pushed>>

\* The memcpy from itestBuffer.buffer, back in SendFrameThread.
LoadFirst == Load("first", "first", "rest")
LoadRest  == Load("rest", "rest", "push")

PushFrame == /\ Sends("push", "test")
             /\ pushed' = taken /\ taken' = Empty
             /\ UNCHANGED buffer

-----------------------------------------------------------------------------
Next == \/ RtspStart \/ GetHeader \/ GetStream
        \/ StoreFirst \/ StoreRest \/ StoreLens \/ StoreKind \/ StoreUpdate
        \/ ClientConnects \/ ClientLeaves
        \/ TestClients \/ PollUpdate \/ LoadKind \/ LoadLens \/ ClearUpdate
        \/ LoadFirst \/ LoadRest \/ PushFrame

Spec == Init /\ [][Next]_vars

-----------------------------------------------------------------------------
\* "Get one frame of H264, package it" says SendFrameThread of what it pushes:
\* all bytes, the length and the type are those of one frame (test_GetFrame
\* answers an address, and the copy comes after bUpdate is cleared).
FramesAreWhole ==
    pushed # Empty =>
        /\ pushed.first = pushed.lens /\ pushed.rest = pushed.lens
        /\ pushed.kind = kinds[pushed.lens]
=============================================================================
