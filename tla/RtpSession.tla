----------------------------- MODULE RtpSession -----------------------------
(***************************************************************************)
(* Audio and video of a LAN call: src/src/app/udp_talk/                    *)
(* udp_talk_transport.c on the ring of src/src/drivers/share_memory.c.     *)
(*                                                                         *)
(* The LAN machine's thread builds a connection: a ring of buffers if      *)
(* there is none, a thread that receives (RTP) and one that sends (SPI).   *)
(* The RTP thread stores video frames in the ring, the display's decoder   *)
(* thread takes them, and the video machine's thread closes: it waits for  *)
(* the RTP thread, wakes whoever waits for the ring, waits for the SPI     *)
(* thread and frees the ring.  Nothing is locked: two semaphores count     *)
(* free and stored buffers, and WriteCnt, which the decoder tests before   *)
(* it waits, is counted up and down by two threads.                        *)
(*                                                                         *)
(* Frames of a ring are numbered as they are stored.  The choice of frames *)
(* to decode (needDecode) and the sound, which passes by the ring, are     *)
(* left out, and so is the ring between processes.                         *)
(***************************************************************************)
EXTENDS Integers, FiniteSets

CONSTANTS
  MallocCnt,    \* buffers of the ring, 2 in the code
  MaxFrames,    \* bound: frames stored in one ring
  MaxConnects   \* bound: connections that are built

ASSUME RtpAssumption ==
  /\ MallocCnt \in Nat \ {0}
  /\ MaxFrames \in Nat
  /\ MaxConnects \in Nat

Connects == 1 .. MaxConnects
Indexes  == 0 .. MallocCnt - 1
None     == -1                    \* no buffer: pBuf is NULL

VARIABLES
  created,                \* RtpDcMem is not NULL
  GetSem, SaveSem, GetIndex, SaveIndex, WriteCnt, Terminate,
  Buf,                    \* the frame in each buffer, 0 if its size is 0
  RTPTerminate, RTPThreadExit,
  rtp,                    \* the RTP threads: where they are, what they hold
  spi,                    \* SPI threads that run, by connection
  SPITerminate, SPIThreadExit,
  reader,                 \* the decoder thread in rtpGetVideo
  builder, closer,        \* rtpBuildConnect and rtpClose: where they are
  connects,               \* connections built so far
  stored, taken,          \* frames of this ring so far (history)
  overlapped,             \* a connection was built before the last was closed
  freed                   \* the ring was freed while the decoder used it

indexes  == <<GetIndex, SaveIndex>>
ring     == <<created, GetSem, SaveSem, indexes, WriteCnt, Terminate, Buf>>
flags    == <<RTPTerminate, RTPThreadExit, SPITerminate, SPIThreadExit>>
control  == <<builder, closer, connects, spi>>
hist     == <<overlapped, freed>>
vars     == <<ring, flags, rtp, reader, control, stored, taken, hist>>

Thread(pc, slot, size, seen) == [pc |-> pc, slot |-> slot, size |-> size, seen |-> seen]
At(pc) == Thread(pc, None, 0, 0)
To(t, pc) == Thread(pc, t.slot, t.size, t.seen)
Saw(t, n) == Thread("count", t.slot, t.size, n)

\* CreateShareMemory
Empty(bufs, get, save) ==
  /\ bufs = [i \in Indexes |-> 0]
  /\ get = 0 /\ save = MallocCnt

Init ==
  /\ created = FALSE
  /\ Empty(Buf, GetSem, SaveSem)
  /\ GetIndex = 0 /\ SaveIndex = 0 /\ WriteCnt = 0 /\ Terminate = FALSE
  /\ RTPTerminate = FALSE /\ SPITerminate = FALSE
  /\ RTPThreadExit = TRUE /\ SPIThreadExit = TRUE
  /\ rtp = [c \in Connects |-> At("none")]
  /\ spi = {}
  /\ reader = At("idle")
  /\ builder = "idle" /\ closer = "idle" /\ connects = 0
  /\ stored = 0 /\ taken = 0
  /\ overlapped = FALSE /\ freed = FALSE

\* Mutant of NextIndex: the index does not wrap.
NextIndexUnwrapped(i) == i + 1

NextIndex(i) == (i + 1) % MallocCnt

-----------------------------------------------------------------------------
(* rtpBuildConnect                                                         *)

Living == {c \in Connects : rtp[c].pc \notin {"none", "done"}}

\* A ring that is still there is used again as it is.
CreateRing ==
  IF created
  THEN UNCHANGED <<ring, stored, taken>>
  ELSE /\ created' = TRUE
       /\ Empty(Buf', GetSem', SaveSem')
       /\ GetIndex' = 0 /\ SaveIndex' = 0 /\ WriteCnt' = 0 /\ Terminate' = FALSE
       /\ stored' = 0 /\ taken' = 0

BuildConnect ==
  /\ builder = "idle"
  /\ connects < MaxConnects
  /\ CreateRing
  /\ builder' = "rtp"
  /\ connects' = connects + 1
  /\ overlapped' = (overlapped \/ created \/ closer # "idle" \/ Living # {} \/ spi # {})
  /\ UNCHANGED <<flags, rtp, spi, reader, closer, freed>>

RtpThreadCreate ==
  /\ builder = "rtp"
  /\ RTPTerminate' = FALSE
  /\ RTPThreadExit' = FALSE
  /\ rtp' = [rtp EXCEPT ![connects] = At("loop")]
  /\ builder' = "spi"
  /\ UNCHANGED <<ring, SPITerminate, SPIThreadExit, reader, closer, connects, spi,
                 stored, taken, hist>>

SpiThreadCreate ==
  /\ builder = "spi"
  /\ SPITerminate' = FALSE
  /\ SPIThreadExit' = FALSE
  /\ spi' = spi \cup {connects}
  /\ builder' = "idle"
  /\ UNCHANGED <<ring, RTPTerminate, RTPThreadExit, rtp, reader, closer, connects,
                 stored, taken, hist>>

Builder == BuildConnect \/ RtpThreadCreate \/ SpiThreadCreate

-----------------------------------------------------------------------------
(* rtpThreadExecute: the connection's RTP thread                           *)

\* A step of an RTP thread touches no flag but RTPThreadExit.
RtpStep == UNCHANGED <<created, SaveSem, GetIndex, Terminate, RTPTerminate, SPITerminate,
                       SPIThreadExit, reader, control, taken, hist>>

RtpAbort(c) ==
  /\ rtp[c].pc = "loop"
  /\ ~RTPTerminate
  /\ rtp' = [rtp EXCEPT ![c] = At(IF created THEN "save" ELSE "exit")]
  /\ RtpStep
  /\ UNCHANGED <<GetSem, SaveIndex, WriteCnt, Buf, RTPThreadExit, stored>>

\* decodeVideo up to the semaphore in SaveStart.
RtpReceive(c) ==
  /\ rtp[c].pc = "loop"
  /\ ~RTPTerminate
  /\ created
  /\ stored < MaxFrames
  /\ rtp' = [rtp EXCEPT ![c] = IF Terminate THEN Thread("save", None, 1, 0)
                               ELSE Thread("wait", None, 1, 0)]
  /\ RtpStep
  /\ UNCHANGED <<GetSem, SaveIndex, WriteCnt, Buf, RTPThreadExit, stored>>

RtpTerminated(c) ==
  /\ rtp[c].pc = "loop"
  /\ RTPTerminate
  /\ rtp' = [rtp EXCEPT ![c] = At("exit")]
  /\ RtpStep
  /\ UNCHANGED <<GetSem, SaveIndex, WriteCnt, Buf, RTPThreadExit, stored>>

\* Mutant of SaveStart: the semaphore is not waited for.
SaveStartUnwaited(c) ==
  /\ rtp[c].pc = "wait"
  /\ rtp' = [rtp EXCEPT ![c] = Thread("copy", SaveIndex, 1, 0)]
  /\ UNCHANGED <<ring, flags, reader, control, stored, taken, hist>>

\* SaveStart has a free buffer; memcpy to it begins.
SaveStart(c) ==
  /\ rtp[c].pc = "wait"
  /\ SaveSem > 0
  /\ SaveSem' = SaveSem - 1
  /\ rtp' = [rtp EXCEPT ![c] = Thread("copy", SaveIndex, 1, 0)]
  /\ UNCHANGED <<created, GetSem, indexes, WriteCnt, Terminate, Buf, flags, reader,
                 control, stored, taken, hist>>

Copied(c) ==
  /\ rtp[c].pc = "copy"
  /\ stored' = stored + 1
  /\ Buf' = [Buf EXCEPT ![rtp[c].slot] = stored + 1]
  /\ rtp' = [rtp EXCEPT ![c] = To(rtp[c], "save")]
  /\ RtpStep
  /\ UNCHANGED <<GetSem, SaveIndex, WriteCnt, RTPThreadExit>>

\* SaveEnd: WriteCnt is read and written back in two steps.
SaveEnd(c) ==
  /\ rtp[c].pc = "save"
  /\ rtp' = [rtp EXCEPT ![c] = Saw(rtp[c], WriteCnt)]
  /\ RtpStep
  /\ UNCHANGED <<GetSem, SaveIndex, WriteCnt, Buf, RTPThreadExit, stored>>

\* After an abort the size of the buffer at SaveIndex is cleared.
SaveCount(c) ==
  /\ rtp[c].pc = "count"
  /\ WriteCnt' = IF rtp[c].seen < MallocCnt THEN rtp[c].seen + 1 ELSE WriteCnt
  /\ Buf' = IF rtp[c].size = 0 THEN [Buf EXCEPT ![SaveIndex] = 0] ELSE Buf
  /\ rtp' = [rtp EXCEPT ![c] = To(rtp[c], "post")]
  /\ RtpStep
  /\ UNCHANGED <<GetSem, SaveIndex, RTPThreadExit, stored>>

SavePost(c) ==
  /\ rtp[c].pc = "post"
  /\ GetSem' = GetSem + 1
  /\ rtp' = [rtp EXCEPT ![c] = To(rtp[c], "index")]
  /\ RtpStep
  /\ UNCHANGED <<SaveIndex, WriteCnt, Buf, RTPThreadExit, stored>>

SaveNext(c) ==
  /\ rtp[c].pc = "index"
  /\ SaveIndex' = NextIndex(SaveIndex)
  /\ rtp' = [rtp EXCEPT ![c] = At(IF rtp[c].size = 0 THEN "exit" ELSE "loop")]
  /\ RtpStep
  /\ UNCHANGED <<GetSem, WriteCnt, Buf, RTPThreadExit, stored>>

\* Mutant of RtpExit: the exit is not reported.
RtpExitSilently(c) ==
  /\ rtp[c].pc = "exit"
  /\ rtp' = [rtp EXCEPT ![c] = At("done")]
  /\ RtpStep
  /\ UNCHANGED <<GetSem, SaveIndex, WriteCnt, Buf, RTPThreadExit, stored>>

RtpExit(c) ==
  /\ rtp[c].pc = "exit"
  /\ RTPThreadExit' = TRUE
  /\ rtp' = [rtp EXCEPT ![c] = At("done")]
  /\ RtpStep
  /\ UNCHANGED <<GetSem, SaveIndex, WriteCnt, Buf, stored>>

Rtp(c) ==
  \/ RtpAbort(c) \/ RtpReceive(c) \/ RtpTerminated(c) \/ RtpExit(c)
  \/ SaveStart(c) \/ Copied(c) \/ SaveEnd(c) \/ SaveCount(c) \/ SavePost(c) \/ SaveNext(c)

SpiExit(c) ==
  /\ c \in spi
  /\ SPITerminate
  /\ spi' = spi \ {c}
  /\ SPIThreadExit' = TRUE
  /\ UNCHANGED <<ring, RTPTerminate, RTPThreadExit, SPITerminate, rtp, reader, builder,
                 closer, connects, stored, taken, hist>>

-----------------------------------------------------------------------------
(* rtpGetVideo, in the display's decoder thread                            *)

\* A step of the decoder in the ring.
GetStep == UNCHANGED <<created, SaveIndex, Terminate, Buf, flags, rtp, control,
                       stored, hist>>

GetVideo ==
  /\ reader.pc = "idle"
  /\ created /\ WriteCnt > 0 /\ ~Terminate
  /\ reader' = At("wait")
  /\ GetStep
  /\ UNCHANGED <<GetSem, SaveSem, GetIndex, WriteCnt, taken>>

\* GetStart; a buffer of size 0 is not given back.
GetStart ==
  /\ reader.pc = "wait"
  /\ GetSem > 0
  /\ GetSem' = GetSem - 1
  /\ IF Buf[GetIndex] = 0
     THEN reader' = At("idle") /\ UNCHANGED taken
     ELSE reader' = Thread("read", GetIndex, 1, 0) /\ taken' = Buf[GetIndex]
  /\ GetStep
  /\ UNCHANGED <<SaveSem, GetIndex, WriteCnt>>

\* The frame is copied; GetEnd reads WriteCnt.
GetEnd ==
  /\ reader.pc = "read"
  /\ reader' = Saw(reader, WriteCnt)
  /\ GetStep
  /\ UNCHANGED <<GetSem, SaveSem, GetIndex, WriteCnt, taken>>

GetCount ==
  /\ reader.pc = "count"
  /\ WriteCnt' = IF reader.seen > 0 THEN reader.seen - 1 ELSE WriteCnt
  /\ reader' = To(reader, "post")
  /\ GetStep
  /\ UNCHANGED <<GetSem, SaveSem, GetIndex, taken>>

\* Mutant of GetPost: the permit goes back to the other semaphore.
GetPostCrossed ==
  /\ reader.pc = "post"
  /\ GetSem' = GetSem + 1
  /\ reader' = To(reader, "index")
  /\ GetStep
  /\ UNCHANGED <<SaveSem, GetIndex, WriteCnt, taken>>

GetPost ==
  /\ reader.pc = "post"
  /\ SaveSem' = SaveSem + 1
  /\ reader' = To(reader, "index")
  /\ GetStep
  /\ UNCHANGED <<GetSem, GetIndex, WriteCnt, taken>>

\* Mutant of GetNext: the index stays.
GetNextStuck ==
  /\ reader.pc = "index"
  /\ reader' = At("idle")
  /\ GetStep
  /\ UNCHANGED <<GetSem, SaveSem, GetIndex, WriteCnt, taken>>

GetNext ==
  /\ reader.pc = "index"
  /\ GetIndex' = NextIndex(GetIndex)
  /\ reader' = At("idle")
  /\ GetStep
  /\ UNCHANGED <<GetSem, SaveSem, WriteCnt, taken>>

Reader == GetVideo \/ GetStart \/ GetEnd \/ GetCount \/ GetPost \/ GetNext

-----------------------------------------------------------------------------
(* rtpClose                                                                *)

CloseBegin ==
  /\ closer = "idle"
  /\ closer' = "rtp"
  /\ RTPTerminate' = TRUE
  /\ overlapped' = (overlapped \/ builder # "idle")
  /\ UNCHANGED <<ring, RTPThreadExit, SPITerminate, SPIThreadExit, rtp, spi, reader,
                 builder, connects, stored, taken, freed>>

\* Mutant of CloseMemory: the RTP thread's exit is not waited for.
CloseMemoryAtOnce ==
  /\ closer = "rtp"
  /\ closer' = "spi"
  /\ Terminate' = (created \/ Terminate)
  /\ GetSem' = IF created THEN GetSem + MallocCnt ELSE GetSem
  /\ SaveSem' = IF created THEN SaveSem + MallocCnt ELSE SaveSem
  /\ SPITerminate' = TRUE
  /\ UNCHANGED <<created, indexes, WriteCnt, Buf, RTPTerminate, RTPThreadExit,
                 SPIThreadExit, rtp, spi, reader, builder, connects, stored, taken, hist>>

\* The RTP thread is gone: CloseMemory wakes the others.
CloseMemory ==
  /\ closer = "rtp"
  /\ RTPThreadExit
  /\ closer' = "spi"
  /\ Terminate' = (created \/ Terminate)
  /\ GetSem' = IF created THEN GetSem + MallocCnt ELSE GetSem
  /\ SaveSem' = IF created THEN SaveSem + MallocCnt ELSE SaveSem
  /\ SPITerminate' = TRUE
  /\ UNCHANGED <<created, indexes, WriteCnt, Buf, RTPTerminate, RTPThreadExit,
                 SPIThreadExit, rtp, spi, reader, builder, connects, stored, taken, hist>>

\* The ring is freed, whoever uses it.  What the decoder does in freed memory
\* is not followed: it is taken to return.
Destroy ==
  /\ closer = "spi"
  /\ SPIThreadExit
  /\ closer' = "idle"
  /\ created' = FALSE
  /\ freed' = (freed \/ reader.pc # "idle")
  /\ reader' = At("idle")
  /\ UNCHANGED <<GetSem, SaveSem, indexes, WriteCnt, Terminate, Buf, flags, rtp, spi,
                 builder, connects, stored, taken, overlapped>>

Closer == CloseBegin \/ CloseMemory \/ Destroy

-----------------------------------------------------------------------------
Next ==
  \/ Builder \/ Reader \/ Closer
  \/ \E c \in Connects : Rtp(c) \/ SpiExit(c)

Spec == Init /\ [][Next]_vars

\* What an RTP thread does without a packet of the peer.
RtpRun(c) ==
  \/ RtpTerminated(c) \/ RtpExit(c)
  \/ SaveStart(c) \/ Copied(c) \/ SaveEnd(c) \/ SaveCount(c) \/ SavePost(c) \/ SaveNext(c)

\* The threads run; the display decodes the peer's picture all the time
\* (threadH264Dec, every 10 ms); nobody has to close.
Fairness ==
  /\ WF_vars(RtpThreadCreate \/ SpiThreadCreate) /\ WF_vars(Reader)
  /\ WF_vars(CloseMemory \/ Destroy)
  /\ \A c \in Connects : WF_vars(RtpRun(c)) /\ WF_vars(SpiExit(c))

-----------------------------------------------------------------------------
(* Properties *)

PCs == {"none", "loop", "wait", "copy", "save", "count", "post", "index", "exit",
        "done", "idle", "read"}
Threads == [pc : PCs, slot : Indexes \cup {None}, size : {0, 1}, seen : Nat]

FlagTypes ==
  /\ created \in BOOLEAN /\ Terminate \in BOOLEAN
  /\ RTPTerminate \in BOOLEAN /\ RTPThreadExit \in BOOLEAN
  /\ SPITerminate \in BOOLEAN /\ SPIThreadExit \in BOOLEAN
  /\ overlapped \in BOOLEAN /\ freed \in BOOLEAN

ValueTypes ==
  /\ GetSem \in Nat /\ SaveSem \in Nat /\ WriteCnt \in Nat
  /\ GetIndex \in Indexes /\ SaveIndex \in Indexes
  /\ Buf \in [Indexes -> Nat]
  /\ rtp \in [Connects -> Threads] /\ reader \in Threads
  /\ spi \subseteq 0 .. MaxConnects
  /\ builder \in {"idle", "rtp", "spi"} /\ closer \in {"idle", "rtp", "spi"}
  /\ connects \in 0 .. MaxConnects
  /\ stored \in Nat /\ taken \in Nat

\* Types; the indexes never leave the buffers.
TypeOK == FlagTypes /\ ValueTypes

\* Two connections at once, or a ring freed under the decoder.
Disturbed == overlapped \/ freed

\* The RTP thread never writes a frame into the buffer the decoder copies
\* from, although indexes and counts are changed without a lock, WriteCnt may
\* be wrong, a lost connection stores an end without a start, and a close
\* posts the semaphores while the decoder is in the ring.
SlotsApart ==
  ~Disturbed =>
    \A c \in Connects :
      rtp[c].pc = "copy" /\ reader.pc = "read" => rtp[c].slot # reader.slot

\* An RTP thread has its ring: it is neither freed nor told to end before the
\* thread that stores frames in it is gone (udp_talk_transport.c:533-540).
RingOutlivesThread ==
  ~Disturbed => \A c \in Living : created /\ ~Terminate

\* The decoder can go on: it finds a frame, or it does not wait in vain.
DecoderGoesOn ==
  /\ reader.pc = "idle" => WriteCnt > 0
  /\ reader.pc = "wait" => GetSem > 0

\* The RTP thread and the decoder are never both stuck.  When the one waits
\* for a free buffer and there is none, the other sees a frame and gets it,
\* whatever updates of WriteCnt were lost before: otherwise no call could be
\* closed any more (share_memory.c: SaveStart, SaveEnd, GetStart, GetEnd).
RingNeverStuck ==
  ~Disturbed =>
    \A c \in Connects :
      rtp[c].pc = "wait" /\ SaveSem = 0 => DecoderGoesOn

\* Frames are decoded in the order they came, each once and none left out,
\* until the close, which may hand out an old buffer again.
FramesInOrder ==
  [][taken' # taken /\ created /\ ~Terminate /\ ~Disturbed => taken' = taken + 1]_vars

\* rtpClose ends while the decoder keeps taking frames: the RTP thread does
\* not wait for a free buffer for ever, although updates of WriteCnt are lost
\* and the decoder sees an empty ring that is not.
CloseEnds == []<>(closer = "idle" \/ Disturbed)
=============================================================================
