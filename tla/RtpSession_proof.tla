-------------------------- MODULE RtpSession_proof --------------------------
(***************************************************************************)
(* Proofs about RtpSession for rings of any size and any number of frames  *)
(* and connections: its types, that the RTP thread and the decoder are     *)
(* never in one buffer, and that frames are decoded in order.              *)
(***************************************************************************)
EXTENDS RtpSession, Rounds, TLAPS

USE RtpAssumption DEF RtpAssumption, Connects, Indexes, None

LEMMA NextInRing == \A i \in Indexes : NextIndex(i) \in Indexes
  BY DivMod DEF NextIndex

-----------------------------------------------------------------------------
(* Types                                                                   *)

LEMMA TypeInit == Init => TypeOK
<1>1. Init => FlagTypes
  BY DEF Init, FlagTypes
<1>2. Init => ValueTypes
  BY DEF Init, ValueTypes, Empty, At, Thread, Threads, PCs
<1> QED BY <1>1, <1>2 DEF TypeOK

LEMMA FlagTypesNext == FlagTypes /\ [Next]_vars => FlagTypes'
<1> SUFFICES ASSUME FlagTypes, [Next]_vars PROVE FlagTypes'
  OBVIOUS
<1> USE DEF FlagTypes, ring, indexes, flags, control, hist
<1>1. CASE Builder
  <2>1. CASE BuildConnect
    BY <2>1 DEF BuildConnect, CreateRing
  <2>2. CASE RtpThreadCreate
    BY <2>2 DEF RtpThreadCreate
  <2>3. CASE SpiThreadCreate
    BY <2>3 DEF SpiThreadCreate
  <2> QED BY <1>1, <2>1, <2>2, <2>3 DEF Builder
<1>2. CASE Reader
  <2> USE DEF GetStep
  <2>1. CASE GetVideo
    BY <2>1 DEF GetVideo
  <2>2. CASE GetStart
    BY <2>2 DEF GetStart
  <2>3. CASE GetEnd
    BY <2>3 DEF GetEnd
  <2>4. CASE GetCount
    BY <2>4 DEF GetCount
  <2>5. CASE GetPost
    BY <2>5 DEF GetPost
  <2>6. CASE GetNext
    BY <2>6 DEF GetNext
  <2> QED BY <1>2, <2>1, <2>2, <2>3, <2>4, <2>5, <2>6 DEF Reader
<1>3. CASE Closer
  <2>1. CASE CloseBegin
    BY <2>1 DEF CloseBegin
  <2>2. CASE CloseMemory
    BY <2>2 DEF CloseMemory
  <2>3. CASE Destroy
    BY <2>3 DEF Destroy
  <2> QED BY <1>3, <2>1, <2>2, <2>3 DEF Closer
<1>4. ASSUME NEW c \in Connects, Rtp(c) PROVE FlagTypes'
  <2> USE DEF RtpStep
  <2>1. CASE RtpAbort(c)
    BY <2>1 DEF RtpAbort
  <2>2. CASE RtpReceive(c)
    BY <2>2 DEF RtpReceive
  <2>3. CASE RtpTerminated(c)
    BY <2>3 DEF RtpTerminated
  <2>4. CASE RtpExit(c)
    BY <2>4 DEF RtpExit
  <2>5. CASE SaveStart(c)
    BY <2>5 DEF SaveStart
  <2>6. CASE Copied(c)
    BY <2>6 DEF Copied
  <2>7. CASE SaveEnd(c)
    BY <2>7 DEF SaveEnd
  <2>8. CASE SaveCount(c)
    BY <2>8 DEF SaveCount
  <2>9. CASE SavePost(c)
    BY <2>9 DEF SavePost
  <2>10. CASE SaveNext(c)
    BY <2>10 DEF SaveNext
  <2> QED BY <1>4, <2>1, <2>2, <2>3, <2>4, <2>5, <2>6, <2>7, <2>8, <2>9, <2>10 DEF Rtp
<1>5. ASSUME NEW c \in Connects, SpiExit(c) PROVE FlagTypes'
  BY <1>5 DEF SpiExit
<1>6. CASE UNCHANGED vars
  BY <1>6 DEF vars
<1> QED BY <1>1, <1>2, <1>3, <1>4, <1>5, <1>6 DEF Next

LEMMA ValueTypesNext == ValueTypes /\ [Next]_vars => ValueTypes'
<1> SUFFICES ASSUME ValueTypes, [Next]_vars PROVE ValueTypes'
  OBVIOUS
<1> USE DEF ValueTypes, At, To, Saw, Thread, Threads, PCs, ring, indexes, flags,
            control, hist
<1>1. CASE Builder
  <2>1. CASE BuildConnect
    <3>1. /\ connects' \in 0 .. MaxConnects /\ builder' = "rtp"
          /\ UNCHANGED <<rtp, spi, reader, closer>>
      BY <2>1 DEF BuildConnect
    <3>2. CASE created
      <4>1. UNCHANGED <<ring, stored, taken>>
        BY <2>1, <3>2 DEF BuildConnect, CreateRing
      <4> QED BY <3>1, <4>1
    <3>3. CASE ~created
      <4>1. /\ Empty(Buf', GetSem', SaveSem')
            /\ GetIndex' = 0 /\ SaveIndex' = 0 /\ WriteCnt' = 0
            /\ stored' = 0 /\ taken' = 0
        BY <2>1, <3>3 DEF BuildConnect, CreateRing
      <4> QED BY <3>1, <4>1 DEF Empty
    <3> QED BY <3>2, <3>3
  <2>2. CASE RtpThreadCreate
    BY <2>2 DEF RtpThreadCreate
  <2>3. CASE SpiThreadCreate
    BY <2>3 DEF SpiThreadCreate
  <2> QED BY <1>1, <2>1, <2>2, <2>3 DEF Builder
<1>2. CASE Reader
  <2> USE DEF GetStep
  <2>1. CASE GetVideo
    BY <2>1 DEF GetVideo
  <2>2. CASE GetStart
    BY <2>2, SMTT(40) DEF GetStart
  <2>3. CASE GetEnd
    BY <2>3 DEF GetEnd
  <2>4. CASE GetCount
    BY <2>4 DEF GetCount
  <2>5. CASE GetPost
    BY <2>5 DEF GetPost
  <2>6. CASE GetNext
    BY <2>6, NextInRing DEF GetNext
  <2> QED BY <1>2, <2>1, <2>2, <2>3, <2>4, <2>5, <2>6 DEF Reader
<1>3. CASE Closer
  <2>1. CASE CloseBegin
    BY <2>1 DEF CloseBegin
  <2>2. CASE CloseMemory
    BY <2>2 DEF CloseMemory
  <2>3. CASE Destroy
    BY <2>3 DEF Destroy
  <2> QED BY <1>3, <2>1, <2>2, <2>3 DEF Closer
<1>4. ASSUME NEW c \in Connects, Rtp(c) PROVE ValueTypes'
  <2> USE DEF RtpStep
  <2>1. CASE RtpAbort(c)
    BY <2>1 DEF RtpAbort
  <2>2. CASE RtpReceive(c)
    BY <2>2 DEF RtpReceive
  <2>3. CASE RtpTerminated(c)
    BY <2>3 DEF RtpTerminated
  <2>4. CASE RtpExit(c)
    BY <2>4 DEF RtpExit
  <2>5. CASE SaveStart(c)
    BY <2>5, SMTT(40) DEF SaveStart
  <2>6. CASE Copied(c)
    <3>1. Buf' \in [Indexes -> Nat] /\ stored' \in Nat
      <4>1. stored' = stored + 1 /\ Buf' = [Buf EXCEPT ![rtp[c].slot] = stored + 1]
        BY <2>6 DEF Copied
      <4>2. stored + 1 \in Nat /\ Buf \in [Indexes -> Nat]
        OBVIOUS
      <4> QED BY ONLY <4>1, <4>2
    <3>2. rtp' \in [Connects -> Threads]
      BY <2>6 DEF Copied
    <3> QED BY <2>6, <3>1, <3>2 DEF Copied
  <2>7. CASE SaveEnd(c)
    BY <2>7 DEF SaveEnd
  <2>8. CASE SaveCount(c)
    <3>1. Buf' \in [Indexes -> Nat]
      BY <2>8 DEF SaveCount
    <3>2. rtp' \in [Connects -> Threads]
      BY <2>8 DEF SaveCount
    <3>3. WriteCnt' \in Nat
      BY <2>8 DEF SaveCount
    <3> QED BY <2>8, <3>1, <3>2, <3>3 DEF SaveCount
  <2>9. CASE SavePost(c)
    BY <2>9, SMTT(40) DEF SavePost
  <2>10. CASE SaveNext(c)
    BY <2>10, NextInRing DEF SaveNext
  <2> QED BY <1>4, <2>1, <2>2, <2>3, <2>4, <2>5, <2>6, <2>7, <2>8, <2>9, <2>10 DEF Rtp
<1>5. ASSUME NEW c \in Connects, SpiExit(c) PROVE ValueTypes'
  BY <1>5 DEF SpiExit
<1>6. CASE UNCHANGED vars
  BY <1>6 DEF vars
<1> QED BY <1>1, <1>2, <1>3, <1>4, <1>5, <1>6 DEF Next

\* The values of all variables keep their types, and the two indexes of the
\* ring never leave its buffers.
THEOREM TypeCorrect == Spec => []TypeOK
<1>1. Init => TypeOK
  BY TypeInit
<1>2. TypeOK /\ [Next]_vars => TypeOK'
  BY FlagTypesNext, ValueTypesNext DEF TypeOK
<1> QED BY <1>1, <1>2, PTL DEF Spec

-----------------------------------------------------------------------------
(* The invariant                                                           *)

\* One connection at a time: at most one RTP thread lives, it lives while the
\* ring is open, and a close that has seen its exit has nobody to meet.
OneSession ==
  /\ \A c, d \in Living : c = d
  /\ builder = "rtp" => Living = {}
  /\ builder # "idle" => created /\ ~Terminate /\ closer = "idle"
  /\ Living # {} => created /\ ~Terminate /\ ~RTPThreadExit /\ closer # "spi"
  /\ reader.pc # "idle" => created

One(p) == IF p THEN 1 ELSE 0

\* Where a thread is with its frame: SaveIndex is still to be moved, GetSem is
\* still to be posted, the frame is being copied; and the same for the decoder.
Unmoved(t)  == t.pc \in {"save", "count", "post", "index"}
Unposted(t) == t.pc \in {"save", "count", "post"}
Keeping     == reader.pc \in {"read", "count", "post"}
Behind      == reader.pc \in {"read", "count", "post", "index"}

\* A thread that has not met the end of the connection.
Running(t) == t.pc \in {"loop", "wait", "copy"} \/ (t.size = 1 /\ Unmoved(t))

\* While it runs, indexes and permits follow the numbers of the frames.
Fits(t) ==
  /\ Unmoved(t) => stored > 0
  /\ SaveIndex = (stored - One(Unmoved(t))) % MallocCnt
  /\ GetSem + One(Unposted(t)) + taken = stored
  /\ SaveSem = MallocCnt - stored - One(t.pc = "copy") + taken - One(Keeping)
  /\ \A j \in taken + 1 .. stored : Buf[(j - 1) % MallocCnt] = j
  /\ t.pc = "copy" => t.slot = SaveIndex /\ t.size = 1

\* Afterwards, the buffer that follows the frames is of size 0 before it is
\* handed out, and buffers hold their frames or nothing.
Ends(t) ==
  /\ Unposted(t) /\ t.size = 0 => SaveIndex = stored % MallocCnt
  /\ t.pc = "post" /\ t.size = 0 => Buf[SaveIndex] = 0

\* The decoder's index follows the frames it took.
Follows ==
  /\ taken <= stored
  /\ Behind => taken > 0
  /\ GetIndex = (taken - One(Behind)) % MallocCnt
  /\ reader.pc = "read" => reader.slot = GetIndex
  /\ \A j \in taken + 1 .. stored : Buf[(j - 1) % MallocCnt] \in {0, j}
  /\ Buf[stored % MallocCnt] = 0 \/ GetSem <= stored - taken

RingInv ==
  created /\ ~Terminate =>
    /\ Follows
    /\ builder = "rtp" => Fits(At("loop"))
    /\ \A c \in Living : (Running(rtp[c]) => Fits(rtp[c])) /\ Ends(rtp[c])

IInv == ~Disturbed => OneSession /\ RingInv

LEMMA SessionNext ==
  ASSUME FlagTypes, ValueTypes, ~Disturbed, OneSession, [Next]_vars, ~Disturbed'
  PROVE  OneSession'
<1> USE DEF FlagTypes, ValueTypes, Disturbed, OneSession, Living, At, To, Saw, Thread,
            Threads, PCs, ring, indexes, flags, control, hist
<1>1. CASE Builder
  <2>1. CASE BuildConnect
    BY <2>1 DEF BuildConnect, CreateRing
  <2>2. CASE RtpThreadCreate
    <3>1. \A d \in Connects : d # connects => rtp'[d] = rtp[d]
      BY <2>2 DEF RtpThreadCreate
    <3>2. \A d \in Living' : d = connects
      BY <2>2, <3>1 DEF RtpThreadCreate
    <3> QED BY <2>2, <3>2 DEF RtpThreadCreate
  <2>3. CASE SpiThreadCreate
    BY <2>3 DEF SpiThreadCreate
  <2> QED BY <1>1, <2>1, <2>2, <2>3 DEF Builder
<1>2. CASE Reader
  <2> USE DEF GetStep
  <2>1. CASE GetVideo
    BY <2>1 DEF GetVideo
  <2>2. CASE GetStart
    BY <2>2 DEF GetStart
  <2>3. CASE GetEnd
    BY <2>3 DEF GetEnd
  <2>4. CASE GetCount
    BY <2>4 DEF GetCount
  <2>5. CASE GetPost
    BY <2>5 DEF GetPost
  <2>6. CASE GetNext
    BY <2>6 DEF GetNext
  <2> QED BY <1>2, <2>1, <2>2, <2>3, <2>4, <2>5, <2>6 DEF Reader
<1>3. CASE Closer
  <2>1. CASE CloseBegin
    BY <2>1 DEF CloseBegin
  <2>2. CASE CloseMemory
    BY <2>2 DEF CloseMemory
  <2>3. CASE Destroy
    BY <2>3 DEF Destroy
  <2> QED BY <1>3, <2>1, <2>2, <2>3 DEF Closer
<1> DEFINE Others(c) == \A d \in Connects : d # c => rtp'[d] = rtp[d]
<1>4. ASSUME NEW c \in Connects, Rtp(c) PROVE OneSession'
  <2> USE DEF RtpStep
  <2>1. CASE RtpAbort(c)
    BY <2>1, SMTT(40) DEF RtpAbort
  <2>2. CASE RtpReceive(c)
    BY <2>2, SMTT(40) DEF RtpReceive
  <2>3. CASE RtpTerminated(c)
    <3>1. rtp'[c].pc = "exit" /\ Others(c) /\ c \in Living
      BY <2>3 DEF RtpTerminated
    <3>2. Living' \subseteq Living
      BY ONLY <3>1 DEF Living
    <3>3. UNCHANGED <<builder, created, Terminate, RTPThreadExit, closer, reader>>
      BY <2>3 DEF RtpTerminated
    <3> QED BY ONLY <3>1, <3>2, <3>3, OneSession DEF OneSession
  <2>4. CASE RtpExit(c)
    <3>1. rtp'[c].pc = "done" /\ Others(c) /\ c \in Living
      BY <2>4 DEF RtpExit
    <3>2. Living' = {}
      BY ONLY <3>1, OneSession DEF OneSession, Living
    <3>3. UNCHANGED <<builder, created, closer, reader, Terminate>>
      BY <2>4 DEF RtpExit
    <3>4. builder # "rtp"
      BY ONLY <3>1, OneSession DEF OneSession
    <3> QED BY ONLY <3>2, <3>3, <3>4, OneSession DEF OneSession
  <2>5. CASE SaveStart(c)
    <3>1. rtp'[c].pc = "copy" /\ Others(c) /\ c \in Living
      BY <2>5 DEF SaveStart
    <3>2. Living' \subseteq Living
      BY ONLY <3>1 DEF Living
    <3>3. UNCHANGED <<builder, created, Terminate, RTPThreadExit, closer, reader>>
      BY <2>5 DEF SaveStart
    <3> QED BY ONLY <3>1, <3>2, <3>3, OneSession DEF OneSession
  <2>6. CASE Copied(c)
    <3>1. rtp'[c].pc = "save" /\ Others(c) /\ c \in Living
      BY <2>6 DEF Copied
    <3>2. Living' \subseteq Living
      BY ONLY <3>1 DEF Living
    <3>3. UNCHANGED <<builder, created, Terminate, RTPThreadExit, closer, reader>>
      BY <2>6 DEF Copied
    <3> QED BY ONLY <3>1, <3>2, <3>3, OneSession DEF OneSession
  <2>7. CASE SaveEnd(c)
    <3>1. rtp'[c].pc = "count" /\ Others(c) /\ c \in Living
      BY <2>7 DEF SaveEnd
    <3>2. Living' \subseteq Living
      BY ONLY <3>1 DEF Living
    <3>3. UNCHANGED <<builder, created, Terminate, RTPThreadExit, closer, reader>>
      BY <2>7 DEF SaveEnd
    <3> QED BY ONLY <3>1, <3>2, <3>3, OneSession DEF OneSession
  <2>8. CASE SaveCount(c)
    <3>1. rtp'[c].pc = "post" /\ Others(c) /\ c \in Living
      BY <2>8, SMTT(40) DEF SaveCount
    <3>2. Living' \subseteq Living
      BY ONLY <3>1 DEF Living
    <3>3. UNCHANGED <<builder, created, Terminate, RTPThreadExit, closer, reader>>
      BY <2>8 DEF SaveCount
    <3> QED BY ONLY <3>1, <3>2, <3>3, OneSession DEF OneSession
  <2>9. CASE SavePost(c)
    <3>1. rtp'[c].pc = "index" /\ Others(c) /\ c \in Living
      BY <2>9 DEF SavePost
    <3>2. Living' \subseteq Living
      BY ONLY <3>1 DEF Living
    <3>3. UNCHANGED <<builder, created, Terminate, RTPThreadExit, closer, reader>>
      BY <2>9 DEF SavePost
    <3> QED BY ONLY <3>1, <3>2, <3>3, OneSession DEF OneSession
  <2>10. CASE SaveNext(c)
    <3>1. rtp'[c].pc \in {"exit", "loop"} /\ Others(c) /\ c \in Living
      BY <2>10 DEF SaveNext
    <3>2. Living' \subseteq Living
      BY ONLY <3>1 DEF Living
    <3>3. UNCHANGED <<builder, created, Terminate, RTPThreadExit, closer, reader>>
      BY <2>10 DEF SaveNext
    <3> QED BY ONLY <3>1, <3>2, <3>3, OneSession DEF OneSession
  <2> QED BY <1>4, <2>1, <2>2, <2>3, <2>4, <2>5, <2>6, <2>7, <2>8, <2>9, <2>10 DEF Rtp
<1>5. ASSUME NEW c \in Connects, SpiExit(c) PROVE OneSession'
  BY <1>5 DEF SpiExit
<1>6. CASE UNCHANGED vars
  BY <1>6 DEF vars
<1> QED BY <1>1, <1>2, <1>3, <1>4, <1>5, <1>6 DEF Next

-----------------------------------------------------------------------------
(* The decoder in the ring                                                 *)

\* What a step of the decoder has to keep.
LEMMA DecoderFrame ==
  ASSUME RingInv, GetStep,
         created /\ ~Terminate =>
            Follows' /\ \A t \in Threads : Fits(t) => Fits(t)',
         rtp \in [Connects -> Threads]
  PROVE  RingInv'
<1>1. UNCHANGED <<created, Terminate, Buf, SaveIndex, stored, rtp, builder>>
  BY DEF GetStep, control
<1>2. SUFFICES ASSUME created, ~Terminate PROVE RingInv'
  BY <1>1 DEF RingInv
<1>3. Living' = Living /\ \A c \in Living : rtp'[c] = rtp[c] /\ rtp[c] \in Threads
  BY <1>1 DEF Living
<1>4. At("loop") \in Threads
  BY DEF At, Thread, Threads, PCs
<1>5. \A c \in Living : Ends(rtp[c])'
  BY <1>1, <1>2, <1>3 DEF RingInv, Ends, Unposted
<1>6. \A t \in Threads : Fits(t) => Fits(t)'
  BY <1>2
<1>7. \A c \in Living : Running(rtp[c]) => Fits(rtp[c])
  BY <1>2 DEF RingInv
<1>8. \A c \in Living : Running(rtp[c])' => Fits(rtp[c])'
  <2> SUFFICES ASSUME NEW c \in Living, Running(rtp[c])' PROVE Fits(rtp[c])'
    OBVIOUS
  <2>1. Running(rtp[c]) /\ rtp'[c] = rtp[c]
    BY <1>3 DEF Running, Unmoved
  <2>2. Fits(rtp[c])
    BY <2>1, <1>7
  <2> DEFINE t == rtp[c]
  <2>3. PICK u \in Threads : u = t
    BY <1>3
  <2>4. Fits(u)'
    BY <2>2, <2>3, <1>6
  <2> QED BY <2>1, <2>3, <2>4 DEF Fits, Unmoved, Unposted, Keeping
<1>9. builder = "rtp" => Fits(At("loop"))'
  BY <1>2, <1>4, <1>6 DEF RingInv
<1> QED BY <1>1, <1>2, <1>3, <1>5, <1>8, <1>9 DEF RingInv

LEMMA DecoderNext ==
  ASSUME ValueTypes, RingInv, Reader
  PROVE  RingInv'
<1> USE DEF ValueTypes, Threads, PCs, Keeping, Behind, One
<1>1. GetStep /\ rtp \in [Connects -> Threads]
  BY DEF Reader, GetVideo, GetStart, GetEnd, GetCount, GetPost, GetNext
<1>2. SUFFICES ASSUME created, ~Terminate
               PROVE  Follows' /\ \A t \in Threads : Fits(t) => Fits(t)'
  BY <1>1, DecoderFrame
<1>3. Follows /\ UNCHANGED <<Buf, SaveIndex, stored>>
  BY <1>1, <1>2 DEF RingInv, GetStep
<1>4. SUFFICES ASSUME NEW t \in Threads
               PROVE  Follows' /\ (Fits(t) => Fits(t)')
  OBVIOUS
<1>5. CASE GetVideo
  <2>1. UNCHANGED <<GetSem, SaveSem, GetIndex, taken>> /\ reader'.pc = "wait"
        /\ reader.pc = "idle"
    BY <1>5 DEF GetVideo, At, Thread
  <2> QED BY <1>3, <2>1 DEF Follows, Fits, Unmoved, Unposted
<1>6. CASE GetStart /\ Buf[GetIndex] = 0
  <2>1. /\ GetSem' = GetSem - 1 /\ GetSem > 0
        /\ UNCHANGED <<SaveSem, GetIndex, taken>>
        /\ reader'.pc = "idle" /\ reader.pc = "wait"
    BY <1>6 DEF GetStart, At, Thread
  <2>2. ~Fits(t)
    <3> SUFFICES ASSUME Fits(t) PROVE FALSE
      OBVIOUS
    <3>1. GetIndex = taken % MallocCnt
      BY <1>3, <2>1 DEF Follows
    <3>2. taken + 1 \in taken + 1 .. stored
      BY <2>1 DEF Fits
    <3>3. Buf[((taken + 1) - 1) % MallocCnt] = taken + 1
      BY <3>2 DEF Fits
    <3>4. (taken + 1) - 1 = taken
      OBVIOUS
    <3> QED BY <1>6, <3>1, <3>3, <3>4
  <2>3. Follows'
    BY <1>3, <2>1 DEF Follows
  <2> QED BY <2>2, <2>3
<1>7. CASE GetStart /\ Buf[GetIndex] # 0
  <2>1. /\ GetSem' = GetSem - 1 /\ GetSem > 0
        /\ UNCHANGED <<SaveSem, GetIndex>> /\ taken' = Buf[GetIndex]
        /\ reader'.pc = "read" /\ reader'.slot = GetIndex /\ reader.pc = "wait"
    BY <1>7 DEF GetStart, Thread
  <2>2. GetIndex = taken % MallocCnt
    BY <1>3, <2>1 DEF Follows
  <2>3. taken < stored
    BY <1>3, <1>7, <2>1, <2>2 DEF Follows
  <2>4. taken' = taken + 1
    <3>1. taken + 1 \in taken + 1 .. stored
      BY <2>3
    <3>2. Buf[((taken + 1) - 1) % MallocCnt] \in {0, taken + 1}
      BY <1>3, <3>1 DEF Follows
    <3>3. (taken + 1) - 1 = taken
      OBVIOUS
    <3> QED BY <1>7, <2>1, <2>2, <3>2, <3>3
  <2>5. Follows'
    <3>1. taken' <= stored' /\ taken' > 0 /\ reader'.slot = GetIndex'
      BY <1>3, <2>1, <2>3, <2>4
    <3>2. GetIndex' = (taken' - One(Behind')) % MallocCnt
      BY <2>1, <2>2, <2>4
    <3>3. \A j \in taken' + 1 .. stored' : Buf'[(j - 1) % MallocCnt] \in {0, j}
      BY <1>3, <2>4 DEF Follows
    <3>4. Buf'[stored' % MallocCnt] = 0 \/ GetSem' <= stored' - taken'
      BY <1>3, <2>1, <2>4 DEF Follows
    <3> QED BY <3>1, <3>2, <3>3, <3>4 DEF Follows
  <2>6. Fits(t) => Fits(t)'
    BY <1>3, <2>1, <2>4 DEF Fits, Unmoved, Unposted
  <2> QED BY <2>5, <2>6
<1>8. CASE GetEnd
  <2>1. /\ UNCHANGED <<GetSem, SaveSem, GetIndex, taken>>
        /\ reader'.pc = "count" /\ reader.pc = "read"
    BY <1>8 DEF GetEnd, Saw, Thread
  <2> QED BY <1>3, <2>1 DEF Follows, Fits, Unmoved, Unposted
<1>9. CASE GetCount
  <2>1. /\ UNCHANGED <<GetSem, SaveSem, GetIndex, taken>>
        /\ reader'.pc = "post" /\ reader.pc = "count"
    BY <1>9 DEF GetCount, To, Thread
  <2> QED BY <1>3, <2>1 DEF Follows, Fits, Unmoved, Unposted
<1>10. CASE GetPost
  <2>1. /\ UNCHANGED <<GetSem, GetIndex, taken>> /\ SaveSem' = SaveSem + 1
        /\ reader'.pc = "index" /\ reader.pc = "post"
    BY <1>10 DEF GetPost, To, Thread
  <2> QED BY <1>3, <2>1 DEF Follows, Fits, Unmoved, Unposted
<1>11. CASE GetNext
  <2>1. /\ UNCHANGED <<GetSem, SaveSem, taken>> /\ GetIndex' = (GetIndex + 1) % MallocCnt
        /\ reader'.pc = "idle" /\ reader.pc = "index"
    BY <1>11 DEF GetNext, At, Thread, NextIndex
  <2>2. taken > 0 /\ GetIndex = (taken - 1) % MallocCnt
    BY <1>3, <2>1 DEF Follows
  <2>3. GetIndex' = taken % MallocCnt
    <3> DEFINE a == taken - 1
    <3>1. a \in Nat /\ a + 1 = taken /\ MallocCnt \in Nat \ {0}
      BY <2>2
    <3>2. GetIndex' = (GetIndex + 1) % MallocCnt /\ GetIndex = a % MallocCnt
      BY <2>1, <2>2
    <3> HIDE DEF a
    <3>3. (a + 1) % MallocCnt = ((a % MallocCnt) + 1) % MallocCnt
      BY ONLY <3>1, ModNext
    <3> QED BY ONLY <3>1, <3>2, <3>3
  <2>4. Follows'
    <3>1. GetIndex' = (taken' - One(Behind')) % MallocCnt
      <4>1. taken' - One(Behind') = taken
        BY <2>1
      <4> QED BY ONLY <2>3, <4>1
    <3> QED BY <1>3, <2>1, <3>1 DEF Follows
  <2>5. Fits(t) => Fits(t)'
    BY <1>3, <2>1 DEF Fits, Unmoved, Unposted
  <2> QED BY <2>4, <2>5
<1> QED BY <1>5, <1>6, <1>7, <1>8, <1>9, <1>10, <1>11 DEF Reader

-----------------------------------------------------------------------------
(* A new connection                                                        *)

\* RingInv looks at these variables only.
Seen == <<created, Terminate, GetSem, SaveSem, indexes, Buf, reader, stored, taken>>

LEMMA RingUnchanged ==
  ASSUME UNCHANGED Seen, RingInv, builder' = "rtp" => builder = "rtp",
         \A c \in Living' : c \in Living /\ rtp'[c] = rtp[c]
  PROVE  RingInv'
<1>1. SUFFICES ASSUME created, ~Terminate PROVE RingInv'
  BY DEF RingInv, Seen
<1>2. /\ Follows /\ (builder = "rtp" => Fits(At("loop")))
      /\ \A c \in Living : (Running(rtp[c]) => Fits(rtp[c])) /\ Ends(rtp[c])
  BY <1>1 DEF RingInv
<1>3. Follows'
  BY <1>2 DEF Seen, indexes, Follows, Behind, One
<1>4. builder' = "rtp" => Fits(At("loop"))'
  BY <1>2 DEF Seen, indexes, Fits, Unmoved, Unposted, Keeping, One, At, Thread
<1>5. \A c \in Living' : (Running(rtp[c])' => Fits(rtp[c])') /\ Ends(rtp[c])'
  BY <1>2 DEF Seen, indexes, Fits, Ends, Running, Unmoved, Unposted, Keeping, One
<1> QED BY <1>3, <1>4, <1>5 DEF RingInv

LEMMA BuilderNext ==
  ASSUME ValueTypes, FlagTypes, OneSession, RingInv, Builder, ~overlapped'
  PROVE  RingInv'
<1>1. CASE BuildConnect
  <2>1. /\ ~created /\ Living = {} /\ reader.pc = "idle" /\ builder' = "rtp"
        /\ reader' = reader /\ rtp' = rtp
    BY <1>1 DEF BuildConnect, OneSession, FlagTypes
  <2>2. /\ GetSem' = 0 /\ SaveSem' = MallocCnt /\ Buf' = [i \in Indexes |-> 0]
        /\ GetIndex' = 0 /\ SaveIndex' = 0 /\ stored' = 0 /\ taken' = 0
    BY <1>1, <2>1 DEF BuildConnect, CreateRing, Empty
  <2>3. 0 % MallocCnt = 0 /\ MallocCnt * 0 + 0 = 0
    BY SMT
  <2>4. Buf'[0] = 0
    BY <2>2
  <2>5. Follows'
    BY <2>1, <2>2, <2>3, <2>4 DEF Follows, Behind, One
  <2>6. Fits(At("loop"))'
    BY <2>1, <2>2, <2>3 DEF Fits, Unmoved, Unposted, Keeping, One, At, Thread
  <2>7. Living' = {}
    BY <2>1 DEF Living
  <2> QED BY <2>5, <2>6, <2>7 DEF RingInv
<1>2. CASE RtpThreadCreate
  <2>1. SUFFICES ASSUME created, ~Terminate PROVE RingInv'
    BY <1>2 DEF RtpThreadCreate, ring, RingInv
  <2>2. /\ Fits(At("loop")) /\ Follows /\ Living = {} /\ UNCHANGED Seen
        /\ builder' = "spi"
    BY <1>2, <2>1 DEF RtpThreadCreate, ring, RingInv, OneSession, Seen
  <2>3. \A d \in Living' : rtp'[d] = At("loop")
    BY <1>2, <2>2 DEF RtpThreadCreate, Living, ValueTypes
  <2>4. Follows'
    BY <2>2 DEF Seen, indexes, Follows, Behind, One
  <2>5. \A d \in Living' : (Running(rtp[d])' => Fits(rtp[d])') /\ Ends(rtp[d])'
    BY <2>2, <2>3 DEF Seen, indexes, Fits, Ends, Running, Unmoved, Unposted, Keeping,
                      One,
                      At, Thread
  <2> QED BY <2>2, <2>4, <2>5 DEF RingInv
<1>3. CASE SpiThreadCreate
  <2>1. UNCHANGED <<Seen, rtp>> /\ builder' = "idle"
    BY <1>3 DEF SpiThreadCreate, ring, Seen
  <2> QED BY <2>1, RingUnchanged DEF Living
<1> QED BY <1>1, <1>2, <1>3 DEF Builder

LEMMA CloserNext ==
  ASSUME RingInv, Closer
  PROVE  RingInv'
<1>1. CASE CloseBegin
  <2>1. UNCHANGED <<Seen, rtp, builder>>
    BY <1>1 DEF CloseBegin, ring, Seen
  <2> QED BY <2>1, RingUnchanged DEF Living
<1>2. CASE CloseMemory
  <2>1. created' => Terminate'
    BY <1>2 DEF CloseMemory
  <2> QED BY <2>1 DEF RingInv
<1>3. CASE Destroy
  <2>1. ~created'
    BY <1>3 DEF Destroy
  <2> QED BY <2>1 DEF RingInv
<1> QED BY <1>1, <1>2, <1>3 DEF Closer

-----------------------------------------------------------------------------
(* The RTP thread in the ring                                              *)

\* What a step of an RTP thread has to keep: it is the only one.
LEMMA ReceiverFrame ==
  ASSUME OneSession, RingInv, NEW c \in Living,
         UNCHANGED <<created, Terminate, builder>>,
         \A d \in Connects : d # c => rtp'[d] = rtp[d],
         created /\ ~Terminate =>
            Follows' /\ (Running(rtp[c])' => Fits(rtp[c])') /\ Ends(rtp[c])'
  PROVE  RingInv'
<1>1. SUFFICES ASSUME created, ~Terminate PROVE RingInv'
  BY DEF RingInv
<1>2. builder' # "rtp"
  BY DEF OneSession
<1>3. Living' \subseteq {c}
  BY DEF OneSession, Living
<1> QED BY ONLY <1>1, <1>2, <1>3, created /\ ~Terminate =>
            Follows' /\ (Running(rtp[c])' => Fits(rtp[c])') /\ Ends(rtp[c])' DEF RingInv

LEMMA ReceiverNext ==
  ASSUME ValueTypes, OneSession, RingInv, NEW c \in Connects, Rtp(c)
  PROVE  RingInv'
<1> DEFINE t == rtp[c]
<1> USE DEF ValueTypes, At, To, Saw, Thread, Threads, PCs
<1>1. /\ c \in Living /\ UNCHANGED <<created, Terminate, builder>>
      /\ \A d \in Connects : d # c => rtp'[d] = rtp[d]
  BY DEF Rtp, RtpAbort, RtpReceive, RtpTerminated, RtpExit, SaveStart, Copied, SaveEnd,
         SaveCount, SavePost, SaveNext, RtpStep, control, Living, ring, flags
<1>2. SUFFICES ASSUME created, ~Terminate
               PROVE  Follows' /\ (Running(t)' => Fits(t)') /\ Ends(t)'
  BY <1>1, ReceiverFrame
<1>3. Follows /\ (Running(t) => Fits(t)) /\ Ends(t)
  BY <1>1, <1>2 DEF RingInv
<1>4. UNCHANGED <<GetIndex, taken, reader>>
  BY DEF Rtp, RtpAbort, RtpReceive, RtpTerminated, RtpExit, SaveStart, Copied, SaveEnd,
         SaveCount, SavePost, SaveNext, RtpStep, control, ring, indexes
<1> DEFINE Same == UNCHANGED <<GetSem, SaveSem, SaveIndex, Buf, stored>>
<1>5. ASSUME Same PROVE Follows'
  BY <1>3, <1>4, <1>5 DEF Follows, Behind, One
<1>6. CASE RtpAbort(c)
  <2>1. Same /\ t.pc = "loop" /\ t'.pc = "save" /\ t'.size = 0
    BY <1>2, <1>6 DEF RtpAbort, RtpStep
  <2>2. SaveIndex = stored % MallocCnt
    BY <1>3, <2>1 DEF Running, Fits, Unmoved, One
  <2> QED BY <1>5, <2>1, <2>2 DEF Running, Ends, Unmoved, Unposted
<1>7. CASE RtpReceive(c)
  <2>1. Same /\ t.pc = "loop" /\ t'.pc = "wait"
    BY <1>2, <1>7 DEF RtpReceive, RtpStep
  <2> QED BY <1>3, <1>4, <1>5, <2>1 DEF Running, Fits, Ends, Unmoved, Unposted,
                                        Keeping, One
<1>8. CASE RtpTerminated(c) \/ RtpExit(c)
  <2>1. Same
    BY <1>8 DEF RtpTerminated, RtpExit, RtpStep
  <2>2. t'.pc \in {"exit", "done"}
    BY <1>8, SMTT(40) DEF RtpTerminated, RtpExit
  <2> QED BY <1>5, <2>1, <2>2 DEF Running, Ends, Unmoved, Unposted
<1>9. CASE SaveStart(c)
  <2>1. /\ UNCHANGED <<GetSem, SaveIndex, Buf, stored>> /\ SaveSem' = SaveSem - 1
        /\ t.pc = "wait" /\ t'.pc = "copy" /\ t'.slot = SaveIndex /\ t'.size = 1
    BY <1>9 DEF SaveStart, indexes
  <2>2. Follows'
    BY <1>3, <1>4, <2>1 DEF Follows, Behind, One
  <2>3. Fits(t)
    BY <1>3, <2>1 DEF Running
  <2>4. Fits(t)'
    <3>1. /\ ~Unmoved(t) /\ ~Unposted(t) /\ ~Unmoved(t)' /\ ~Unposted(t)'
          /\ Keeping' = Keeping
      BY <1>4, <2>1 DEF Unmoved, Unposted, Keeping
    <3>2. GetSem' + One(Unposted(t)') + taken' = stored'
      BY <1>4, <2>1, <2>3, <3>1 DEF Fits, One
    <3>3. SaveSem = MallocCnt - stored - 0 + taken - One(Keeping)
      BY <2>1, <2>3 DEF Fits, One
    <3>4. SaveSem' = MallocCnt - stored' - One(t'.pc = "copy") + taken' - One(Keeping')
      <4>1. SaveSem \in Nat /\ stored \in Nat /\ taken \in Nat /\ MallocCnt \in Nat
        BY RtpAssumption DEF RtpAssumption
      <4>2. /\ One(Keeping) \in {0, 1} /\ One(Keeping') = One(Keeping)
            /\ One(t'.pc = "copy") = 1
        BY <2>1, <3>1 DEF One
      <4>3. SaveSem' = SaveSem - 1 /\ stored' = stored /\ taken' = taken
        BY <1>4, <2>1
      <4> QED BY ONLY <3>3, <4>1, <4>2, <4>3
    <3>5. SaveIndex' = (stored' - One(Unmoved(t)')) % MallocCnt
      BY <2>1, <2>3, <3>1 DEF Fits, One
    <3>6. \A j \in taken' + 1 .. stored' : Buf'[(j - 1) % MallocCnt] = j
      BY <1>4, <2>1, <2>3 DEF Fits
    <3> QED BY <2>1, <3>1, <3>2, <3>4, <3>5, <3>6 DEF Fits
  <2>5. Ends(t)'
    BY <2>1 DEF Ends, Unposted
  <2> QED BY <2>2, <2>4, <2>5
<1>10. CASE Copied(c)
  <2>1. /\ UNCHANGED <<GetSem, SaveSem, SaveIndex>> /\ stored' = stored + 1
        /\ Buf' = [Buf EXCEPT ![t.slot] = stored + 1]
        /\ t.pc = "copy" /\ t'.pc = "save" /\ t'.size = t.size
    BY <1>10 DEF Copied, RtpStep
  <2>2. Fits(t) /\ t.slot = SaveIndex /\ t.size = 1
    BY <1>3, <2>1 DEF Running, Fits
  <2>3. /\ SaveIndex = stored % MallocCnt /\ GetSem = stored - taken
        /\ SaveSem = MallocCnt - stored - 1 + taken - One(Keeping)
    BY <2>1, <2>2 DEF Fits, Unmoved, Unposted, One
  <2>4. Buf'[stored % MallocCnt] = stored + 1
    BY <2>1, <2>2, <2>3
  <2>5. ASSUME NEW j \in taken + 1 .. stored
        PROVE  Buf'[(j - 1) % MallocCnt] = j
    <3> DEFINE a == j - 1
    <3>1. a \in Nat /\ a < stored /\ stored < a + MallocCnt
      BY <2>3, <2>5 DEF One
    <3> HIDE DEF a
    <3>2. a % MallocCnt # stored % MallocCnt
      BY <3>1, ModApart
    <3>3. a % MallocCnt \in Indexes
      BY <3>1, DivMod
    <3>4. Buf'[a % MallocCnt] = Buf[a % MallocCnt]
      BY <2>1, <2>2, <2>3, <3>2, <3>3
    <3>5. Buf[a % MallocCnt] = j
      BY <2>2 DEF Fits, a
    <3> QED BY <3>4, <3>5 DEF a
  <2>6. \A j \in taken' + 1 .. stored' : Buf'[(j - 1) % MallocCnt] = j
    <3> SUFFICES ASSUME NEW j \in taken + 1 .. stored + 1
                 PROVE  Buf'[(j - 1) % MallocCnt] = j
      BY <1>4, <2>1
    <3>1. CASE j = stored + 1
      <4>1. j - 1 = stored
        BY <3>1
      <4> QED BY <3>1, <4>1, <2>4
    <3>2. CASE j # stored + 1
      BY <3>2, <2>5
    <3> QED BY <3>1, <3>2
  <2>7. Follows'
    <3>1. \A j \in taken' + 1 .. stored' : Buf'[(j - 1) % MallocCnt] \in {0, j}
      BY ONLY <2>6
    <3>2. GetIndex' = (taken' - One(Behind')) % MallocCnt
      BY <1>3, <1>4 DEF Follows, Behind
    <3>3. GetSem' <= stored' - taken'
      <4>1. GetSem \in Nat /\ stored \in Nat /\ taken \in Nat
        OBVIOUS
      <4>2. GetSem' = GetSem /\ stored' = stored + 1 /\ taken' = taken
        BY ONLY <1>4, <2>1
      <4> QED BY ONLY <2>3, <4>1, <4>2
    <3>4. taken' <= stored' /\ (Behind' => taken' > 0)
      BY <1>3, <1>4, <2>1 DEF Follows, Behind
    <3>5. reader'.pc = "read" => reader'.slot = GetIndex'
      BY <1>3, <1>4 DEF Follows
    <3> QED BY ONLY <3>1, <3>2, <3>3, <3>4, <3>5 DEF Follows
  <2>8. Fits(t)'
    <3>1. SaveIndex' = (stored' - One(Unmoved(t)')) % MallocCnt
      <4>1. stored' - One(Unmoved(t)') = stored
        BY <2>1 DEF Unmoved, One
      <4> QED BY <2>1, <2>3, <4>1
    <3>2. stored \in Nat /\ taken' = taken /\ Keeping' = Keeping
      BY <1>4 DEF Keeping
    <3>3. /\ t'.pc = "save"
          /\ stored' = stored + 1 /\ GetSem' = GetSem /\ SaveSem' = SaveSem
      BY ONLY <2>1
    <3>4. Unmoved(t)' /\ Unposted(t)' /\ t'.pc # "copy"
      BY ONLY <3>3 DEF Unmoved, Unposted
    <3>5. GetSem' + One(Unposted(t)') + taken' = stored'
      <4>1. GetSem \in Nat /\ taken \in Nat
        OBVIOUS
      <4> QED BY ONLY <2>3, <3>2, <3>3, <3>4, <4>1 DEF One
    <3>6. SaveSem' = MallocCnt - stored' - One(t'.pc = "copy") + taken' - One(Keeping')
      <4>1. SaveSem \in Nat /\ taken \in Nat /\ MallocCnt \in Nat
        BY RtpAssumption DEF RtpAssumption
      <4>2. One(Keeping) \in {0, 1} /\ One(Keeping') = One(Keeping)
        BY ONLY <3>2 DEF One
      <4>3. One(t'.pc = "copy") = 0
        BY ONLY <3>4 DEF One
      <4> QED BY ONLY <2>3, <3>2, <3>3, <4>1, <4>2, <4>3
    <3>7. stored' > 0
      BY ONLY <3>2, <3>3
    <3> QED BY ONLY <2>6, <3>1, <3>4, <3>5, <3>6, <3>7 DEF Fits
  <2>9. Ends(t)'
    BY <2>1, <2>2 DEF Ends, Unposted
  <2> QED BY <2>7, <2>8, <2>9
<1>11. CASE SaveEnd(c)
  <2>1. Same /\ t.pc = "save" /\ t'.pc = "count" /\ t'.size = t.size
    BY <1>11 DEF SaveEnd, RtpStep
  <2> QED BY <1>3, <1>4, <1>5, <2>1 DEF Running, Fits, Ends, Unmoved, Unposted,
                                        Keeping, One
<1>12. CASE SaveCount(c) /\ t.size # 0
  <2>1. Same /\ t.pc = "count" /\ t'.pc = "post" /\ t'.size = t.size
    BY <1>12 DEF SaveCount, RtpStep
  <2> QED BY <1>3, <1>4, <1>5, <1>12, <2>1
          DEF Running, Fits, Ends, Unmoved, Unposted, Keeping, One
<1>13. CASE SaveCount(c) /\ t.size = 0
  <2>1. /\ UNCHANGED <<GetSem, SaveSem, SaveIndex, stored>>
        /\ Buf' = [Buf EXCEPT ![SaveIndex] = 0]
        /\ t.pc = "count" /\ t'.pc = "post" /\ t'.size = 0
    BY <1>13 DEF SaveCount, RtpStep
  <2>2. SaveIndex = stored % MallocCnt
    BY <1>3, <1>13, <2>1 DEF Ends, Unposted
  <2>3. Buf'[SaveIndex] = 0 /\ \A i \in Indexes : Buf'[i] \in {0, Buf[i]}
    BY <2>1
  <2>4. \A j \in taken + 1 .. stored : (j - 1) % MallocCnt \in Indexes
    <3> SUFFICES ASSUME NEW j \in taken + 1 .. stored
                 PROVE  (j - 1) % MallocCnt \in Indexes
      OBVIOUS
    <3>1. j - 1 \in Nat
      OBVIOUS
    <3> QED BY <3>1, DivMod
  <2>5. \A j \in taken + 1 .. stored : Buf'[(j - 1) % MallocCnt] \in {0, j}
    BY <1>3, <2>3, <2>4 DEF Follows
  <2>6. Follows'
    BY <1>3, <1>4, <2>1, <2>2, <2>3, <2>5 DEF Follows, Behind, One
  <2> QED BY <2>1, <2>2, <2>3, <2>6 DEF Running, Ends, Unmoved, Unposted
<1>14. CASE SavePost(c)
  <2>1. /\ UNCHANGED <<SaveSem, SaveIndex, Buf, stored>> /\ GetSem' = GetSem + 1
        /\ t.pc = "post" /\ t'.pc = "index" /\ t'.size = t.size
    BY <1>14 DEF SavePost, RtpStep
  <2>2. Buf[stored % MallocCnt] = 0 \/ GetSem + 1 <= stored - taken
    <3>1. CASE t.size = 0
      BY <1>3, <2>1, <3>1 DEF Ends, Unposted
    <3>2. CASE t.size = 1
      <4>1. Fits(t) /\ Unposted(t)
        BY <1>3, <2>1, <3>2 DEF Running, Unmoved, Unposted
      <4>2. GetSem <= stored - 1 - taken
        BY <4>1 DEF Fits, One
      <4> QED BY <4>2
    <3> QED BY <3>1, <3>2
  <2>3. Follows'
    BY <1>3, <1>4, <2>1, <2>2 DEF Follows, Behind, One
  <2> QED BY <1>3, <1>4, <2>1, <2>3
          DEF Running, Fits, Ends, Unmoved, Unposted, Keeping, One
<1>15. CASE SaveNext(c)
  <2>1. /\ UNCHANGED <<GetSem, SaveSem, Buf, stored>>
        /\ SaveIndex' = (SaveIndex + 1) % MallocCnt
        /\ t.pc = "index" /\ t'.pc = IF t.size = 0 THEN "exit" ELSE "loop"
    BY <1>15 DEF SaveNext, RtpStep, NextIndex
  <2>2. Follows'
    BY <1>3, <1>4, <2>1 DEF Follows, Behind, One
  <2>3. CASE t.size = 0
    BY <2>1, <2>2, <2>3 DEF Running, Ends, Unmoved, Unposted
  <2>4. CASE t.size # 0
    <3>1. Fits(t) /\ stored > 0 /\ SaveIndex = (stored - 1) % MallocCnt
      BY <1>3, <2>1, <2>4 DEF Running, Fits, Unmoved, One
    <3>2. SaveIndex' = stored % MallocCnt
      <4> DEFINE a == stored - 1
      <4>1. a \in Nat /\ a + 1 = stored /\ MallocCnt \in Nat \ {0}
        BY <3>1
      <4>2. SaveIndex' = (SaveIndex + 1) % MallocCnt /\ SaveIndex = a % MallocCnt
        BY <2>1, <3>1
      <4> HIDE DEF a
      <4>3. (a + 1) % MallocCnt = ((a % MallocCnt) + 1) % MallocCnt
        BY ONLY <4>1, ModNext
      <4> QED BY ONLY <4>1, <4>2, <4>3
    <3>3. SaveIndex' = (stored' - One(Unmoved(t)')) % MallocCnt
      <4>1. stored' - One(Unmoved(t)') = stored
        BY <2>1, <2>4 DEF Unmoved, One
      <4> QED BY ONLY <3>2, <4>1
    <3>4. Fits(t)'
      BY <1>4, <2>1, <2>4, <3>1, <3>3 DEF Fits, Unmoved, Unposted, Keeping, One
    <3> QED BY <2>1, <2>2, <2>4, <3>4 DEF Ends, Unposted
  <2> QED BY <2>3, <2>4
<1> QED BY <1>6, <1>7, <1>8, <1>9, <1>10, <1>11, <1>12, <1>13, <1>14, <1>15 DEF Rtp

-----------------------------------------------------------------------------
(* The theorems                                                            *)

LEMMA InvInit == Init => IInv
<1> SUFFICES ASSUME Init PROVE IInv
  OBVIOUS
<1>1. ~created /\ Living = {} /\ builder = "idle" /\ reader.pc = "idle"
  BY DEF Init, Living, At, Thread
<1> QED BY <1>1 DEF IInv, OneSession, RingInv

LEMMA InvNext == TypeOK /\ IInv /\ [Next]_vars => IInv'
<1> SUFFICES ASSUME TypeOK, IInv, [Next]_vars, ~Disturbed' PROVE OneSession' /\ RingInv'
  BY DEF IInv
<1>1. ~Disturbed
  BY DEF Next, vars, hist, ring, flags, Disturbed, TypeOK, FlagTypes, Builder,
         BuildConnect,
         RtpThreadCreate, SpiThreadCreate, Reader, GetVideo, GetStart, GetEnd, GetCount,
         GetPost, GetNext, GetStep, Closer, CloseBegin, CloseMemory, Destroy, Rtp, RtpAbort,
         RtpReceive, RtpTerminated, RtpExit, SaveStart, Copied, SaveEnd, SaveCount,
         SavePost, SaveNext, RtpStep, SpiExit
<1>2. OneSession /\ RingInv /\ FlagTypes /\ ValueTypes
  BY <1>1 DEF IInv, TypeOK
<1>3. OneSession'
  BY <1>1, <1>2, SessionNext
<1>4. CASE Builder
  BY <1>2, <1>3, <1>4, BuilderNext DEF Disturbed
<1>5. CASE Reader
  BY <1>2, <1>3, <1>5, DecoderNext
<1>6. CASE Closer
  BY <1>2, <1>3, <1>6, CloserNext
<1>7. ASSUME NEW c \in Connects, Rtp(c) PROVE RingInv'
  BY <1>2, <1>7, ReceiverNext
<1>8. ASSUME NEW c \in Connects, SpiExit(c) PROVE RingInv'
  <2>1. UNCHANGED <<Seen, rtp, builder>>
    BY <1>8 DEF SpiExit, ring, Seen
  <2> QED BY <1>2, <2>1, RingUnchanged DEF Living
<1>9. CASE UNCHANGED vars
  <2>1. UNCHANGED <<Seen, rtp, builder>>
    BY <1>9 DEF vars, ring, Seen, control
  <2> QED BY <1>2, <1>3, <2>1, RingUnchanged DEF Living
<1> QED BY <1>3, <1>4, <1>5, <1>6, <1>7, <1>8, <1>9 DEF Next

\* While a connection is neither overlapped nor freed under the decoder, its
\* one RTP thread, the decoder, the permits and the indexes follow the frames.
THEOREM InvCorrect == Spec => [](TypeOK /\ IInv)
<1>1. Init => TypeOK /\ IInv
  BY TypeInit, InvInit
<1>2. TypeOK /\ IInv /\ [Next]_vars => (TypeOK /\ IInv)'
  BY FlagTypesNext, ValueTypesNext, InvNext DEF TypeOK
<1> QED BY <1>1, <1>2, PTL DEF Spec

\* The RTP thread never copies a frame into the buffer the decoder copies from.
THEOREM SlotsCorrect == Spec => []SlotsApart
<1>1. TypeOK /\ IInv => SlotsApart
  <2> SUFFICES ASSUME TypeOK, IInv, ~Disturbed, NEW c \in Connects,
                      rtp[c].pc = "copy", reader.pc = "read"
               PROVE  rtp[c].slot # reader.slot
    BY DEF SlotsApart
  <2>1. ValueTypes /\ OneSession /\ RingInv /\ c \in Living
    BY DEF TypeOK, IInv, Living
  <2>2. created /\ ~Terminate
    BY <2>1 DEF OneSession
  <2>3. Follows /\ Fits(rtp[c])
    BY <2>1, <2>2 DEF RingInv, Running
  <2> DEFINE a == taken - 1
  <2>4. reader.slot = a % MallocCnt /\ rtp[c].slot = stored % MallocCnt
    BY <2>1, <2>3 DEF Follows, Fits, Behind, Unmoved, One, ValueTypes
  <2>5. a \in Nat /\ a < stored /\ stored < a + MallocCnt
    <3>1. taken > 0 /\ taken <= stored /\ SaveSem = MallocCnt - stored - 1 + taken - 1
      BY <2>3 DEF Follows, Fits, Behind, Keeping, One
    <3> QED BY <2>1, <3>1 DEF ValueTypes
  <2>6. stored \in Nat
    BY <2>1 DEF ValueTypes
  <2> HIDE DEF a
  <2> QED BY <2>4, <2>5, <2>6, ModApart
<1> QED BY <1>1, InvCorrect, PTL

\* Frames are decoded in the order they came, each of them once.
THEOREM OrderCorrect == Spec => FramesInOrder
<1> DEFINE Ordered == taken' # taken /\ created /\ ~Terminate /\ ~Disturbed => taken' = taken + 1
<1>1. TypeOK /\ IInv /\ [Next]_vars => [Ordered]_vars
  <2> SUFFICES ASSUME TypeOK, IInv, Next, taken' # taken, created, ~Terminate, ~Disturbed
               PROVE  taken' = taken + 1
    OBVIOUS
  <2>1. ValueTypes /\ Follows
    BY DEF TypeOK, IInv, RingInv
  <2>2. GetStart /\ Buf[GetIndex] # 0
    <3>1. ~Builder
      BY DEF Builder, BuildConnect, CreateRing, RtpThreadCreate, SpiThreadCreate
    <3>2. ~Closer
      BY DEF Closer, CloseBegin, CloseMemory, Destroy
    <3>3. \A c \in Connects : ~Rtp(c) /\ ~SpiExit(c)
      BY DEF Rtp, RtpAbort, RtpReceive, RtpTerminated, RtpExit, SaveStart, Copied,
             SaveEnd,
             SaveCount, SavePost, SaveNext, RtpStep, SpiExit
    <3>4. Reader
      BY <3>1, <3>2, <3>3 DEF Next
    <3> QED BY <3>4 DEF Reader, GetVideo, GetStart, GetEnd, GetCount, GetPost, GetNext
  <2>3. /\ reader.pc = "wait" /\ GetSem > 0 /\ taken' = Buf[GetIndex]
    BY <2>2 DEF GetStart
  <2>4. GetIndex = taken % MallocCnt
    BY <2>1, <2>3 DEF Follows, Behind, One, ValueTypes
  <2>5. taken + 1 \in taken + 1 .. stored
    <3>1. stored # taken
      <4> SUFFICES ASSUME stored = taken PROVE FALSE
        OBVIOUS
      <4>1. Buf[stored % MallocCnt] # 0
        BY <2>2, <2>4
      <4>2. GetSem <= stored - taken
        BY <2>1, <4>1 DEF Follows
      <4> QED BY <2>1, <2>3, <4>2 DEF ValueTypes
    <3> QED BY <2>1, <3>1 DEF Follows, ValueTypes
  <2>6. Buf[((taken + 1) - 1) % MallocCnt] \in {0, taken + 1}
    BY <2>1, <2>5 DEF Follows
  <2>7. (taken + 1) - 1 = taken
    BY <2>1 DEF ValueTypes
  <2> QED BY <2>2, <2>3, <2>4, <2>6, <2>7
<1> QED BY <1>1, InvCorrect, PTL DEF Spec, FramesInOrder

\* The ring stays open, and no close empties it, while an RTP thread lives.
THEOREM OutlivesCorrect == Spec => []RingOutlivesThread
<1>1. IInv => RingOutlivesThread
  BY DEF IInv, OneSession, RingOutlivesThread
<1> QED BY <1>1, InvCorrect, PTL

-----------------------------------------------------------------------------
(* WriteCnt                                                                *)

\* The RTP thread has not yet counted the frame it stores.
Storing(t) == t.pc \in {"copy", "save"} \/ (t.pc = "count" /\ t.seen < MallocCnt)

\* WriteCnt loses updates, but it is not 0 in a ring that is full for good: if
\* it is 0 there is a free buffer, or a frame is about to be counted, or the
\* decoder is about to give a buffer back.
CountInv ==
  ~Disturbed /\ created /\ ~Terminate /\ WriteCnt = 0 =>
    \/ SaveSem > 0
    \/ \E c \in Connects : Storing(rtp[c])
    \/ reader.pc = "post"

\* A step keeps the frames that are about to be counted if it moves no RTP
\* thread.
LEMMA CountFrame ==
  ASSUME CountInv, UNCHANGED <<created, Terminate, WriteCnt, rtp>>,
         ~Disturbed' => ~Disturbed, SaveSem > 0 => SaveSem' > 0,
         reader.pc = "post" => reader'.pc = "post" \/ SaveSem' > 0
  PROVE  CountInv'
BY Zenon DEF CountInv

LEMMA CountReceiver ==
  ASSUME ValueTypes, CountInv, NEW c \in Connects, Rtp(c)
  PROVE  CountInv'
<1> USE DEF ValueTypes, At, To, Saw, Thread, Threads, PCs
<1>1. /\ UNCHANGED <<created, Terminate, reader>> /\ Disturbed' = Disturbed
      /\ \A d \in Connects : d # c => rtp'[d] = rtp[d]
  <2>1. \A d \in Connects : d # c => rtp'[d] = rtp[d]
    BY DEF Rtp, RtpAbort, RtpReceive, RtpTerminated, RtpExit, SaveStart, Copied,
           SaveEnd, SaveCount, SavePost, SaveNext
  <2>2. UNCHANGED <<created, Terminate, reader, overlapped, freed>>
    BY DEF Rtp, RtpAbort, RtpReceive, RtpTerminated, RtpExit, SaveStart, Copied,
           SaveEnd, SaveCount, SavePost, SaveNext, RtpStep, hist
  <2> QED BY <2>1, <2>2 DEF Disturbed
<1>2. SUFFICES ASSUME ~Disturbed, created, ~Terminate, WriteCnt' = 0
               PROVE  \/ SaveSem' > 0
                      \/ \E d \in Connects : Storing(rtp'[d])
                      \/ reader'.pc = "post"
  BY <1>1 DEF CountInv, Storing
<1>3. WriteCnt = 0 =>
        SaveSem > 0 \/ (\E d \in Connects : Storing(rtp[d])) \/ reader.pc = "post"
  BY <1>2 DEF CountInv
<1>4. CASE Storing(rtp'[c])
  BY <1>4
<1>5. CASE ~Storing(rtp'[c])
  <2>1. SaveSem' = SaveSem
    BY <1>5 DEF Rtp, RtpAbort, RtpReceive, RtpTerminated, RtpExit, SaveStart, Copied,
                SaveEnd, SaveCount, SavePost, SaveNext, RtpStep, Storing
  <2>2. ~Storing(rtp[c]) /\ WriteCnt' = WriteCnt
    <3>1. CASE SaveCount(c)
      BY <1>2, <3>1 DEF SaveCount, Storing
    <3>2. CASE SaveEnd(c)
      BY <1>2, <1>5, <3>2 DEF SaveEnd, Storing
    <3>3. CASE Copied(c)
      BY <1>5, <3>3 DEF Copied, Storing
    <3>4. CASE SaveStart(c)
      BY <1>5, <3>4 DEF SaveStart, Storing
    <3>5. CASE \/ RtpAbort(c) \/ RtpReceive(c) \/ RtpTerminated(c) \/ RtpExit(c)
               \/ SavePost(c) \/ SaveNext(c)
      BY <3>5 DEF RtpAbort, RtpReceive, RtpTerminated, RtpExit, SavePost, SaveNext,
                  Storing
    <3> QED BY <3>1, <3>2, <3>3, <3>4, <3>5 DEF Rtp
  <2>3. \A d \in Connects : Storing(rtp[d]) => Storing(rtp'[d])
    BY <1>1, <2>2
  <2> QED BY <1>1, <1>2, <1>3, <2>1, <2>2, <2>3
<1> QED BY <1>4, <1>5

LEMMA CountNext == TypeOK /\ IInv /\ CountInv /\ [Next]_vars => CountInv'
<1> SUFFICES ASSUME TypeOK, IInv, CountInv, [Next]_vars PROVE CountInv'
  OBVIOUS
<1> USE DEF TypeOK, ValueTypes, FlagTypes, At, To, Saw, Thread, Threads, PCs, ring,
            indexes, flags, control, hist, Disturbed
<1>1. CASE BuildConnect
  <2>1. CASE created
    <3>1. overlapped'
      BY <1>1, <2>1 DEF BuildConnect
    <3> QED BY <3>1 DEF CountInv
  <2>2. CASE ~created
    <3>1. SaveSem' = MallocCnt
      BY <1>1, <2>2 DEF BuildConnect, CreateRing, Empty
    <3> QED BY <3>1 DEF CountInv
  <2> QED BY <2>1, <2>2
<1>2. CASE RtpThreadCreate
  <2>1. UNCHANGED <<created, Terminate, WriteCnt, SaveSem, reader, overlapped, freed>>
        /\ \A d \in Connects : d # connects => rtp'[d] = rtp[d]
    BY <1>2 DEF RtpThreadCreate
  <2>2. ~Disturbed => ~Storing(rtp[connects]) \/ connects \notin Connects
    <3> SUFFICES ASSUME ~Disturbed, connects \in Connects
                 PROVE  ~Storing(rtp[connects])
      OBVIOUS
    <3>1. Living = {}
      BY <1>2 DEF IInv, OneSession, RtpThreadCreate
    <3> QED BY <3>1 DEF Living, Storing
  <2> QED BY <2>1, <2>2 DEF CountInv, Storing
<1>3. CASE SpiThreadCreate
  BY <1>3, CountFrame DEF SpiThreadCreate
<1>4. CASE GetVideo
  BY <1>4, CountFrame DEF GetVideo, GetStep
<1>5. CASE GetStart
  BY <1>5, CountFrame DEF GetStart, GetStep
<1>6. CASE GetEnd
  BY <1>6, CountFrame DEF GetEnd, GetStep
<1>7. CASE GetCount
  <2>1. reader'.pc = "post"
    BY <1>7 DEF GetCount
  <2> QED BY <2>1 DEF CountInv
<1>8. CASE GetPost
  <2>1. SaveSem' > 0
    BY <1>8 DEF GetPost
  <2> QED BY <2>1 DEF CountInv
<1>9. CASE GetNext
  BY <1>9, CountFrame DEF GetNext, GetStep
<1>10. CASE CloseBegin
  BY <1>10, CountFrame DEF CloseBegin
<1>11. CASE CloseMemory
  <2>1. created' => Terminate'
    BY <1>11 DEF CloseMemory
  <2> QED BY <2>1 DEF CountInv
<1>12. CASE Destroy
  <2>1. ~created'
    BY <1>12 DEF Destroy
  <2> QED BY <2>1 DEF CountInv
<1>13. ASSUME NEW c \in Connects, Rtp(c) PROVE CountInv'
  BY <1>13, CountReceiver
<1>14. ASSUME NEW c \in Connects, SpiExit(c) PROVE CountInv'
  BY <1>14, CountFrame DEF SpiExit
<1>15. CASE UNCHANGED vars
  BY <1>15, CountFrame DEF vars
<1> QED BY <1>1, <1>2, <1>3, <1>4, <1>5, <1>6, <1>7, <1>8, <1>9, <1>10, <1>11, <1>12,
           <1>13, <1>14, <1>15 DEF Next, Builder, Reader, Closer

\* The RTP thread and the decoder are never both stuck, so a close always has
\* a thread that can go on: the safety half of CloseEnds.
THEOREM NeverStuckCorrect == Spec => []RingNeverStuck
<1>1. Init => CountInv
  BY DEF Init, CountInv
<1>2. TypeOK /\ IInv /\ CountInv => RingNeverStuck
  <2> SUFFICES ASSUME TypeOK, IInv, CountInv, ~Disturbed, NEW c \in Connects,
                      rtp[c].pc = "wait", SaveSem = 0
               PROVE  DecoderGoesOn
    BY DEF RingNeverStuck
  <2>1. ValueTypes /\ OneSession /\ RingInv /\ c \in Living
    BY DEF TypeOK, IInv, Living
  <2>2. created /\ ~Terminate /\ \A d \in Living : d = c
    BY <2>1 DEF OneSession
  <2>3. \A d \in Connects : ~Storing(rtp[d])
    BY <2>2 DEF Living, Storing
  <2>4. ASSUME reader.pc = "idle" PROVE WriteCnt > 0
    BY <2>1, <2>2, <2>3, <2>4 DEF CountInv, ValueTypes
  <2>5. ASSUME reader.pc = "wait" PROVE GetSem > 0
    <3>1. Fits(rtp[c])
      BY <2>1, <2>2 DEF RingInv, Running
    <3>2. GetSem + 0 + taken = stored /\ SaveSem = MallocCnt - stored - 0 + taken - 0
      BY <2>5, <3>1 DEF Fits, Unposted, Keeping, One
    <3> QED BY <2>1, <3>2 DEF ValueTypes
  <2> QED BY <2>4, <2>5 DEF DecoderGoesOn
<1> QED BY <1>1, <1>2, CountNext, InvCorrect, PTL DEF Spec
=============================================================================
