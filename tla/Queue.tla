------------------------------- MODULE Queue -------------------------------
(***************************************************************************)
(* The blocking command queue of src/src/drivers/queue.c (QUEUE_BLOCK):    *)
(* every state machine, the UDP server, the video server and the report    *)
(* threads hand their messages over through one of these.                  *)
(*                                                                         *)
(* The ring of MAX_COMMAND_QUEUE_SIZE slots is guarded by a recursive      *)
(* mutex and counted by a semaphore, but queuePost and queueGet both read  *)
(* current_length before they take the mutex.  Nothing else is read        *)
(* outside the mutex, so the code between lock and unlock is one step; the *)
(* unlocked read, the critical section and the semaphore call are steps of *)
(* their own.                                                              *)
(*                                                                         *)
(* A message is abstracted to its stamp: the number of messages written    *)
(* into the ring up to and including it.                                   *)
(***************************************************************************)
EXTENDS Integers, FiniteSets

CONSTANTS
  MAX_COMMAND_QUEUE_SIZE,  \* slots of the ring
  Posters,                 \* threads that call queuePost
  Getters,                 \* threads that call queueGet
  NoThread,                \* the mutex is free
  MaxPosts,                \* bound: messages written in a behaviour
  MaxAllocFailures         \* bound: calloc calls that return NULL

ASSUME QueueAssumption ==
  /\ MAX_COMMAND_QUEUE_SIZE \in Nat \ {0}
  /\ MaxPosts \in Nat
  /\ MaxAllocFailures \in Nat
  /\ IsFiniteSet(Posters) /\ IsFiniteSet(Getters)
  /\ Posters \cap Getters = {}
  /\ NoThread \notin Posters \cup Getters

VARIABLES
  buf,             \* buf[i]: the stamp stored in slot i, 0 for NULL
  current_length,
  index_post,
  index_get,
  sem,             \* value of the counting semaphore
  mutex,           \* thread that holds the mutex for good, or NoThread
  pc,              \* where each thread is
  written,         \* stamp of the last message written (history)
  taken,           \* messages taken out so far (history)
  lastTaken,       \* stamp of the last message taken out, 0 at first (history)
  dropped,         \* a post found the queue full and returned (history)
  gotNothing,      \* a get returned without a message (history)
  overrun,         \* a post wrote into a full ring (history)
  crashed,         \* a get copied from a NULL slot: the process is gone
  allocFailures

vars == <<buf, current_length, index_post, index_get, sem, mutex, pc, written,
          taken, lastTaken, dropped, gotNothing, overrun, crashed,
          allocFailures>>

ring    == <<buf, current_length, index_post, index_get>>
outcome == <<written, taken, lastTaken, crashed>>

Threads == Posters \cup Getters
Slots   == 0 .. MAX_COMMAND_QUEUE_SIZE - 1
NULL    == 0

\* Mutant of Wrap: the test is > instead of >=.
WrapLate(index) == IF index > MAX_COMMAND_QUEUE_SIZE THEN 0 ELSE index

\* Both indices are wrapped just before they are used, so they may be left
\* one past the last slot.
Wrap(index) == IF index >= MAX_COMMAND_QUEUE_SIZE THEN 0 ELSE index

\* Thread t may enter a critical section: the mutex is free, or t still owns
\* it (the mutex is recursive).
MayLock(t) == mutex \in {NoThread, t}

Goto(t, label) == pc' = [pc EXCEPT ![t] = label]

Init ==
  /\ buf = [i \in Slots |-> NULL]
  /\ current_length = 0
  /\ index_post = 0
  /\ index_get = 0
  /\ sem = 0
  /\ mutex = NoThread
  /\ pc = [t \in Threads |-> "idle"]
  /\ written = 0
  /\ taken = 0
  /\ lastTaken = 0
  /\ dropped = FALSE
  /\ gotNothing = FALSE
  /\ overrun = FALSE
  /\ crashed = FALSE
  /\ allocFailures = 0

-----------------------------------------------------------------------------
(* queuePost *)

\* Mutant of PostCheck: the test is > instead of >=.
PostCheckLate(p) ==
  /\ pc[p] = "idle"
  /\ written < MaxPosts
  /\ IF current_length > MAX_COMMAND_QUEUE_SIZE
     THEN dropped' = TRUE /\ UNCHANGED pc
     ELSE Goto(p, "write") /\ UNCHANGED dropped
  /\ UNCHANGED <<ring, sem, mutex, outcome, gotNothing, overrun,
                 allocFailures>>

\* The unlocked test: a full queue drops the message and the call returns.
PostCheck(p) ==
  /\ pc[p] = "idle"
  /\ written < MaxPosts
  /\ \/ /\ current_length >= MAX_COMMAND_QUEUE_SIZE
        /\ dropped' = TRUE
        /\ UNCHANGED pc
     \/ /\ current_length < MAX_COMMAND_QUEUE_SIZE
        /\ Goto(p, "write")
        /\ UNCHANGED dropped
  /\ UNCHANGED <<ring, sem, mutex, outcome, gotNothing, overrun,
                 allocFailures>>

\* Mutant of PostWrite: index_post is not advanced.
PostWriteInPlace(p) ==
  /\ pc[p] = "write"
  /\ MayLock(p)
  /\ index_post' = Wrap(index_post)
  /\ buf' = [buf EXCEPT ![Wrap(index_post)] = written + 1]
  /\ current_length' = current_length + 1
  /\ written' = written + 1
  /\ overrun' = (overrun \/ current_length >= MAX_COMMAND_QUEUE_SIZE)
  /\ Goto(p, "semPost")
  /\ UNCHANGED <<index_get, sem, mutex, taken, lastTaken, dropped, gotNothing,
                 crashed, allocFailures>>

\* lock; wrap; store a copy; advance; unlock.
PostWrite(p) ==
  /\ pc[p] = "write"
  /\ MayLock(p)
  /\ index_post' = Wrap(index_post) + 1
  /\ buf' = [buf EXCEPT ![Wrap(index_post)] = written + 1]
  /\ current_length' = current_length + 1
  /\ written' = written + 1
  /\ overrun' = (overrun \/ current_length >= MAX_COMMAND_QUEUE_SIZE)
  /\ Goto(p, "semPost")
  /\ UNCHANGED <<index_get, sem, mutex, taken, lastTaken, dropped, gotNothing,
                 crashed, allocFailures>>

\* Mutant of PostNoMemory: the length is counted although nothing is stored.
PostNoMemoryCounted(p) ==
  /\ pc[p] = "write"
  /\ MayLock(p)
  /\ allocFailures < MaxAllocFailures
  /\ allocFailures' = allocFailures + 1
  /\ index_post' = Wrap(index_post) + 1
  /\ buf' = [buf EXCEPT ![Wrap(index_post)] = NULL]
  /\ current_length' = current_length + 1
  /\ overrun' = (overrun \/ current_length >= MAX_COMMAND_QUEUE_SIZE)
  /\ mutex' = p
  /\ Goto(p, "semPost")
  /\ UNCHANGED <<index_get, sem, outcome, dropped, gotNothing>>

\* calloc returns NULL: the slot is NULL, the wrapped index is kept, and the
\* function returns with the mutex still locked.
PostNoMemory(p) ==
  /\ pc[p] = "write"
  /\ MayLock(p)
  /\ allocFailures < MaxAllocFailures
  /\ allocFailures' = allocFailures + 1
  /\ index_post' = Wrap(index_post)
  /\ buf' = [buf EXCEPT ![Wrap(index_post)] = NULL]
  /\ overrun' = (overrun \/ current_length >= MAX_COMMAND_QUEUE_SIZE)
  /\ mutex' = p
  /\ Goto(p, "idle")
  /\ UNCHANGED <<current_length, index_get, sem, outcome, dropped, gotNothing>>

SemPost(p) ==
  /\ pc[p] = "semPost"
  /\ sem' = sem + 1
  /\ Goto(p, "idle")
  /\ UNCHANGED <<ring, mutex, outcome, dropped, gotNothing, overrun,
                 allocFailures>>

-----------------------------------------------------------------------------
(* queueGet *)

\* Mutant of SemWait: the token is not consumed (sem_getvalue for sem_wait).
SemPeek(g) ==
  /\ pc[g] = "idle"
  /\ sem > 0
  /\ Goto(g, "check")
  /\ UNCHANGED <<ring, sem, mutex, outcome, dropped, gotNothing, overrun,
                 allocFailures>>

\* sem_wait consumes a token.
SemWait(g) ==
  /\ pc[g] = "idle"
  /\ sem > 0
  /\ sem' = sem - 1
  /\ Goto(g, "check")
  /\ UNCHANGED <<ring, mutex, outcome, dropped, gotNothing, overrun,
                 allocFailures>>

\* The unlocked test: an empty queue returns 0 like a success and leaves the
\* caller's buffer alone.
GetCheck(g) ==
  /\ pc[g] = "check"
  /\ \/ /\ current_length = 0
        /\ gotNothing' = TRUE
        /\ Goto(g, "idle")
     \/ /\ current_length # 0
        /\ Goto(g, "read")
        /\ UNCHANGED gotNothing
  /\ UNCHANGED <<ring, sem, mutex, outcome, dropped, overrun, allocFailures>>

\* Mutant of GetRead: the freed slot is not cleared.
GetReadKeep(g) ==
  /\ pc[g] = "read"
  /\ MayLock(g)
  /\ buf[Wrap(index_get)] # NULL
  /\ lastTaken' = buf[Wrap(index_get)]
  /\ index_get' = Wrap(index_get) + 1
  /\ current_length' = current_length - 1
  /\ taken' = taken + 1
  /\ Goto(g, "idle")
  /\ UNCHANGED <<buf, index_post, sem, mutex, written, dropped, gotNothing,
                 overrun, crashed, allocFailures>>

\* lock; wrap; copy out, free and clear the slot; advance; unlock.
GetRead(g) ==
  /\ pc[g] = "read"
  /\ MayLock(g)
  /\ buf[Wrap(index_get)] # NULL
  /\ lastTaken' = buf[Wrap(index_get)]
  /\ buf' = [buf EXCEPT ![Wrap(index_get)] = NULL]
  /\ index_get' = Wrap(index_get) + 1
  /\ current_length' = current_length - 1
  /\ taken' = taken + 1
  /\ Goto(g, "idle")
  /\ UNCHANGED <<index_post, sem, mutex, written, dropped, gotNothing, overrun,
                 crashed, allocFailures>>

\* memcpy from a NULL slot: the process dies.
GetReadNull(g) ==
  /\ pc[g] = "read"
  /\ MayLock(g)
  /\ buf[Wrap(index_get)] = NULL
  /\ crashed' = TRUE
  /\ UNCHANGED <<ring, sem, mutex, pc, written, taken, lastTaken, dropped,
                 gotNothing, overrun, allocFailures>>

-----------------------------------------------------------------------------
Post(p) == PostCheck(p) \/ PostWrite(p) \/ PostNoMemory(p) \/ SemPost(p)

Get(g) == SemWait(g) \/ GetCheck(g) \/ GetRead(g) \/ GetReadNull(g)

Next ==
  /\ ~crashed
  /\ \/ \E p \in Posters : Post(p)
     \/ \E g \in Getters : Get(g)

Spec == Init /\ [][Next]_vars

\* A thread inside queuePost or queueGet keeps running; nobody is obliged to
\* call queuePost.
Fairness ==
  /\ \A p \in Posters : WF_vars(~crashed /\ (PostWrite(p) \/ SemPost(p)))
  /\ \A g \in Getters : WF_vars(~crashed /\ Get(g))

FairSpec == Spec /\ Fairness

-----------------------------------------------------------------------------
PosterLabels == {"idle", "write", "semPost"}
GetterLabels == {"idle", "check", "read"}

TypeOK ==
  /\ buf \in [Slots -> Nat]
  /\ current_length \in Int
  /\ index_post \in 0 .. MAX_COMMAND_QUEUE_SIZE
  /\ index_get \in 0 .. MAX_COMMAND_QUEUE_SIZE
  /\ sem \in Nat
  /\ mutex \in Posters \cup {NoThread}
  /\ pc \in [Threads -> PosterLabels \cup GetterLabels]
  /\ \A p \in Posters : pc[p] \in PosterLabels
  /\ \A g \in Getters : pc[g] \in GetterLabels
  /\ written \in Nat
  /\ taken \in Nat
  /\ lastTaken \in Nat
  /\ dropped \in BOOLEAN
  /\ gotNothing \in BOOLEAN
  /\ overrun \in BOOLEAN
  /\ crashed \in BOOLEAN
  /\ allocFailures \in Nat

Writing   == {p \in Posters : pc[p] = "write"}
Signaling == {p \in Posters : pc[p] = "semPost"}
Taking    == {g \in Getters : pc[g] \in {"check", "read"}}

\* The slot the k-th oldest stored message is in, k from 0.
SlotOf(k) ==
  IF index_get + k < MAX_COMMAND_QUEUE_SIZE
  THEN index_get + k
  ELSE index_get + k - MAX_COMMAND_QUEUE_SIZE

-----------------------------------------------------------------------------
\* However many threads race past the unlocked full test, the length exceeds
\* the ring by less than the number of racing posters (queue.c:120-137).
OverrunIsBounded ==
  current_length <= MAX_COMMAND_QUEUE_SIZE + Cardinality(Posters) - 1

\* Until a post has written into a full ring, the ring holds exactly the
\* messages written and not yet taken, oldest at index_get, one per slot: none
\* lost, none twice, none out of order (queue.c:124-137, 154-163).
RingHoldsTheUnread ==
  ~overrun =>
    /\ current_length = written - taken
    /\ current_length \in 0 .. MAX_COMMAND_QUEUE_SIZE
    /\ \A k \in 0 .. current_length - 1 : buf[SlotOf(k)] = taken + k + 1
    /\ \A k \in current_length .. MAX_COMMAND_QUEUE_SIZE - 1 :
          buf[SlotOf(k)] = NULL

\* Every semaphore token, every getter that consumed one and every poster
\* about to add one stands for a message counted in current_length, so the
\* unlocked empty test never fires; and until a post has written into a full
\* ring no getter copies from a NULL slot (queue.c:137-161).
TokensAreMessages ==
  /\ current_length = sem + Cardinality(Taking) + Cardinality(Signaling)
  /\ ~gotNothing
  /\ ~overrun => ~crashed

\* A queue with one posting thread never writes into a full ring: the message
\* is dropped instead.
SinglePosterNeverOverruns ==
  Cardinality(Posters) <= 1 => ~overrun

\* Messages leave in the order in which they were written.
LeavesInOrder ==
  [][~overrun /\ taken' # taken => lastTaken' = lastTaken + 1]_vars

\* The queue as its callers see it: a bounded channel that delivers in order,
\* refuses a message only when it is full and delivers what it accepted.
Channel == INSTANCE Fifo WITH
  Capacity <- MAX_COMMAND_QUEUE_SIZE,
  chan     <- [k \in 1 .. current_length |-> buf[SlotOf(k - 1)]],
  accepted <- written,
  out      <- lastTaken,
  refused  <- dropped

ImplementsFifo == Channel!FairSpec

\* However many threads post and get, until a post has written into a full
\* ring each of their steps is one step of the channel or none: only the write
\* accepts, only the unlocked full test refuses, only the read delivers, and a
\* failed calloc does not show (queue.c:114-166).
FifoUntilOverrun == [][~overrun' => [Channel!Next]_(Channel!vars)]_vars
=============================================================================
