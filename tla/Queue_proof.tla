---------------------------- MODULE Queue_proof ----------------------------
(***************************************************************************)
(* Proofs about the command queue for every capacity, every finite set of  *)
(* posting and getting threads and any number of failing allocations.      *)
(***************************************************************************)
EXTENDS Queue, Sequences, SequenceTheorems, FiniteSetTheorems, TLAPS

-----------------------------------------------------------------------------
\* Every variable of the queue keeps its type (queue.c:51-66): in particular
\* both indices stay within one past the ring, so every access is in bounds.
THEOREM TypeCorrect == Spec => []TypeOK
<1> USE QueueAssumption DEF QueueAssumption
<1>1. Init => TypeOK
  <2> SUFFICES ASSUME Init
               PROVE  TypeOK
    OBVIOUS
  <2> USE DEF Init, Slots, Threads, PosterLabels, GetterLabels, NULL
  <2>1. buf \in [Slots -> Nat]
    OBVIOUS
  <2>2. pc \in [Threads -> PosterLabels \cup GetterLabels]
    OBVIOUS
  <2>3. /\ \A p \in Posters : pc[p] \in PosterLabels
        /\ \A g \in Getters : pc[g] \in GetterLabels
    OBVIOUS
  <2>4. /\ current_length \in Int /\ sem \in Nat
        /\ index_post \in 0 .. MAX_COMMAND_QUEUE_SIZE
        /\ index_get \in 0 .. MAX_COMMAND_QUEUE_SIZE
        /\ mutex \in Posters \cup {NoThread}
        /\ written \in Nat /\ taken \in Nat /\ lastTaken \in Nat
        /\ allocFailures \in Nat
    OBVIOUS
  <2>5. /\ dropped \in BOOLEAN /\ gotNothing \in BOOLEAN
        /\ overrun \in BOOLEAN /\ crashed \in BOOLEAN
    BY Zenon
  <2>6. QED
    BY <2>1, <2>2, <2>3, <2>4, <2>5 DEF TypeOK
<1>2. TypeOK /\ [Next]_vars => TypeOK'
  <2> SUFFICES ASSUME TypeOK, [Next]_vars
               PROVE  TypeOK'
    OBVIOUS
  <2> USE DEF TypeOK, Slots, Threads, PosterLabels, GetterLabels, NULL
  <2>1. ASSUME NEW p \in Posters, PostCheck(p)
        PROVE  TypeOK'
    BY <2>1 DEF PostCheck, Goto, ring, outcome
  <2>2. ASSUME NEW p \in Posters, PostWrite(p)
        PROVE  TypeOK'
    BY <2>2 DEF PostWrite, Goto, Wrap
  <2>3. ASSUME NEW p \in Posters, PostNoMemory(p)
        PROVE  TypeOK'
    BY <2>3 DEF PostNoMemory, Goto, Wrap, outcome
  <2>4. ASSUME NEW p \in Posters, SemPost(p)
        PROVE  TypeOK'
    BY <2>4 DEF SemPost, Goto, ring, outcome
  <2>5. ASSUME NEW g \in Getters, SemWait(g)
        PROVE  TypeOK'
    BY <2>5 DEF SemWait, Goto, ring, outcome
  <2>6. ASSUME NEW g \in Getters, GetCheck(g)
        PROVE  TypeOK'
    BY <2>6 DEF GetCheck, Goto, ring, outcome
  <2>7. ASSUME NEW g \in Getters, GetRead(g)
        PROVE  TypeOK'
    BY <2>7 DEF GetRead, Goto, Wrap
  <2>8. ASSUME NEW g \in Getters, GetReadNull(g)
        PROVE  TypeOK'
    BY <2>8 DEF GetReadNull, ring
  <2>9. CASE UNCHANGED vars
    BY <2>9 DEF vars
  <2>10. QED
    BY <2>1, <2>2, <2>3, <2>4, <2>5, <2>6, <2>7, <2>8, <2>9
    DEF Next, Post, Get
<1>3. QED
  BY <1>1, <1>2, PTL DEF Spec

-----------------------------------------------------------------------------
(* The inductive invariant. *)

\* Posters past the unlocked test still have to write: together with what is
\* stored they exceed the ring by less than the number of posters.
RaceIsBounded ==
  current_length + Cardinality(Writing)
     <= MAX_COMMAND_QUEUE_SIZE + Cardinality(Posters) - 1

\* The next message goes right behind the newest one.
PostIndexFollows ==
  ~overrun =>
    Wrap(index_post) =
      IF current_length < MAX_COMMAND_QUEUE_SIZE THEN SlotOf(current_length)
      ELSE Wrap(index_get)

\* The message taken last is as old as the number of messages taken.
TakenInOrder == ~overrun => lastTaken = taken

IInv ==
  /\ RaceIsBounded
  /\ RingHoldsTheUnread
  /\ PostIndexFollows
  /\ TokensAreMessages
  /\ TakenInOrder
  /\ SinglePosterNeverOverruns

\* The sets of threads that are counted are finite.
LEMMA FiniteCounts ==
  /\ IsFiniteSet(Writing) /\ Cardinality(Writing) \in Nat
  /\ IsFiniteSet(Signaling) /\ Cardinality(Signaling) \in Nat
  /\ IsFiniteSet(Taking) /\ Cardinality(Taking) \in Nat
  /\ Cardinality(Writing) <= Cardinality(Posters)
  /\ Cardinality(Posters) \in Nat
<1> USE QueueAssumption DEF QueueAssumption
<1>1. Writing \in SUBSET Posters /\ Signaling \in SUBSET Posters
      /\ Taking \in SUBSET Getters
  BY DEF Writing, Signaling, Taking
<1>2. QED
  BY <1>1, FS_Subset, FS_CardinalityType

\* A thread that leaves or enters one of the counted sets changes its count by
\* one.
LEMMA CountMember ==
  ASSUME NEW S, IsFiniteSet(S), NEW x
  PROVE  /\ x \in S => /\ Cardinality(S \ {x}) = Cardinality(S) - 1
                       /\ Cardinality(S) >= 1
         /\ x \notin S => Cardinality(S \cup {x}) = Cardinality(S) + 1
<1>1. Cardinality(S) \in Nat
  BY FS_CardinalityType
<1>2. ASSUME x \in S PROVE Cardinality(S) >= 1
  BY <1>1, <1>2, FS_EmptySet
<1>3. QED
  BY <1>1, <1>2, FS_AddElement, FS_RemoveElement

\* The slots of the k-th oldest messages are distinct and inside the ring.
LEMMA SlotsAreDistinct ==
  ASSUME TypeOK
  PROVE  /\ \A k \in 0 .. MAX_COMMAND_QUEUE_SIZE - 1 : SlotOf(k) \in Slots
         /\ \A j, k \in 0 .. MAX_COMMAND_QUEUE_SIZE - 1 :
               SlotOf(j) = SlotOf(k) => j = k
         /\ SlotOf(0) = Wrap(index_get)
BY QueueAssumption DEF QueueAssumption, TypeOK, SlotOf, Slots, Wrap

\* The initial state: empty ring, no token, nobody inside a call.
LEMMA InvInit == Init => IInv
<1> SUFFICES ASSUME Init
             PROVE  IInv
  OBVIOUS
<1> USE QueueAssumption DEF QueueAssumption, Init
<1>1. Writing = {} /\ Signaling = {} /\ Taking = {}
  BY DEF Writing, Signaling, Taking, Threads
<1>2. Cardinality({}) = 0
  BY FS_EmptySet
<1>3. RaceIsBounded
  BY <1>1, <1>2, FiniteCounts DEF RaceIsBounded
<1>4. RingHoldsTheUnread
  BY DEF RingHoldsTheUnread, SlotOf, Slots, NULL
<1>5. PostIndexFollows
  BY DEF PostIndexFollows, SlotOf, Wrap
<1>6. TokensAreMessages
  BY <1>1, <1>2 DEF TokensAreMessages
<1>7. TakenInOrder /\ SinglePosterNeverOverruns
  BY DEF TakenInOrder, SinglePosterNeverOverruns
<1>8. QED
  BY <1>3, <1>4, <1>5, <1>6, <1>7 DEF IInv

\* Every step of a posting or getting thread preserves the invariant.
LEMMA InvNext ==
  ASSUME TypeOK, TypeOK', IInv, [Next]_vars
  PROVE  IInv'
<1> USE QueueAssumption DEF QueueAssumption
<1>1. ASSUME NEW p \in Posters, PostCheck(p)
      PROVE  IInv'
  <2>1. Signaling' = Signaling /\ Taking' = Taking
    BY <1>1 DEF PostCheck, Goto, Signaling, Taking, TypeOK, Threads
  <2>2. RaceIsBounded'
    <3>1. CASE current_length >= MAX_COMMAND_QUEUE_SIZE
      <4>1. Writing' = Writing /\ current_length' = current_length
        BY <1>1, <3>1 DEF PostCheck, Writing, ring, TypeOK
      <4>2. QED
        BY <4>1 DEF IInv, RaceIsBounded
    <3>2. CASE current_length < MAX_COMMAND_QUEUE_SIZE
      <4>1. current_length' = current_length
        BY <1>1 DEF PostCheck, ring
      <4>2. /\ Cardinality(Writing') <= Cardinality(Posters)
            /\ Cardinality(Writing') \in Nat /\ Cardinality(Posters) \in Nat
        <5>1. Writing' \in SUBSET Posters
          BY DEF Writing
        <5>2. QED
          BY <5>1, FS_Subset, FS_CardinalityType
      <4>3. QED
        BY <3>2, <4>1, <4>2 DEF RaceIsBounded, TypeOK
    <3>3. QED
      BY <3>1, <3>2 DEF TypeOK
  <2>3. QED
    BY <1>1, <2>1, <2>2 DEF PostCheck, ring, outcome, IInv,
       RingHoldsTheUnread, PostIndexFollows, TokensAreMessages, TakenInOrder,
       SinglePosterNeverOverruns, SlotOf, Wrap
<1>2. ASSUME NEW p \in Posters, PostWrite(p)
      PROVE  IInv'
  <2>1. /\ Writing' = Writing \ {p} /\ p \in Writing
        /\ Signaling' = Signaling \cup {p} /\ p \notin Signaling
        /\ Taking' = Taking
    BY <1>2 DEF PostWrite, Goto, Writing, Signaling, Taking, TypeOK, Threads
  <2>2. /\ Cardinality(Writing') = Cardinality(Writing) - 1
        /\ Cardinality(Writing) >= 1
        /\ Cardinality(Signaling') = Cardinality(Signaling) + 1
    BY <2>1, CountMember, FiniteCounts
  <2>3. RaceIsBounded'
    BY <1>2, <2>2, FiniteCounts DEF PostWrite, IInv, RaceIsBounded, TypeOK
  <2>4. RingHoldsTheUnread'
    <3> SUFFICES ASSUME ~overrun'
                 PROVE  RingHoldsTheUnread'
      BY DEF RingHoldsTheUnread
    <3>0. ~overrun /\ ~(current_length >= MAX_COMMAND_QUEUE_SIZE)
      BY <1>2, Zenon DEF PostWrite
    <3>1. ~overrun /\ current_length < MAX_COMMAND_QUEUE_SIZE
      BY <3>0 DEF TypeOK
    <3>2. /\ Wrap(index_post) = SlotOf(current_length)
          /\ current_length = written - taken
          /\ current_length \in 0 .. MAX_COMMAND_QUEUE_SIZE - 1
      BY <3>1 DEF IInv, PostIndexFollows, RingHoldsTheUnread, TypeOK
    <3>3. /\ buf' = [buf EXCEPT ![SlotOf(current_length)] = written + 1]
          /\ current_length' = current_length + 1
          /\ written' = written + 1 /\ taken' = taken
          /\ \A k : SlotOf(k)' = SlotOf(k)
      BY <1>2, <3>2 DEF PostWrite, SlotOf
    <3>4. ASSUME NEW k \in 0 .. MAX_COMMAND_QUEUE_SIZE - 1
          PROVE  buf'[SlotOf(k)] = IF k = current_length THEN written + 1
                                   ELSE buf[SlotOf(k)]
      BY <3>2, <3>3, SlotsAreDistinct DEF TypeOK
    <3>5. ASSUME NEW k \in 0 .. current_length' - 1
          PROVE  buf'[SlotOf(k)'] = taken' + k + 1
      BY <3>1, <3>2, <3>3, <3>4 DEF IInv, RingHoldsTheUnread, TypeOK
    <3>6. ASSUME NEW k \in current_length' .. MAX_COMMAND_QUEUE_SIZE - 1
          PROVE  buf'[SlotOf(k)'] = NULL
      BY <3>1, <3>2, <3>3, <3>4 DEF IInv, RingHoldsTheUnread, TypeOK
    <3>7. QED
      BY <3>2, <3>3, <3>5, <3>6 DEF RingHoldsTheUnread, TypeOK, NULL
  <2>5. PostIndexFollows'
    <3> SUFFICES ASSUME ~overrun'
                 PROVE  PostIndexFollows'
      BY DEF PostIndexFollows
    <3>0. ~overrun /\ ~(current_length >= MAX_COMMAND_QUEUE_SIZE)
      BY <1>2, Zenon DEF PostWrite
    <3>1. ~overrun /\ current_length < MAX_COMMAND_QUEUE_SIZE
      BY <3>0 DEF TypeOK
    <3>2. Wrap(index_post) = SlotOf(current_length) /\ current_length >= 0
      BY <3>1 DEF IInv, PostIndexFollows, RingHoldsTheUnread
    <3>3. QED
      BY <1>2, <3>1, <3>2 DEF PostWrite, PostIndexFollows, SlotOf, Wrap, TypeOK
  <2>6. TokensAreMessages'
    BY <1>2, <2>1, <2>2, FiniteCounts
    DEF PostWrite, IInv, TokensAreMessages, TypeOK
  <2>7. TakenInOrder'
    BY <1>2 DEF PostWrite, IInv, TakenInOrder
  <2>8. SinglePosterNeverOverruns'
    <3> SUFFICES ASSUME Cardinality(Posters) <= 1
                 PROVE  ~overrun'
      BY DEF SinglePosterNeverOverruns
    <3>1. current_length < MAX_COMMAND_QUEUE_SIZE
      BY <2>2, FiniteCounts DEF IInv, RaceIsBounded, TypeOK
    <3>2. QED
      BY <1>2, <3>1 DEF PostWrite, IInv, SinglePosterNeverOverruns, TypeOK
  <2>9. QED
    BY <2>3, <2>4, <2>5, <2>6, <2>7, <2>8 DEF IInv
<1>3. ASSUME NEW p \in Posters, PostNoMemory(p)
      PROVE  IInv'
  <2>1. /\ Writing' = Writing \ {p} /\ p \in Writing
        /\ Signaling' = Signaling /\ Taking' = Taking
    BY <1>3 DEF PostNoMemory, Goto, Writing, Signaling, Taking, TypeOK, Threads
  <2>2. /\ Cardinality(Writing') = Cardinality(Writing) - 1
        /\ Cardinality(Writing) >= 1
    BY <2>1, CountMember, FiniteCounts
  <2>3. RaceIsBounded'
    BY <1>3, <2>2, FiniteCounts DEF PostNoMemory, IInv, RaceIsBounded, TypeOK
  <2>4. RingHoldsTheUnread'
    <3> SUFFICES ASSUME ~overrun'
                 PROVE  RingHoldsTheUnread'
      BY DEF RingHoldsTheUnread
    <3>0. ~overrun /\ ~(current_length >= MAX_COMMAND_QUEUE_SIZE)
      BY <1>3, Zenon DEF PostNoMemory
    <3>1. ~overrun /\ current_length < MAX_COMMAND_QUEUE_SIZE
      BY <3>0 DEF TypeOK
    <3>2. /\ Wrap(index_post) = SlotOf(current_length)
          /\ current_length \in 0 .. MAX_COMMAND_QUEUE_SIZE - 1
          /\ buf[SlotOf(current_length)] = NULL
      BY <3>1 DEF IInv, PostIndexFollows, RingHoldsTheUnread, TypeOK
    <3>3. buf' = buf
      BY <1>3, <3>2, SlotsAreDistinct DEF PostNoMemory, TypeOK
    <3>4. QED
      BY <1>3, <3>1, <3>3
      DEF PostNoMemory, outcome, IInv, RingHoldsTheUnread, SlotOf
  <2>5. PostIndexFollows'
    BY <1>3 DEF PostNoMemory, IInv, PostIndexFollows, SlotOf, Wrap, TypeOK
  <2>6. TokensAreMessages' /\ TakenInOrder'
    BY <1>3, <2>1 DEF PostNoMemory, outcome, IInv, TokensAreMessages, TakenInOrder
  <2>7. SinglePosterNeverOverruns'
    <3> SUFFICES ASSUME Cardinality(Posters) <= 1
                 PROVE  ~overrun'
      BY DEF SinglePosterNeverOverruns
    <3>1. current_length < MAX_COMMAND_QUEUE_SIZE
      BY <2>2, FiniteCounts DEF IInv, RaceIsBounded, TypeOK
    <3>2. QED
      BY <1>3, <3>1 DEF PostNoMemory, IInv, SinglePosterNeverOverruns, TypeOK
  <2>8. QED
    BY <2>3, <2>4, <2>5, <2>6, <2>7 DEF IInv
<1>4. ASSUME NEW p \in Posters, SemPost(p)
      PROVE  IInv'
  <2>1. /\ Signaling' = Signaling \ {p} /\ p \in Signaling
        /\ Writing' = Writing /\ Taking' = Taking
    BY <1>4 DEF SemPost, Goto, Writing, Signaling, Taking, TypeOK, Threads
  <2>2. Cardinality(Signaling') = Cardinality(Signaling) - 1
    BY <2>1, CountMember, FiniteCounts
  <2>3. TokensAreMessages'
    BY <1>4, <2>1, <2>2, FiniteCounts
    DEF SemPost, ring, outcome, IInv, TokensAreMessages, TypeOK
  <2>4. QED
    BY <1>4, <2>1, <2>3
    DEF SemPost, ring, outcome, IInv, RaceIsBounded, RingHoldsTheUnread,
        PostIndexFollows, TakenInOrder, SinglePosterNeverOverruns, SlotOf, Wrap
<1>5. ASSUME NEW g \in Getters, SemWait(g)
      PROVE  IInv'
  <2>1. /\ Taking' = Taking \cup {g} /\ g \notin Taking
        /\ Writing' = Writing /\ Signaling' = Signaling
    BY <1>5 DEF SemWait, Goto, Writing, Signaling, Taking, TypeOK, Threads
  <2>2. Cardinality(Taking') = Cardinality(Taking) + 1
    BY <2>1, CountMember, FiniteCounts
  <2>3. TokensAreMessages'
    BY <1>5, <2>1, <2>2, FiniteCounts
    DEF SemWait, ring, outcome, IInv, TokensAreMessages, TypeOK
  <2>4. QED
    BY <1>5, <2>1, <2>3
    DEF SemWait, ring, outcome, IInv, RaceIsBounded, RingHoldsTheUnread,
        PostIndexFollows, TakenInOrder, SinglePosterNeverOverruns, SlotOf, Wrap
<1>6. ASSUME NEW g \in Getters, GetCheck(g)
      PROVE  IInv'
  <2>1. g \in Taking /\ Writing' = Writing /\ Signaling' = Signaling
    BY <1>6 DEF GetCheck, Goto, Writing, Signaling, Taking, TypeOK, Threads
  <2>2. current_length # 0
    <3>1. Cardinality(Taking) >= 1
      BY <2>1, CountMember, FiniteCounts
    <3>2. current_length = sem + Cardinality(Taking) + Cardinality(Signaling)
      BY DEF IInv, TokensAreMessages
    <3>3. QED
      BY <3>1, <3>2, FiniteCounts DEF TypeOK
  <2>3. Taking' = Taking
    BY <1>6, <2>2 DEF GetCheck, Goto, Taking, TypeOK, Threads
  <2>4. TokensAreMessages'
    BY <1>6, <2>1, <2>2, <2>3
    DEF GetCheck, ring, outcome, IInv, TokensAreMessages
  <2>5. QED
    BY <1>6, <2>1, <2>4
    DEF GetCheck, ring, outcome, IInv, RaceIsBounded, RingHoldsTheUnread,
        PostIndexFollows, TakenInOrder, SinglePosterNeverOverruns, SlotOf, Wrap
<1>7. ASSUME NEW g \in Getters, GetRead(g)
      PROVE  IInv'
  <2>1. /\ Taking' = Taking \ {g} /\ g \in Taking
        /\ Writing' = Writing /\ Signaling' = Signaling
    BY <1>7 DEF GetRead, Goto, Writing, Signaling, Taking, TypeOK, Threads
  <2>2. /\ Cardinality(Taking') = Cardinality(Taking) - 1
        /\ Cardinality(Taking) >= 1
    BY <2>1, CountMember, FiniteCounts
  <2>3. current_length >= 1
    BY <2>2, FiniteCounts DEF IInv, TokensAreMessages, TypeOK
  <2>4. RaceIsBounded'
    BY <1>7, <2>1, FiniteCounts DEF GetRead, IInv, RaceIsBounded, TypeOK
  <2>5. RingHoldsTheUnread'
    <3> SUFFICES ASSUME ~overrun
                 PROVE  RingHoldsTheUnread'
      BY <1>7 DEF GetRead, RingHoldsTheUnread
    <3>1. /\ buf' = [buf EXCEPT ![SlotOf(0)] = NULL]
          /\ current_length' = current_length - 1
          /\ written' = written /\ taken' = taken + 1
      BY <1>7, SlotsAreDistinct DEF GetRead
    <3>2. /\ \A k \in 0 .. MAX_COMMAND_QUEUE_SIZE - 2 :
               SlotOf(k)' = SlotOf(k + 1)
          /\ SlotOf(MAX_COMMAND_QUEUE_SIZE - 1)' = SlotOf(0)
      BY <1>7 DEF GetRead, SlotOf, Wrap, TypeOK
    <3>3. \A k \in 1 .. MAX_COMMAND_QUEUE_SIZE - 1 :
             buf'[SlotOf(k)] = buf[SlotOf(k)]
      BY <3>1, SlotsAreDistinct DEF TypeOK
    <3>4. buf'[SlotOf(0)] = NULL
      BY <3>1, SlotsAreDistinct DEF TypeOK
    <3>5. ASSUME NEW k \in 0 .. current_length' - 1
          PROVE  buf'[SlotOf(k)'] = taken' + k + 1
      <4>1. k + 1 \in 1 .. MAX_COMMAND_QUEUE_SIZE - 1
            /\ k + 1 \in 0 .. current_length - 1
        BY <3>1 DEF IInv, RingHoldsTheUnread, TypeOK
      <4>2. buf'[SlotOf(k)'] = buf[SlotOf(k + 1)]
        BY <3>2, <3>3, <4>1
      <4>3. QED
        BY <3>1, <4>1, <4>2 DEF IInv, RingHoldsTheUnread, TypeOK
    <3>6. ASSUME NEW k \in current_length' .. MAX_COMMAND_QUEUE_SIZE - 1
          PROVE  buf'[SlotOf(k)'] = NULL
      <4>1. CASE k = MAX_COMMAND_QUEUE_SIZE - 1
        BY <3>2, <3>4, <4>1
      <4>2. CASE k # MAX_COMMAND_QUEUE_SIZE - 1
        <5>1. k + 1 \in current_length .. MAX_COMMAND_QUEUE_SIZE - 1
              /\ k \in 0 .. MAX_COMMAND_QUEUE_SIZE - 2
          BY <2>3, <3>1, <4>2 DEF TypeOK
        <5>2. buf'[SlotOf(k)'] = buf[SlotOf(k + 1)]
          BY <2>3, <3>2, <3>3, <5>1 DEF TypeOK
        <5>3. QED
          BY <5>1, <5>2 DEF IInv, RingHoldsTheUnread
      <4>3. QED
        BY <4>1, <4>2
    <3>7. QED
      BY <2>3, <3>1, <3>5, <3>6 DEF IInv, RingHoldsTheUnread, TypeOK, NULL
  <2>6. PostIndexFollows'
    BY <1>7, <2>3
    DEF GetRead, IInv, PostIndexFollows, RingHoldsTheUnread, SlotOf, Wrap, TypeOK
  <2>7. TokensAreMessages'
    BY <1>7, <2>1, <2>2, FiniteCounts
    DEF GetRead, IInv, TokensAreMessages, TypeOK
  <2>8. TakenInOrder'
    <3> SUFFICES ASSUME ~overrun
                 PROVE  TakenInOrder'
      BY <1>7 DEF GetRead, TakenInOrder
    <3>1. buf[SlotOf(0)] = taken + 1
      BY <2>3 DEF IInv, RingHoldsTheUnread, TypeOK
    <3>2. QED
      BY <1>7, <3>1, SlotsAreDistinct DEF GetRead, TakenInOrder
  <2>9. QED
    BY <1>7, <2>4, <2>5, <2>6, <2>7, <2>8
    DEF GetRead, IInv, SinglePosterNeverOverruns
<1>8. ASSUME NEW g \in Getters, GetReadNull(g)
      PROVE  IInv'
  <2>1. g \in Taking /\ Writing' = Writing /\ Signaling' = Signaling
        /\ Taking' = Taking
    BY <1>8 DEF GetReadNull, Writing, Signaling, Taking
  <2>2. current_length >= 1
    <3>1. Cardinality(Taking) >= 1
      BY <2>1, CountMember, FiniteCounts
    <3>2. current_length = sem + Cardinality(Taking) + Cardinality(Signaling)
      BY DEF IInv, TokensAreMessages
    <3>3. QED
      BY <3>1, <3>2, FiniteCounts DEF TypeOK
  <2>3. overrun
    <3> SUFFICES ASSUME ~overrun
                 PROVE  FALSE
      OBVIOUS
    <3>1. buf[SlotOf(0)] = taken + 1
      BY <2>2 DEF IInv, RingHoldsTheUnread, TypeOK
    <3>2. QED
      BY <1>8, <3>1, SlotsAreDistinct DEF GetReadNull, NULL, TypeOK
  <2>4. QED
    BY <1>8, <2>1, <2>3
    DEF GetReadNull, ring, IInv, RaceIsBounded, RingHoldsTheUnread,
        PostIndexFollows, TokensAreMessages, TakenInOrder,
        SinglePosterNeverOverruns, SlotOf, Wrap
<1>9. CASE UNCHANGED vars
  BY <1>9 DEF vars, IInv, RaceIsBounded, RingHoldsTheUnread, PostIndexFollows,
     TokensAreMessages, TakenInOrder, SinglePosterNeverOverruns, SlotOf, Wrap,
     Writing, Signaling, Taking
<1>10. QED
  BY <1>1, <1>2, <1>3, <1>4, <1>5, <1>6, <1>7, <1>8, <1>9 DEF Next, Post, Get

-----------------------------------------------------------------------------
\* The inductive invariant holds in every reachable state.
THEOREM InvCorrect == Spec => []IInv
<1>1. TypeOK /\ TypeOK' /\ IInv /\ [Next]_vars => IInv'
  BY InvNext
<1>2. QED
  BY <1>1, InvInit, TypeCorrect, PTL DEF Spec

\* However many threads race past the unlocked full test of queuePost
\* (queue.c:120-137), the length stays below ring size plus posters.
THEOREM OverrunBounded == Spec => []OverrunIsBounded
<1>1. TypeOK /\ IInv => OverrunIsBounded
  BY FiniteCounts, QueueAssumption
  DEF QueueAssumption, IInv, RaceIsBounded, OverrunIsBounded, TypeOK
<1>2. QED
  BY <1>1, InvCorrect, TypeCorrect, PTL

\* Until a post has written into a full ring the ring holds exactly the
\* messages written and not yet taken, in order (queue.c:124-137, 154-163).
THEOREM RingCorrect == Spec => []RingHoldsTheUnread
<1>1. IInv => RingHoldsTheUnread
  BY DEF IInv
<1>2. QED
  BY <1>1, InvCorrect, PTL

\* Semaphore tokens and messages stay in step, so queueGet never returns
\* without a message, and it never copies from a NULL slot before a post has
\* written into a full ring (queue.c:137-161).
THEOREM TokensCorrect == Spec => []TokensAreMessages
<1>1. IInv => TokensAreMessages
  BY DEF IInv
<1>2. QED
  BY <1>1, InvCorrect, PTL

\* With one posting thread no post ever writes into a full ring
\* (queue.c:120-123).
THEOREM SinglePosterCorrect == Spec => []SinglePosterNeverOverruns
<1>1. IInv => SinglePosterNeverOverruns
  BY DEF IInv
<1>2. QED
  BY <1>1, InvCorrect, PTL

\* Until a post has written into a full ring, the message a get takes out is
\* the one written right after the last one taken (queue.c:154-163).
THEOREM OrderCorrect == Spec => LeavesInOrder
<1>1. TypeOK /\ TypeOK' /\ IInv /\ IInv' /\ [Next]_vars
        => [~overrun /\ taken' # taken => lastTaken' = lastTaken + 1]_vars
  <2> SUFFICES ASSUME TypeOK, IInv, IInv', [Next]_vars, ~overrun,
                      taken' # taken
               PROVE  lastTaken' = lastTaken + 1
    OBVIOUS
  <2>1. PICK g \in Getters : GetRead(g)
    BY DEF Next, Post, Get, PostCheck, PostWrite, PostNoMemory, SemPost,
           SemWait, GetCheck, GetReadNull, outcome, vars
  <2>2. taken' = taken + 1 /\ ~overrun'
    BY <2>1, Zenon DEF GetRead
  <2>3. lastTaken = taken /\ lastTaken' = taken'
    BY <2>2, Zenon DEF IInv, TakenInOrder
  <2>4. QED
    BY <2>2, <2>3
<1>2. QED
  BY <1>1, InvCorrect, TypeCorrect, PTL DEF Spec, LeavesInOrder
-----------------------------------------------------------------------------
(* The queue implements the channel its callers see. *)

\* The n messages written right after message a.
MessagesAfter(a, n) == [k \in 1 .. n |-> a + k]

\* Consecutive messages form a sequence; the channel's Append, Head and Tail
\* take consecutive messages to consecutive messages.
LEMMA MessagesInARow ==
  ASSUME NEW a \in Nat, NEW n \in Nat
  PROVE  /\ MessagesAfter(a, n) \in Seq(Nat)
         /\ Len(MessagesAfter(a, n)) = n
         /\ MessagesAfter(a, n + 1) = Append(MessagesAfter(a, n), a + n + 1)
         /\ n > 0 => /\ MessagesAfter(a, n) # <<>>
                     /\ Head(MessagesAfter(a, n)) = a + 1
                     /\ Tail(MessagesAfter(a, n)) = MessagesAfter(a + 1, n - 1)
<1>1. \A m \in Nat, b \in Nat :
         /\ MessagesAfter(b, m) \in Seq(Nat)
         /\ Len(MessagesAfter(b, m)) = m
         /\ \A k \in 1 .. m : MessagesAfter(b, m)[k] = b + k
  <2> SUFFICES ASSUME NEW m \in Nat, NEW b \in Nat
               PROVE  /\ MessagesAfter(b, m) \in Seq(Nat)
                      /\ Len(MessagesAfter(b, m)) = m
                      /\ \A k \in 1 .. m : MessagesAfter(b, m)[k] = b + k
    OBVIOUS
  <2>1. MessagesAfter(b, m) \in [1 .. m -> Nat]
    BY DEF MessagesAfter
  <2>2. QED
    BY <2>1, LenProperties, IsASeq DEF MessagesAfter
<1>2. MessagesAfter(a, n + 1) = Append(MessagesAfter(a, n), a + n + 1)
  <2> DEFINE s == MessagesAfter(a, n)
             t == Append(s, a + n + 1)
  <2>1. /\ s \in Seq(Nat) /\ Len(s) = n
        /\ \A k \in 1 .. n : s[k] = a + k
    BY <1>1
  <2>2. /\ t \in Seq(Nat) /\ Len(t) = n + 1
        /\ \A k \in 1 .. n : t[k] = s[k]
        /\ t[n + 1] = a + n + 1
    BY <2>1, AppendProperties
  <2>3. \A k \in 1 .. n + 1 : t[k] = a + k
    BY <2>1, <2>2
  <2>4. /\ MessagesAfter(a, n + 1) \in Seq(Nat)
        /\ Len(MessagesAfter(a, n + 1)) = n + 1
        /\ \A k \in 1 .. n + 1 : MessagesAfter(a, n + 1)[k] = a + k
    BY <1>1
  <2> HIDE DEF s, t
  <2>5. MessagesAfter(a, n + 1) = t
    BY <2>2, <2>3, <2>4, SeqEqual
  <2>6. QED
    BY <2>5 DEF s, t
<1>3. ASSUME n > 0
      PROVE  /\ MessagesAfter(a, n) # <<>>
             /\ Head(MessagesAfter(a, n)) = a + 1
             /\ Tail(MessagesAfter(a, n)) = MessagesAfter(a + 1, n - 1)
  <2> DEFINE s == MessagesAfter(a, n)
             t == Tail(s)
  <2>1. /\ s \in Seq(Nat) /\ Len(s) = n
        /\ \A k \in 1 .. n : s[k] = a + k
    BY <1>1
  <2>2. s # <<>> /\ Head(s) = a + 1
    BY <1>3, <2>1
  <2>3. /\ t \in Seq(Nat) /\ Len(t) = n - 1
        /\ \A k \in 1 .. n - 1 : t[k] = s[k + 1]
    BY <2>1, <2>2, HeadTailProperties
  <2>4. \A k \in 1 .. n - 1 : t[k] = (a + 1) + k
    BY <2>1, <2>3
  <2>5. /\ MessagesAfter(a + 1, n - 1) \in Seq(Nat)
        /\ Len(MessagesAfter(a + 1, n - 1)) = n - 1
        /\ \A k \in 1 .. n - 1 : MessagesAfter(a + 1, n - 1)[k] = (a + 1) + k
    <3>1. a + 1 \in Nat /\ n - 1 \in Nat
      BY <1>3
    <3>2. QED
      BY <1>1, <3>1, Zenon
  <2> HIDE DEF t
  <2>6. t = MessagesAfter(a + 1, n - 1)
    BY <2>3, <2>4, <2>5, SeqEqual
  <2>7. QED
    BY <2>2, <2>6 DEF t
<1>4. QED
  BY <1>1, <1>2, <1>3

\* What the ring stores, oldest first: the value of Fifo's chan.
Stored == [k \in 1 .. current_length |-> buf[SlotOf(k - 1)]]

\* Until a post has written into a full ring, the ring stores the messages
\* written right after the last one taken.
StoredIsUnread ==
  ~overrun =>
    /\ Stored = MessagesAfter(taken, current_length)
    /\ current_length \in 0 .. MAX_COMMAND_QUEUE_SIZE
    /\ written = taken + current_length
    /\ lastTaken = taken

LEMMA StoredCorrect == TypeOK /\ IInv => StoredIsUnread
<1> SUFFICES ASSUME TypeOK, IInv, ~overrun
             PROVE  StoredIsUnread
  BY DEF StoredIsUnread
<1>1. /\ current_length \in 0 .. MAX_COMMAND_QUEUE_SIZE
      /\ current_length = written - taken
      /\ \A k \in 0 .. current_length - 1 : buf[SlotOf(k)] = taken + k + 1
  BY DEF IInv, RingHoldsTheUnread
<1>2. ASSUME NEW k \in 1 .. current_length
      PROVE  buf[SlotOf(k - 1)] = taken + k
  BY <1>1 DEF TypeOK
<1>3. QED
  BY <1>1, <1>2
  DEF StoredIsUnread, Stored, MessagesAfter, TypeOK, IInv, TakenInOrder

\* The steps of the queue are steps of the channel: PostWrite accepts, a
\* PostCheck that finds the ring full refuses, GetRead delivers; the others do
\* not show.
LEMMA ChannelNext ==
  ASSUME TypeOK, TypeOK', StoredIsUnread, StoredIsUnread', ~overrun, ~overrun',
         [Next]_vars
  PROVE  [Channel!Next]_(Channel!vars)
<1> USE QueueAssumption DEF QueueAssumption
<1>1. /\ Stored = MessagesAfter(taken, current_length)
      /\ current_length \in 0 .. MAX_COMMAND_QUEUE_SIZE
      /\ written = taken + current_length
      /\ lastTaken = taken
  BY DEF StoredIsUnread
<1>2. /\ Stored' = MessagesAfter(taken', current_length')
      /\ current_length' \in 0 .. MAX_COMMAND_QUEUE_SIZE
      /\ written' = taken' + current_length'
      /\ lastTaken' = taken'
  BY Zenon DEF StoredIsUnread
<1>3. taken \in Nat /\ taken' \in Nat /\ current_length \in Nat
  BY <1>1 DEF TypeOK
<1>4. ASSUME NEW p \in Posters, PostCheck(p)
      PROVE  [Channel!Next]_(Channel!vars)
  <2>1. /\ current_length' = current_length /\ taken' = taken
        /\ written' = written /\ lastTaken' = lastTaken
    BY <1>4 DEF PostCheck, ring, outcome
  <2>2. Stored' = Stored
    BY <1>1, <1>2, <2>1
  <2>3. CASE current_length >= MAX_COMMAND_QUEUE_SIZE
    <3>1. Len(Stored) = MAX_COMMAND_QUEUE_SIZE
      BY <1>1, <1>3, <2>3, MessagesInARow
    <3>2. dropped' = TRUE
      BY <1>1, <1>4, <2>3 DEF PostCheck
    <3>3. Channel!Refuse
      BY <2>1, <2>2, <3>1, <3>2 DEF Channel!Refuse, Stored
    <3>4. QED
      BY <3>3 DEF Channel!Next
  <2>4. CASE current_length < MAX_COMMAND_QUEUE_SIZE
    <3>1. dropped' = dropped
      BY <1>1, <1>4, <2>4 DEF PostCheck
    <3>2. QED
      BY <2>1, <2>2, <3>1 DEF Channel!vars, Stored
  <2>5. QED
    BY <1>1, <2>3, <2>4
<1>5. ASSUME NEW p \in Posters, PostWrite(p)
      PROVE  [Channel!Next]_(Channel!vars)
  <2>1. /\ current_length' = current_length + 1 /\ taken' = taken
        /\ written' = written + 1 /\ lastTaken' = lastTaken
        /\ dropped' = dropped
    BY <1>5 DEF PostWrite
  <2>2. Len(Stored) < MAX_COMMAND_QUEUE_SIZE
    BY <1>1, <1>2, <1>3, <2>1, MessagesInARow
  <2>3. Stored' = Append(Stored, written + 1)
    <3>1. MessagesAfter(taken, current_length + 1)
            = Append(MessagesAfter(taken, current_length),
                     taken + current_length + 1)
      BY <1>1, <1>3, MessagesInARow
    <3>2. QED
      BY <1>1, <1>2, <2>1, <3>1
  <2>4. Channel!Accept
    BY <2>1, <2>2, <2>3 DEF Channel!Accept, Stored
  <2>5. QED
    BY <2>4 DEF Channel!Next
<1>6. ASSUME NEW g \in Getters, GetRead(g)
      PROVE  [Channel!Next]_(Channel!vars)
  <2>1. /\ current_length' = current_length - 1 /\ taken' = taken + 1
        /\ written' = written /\ dropped' = dropped
    BY <1>6 DEF GetRead
  <2>2. current_length > 0
    BY <1>1, <1>2, <2>1
  <2>3. Stored # <<>> /\ lastTaken' = Head(Stored) /\ Stored' = Tail(Stored)
    <3>1. /\ MessagesAfter(taken, current_length) # <<>>
          /\ Head(MessagesAfter(taken, current_length)) = taken + 1
          /\ Tail(MessagesAfter(taken, current_length))
               = MessagesAfter(taken + 1, current_length - 1)
      BY <1>1, <1>3, <2>2, MessagesInARow
    <3>2. QED
      BY <1>1, <1>2, <2>1, <3>1
  <2>4. Channel!Deliver
    BY <2>1, <2>3 DEF Channel!Deliver, Stored
  <2>5. QED
    BY <2>4 DEF Channel!Next
<1>7. ASSUME \/ \E p \in Posters : PostNoMemory(p) \/ SemPost(p)
             \/ \E g \in Getters : SemWait(g) \/ GetCheck(g) \/ GetReadNull(g)
             \/ UNCHANGED vars
      PROVE  [Channel!Next]_(Channel!vars)
  <2>1. /\ current_length' = current_length /\ taken' = taken
        /\ written' = written /\ lastTaken' = lastTaken
        /\ dropped' = dropped
    BY <1>7 DEF PostNoMemory, SemPost, SemWait, GetCheck, GetReadNull, ring,
                outcome, vars
  <2>2. Stored' = Stored
    BY <1>1, <1>2, <2>1
  <2>3. QED
    BY <2>1, <2>2 DEF Channel!vars, Stored
<1>8. QED
  BY <1>4, <1>5, <1>6, <1>7 DEF Next, Post, Get

\* Until a post has written into a full ring, each step of any number of
\* threads is a step of the channel or does not show (queue.c:114-166).
THEOREM FifoCorrect == Spec => FifoUntilOverrun
<1>1. [Next]_vars /\ TypeOK /\ TypeOK' /\ ~overrun' => ~overrun
  <2> SUFFICES ASSUME [Next]_vars, TypeOK, TypeOK', overrun
               PROVE  overrun'
    OBVIOUS
  <2>1. QED
    BY Zenon
    DEF Next, Post, Get, PostCheck, PostWrite, PostNoMemory, SemPost, SemWait,
        GetCheck, GetRead, GetReadNull, vars
<1>2. /\ TypeOK /\ TypeOK' /\ StoredIsUnread /\ StoredIsUnread' /\ [Next]_vars
      => [~overrun' => [Channel!Next]_(Channel!vars)]_vars
  BY <1>1, ChannelNext
<1>3. QED
  BY <1>2, StoredCorrect, InvCorrect, TypeCorrect, PTL
  DEF Spec, FifoUntilOverrun

\* A queue that never writes into a full ring is the bounded channel its
\* callers take it for (queue.c:114-166): whatever the threads' steps between
\* the unlocked tests, the mutex and the semaphore, each of them is one step
\* of the channel or none.
THEOREM ChannelWhileNoOverrun == Spec /\ []~overrun => Channel!Spec
<1>1. Init => Channel!Init
  BY DEF Init, Channel!Init
<1>2. QED
  BY <1>1, ChannelNext, StoredCorrect, InvCorrect, TypeCorrect, PTL
  DEF Spec, Channel!Spec

\* With one posting thread the queue implements the channel: the safety part
\* of ImplementsFifo.
THEOREM ChannelCorrect ==
  ASSUME Cardinality(Posters) <= 1
  PROVE  Spec => Channel!Spec
<1>1. SinglePosterNeverOverruns => ~overrun
  BY DEF SinglePosterNeverOverruns
<1>2. QED
  BY <1>1, SinglePosterCorrect, ChannelWhileNoOverrun, PTL
=============================================================================
