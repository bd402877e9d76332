--------------------------- MODULE UdpServer_proof ---------------------------
(***************************************************************************)
(* Proofs about UdpServer for any list, any requests and any filter: its   *)
(* types, what the filter forgets, when a timeout is reported, and what    *)
(* the list holds while no answer meets a writer of the list.              *)
(***************************************************************************)
EXTENDS UdpServer, Rounds, FiniteSetTheorems, TLAPS

USE UdpAssumption DEF UdpAssumption, Slots, Ring, Server

-----------------------------------------------------------------------------
(* Types                                                                   *)

LEMMA TypeInit == Init => TypeOK
<1> SUFFICES ASSUME Init PROVE TypeOK
  OBVIOUS
<1>1. ListTypes
  BY DEF Init, Entry, ListTypes, Sections, Section, Outside
<1>2. CallTypes
  BY DEF Init, CallTypes
<1>3. FilterTypes
  BY DEF Init, FilterTypes
<1>4. raced \in BOOLEAN /\ crashed \in BOOLEAN
  BY DEF Init
<1> QED BY <1>1, <1>2, <1>3, <1>4 DEF TypeOK

LEMMA ListTypesNext ==
  ASSUME ListTypes, [Next]_vars
  PROVE  ListTypes'
<1> USE DEF ListTypes, Entry, Sections, Section, Outside, Enter, To, Load, AtSlot,
            NextSlot, ClearData, FreeData, list, filter, network
<1>1. ASSUME NEW r \in Requests, Call(r) PROVE ListTypes'
  BY <1>1 DEF Call
<1>2. ASSUME NEW r \in Requests, TestCount(r) PROVE ListTypes'
  BY <1>2 DEF TestCount
<1>3. ASSUME NEW r \in Requests, AddData(r) PROVE ListTypes'
  <2>1. CASE UNCHANGED <<Lists, locked>>
    BY <1>3, <2>1 DEF AddData
  <2>2. CASE ~UNCHANGED <<Lists, locked>>
    <3>1. PICK i \in Slots : /\ locked' = Enter(r, "fill", i)
             /\ Lists' = [Lists EXCEPT ![i] = Entry(r, Lists[i].task, Lists[i].SendTimes)]
      BY <1>3, <2>2 DEF AddData
    <3>2. Entry(r, Lists[i].task, Lists[i].SendTimes)
             \in [data : Requests \cup {Null}, task : Requests \cup {Null}, SendTimes : Nat]
      OBVIOUS
    <3>3. Lists' \in [Slots -> [data : Requests \cup {Null},
                                 task : Requests \cup {Null}, SendTimes : Nat]]
      BY <3>1, <3>2
    <3> QED BY <1>3, <3>1, <3>3 DEF AddData
  <2> QED BY <1>3, <2>1, <2>2
<1>4. ASSUME NEW r \in Requests, AddFields(r) PROVE ListTypes'
  BY <1>4 DEF AddFields
<1>5. ASSUME NEW r \in Requests, AddCount(r) PROVE ListTypes'
  BY <1>5 DEF AddCount
<1>6. ASSUME NEW r \in Requests, ReadAnswer(r) PROVE ListTypes'
  BY <1>6 DEF ReadAnswer
<1>7. CASE TaskSendLock
  BY <1>7 DEF TaskSendLock
<1>8. CASE SkipSlot
  BY <1>8 DEF SkipSlot
<1>9. CASE SendTask
  <2>1. PICK i \in Slots :
           /\ Lists' = [Lists EXCEPT ![i] =
                         Entry(Lists[i].data, Lists[i].task, Lists[i].SendTimes + 1)]
           /\ locked' = Enter(Server, "slot", i + 1)
    BY <1>9 DEF SendTask
  <2>2. Entry(Lists[i].data, Lists[i].task, Lists[i].SendTimes + 1)
           \in [data : Requests \cup {Null}, task : Requests \cup {Null}, SendTimes : Nat]
    OBVIOUS
  <2>3. Lists' \in [Slots -> [data : Requests \cup {Null},
                               task : Requests \cup {Null}, SendTimes : Nat]]
    BY <2>1, <2>2
  <2>4. locked' \in Sections /\ locked'.step = "slot"
    BY <2>1
  <2> QED BY <1>9, <2>3, <2>4 DEF SendTask
<1>10. CASE TimeoutReport
  <2>1. PICK i \in Slots : locked = Enter(Server, "slot", i)
    BY <1>10 DEF TimeoutReport
  <2>2. locked' \in Sections /\ locked'.slot \in Slots
    BY <1>10, <2>1 DEF TimeoutReport
  <2> QED BY <1>10, <2>2 DEF TimeoutReport
<1>11. CASE TimeoutFree
  <2>1. freed' \subseteq Requests
    BY <1>11 DEF TimeoutFree
  <2>2. locked' \in Sections /\ locked'.slot \in Slots
    BY <1>11 DEF TimeoutFree
  <2> QED BY <1>11, <2>1, <2>2 DEF TimeoutFree
<1>12. CASE TimeoutClear
  <2>1. Lists' \in [Slots -> [data : Requests \cup {Null},
                               task : Requests \cup {Null}, SendTimes : Nat]]
    BY <1>12 DEF TimeoutClear
  <2>2. locked' \in Sections /\ locked'.slot \in Slots
    BY <1>12 DEF TimeoutClear
  <2> QED BY <1>12, <2>1, <2>2 DEF TimeoutClear
<1>13. CASE TimeoutLoad
  BY <1>13, SMTT(40) DEF TimeoutLoad
<1>14. CASE TimeoutStore
  BY <1>14, SMTT(40) DEF TimeoutStore
<1>15. CASE TaskSendUnlock
  BY <1>15 DEF TaskSendUnlock
<1>16. CASE ScanNext
  <2>1. reader' \in Sections /\ reader'.slot \in Slots
    <3>1. CASE reader.slot < MAXLIST
      BY <1>16, <3>1 DEF ScanNext
    <3>2. CASE ~(reader.slot < MAXLIST)
      BY <1>16, <3>2 DEF ScanNext
    <3> QED BY <3>1, <3>2
  <2> QED BY <1>16, <2>1 DEF ScanNext
<1>17. CASE ScanMatch
  BY <1>17 DEF ScanMatch
<1>18. CASE AnswerReport
  BY <1>18 DEF AnswerReport
<1>19. CASE AnswerFree
  <2>1. freed' \subseteq Requests
    BY <1>19 DEF AnswerFree
  <2>2. reader' \in Sections /\ reader'.slot \in Slots
    BY <1>19 DEF AnswerFree
  <2> QED BY <1>19, <2>1, <2>2 DEF AnswerFree
<1>20. CASE AnswerClear
  <2>1. Lists' \in [Slots -> [data : Requests \cup {Null},
                               task : Requests \cup {Null}, SendTimes : Nat]]
    BY <1>20 DEF AnswerClear
  <2>2. reader' \in Sections /\ reader'.slot \in Slots
    BY <1>20 DEF AnswerClear
  <2> QED BY <1>20, <2>1, <2>2 DEF AnswerClear
<1>21. CASE AnswerLoad
  BY <1>21 DEF AnswerLoad
<1>22. CASE AnswerStore
  BY <1>22 DEF AnswerStore
<1>23. ASSUME NEW c \in Commands, ReadCommand(c) PROVE ListTypes'
  BY <1>23 DEF ReadCommand
<1>24. CASE UNCHANGED vars
  BY <1>24 DEF vars
<1> QED BY <1>1, <1>2, <1>3, <1>4, <1>5, <1>6, <1>7, <1>8, <1>9, <1>10, <1>11, <1>12,
          <1>13, <1>14, <1>15, <1>16, <1>17, <1>18, <1>19, <1>20, <1>21, <1>22,
          <1>23, <1>24 DEF Next, AddTask, TaskSend, ReadOn

LEMMA CallTypesNext ==
  ASSUME ListTypes, CallTypes, [Next]_vars
  PROVE  CallTypes'
<1> USE DEF CallTypes, ListTypes, Report, list, filter, network
<1>1. ASSUME NEW r \in Requests, Call(r) PROVE CallTypes'
  BY <1>1 DEF Call
<1>2. ASSUME NEW r \in Requests, TestCount(r) PROVE CallTypes'
  BY <1>2 DEF TestCount
<1>3. ASSUME NEW r \in Requests, AddData(r) PROVE CallTypes'
  BY <1>3 DEF AddData
<1>4. ASSUME NEW r \in Requests, AddFields(r) PROVE CallTypes'
  BY <1>4 DEF AddFields
<1>5. ASSUME NEW r \in Requests, AddCount(r) PROVE CallTypes'
  BY <1>5 DEF AddCount
<1>6. ASSUME NEW r \in Requests, ReadAnswer(r) PROVE CallTypes'
  BY <1>6 DEF ReadAnswer
<1>7. CASE TaskSendLock
  BY <1>7 DEF TaskSendLock
<1>8. CASE SkipSlot
  BY <1>8 DEF SkipSlot
<1>9. CASE SendTask
  <2>1. PICK i \in Slots : /\ Lists[i].data # Null
                           /\ sent' = [sent EXCEPT ![Lists[i].data] = @ + 1]
                           /\ delivered' \subseteq delivered \cup {Lists[i].data}
    BY <1>9 DEF SendTask, Occupied
  <2>2. sent' \in [Requests -> Nat] /\ delivered' \subseteq Requests
    BY <2>1
  <2> QED BY <1>9, <2>2 DEF SendTask
<1>10. CASE TimeoutReport
  <2>1. PICK i \in Slots, x \in {"timeout", "success"} :
           ends' = [ends EXCEPT ![Lists[i].task] = Append(@, x)]
    BY <1>10 DEF TimeoutReport
  <2>2. \A q \in Requests : Append(ends[q], x) \in Seq({"timeout", "success"})
    OBVIOUS
  <2>3. ends' \in [Requests -> Seq({"timeout", "success"})]
    BY <2>1, <2>2
  <2> QED BY <1>10, <2>3 DEF TimeoutReport
<1>11. CASE TimeoutFree
  BY <1>11 DEF TimeoutFree
<1>12. CASE TimeoutClear
  BY <1>12 DEF TimeoutClear
<1>13. CASE TimeoutLoad
  BY <1>13 DEF TimeoutLoad
<1>14. CASE TimeoutStore
  BY <1>14 DEF TimeoutStore
<1>15. CASE TaskSendUnlock
  BY <1>15 DEF TaskSendUnlock
<1>16. CASE ScanNext
  BY <1>16 DEF ScanNext
<1>17. CASE ScanMatch
  BY <1>17 DEF ScanMatch
<1>18. CASE AnswerReport
  <2>1. CASE UNCHANGED ends
    BY <1>18, <2>1 DEF AnswerReport
  <2>2. CASE Report(reader.slot, "success")
    <3>1. PICK i \in Slots, x \in {"timeout", "success"} :
             ends' = [ends EXCEPT ![Lists[i].task] = Append(@, x)]
      BY <2>2 DEF Report
    <3>2. \A q \in Requests : Append(ends[q], x) \in Seq({"timeout", "success"})
      OBVIOUS
    <3>3. ends' \in [Requests -> Seq({"timeout", "success"})]
      BY <3>1, <3>2
    <3> QED BY <1>18, <3>3 DEF AnswerReport
  <2> QED BY <1>18, <2>1, <2>2 DEF AnswerReport
<1>19. CASE AnswerFree
  BY <1>19 DEF AnswerFree
<1>20. CASE AnswerClear
  BY <1>20 DEF AnswerClear
<1>21. CASE AnswerLoad
  BY <1>21 DEF AnswerLoad
<1>22. CASE AnswerStore
  BY <1>22 DEF AnswerStore
<1>23. ASSUME NEW c \in Commands, ReadCommand(c) PROVE CallTypes'
  BY <1>23 DEF ReadCommand
<1>24. CASE UNCHANGED vars
  BY <1>24 DEF vars
<1> QED BY <1>1, <1>2, <1>3, <1>4, <1>5, <1>6, <1>7, <1>8, <1>9, <1>10, <1>11, <1>12,
          <1>13, <1>14, <1>15, <1>16, <1>17, <1>18, <1>19, <1>20, <1>21, <1>22,
          <1>23, <1>24 DEF Next, AddTask, TaskSend, ReadOn

LEMMA FilterTypesNext ==
  ASSUME FilterTypes, [Next]_vars
  PROVE  FilterTypes'
<1> USE DEF FilterTypes, list, filter, network
<1>1. ASSUME NEW r \in Requests, Call(r) PROVE FilterTypes'
  BY <1>1 DEF Call
<1>2. ASSUME NEW r \in Requests, TestCount(r) PROVE FilterTypes'
  BY <1>2 DEF TestCount
<1>3. ASSUME NEW r \in Requests, AddData(r) PROVE FilterTypes'
  BY <1>3 DEF AddData
<1>4. ASSUME NEW r \in Requests, AddFields(r) PROVE FilterTypes'
  BY <1>4 DEF AddFields
<1>5. ASSUME NEW r \in Requests, AddCount(r) PROVE FilterTypes'
  BY <1>5 DEF AddCount
<1>6. ASSUME NEW r \in Requests, ReadAnswer(r) PROVE FilterTypes'
  BY <1>6 DEF ReadAnswer
<1>7. CASE TaskSendLock
  BY <1>7 DEF TaskSendLock
<1>8. CASE SkipSlot
  BY <1>8 DEF SkipSlot
<1>9. CASE SendTask
  BY <1>9 DEF SendTask
<1>10. CASE TimeoutReport
  BY <1>10 DEF TimeoutReport
<1>11. CASE TimeoutFree
  BY <1>11 DEF TimeoutFree
<1>12. CASE TimeoutClear
  BY <1>12 DEF TimeoutClear
<1>13. CASE TimeoutLoad
  BY <1>13 DEF TimeoutLoad
<1>14. CASE TimeoutStore
  BY <1>14 DEF TimeoutStore
<1>15. CASE TaskSendUnlock
  BY <1>15 DEF TaskSendUnlock
<1>16. CASE ScanNext
  BY <1>16 DEF ScanNext
<1>17. CASE ScanMatch
  BY <1>17 DEF ScanMatch
<1>18. CASE AnswerReport
  BY <1>18 DEF AnswerReport
<1>19. CASE AnswerFree
  BY <1>19 DEF AnswerFree
<1>20. CASE AnswerClear
  BY <1>20 DEF AnswerClear
<1>21. CASE AnswerLoad
  BY <1>21 DEF AnswerLoad
<1>22. CASE AnswerStore
  BY <1>22 DEF AnswerStore
<1>23. ASSUME NEW c \in Commands, ReadCommand(c) PROVE FilterTypes'
  <2>1. packet_pos' \in Ring
    <3>1. packet_pos + 1 \in Nat
      OBVIOUS
    <3> QED BY <1>23, <3>1, DivMod DEF ReadCommand, NextPos
  <2> QED BY <1>23, <2>1 DEF ReadCommand
<1>24. CASE UNCHANGED vars
  BY <1>24 DEF vars
<1> QED BY <1>1, <1>2, <1>3, <1>4, <1>5, <1>6, <1>7, <1>8, <1>9, <1>10, <1>11, <1>12,
          <1>13, <1>14, <1>15, <1>16, <1>17, <1>18, <1>19, <1>20, <1>21, <1>22,
          <1>23, <1>24 DEF Next, AddTask, TaskSend, ReadOn

\* The values of all variables keep their types, and neither thread leaves
\* the list.
THEOREM TypeCorrect == Spec => []TypeOK
<1>1. TypeOK /\ [Next]_vars => TypeOK'
  <2> SUFFICES ASSUME TypeOK, [Next]_vars PROVE TypeOK'
    OBVIOUS
  <2>1. ListTypes /\ CallTypes /\ FilterTypes
    BY DEF TypeOK
  <2>2. ListTypes' /\ CallTypes' /\ FilterTypes'
    BY <2>1, ListTypesNext, CallTypesNext, FilterTypesNext
  <2>3. raced' \in BOOLEAN
    BY DEF TypeOK, Next, vars, Killing, Writing
  <2>4. crashed' \in BOOLEAN
    BY DEF TypeOK, Next, vars, AddTask, Call, TestCount, AddData, AddFields, AddCount,
           ReadAnswer, TaskSendLock, TaskSend, SkipSlot, SendTask, TimeoutReport, TimeoutFree,
           TimeoutClear, TimeoutLoad, TimeoutStore, TaskSendUnlock, ReadOn, ScanNext,
           ScanMatch, AnswerReport, AnswerFree, AnswerClear, AnswerLoad, AnswerStore,
           FreeData, ReadCommand
  <2> QED BY <2>2, <2>3, <2>4 DEF TypeOK
<1> QED BY <1>1, TypeInit, PTL DEF Spec

-----------------------------------------------------------------------------
(* The invariant                                                           *)

\* The ring holds the last packets that passed, the oldest where the next
\* one goes.
FilterInv ==
  /\ packet_pos = Len(handled) % PACKETS
  /\ \A k \in 1 .. Len(handled) :
        k + PACKETS > Len(handled) => packets_id[(k - 1) % PACKETS] = handled[k]
  /\ RepeatsAreFar

\* Who is in a section, and where.
SectionInv ==
  /\ locked.owner = Null => locked.step = "none"
  /\ locked.owner = Server => locked.step \in {"slot", "free", "clear", "load", "store"}
  /\ locked.owner \in Requests => locked.step \in {"fill", "store"}
  /\ \A r \in Requests : pc[r] = "adding" <=> locked.owner = r
  /\ reader.step \in {"none", "scan", "report", "free", "clear", "load", "store"}
  /\ reader.step # "none" => reader.owner \in delivered

Filling(i) == locked.step = "fill" /\ locked.slot = i

\* A request is in one slot at most, and the slot counts its sendings; the
\* one that is being filled was never sent.
Counted(i) ==
  LET r == Lists[i].data IN
  /\ pc[r] \in {"adding", "listed"}
  /\ \A j \in Slots : Lists[j].data = r => j = i
  /\ Filling(i) => locked.owner = r /\ sent[r] = 0
  /\ ~Filling(i) => Lists[i].task = r /\ Lists[i].SendTimes = sent[r]

TriedInv ==
  /\ \A i \in Slots : Occupied(i) => Counted(i)
  /\ \A r \in Requests : pc[r] \in {"start", "called", "lock"} => sent[r] = 0
  /\ TimeoutMeansTried

\* While no answer met a writer: who removes or adds a task is alone with it,
\* and the count it has read is still the count.
AloneInv ==
  /\ ~(Killing /\ Writing)
  /\ locked.step = "store" => locked.reg = ListCnt
  /\ reader.step = "store" => reader.reg = ListCnt
  /\ locked.owner \in Requests => Lists[locked.slot].data = locked.owner
  /\ locked.step \in {"free", "clear"} => Occupied(locked.slot)
  /\ reader.step \in {"report", "free", "clear"} => Occupied(reader.slot)

\* Reports and the list.
ReportInv ==
  /\ \A r \in Requests : pc[r] \in {"start", "called", "lock"} => ends[r] = <<>>
  /\ locked.step \in {"free", "clear"} => ends[Lists[locked.slot].data] # <<>>
  /\ reader.step \in {"free", "clear"} => ends[Lists[reader.slot].data] # <<>>
  /\ reader.step = "report" => SameId(Lists[reader.slot].data, reader.owner)

Quiet == ~raced => AloneInv /\ CountIsTasks
Settled == ~raced => ReportInv /\ ListedUntilReported /\ SuccessIsAnswered

IInv == FilterInv /\ SectionInv /\ TriedInv /\ Quiet /\ Settled

LEMMA FilterNext ==
  ASSUME FilterTypes, FilterInv, [Next]_vars
  PROVE  FilterInv'
<1> USE DEF FilterTypes, FilterInv, RepeatsAreFar, filter
<1>1. ASSUME NEW r \in Requests, Call(r) PROVE FilterInv'
  BY <1>1 DEF Call
<1>2. ASSUME NEW r \in Requests, TestCount(r) PROVE FilterInv'
  BY <1>2 DEF TestCount
<1>3. ASSUME NEW r \in Requests, AddData(r) PROVE FilterInv'
  BY <1>3 DEF AddData
<1>4. ASSUME NEW r \in Requests, AddFields(r) PROVE FilterInv'
  BY <1>4 DEF AddFields
<1>5. ASSUME NEW r \in Requests, AddCount(r) PROVE FilterInv'
  BY <1>5 DEF AddCount
<1>6. ASSUME NEW r \in Requests, ReadAnswer(r) PROVE FilterInv'
  BY <1>6 DEF ReadAnswer
<1>7. CASE TaskSendLock
  BY <1>7 DEF TaskSendLock
<1>8. CASE SkipSlot
  BY <1>8 DEF SkipSlot
<1>9. CASE SendTask
  BY <1>9 DEF SendTask
<1>10. CASE TimeoutReport
  BY <1>10 DEF TimeoutReport
<1>11. CASE TimeoutFree
  BY <1>11 DEF TimeoutFree
<1>12. CASE TimeoutClear
  BY <1>12 DEF TimeoutClear
<1>13. CASE TimeoutLoad
  BY <1>13 DEF TimeoutLoad
<1>14. CASE TimeoutStore
  BY <1>14 DEF TimeoutStore
<1>15. CASE TaskSendUnlock
  BY <1>15 DEF TaskSendUnlock
<1>16. CASE ScanNext
  BY <1>16 DEF ScanNext
<1>17. CASE ScanMatch
  BY <1>17 DEF ScanMatch
<1>18. CASE AnswerReport
  BY <1>18 DEF AnswerReport
<1>19. CASE AnswerFree
  BY <1>19 DEF AnswerFree
<1>20. CASE AnswerClear
  BY <1>20 DEF AnswerClear
<1>21. CASE AnswerLoad
  BY <1>21 DEF AnswerLoad
<1>22. CASE AnswerStore
  BY <1>22 DEF AnswerStore
<1>23. ASSUME NEW c \in Commands, ReadCommand(c) PROVE FilterInv'
  <2> DEFINE L == Len(handled)
  <2>1. /\ L \in Nat /\ packet_pos = L % PACKETS /\ packet_pos \in Ring
        /\ packets_id' = [packets_id EXCEPT ![packet_pos] = c]
        /\ packet_pos' = (packet_pos + 1) % PACKETS
        /\ \A i \in Ring : packets_id[i] # c
    BY <1>23 DEF ReadCommand, NextPos
  <2>2. /\ Len(handled') = L + 1 /\ handled'[L + 1] = c
        /\ \A k \in 1 .. L : handled'[k] = handled[k]
    BY <1>23 DEF ReadCommand
  <2> HIDE DEF L
  <2>3. packet_pos' = (L + 1) % PACKETS
    <3>1. PACKETS \in Nat \ {0}
      OBVIOUS
    <3>2. (L + 1) % PACKETS = ((L % PACKETS) + 1) % PACKETS
      BY ONLY <2>1, <3>1, ModNext
    <3> QED BY ONLY <2>1, <3>2
  <2>4. ASSUME NEW k \in 1 .. L + 1, k + PACKETS > L + 1
        PROVE  packets_id'[(k - 1) % PACKETS] = handled'[k]
    <3>1. CASE k = L + 1
      <4>1. k - 1 = L
        BY <2>1, <3>1
      <4> QED BY <2>1, <2>2, <3>1, <4>1
    <3>2. CASE k # L + 1
      <4> DEFINE a == k - 1
      <4>1. a \in Nat /\ a < L /\ L < a + PACKETS /\ k \in 1 .. L /\ k + PACKETS > L
        <5>1. k \in 1 .. L + 1 /\ L \in Nat /\ PACKETS \in Nat \ {0}
          BY <2>1
        <5> QED BY ONLY <2>4, <3>2, <5>1
      <4>2. packets_id[a % PACKETS] = handled[k]
        BY <4>1 DEF L
      <4> HIDE DEF a
      <4>3. a % PACKETS # L % PACKETS /\ a % PACKETS \in Ring
        BY <2>1, <4>1, ModApart, DivMod
      <4>4. packets_id'[a % PACKETS] = packets_id[a % PACKETS]
        BY <2>1, <4>3
      <4> QED BY <2>2, <4>1, <4>2, <4>4 DEF a
    <3> QED BY <3>1, <3>2
  <2>5. ASSUME NEW j \in 1 .. L, handled[j] = c
        PROVE  j + PACKETS <= L
    <3> SUFFICES ASSUME j + PACKETS > L PROVE FALSE
      BY <2>1
    <3> DEFINE a == j - 1
    <3>1. packets_id[a % PACKETS] = c /\ a \in Nat
      BY <2>5 DEF L
    <3> HIDE DEF a
    <3>2. a % PACKETS \in Ring
      BY <3>1, DivMod
    <3> QED BY <2>1, <3>1, <3>2
  <2>6. ASSUME NEW j \in 1 .. L + 1, NEW k \in 1 .. L + 1,
               j < k, handled'[j] = handled'[k]
        PROVE  k - j > PACKETS
    <3>1. CASE k = L + 1
      <4>1. L \in Nat /\ PACKETS \in Nat /\ j \in 1 .. L + 1 /\ j < k
        BY <2>1, <2>6
      <4>2. j \in 1 .. L
        BY ONLY <3>1, <4>1
      <4>3. handled[j] = c
        BY ONLY <2>2, <2>6, <3>1, <4>2
      <4>4. j + PACKETS <= L
        BY <2>5, <4>2, <4>3
      <4> QED BY ONLY <3>1, <4>1, <4>4
    <3>2. CASE k # L + 1
      <4>1. j \in 1 .. Len(handled) /\ k \in 1 .. Len(handled) /\ handled[j] = handled[k]
        <5>1. L \in Nat /\ j \in 1 .. L + 1 /\ k \in 1 .. L + 1 /\ j < k
          BY <2>1, <2>6
        <5>2. j \in 1 .. L /\ k \in 1 .. L
          BY ONLY <3>2, <5>1
        <5>3. handled[j] = handled[k]
          BY ONLY <2>2, <2>6, <5>2
        <5> QED BY <5>2, <5>3 DEF L
      <4> QED BY <2>6, <4>1
    <3> QED BY <3>1, <3>2
  <2> QED BY <2>2, <2>3, <2>4, <2>6
<1>24. CASE UNCHANGED vars
  BY <1>24 DEF vars
<1> QED BY <1>1, <1>2, <1>3, <1>4, <1>5, <1>6, <1>7, <1>8, <1>9, <1>10, <1>11, <1>12,
          <1>13, <1>14, <1>15, <1>16, <1>17, <1>18, <1>19, <1>20, <1>21, <1>22,
          <1>23, <1>24 DEF Next, AddTask, TaskSend, ReadOn

LEMMA SectionNext ==
  ASSUME ListTypes, CallTypes, SectionInv, [Next]_vars
  PROVE  SectionInv'
<1> USE DEF ListTypes, CallTypes, SectionInv, Sections, Section, Outside, Enter, To,
            Load, AtSlot, NextSlot, network
<1>1. ASSUME NEW r \in Requests, Call(r) PROVE SectionInv'
  BY <1>1 DEF Call
<1>2. ASSUME NEW r \in Requests, TestCount(r) PROVE SectionInv'
  BY <1>2 DEF TestCount
<1>3. ASSUME NEW r \in Requests, AddData(r) PROVE SectionInv'
  BY <1>3, SMTT(40) DEF AddData
<1>4. ASSUME NEW r \in Requests, AddFields(r) PROVE SectionInv'
  BY <1>4 DEF AddFields
<1>5. ASSUME NEW r \in Requests, AddCount(r) PROVE SectionInv'
  BY <1>5 DEF AddCount
<1>6. ASSUME NEW r \in Requests, ReadAnswer(r) PROVE SectionInv'
  BY <1>6 DEF ReadAnswer
<1>7. CASE TaskSendLock
  BY <1>7 DEF TaskSendLock
<1>8. CASE SkipSlot
  BY <1>8 DEF SkipSlot
<1>9. CASE SendTask
  BY <1>9 DEF SendTask
<1>10. CASE TimeoutReport
  BY <1>10 DEF TimeoutReport
<1>11. CASE TimeoutFree
  BY <1>11 DEF TimeoutFree
<1>12. CASE TimeoutClear
  BY <1>12 DEF TimeoutClear
<1>13. CASE TimeoutLoad
  BY <1>13 DEF TimeoutLoad
<1>14. CASE TimeoutStore
  BY <1>14 DEF TimeoutStore
<1>15. CASE TaskSendUnlock
  BY <1>15 DEF TaskSendUnlock
<1>16. CASE ScanNext
  BY <1>16 DEF ScanNext
<1>17. CASE ScanMatch
  BY <1>17 DEF ScanMatch
<1>18. CASE AnswerReport
  BY <1>18 DEF AnswerReport
<1>19. CASE AnswerFree
  BY <1>19 DEF AnswerFree
<1>20. CASE AnswerClear
  BY <1>20 DEF AnswerClear
<1>21. CASE AnswerLoad
  BY <1>21 DEF AnswerLoad
<1>22. CASE AnswerStore
  BY <1>22 DEF AnswerStore
<1>23. ASSUME NEW c \in Commands, ReadCommand(c) PROVE SectionInv'
  BY <1>23 DEF ReadCommand
<1>24. CASE UNCHANGED vars
  BY <1>24 DEF vars
<1> QED BY <1>1, <1>2, <1>3, <1>4, <1>5, <1>6, <1>7, <1>8, <1>9, <1>10, <1>11, <1>12,
          <1>13, <1>14, <1>15, <1>16, <1>17, <1>18, <1>19, <1>20, <1>21, <1>22,
          <1>23, <1>24 DEF Next, AddTask, TaskSend, ReadOn

LEMMA TriedNext ==
  ASSUME ListTypes, CallTypes, SectionInv, TriedInv, [Next]_vars
  PROVE  TriedInv'
<1> USE DEF ListTypes, CallTypes, SectionInv, TriedInv, TimeoutMeansTried, Counted,
            Filling, Occupied, Sections, Section, Outside, Enter, To, Load, AtSlot,
            NextSlot, Entry, ClearData, FreeData, Report, list, network
<1>1. ASSUME NEW r \in Requests, Call(r) PROVE TriedInv'
  BY <1>1, SMTT(40) DEF Call
<1>2. ASSUME NEW r \in Requests, TestCount(r) PROVE TriedInv'
  BY <1>2, SMTT(40) DEF TestCount
<1>3. ASSUME NEW r \in Requests, AddData(r) PROVE TriedInv'
  <2>1. CASE UNCHANGED <<Lists, locked>>
    <3>1. pc' = [pc EXCEPT ![r] = "dropped"] /\ UNCHANGED <<sent, ends>> /\ pc[r] = "lock"
      <4>1. ASSUME NEW i \in Slots, ~Occupied(i),
                   Lists' = [Lists EXCEPT ![i] = Entry(r, @.task, @.SendTimes)]
            PROVE FALSE
        BY <2>1, <4>1
      <4> QED BY <1>3, <4>1 DEF AddData
    <3> QED BY <2>1, <3>1, SMTT(40)
  <2>2. CASE ~UNCHANGED <<Lists, locked>>
    <3>1. PICK i \in Slots : /\ locked' = Enter(r, "fill", i) /\ ~Occupied(i)
             /\ Lists' = [Lists EXCEPT ![i] = Entry(r, Lists[i].task, Lists[i].SendTimes)]
             /\ pc' = [pc EXCEPT ![r] = "adding"]
      BY <1>3, <2>2 DEF AddData
    <3>2. /\ pc[r] = "lock" /\ locked.step = "none" /\ UNCHANGED <<sent, ends>>
          /\ \A j \in Slots : Lists[j].data # r
      BY <1>3, SMTT(40) DEF AddData
    <3>3. /\ Lists'[i].data = r /\ locked'.owner = r /\ locked'.step = "fill"
          /\ locked'.slot = i
          /\ \A j \in Slots : j # i => Lists'[j] = Lists[j]
      BY <3>1
    <3>4. ASSUME NEW j \in Slots, Occupied(j)' PROVE Counted(j)'
      <4>1. CASE j = i
        BY <3>1, <3>2, <3>3, <4>1
      <4>2. CASE j # i
        BY <3>1, <3>2, <3>3, <3>4, <4>2
      <4> QED BY <4>1, <4>2
    <3>5. TimeoutMeansTried'
      BY <3>2
    <3> QED BY <3>1, <3>2, <3>4, <3>5, SMTT(40)
  <2> QED BY <1>3, <2>1, <2>2
<1>4. ASSUME NEW r \in Requests, AddFields(r) PROVE TriedInv'
  <2> DEFINE i == locked.slot
  <2>1. /\ i \in Slots /\ Lists' = [Lists EXCEPT ![i] = Entry(Lists[i].data, r, 0)]
        /\ locked.owner = r /\ locked.step = "fill" /\ locked'.step = "store"
        /\ UNCHANGED <<pc, sent, ends>>
    BY <1>4 DEF AddFields
  <2> HIDE DEF i
  <2>2. /\ Lists'[i].data = Lists[i].data /\ Lists'[i].task = r /\ Lists'[i].SendTimes = 0
        /\ \A j \in Slots : j # i => Lists'[j] = Lists[j]
    BY <2>1
  <2>3. ASSUME NEW j \in Slots, Occupied(j)' PROVE Counted(j)'
    <3>0. \A k \in Slots : Lists'[k].data = Lists[k].data
      BY ONLY <2>2
    <3>1. CASE j = i
      BY <2>1, <2>2, <2>3, <3>0, <3>1 DEF i
    <3>2. CASE j # i
      BY <2>1, <2>2, <2>3, <3>0, <3>2, SMTT(40) DEF i
    <3> QED BY <3>1, <3>2
  <2>4. TimeoutMeansTried'
    BY <2>1
  <2> QED BY <2>1, <2>3, <2>4, SMTT(40)
<1>5. ASSUME NEW r \in Requests, AddCount(r) PROVE TriedInv'
  BY <1>5, SMTT(40) DEF AddCount
<1>6. ASSUME NEW r \in Requests, ReadAnswer(r) PROVE TriedInv'
  BY <1>6 DEF ReadAnswer
<1>7. CASE TaskSendLock
  BY <1>7 DEF TaskSendLock
<1>8. CASE SkipSlot
  BY <1>8 DEF SkipSlot
<1>9. CASE SendTask
  <2>1. PICK i \in Slots :
           /\ locked = Enter(Server, "slot", i) /\ locked' = Enter(Server, "slot", i + 1)
           /\ Occupied(i) /\ Lists[i].SendTimes < Times[Lists[i].task]
           /\ Lists' = [Lists EXCEPT ![i] =
                         Entry(Lists[i].data, Lists[i].task, Lists[i].SendTimes + 1)]
           /\ sent' = [sent EXCEPT ![Lists[i].data] = @ + 1]
           /\ UNCHANGED <<pc, ends>>
    BY <1>9 DEF SendTask, SendAgain
  <2> DEFINE r == Lists[i].data
  <2>2. /\ r \in Requests /\ Lists[i].task = r /\ Lists[i].SendTimes = sent[r]
        /\ pc[r] \in {"adding", "listed"} /\ \A j \in Slots : Lists[j].data = r => j = i
    BY <2>1
  <2> HIDE DEF r
  <2>3. /\ Lists'[i].data = r /\ Lists'[i].task = r /\ Lists'[i].SendTimes = sent[r] + 1
        /\ \A j \in Slots : j # i => Lists'[j] = Lists[j]
    BY <2>1, <2>2 DEF r
  <2>4. sent'[r] = sent[r] + 1 /\ \A q \in Requests : q # r => sent'[q] = sent[q]
    BY <2>1, <2>2 DEF r
  <2>5. locked.step = "slot" /\ locked'.step = "slot"
    BY <2>1
  <2>6. ASSUME NEW j \in Slots, Occupied(j)' PROVE Counted(j)'
    <3>1. CASE j = i
      BY <2>1, <2>2, <2>3, <2>4, <2>5, <3>1, SMTT(40)
    <3>2. CASE j # i
      <4>1. Counted(j) /\ Lists[j].data # r
        BY <2>2, <2>3, <2>6, <3>2, SMTT(40)
      <4> QED BY <2>1, <2>2, <2>3, <2>4, <2>5, <2>6, <3>2, <4>1, SMTT(40)
    <3> QED BY <3>1, <3>2
  <2>7. sent[r] < Times[r]
    BY <2>1, <2>2 DEF r
  <2>8. TimeoutMeansTried'
    <3>1. ASSUME NEW q \in Requests PROVE sent'[q] <= Times[q]
      <4>1. CASE q # r
        BY <2>4, <4>1
      <4>2. CASE q = r
        <5>1. sent[r] \in Nat /\ Times[r] \in Nat
          BY <2>2
        <5> QED BY ONLY <2>4, <2>7, <4>2, <5>1
      <4> QED BY <4>1, <4>2
    <3>2. ASSUME NEW q \in Requests, NEW k \in 1 .. Len(ends[q]), ends[q][k] = "timeout"
          PROVE  sent'[q] = Times[q]
      <4>1. sent[q] = Times[q]
        BY <3>2
      <4>2. q # r
        <5>1. sent[r] \in Nat /\ Times[r] \in Nat
          BY <2>2
        <5> QED BY ONLY <2>7, <4>1, <5>1
      <4> QED BY ONLY <2>4, <3>2, <4>1, <4>2
    <3> QED BY <2>1, <3>1, <3>2
  <2> QED BY <2>1, <2>2, <2>4, <2>6, <2>8, SMTT(40)
<1>10. CASE TimeoutReport
  <2>1. PICK i \in Slots :
           /\ locked = Enter(Server, "slot", i) /\ Occupied(i)
           /\ ~(Lists[i].SendTimes < Times[Lists[i].task])
           /\ ends' = [ends EXCEPT ![Lists[i].task] = Append(@, "timeout")]
    BY <1>10 DEF TimeoutReport, SendAgain
  <2>0. UNCHANGED <<Lists, pc, sent>> /\ locked'.step = "free" /\ locked.step = "slot"
    BY <1>10, <2>1 DEF TimeoutReport
  <2> DEFINE r == Lists[i].task
  <2>2. r \in Requests /\ sent[r] = Times[r]
    BY <2>1
  <2>3. ends'[r] = Append(ends[r], "timeout") /\ \A q \in Requests : q # r => ends'[q] = ends[q]
    BY <2>1, <2>2
  <2>4. \A j \in Slots : Occupied(j)' => Counted(j)'
    BY <2>0
  <2> HIDE DEF r
  <2>5. TimeoutMeansTried'
    <3>1. ASSUME NEW q \in Requests, NEW k \in 1 .. Len(ends'[q]), ends'[q][k] = "timeout"
          PROVE  sent[q] = Times[q]
      <4>1. CASE q = r
        BY <2>2, <4>1
      <4>2. CASE q # r
        <5>1. ends'[q] = ends[q]
          BY <2>3, <4>2
        <5> QED BY <3>1, <5>1
      <4> QED BY <4>1, <4>2
    <3> QED BY <2>0, <3>1, SMTT(40)
  <2> QED BY <2>0, <2>4, <2>5, SMTT(40)
<1>11. CASE TimeoutFree
  BY <1>11 DEF TimeoutFree
<1>12. CASE TimeoutClear
  BY <1>12, SMTT(40) DEF TimeoutClear
<1>13. CASE TimeoutLoad
  BY <1>13 DEF TimeoutLoad
<1>14. CASE TimeoutStore
  BY <1>14 DEF TimeoutStore
<1>15. CASE TaskSendUnlock
  BY <1>15 DEF TaskSendUnlock
<1>16. CASE ScanNext
  BY <1>16 DEF ScanNext
<1>17. CASE ScanMatch
  BY <1>17 DEF ScanMatch
<1>18. CASE AnswerReport
  <2>1. UNCHANGED <<Lists, locked, pc, sent>>
    BY <1>18 DEF AnswerReport
  <2>2. CASE UNCHANGED ends
    BY <2>1, <2>2
  <2>3. CASE Report(reader.slot, "success")
    <3> DEFINE q == Lists[reader.slot].task
    <3>1. ends' = [ends EXCEPT ![q] = Append(@, "success")]
      BY <2>3
    <3> HIDE DEF q
    <3>2. ASSUME NEW r \in Requests, NEW k \in 1 .. Len(ends'[r]), ends'[r][k] = "timeout"
          PROVE  k \in 1 .. Len(ends[r]) /\ ends[r][k] = "timeout"
      <4>1. CASE r # q
        BY <3>1, <3>2, <4>1
      <4>2. CASE r = q
        <5>1. ends'[r] = Append(ends[r], "success") /\ ends[r] \in Seq({"timeout", "success"})
          BY <3>1, <4>2
        <5> QED BY <3>2, <5>1, SMTT(40)
      <4> QED BY <4>1, <4>2
    <3>3. TimeoutMeansTried'
      BY <2>1, <3>2
    <3> QED BY <2>1, <3>3
  <2> QED BY <1>18, <2>2, <2>3 DEF AnswerReport
<1>19. CASE AnswerFree
  BY <1>19 DEF AnswerFree
<1>20. CASE AnswerClear
  BY <1>20 DEF AnswerClear
<1>21. CASE AnswerLoad
  BY <1>21 DEF AnswerLoad
<1>22. CASE AnswerStore
  BY <1>22 DEF AnswerStore
<1>23. ASSUME NEW c \in Commands, ReadCommand(c) PROVE TriedInv'
  BY <1>23 DEF ReadCommand
<1>24. CASE UNCHANGED vars
  BY <1>24 DEF vars
<1> QED BY <1>1, <1>2, <1>3, <1>4, <1>5, <1>6, <1>7, <1>8, <1>9, <1>10, <1>11, <1>12,
          <1>13, <1>14, <1>15, <1>16, <1>17, <1>18, <1>19, <1>20, <1>21, <1>22,
          <1>23, <1>24 DEF Next, AddTask, TaskSend, ReadOn

-----------------------------------------------------------------------------
(* The count of the list                                                   *)

LEMMA AloneNext ==
  ASSUME ListTypes, CallTypes, SectionInv, AloneInv, ~(Killing /\ Writing)', [Next]_vars
  PROVE  AloneInv'
<1> USE DEF ListTypes, CallTypes, SectionInv, AloneInv, Killing, Writing, Occupied,
            Sections, Section, Outside, Enter, To, Load, AtSlot, NextSlot, Entry,
            ClearData, FreeData, Report, list, network
<1>1. ASSUME NEW r \in Requests, Call(r) PROVE AloneInv'
  BY <1>1 DEF Call
<1>2. ASSUME NEW r \in Requests, TestCount(r) PROVE AloneInv'
  BY <1>2 DEF TestCount
<1>3. ASSUME NEW r \in Requests, AddData(r) PROVE AloneInv'
  <2>1. CASE UNCHANGED <<Lists, locked>>
    BY <1>3, <2>1 DEF AddData
  <2>2. CASE ~UNCHANGED <<Lists, locked>>
    <3>1. PICK i \in Slots : /\ locked' = Enter(r, "fill", i)
             /\ Lists' = [Lists EXCEPT ![i] = Entry(r, Lists[i].task, Lists[i].SendTimes)]
      BY <1>3, <2>2 DEF AddData
    <3>2. /\ Lists'[i].data = r /\ locked'.owner = r /\ locked'.step = "fill"
          /\ locked'.slot = i /\ UNCHANGED <<ListCnt, reader>>
      BY <1>3, <3>1 DEF AddData
    <3> QED BY <3>2
  <2> QED BY <1>3, <2>1, <2>2
<1>4. ASSUME NEW r \in Requests, AddFields(r) PROVE AloneInv'
  BY <1>4 DEF AddFields
<1>5. ASSUME NEW r \in Requests, AddCount(r) PROVE AloneInv'
  BY <1>5 DEF AddCount
<1>6. ASSUME NEW r \in Requests, ReadAnswer(r) PROVE AloneInv'
  BY <1>6 DEF ReadAnswer
<1>7. CASE TaskSendLock
  BY <1>7 DEF TaskSendLock
<1>8. CASE SkipSlot
  BY <1>8 DEF SkipSlot
<1>9. CASE SendTask
  BY <1>9 DEF SendTask
<1>10. CASE TimeoutReport
  BY <1>10 DEF TimeoutReport
<1>11. CASE TimeoutFree
  BY <1>11 DEF TimeoutFree
<1>12. CASE TimeoutClear
  BY <1>12 DEF TimeoutClear
<1>13. CASE TimeoutLoad
  BY <1>13 DEF TimeoutLoad
<1>14. CASE TimeoutStore
  BY <1>14 DEF TimeoutStore
<1>15. CASE TaskSendUnlock
  BY <1>15 DEF TaskSendUnlock
<1>16. CASE ScanNext
  BY <1>16 DEF ScanNext
<1>17. CASE ScanMatch
  <2>1. /\ Occupied(reader.slot) /\ reader'.step = "report" /\ reader'.slot = reader.slot
        /\ UNCHANGED <<Lists, ListCnt, locked>>
    BY <1>17 DEF ScanMatch, Matches
  <2> QED BY <2>1
<1>18. CASE AnswerReport
  BY <1>18 DEF AnswerReport
<1>19. CASE AnswerFree
  BY <1>19 DEF AnswerFree
<1>20. CASE AnswerClear
  BY <1>20 DEF AnswerClear
<1>21. CASE AnswerLoad
  BY <1>21 DEF AnswerLoad
<1>22. CASE AnswerStore
  BY <1>22 DEF AnswerStore
<1>23. ASSUME NEW c \in Commands, ReadCommand(c) PROVE AloneInv'
  BY <1>23 DEF ReadCommand
<1>24. CASE UNCHANGED vars
  BY <1>24 DEF vars
<1> QED BY <1>1, <1>2, <1>3, <1>4, <1>5, <1>6, <1>7, <1>8, <1>9, <1>10, <1>11, <1>12,
          <1>13, <1>14, <1>15, <1>16, <1>17, <1>18, <1>19, <1>20, <1>21, <1>22,
          <1>23, <1>24 DEF Next, AddTask, TaskSend, ReadOn

LEMMA TasksFinite == IsFiniteSet(Tasks) /\ Cardinality(Tasks) \in Nat
<1>1. IsFiniteSet(1 .. MAXLIST)
  BY FS_Interval
<1>2. Tasks \subseteq 1 .. MAXLIST
  BY DEF Tasks
<1> QED BY <1>1, <1>2, FS_Subset, FS_CardinalityType

\* A slot that becomes occupied, or free, is one task more, or less.
LEMMA TasksAdd ==
  ASSUME NEW i \in Slots, ~Occupied(i), Occupied(i)',
         \A j \in Slots : j # i => Lists'[j] = Lists[j]
  PROVE  Cardinality(Tasks') = Cardinality(Tasks) + 1
<1>1. Tasks' = Tasks \cup {i} /\ i \notin Tasks
  BY DEF Tasks, Occupied
<1> QED BY <1>1, TasksFinite, FS_AddElement

LEMMA TasksRemove ==
  ASSUME NEW i \in Slots, Occupied(i), ~Occupied(i)',
         \A j \in Slots : j # i => Lists'[j] = Lists[j]
  PROVE  Cardinality(Tasks') = Cardinality(Tasks) - 1
<1>1. Tasks' = Tasks \ {i} /\ i \in Tasks
  BY DEF Tasks, Occupied
<1> QED BY <1>1, TasksFinite, FS_RemoveElement

LEMMA TasksSame ==
  ASSUME \A j \in Slots : Lists'[j].data = Lists[j].data
  PROVE  Cardinality(Tasks') = Cardinality(Tasks)
<1>1. Tasks' = Tasks
  BY DEF Tasks, Occupied
<1> QED BY <1>1

\* The tasks a section has counted and not listed, or removed and counted.
Adding   == If(locked.owner \in Requests)
Removing == If(locked.owner = Server /\ locked.step \in {"load", "store"})
Answered == If(reader.step \in {"load", "store"})

Counts == ListCnt = Cardinality(Tasks) - Adding + Removing + Answered

LEMMA CountRanges == Adding \in {0, 1} /\ Removing \in {0, 1} /\ Answered \in {0, 1}
  BY DEF Adding, Removing, Answered, If

LEMMA CountsNext ==
  ASSUME ListTypes, CallTypes, SectionInv, AloneInv, ~(Killing /\ Writing)', Counts,
         [Next]_vars
  PROVE  Counts'
<1> USE DEF ListTypes, CallTypes, SectionInv, AloneInv, Counts, Adding, Removing,
            Answered, If, Killing, Writing, Sections, Section, Outside, Enter, To,
            Load, AtSlot, NextSlot, Entry, ClearData, FreeData, Report, list, network
<1>1. ASSUME NEW r \in Requests, Call(r) PROVE Counts'
  BY <1>1, TasksSame, TasksFinite DEF Call
<1>2. ASSUME NEW r \in Requests, TestCount(r) PROVE Counts'
  BY <1>2, TasksSame, TasksFinite DEF TestCount
<1>3. ASSUME NEW r \in Requests, AddData(r) PROVE Counts'
  <2>1. CASE UNCHANGED <<Lists, locked>>
    BY <1>3, <2>1, TasksSame, TasksFinite DEF AddData
  <2>2. CASE ~UNCHANGED <<Lists, locked>>
    <3>1. PICK i \in Slots : /\ locked' = Enter(r, "fill", i) /\ ~Occupied(i)
             /\ Lists' = [Lists EXCEPT ![i] = Entry(r, Lists[i].task, Lists[i].SendTimes)]
      BY <1>3, <2>2 DEF AddData
    <3>2. Cardinality(Tasks') = Cardinality(Tasks) + 1
      <4>1. Occupied(i)' /\ \A j \in Slots : j # i => Lists'[j] = Lists[j]
        BY <3>1 DEF Occupied
      <4> QED BY ONLY <3>1, <4>1, TasksAdd, i \in Slots
    <3>3. locked.owner = Null /\ locked'.owner = r /\ UNCHANGED <<ListCnt, reader>>
      BY <1>3, <3>1 DEF AddData
    <3>4. /\ Adding = 0 /\ Adding' = 1 /\ Removing = 0 /\ Removing' = 0 /\ Answered' = Answered
          /\ ListCnt' = ListCnt
      BY <3>3
    <3> QED BY ONLY <3>2, <3>4, TasksFinite, CountRanges, Counts DEF Counts
  <2> QED BY <1>3, <2>1, <2>2
<1>4. ASSUME NEW r \in Requests, AddFields(r) PROVE Counts'
  <2>1. \A j \in Slots : Lists'[j].data = Lists[j].data
    BY <1>4 DEF AddFields
  <2>2. locked'.owner = locked.owner /\ locked.owner \in Requests /\ UNCHANGED <<ListCnt, reader>>
    BY <1>4 DEF AddFields
  <2> QED BY <2>1, <2>2, TasksSame, TasksFinite
<1>5. ASSUME NEW r \in Requests, AddCount(r) PROVE Counts'
  <2>1. /\ ListCnt' = ListCnt + 1 /\ locked.owner \in Requests /\ locked'.owner = Null
        /\ UNCHANGED <<Lists, reader>>
    BY <1>5 DEF AddCount
  <2>2. Cardinality(Tasks') = Cardinality(Tasks)
    BY <2>1, TasksSame
  <2>5. Adding = 1 /\ Adding' = 0 /\ Removing = 0 /\ Removing' = 0 /\ Answered' = Answered
    BY <2>1
  <2> QED BY ONLY <2>1, <2>2, <2>5, TasksFinite, CountRanges, Counts DEF Counts
<1>6. ASSUME NEW r \in Requests, ReadAnswer(r) PROVE Counts'
  BY <1>6, TasksSame, TasksFinite DEF ReadAnswer
<1>7. CASE TaskSendLock
  BY <1>7, TasksSame, TasksFinite DEF TaskSendLock
<1>8. CASE SkipSlot
  BY <1>8, TasksSame, TasksFinite, SMTT(40) DEF SkipSlot
<1>9. CASE SendTask
  <2>1. PICK i \in Slots :
           Lists' = [Lists EXCEPT ![i] =
                       Entry(Lists[i].data, Lists[i].task, Lists[i].SendTimes + 1)]
    BY <1>9 DEF SendTask
  <2>2. \A j \in Slots : Lists'[j].data = Lists[j].data
    BY <2>1
  <2>3. /\ locked.owner = Server /\ locked'.owner = Server
        /\ locked.step = "slot" /\ locked'.step = "slot" /\ UNCHANGED <<ListCnt, reader>>
    BY <1>9 DEF SendTask
  <2> QED BY <2>2, <2>3, TasksSame, TasksFinite
<1>10. CASE TimeoutReport
  BY <1>10, TasksSame, TasksFinite DEF TimeoutReport
<1>11. CASE TimeoutFree
  BY <1>11, TasksSame, TasksFinite DEF TimeoutFree
<1>12. CASE TimeoutClear
  <2>0. PICK i \in Slots : i = locked.slot
    BY <1>12 DEF TimeoutClear
  <2>1. Lists' = [Lists EXCEPT ![i] = Entry(Null, Lists[i].task, Lists[i].SendTimes)]
    BY <1>12, <2>0 DEF TimeoutClear
  <2>2. Occupied(i) /\ ~Occupied(i)' /\ \A j \in Slots : j # i => Lists'[j] = Lists[j]
    BY <1>12, <2>0, <2>1 DEF TimeoutClear, Occupied
  <2>3. Cardinality(Tasks') = Cardinality(Tasks) - 1
    BY ONLY <2>2, TasksRemove, i \in Slots
  <2>4. /\ locked.owner = Server /\ locked'.owner = Server
        /\ locked.step = "clear" /\ locked'.step = "load" /\ UNCHANGED <<ListCnt, reader>>
    BY <1>12 DEF TimeoutClear
  <2> QED BY <2>3, <2>4, TasksFinite, SMTT(40)
<1>13. CASE TimeoutLoad
  BY <1>13, TasksSame, TasksFinite DEF TimeoutLoad
<1>14. CASE TimeoutStore
  BY <1>14, TasksSame, TasksFinite, SMTT(40) DEF TimeoutStore
<1>15. CASE TaskSendUnlock
  BY <1>15, TasksSame, TasksFinite DEF TaskSendUnlock
<1>16. CASE ScanNext
  BY <1>16, TasksSame, TasksFinite DEF ScanNext
<1>17. CASE ScanMatch
  BY <1>17, TasksSame, TasksFinite DEF ScanMatch
<1>18. CASE AnswerReport
  BY <1>18, TasksSame, TasksFinite DEF AnswerReport
<1>19. CASE AnswerFree
  BY <1>19, TasksSame, TasksFinite DEF AnswerFree
<1>20. CASE AnswerClear
  <2>0. PICK i \in Slots : i = reader.slot
    BY <1>20 DEF AnswerClear
  <2>1. Lists' = [Lists EXCEPT ![i] = Entry(Null, Lists[i].task, Lists[i].SendTimes)]
    BY <1>20, <2>0 DEF AnswerClear
  <2>2. Occupied(i) /\ ~Occupied(i)' /\ \A j \in Slots : j # i => Lists'[j] = Lists[j]
    BY <1>20, <2>0, <2>1 DEF AnswerClear, Occupied
  <2>3. Cardinality(Tasks') = Cardinality(Tasks) - 1
    BY ONLY <2>2, TasksRemove, i \in Slots
  <2>4. /\ reader.step = "clear" /\ reader'.step = "load" /\ UNCHANGED <<ListCnt, locked>>
        /\ locked.step \notin {"load", "store"}
    BY <1>20 DEF AnswerClear
  <2>5. Answered = 0 /\ Answered' = 1 /\ Adding' = Adding /\ Removing' = Removing
    BY <2>4
  <2> QED BY ONLY <2>3, <2>4, <2>5, TasksFinite, CountRanges, Counts DEF Counts
<1>21. CASE AnswerLoad
  BY <1>21, TasksSame, TasksFinite DEF AnswerLoad
<1>22. CASE AnswerStore
  <2>1. /\ ListCnt' = ListCnt - 1 /\ reader.step = "store" /\ reader'.step = "none"
        /\ UNCHANGED <<Lists, locked>> /\ locked.step \notin {"load", "store"}
    BY <1>22 DEF AnswerStore
  <2>2. Cardinality(Tasks') = Cardinality(Tasks)
    BY <2>1, TasksSame
  <2>5. Answered = 1 /\ Answered' = 0 /\ Adding' = Adding /\ Removing' = Removing
    BY <2>1
  <2> QED BY ONLY <2>1, <2>2, <2>5, TasksFinite, CountRanges, Counts DEF Counts
<1>23. ASSUME NEW c \in Commands, ReadCommand(c) PROVE Counts'
  <2>1. UNCHANGED <<Lists, ListCnt, locked, reader>>
    BY <1>23 DEF ReadCommand
  <2> QED BY <2>1 DEF Tasks, Occupied
<1>24. CASE UNCHANGED vars
  BY <1>24, TasksSame DEF vars
<1> QED BY <1>1, <1>2, <1>3, <1>4, <1>5, <1>6, <1>7, <1>8, <1>9, <1>10, <1>11, <1>12,
          <1>13, <1>14, <1>15, <1>16, <1>17, <1>18, <1>19, <1>20, <1>21, <1>22,
          <1>23, <1>24 DEF Next, AddTask, TaskSend, ReadOn

-----------------------------------------------------------------------------
(* Reports                                                                 *)

\* What ListedUntilReported and SuccessIsAnswered say of one request.
Listed(r) ==
  /\ Len(ends[r]) <= 1
  /\ pc[r] = "listed" /\ ends[r] = <<>> => \E i \in Slots : Lists[i].data = r
  /\ ends[r] # <<>> =>
       \A i \in Slots : Lists[i].data = r =>
         \/ locked.step \in {"free", "clear"} /\ locked.slot = i
         \/ reader.step \in {"free", "clear"} /\ reader.slot = i

Successful(r) == ends[r] = <<"success">> => \E q \in delivered : Id[q] = Id[r]

Reported == ReportInv /\ \A r \in Requests : Listed(r) /\ Successful(r)

\* A step that reports nothing and starts or ends no removal.
Freeing(t) == t.step \in {"free", "clear"}
Calm ==
  /\ UNCHANGED ends /\ delivered \subseteq delivered'
  /\ \A i \in Slots : Lists'[i].data = Lists[i].data
  /\ \A r \in Requests : pc'[r] = "listed" => pc[r] = "listed"
  /\ \A r \in Requests : pc'[r] \in {"start", "called", "lock"}
                           => pc[r] \in {"start", "called", "lock"}
  /\ Freeing(locked) <=> Freeing(locked')
  /\ Freeing(locked) => locked'.slot = locked.slot
  /\ Freeing(reader) <=> Freeing(reader')
  /\ Freeing(reader) => reader'.slot = reader.slot
  /\ reader'.step = "report" => reader' = reader

LEMMA CalmReported ==
  ASSUME ListTypes, Reported, Calm
  PROVE  Reported'
<1>1. ReportInv'
  <2>1. \A r \in Requests : pc'[r] \in {"start", "called", "lock"} => ends'[r] = <<>>
    BY DEF Reported, ReportInv, Calm
  <2>2. Freeing(locked') => ends'[Lists'[locked'.slot].data] # <<>>
    <3>1. Freeing(locked) => locked.slot \in Slots
      BY DEF ListTypes, Freeing
    <3> QED BY <3>1 DEF Reported, ReportInv, Calm, Freeing
  <2>3. Freeing(reader') => ends'[Lists'[reader'.slot].data] # <<>>
    BY DEF Reported, ReportInv, Calm, Freeing, ListTypes
  <2>4. reader'.step = "report" => SameId(Lists'[reader'.slot].data, reader'.owner)
    BY DEF Reported, ReportInv, Calm, ListTypes
  <2> QED BY <2>1, <2>2, <2>3, <2>4 DEF ReportInv, Freeing, SameId
<1>2. ASSUME NEW r \in Requests PROVE Listed(r)' /\ Successful(r)'
  <2>1. Listed(r) /\ Successful(r)
    BY DEF Reported
  <2>2. Listed(r)'
    BY <2>1 DEF Listed, Calm, Freeing
  <2> QED BY <2>1, <2>2 DEF Successful, Calm
<1> QED BY <1>1, <1>2 DEF Reported

LEMMA ReportedNext ==
  ASSUME ListTypes, CallTypes, SectionInv, TriedInv, AloneInv, ~(Killing /\ Writing)',
         Reported, [Next]_vars
  PROVE  Reported'
<1>1. ASSUME NEW r \in Requests, Call(r) PROVE Reported'
  <2>1. Calm
    BY <1>1 DEF Call, Calm, Freeing, CallTypes, ListTypes, SectionInv, Sections,
                Section, Outside, Enter, To, Load, AtSlot, NextSlot, Entry, FreeData,
             list, network
  <2> QED BY <2>1, CalmReported
<1>2. ASSUME NEW r \in Requests, TestCount(r) PROVE Reported'
  <2>1. Calm
    BY <1>2 DEF TestCount, Calm, Freeing, CallTypes, ListTypes, SectionInv, Sections,
                Section, Outside, Enter, To, Load, AtSlot, NextSlot, Entry, FreeData,
             list, network
  <2> QED BY <2>1, CalmReported
<1>3. ASSUME NEW r \in Requests, AddData(r) PROVE Reported'
  <2>1. CASE UNCHANGED <<Lists, locked>>
    <3>1. Calm
      BY <1>3, <2>1 DEF AddData, Calm, network, CallTypes
    <3> QED BY <3>1, CalmReported
  <2>2. CASE ~UNCHANGED <<Lists, locked>>
    <3>1. PICK i \in Slots : /\ locked' = Enter(r, "fill", i) /\ ~Occupied(i)
             /\ Lists' = [Lists EXCEPT ![i] = Entry(r, Lists[i].task, Lists[i].SendTimes)]
             /\ pc' = [pc EXCEPT ![r] = "adding"]
      BY <1>3, <2>2 DEF AddData
    <3>2. /\ pc[r] = "lock" /\ locked.step = "none" /\ UNCHANGED <<ends, delivered, reader>>
          /\ locked'.step = "fill" /\ ends[r] = <<>> /\ Lists[i].data = Null
      BY <1>3, <3>1 DEF AddData, Reported, ReportInv, Occupied, Outside, Enter,
                        Section, network
    <3>3. Lists'[i].data = r /\ \A j \in Slots : j # i => Lists'[j] = Lists[j]
      BY <3>1 DEF Entry, ListTypes
    <3>4. pc'[r] = "adding" /\ \A q \in Requests : q # r => pc'[q] = pc[q]
      BY <3>1 DEF CallTypes
    <3>5. ReportInv'
      <4>1. \A q \in Requests : pc'[q] \in {"start", "called", "lock"} => ends'[q] = <<>>
        BY <3>2, <3>4 DEF Reported, ReportInv
      <4>2. reader.step \in {"report", "free", "clear"} => reader.slot # i
        BY <3>2 DEF AloneInv, Occupied
      <4>3. reader.slot \in Slots
        BY DEF ListTypes
      <4> QED BY <3>2, <3>3, <4>1, <4>2, <4>3 DEF Reported, ReportInv, SameId
    <3>6. ASSUME NEW q \in Requests PROVE Listed(q)' /\ Successful(q)'
      <4>1. Listed(q) /\ Successful(q)
        BY DEF Reported
      <4>2. CASE q = r
        BY <3>2, <3>3, <3>4, <4>1, <4>2 DEF Listed, Successful
      <4>3. CASE q # r
        BY <3>2, <3>3, <3>4, <4>1, <4>3 DEF Listed, Successful
      <4> QED BY <4>2, <4>3
    <3> QED BY <3>5, <3>6 DEF Reported
  <2> QED BY <2>1, <2>2
<1>4. ASSUME NEW r \in Requests, AddFields(r) PROVE Reported'
  <2>1. Calm
    BY <1>4 DEF AddFields, Calm, Freeing, CallTypes, ListTypes, SectionInv, Sections,
                Section, Outside, Enter, To, Load, AtSlot, NextSlot, Entry, FreeData,
             list, network
  <2> QED BY <2>1, CalmReported
<1>5. ASSUME NEW r \in Requests, AddCount(r) PROVE Reported'
  <2>1. /\ locked.owner = r /\ locked.step = "store" /\ locked'.step = "none"
        /\ pc' = [pc EXCEPT ![r] = "listed"]
        /\ UNCHANGED <<Lists, ends, delivered, reader>>
    BY <1>5 DEF AddCount, Outside, Section, network
  <2>2. Lists[locked.slot].data = r /\ locked.slot \in Slots
    BY <2>1 DEF AloneInv, ListTypes
  <2>3. ReportInv'
    BY <2>1 DEF Reported, ReportInv, CallTypes, SameId
  <2>4. ASSUME NEW q \in Requests PROVE Listed(q)' /\ Successful(q)'
    <3>1. Listed(q) /\ Successful(q)
      BY DEF Reported
    <3>2. CASE q = r
      BY <2>1, <2>2, <3>1, <3>2 DEF Listed, Successful
    <3>3. CASE q # r
      <4>1. pc'[q] = pc[q]
        BY <2>1, <3>3 DEF CallTypes
      <4> QED BY <2>1, <3>1, <4>1 DEF Listed, Successful
    <3> QED BY <3>2, <3>3
  <2> QED BY <2>3, <2>4 DEF Reported
<1>6. ASSUME NEW r \in Requests, ReadAnswer(r) PROVE Reported'
  <2>1. Calm
    BY <1>6 DEF ReadAnswer, Calm, Freeing, CallTypes, ListTypes, SectionInv, Sections,
                Section, Outside, Enter, To, Load, AtSlot, NextSlot, Entry, FreeData,
             list, network
  <2> QED BY <2>1, CalmReported
<1>7. CASE TaskSendLock
  <2>1. Calm
    BY <1>7 DEF TaskSendLock, Calm, Freeing, CallTypes, ListTypes, SectionInv,
                Sections, Section, Outside, Enter, To, Load, AtSlot, NextSlot, Entry,
                FreeData,
             list, network
  <2> QED BY <2>1, CalmReported
<1>8. CASE SkipSlot
  <2>1. Calm
    BY <1>8 DEF SkipSlot, Calm, Freeing, CallTypes, ListTypes, SectionInv, Sections,
                Section, Outside, Enter, To, Load, AtSlot, NextSlot, Entry, FreeData,
             list, network
  <2> QED BY <2>1, CalmReported
<1>9. CASE SendTask
  <2>1. PICK i \in Slots :
           Lists' = [Lists EXCEPT ![i] =
                       Entry(Lists[i].data, Lists[i].task, Lists[i].SendTimes + 1)]
    BY <1>9 DEF SendTask
  <2>2. \A j \in Slots : Lists'[j].data = Lists[j].data
    BY <2>1 DEF Entry, ListTypes
  <2>3. /\ locked.step = "slot" /\ locked'.step = "slot" /\ UNCHANGED <<pc, ends, reader>>
        /\ delivered \subseteq delivered'
    BY <1>9 DEF SendTask, AtSlot, NextSlot, Enter, Section
  <2>4. Calm
    BY <2>2, <2>3 DEF Calm, Freeing
  <2> QED BY <2>4, CalmReported
<1>10. CASE TimeoutReport
  <2>1. PICK i \in Slots :
           /\ locked = Enter(Server, "slot", i) /\ Occupied(i)
           /\ ends' = [ends EXCEPT ![Lists[i].task] = Append(@, "timeout")]
    BY <1>10 DEF TimeoutReport, AtSlot, Report
  <2> DEFINE r == Lists[i].task
  <2>0. /\ UNCHANGED <<Lists, pc, delivered, reader>>
        /\ locked.step = "slot" /\ locked'.step = "free" /\ locked'.slot = i
        /\ reader.step \notin {"report", "free", "clear"}
    BY <1>10, <2>1 DEF TimeoutReport, Enter, To, Section, list, network, Killing,
                       Writing
  <2>2. r \in Requests /\ Lists[i].data = r /\ \A j \in Slots : Lists[j].data = r => j = i
    BY <2>1, <2>0 DEF TriedInv, Counted, Occupied, Filling, ListTypes
  <2>3. ends[r] = <<>>
    <3>1. Listed(r)
      BY <2>2 DEF Reported
    <3> QED BY <2>0, <2>1, <2>2, <3>1 DEF Listed, AloneInv, Killing, Writing
  <2>4. /\ ends'[r] = <<"timeout">> /\ \A q \in Requests : q # r => ends'[q] = ends[q]
    BY <2>1, <2>2, <2>3 DEF CallTypes
  <2>5. ReportInv'
    <3>1. pc[r] \in {"adding", "listed"}
      BY <2>0, <2>1, <2>2 DEF TriedInv, Counted, Occupied
    <3>2. \A q \in Requests : pc'[q] \in {"start", "called", "lock"} => ends'[q] = <<>>
      BY <2>0, <2>4, <3>1 DEF Reported, ReportInv
    <3>3. ends'[r] # <<>>
      BY <2>4
    <3>4. Lists'[i].data = r
      BY <2>0, <2>2
    <3> QED BY <2>0, <2>1, <3>2, <3>3, <3>4 DEF ReportInv
  <2>6. ASSUME NEW q \in Requests PROVE Listed(q)' /\ Successful(q)'
    <3>1. Listed(q) /\ Successful(q)
      BY DEF Reported
    <3>2. CASE q = r
      <4>1. ends'[q] = <<"timeout">> /\ Len(<<"timeout">>) = 1 /\ <<"timeout">> # <<>>
        <5>1. ends'[q] = <<"timeout">>
          BY <2>4, <3>2
        <5>2. Len(<<"timeout">>) = 1 /\ <<"timeout">> # <<>>
          OBVIOUS
        <5> QED BY <5>1, <5>2
      <4>2. Listed(q)'
        <5>1. \A j \in Slots : Lists'[j].data = q => j = i
          BY <2>0, <2>2, <3>2
        <5>2. Len(ends'[q]) <= 1 /\ ends'[q] # <<>>
          BY ONLY <4>1
        <5> QED BY ONLY <2>0, <2>1, <5>1, <5>2 DEF Listed
      <4>3. Successful(q)'
        BY <2>0, <2>1, <2>2, <2>4, <3>2 DEF Successful
      <4> QED BY <4>2, <4>3
    <3>3. CASE q # r
      BY <2>0, <2>1, <2>2, <2>4, <3>1, <3>3 DEF Listed, Successful
    <3> QED BY <3>2, <3>3
  <2> QED BY <2>5, <2>6 DEF Reported
<1>11. CASE TimeoutFree
  <2>1. Calm
    BY <1>11 DEF TimeoutFree, Calm, Freeing, CallTypes, ListTypes, SectionInv,
                 Sections, Section, Outside, Enter, To, Load, AtSlot, NextSlot, Entry,
                 FreeData,
             list, network
  <2> QED BY <2>1, CalmReported
<1>12. CASE TimeoutClear
  <2>0. PICK i \in Slots : i = locked.slot
    BY <1>12 DEF TimeoutClear, ListTypes
  <2>1. /\ Lists' = [Lists EXCEPT ![i] = Entry(Null, Lists[i].task, Lists[i].SendTimes)]
        /\ locked.step = "clear" /\ locked'.step = "load" /\ UNCHANGED <<pc, ends, delivered, reader>>
    BY <1>12, <2>0 DEF TimeoutClear, ClearData, To, Section, network
  <2>2. Occupied(i) /\ ends[Lists[i].data] # <<>>
    BY <2>0, <2>1 DEF AloneInv, Reported, ReportInv
  <2>3. Lists'[i].data = Null /\ \A j \in Slots : j # i => Lists'[j] = Lists[j]
    BY <2>1 DEF Entry, ListTypes
  <2>4. reader.step \notin {"free", "clear", "report"}
    BY <2>1 DEF AloneInv, Killing, Writing
  <2>5. ReportInv'
    BY <2>1, <2>4 DEF Reported, ReportInv
  <2>6. ASSUME NEW q \in Requests PROVE Listed(q)' /\ Successful(q)'
    <3>1. Listed(q) /\ Successful(q)
      BY DEF Reported
    <3> QED BY <2>0, <2>1, <2>2, <2>3, <2>4, <3>1 DEF Listed, Successful
  <2> QED BY <2>5, <2>6 DEF Reported
<1>13. CASE TimeoutLoad
  <2>1. Calm
    BY <1>13 DEF TimeoutLoad, Calm, Freeing, CallTypes, ListTypes, SectionInv,
                 Sections, Section, Outside, Enter, To, Load, AtSlot, NextSlot, Entry,
                 FreeData,
             list, network
  <2> QED BY <2>1, CalmReported
<1>14. CASE TimeoutStore
  <2>1. Calm
    BY <1>14 DEF TimeoutStore, Calm, Freeing, CallTypes, ListTypes, SectionInv,
                 Sections, Section, Outside, Enter, To, Load, AtSlot, NextSlot, Entry,
                 FreeData,
             list, network
  <2> QED BY <2>1, CalmReported
<1>15. CASE TaskSendUnlock
  <2>1. Calm
    BY <1>15 DEF TaskSendUnlock, Calm, Freeing, CallTypes, ListTypes, SectionInv,
                 Sections, Section, Outside, Enter, To, Load, AtSlot, NextSlot, Entry,
                 FreeData,
             list, network
  <2> QED BY <2>1, CalmReported
<1>16. CASE ScanNext
  <2>1. Calm
    BY <1>16 DEF ScanNext, Calm, Freeing, CallTypes, ListTypes, SectionInv, Sections,
                 Section, Outside, Enter, To, Load, AtSlot, NextSlot, Entry, FreeData,
             list, network
  <2> QED BY <2>1, CalmReported
<1>17. CASE ScanMatch
  <2>1. /\ reader.step = "scan" /\ reader'.step = "report" /\ reader'.slot = reader.slot
        /\ reader'.owner = reader.owner /\ SameId(Lists[reader.slot].data, reader.owner)
        /\ UNCHANGED <<Lists, locked, pc, ends, delivered>>
    BY <1>17 DEF ScanMatch, Matches, To, Section, list, network
  <2>2. ReportInv'
    BY <2>1 DEF Reported, ReportInv, SameId
  <2>3. ASSUME NEW q \in Requests PROVE Listed(q)' /\ Successful(q)'
    <3>1. Listed(q) /\ Successful(q)
      BY DEF Reported
    <3> QED BY <2>1, <3>1 DEF Listed, Successful
  <2> QED BY <2>2, <2>3 DEF Reported
<1>18. CASE AnswerReport
  <2> DEFINE r == Lists[reader.slot].task
  <2>1. PICK i \in Slots : i = reader.slot /\ Occupied(i)
    BY <1>18 DEF AnswerReport, AloneInv, ListTypes
  <2>0. /\ UNCHANGED <<Lists, pc, delivered, locked>>
        /\ reader.step = "report" /\ reader'.step = "free" /\ reader'.slot = i
        /\ locked.step \notin {"fill", "free", "clear"}
    BY <1>18, <2>1 DEF AnswerReport, To, Section, list, network, Killing, Writing
  <2>7. r # Null
    BY <2>0, <2>1 DEF TriedInv, Counted, Occupied, Filling
  <2>8. ends' = [ends EXCEPT ![r] = Append(@, "success")]
    BY <1>18, <2>7 DEF AnswerReport, Report
  <2>9. SameId(Lists[i].data, reader.owner) /\ reader.owner \in delivered
    BY <2>0, <2>1 DEF Reported, ReportInv, SectionInv
  <2>2. r \in Requests /\ Lists[i].data = r /\ \A j \in Slots : Lists[j].data = r => j = i
    BY <2>1, <2>0 DEF TriedInv, Counted, Occupied, Filling, ListTypes
  <2>3. ends[r] = <<>>
    <3>1. Listed(r)
      BY <2>2 DEF Reported
    <3> QED BY <2>0, <2>1, <2>2, <3>1 DEF Listed, AloneInv, Killing, Writing
  <2>4. /\ ends'[r] = <<"success">> /\ \A q \in Requests : q # r => ends'[q] = ends[q]
    BY <2>2, <2>3, <2>8 DEF CallTypes
  <2>5. ReportInv'
    <3>1. pc[r] \in {"adding", "listed"}
      BY <2>0, <2>1, <2>2 DEF TriedInv, Counted, Occupied
    <3>2. \A q \in Requests : pc'[q] \in {"start", "called", "lock"} => ends'[q] = <<>>
      BY <2>0, <2>4, <3>1 DEF Reported, ReportInv
    <3>3. ends'[r] # <<>>
      BY <2>4
    <3>4. Lists'[i].data = r
      BY <2>0, <2>2
    <3> QED BY <2>0, <2>1, <3>2, <3>3, <3>4 DEF ReportInv
  <2>6. ASSUME NEW q \in Requests PROVE Listed(q)' /\ Successful(q)'
    <3>1. Listed(q) /\ Successful(q)
      BY DEF Reported
    <3>2. CASE q = r
      <4>1. ends'[q] = <<"success">> /\ Len(<<"success">>) = 1 /\ <<"success">> # <<>>
        <5>1. ends'[q] = <<"success">>
          BY <2>4, <3>2
        <5>2. Len(<<"success">>) = 1 /\ <<"success">> # <<>>
          OBVIOUS
        <5> QED BY <5>1, <5>2
      <4>2. Listed(q)'
        <5>1. \A j \in Slots : Lists'[j].data = q => j = i
          BY <2>0, <2>2, <3>2
        <5>2. Len(ends'[q]) <= 1 /\ ends'[q] # <<>>
          BY ONLY <4>1
        <5> QED BY ONLY <2>0, <2>1, <5>1, <5>2 DEF Listed
      <4>3. Successful(q)'
        BY <2>0, <2>1, <2>2, <2>4, <3>2, <2>9 DEF Successful, SameId
      <4> QED BY <4>2, <4>3
    <3>3. CASE q # r
      BY <2>0, <2>1, <2>2, <2>4, <3>1, <3>3 DEF Listed, Successful
    <3> QED BY <3>2, <3>3
  <2> QED BY <2>5, <2>6 DEF Reported
<1>19. CASE AnswerFree
  <2>1. Calm
    BY <1>19 DEF AnswerFree, Calm, Freeing, CallTypes, ListTypes, SectionInv, Sections,
                 Section, Outside, Enter, To, Load, AtSlot, NextSlot, Entry, FreeData,
             list, network
  <2> QED BY <2>1, CalmReported
<1>20. CASE AnswerClear
  <2>0. PICK i \in Slots : i = reader.slot
    BY <1>20 DEF AnswerClear, ListTypes
  <2>1. /\ Lists' = [Lists EXCEPT ![i] = Entry(Null, Lists[i].task, Lists[i].SendTimes)]
        /\ reader.step = "clear" /\ reader'.step = "load" /\ UNCHANGED <<pc, ends, delivered, locked>>
    BY <1>20, <2>0 DEF AnswerClear, ClearData, To, Section, network
  <2>2. Occupied(i) /\ ends[Lists[i].data] # <<>>
    BY <2>0, <2>1 DEF AloneInv, Reported, ReportInv
  <2>3. Lists'[i].data = Null /\ \A j \in Slots : j # i => Lists'[j] = Lists[j]
    BY <2>1 DEF Entry, ListTypes
  <2>4. locked.step \notin {"fill", "free", "clear"}
    BY <2>1 DEF AloneInv, Killing, Writing
  <2>5. ReportInv'
    BY <2>1, <2>4 DEF Reported, ReportInv
  <2>6. ASSUME NEW q \in Requests PROVE Listed(q)' /\ Successful(q)'
    <3>1. Listed(q) /\ Successful(q)
      BY DEF Reported
    <3> QED BY <2>0, <2>1, <2>2, <2>3, <2>4, <3>1 DEF Listed, Successful
  <2> QED BY <2>5, <2>6 DEF Reported
<1>21. CASE AnswerLoad
  <2>1. Calm
    BY <1>21 DEF AnswerLoad, Calm, Freeing, CallTypes, ListTypes, SectionInv, Sections,
                 Section, Outside, Enter, To, Load, AtSlot, NextSlot, Entry, FreeData,
             list, network
  <2> QED BY <2>1, CalmReported
<1>22. CASE AnswerStore
  <2>1. Calm
    BY <1>22 DEF AnswerStore, Calm, Freeing, CallTypes, ListTypes, SectionInv,
                 Sections, Section, Outside, Enter, To, Load, AtSlot, NextSlot, Entry,
                 FreeData,
             list, network
  <2> QED BY <2>1, CalmReported
<1>23. ASSUME NEW c \in Commands, ReadCommand(c) PROVE Reported'
  <2>1. Calm
    BY <1>23 DEF ReadCommand, Calm, list, network
  <2> QED BY <2>1, CalmReported
<1>24. CASE UNCHANGED vars
  <2>1. Calm
    BY <1>24 DEF vars, Calm, list, network
  <2> QED BY <2>1, CalmReported
<1> QED BY <1>1, <1>2, <1>3, <1>4, <1>5, <1>6, <1>7, <1>8, <1>9, <1>10, <1>11, <1>12,
          <1>13, <1>14, <1>15, <1>16, <1>17, <1>18, <1>19, <1>20, <1>21, <1>22,
          <1>23, <1>24 DEF Next, AddTask, TaskSend, ReadOn

-----------------------------------------------------------------------------
(* The theorems                                                            *)

LEMMA InvInit == Init => IInv
<1> SUFFICES ASSUME Init PROVE IInv
  OBVIOUS
<1>1. FilterInv
  <2>1. Len(handled) = 0 /\ 0 % PACKETS = 0
    <3>1. PACKETS * 0 + 0 = 0 /\ PACKETS \in Nat \ {0}
      OBVIOUS
    <3> QED BY <3>1, ModUnique DEF Init
  <2> QED BY <2>1 DEF Init, FilterInv, RepeatsAreFar
<1>2. SectionInv
  BY DEF Init, SectionInv, Outside, Section
<1>3. TriedInv
  BY DEF Init, TriedInv, TimeoutMeansTried, Occupied, Entry
<1>4. Tasks = {}
  BY DEF Init, Tasks, Occupied, Entry
<1>5. Quiet
  <2>1. AloneInv
    BY DEF Init, AloneInv, Killing, Writing, Outside, Section
  <2>2. CountIsTasks
    BY <1>4, FS_EmptySet DEF Init, CountIsTasks, If, Outside, Section
  <2> QED BY <2>1, <2>2 DEF Quiet
<1>6. Settled
  <2>1. ReportInv
    BY DEF Init, ReportInv, Outside, Section
  <2>2. \A r \in Requests : ends[r] = <<>>
    BY DEF Init
  <2>3. ListedUntilReported
    <3>1. \A r \in Requests : pc[r] = "start"
      BY DEF Init
    <3> QED BY <2>2, <3>1 DEF ListedUntilReported
  <2>4. SuccessIsAnswered
    <3>1. <<>> # <<"success">>
      OBVIOUS
    <3> QED BY <2>2, <3>1 DEF SuccessIsAnswered
  <2> QED BY <2>1, <2>3, <2>4 DEF Settled
<1> QED BY <1>1, <1>2, <1>3, <1>5, <1>6 DEF IInv

LEMMA InvNext == TypeOK /\ IInv /\ [Next]_vars => IInv'
<1> SUFFICES ASSUME TypeOK, IInv, [Next]_vars PROVE IInv'
  OBVIOUS
<1>1. /\ ListTypes /\ CallTypes /\ FilterTypes
      /\ FilterInv /\ SectionInv /\ TriedInv
  BY DEF TypeOK, IInv
<1>2. FilterInv' /\ SectionInv' /\ TriedInv'
  BY <1>1, FilterNext, SectionNext, TriedNext
<1>3. ASSUME ~raced' PROVE AloneInv' /\ Counts' /\ Reported'
  <2>1. ~raced
    BY <1>3 DEF Next, vars
  <2>2. AloneInv
    BY <2>1 DEF IInv, Quiet
  <2>3. Counts
    BY <2>1 DEF IInv, Quiet, CountIsTasks, Counts, Adding, Removing, Answered
  <2>4. Reported
    BY <2>1 DEF IInv, Settled, ListedUntilReported, SuccessIsAnswered, Reported, Listed,
                Successful
  <2>5. ~(Killing /\ Writing)'
    <3>1. CASE Next
      BY <1>3, <3>1 DEF Next
    <3>2. CASE UNCHANGED vars
      BY <2>2, <3>2 DEF vars, AloneInv, Killing, Writing
    <3> QED BY <3>1, <3>2
  <2> QED BY <1>1, <2>2, <2>3, <2>4, <2>5, AloneNext, CountsNext, ReportedNext
<1>4. Quiet'
  BY <1>3 DEF Quiet, CountIsTasks, Counts, Adding, Removing, Answered
<1>5. Settled'
  BY <1>3 DEF Settled, ListedUntilReported, SuccessIsAnswered, Reported, Listed,
              Successful
<1> QED BY <1>2, <1>4, <1>5 DEF IInv

LEMMA InvCorrect == Spec => []IInv
<1> QED BY InvInit, InvNext, TypeCorrect, PTL DEF Spec

\* A packet that is handled again comes after more others than the filter
\* remembers, for a filter of any size.
THEOREM RepeatsCorrect == Spec => []RepeatsAreFar
<1>1. IInv => RepeatsAreFar
  BY DEF IInv, FilterInv
<1> QED BY <1>1, InvCorrect, PTL

\* A timeout is reported only after as many sendings as were asked for, also
\* when answers meet writers of the list.
THEOREM TriedCorrect == Spec => []TimeoutMeansTried
<1>1. IInv => TimeoutMeansTried
  BY DEF IInv, TriedInv
<1> QED BY <1>1, InvCorrect, PTL

\* ListCnt counts the tasks of a list of any size while no answer met a writer.
THEOREM CountCorrect == Spec => []CountIsTasks
<1>1. IInv => CountIsTasks
  BY DEF IInv, Quiet, CountIsTasks
<1> QED BY <1>1, InvCorrect, PTL

\* While no answer met a writer, a listed request stays in the list until it
\* is reported, once.
THEOREM ListedCorrect == Spec => []ListedUntilReported
<1>1. IInv => ListedUntilReported
  BY DEF IInv, Settled, ListedUntilReported
<1> QED BY <1>1, InvCorrect, PTL

\* While no answer met a writer, a success is reported only for an ID that a
\* device answered.
THEOREM SuccessCorrect == Spec => []SuccessIsAnswered
<1>1. IInv => SuccessIsAnswered
  BY DEF IInv, Settled, SuccessIsAnswered
<1> QED BY <1>1, InvCorrect, PTL

=============================================================================
