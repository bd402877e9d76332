----------------------------- MODULE UdpServer -----------------------------
(***************************************************************************)
(* Acknowledged sending over UDP: src/src/wireless/udp_server.c with the   *)
(* filter of src/src/app/protocol.c.                                       *)
(*                                                                         *)
(* AddTask puts a packet into a list of MAXLIST slots; udpServerThread     *)
(* sends every listed packet each 50 ms until its number of sendings is    *)
(* used up, then reports a timeout and removes it.  A four-byte answer     *)
(* makes udpSocketReadThread report success for the first packet with that *)
(* ID and remove it (KillTaskCondition).  Adding and resending hold the    *)
(* mutex; the answer's path does not take it, so each of its accesses to   *)
(* the list is a step of its own here, and so are those of the locked      *)
(* sections.  Any other packet passes a filter of the last packets seen.   *)
(*                                                                         *)
(* A packet is abstracted to the request that sends it.  The socket and    *)
(* socket_queue between the two threads only delay or lose packets, as the *)
(* network does; KillTask and RecvBuffer have no caller.                   *)
(***************************************************************************)
EXTENDS Integers, Sequences, FiniteSets

CONSTANTS
  Requests,    \* calls of AddTask, each by some thread of the program
  Id,          \* Id[r]: the packet ID of r; one command to many shares one
  Times,       \* Times[r]: how often r is sent without an answer
  Null,        \* a NULL pData; no thread holds the mutex
  MAXLIST,     \* slots of the list
  Commands,    \* (IP, ID) of packets that other devices send us
  PACKETS,     \* entries of the filter's packets_id
  MaxHandled   \* bound: packets that pass the filter in a behaviour

ASSUME UdpAssumption ==
  /\ IsFiniteSet(Requests)
  /\ DOMAIN Id = Requests
  /\ Times \in [Requests -> Nat \ {0}]
  /\ Null \notin Requests \cup Commands \cup {"server"}
  /\ "server" \notin Requests
  /\ {MAXLIST, PACKETS} \subseteq Nat \ {0}
  /\ MaxHandled \in Nat

VARIABLES
  Lists,      \* Lists[i].data: whose pData is there; .task: whose Func and
              \* Times are there, also after pData was cleared; .SendTimes
  ListCnt,
  freed,      \* buffers that were freed, also while a slot points to them
  locked,     \* the section under the mutex: owner, step, slot, register
  reader,     \* KillTaskCondition in the reading thread: the same
  pc,         \* where each call of AddTask is
  sent,       \* sent[r]: how often r was sent (history)
  delivered,  \* requests of which a copy arrived at their device (history)
  ends,       \* ends[r]: the reports made about r, in order (history)
  raced,      \* an answer was processed while the list was written (history)
  crashed,    \* free of a freed buffer: the process is gone
  packets_id, \* the filter's ring
  packet_pos,
  handled     \* packets that passed the filter, in order (history)

list    == <<Lists, ListCnt, freed>>
network == <<sent, delivered>>
filter  == <<packets_id, packet_pos, handled>>
vars == <<list, locked, reader, pc, network, ends, raced, crashed, filter>>

Slots  == 1 .. MAXLIST
Server == "server"
Ring   == 0 .. PACKETS - 1

\* A thread outside the list.
Section(who, step, slot, reg) ==
  [owner |-> who, step |-> step, slot |-> slot, reg |-> reg]
Outside == Section(Null, "none", 1, 0)
Enter(who, step, slot) == Section(who, step, slot, 0)
To(t, step) == Section(t.owner, step, t.slot, t.reg)
Load(t) == Section(t.owner, "store", t.slot, ListCnt)

Entry(data, task, times) == [data |-> data, task |-> task, SendTimes |-> times]
Occupied(i) == Lists[i].data # Null

Init ==
  /\ Lists = [i \in Slots |-> Entry(Null, Null, 0)]
  /\ ListCnt = 0
  /\ freed = {}
  /\ locked = Outside
  /\ reader = Outside
  /\ pc = [r \in Requests |-> "start"]
  /\ sent = [r \in Requests |-> 0]
  /\ delivered = {}
  /\ ends = [r \in Requests |-> <<>>]
  /\ raced = FALSE
  /\ crashed = FALSE
  /\ packets_id = [i \in Ring |-> Null]
  /\ packet_pos = 0
  /\ handled = <<>>

-----------------------------------------------------------------------------
(* What the threads do to a slot *)

Report(i, result) ==
  ends' = [ends EXCEPT ![Lists[i].task] = Append(@, result)]

\* free(pData): of NULL it does nothing, a second one may abort.
FreeData(i) ==
  /\ freed' = freed \cup ({Lists[i].data} \ {Null})
  /\ crashed' \in IF Lists[i].data \in freed THEN BOOLEAN ELSE {crashed}

ClearData(i) == Lists' = [Lists EXCEPT ![i] = Entry(Null, @.task, @.SendTimes)]

-----------------------------------------------------------------------------
(* udpServerAddTask *)

Call(r) ==
  /\ pc[r] = "start"
  /\ pc' = [pc EXCEPT ![r] = "called"]
  /\ UNCHANGED <<list, locked, reader, network, ends, crashed, filter>>

\* The test before the lock; with more than MAXLIST tasks the caller sleeps
\* and tests again.
TestCount(r) ==
  /\ pc[r] = "called"
  /\ ListCnt <= MAXLIST
  /\ pc' = [pc EXCEPT ![r] = "lock"]
  /\ UNCHANGED <<list, locked, reader, network, ends, crashed, filter>>

\* Take the mutex, search the first free slot and copy the data into it.
\* Without a free slot the request is dropped and nobody is told.
AddData(r) ==
  /\ pc[r] = "lock"
  /\ locked = Outside
  /\ \/ /\ \E i \in Slots :
             /\ ~Occupied(i)
             /\ \A j \in 1 .. i - 1 : Occupied(j)
             /\ Lists' = [Lists EXCEPT ![i] = Entry(r, @.task, @.SendTimes)]
             /\ locked' = Enter(r, "fill", i)
        /\ pc' = [pc EXCEPT ![r] = "adding"]
     \/ /\ \A i \in Slots : Occupied(i)
        /\ pc' = [pc EXCEPT ![r] = "dropped"]
        /\ UNCHANGED <<Lists, locked>>
  /\ UNCHANGED <<ListCnt, freed, reader, network, ends, crashed, filter>>

\* Mutant of AddFields: SendTimes keeps the count of the slot's last task.
AddFieldsOnly(r) ==
  /\ locked.owner = r
  /\ locked.step = "fill"
  /\ Lists' = [Lists EXCEPT ![locked.slot] = Entry(@.data, r, @.SendTimes)]
  /\ locked' = Load(locked)
  /\ UNCHANGED <<ListCnt, freed, reader, pc, network, ends, crashed, filter>>

\* Copy the other fields and load ListCnt.
AddFields(r) ==
  /\ locked.owner = r
  /\ locked.step = "fill"
  /\ Lists' = [Lists EXCEPT ![locked.slot] = Entry(@.data, r, 0)]
  /\ locked' = Load(locked)
  /\ UNCHANGED <<ListCnt, freed, reader, pc, network, ends, crashed, filter>>

\* Store ListCnt + 1 and unlock.
AddCount(r) ==
  /\ locked.owner = r
  /\ locked.step = "store"
  /\ ListCnt' = locked.reg + 1
  /\ locked' = Outside
  /\ pc' = [pc EXCEPT ![r] = "listed"]
  /\ UNCHANGED <<Lists, freed, reader, network, ends, crashed, filter>>

-----------------------------------------------------------------------------
(* udpServerTaskSend, in udpServerThread *)

TaskSendLock ==
  /\ locked = Outside
  /\ locked' = Enter(Server, "slot", 1)
  /\ UNCHANGED <<list, reader, pc, network, ends, crashed, filter>>

AtSlot(i) == locked = Enter(Server, "slot", i)
NextSlot(i) == locked' = Enter(Server, "slot", i + 1)

SkipSlot ==
  \E i \in Slots :
    /\ AtSlot(i)
    /\ ~Occupied(i)
    /\ NextSlot(i)
    /\ UNCHANGED <<list, reader, pc, network, ends, crashed, filter>>

\* Mutant of SendAgain: <= for <, one sending too many.
SendOnceMore(i) == Lists[i].SendTimes <= Times[Lists[i].task]

\* The task in slot i has sendings left.
SendAgain(i) == Lists[i].SendTimes < Times[Lists[i].task]

\* SendBuffer sends what pData points to; the copy arrives or is lost.  A
\* freed buffer no longer holds the packet.
SendTask ==
  \E i \in Slots :
    LET r == Lists[i].data IN
    /\ AtSlot(i)
    /\ Occupied(i)
    /\ SendAgain(i)
    /\ Lists' = [Lists EXCEPT ![i] = Entry(r, @.task, @.SendTimes + 1)]
    /\ sent' = [sent EXCEPT ![r] = @ + 1]
    /\ \/ UNCHANGED delivered
       \/ r \notin freed /\ delivered' = delivered \cup {r}
    /\ NextSlot(i)
    /\ UNCHANGED <<ListCnt, freed, reader, pc, ends, crashed, filter>>

TimeoutReport ==
  \E i \in Slots :
    /\ AtSlot(i)
    /\ Occupied(i)
    /\ ~SendAgain(i)
    /\ Report(i, "timeout")
    /\ locked' = To(locked, "free")
    /\ UNCHANGED <<list, reader, pc, network, crashed, filter>>

TimeoutFree ==
  /\ locked.step = "free"
  /\ FreeData(locked.slot)
  /\ locked' = To(locked, "clear")
  /\ UNCHANGED <<Lists, ListCnt, reader, pc, network, ends, filter>>

TimeoutClear ==
  /\ locked.step = "clear"
  /\ ClearData(locked.slot)
  /\ locked' = To(locked, "load")
  /\ UNCHANGED <<ListCnt, freed, reader, pc, network, ends, crashed, filter>>

TimeoutLoad ==
  /\ locked.step = "load"
  /\ locked' = Load(locked)
  /\ UNCHANGED <<list, reader, pc, network, ends, crashed, filter>>

TimeoutStore ==
  /\ locked.owner = Server
  /\ locked.step = "store"
  /\ ListCnt' = locked.reg - 1
  /\ NextSlot(locked.slot)
  /\ UNCHANGED <<Lists, freed, reader, pc, network, ends, crashed, filter>>

\* Mutant of TaskSendUnlock: the next pass starts with the mutex still held.
TaskSendKeep ==
  /\ AtSlot(MAXLIST + 1)
  /\ locked' = Enter(Server, "slot", 1)
  /\ UNCHANGED <<list, reader, pc, network, ends, crashed, filter>>

TaskSendUnlock ==
  /\ AtSlot(MAXLIST + 1)
  /\ locked' = Outside
  /\ UNCHANGED <<list, reader, pc, network, ends, crashed, filter>>

TaskSend == \/ SkipSlot \/ SendTask
            \/ TimeoutReport \/ TimeoutFree \/ TimeoutClear \/ TimeoutLoad
            \/ TimeoutStore \/ TaskSendUnlock

-----------------------------------------------------------------------------
(* udpServerKillTaskCondition, in udpSocketReadThread *)

\* The four bytes of an answer to r arrive, at any time after r did.
ReadAnswer(r) ==
  /\ reader = Outside
  /\ r \in delivered
  /\ reader' = Enter(r, "scan", 1)
  /\ UNCHANGED <<list, locked, pc, network, ends, crashed, filter>>

\* Mutant of SameId: any task is taken for the one that is answered.
AnyId(q, r) == TRUE

\* udpKillTaskCondition: the task of q carries the ID of the answer to r.
SameId(q, r) == Id[q] = Id[r]

Matches == /\ Occupied(reader.slot)
           /\ SameId(Lists[reader.slot].data, reader.owner)

\* The slot is empty or of another ID (a freed buffer holds anything).
ScanNext ==
  /\ reader.step = "scan"
  /\ ~Matches \/ Lists[reader.slot].data \in freed
  /\ reader' = IF reader.slot < MAXLIST THEN Enter(reader.owner, "scan", reader.slot + 1)
                                         ELSE Outside
  /\ UNCHANGED <<list, locked, pc, network, ends, crashed, filter>>

ScanMatch ==
  /\ reader.step = "scan"
  /\ Matches
  /\ reader' = To(reader, "report")
  /\ UNCHANGED <<list, locked, pc, network, ends, crashed, filter>>

\* Func and CallBackData are those of the task that is in the slot now; a
\* slot that is being filled for the first time has none yet.
AnswerReport ==
  /\ reader.step = "report"
  /\ IF Lists[reader.slot].task = Null THEN UNCHANGED ends
                                       ELSE Report(reader.slot, "success")
  /\ reader' = To(reader, "free")
  /\ UNCHANGED <<list, locked, pc, network, crashed, filter>>

AnswerFree ==
  /\ reader.step = "free"
  /\ FreeData(reader.slot)
  /\ reader' = To(reader, "clear")
  /\ UNCHANGED <<Lists, ListCnt, locked, pc, network, ends, filter>>

\* Mutant of AnswerClear: pData is not cleared.
AnswerKeep ==
  /\ reader.step = "clear"
  /\ reader' = To(reader, "load")
  /\ UNCHANGED <<list, locked, pc, network, ends, crashed, filter>>

AnswerClear ==
  /\ reader.step = "clear"
  /\ ClearData(reader.slot)
  /\ reader' = To(reader, "load")
  /\ UNCHANGED <<ListCnt, freed, locked, pc, network, ends, crashed, filter>>

AnswerLoad ==
  /\ reader.step = "load"
  /\ reader' = Load(reader)
  /\ UNCHANGED <<list, locked, pc, network, ends, crashed, filter>>

AnswerStore ==
  /\ reader.step = "store"
  /\ ListCnt' = reader.reg - 1
  /\ reader' = Outside
  /\ UNCHANGED <<Lists, freed, locked, pc, network, ends, crashed, filter>>

ReadOn == \/ ScanNext \/ ScanMatch \/ AnswerReport \/ AnswerFree
          \/ AnswerClear \/ AnswerLoad \/ AnswerStore

-----------------------------------------------------------------------------
(* udpUdpProtocolFilter, in udpSocketReadThread *)

\* Mutant of NextPos: the index is not wrapped.
PosUnwrapped(pos) == pos + 1

\* Mutant of NextPos: the ring is one entry short.
ShortPos(pos) == IF pos + 2 >= PACKETS THEN 0 ELSE pos + 1

NextPos(pos) == (pos + 1) % PACKETS

\* A packet of another device, at any time and any number of times.  One
\* that is in the ring is only answered, which changes nothing here.
ReadCommand(c) ==
  /\ reader = Outside
  /\ \A i \in Ring : packets_id[i] # c
  /\ Len(handled) < MaxHandled
  /\ packets_id' = [packets_id EXCEPT ![packet_pos] = c]
  /\ packet_pos' = NextPos(packet_pos)
  /\ handled' = Append(handled, c)
  /\ UNCHANGED <<list, locked, reader, pc, network, ends, crashed>>

-----------------------------------------------------------------------------
\* The reader has found a task to remove and is not done with it.
Killing == reader.step \notin {"none", "scan"}

\* The thread under the mutex adds or removes a task.
Writing == locked.step \notin {"none", "slot"}

AddTask(r) == Call(r) \/ TestCount(r) \/ AddData(r) \/ AddFields(r) \/ AddCount(r)

Next ==
  /\ ~crashed
  /\ \/ \E r \in Requests : AddTask(r) \/ ReadAnswer(r)
     \/ TaskSendLock
     \/ TaskSend
     \/ ReadOn
     \/ \E c \in Commands : ReadCommand(c)
  /\ raced' = (raced \/ (Killing /\ Writing)')

Spec == Init /\ [][Next]_vars

\* The server thread polls every 50 ms and no thread sleeps in the list.  A
\* caller meets a free mutex again and again, as the server thread releases
\* it for the time of a select; it is assumed to get it some time.
FairSpec ==
  /\ Spec
  /\ WF_vars(Next /\ (TaskSendLock \/ TaskSend))
  /\ WF_vars(Next /\ ReadOn)
  /\ \A r \in Requests : SF_vars(Next /\ AddTask(r))

-----------------------------------------------------------------------------
(* Properties *)

Sections == [owner : Requests \cup {Null, Server},
             step : {"none", "slot", "scan", "fill", "report", "free",
                     "clear", "load", "store"},
             slot : 1 .. MAXLIST + 1,
             reg : Int]

ListTypes ==
  /\ Lists \in [Slots -> [data : Requests \cup {Null},
                          task : Requests \cup {Null}, SendTimes : Nat]]
  /\ ListCnt \in Int
  /\ freed \subseteq Requests
  /\ locked \in Sections /\ reader \in Sections
  /\ locked.step # "slot" => locked.slot \in Slots
  /\ reader.slot \in Slots

CallTypes ==
  /\ pc \in [Requests -> {"start", "called", "lock", "adding", "listed",
                          "dropped"}]
  /\ sent \in [Requests -> Nat]
  /\ delivered \subseteq Requests
  /\ ends \in [Requests -> Seq({"timeout", "success"})]

FilterTypes ==
  /\ packets_id \in [Ring -> Commands \cup {Null}]
  /\ packet_pos \in Ring
  /\ handled \in Seq(Commands)

\* Types.  The indices of both threads stay in the list, so no slot past the
\* end is read.
TypeOK == /\ ListTypes /\ CallTypes /\ FilterTypes
          /\ raced \in BOOLEAN /\ crashed \in BOOLEAN

Tasks == {i \in Slots : Occupied(i)}
If(b) == IF b THEN 1 ELSE 0

\* ListCnt counts the tasks in the list, but for the one that a thread is
\* just adding or removing, as long as no answer met a writer of the list.
\* What AddTask waits for, more than MAXLIST tasks, then never happens.
CountIsTasks ==
  ~raced => ListCnt = Cardinality(Tasks)
                      - If(locked.owner \in Requests)
                      + If(locked.owner = Server /\ locked.step \in {"load", "store"})
                      + If(reader.step \in {"load", "store"})

\* A request that was listed and not reported is still in the list, and one
\* that was reported is not sent again: both ways of removing a task report
\* and remove it exactly once, as long as no answer met a writer.
ListedUntilReported ==
  ~raced => \A r \in Requests :
    /\ Len(ends[r]) <= 1
    /\ pc[r] = "listed" /\ ends[r] = <<>> => \E i \in Slots : Lists[i].data = r
    /\ ends[r] # <<>> =>
         \A i \in Slots : Lists[i].data = r =>
           \/ locked.step \in {"free", "clear"} /\ locked.slot = i
           \/ reader.step \in {"free", "clear"} /\ reader.slot = i

\* A timeout is reported only for a request that was sent as often as its
\* caller asked for, and none is sent more often: SendTimes is never that of
\* the slot's last task, even when answers meet writers.
TimeoutMeansTried ==
  \A r \in Requests :
    /\ sent[r] <= Times[r]
    /\ \A k \in 1 .. Len(ends[r]) : ends[r][k] = "timeout" => sent[r] = Times[r]

\* A success is reported only when a device answered that ID, as long as no
\* answer met a writer.
SuccessIsAnswered ==
  ~raced => \A r \in Requests :
    ends[r] = <<"success">> => \E q \in delivered : Id[q] = Id[r]

\* A packet that is handled a second time, because its sender missed our
\* answers, comes after at least as many others as the filter remembers.
RepeatsAreFar ==
  \A j, k \in 1 .. Len(handled) :
    j < k /\ handled[j] = handled[k] => k - j > PACKETS

\* Every call of AddTask ends: its request is answered, times out or is
\* dropped, unless an answer met a writer of the list.
RequestsEnd ==
  \A r \in Requests :
    pc[r] = "called" ~> (ends[r] # <<>> \/ pc[r] = "dropped" \/ raced)
=============================================================================
