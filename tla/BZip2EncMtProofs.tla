---------------------------- MODULE BZip2EncMtProofs ----------------------------
(***************************************************************************)
(* The multithreaded BZip2 encoder implements the coder of OrderedCoder:    *)
(* for any number of threads, any inputs, any number of calls and any       *)
(* failures, blocks are read and written once and in order, and S_OK means  *)
(* that all of them were written.                                           *)
(*                                                                          *)
(* The argument is about numbers of blocks.  The blocks that were read and  *)
(* are not written are each in the hands of one thread (Distinct, Covered), *)
(* so there are at most NumThreads of them, and a thread that is about to   *)
(* read has none.  Their indexes go around the ring of events with their    *)
(* numbers (Numbers), and so do the turn and its event (TurnInEvent): a     *)
(* thread that finds the event of its index set has the next block to       *)
(* write.  The rest of the invariant says where the threads are at each     *)
(* point of the call, that is, that the two waits are a barrier.            *)
(***************************************************************************)
EXTENDS BZip2EncMt, FiniteSetTheorems, TLAPS

\* Block number b (from 0) has index i on the ring.
OnRing(b, i) == \E q \in Int : b = q * NumThreads + i

MainPlaces == {"idle", "create", "start", "waitFinished", "waitWaiting", "tail", "flushFailed",
               "free", "destroy"}
Results == {OK} \cup FaultKinds

Types ==
  /\ pc \in [Threads -> Places]
  /\ m_BlockIndex \in [Threads -> Threads] /\ NextBlockIndex \in Threads
  /\ block \in [Threads -> Nat]
  /\ StreamWasFinishedEvent \in [Threads -> BOOLEAN]
  /\ WaitingWasStartedEvent \in [Threads -> BOOLEAN]
  /\ CanWriteEvent \in [Threads -> BOOLEAN]
  /\ StreamWasFinished \in BOOLEAN /\ CloseThreads \in BOOLEAN
  /\ CanProcessEvent \in BOOLEAN /\ CanStartWaitingEvent \in BOOLEAN
  /\ Result \in Results /\ result \in Results /\ fault \in Results
  /\ chunks \in Nat /\ read \in Nat /\ written \in Nat

MainType == main \in [at : MainPlaces, t : 0 .. NumThreads, calls : Nat]

\* Outside the stream every thread waits for CanProcessEvent.
Resting ==
  main.at \in {"idle", "create", "start", "tail", "flushFailed"} =>
    \A t \in Threads : pc[t] = "none" \/ (pc[t] = "process" /\ ~CanProcessEvent)

\* Before the threads are let go.
Fresh ==
  /\ main.at \in {"create", "start", "free"} => read = 0 /\ written = 0
  /\ main.at \in {"create", "start"} => fault = OK /\ ~CanProcessEvent

\* CEncoder::Free: what is left is to see CloseThreads.
Closing ==
  main.at \in {"free", "destroy"} =>
    CloseThreads /\ \A t \in Threads : pc[t] \in {"none", "process", "enter", "ended"}

\* While the main thread waits for StreamWasFinishedEvent of each thread.
FirstWait ==
  main.at = "waitFinished" =>
    /\ ~CloseThreads /\ ~CanStartWaitingEvent
    /\ \A t \in Threads :
         /\ ~WaitingWasStartedEvent[t]
         /\ StreamWasFinishedEvent[t] \/ t < main.t => pc[t] = "finish"
         /\ pc[t] = "finish" => StreamWasFinished

\* While it waits for WaitingWasStartedEvent of each thread.
SecondWait ==
  main.at = "waitWaiting" =>
    /\ ~CanProcessEvent
    /\ \A t \in Threads :
         /\ pc[t] \in {"finish", "process"}
         /\ WaitingWasStartedEvent[t] \/ t < main.t => pc[t] = "process"

\* What is known once all threads have finished the stream.
Outcome ==
  /\ main.at = "waitWaiting" => IF Result = OK THEN fault = OK /\ written = chunks ELSE fault # OK
  /\ main.at = "tail" => fault = OK /\ written = chunks
  /\ main.at = "flushFailed" => fault # OK

\* The thread has a block that is not written.
Holds(t) == pc[t] \in {"encode", "write", "writeFailed"}
\* The thread took the turn to write and has not passed it on.
HasTurn(t) == pc[t] \in {"write", "pass", "writeFailed"}

Counts == written <= read /\ read <= chunks /\ read <= written + NumThreads

NextNumber == ~StreamWasFinished => OnRing(read, NextBlockIndex)

Numbers ==
  \A t \in Threads : Holds(t) =>
    /\ written < block[t] /\ block[t] <= read
    /\ OnRing(block[t] - 1, m_BlockIndex[t])

Distinct == \A t, u \in Threads : Holds(t) /\ Holds(u) /\ block[t] = block[u] => t = u

Covered ==
  \/ StreamWasFinished /\ fault = "write"
  \/ \A k \in (written + 1) .. read : \E t \in Threads : Holds(t) /\ block[t] = k

InTurn ==
  \A t \in Threads :
    /\ pc[t] = "write" => block[t] = written + 1
    /\ pc[t] = "pass" => block[t] = written /\ OnRing(block[t] - 1, m_BlockIndex[t])

OneTurn == \A t, u \in Threads : HasTurn(t) /\ HasTurn(u) => t = u

TurnInEvent ==
  \A i \in Threads : CanWriteEvent[i] =>
    OnRing(written, i) /\ \A t \in Threads : ~HasTurn(t)

\* After a failed write nobody has the turn.
TurnLost ==
  fault = "write" =>
    /\ \A i \in Threads : ~CanWriteEvent[i]
    /\ \A t \in Threads : pc[t] \notin {"write", "pass"}

\* An error is in Result, or in the thread that is about to put it there.
ErrorKept ==
  /\ Result # OK => fault # OK
  /\ fault # OK => Result # OK \/ \E t \in Threads : pc[t] \in {"progress", "writeFailed"}
  /\ \A t \in Threads : /\ pc[t] = "writeFailed" => fault = "write"
                        /\ pc[t] = "progress" => fault # OK

EndSeen == StreamWasFinished => Result # OK \/ read = chunks

InFlight == Counts /\ NextNumber /\ Numbers /\ Distinct /\ Covered
Turn == InTurn /\ OneTurn /\ TurnInEvent /\ TurnLost
Errors == ErrorKept /\ EndSeen

Working == main.at = "waitFinished" => InFlight /\ Turn /\ Errors

\* The inductive invariant.
IInv ==
  Types /\ MainType /\ Resting /\ Fresh /\ Closing /\ FirstWait /\ SecondWait /\ Outcome /\ Working


\* The next index on the ring of CanWriteEvent.
LEMMA NextIndexIs ==
  ASSUME NEW i \in Threads
  PROVE NextIndex(i) = (IF i + 1 = NumThreads THEN 0 ELSE i + 1) /\ NextIndex(i) \in Threads
BY BZip2EncAssumption DEF NextIndex, Threads


\* A thread reads, encodes and writes only during the first wait.
LEMMA Active ==
  ASSUME IInv, NEW t \in Threads,
         \/ pc[t] \notin {"none", "process", "enter", "finish", "ended"}
         \/ (pc[t] = "enter" /\ ~CloseThreads)
  PROVE main.at = "waitFinished"
BY DEF IInv, MainType, MainPlaces, Resting, Closing, SecondWait

\* The steps of a thread that takes part in coding.
Works(t) ==
  \/ SeeFinished(t) \/ ReadRleBlock(t) \/ ReadEnd(t) \/ ReadFails(t) \/ TakeTurn(t) \/ WriteBytes(t)
  \/ Pass(t) \/ WriteFails(t) \/ Failed(t)

\* They happen only during the first wait, which they leave to the main thread.
LEMMA WorksInFirstWait ==
  ASSUME IInv, NEW t \in Threads, Works(t)
  PROVE main.at = "waitFinished" /\ UNCHANGED main
BY Active DEF Works, SeeFinished, ReadRleBlock, ReadEnd, ReadFails, MayRead, TakeTurn,
  WriteBytes, Pass, WriteFails, Failed

\* The record of the main thread after each kind of assignment to it.
LEMMA MoveTo ==
  ASSUME MainType, NEW a \in MainPlaces, NEW k \in 0 .. NumThreads,
         main' = [main EXCEPT !.at = a, !.t = k]
  PROVE MainType' /\ main'.at = a /\ main'.t = k
BY DEF MainType

\* The main thread goes to another place, with the same thread in its loop.
LEMMA StayAt ==
  ASSUME MainType, NEW a \in MainPlaces, main' = [main EXCEPT !.at = a]
  PROVE MainType' /\ main'.at = a /\ main'.t = main.t
BY DEF MainType

\* The next thread of the loops over ThreadsInfo.
LEMMA NextThread ==
  ASSUME MainType, main.t < NumThreads, main' = [main EXCEPT !.t = @ + 1]
  PROVE MainType' /\ main'.at = main.at /\ main'.t = main.t + 1
BY BZip2EncAssumption DEF MainType

\* Code returns r.
LEMMA ToIdle ==
  ASSUME MainType, NEW r, Return(r)
  PROVE main'.at = "idle" /\ result' = r
<1>1. "idle" \in MainPlaces /\ 0 \in 0 .. NumThreads
  BY BZip2EncAssumption DEF MainPlaces
<1> QED
  BY <1>1, MoveTo DEF Return

\* Where each step of the main thread takes it.
LEMMA Moves ==
  ASSUME MainType
  PROVE /\ BeginCall => MainType' /\ main'.at = "create" /\ main'.t = 0
        /\ Destroy => MainType' /\ main'.at = "destroy" /\ main'.t = 0
        /\ Create => MainType' /\ main'.at \in {"start", "free"}
        /\ Start => MainType' /\ main'.at = "waitFinished" /\ main'.t = 0
        /\ AllocFails \/ Freed => MainType' /\ main'.at = "idle" /\ main'.t = 0
        /\ AllFinished => MainType' /\ main'.at = "waitWaiting" /\ main'.t = 0
        /\ AllWaiting => MainType' /\ main'.at \in {"idle", "tail"}
        /\ Flush => MainType' /\ main'.at \in {"idle", "flushFailed"}
        /\ WaitFinished \/ WaitWaiting \/ Wait_Close =>
             MainType' /\ main'.at = main.at /\ main'.t = main.t + 1 /\ main.t \in Threads
<1>1. /\ {"idle", "create", "start", "waitFinished", "waitWaiting", "tail", "flushFailed", "free",
          "destroy"} \subseteq MainPlaces
      /\ 0 \in 0 .. NumThreads
  BY BZip2EncAssumption DEF MainPlaces
<1>2. BeginCall => MainType' /\ main'.at = "create" /\ main'.t = 0
  BY <1>1, BZip2EncAssumption DEF BeginCall, MainType
<1>3. Destroy => MainType' /\ main'.at = "destroy" /\ main'.t = 0
  BY <1>1, MoveTo DEF Destroy
<1>4. Create => MainType' /\ main'.at \in {"start", "free"}
  BY <1>1, StayAt DEF Create
<1>5. Start => MainType' /\ main'.at = "waitFinished" /\ main'.t = 0
  BY <1>1, MoveTo DEF Start
<1>6. AllocFails \/ Freed => MainType' /\ main'.at = "idle" /\ main'.t = 0
  BY <1>1, MoveTo DEF AllocFails, Freed, Return
<1>7. AllFinished => MainType' /\ main'.at = "waitWaiting" /\ main'.t = 0
  BY <1>1, MoveTo DEF AllFinished
<1>8. AllWaiting => MainType' /\ main'.at \in {"idle", "tail"}
  BY <1>1, MoveTo, StayAt DEF AllWaiting, Return
<1>9. Flush => MainType' /\ main'.at \in {"idle", "flushFailed"}
  BY <1>1, MoveTo, StayAt DEF Flush, Return
<1>10. WaitFinished \/ WaitWaiting \/ Wait_Close =>
         MainType' /\ main'.at = main.at /\ main'.t = main.t + 1 /\ main.t \in Threads
  <2>1. main.t < NumThreads => main.t \in Threads
    BY BZip2EncAssumption DEF MainType, Threads
  <2> QED
    BY <2>1, NextThread DEF WaitFinished, WaitWaiting, Wait_Close
<1> QED
  BY <1>2, <1>3, <1>4, <1>5, <1>6, <1>7, <1>8, <1>9, <1>10

\* Every step keeps the types.
LEMMA TypesStep == IInv /\ [Next]_vars => Types'
<1> SUFFICES ASSUME IInv, [Next]_vars PROVE Types'
  OBVIOUS
<1> USE BZip2EncAssumption DEF IInv
<1>1. ASSUME NEW t \in Threads, Process(t) PROVE Types'
  BY <1>1 DEF Types, Places, Process, events, barrier, data,
    Goto
<1>2. ASSUME NEW t \in Threads, Close(t) PROVE Types'
  BY <1>2 DEF Types, Places, Close, events, barrier, data, Goto
<1>3. ASSUME NEW t \in Threads, SeeFinished(t) PROVE Types'
  BY <1>3 DEF Types, Places, Results, Threads, FaultKinds, OK, SeeFinished, barrier, data,
    FinishStream, Goto, Set
<1>4. ASSUME NEW t \in Threads, ReadRleBlock(t) PROVE Types'
  <2>1. /\ block' \in [Threads -> Nat] /\ m_BlockIndex' \in [Threads -> Threads]
        /\ NextBlockIndex' \in Threads
    BY <1>4, NextIndexIs DEF Types, ReadRleBlock
  <2>2. pc' \in [Threads -> Places]
    BY <1>4 DEF Types, Places, ReadRleBlock, Goto
  <2> QED
    BY <1>4, <2>1, <2>2 DEF Types, ReadRleBlock, events, barrier
<1>5. ASSUME NEW t \in Threads, ReadEnd(t) PROVE Types'
  <2>1. m_BlockIndex' \in [Threads -> Threads] /\ NextBlockIndex' \in Threads
    BY <1>5, NextIndexIs DEF Types, ReadEnd
  <2>2. pc' \in [Threads -> Places] /\ StreamWasFinishedEvent' \in [Threads -> BOOLEAN]
    BY <1>5 DEF Types, Places, ReadEnd, FinishStream, Goto, Set
  <2> QED
    BY <1>5, <2>1, <2>2 DEF Types, ReadEnd, FinishStream, barrier, data
<1>6. ASSUME NEW t \in Threads, ReadFails(t) PROVE Types'
  BY <1>6 DEF Types, Places, Results, Threads, FaultKinds, OK, ReadFails, barrier, data, Fails,
    FinishStream, MayRead, Goto, Set
<1>7. ASSUME NEW t \in Threads, TakeTurn(t) PROVE Types'
  BY <1>7 DEF Types, Places, Results, Threads, FaultKinds, OK, TakeTurn, barrier, data, Goto,
    Reset
<1>8. ASSUME NEW t \in Threads, WriteBytes(t) PROVE Types'
  BY <1>8 DEF Types, Places, Results, Threads, FaultKinds, OK, WriteBytes, events, barrier, Goto
<1>9. ASSUME NEW t \in Threads, Pass(t) PROVE Types'
  <2>1. CanWriteEvent' \in [Threads -> BOOLEAN]
    BY <1>9, NextIndexIs DEF Types, Pass, PassTurn, Set
  <2>2. pc' \in [Threads -> Places] /\ fault' \in Results
    BY <1>9 DEF Types, Places, Results, FaultKinds, Pass, Goto, Fails
  <2> QED
    BY <1>9, <2>1, <2>2 DEF Types, Pass, barrier, data
<1>10. ASSUME NEW t \in Threads, WriteFails(t) PROVE Types'
  BY <1>10 DEF Types, Places, Results, Threads, FaultKinds, OK, WriteFails, events, barrier,
    data, Goto, Fails
<1>11. ASSUME NEW t \in Threads, Failed(t) PROVE Types'
  BY <1>11 DEF Types, Places, Results, Threads, FaultKinds, OK, Failed, barrier, data,
    FinishStream, Goto, Set
<1>12. ASSUME NEW t \in Threads, StartWaiting(t) PROVE Types'
  BY <1>12 DEF Types, Places, Results, Threads, FaultKinds, OK, StartWaiting, barrier, data,
    Goto, Set
<1>13. CASE BeginCall
  BY <1>13 DEF Types, Places, Results, Threads, FaultKinds, OK, BeginCall, events, local
<1>14. CASE Destroy
  BY <1>14 DEF Types, Destroy, events, local, data
<1>15. CASE Create
  <2>1. pc' \in [Threads -> Places]
    BY <1>15 DEF Types, Places, Create
  <2>2. fault' \in Results /\ CloseThreads' \in BOOLEAN /\ CanProcessEvent' \in BOOLEAN
    BY <1>15 DEF Types, Results, FaultKinds, Create, Fails
  <2> QED
    BY <1>15, <2>1, <2>2 DEF Types, Create, events, data
<1>16. CASE Start
  <2>1. 0 \in Threads /\ [t \in Threads |-> FALSE] \in [Threads -> BOOLEAN]
    BY DEF Threads
  <2>2. /\ StreamWasFinishedEvent' \in [Threads -> BOOLEAN]
        /\ WaitingWasStartedEvent' \in [Threads -> BOOLEAN]
        /\ CanWriteEvent' \in [Threads -> BOOLEAN]
    BY <1>16, <2>1 DEF Start, Set, None
  <2> QED
    BY <1>16, <2>1, <2>2 DEF Types, Results, Start, local, data
<1>17. CASE AllocFails
  BY <1>17 DEF Types, Results, FaultKinds, AllocFails, events, local,
    barrier, data, Return
<1>18. CASE WaitFinished
  BY <1>18, Moves DEF Types, WaitFinished, local, barrier, data, Reset
<1>19. CASE AllFinished
  BY <1>19 DEF Types, AllFinished, events, local, data
<1>20. CASE WaitWaiting
  BY <1>20, Moves DEF Types, WaitWaiting, local, barrier, data, Reset
<1>21. CASE AllWaiting
  <2>1. result' \in Results
    BY <1>21 DEF Types, AllWaiting, Return
  <2> QED
    BY <1>21, <2>1 DEF Types, AllWaiting, events, local, data
<1>22. CASE Flush
  BY <1>22 DEF Types, Places, Results, Threads, FaultKinds, OK, Flush, events, local, barrier,
    data, Fails, Return
<1>23. CASE Wait_Close
  BY <1>23 DEF Types, Wait_Close, events, local,
    barrier, data
<1>24. CASE Freed
  BY <1>24 DEF Types, Places, Results, Threads, FaultKinds, OK, Freed, events, barrier, data,
    Return
<1>25. CASE UNCHANGED vars
  BY <1>25 DEF Types, vars, events, local, barrier,
    data
<1> QED
  BY <1>1, <1>2, <1>3, <1>4, <1>5, <1>6, <1>7, <1>8, <1>9, <1>10, <1>11, <1>12, <1>13, <1>14,
    <1>15, <1>16, <1>17, <1>18, <1>19, <1>20, <1>21, <1>22, <1>23, <1>24, <1>25 DEF Next,
    Inside, ThreadFunc, Destroyed

\* Every step keeps the type of the main thread's record.
LEMMA MainTypeStep == IInv /\ [Next]_vars => MainType'
<1> SUFFICES ASSUME IInv, [Next]_vars PROVE MainType'
  OBVIOUS
<1> USE BZip2EncAssumption DEF IInv
<1>1. ASSUME NEW t \in Threads, Process(t) PROVE MainType'
  BY <1>1 DEF MainType, Process
<1>2. ASSUME NEW t \in Threads, Close(t) PROVE MainType'
  BY <1>2 DEF MainType, Close
<1>3. ASSUME NEW t \in Threads, StartWaiting(t) PROVE MainType'
  BY <1>3 DEF MainType, StartWaiting
<1>4. ASSUME NEW t \in Threads, Works(t) PROVE MainType'
  BY <1>4, WorksInFirstWait DEF MainType
<1>5. CASE BeginCall
  BY <1>5, Moves
<1>6. CASE Destroy
  BY <1>6, Moves
<1>7. CASE Create
  BY <1>7, Moves
<1>8. CASE Start
  BY <1>8, Moves
<1>9. CASE AllocFails
  BY <1>9, Moves
<1>10. CASE WaitFinished
  BY <1>10, Moves
<1>11. CASE AllFinished
  BY <1>11, Moves
<1>12. CASE WaitWaiting
  BY <1>12, Moves
<1>13. CASE AllWaiting
  BY <1>13, Moves
<1>14. CASE Flush
  BY <1>14, Moves
<1>15. CASE Wait_Close
  BY <1>15, Moves
<1>16. CASE Freed
  BY <1>16, Moves
<1>17. CASE UNCHANGED vars
  BY <1>17 DEF MainType, vars
<1> QED
  BY <1>1, <1>2, <1>3, <1>4, <1>5, <1>6, <1>7, <1>8, <1>9, <1>10, <1>11, <1>12, <1>13, <1>14,
    <1>15, <1>16, <1>17 DEF Next, Inside, ThreadFunc, Destroyed, Works

\* Every step keeps the threads at rest between two streams.
LEMMA RestingStep == IInv /\ [Next]_vars => Resting'
<1> SUFFICES ASSUME IInv, [Next]_vars PROVE Resting'
  OBVIOUS
<1> USE BZip2EncAssumption DEF IInv
<1>1. ASSUME NEW t \in Threads, Process(t) PROVE Resting'
  BY <1>1 DEF Resting, SecondWait, Fresh, Outcome, Closing, Types, MainType, Places,
    MainPlaces, Threads, Process, events, barrier, data, Goto
<1>2. ASSUME NEW t \in Threads, Close(t) PROVE Resting'
  BY <1>2 DEF Resting, SecondWait, Fresh, Outcome, Closing, Types, MainType, Places,
    MainPlaces, Threads, Close, events, barrier, data, Goto
<1>3. ASSUME NEW t \in Threads, StartWaiting(t) PROVE Resting'
  BY <1>3 DEF Resting, SecondWait, Fresh, Outcome, Closing, Types, MainType, Places,
    MainPlaces, Threads, StartWaiting, barrier, data, Goto, Set
<1>4. ASSUME NEW t \in Threads, Works(t) PROVE Resting'
  BY <1>4, WorksInFirstWait DEF Resting
<1>5. CASE BeginCall
  BY <1>5 DEF Resting, SecondWait, Fresh, Outcome, Closing, Types, MainType, Places,
    MainPlaces, Threads, BeginCall, events, local
<1>6. CASE Destroy
  BY <1>6 DEF Resting, SecondWait, Fresh, Outcome, Closing, Types, MainType, Places,
    MainPlaces, Threads, Destroy, events, local, data
<1>7. CASE Create
  <2>1. CASE main'.at = "start"
    <3>1. pc' = [t \in Threads |-> IF \A u \in Threads : pc[u] # "none" THEN pc[t] ELSE "process"]
      BY <1>7, <2>1, StayAt DEF Create, MainPlaces
    <3>2. UNCHANGED CanProcessEvent /\ main.at = "create"
      BY <1>7, <2>1, StayAt DEF Create, MainPlaces
    <3>3. ~CanProcessEvent
      BY <3>2 DEF Fresh
    <3>4. \A t \in Threads : pc[t] \in {"none", "process"}
      BY <3>2 DEF Resting
    <3> QED
      BY <3>1, <3>2, <3>3, <3>4 DEF Resting
  <2>2. CASE main'.at = "free"
    BY <2>2 DEF Resting
  <2> QED
    BY <1>7, <2>1, <2>2, Moves
<1>8. CASE Start
  BY <1>8 DEF Resting, SecondWait, Fresh, Outcome, Closing, Types, MainType, Places,
    MainPlaces, Threads, Start, local, data, Set, None
<1>9. CASE AllocFails
  BY <1>9 DEF Resting, SecondWait, Fresh, Outcome, Closing, Types, MainType, Places,
    MainPlaces, Threads, AllocFails, events, local, barrier, data, Return
<1>10. CASE WaitFinished
  BY <1>10 DEF Resting, SecondWait, Fresh, Outcome, Closing, Types, MainType, Places,
    MainPlaces, Threads, WaitFinished, local, barrier, data, Reset
<1>11. CASE AllFinished
  BY <1>11 DEF Resting, SecondWait, Fresh, Outcome, Closing, Types, MainType, Places,
    MainPlaces, Threads, AllFinished, events, local, data
<1>12. CASE WaitWaiting
  BY <1>12 DEF Resting, SecondWait, Fresh, Outcome, Closing, Types, MainType, Places,
    MainPlaces, Threads, WaitWaiting, local, barrier, data, Reset
<1>13. CASE AllWaiting
  BY <1>13 DEF Resting, SecondWait, Fresh, Outcome, Closing, Types, MainType, Places,
    MainPlaces, Threads, AllWaiting, events, local, data, Return
<1>14. CASE Flush
  BY <1>14 DEF Resting, SecondWait, Fresh, Outcome, Closing, Types, MainType, Places,
    MainPlaces, Threads, Flush, events, local, barrier, data, Fails, Return
<1>15. CASE Wait_Close
  BY <1>15 DEF Resting, SecondWait, Fresh, Outcome, Closing, Types, MainType, Places,
    MainPlaces, Threads, Wait_Close, events, local, barrier, data
<1>16. CASE Freed
  BY <1>16 DEF Resting, SecondWait, Fresh, Outcome, Closing, Types, MainType, Places,
    MainPlaces, Threads, Freed, events, barrier, data, Return
<1>17. CASE UNCHANGED vars
  BY <1>17 DEF Resting, SecondWait, Fresh, Outcome, Closing, Types, MainType, Places,
    MainPlaces, Threads, vars, events, local, barrier, data
<1> QED
  BY <1>1, <1>2, <1>3, <1>4, <1>5, <1>6, <1>7, <1>8, <1>9, <1>10, <1>11, <1>12, <1>13, <1>14,
    <1>15, <1>16, <1>17 DEF Next, Inside, ThreadFunc, Destroyed, Works

\* Nothing is read or written before the threads are let go.
LEMMA FreshStep == IInv /\ [Next]_vars => Fresh'
<1> SUFFICES ASSUME IInv, [Next]_vars PROVE Fresh'
  OBVIOUS
<1> USE BZip2EncAssumption DEF IInv
<1>1. ASSUME NEW t \in Threads, Process(t) PROVE Fresh'
  BY <1>1 DEF Fresh, Types, Resting, Closing, FirstWait, MainPlaces, Threads, Process, events,
    barrier, data, Goto
<1>2. ASSUME NEW t \in Threads, Close(t) PROVE Fresh'
  BY <1>2 DEF Fresh, Types, Resting, Closing, FirstWait, MainPlaces, Threads, Close, events,
    barrier, data, Goto
<1>3. ASSUME NEW t \in Threads, StartWaiting(t) PROVE Fresh'
  BY <1>3 DEF Fresh, Types, Resting, Closing, FirstWait, MainPlaces, Threads, StartWaiting,
    barrier, data, Goto, Set
<1>4. ASSUME NEW t \in Threads, Works(t) PROVE Fresh'
  BY <1>4, WorksInFirstWait DEF Fresh
<1>5. CASE BeginCall
  BY <1>5 DEF Fresh, Types, Resting, Closing, FirstWait, MainPlaces, Threads, BeginCall,
    events, local
<1>6. CASE Destroy
  BY <1>6 DEF Fresh, Types, Resting, Closing, FirstWait, MainPlaces, Threads, Destroy, events,
    local, data
<1>7. CASE Create
  <2>1. main.at = "create" /\ UNCHANGED <<read, written>>
    BY <1>7 DEF Create, data
  <2>2. main'.at = "start" => UNCHANGED <<fault, CanProcessEvent>>
    BY <1>7, StayAt DEF Create, MainPlaces
  <2> QED
    BY <1>7, <2>1, <2>2, Moves DEF Fresh
<1>8. CASE Start
  BY <1>8 DEF Fresh, Types, Resting, Closing, FirstWait, MainPlaces, Threads, Start, local,
    data, Set, None
<1>9. CASE AllocFails
  BY <1>9 DEF Fresh, Types, Resting, Closing, FirstWait, MainPlaces, Threads, AllocFails,
    events, local, barrier, data, Return
<1>10. CASE WaitFinished
  BY <1>10 DEF Fresh, Types, Resting, Closing, FirstWait, MainPlaces, Threads, WaitFinished,
    local, barrier, data, Reset
<1>11. CASE AllFinished
  BY <1>11 DEF Fresh, Types, Resting, Closing, FirstWait, MainPlaces, Threads, AllFinished,
    events, local, data
<1>12. CASE WaitWaiting
  BY <1>12 DEF Fresh, Types, Resting, Closing, FirstWait, MainPlaces, Threads, WaitWaiting,
    local, barrier, data, Reset
<1>13. CASE AllWaiting
  BY <1>13, Moves DEF Fresh
<1>14. CASE Flush
  BY <1>14, Moves DEF Fresh
<1>15. CASE Wait_Close
  BY <1>15 DEF Fresh, Types, Resting, Closing, FirstWait, MainPlaces, Threads, Wait_Close,
    events, local, barrier, data
<1>16. CASE Freed
  BY <1>16 DEF Fresh, Types, Resting, Closing, FirstWait, MainPlaces, Threads, Freed, events,
    barrier, data, Return
<1>17. CASE UNCHANGED vars
  BY <1>17 DEF Fresh, Types, Resting, Closing, FirstWait, MainPlaces, Threads, vars, events,
    local, barrier, data
<1> QED
  BY <1>1, <1>2, <1>3, <1>4, <1>5, <1>6, <1>7, <1>8, <1>9, <1>10, <1>11, <1>12, <1>13, <1>14,
    <1>15, <1>16, <1>17 DEF Next, Inside, ThreadFunc, Destroyed, Works

\* Threads that are to end do nothing else.
LEMMA ClosingStep == IInv /\ [Next]_vars => Closing'
<1> SUFFICES ASSUME IInv, [Next]_vars PROVE Closing'
  OBVIOUS
<1> USE BZip2EncAssumption DEF IInv
<1>1. ASSUME NEW t \in Threads, Process(t) PROVE Closing'
  BY <1>1 DEF Closing, Resting, Types, MainPlaces, Threads, Process, events, barrier, data, Goto
<1>2. ASSUME NEW t \in Threads, Close(t) PROVE Closing'
  BY <1>2 DEF Closing, Resting, Types, MainPlaces, Threads, Close, events, barrier, data, Goto
<1>3. ASSUME NEW t \in Threads, StartWaiting(t) PROVE Closing'
  BY <1>3 DEF Closing, Resting, Types, MainPlaces, Threads, StartWaiting, barrier, data, Goto,
    Set
<1>4. ASSUME NEW t \in Threads, Works(t) PROVE Closing'
  BY <1>4, WorksInFirstWait DEF Closing
<1>5. CASE BeginCall
  BY <1>5 DEF Closing, Resting, Types, MainPlaces, Threads, BeginCall, events, local
<1>6. CASE Destroy
  BY <1>6 DEF Closing, Resting, Types, MainPlaces, Threads, Destroy, events, local, data
<1>7. CASE Create
  <2>1. main'.at = "free" => /\ CloseThreads'
                             /\ \A t \in Threads : pc'[t] \in {"none", "process"}
    BY <1>7, StayAt DEF Create, MainPlaces
  <2> QED
    BY <1>7, <2>1, Moves DEF Closing
<1>8. CASE Start
  BY <1>8 DEF Closing, Resting, Types, MainPlaces, Threads, Start, local, data, Set, None
<1>9. CASE AllocFails
  BY <1>9 DEF Closing, Resting, Types, MainPlaces, Threads, AllocFails, events, local, barrier,
    data, Return
<1>10. CASE WaitFinished
  BY <1>10 DEF Closing, Resting, Types, MainPlaces, Threads, WaitFinished, local, barrier,
    data, Reset
<1>11. CASE AllFinished
  BY <1>11 DEF Closing, Resting, Types, MainPlaces, Threads, AllFinished, events, local, data
<1>12. CASE WaitWaiting
  BY <1>12 DEF Closing, Resting, Types, MainPlaces, Threads, WaitWaiting, local, barrier, data,
    Reset
<1>13. CASE AllWaiting
  BY <1>13, Moves DEF Closing
<1>14. CASE Flush
  BY <1>14, Moves DEF Closing
<1>15. CASE Wait_Close
  BY <1>15 DEF Closing, Resting, Types, MainPlaces, Threads, Wait_Close, events, local,
    barrier, data
<1>16. CASE Freed
  BY <1>16 DEF Closing, Resting, Types, MainPlaces, Threads, Freed, events, barrier, data, Return
<1>17. CASE UNCHANGED vars
  BY <1>17 DEF Closing, Resting, Types, MainPlaces, Threads, vars, events, local, barrier, data
<1> QED
  BY <1>1, <1>2, <1>3, <1>4, <1>5, <1>6, <1>7, <1>8, <1>9, <1>10, <1>11, <1>12, <1>13, <1>14,
    <1>15, <1>16, <1>17 DEF Next, Inside, ThreadFunc, Destroyed, Works

\* A thread whose event the first wait took has finished the stream, and stays there.
LEMMA FirstWaitStep == IInv /\ [Next]_vars => FirstWait'
<1> SUFFICES ASSUME IInv, [Next]_vars PROVE FirstWait'
  OBVIOUS
<1> USE BZip2EncAssumption DEF IInv
<1>1. ASSUME NEW t \in Threads, Process(t) PROVE FirstWait'
  BY <1>1 DEF FirstWait, Types, MainType, Resting, Closing, SecondWait, MainPlaces, Threads,
    Process, events, barrier, data, Goto
<1>2. ASSUME NEW t \in Threads, Close(t) PROVE FirstWait'
  BY <1>2 DEF FirstWait, Types, MainType, Resting, Closing, SecondWait, MainPlaces, Threads,
    Close, events, barrier, data, Goto
<1>3. ASSUME NEW t \in Threads, SeeFinished(t) PROVE FirstWait'
  BY <1>3 DEF FirstWait, Types, MainType, Resting, Closing, SecondWait, MainPlaces, Threads,
    SeeFinished, barrier, data, FinishStream, Goto, Set
<1>4. ASSUME NEW t \in Threads, ReadRleBlock(t) PROVE FirstWait'
  BY <1>4 DEF FirstWait, Types, MainType, Resting, Closing, SecondWait, MainPlaces, Threads,
    ReadRleBlock, events, barrier, Goto, NextIndex, MayRead
<1>5. ASSUME NEW t \in Threads, ReadEnd(t) PROVE FirstWait'
  BY <1>5 DEF FirstWait, Types, MainType, Resting, Closing, SecondWait, MainPlaces, Threads,
    ReadEnd, barrier, data, NextIndex, FinishStream, MayRead, Goto, Set
<1>6. ASSUME NEW t \in Threads, ReadFails(t) PROVE FirstWait'
  BY <1>6 DEF FirstWait, Types, MainType, Resting, Closing, SecondWait, MainPlaces, Threads,
    ReadFails, barrier, data, Fails, FinishStream, MayRead, Goto, Set
<1>7. ASSUME NEW t \in Threads, TakeTurn(t) PROVE FirstWait'
  BY <1>7 DEF FirstWait, Types, MainType, Resting, Closing, SecondWait, MainPlaces, Threads,
    TakeTurn, barrier, data, Goto, Reset
<1>8. ASSUME NEW t \in Threads, WriteBytes(t) PROVE FirstWait'
  BY <1>8 DEF FirstWait, Types, MainType, Resting, Closing, SecondWait, MainPlaces, Threads,
    WriteBytes, events, barrier, Goto
<1>9. ASSUME NEW t \in Threads, Pass(t) PROVE FirstWait'
  BY <1>9 DEF FirstWait, Types, MainType, Resting, Closing, SecondWait, MainPlaces, Threads,
    Pass, barrier, data, Goto, Fails, PassTurn, Set, NextIndex
<1>10. ASSUME NEW t \in Threads, WriteFails(t) PROVE FirstWait'
  BY <1>10 DEF FirstWait, Types, MainType, Resting, Closing, SecondWait, MainPlaces, Threads,
    WriteFails, events, barrier, data, Goto, Fails
<1>11. ASSUME NEW t \in Threads, Failed(t) PROVE FirstWait'
  BY <1>11 DEF FirstWait, Types, MainType, Resting, Closing, SecondWait, MainPlaces, Threads,
    Failed, barrier, data, FinishStream, Goto, Set
<1>12. ASSUME NEW t \in Threads, StartWaiting(t) PROVE FirstWait'
  BY <1>12 DEF FirstWait, Types, MainType, Resting, Closing, SecondWait, MainPlaces, Threads,
    StartWaiting, barrier, data, Goto, Set
<1>13. CASE BeginCall
  BY <1>13 DEF FirstWait, Types, MainType, Resting, Closing, SecondWait, MainPlaces, Threads,
    BeginCall, events, local
<1>14. CASE Destroy
  BY <1>14 DEF FirstWait, Types, MainType, Resting, Closing, SecondWait, MainPlaces, Threads,
    Destroy, events, local, data
<1>15. CASE Create
  BY <1>15 DEF FirstWait, Types, MainType, Resting, Closing, SecondWait, MainPlaces, Threads,
    Create, events, data, Fails
<1>16. CASE Start
  <2>1. main'.t = 0 /\ \A t \in Threads : pc'[t] \in {"none", "process"}
    BY <1>16, Moves DEF Resting, Start, local
  <2>2. /\ CloseThreads' = FALSE /\ CanStartWaitingEvent' = FALSE
        /\ StreamWasFinishedEvent' = None /\ WaitingWasStartedEvent' = None
    BY <1>16 DEF Start
  <2>3. \A t \in Threads : ~(t < 0)
    BY DEF Threads
  <2> QED
    BY <2>1, <2>2, <2>3 DEF FirstWait, None
<1>17. CASE AllocFails
  BY <1>17 DEF FirstWait, Types, MainType, Resting, Closing, SecondWait, MainPlaces, Threads,
    AllocFails, events, local, barrier, data, Return
<1>18. CASE WaitFinished
  BY <1>18 DEF FirstWait, Types, MainType, Resting, Closing, SecondWait, MainPlaces, Threads,
    WaitFinished, local, barrier, data, Reset
<1>19. CASE AllFinished
  BY <1>19 DEF FirstWait, Types, MainType, Resting, Closing, SecondWait, MainPlaces, Threads,
    AllFinished, events, local, data
<1>20. CASE WaitWaiting
  BY <1>20 DEF FirstWait, Types, MainType, Resting, Closing, SecondWait, MainPlaces, Threads,
    WaitWaiting, local, barrier, data, Reset
<1>21. CASE AllWaiting
  BY <1>21 DEF FirstWait, Types, MainType, Resting, Closing, SecondWait, MainPlaces, Threads,
    AllWaiting, events, local, data, Return
<1>22. CASE Flush
  BY <1>22, Moves DEF FirstWait
<1>23. CASE Wait_Close
  BY <1>23 DEF FirstWait, Types, MainType, Resting, Closing, SecondWait, MainPlaces, Threads,
    Wait_Close, events, local, barrier, data
<1>24. CASE Freed
  BY <1>24 DEF FirstWait, Types, MainType, Resting, Closing, SecondWait, MainPlaces, Threads,
    Freed, events, barrier, data, Return
<1>25. CASE UNCHANGED vars
  BY <1>25 DEF FirstWait, Types, MainType, Resting, Closing, SecondWait, MainPlaces, Threads,
    vars, events, local, barrier, data
<1> QED
  BY <1>1, <1>2, <1>3, <1>4, <1>5, <1>6, <1>7, <1>8, <1>9, <1>10, <1>11, <1>12, <1>13, <1>14,
    <1>15, <1>16, <1>17, <1>18, <1>19, <1>20, <1>21, <1>22, <1>23, <1>24, <1>25 DEF Next,
    Inside, ThreadFunc, Destroyed

\* A thread whose event the second wait took is back at CanProcessEvent, and stays there.
LEMMA SecondWaitStep == IInv /\ [Next]_vars => SecondWait'
<1> SUFFICES ASSUME IInv, [Next]_vars PROVE SecondWait'
  OBVIOUS
<1> USE BZip2EncAssumption DEF IInv
<1>1. ASSUME NEW t \in Threads, Process(t) PROVE SecondWait'
  BY <1>1 DEF SecondWait, Types, FirstWait, MainPlaces, Threads, Process, events, barrier,
    data, Goto
<1>2. ASSUME NEW t \in Threads, Close(t) PROVE SecondWait'
  BY <1>2 DEF SecondWait, Types, FirstWait, MainPlaces, Threads, Close, events, barrier, data,
    Goto
<1>3. ASSUME NEW t \in Threads, StartWaiting(t) PROVE SecondWait'
  BY <1>3 DEF SecondWait, Types, FirstWait, MainPlaces, Threads, StartWaiting, barrier, data,
    Goto, Set
<1>4. ASSUME NEW t \in Threads, Works(t) PROVE SecondWait'
  BY <1>4, WorksInFirstWait DEF SecondWait
<1>5. CASE BeginCall
  BY <1>5 DEF SecondWait, Types, FirstWait, MainPlaces, Threads, BeginCall, events, local
<1>6. CASE Destroy
  BY <1>6 DEF SecondWait, Types, FirstWait, MainPlaces, Threads, Destroy, events, local, data
<1>7. CASE Create
  BY <1>7, Moves DEF SecondWait
<1>8. CASE Start
  BY <1>8 DEF SecondWait, Types, FirstWait, MainPlaces, Threads, Start, local, data, Set, None
<1>9. CASE AllocFails
  BY <1>9 DEF SecondWait, Types, FirstWait, MainPlaces, Threads, AllocFails, events, local,
    barrier, data, Return
<1>10. CASE WaitFinished
  BY <1>10 DEF SecondWait, Types, FirstWait, MainPlaces, Threads, WaitFinished, local, barrier,
    data, Reset
<1>11. CASE AllFinished
  BY <1>11 DEF SecondWait, Types, FirstWait, MainPlaces, Threads, AllFinished, events, local,
    data
<1>12. CASE WaitWaiting
  <2>1. /\ main.at = "waitWaiting" /\ WaitingWasStartedEvent[main.t]
        /\ WaitingWasStartedEvent' = [WaitingWasStartedEvent EXCEPT ![main.t] = FALSE]
        /\ UNCHANGED <<pc, CanProcessEvent>>
    BY <1>12 DEF WaitWaiting, Reset, local, barrier
  <2>2. main'.t = main.t + 1 /\ main.t \in Threads
    BY <1>12, Moves
  <2>3. \A t \in Threads : t < main'.t => t < main.t \/ t = main.t
    BY <2>2 DEF Threads
  <2> QED
    BY <2>1, <2>2, <2>3 DEF SecondWait, Types
<1>13. CASE AllWaiting
  BY <1>13 DEF SecondWait, Types, FirstWait, MainPlaces, Threads, AllWaiting, events, local,
    data, Return
<1>14. CASE Flush
  BY <1>14, Moves DEF SecondWait
<1>15. CASE Wait_Close
  BY <1>15 DEF SecondWait, Types, FirstWait, MainPlaces, Threads, Wait_Close, events, local,
    barrier, data
<1>16. CASE Freed
  BY <1>16 DEF SecondWait, Types, FirstWait, MainPlaces, Threads, Freed, events, barrier, data,
    Return
<1>17. CASE UNCHANGED vars
  BY <1>17 DEF SecondWait, Types, FirstWait, MainPlaces, Threads, vars, events, local, barrier,
    data
<1> QED
  BY <1>1, <1>2, <1>3, <1>4, <1>5, <1>6, <1>7, <1>8, <1>9, <1>10, <1>11, <1>12, <1>13, <1>14,
    <1>15, <1>16, <1>17 DEF Next, Inside, ThreadFunc, Destroyed, Works

\* When all have finished: without an error everything was read and written.
LEMMA OutcomeStep == IInv /\ [Next]_vars => Outcome'
<1> SUFFICES ASSUME IInv, [Next]_vars PROVE Outcome'
  OBVIOUS
<1> USE BZip2EncAssumption DEF IInv
<1>1. ASSUME NEW t \in Threads, Process(t) PROVE Outcome'
  BY <1>1 DEF Outcome, Fresh, Types, MainType, Threads, Process, events, barrier, data, Goto
<1>2. ASSUME NEW t \in Threads, Close(t) PROVE Outcome'
  BY <1>2 DEF Outcome, Fresh, Types, MainType, Threads, Close, events, barrier, data, Goto
<1>3. ASSUME NEW t \in Threads, StartWaiting(t) PROVE Outcome'
  BY <1>3 DEF Outcome, Fresh, Types, MainType, Threads, StartWaiting, barrier, data, Goto, Set
<1>4. ASSUME NEW t \in Threads, Works(t) PROVE Outcome'
  BY <1>4, WorksInFirstWait DEF Outcome
<1>5. CASE BeginCall
  BY <1>5 DEF Outcome, Fresh, Types, MainType, Threads, BeginCall, events, local
<1>6. CASE Destroy
  BY <1>6 DEF Outcome, Fresh, Types, MainType, Threads, Destroy, events, local, data
<1>7. CASE Create
  BY <1>7 DEF Outcome, Fresh, Types, MainType, Threads, Create, events, data, Fails
<1>8. CASE Start
  BY <1>8 DEF Outcome, Fresh, Types, MainType, Threads, Start, local, data, Set, None
<1>9. CASE AllocFails
  BY <1>9 DEF Outcome, Fresh, Types, MainType, Threads, AllocFails, events, local, barrier,
    data, Return
<1>10. CASE WaitFinished
  BY <1>10 DEF Outcome, Fresh, Types, MainType, Threads, WaitFinished, local, barrier, data,
    Reset
<1>11. CASE AllFinished
  <2>1. /\ main.at = "waitFinished" /\ main.t = NumThreads /\ main'.at = "waitWaiting"
        /\ UNCHANGED <<pc, StreamWasFinished, Result, fault, chunks, read, written>>
    BY <1>11, Moves DEF AllFinished, local, data
  <2>2. \A t \in Threads : pc[t] = "finish"
    BY <2>1 DEF FirstWait, Threads
  <2>3. 0 \in Threads
    BY DEF Threads
  <2>4. StreamWasFinished
    BY <2>1, <2>2, <2>3 DEF FirstWait
  <2>5. Counts /\ Covered /\ ErrorKept /\ EndSeen
    BY <2>1 DEF Working, InFlight, Errors
  <2>6. IF Result = OK THEN fault = OK ELSE fault # OK
    BY <2>2, <2>5 DEF ErrorKept
  <2>7. Result = OK => read = chunks
    BY <2>4, <2>5 DEF EndSeen
  <2>8. Result = OK => written = read
    <3> SUFFICES ASSUME Result = OK, written # read PROVE FALSE
      OBVIOUS
    <3>1. fault # "write"
      BY <2>6 DEF OK
    <3>2. read \in (written + 1) .. read
      BY <2>5 DEF Counts, Types
    <3>3. \E t \in Threads : Holds(t)
      BY <2>5, <3>1, <3>2 DEF Covered
    <3> QED
      BY <2>2, <3>3 DEF Holds
  <2> QED
    BY <2>1, <2>6, <2>7, <2>8 DEF Outcome
<1>12. CASE WaitWaiting
  BY <1>12 DEF Outcome, Fresh, Types, MainType, Threads, WaitWaiting, local, barrier, data, Reset
<1>13. CASE AllWaiting
  BY <1>13 DEF Outcome, Fresh, Types, MainType, Threads, AllWaiting, events, local, data, Return
<1>14. CASE Flush
  <2>1. CASE main'.at = "idle"
    BY <2>1 DEF Outcome
  <2>2. CASE main'.at = "flushFailed"
    <3>1. main.at = "tail" /\ fault' = IF fault = OK THEN "flush" ELSE fault
      <4>1. main' # [main EXCEPT !.at = "idle", !.t = 0]
        <5> SUFFICES ASSUME main' = [main EXCEPT !.at = "idle", !.t = 0] PROVE FALSE
          OBVIOUS
        <5>1. "idle" \in MainPlaces /\ 0 \in 0 .. NumThreads
          BY DEF MainPlaces
        <5>2. main'.at = "idle"
          BY <5>1, MoveTo
        <5> QED
          BY <2>2, <5>2
      <4> QED
        BY <1>14, <4>1 DEF Flush, Return, Fails
    <3>2. fault' # OK
      BY <3>1 DEF OK
    <3> QED
      BY <2>2, <3>2 DEF Outcome
  <2> QED
    BY <1>14, <2>1, <2>2, Moves
<1>15. CASE Wait_Close
  BY <1>15 DEF Outcome, Fresh, Types, MainType, Threads, Wait_Close, events, local, barrier, data
<1>16. CASE Freed
  BY <1>16 DEF Outcome, Fresh, Types, MainType, Threads, Freed, events, barrier, data, Return
<1>17. CASE UNCHANGED vars
  BY <1>17 DEF Outcome, Fresh, Types, MainType, Threads, vars, events, local, barrier, data
<1> QED
  BY <1>1, <1>2, <1>3, <1>4, <1>5, <1>6, <1>7, <1>8, <1>9, <1>10, <1>11, <1>12, <1>13, <1>14,
    <1>15, <1>16, <1>17 DEF Next, Inside, ThreadFunc, Destroyed, Works

\* NextBlockIndex follows the number of blocks read, and the event the blocks written.
LEMMA NextOnRing ==
  ASSUME NEW b \in Int, NEW i \in Threads, OnRing(b, i)
  PROVE OnRing(b + 1, NextIndex(i))
<1>1. PICK q \in Int : b = q * NumThreads + i
  BY DEF OnRing
<1>2. CASE i + 1 = NumThreads
  <2>1. b + 1 = (q + 1) * NumThreads + 0
    BY <1>1, <1>2, BZip2EncAssumption DEF Threads
  <2> QED
    BY <1>2, <2>1, NextIndexIs DEF OnRing
<1>3. CASE i + 1 # NumThreads
  <2>1. b + 1 = q * NumThreads + (i + 1)
    BY <1>1, BZip2EncAssumption DEF Threads
  <2> QED
    BY <1>3, <2>1, NextIndexIs DEF OnRing
<1> QED
  BY <1>2, <1>3

\* Two numbers less than NumThreads apart with the same index are equal.
LEMMA SameIndex ==
  ASSUME NEW a \in Int, NEW b \in Int, NEW i \in Threads, OnRing(a, i), OnRing(b, i),
         a <= b, b < a + NumThreads
  PROVE a = b
<1>1. PICK p \in Int : a = p * NumThreads + i
  BY DEF OnRing
<1>2. PICK q \in Int : b = q * NumThreads + i
  BY DEF OnRing
<1>3. 0 <= (q - p) * NumThreads /\ (q - p) * NumThreads < NumThreads
  BY <1>1, <1>2, BZip2EncAssumption DEF Threads
<1>4. q - p = 0
  <2> DEFINE d == q - p
  <2>1. CASE d >= 1
    BY <1>3, <2>1, BZip2EncAssumption
  <2>2. CASE d <= -1
    BY <1>3, <2>2, BZip2EncAssumption
  <2> QED
    BY <2>1, <2>2
<1> QED
  BY <1>1, <1>2, <1>4

\* A number has one index.
LEMMA SameCount ==
  ASSUME NEW b \in Int, NEW i \in Threads, NEW j \in Threads, OnRing(b, i), OnRing(b, j)
  PROVE i = j
<1>1. PICK p \in Int : b = p * NumThreads + i
  BY DEF OnRing
<1>2. PICK q \in Int : b = q * NumThreads + j
  BY DEF OnRing
<1>3. (q - p) * NumThreads = i - j
  BY <1>1, <1>2, BZip2EncAssumption DEF Threads
<1>4. q - p = 0
  <2> DEFINE d == q - p
  <2>1. CASE d >= 1
    <3>1. d * NumThreads >= NumThreads
      BY <2>1, BZip2EncAssumption
    <3> QED BY <1>3, <3>1, BZip2EncAssumption DEF Threads
  <2>2. CASE d <= -1
    <3>1. d * NumThreads <= -NumThreads
      BY <2>2, BZip2EncAssumption
    <3> QED BY <1>3, <3>1, BZip2EncAssumption DEF Threads
  <2> QED
    BY <2>1, <2>2
<1>5. (q - p) * NumThreads = 0
  BY <1>4, BZip2EncAssumption
<1> QED
  BY <1>3, <1>5, BZip2EncAssumption DEF Threads

\* Each block in flight has a thread, and the one that reads has none: there is room.
LEMMA Pigeonhole ==
  ASSUME IInv, NEW u \in Threads, ~Holds(u), InFlight, ~StreamWasFinished
  PROVE read < written + NumThreads
<1> DEFINE Left == (written + 1) .. read
           Others == Threads \ {u}
           f == [k \in Left |-> CHOOSE t \in Others : block[t] = k]
<1>0. read \in Nat /\ written \in Nat /\ written <= read /\ NumThreads \in Nat
  BY BZip2EncAssumption DEF IInv, Types, InFlight, Counts
<1>1. \A k \in Left : \E t \in Others : block[t] = k
  BY DEF InFlight, Covered
<1>2. \A k \in Left : f[k] \in Others /\ block[f[k]] = k
  BY <1>1
<1>3. f \in Injection(Left, Others)
  BY <1>2 DEF Injection, IsInjective
<1>4. IsFiniteSet(Threads) /\ Cardinality(Threads) = NumThreads
  BY <1>0, FS_Interval, BZip2EncAssumption DEF Threads
<1>5. IsFiniteSet(Others) /\ Cardinality(Others) = NumThreads - 1
  BY <1>4, FS_RemoveElement
<1>6. Cardinality(Left) <= NumThreads - 1
  BY <1>3, <1>5, FS_Injection
<1>7. Cardinality(Left) = IF written + 1 > read THEN 0 ELSE read - (written + 1) + 1
  <2>1. written + 1 \in Int /\ read \in Int
    BY <1>0
  <2> QED
    BY <2>1, FS_Interval
<1> QED
  BY <1>0, <1>6, <1>7

\* A step at which no block changes hands.
LEMMA KeepsBlocks ==
  ASSUME InFlight, UNCHANGED <<read, written, chunks>>,
         StreamWasFinished' \/ UNCHANGED <<StreamWasFinished, NextBlockIndex>>,
         StreamWasFinished /\ fault = "write" => StreamWasFinished' /\ fault' = "write",
         \A t \in Threads :
           /\ Holds(t)' <=> Holds(t)
           /\ Holds(t) => block'[t] = block[t] /\ m_BlockIndex'[t] = m_BlockIndex[t]
  PROVE InFlight'
<1>1. Counts'
  BY DEF InFlight, Counts
<1>2. NextNumber'
  BY DEF InFlight, NextNumber
<1>3. Numbers'
  BY DEF InFlight, Numbers
<1>4. Distinct'
  BY DEF InFlight, Distinct
<1>5. Covered'
  <2>1. CASE StreamWasFinished /\ fault = "write"
    BY <2>1 DEF Covered
  <2>2. CASE \A k \in (written + 1) .. read : \E t \in Threads : Holds(t) /\ block[t] = k
    BY <2>2 DEF Covered
  <2> QED
    BY <2>1, <2>2 DEF InFlight, Covered
<1> QED
  BY <1>1, <1>2, <1>3, <1>4, <1>5 DEF InFlight

\* A step at which the turn stays where it is, or is lost.
LEMMA KeepsTurn ==
  ASSUME Turn, UNCHANGED <<written, CanWriteEvent>>, fault' = "write" => fault = "write",
         \A t \in Threads :
           /\ HasTurn(t)' => HasTurn(t)
           /\ pc'[t] \in {"write", "pass"} =>
                pc'[t] = pc[t] /\ block'[t] = block[t] /\ m_BlockIndex'[t] = m_BlockIndex[t]
  PROVE Turn'
<1>1. InTurn'
  BY DEF Turn, InTurn
<1>2. OneTurn'
  BY DEF Turn, OneTurn
<1>3. TurnInEvent'
  BY DEF Turn, TurnInEvent
<1>4. TurnLost'
  BY DEF Turn, TurnLost
<1> QED
  BY <1>1, <1>2, <1>3, <1>4 DEF Turn

\* A thread goes to the critical section.
LEMMA ProcessWork ==
  ASSUME IInv, NEW t \in Threads, Process(t), InFlight, Turn, Errors
  PROVE (InFlight /\ Turn /\ Errors)'
<1> USE BZip2EncAssumption DEF IInv, Types, Threads
<1>1. InFlight'
  <2>1. /\ UNCHANGED <<read, written, chunks>>
        /\ StreamWasFinished' \/ UNCHANGED <<StreamWasFinished, NextBlockIndex>>
        /\ StreamWasFinished /\ fault = "write" => StreamWasFinished' /\ fault' = "write"
    BY DEF Process, Goto, events, data
  <2>2. \A u \in Threads :
          /\ Holds(u)' <=> Holds(u)
          /\ Holds(u) => block'[u] = block[u] /\ m_BlockIndex'[u] = m_BlockIndex[u]
    BY DEF Types, Holds, Process, Goto, events, data
  <2> QED
    BY <2>1, <2>2, KeepsBlocks
<1>2. Turn'
  <2>1. UNCHANGED <<written, CanWriteEvent>> /\ (fault' = "write" => fault = "write")
    BY DEF Process, Goto, events, data
  <2>2. \A u \in Threads :
          /\ HasTurn(u)' => HasTurn(u)
          /\ pc'[u] \in {"write", "pass"} =>
               pc'[u] = pc[u] /\ block'[u] = block[u] /\ m_BlockIndex'[u] = m_BlockIndex[u]
    BY DEF Types, HasTurn, Process, Goto, events, data
  <2> QED
    BY <2>1, <2>2, KeepsTurn
<1>3. Errors'
  <2>1. ErrorKept'
    BY DEF Errors, ErrorKept, HasTurn, Process, events, barrier, data, Goto
  <2>2. EndSeen'
    BY DEF Errors, EndSeen, Process, events, barrier, data, Goto
  <2> QED
    BY <2>1, <2>2 DEF Errors
<1> QED
  BY <1>1, <1>2, <1>3

\* A thread sees the end of the stream.
LEMMA SeeFinishedWork ==
  ASSUME IInv, NEW t \in Threads, SeeFinished(t), InFlight, Turn, Errors
  PROVE (InFlight /\ Turn /\ Errors)'
<1> USE BZip2EncAssumption DEF IInv, Types, Threads
<1>1. InFlight'
  <2>1. /\ UNCHANGED <<read, written, chunks>>
        /\ StreamWasFinished' \/ UNCHANGED <<StreamWasFinished, NextBlockIndex>>
        /\ StreamWasFinished /\ fault = "write" => StreamWasFinished' /\ fault' = "write"
    BY DEF SeeFinished, FinishStream, Goto, data
  <2>2. \A u \in Threads :
          /\ Holds(u)' <=> Holds(u)
          /\ Holds(u) => block'[u] = block[u] /\ m_BlockIndex'[u] = m_BlockIndex[u]
    BY DEF Types, Holds, SeeFinished, FinishStream, Goto, data
  <2> QED
    BY <2>1, <2>2, KeepsBlocks
<1>2. Turn'
  <2>1. UNCHANGED <<written, CanWriteEvent>> /\ (fault' = "write" => fault = "write")
    BY DEF SeeFinished, FinishStream, Goto, data
  <2>2. \A u \in Threads :
          /\ HasTurn(u)' => HasTurn(u)
          /\ pc'[u] \in {"write", "pass"} =>
               pc'[u] = pc[u] /\ block'[u] = block[u] /\ m_BlockIndex'[u] = m_BlockIndex[u]
    BY DEF Types, HasTurn, SeeFinished, FinishStream, Goto, data
  <2> QED
    BY <2>1, <2>2, KeepsTurn
<1>3. Errors'
  <2>1. ErrorKept'
    BY DEF Errors, ErrorKept, HasTurn, SeeFinished, barrier, data, FinishStream, Goto, Set
  <2>2. EndSeen'
    BY DEF Errors, EndSeen, SeeFinished, barrier, data, FinishStream, Goto, Set
  <2> QED
    BY <2>1, <2>2 DEF Errors
<1> QED
  BY <1>1, <1>2, <1>3

\* A thread reads the next block.
LEMMA ReadRleBlockWork ==
  ASSUME IInv, NEW t \in Threads, ReadRleBlock(t), InFlight, Turn, Errors
  PROVE (InFlight /\ Turn /\ Errors)'
<1> USE BZip2EncAssumption DEF IInv, Types, Threads
<1>a. /\ ~Holds(t) /\ ~StreamWasFinished /\ read < chunks /\ read' = read + 1
      /\ UNCHANGED <<written, chunks, StreamWasFinished, fault>>
      /\ block' = [block EXCEPT ![t] = read + 1]
      /\ m_BlockIndex' = [m_BlockIndex EXCEPT ![t] = NextBlockIndex]
      /\ NextBlockIndex' = NextIndex(NextBlockIndex)
      /\ pc' = [pc EXCEPT ![t] = "encode"]
  BY DEF ReadRleBlock, MayRead, Holds, Goto
<1>b. OnRing(read, NextBlockIndex)
  BY <1>a DEF InFlight, NextNumber
<1>c. read < written + NumThreads
  BY <1>a, Pigeonhole
<1>d. /\ read \in Nat /\ written \in Nat /\ written <= read /\ block \in [Threads -> Nat]
      /\ written' = written /\ read' = read + 1
  BY <1>a DEF InFlight, Counts
<1>1. InFlight'
  <2>1. Counts'
    BY <1>a, <1>c, <1>d DEF Counts
  <2>2. NextNumber'
    BY <1>a, <1>b, NextOnRing DEF NextNumber
  <2>3. Numbers'
    <3> SUFFICES ASSUME NEW u \in Threads, Holds(u)'
               PROVE (/\ written < block[u] /\ block[u] <= read
                      /\ OnRing(block[u] - 1, m_BlockIndex[u]))'
      BY DEF Numbers
    <3>1. CASE u = t
      <4>1. block'[u] = read + 1 /\ m_BlockIndex'[u] = NextBlockIndex
        BY <1>a, <3>1
      <4>2. block'[u] - 1 = read
        BY <4>1
      <4>3. OnRing(block'[u] - 1, m_BlockIndex'[u])
        BY <1>b, <4>1, <4>2
      <4>4. written' < block'[u] /\ block'[u] <= read'
        BY <1>d, <4>1
      <4> QED
        BY <4>3, <4>4
    <3>2. CASE u # t
      <4>1. Holds(u) /\ block'[u] = block[u] /\ m_BlockIndex'[u] = m_BlockIndex[u]
        BY <1>a, <3>2 DEF Holds
      <4>2. written < block[u] /\ block[u] <= read /\ OnRing(block[u] - 1, m_BlockIndex[u])
        BY <4>1 DEF InFlight, Numbers
      <4>3. written' < block'[u] /\ block'[u] <= read'
        <5>1. block[u] \in Nat
          BY <1>d
        <5> QED
          BY <1>d, <4>1, <4>2, <5>1
      <4> QED
        BY <4>1, <4>2, <4>3
    <3> QED
      BY <3>1, <3>2
  <2>4. Distinct'
    <3>1. \A u \in Threads : Holds(u)' /\ u # t => Holds(u) /\ block'[u] = block[u]
      BY <1>a DEF Holds
    <3>3. \A u \in Threads : Holds(u) => block[u] # read + 1
      BY <1>d DEF InFlight, Numbers
    <3>2. block'[t] = read + 1
      BY <1>a
    <3> QED
      BY <3>1, <3>2, <3>3 DEF InFlight, Distinct
  <2>5. Covered'
    <3> SUFFICES ASSUME NEW k \in (written + 1) .. (read + 1)
               PROVE \E u \in Threads : Holds(u)' /\ block'[u] = k
      BY <1>a DEF Covered
    <3>1. CASE k = read + 1
      BY <1>a, <3>1 DEF Holds
    <3>2. CASE k # read + 1
      <4>1. k \in (written + 1) .. read
        BY <1>d, <3>2
      <4>2. PICK u \in Threads : Holds(u) /\ block[u] = k
        BY <1>a, <4>1 DEF InFlight, Covered
      <4> QED
        BY <1>a, <4>2 DEF Holds
    <3> QED
      BY <3>1, <3>2
  <2> QED
    BY <2>1, <2>2, <2>3, <2>4, <2>5 DEF InFlight
<1>2. Turn'
  <2>1. UNCHANGED <<written, CanWriteEvent>> /\ (fault' = "write" => fault = "write")
    BY DEF ReadRleBlock, MayRead, Goto, events
  <2>2. \A u \in Threads :
          /\ HasTurn(u)' => HasTurn(u)
          /\ pc'[u] \in {"write", "pass"} =>
               pc'[u] = pc[u] /\ block'[u] = block[u] /\ m_BlockIndex'[u] = m_BlockIndex[u]
    BY DEF Types, HasTurn, ReadRleBlock, MayRead, Goto, events
  <2> QED
    BY <2>1, <2>2, KeepsTurn
<1>3. Errors'
  <2>1. ErrorKept'
    BY DEF Errors, ErrorKept, HasTurn, ReadRleBlock, events, barrier, Goto, NextIndex, MayRead
  <2>2. EndSeen'
    BY DEF Errors, EndSeen, ReadRleBlock, events, barrier, Goto, NextIndex, MayRead
  <2> QED
    BY <2>1, <2>2 DEF Errors
<1> QED
  BY <1>1, <1>2, <1>3

\* A thread finds the end of the input.
LEMMA ReadEndWork ==
  ASSUME IInv, NEW t \in Threads, ReadEnd(t), InFlight, Turn, Errors
  PROVE (InFlight /\ Turn /\ Errors)'
<1> USE BZip2EncAssumption DEF IInv, Types, Threads
<1>1. InFlight'
  <2>1. /\ UNCHANGED <<read, written, chunks>>
        /\ StreamWasFinished' \/ UNCHANGED <<StreamWasFinished, NextBlockIndex>>
        /\ StreamWasFinished /\ fault = "write" => StreamWasFinished' /\ fault' = "write"
    BY DEF ReadEnd, MayRead, FinishStream, Goto, data
  <2>2. \A u \in Threads :
          /\ Holds(u)' <=> Holds(u)
          /\ Holds(u) => block'[u] = block[u] /\ m_BlockIndex'[u] = m_BlockIndex[u]
    BY DEF Types, Holds, ReadEnd, MayRead, FinishStream, Goto, data
  <2> QED
    BY <2>1, <2>2, KeepsBlocks
<1>2. Turn'
  <2>1. UNCHANGED <<written, CanWriteEvent>> /\ (fault' = "write" => fault = "write")
    BY DEF ReadEnd, MayRead, FinishStream, Goto, data
  <2>2. \A u \in Threads :
          /\ HasTurn(u)' => HasTurn(u)
          /\ pc'[u] \in {"write", "pass"} =>
               pc'[u] = pc[u] /\ block'[u] = block[u] /\ m_BlockIndex'[u] = m_BlockIndex[u]
    BY DEF Types, HasTurn, ReadEnd, MayRead, FinishStream, Goto, data
  <2> QED
    BY <2>1, <2>2, KeepsTurn
<1>3. Errors'
  <2>1. ErrorKept'
    BY DEF Errors, ErrorKept, HasTurn, ReadEnd, barrier, data, NextIndex, FinishStream, MayRead,
      Goto, Set
  <2>2. EndSeen'
    BY DEF Errors, EndSeen, ReadEnd, barrier, data, NextIndex, FinishStream, MayRead, Goto, Set
  <2> QED
    BY <2>1, <2>2 DEF Errors
<1> QED
  BY <1>1, <1>2, <1>3

\* A read fails.
LEMMA ReadFailsWork ==
  ASSUME IInv, NEW t \in Threads, ReadFails(t), InFlight, Turn, Errors
  PROVE (InFlight /\ Turn /\ Errors)'
<1> USE BZip2EncAssumption DEF IInv, Types, Threads
<1>1. InFlight'
  <2>1. /\ UNCHANGED <<read, written, chunks>>
        /\ StreamWasFinished' \/ UNCHANGED <<StreamWasFinished, NextBlockIndex>>
        /\ StreamWasFinished /\ fault = "write" => StreamWasFinished' /\ fault' = "write"
    BY DEF ReadFails, MayRead, FinishStream, Fails, Goto, data, OK
  <2>2. \A u \in Threads :
          /\ Holds(u)' <=> Holds(u)
          /\ Holds(u) => block'[u] = block[u] /\ m_BlockIndex'[u] = m_BlockIndex[u]
    BY DEF Types, Holds, ReadFails, MayRead, FinishStream, Fails, Goto, data
  <2> QED
    BY <2>1, <2>2, KeepsBlocks
<1>2. Turn'
  <2>1. UNCHANGED <<written, CanWriteEvent>> /\ (fault' = "write" => fault = "write")
    BY DEF ReadFails, MayRead, FinishStream, Fails, Goto, data, OK
  <2>2. \A u \in Threads :
          /\ HasTurn(u)' => HasTurn(u)
          /\ pc'[u] \in {"write", "pass"} =>
               pc'[u] = pc[u] /\ block'[u] = block[u] /\ m_BlockIndex'[u] = m_BlockIndex[u]
    BY DEF Types, HasTurn, ReadFails, MayRead, FinishStream, Fails, Goto, data
  <2> QED
    BY <2>1, <2>2, KeepsTurn
<1>3. Errors'
  <2>1. ErrorKept'
    BY DEF Errors, ErrorKept, ReadFails, FinishStream, Fails, Goto, OK
  <2>2. EndSeen'
    BY DEF EndSeen, ReadFails, OK
  <2> QED
    BY <2>1, <2>2 DEF Errors
<1> QED
  BY <1>1, <1>2, <1>3

\* The event of its index tells a thread that its block is the next to be written.
LEMMA TakeTurnWork ==
  ASSUME IInv, NEW t \in Threads, TakeTurn(t), InFlight, Turn, Errors
  PROVE (InFlight /\ Turn /\ Errors)'
<1> USE BZip2EncAssumption DEF IInv, Types, Threads
<1>a. /\ pc[t] = "encode" /\ CanWriteEvent[m_BlockIndex[t]] /\ pc' = [pc EXCEPT ![t] = "write"]
      /\ CanWriteEvent' = [CanWriteEvent EXCEPT ![m_BlockIndex[t]] = FALSE]
      /\ UNCHANGED <<block, m_BlockIndex, written, fault>>
  BY DEF TakeTurn, Reset, Goto, data
<1>b. OnRing(written, m_BlockIndex[t]) /\ \A u \in Threads : ~HasTurn(u)
  BY <1>a DEF Turn, TurnInEvent
<1>c. block[t] = written + 1
  <2>1. written <= block[t] - 1 /\ block[t] - 1 < written + NumThreads
    <3>1. written < block[t] /\ block[t] <= read
      BY <1>a DEF InFlight, Numbers, Holds
    <3>2. read <= written + NumThreads
      BY DEF InFlight, Counts
    <3>3. block[t] \in Nat /\ read \in Nat /\ written \in Nat /\ NumThreads \in Nat
      OBVIOUS
    <3> HIDE BZip2EncAssumption DEF IInv, Types, Threads
    <3> QED
      BY <3>1, <3>2, <3>3
  <2>2. OnRing(block[t] - 1, m_BlockIndex[t])
    BY <1>a DEF InFlight, Numbers, Holds
  <2>3. written = block[t] - 1
    <3> DEFINE b == block[t] - 1
    <3>1. written \in Int /\ b \in Int /\ m_BlockIndex[t] \in Threads
      OBVIOUS
    <3> HIDE DEF b
    <3>2. written <= b /\ b < written + NumThreads /\ OnRing(b, m_BlockIndex[t])
      BY <2>1, <2>2 DEF b
    <3>3. written = b
      BY <1>b, <3>1, <3>2, SameIndex
    <3> QED
      BY <3>3 DEF b
  <2> QED
    BY <2>3
<1>1. InFlight'
  <2>1. /\ UNCHANGED <<read, written, chunks>>
        /\ StreamWasFinished' \/ UNCHANGED <<StreamWasFinished, NextBlockIndex>>
        /\ StreamWasFinished /\ fault = "write" => StreamWasFinished' /\ fault' = "write"
    BY DEF TakeTurn, Goto, data
  <2>2. \A u \in Threads :
          /\ Holds(u)' <=> Holds(u)
          /\ Holds(u) => block'[u] = block[u] /\ m_BlockIndex'[u] = m_BlockIndex[u]
    BY DEF Types, Holds, TakeTurn, Goto, data
  <2> QED
    BY <2>1, <2>2, KeepsBlocks
<1>2. Turn'
  <2>1. InTurn'
    BY <1>a, <1>c DEF Turn, InTurn
  <2>2. OneTurn'
    BY <1>a, <1>b DEF OneTurn, HasTurn
  <2>3. TurnInEvent'
    <3> SUFFICES ASSUME NEW i \in Threads, CanWriteEvent'[i] PROVE FALSE
      BY DEF TurnInEvent
    <3>1. CanWriteEvent[i] /\ i # m_BlockIndex[t]
      BY <1>a
    <3>2. OnRing(written, i)
      BY <3>1 DEF Turn, TurnInEvent
    <3> QED
      BY <1>b, <3>1, <3>2, SameCount
  <2>4. TurnLost'
    BY DEF Turn, TurnLost, HasTurn, TakeTurn, barrier, data, Goto, Reset
  <2> QED
    BY <2>1, <2>2, <2>3, <2>4 DEF Turn
<1>3. Errors'
  <2>1. ErrorKept'
    BY DEF Errors, ErrorKept, HasTurn, TakeTurn, barrier, data, Goto, Reset
  <2>2. EndSeen'
    BY DEF Errors, EndSeen, TakeTurn, barrier, data, Goto, Reset
  <2> QED
    BY <2>1, <2>2 DEF Errors
<1> QED
  BY <1>1, <1>2, <1>3

\* A block is written.
LEMMA WriteBytesWork ==
  ASSUME IInv, NEW t \in Threads, WriteBytes(t), InFlight, Turn, Errors
  PROVE (InFlight /\ Turn /\ Errors)'
<1> USE BZip2EncAssumption DEF IInv, Types, Threads
<1>a. /\ pc[t] = "write" /\ written' = block[t] /\ pc' = [pc EXCEPT ![t] = "pass"]
      /\ UNCHANGED <<block, m_BlockIndex, read, chunks, StreamWasFinished, fault>>
  BY DEF WriteBytes, Goto, local, events
<1>b. block[t] = written + 1
  BY <1>a DEF Turn, InTurn
<1>c. block[t] <= read /\ OnRing(block[t] - 1, m_BlockIndex[t])
  BY <1>a DEF InFlight, Numbers, Holds
<1>1. InFlight'
  <2>1. Counts'
    BY <1>a, <1>b, <1>c DEF InFlight, Counts
  <2>2. NextNumber'
    BY DEF InFlight, NextNumber, WriteBytes, events, barrier, Goto
  <2>3. Numbers'
    <3> SUFFICES ASSUME NEW u \in Threads, Holds(u)'
               PROVE (/\ written < block[u] /\ block[u] <= read
                      /\ OnRing(block[u] - 1, m_BlockIndex[u]))'
      BY DEF Numbers
    <3>1. Holds(u) /\ Holds(t) /\ u # t
      BY <1>a DEF Holds
    <3>2. block[u] # written + 1
      BY <1>b, <3>1 DEF InFlight, Distinct
    <3>3. written < block[u] /\ block[u] <= read /\ OnRing(block[u] - 1, m_BlockIndex[u])
      BY <3>1 DEF InFlight, Numbers
    <3>4. block[u] \in Nat /\ written \in Nat
      OBVIOUS
    <3> HIDE BZip2EncAssumption DEF IInv, Types, Threads
    <3> QED
      BY <1>a, <1>b, <3>2, <3>3, <3>4
  <2>4. Distinct'
    BY DEF InFlight, Distinct, Holds, WriteBytes, events, barrier, Goto
  <2>5. Covered'
    <3>1. CASE StreamWasFinished /\ fault = "write"
      BY <1>a, <3>1 DEF Covered
    <3>2. CASE ~(StreamWasFinished /\ fault = "write")
      <4> SUFFICES ASSUME NEW k \in (written + 1 + 1) .. read
                 PROVE \E u \in Threads : Holds(u)' /\ block[u] = k
        BY <1>a, <1>b DEF Covered
      <4>1. k \in (written + 1) .. read
        OBVIOUS
      <4>2. PICK u \in Threads : Holds(u) /\ block[u] = k
        BY <3>2, <4>1 DEF InFlight, Covered
      <4>3. u # t
        BY <1>b, <4>2
      <4>4. Holds(u)'
        BY <1>a, <4>2, <4>3 DEF Holds
      <4> QED
        BY <4>2, <4>4
    <3> QED
      BY <3>1, <3>2
  <2> QED
    BY <2>1, <2>2, <2>3, <2>4, <2>5 DEF InFlight
<1>2. Turn'
  <2>1. InTurn'
    <3>1. \A u \in Threads : pc'[u] \in {"write", "pass"} => u = t
      BY <1>a DEF Turn, OneTurn, HasTurn
    <3>2. pc'[t] = "pass"
      BY <1>a
    <3> QED
      BY <1>a, <1>c, <3>1, <3>2 DEF InTurn
  <2>2. OneTurn'
    BY DEF Turn, OneTurn, HasTurn, WriteBytes, events, barrier, Goto
  <2>3. TurnInEvent'
    BY DEF Turn, TurnInEvent, HasTurn, WriteBytes, events, barrier, Goto
  <2>4. TurnLost'
    BY DEF Turn, TurnLost, HasTurn, WriteBytes, events, barrier, Goto
  <2> QED
    BY <2>1, <2>2, <2>3, <2>4 DEF Turn
<1>3. Errors'
  <2>1. ErrorKept'
    BY DEF Errors, ErrorKept, HasTurn, WriteBytes, events, barrier, Goto
  <2>2. EndSeen'
    BY DEF Errors, EndSeen, WriteBytes, events, barrier, Goto
  <2> QED
    BY <2>1, <2>2 DEF Errors
<1> QED
  BY <1>1, <1>2, <1>3

\* The turn goes to the next index.
LEMMA PassWork ==
  ASSUME IInv, NEW t \in Threads, Pass(t), InFlight, Turn, Errors
  PROVE (InFlight /\ Turn /\ Errors)'
<1> USE BZip2EncAssumption DEF IInv, Types, Threads
<1>a. /\ pc[t] = "pass"
      /\ CanWriteEvent' = [CanWriteEvent EXCEPT ![NextIndex(m_BlockIndex[t])] = TRUE]
      /\ UNCHANGED written
      /\ \/ pc' = [pc EXCEPT ![t] = "process"] /\ UNCHANGED fault
         \/ pc' = [pc EXCEPT ![t] = "progress"] /\ fault' = IF fault = OK THEN "progress" ELSE fault
  BY DEF Pass, PassTurn, Set, Goto, Fails, data
<1>b. OnRing(written, NextIndex(m_BlockIndex[t]))
  <2>1. block[t] = written /\ OnRing(block[t] - 1, m_BlockIndex[t])
    BY <1>a DEF Turn, InTurn
  <2>2. OnRing(block[t] - 1 + 1, NextIndex(m_BlockIndex[t]))
    BY <2>1, NextOnRing
  <2> QED
    BY <2>1, <2>2
<1>c. /\ \A i \in Threads : ~CanWriteEvent[i]
      /\ \A u \in Threads : HasTurn(u) => u = t
  BY <1>a DEF Turn, OneTurn, TurnInEvent, HasTurn
<1>1. InFlight'
  <2>1. /\ UNCHANGED <<read, written, chunks>>
        /\ StreamWasFinished' \/ UNCHANGED <<StreamWasFinished, NextBlockIndex>>
        /\ StreamWasFinished /\ fault = "write" => StreamWasFinished' /\ fault' = "write"
    BY DEF Pass, Goto, Fails, data, OK
  <2>2. \A u \in Threads :
          /\ Holds(u)' <=> Holds(u)
          /\ Holds(u) => block'[u] = block[u] /\ m_BlockIndex'[u] = m_BlockIndex[u]
    BY DEF Types, Holds, Pass, Goto, Fails, data
  <2> QED
    BY <2>1, <2>2, KeepsBlocks
<1>2. Turn'
  <2>1. InTurn'
    BY DEF Turn, InTurn, Pass, barrier, data, Goto, Fails, PassTurn, Set, NextIndex
  <2>2. OneTurn'
    BY <1>a, <1>c DEF OneTurn, HasTurn
  <2>3. TurnInEvent'
    <3>1. \A u \in Threads : ~HasTurn(u)'
      BY <1>a, <1>c DEF HasTurn
    <3>2. \A i \in Threads : CanWriteEvent'[i] => i = NextIndex(m_BlockIndex[t])
      BY <1>a, <1>c
    <3> QED
      BY <1>a, <1>b, <3>1, <3>2 DEF TurnInEvent
  <2>4. TurnLost'
    BY DEF Turn, TurnLost, HasTurn, Pass, barrier, data, Goto, Fails, PassTurn, Set, NextIndex
  <2> QED
    BY <2>1, <2>2, <2>3, <2>4 DEF Turn
<1>3. Errors'
  <2>1. ErrorKept'
    <3>1. UNCHANGED Result
      BY DEF Pass
    <3>2. CASE pc' = [pc EXCEPT ![t] = "process"] /\ UNCHANGED fault
      BY <1>a, <3>1, <3>2 DEF Errors, ErrorKept
    <3>3. CASE /\ pc' = [pc EXCEPT ![t] = "progress"]
              /\ fault' = IF fault = OK THEN "progress" ELSE fault
      <4>1. fault' # OK /\ (fault = "write" => fault' = "write")
        BY <3>3 DEF OK
      <4>2. pc'[t] = "progress" /\ \A u \in Threads \ {t} : pc'[u] = pc[u]
        BY <3>3
      <4> QED
        BY <3>1, <4>1, <4>2 DEF Errors, ErrorKept
    <3> QED
      BY <1>a, <3>2, <3>3
  <2>2. EndSeen'
    BY DEF Errors, EndSeen, Pass, barrier, data, Goto, Fails, PassTurn, Set, NextIndex
  <2> QED
    BY <2>1, <2>2 DEF Errors
<1> QED
  BY <1>1, <1>2, <1>3

\* A write fails, and the turn is lost.
LEMMA WriteFailsWork ==
  ASSUME IInv, NEW t \in Threads, WriteFails(t), InFlight, Turn, Errors
  PROVE (InFlight /\ Turn /\ Errors)'
<1> USE BZip2EncAssumption DEF IInv, Types, Threads
<1>1. InFlight'
  <2>1. /\ UNCHANGED <<read, written, chunks>>
        /\ StreamWasFinished' \/ UNCHANGED <<StreamWasFinished, NextBlockIndex>>
        /\ StreamWasFinished /\ fault = "write" => StreamWasFinished' /\ fault' = "write"
    BY DEF WriteFails, Goto, Fails, data, OK
  <2>2. \A u \in Threads :
          /\ Holds(u)' <=> Holds(u)
          /\ Holds(u) => block'[u] = block[u] /\ m_BlockIndex'[u] = m_BlockIndex[u]
    BY DEF Types, Holds, WriteFails, Goto, Fails, data
  <2> QED
    BY <2>1, <2>2, KeepsBlocks
<1>2. Turn'
  <2>1. InTurn'
    BY DEF Turn, InTurn, WriteFails, events, barrier, data, Goto, Fails
  <2>2. OneTurn'
    BY DEF Turn, OneTurn, HasTurn, WriteFails, events, barrier, data, Goto, Fails
  <2>3. TurnInEvent'
    BY DEF Turn, TurnInEvent, HasTurn, WriteFails, events, barrier, data, Goto, Fails
  <2>4. TurnLost'
    BY DEF Turn, TurnLost, OneTurn, TurnInEvent, HasTurn, WriteFails, Fails, Goto, events
  <2> QED
    BY <2>1, <2>2, <2>3, <2>4 DEF Turn
<1>3. Errors'
  <2>1. ErrorKept'
    <3>1. /\ pc[t] = "write" /\ fault' = "write" /\ UNCHANGED Result
          /\ pc' = [pc EXCEPT ![t] = "writeFailed"]
      BY DEF WriteFails, Fails, Goto
    <3>2. pc'[t] = "writeFailed" /\ fault' # OK
      BY <3>1 DEF OK
    <3> QED
      BY <3>1, <3>2 DEF Errors, ErrorKept
  <2>2. EndSeen'
    BY DEF Errors, EndSeen, WriteFails, events, barrier, data, Goto, Fails
  <2> QED
    BY <2>1, <2>2 DEF Errors
<1> QED
  BY <1>1, <1>2, <1>3

\* The error of a thread is kept.
LEMMA FailedWork ==
  ASSUME IInv, NEW t \in Threads, Failed(t), InFlight, Turn, Errors
  PROVE (InFlight /\ Turn /\ Errors)'
<1> USE BZip2EncAssumption DEF IInv, Types, Threads
<1>1. InFlight'
  <2>1. Counts'
    BY DEF InFlight, Counts, Failed, barrier, data, FinishStream, Goto, Set
  <2>2. NextNumber'
    BY DEF InFlight, NextNumber, Failed, barrier, data, FinishStream, Goto, Set
  <2>3. Numbers'
    BY DEF InFlight, Numbers, Holds, Failed, barrier, data, FinishStream, Goto, Set
  <2>4. Distinct'
    BY DEF InFlight, Distinct, Holds, Failed, barrier, data, FinishStream, Goto, Set
  <2>5. Covered'
    <3>1. CASE pc[t] = "writeFailed"
      BY <3>1 DEF Errors, ErrorKept, Covered, Failed, FinishStream
    <3>2. CASE pc[t] # "writeFailed"
      BY <3>2 DEF InFlight, Covered, Holds, Failed, FinishStream, Goto, data
    <3> QED
      BY <3>1, <3>2
  <2> QED
    BY <2>1, <2>2, <2>3, <2>4, <2>5 DEF InFlight
<1>2. Turn'
  <2>1. UNCHANGED <<written, CanWriteEvent>> /\ (fault' = "write" => fault = "write")
    BY DEF Failed, FinishStream, Goto, data
  <2>2. \A u \in Threads :
          /\ HasTurn(u)' => HasTurn(u)
          /\ pc'[u] \in {"write", "pass"} =>
               pc'[u] = pc[u] /\ block'[u] = block[u] /\ m_BlockIndex'[u] = m_BlockIndex[u]
    BY DEF Types, HasTurn, Failed, FinishStream, Goto, data
  <2> QED
    BY <2>1, <2>2, KeepsTurn
<1>3. Errors'
  <2>1. ErrorKept'
    BY DEF Errors, ErrorKept, Failed, FinishStream, Goto, OK
  <2>2. EndSeen'
    BY DEF EndSeen, Failed, OK
  <2> QED
    BY <2>1, <2>2 DEF Errors
<1> QED
  BY <1>1, <1>2, <1>3

\* CodeReal: the reset before the threads are let go.
LEMMA StartWork ==
  ASSUME IInv, Start
  PROVE (InFlight /\ Turn /\ Errors)'
<1>1. /\ read' = 0 /\ written' = 0 /\ chunks' \in Nat /\ fault' = OK /\ Result' = OK
      /\ NextBlockIndex' = 0 /\ StreamWasFinished' = FALSE
      /\ CanWriteEvent' = [[t \in Threads |-> FALSE] EXCEPT ![0] = TRUE]
  BY DEF IInv, Types, Fresh, Start, Set, None, data
<1>2. \A t \in Threads : pc'[t] \in {"none", "process"}
  BY DEF IInv, Resting, Start, local
<1>3. OnRing(0, 0)
  <2>1. 0 = 0 * NumThreads + 0
    BY BZip2EncAssumption
  <2> QED
    BY <2>1 DEF OnRing
<1>4. InFlight'
  <2>1. Counts' /\ NextNumber'
    BY <1>1, <1>3, BZip2EncAssumption DEF Counts, NextNumber
  <2>2. Numbers' /\ Distinct'
    BY <1>2 DEF Numbers, Distinct, Holds
  <2>3. Covered'
    BY <1>1 DEF Covered
  <2> QED
    BY <2>1, <2>2, <2>3 DEF InFlight
<1>5. Turn'
  <2>1. InTurn' /\ OneTurn'
    BY <1>2 DEF InTurn, OneTurn, HasTurn
  <2>2. TurnInEvent'
    BY <1>1, <1>2, <1>3 DEF TurnInEvent, HasTurn
  <2>3. TurnLost'
    BY <1>1 DEF TurnLost, OK
  <2> QED
    BY <2>1, <2>2, <2>3 DEF Turn
<1>6. Errors'
  BY <1>1, <1>2 DEF Errors, ErrorKept, EndSeen
<1> QED
  BY <1>4, <1>5, <1>6

\* Every step keeps what is known of blocks, turn and errors during the first wait.
LEMMA WorkingStep == IInv /\ [Next]_vars => Working'
<1> SUFFICES ASSUME IInv, [Next]_vars PROVE Working'
  OBVIOUS
<1> USE BZip2EncAssumption DEF IInv
<1>1. ASSUME NEW t \in Threads, Process(t) PROVE Working'
  BY <1>1, ProcessWork DEF Working, Process
<1>2. ASSUME NEW t \in Threads, Close(t) PROVE Working'
  BY <1>2 DEF Working, FirstWait, Close
<1>3. ASSUME NEW t \in Threads, SeeFinished(t) PROVE Working'
  BY <1>3, SeeFinishedWork DEF Working, SeeFinished
<1>4. ASSUME NEW t \in Threads, ReadRleBlock(t) PROVE Working'
  BY <1>4, ReadRleBlockWork DEF Working, ReadRleBlock
<1>5. ASSUME NEW t \in Threads, ReadEnd(t) PROVE Working'
  BY <1>5, ReadEndWork DEF Working, ReadEnd
<1>6. ASSUME NEW t \in Threads, ReadFails(t) PROVE Working'
  BY <1>6, ReadFailsWork DEF Working, ReadFails
<1>7. ASSUME NEW t \in Threads, TakeTurn(t) PROVE Working'
  BY <1>7, TakeTurnWork DEF Working, TakeTurn
<1>8. ASSUME NEW t \in Threads, WriteBytes(t) PROVE Working'
  BY <1>8, WriteBytesWork DEF Working, WriteBytes
<1>9. ASSUME NEW t \in Threads, Pass(t) PROVE Working'
  BY <1>9, PassWork DEF Working, Pass
<1>10. ASSUME NEW t \in Threads, WriteFails(t) PROVE Working'
  BY <1>10, WriteFailsWork DEF Working, WriteFails
<1>11. ASSUME NEW t \in Threads, Failed(t) PROVE Working'
  BY <1>11, FailedWork DEF Working, Failed
<1>12. ASSUME NEW t \in Threads, StartWaiting(t) PROVE Working'
  BY <1>12 DEF Working, FirstWait, StartWaiting
<1>13. CASE BeginCall
  BY <1>13, Moves DEF Working
<1>14. CASE Destroy
  BY <1>14, Moves DEF Working
<1>15. CASE Create
  BY <1>15, Moves DEF Working
<1>16. CASE Start
  BY <1>16, StartWork DEF Working
<1>17. CASE AllocFails
  BY <1>17, Moves DEF Working
<1>18. CASE WaitFinished
  <2>1. UNCHANGED <<CanWriteEvent, pc, m_BlockIndex, block, NextBlockIndex, StreamWasFinished,
                   Result, chunks, read, written, fault>>
    BY <1>18 DEF WaitFinished, local, data
  <2>2. InFlight /\ Turn /\ Errors
    BY <1>18 DEF Working, WaitFinished
  <2>3. InFlight'
    BY <2>1, <2>2 DEF InFlight, Counts, NextNumber, Numbers, Distinct, Covered, Holds
  <2>4. Turn'
    BY <2>1, <2>2 DEF Turn, InTurn, OneTurn, TurnInEvent, TurnLost, HasTurn
  <2>5. Errors'
    BY <2>1, <2>2 DEF Errors, ErrorKept, EndSeen
  <2> QED
    BY <2>3, <2>4, <2>5 DEF Working
<1>19. CASE AllFinished
  BY <1>19, Moves DEF Working
<1>20. CASE WaitWaiting
  BY <1>20, Moves DEF Working, WaitWaiting
<1>21. CASE AllWaiting
  BY <1>21, Moves DEF Working
<1>22. CASE Flush
  BY <1>22, Moves DEF Working
<1>23. CASE Wait_Close
  BY <1>23, Moves DEF Working, Wait_Close
<1>24. CASE Freed
  BY <1>24, Moves DEF Working
<1>25. CASE UNCHANGED vars
  <2>1. UNCHANGED <<CanWriteEvent, pc, m_BlockIndex, block, NextBlockIndex, StreamWasFinished,
                   Result, chunks, read, written, fault>>
    BY <1>25 DEF vars, events, local, data
  <2> SUFFICES ASSUME main'.at = "waitFinished" PROVE (InFlight /\ Turn /\ Errors)'
    BY DEF Working
  <2>2. InFlight /\ Turn /\ Errors
    BY <1>25 DEF Working, vars
  <2>3. InFlight'
    BY <2>1, <2>2 DEF InFlight, Counts, NextNumber, Numbers, Distinct, Covered, Holds
  <2>4. Turn'
    BY <2>1, <2>2 DEF Turn, InTurn, OneTurn, TurnInEvent, TurnLost, HasTurn
  <2>5. Errors'
    BY <2>1, <2>2 DEF Errors, ErrorKept, EndSeen
  <2> QED
    BY <2>3, <2>4, <2>5
<1> QED
  BY <1>1, <1>2, <1>3, <1>4, <1>5, <1>6, <1>7, <1>8, <1>9, <1>10, <1>11, <1>12, <1>13, <1>14,
    <1>15, <1>16, <1>17, <1>18, <1>19, <1>20, <1>21, <1>22, <1>23, <1>24, <1>25 DEF Next,
    Inside, ThreadFunc, Destroyed

\* The encoder keeps its inductive invariant: the barrier between two calls holds, the
\* blocks in flight are each with one thread, and the turn is in one place or lost for good.
THEOREM Invariant == Spec => []IInv
<1>1. Init => IInv
  <2> SUFFICES ASSUME Init PROVE IInv
    OBVIOUS
  <2> USE BZip2EncAssumption DEF Init
  <2>1. Types
    <3>1. 0 \in Threads /\ OK \in Results /\ "none" \in Places
      BY DEF Threads, Results, Places
    <3> QED
      BY <3>1 DEF Types
  <2>2. MainType
    BY DEF MainType, MainPlaces
  <2>3. Resting /\ Fresh /\ Closing /\ FirstWait /\ SecondWait /\ Outcome /\ Working
    BY DEF Resting, Fresh, Closing, FirstWait, SecondWait, Outcome, Working
  <2> QED
    BY <2>1, <2>2, <2>3 DEF IInv
<1>2. IInv /\ [Next]_vars => IInv'
  BY TypesStep, MainTypeStep, RestingStep, FreshStep, ClosingStep, FirstWaitStep, SecondWaitStep,
     OutcomeStep, WorkingStep DEF IInv
<1> QED
  BY <1>1, <1>2, PTL DEF Spec


\* The error that stands for all in the abstract coder is one.
LEMMA AnyFault == SomeFault \in FaultKinds /\ SomeFault # OK
<1>1. \E kind \in FaultKinds : TRUE
  BY DEF FaultKinds
<1> QED
  BY <1>1 DEF SomeFault, FaultKinds, OK

\* The encoder starts as the abstract coder does.
LEMMA RefinedInit == Init => O!Init
BY BZip2EncAssumption DEF Init, O!Init, Running

\* A step that the abstract coder does not see.
LEMMA Stutters ==
  ASSUME Running' = Running, UNCHANGED <<chunks, read, written, fault, result>>
  PROVE [O!Next]_O!vars
BY DEF O!vars

\* A step at which an operation may fail.
LEMMA Failing ==
  ASSUME Running, Running', UNCHANGED <<chunks, read, written, result>>,
         fault' # OK \/ UNCHANGED fault
  PROVE [O!Next]_O!vars
<1>1. CASE UNCHANGED fault
  BY <1>1 DEF O!vars
<1>2. CASE fault # OK /\ fault' # OK
  BY <1>2 DEF O!vars
<1>3. CASE fault = OK /\ fault' # OK
  <2>1. O!Fail
    BY <1>3, AnyFault DEF O!Fail, SomeFault
  <2> QED
    BY <2>1 DEF O!Next
<1> QED
  BY <1>1, <1>2, <1>3

\* Every step is a step of the abstract coder, or stutters.
LEMMA RefinedStep == IInv /\ [Next]_vars => [O!Next]_O!vars
<1> SUFFICES ASSUME IInv, [Next]_vars PROVE [O!Next]_O!vars
  OBVIOUS
<1> USE BZip2EncAssumption
<1>t. MainType /\ Types
  BY DEF IInv
<1>1. ASSUME NEW t \in Threads,
             \/ Process(t) \/ Close(t) \/ SeeFinished(t) \/ TakeTurn(t) \/ StartWaiting(t)
             \/ ReadEnd(t) \/ Failed(t)
      PROVE [O!Next]_O!vars
  BY <1>1, Stutters DEF Running, Process, Close, SeeFinished, TakeTurn, StartWaiting, ReadEnd,
    Failed, data
<1>2. ASSUME NEW t \in Threads, ReadRleBlock(t) PROVE [O!Next]_O!vars
  <2>1. main.at = "waitFinished" /\ ~Holds(t) /\ ~StreamWasFinished
    BY <1>2, Active DEF IInv, ReadRleBlock, MayRead, Holds
  <2>2. InFlight
    BY <2>1 DEF IInv, Working
  <2>3. read < written + NumThreads
    BY <2>1, <2>2, Pigeonhole DEF IInv
  <2>4. read - written < NumThreads
    BY <1>t, <2>3 DEF Types
  <2>5. O!Read
    BY <1>2, <2>1, <2>4 DEF O!Read, ReadRleBlock, MayRead, Running
  <2> QED
    BY <2>5 DEF O!Next
<1>3. ASSUME NEW t \in Threads, ReadFails(t) \/ Pass(t) \/ WriteFails(t) PROVE [O!Next]_O!vars
  <2>1. main.at = "waitFinished"
    BY <1>3, Active DEF ReadFails, MayRead, Pass, WriteFails
  <2>2. UNCHANGED <<main, chunks, read, written, result>>
    BY <1>3 DEF ReadFails, Pass, WriteFails, data
  <2>3. fault' # OK \/ UNCHANGED fault
    BY <1>3 DEF ReadFails, Pass, WriteFails, Fails, OK
  <2> QED
    BY <2>1, <2>2, <2>3, Failing DEF Running
<1>4. ASSUME NEW t \in Threads, WriteBytes(t) PROVE [O!Next]_O!vars
  <2>1. main.at = "waitFinished" /\ pc[t] = "write"
    BY <1>4, Active DEF WriteBytes
  <2>2. block[t] = written + 1 /\ block[t] <= read
    BY <2>1 DEF IInv, Working, InFlight, Turn, Numbers, InTurn, Holds
  <2>3. written' = written + 1 /\ written' \in (written + 1) .. read
    BY <1>4, <1>t, <2>2 DEF WriteBytes, Types
  <2>4. O!Write
    BY <1>4, <2>1, <2>3 DEF O!Write, WriteBytes, Running
  <2> QED
    BY <2>4 DEF O!Next
<1>5. CASE BeginCall
  <2>1. Running' /\ ~Running
    BY <1>5, <1>t, Moves DEF Running, BeginCall
  <2>2. O!Begin
    BY <1>5, <2>1 DEF O!Begin, BeginCall
  <2> QED
    BY <2>2 DEF O!Next
<1>6. CASE Destroy
  BY <1>6, <1>t, Moves, Stutters DEF Running, Destroy, data
<1>7. CASE Create
  <2>1. Running /\ Running'
    BY <1>7, <1>t, Moves DEF Running, Create
  <2>2. fault' # OK \/ UNCHANGED fault
    BY <1>7 DEF Create, Fails, OK
  <2> QED
    BY <1>7, <2>1, <2>2, Failing DEF Create, data
<1>8. CASE Start \/ AllFinished \/ WaitFinished \/ WaitWaiting \/ Wait_Close
  <2>1. Running' = Running
    BY <1>8, <1>t, Moves DEF Running, Start, AllFinished
  <2>2. UNCHANGED <<chunks, read, written, fault, result>>
    BY <1>8 DEF Start, AllFinished, WaitFinished, WaitWaiting, Wait_Close, data
  <2> QED
    BY <2>1, <2>2, Stutters
<1>9. CASE AllocFails \/ Freed
  <2>1. Running /\ ~Running' /\ read = 0
    BY <1>9, <1>t, Moves DEF Running, AllocFails, Freed, IInv, Fresh
  <2>2. result' \in FaultKinds /\ UNCHANGED <<chunks, read, written, fault>>
    BY <1>9 DEF AllocFails, Freed, Return, FaultKinds, data
  <2>3. O!ReturnError
    BY <2>1, <2>2 DEF O!ReturnError
  <2> QED
    BY <2>3 DEF O!Next
<1>10. CASE AllWaiting
  <2>1. main.at = "waitWaiting" /\ UNCHANGED <<chunks, read, written, fault>>
    BY <1>10 DEF AllWaiting, data
  <2>2. CASE Result # OK /\ Return(Result)
    <3>1. fault # OK /\ Result \in FaultKinds
      BY <1>t, <2>1, <2>2 DEF IInv, Outcome, Types, Results
    <3>2. main'.at = "idle" /\ result' = Result
      BY <1>t, <2>2, ToIdle
    <3>3. O!ReturnError
      BY <2>1, <3>1, <3>2, AnyFault DEF O!ReturnError, Running, SomeFault
    <3> QED
      BY <3>3 DEF O!Next
  <2>3. CASE main' = [main EXCEPT !.at = "tail"] /\ UNCHANGED result
    <3>1. main'.at = "tail"
      BY <1>t, <2>3 DEF MainType
    <3> QED
      BY <2>1, <2>3, <3>1, Stutters DEF Running
  <2> QED
    BY <1>10, <2>2, <2>3 DEF AllWaiting
<1>11. CASE Flush
  <2>0. UNCHANGED <<chunks, read, written>>
    BY <1>11 DEF Flush, data
  <2>1. CASE main.at = "tail" /\ Return(OK) /\ UNCHANGED fault
    <3>1. main'.at = "idle" /\ result' = OK
      BY <1>t, <2>1, ToIdle
    <3>2. fault = OK /\ written = chunks
      BY <2>1 DEF IInv, Outcome
    <3>3. O!ReturnOk
      BY <2>0, <2>1, <3>1, <3>2 DEF O!ReturnOk, Running
    <3> QED
      BY <3>3 DEF O!Next
  <2>2. CASE /\ main.at = "tail" /\ Fails("flush") /\ UNCHANGED result
            /\ main' = [main EXCEPT !.at = "flushFailed"]
    <3>1. main'.at = "flushFailed"
      BY <1>t, <2>2 DEF MainType
    <3>2. fault' # OK
      BY <2>2 DEF Fails, OK
    <3> QED
      BY <2>0, <2>2, <3>1, <3>2, Failing DEF Running
  <2>3. CASE main.at = "flushFailed" /\ Return("flush") /\ UNCHANGED fault
    <3>1. main'.at = "idle" /\ result' = "flush"
      BY <1>t, <2>3, ToIdle
    <3>2. fault # OK
      BY <2>3 DEF IInv, Outcome
    <3>3. O!ReturnError
      BY <2>0, <2>3, <3>1, <3>2, AnyFault DEF O!ReturnError, Running, SomeFault, FaultKinds
    <3> QED
      BY <3>3 DEF O!Next
  <2> QED
    BY <1>11, <2>1, <2>2, <2>3 DEF Flush
<1>12. CASE UNCHANGED vars
  BY <1>12, Stutters DEF vars, data, Running
<1> QED
  BY <1>1, <1>2, <1>3, <1>4, <1>5, <1>6, <1>7, <1>8, <1>9, <1>10, <1>11, <1>12
  DEF Next, Inside, ThreadFunc, Destroyed

\* CEncoder::Code with several threads reads and writes the blocks as the abstract coder
\* does: in order, each once, at most NumThreads in flight, S_OK only with everything written.
THEOREM Refinement == Spec => ImplementsOrderedCoder
<1>1. IInv /\ [Next]_vars => [O!Next]_O!vars
  BY RefinedStep
<1>2. Init => O!Init
  BY RefinedInit
<1> QED
  BY <1>1, <1>2, Invariant, PTL DEF Spec, O!Spec, ImplementsOrderedCoder
=================================================================================
