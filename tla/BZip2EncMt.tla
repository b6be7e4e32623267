------------------------------- MODULE BZip2EncMt -------------------------------
(***************************************************************************)
(* NCompress::NBZip2::CEncoder::Code with several threads                   *)
(* (CPP/7zip/Compress/BZip2Encoder.cpp).                                    *)
(*                                                                          *)
(* Each thread takes the next block of the input inside a critical section, *)
(* encodes it, waits for its turn and writes it to the common bit stream.   *)
(* The turn goes around the events CanWriteEvent, which belong to the block *)
(* numbers modulo NumThreads and not to the threads.  At the end of the     *)
(* input, or after an error, every thread meets the main thread twice: all  *)
(* have finished the stream, then all wait for the next one.                *)
(*                                                                          *)
(* Nothing waits inside the critical section, so what is done in it is one  *)
(* step here.                                                               *)
(***************************************************************************)
EXTENDS Integers

CONSTANTS
  NumThreads,  \* NumThreads, at least 2: MtMode
  Lengths,     \* the lengths of the inputs, in blocks
  MaxCalls,    \* bound: calls of Code on one encoder
  Faults       \* the operations that may fail

FaultKinds == {"create", "alloc", "read", "write", "progress", "flush"}

ASSUME BZip2EncAssumption ==
  /\ NumThreads \in Nat /\ NumThreads >= 2
  /\ Lengths \subseteq Nat /\ MaxCalls \in Nat /\ Faults \subseteq FaultKinds

Threads == 0 .. NumThreads - 1
OK == "S_OK"

VARIABLES
  \* CThreadInfo: its events, where its thread is, m_BlockIndex, and its block
  StreamWasFinishedEvent, WaitingWasStartedEvent, CanWriteEvent, pc, m_BlockIndex, block,
  \* CEncoder
  NextBlockIndex, StreamWasFinished, CloseThreads, CanProcessEvent, CanStartWaitingEvent, Result,
  main,            \* where the thread that calls Code is, the thread it is at, its calls
  result,          \* what the last call returned
  chunks, read, written,   \* the input, and what of it was read and written, in blocks
  fault            \* history: an operation that failed in this call, "write" before others

events == <<StreamWasFinishedEvent, WaitingWasStartedEvent, CanWriteEvent>>
local == <<pc, m_BlockIndex, block>>
barrier == <<CloseThreads, CanProcessEvent, CanStartWaitingEvent>>
data == <<chunks, read, written>>
vars == <<events, local, NextBlockIndex, StreamWasFinished, barrier, Result, main, result,
          data, fault>>

Init ==
  /\ StreamWasFinishedEvent = [t \in Threads |-> FALSE]
  /\ WaitingWasStartedEvent = [t \in Threads |-> FALSE]
  /\ CanWriteEvent = [t \in Threads |-> FALSE]
  /\ pc = [t \in Threads |-> "none"]
  /\ m_BlockIndex = [t \in Threads |-> 0] /\ block = [t \in Threads |-> 0]
  /\ NextBlockIndex = 0 /\ StreamWasFinished = FALSE /\ CloseThreads = FALSE
  /\ CanProcessEvent = FALSE /\ CanStartWaitingEvent = FALSE /\ Result = OK
  /\ main = [at |-> "idle", t |-> 0, calls |-> 0] /\ result = OK
  /\ chunks = 0 /\ read = 0 /\ written = 0 /\ fault = OK

Goto(t, label) == pc' = [pc EXCEPT ![t] = label]
Set(event, t) == [event EXCEPT ![t] = TRUE]
Reset(event, t) == [event EXCEPT ![t] = FALSE]
NextIndex(i) == (i + 1) % NumThreads
Fails(kind) == kind \in Faults /\ fault' = IF fault = OK \/ kind = "write" THEN kind ELSE fault

-------------------------------------------------------------------------------
(* CThreadInfo::ThreadFunc.                                                 *)

Process(t) ==
  /\ pc[t] = "process" /\ CanProcessEvent
  /\ Goto(t, "enter")
  /\ UNCHANGED <<events, m_BlockIndex, block, NextBlockIndex, StreamWasFinished, barrier,
                 Result, main, result, data, fault>>

Close(t) ==
  /\ pc[t] = "enter" /\ CloseThreads
  /\ Goto(t, "ended")
  /\ UNCHANGED <<events, m_BlockIndex, block, NextBlockIndex, StreamWasFinished, barrier,
                 Result, main, result, data, fault>>

\* The start of FinishStream, and the wait that follows it.
FinishStream(t) ==
  /\ StreamWasFinished' = TRUE
  /\ StreamWasFinishedEvent' = Set(StreamWasFinishedEvent, t)
  /\ Goto(t, "finish")
  /\ UNCHANGED <<WaitingWasStartedEvent, CanWriteEvent>>

SeeFinished(t) ==
  /\ pc[t] = "enter" /\ ~CloseThreads /\ StreamWasFinished
  /\ FinishStream(t)
  /\ UNCHANGED <<m_BlockIndex, block, NextBlockIndex, barrier, Result, main, result, data, fault>>

\* ReadRleBlock, and the number of the block.
MayRead(t) == pc[t] = "enter" /\ ~CloseThreads /\ ~StreamWasFinished
ReadRleBlock(t) ==
  /\ MayRead(t) /\ read < chunks
  /\ read' = read + 1
  /\ block' = [block EXCEPT ![t] = read + 1]
  /\ m_BlockIndex' = [m_BlockIndex EXCEPT ![t] = NextBlockIndex]
  /\ NextBlockIndex' = NextIndex(NextBlockIndex)
  /\ Goto(t, "encode")
  /\ UNCHANGED <<events, StreamWasFinished, barrier, Result, main, result, chunks, written, fault>>

ReadEnd(t) ==
  /\ MayRead(t) /\ read = chunks
  /\ m_BlockIndex' = [m_BlockIndex EXCEPT ![t] = NextBlockIndex]
  /\ NextBlockIndex' = NextIndex(NextBlockIndex)
  /\ FinishStream(t)
  /\ UNCHANGED <<block, barrier, Result, main, result, data, fault>>

\* CInBufferException, in the critical section.
ReadFails(t) ==
  /\ MayRead(t) /\ Fails("read")
  /\ Result' = "read"
  /\ FinishStream(t)
  /\ UNCHANGED <<m_BlockIndex, block, NextBlockIndex, barrier, main, result, data>>

\* EncodeBlock3: the block is encoded, and it is its turn.
TakeTurn(t) ==
  /\ pc[t] = "encode" /\ CanWriteEvent[m_BlockIndex[t]]
  /\ CanWriteEvent' = Reset(CanWriteEvent, m_BlockIndex[t])
  /\ Goto(t, "write")
  /\ UNCHANGED <<StreamWasFinishedEvent, WaitingWasStartedEvent, m_BlockIndex, block,
                 NextBlockIndex, StreamWasFinished, barrier, Result, main, result, data, fault>>

WriteBytes(t) ==
  /\ pc[t] = "write"
  /\ written' = block[t]
  /\ Goto(t, "pass")
  /\ UNCHANGED <<events, m_BlockIndex, block, NextBlockIndex, StreamWasFinished, barrier,
                 Result, main, result, chunks, read, fault>>

\* Progress, and the turn goes on, whatever it says.
PassTurn_Lost(t) == CanWriteEvent                            \* mutant: the turn is kept
PassTurn_Thread(t) == Set(CanWriteEvent, NextIndex(t))        \* mutant: the thread's event
PassTurn(t) == Set(CanWriteEvent, NextIndex(m_BlockIndex[t]))
Pass(t) ==
  /\ pc[t] = "pass"
  /\ CanWriteEvent' = PassTurn(t)
  /\ \/ Goto(t, "process") /\ UNCHANGED fault
     \/ Goto(t, "progress") /\ Fails("progress")
  /\ UNCHANGED <<StreamWasFinishedEvent, WaitingWasStartedEvent, m_BlockIndex, block,
                 NextBlockIndex, StreamWasFinished, barrier, Result, main, result, data>>

\* COutBufferException goes past the event of the next block.
WriteFails(t) ==
  /\ pc[t] = "write" /\ Fails("write")
  /\ Goto(t, "writeFailed")
  /\ UNCHANGED <<events, m_BlockIndex, block, NextBlockIndex, StreamWasFinished, barrier,
                 Result, main, result, data>>

\* An error outside the critical section.
Failed(t) ==
  /\ pc[t] \in {"progress", "writeFailed"}
  /\ Result' = IF pc[t] = "progress" THEN "progress" ELSE "write"
  /\ FinishStream(t)
  /\ UNCHANGED <<m_BlockIndex, block, NextBlockIndex, barrier, main, result, data, fault>>

\* The end of FinishStream.
StartWaiting(t) ==
  /\ pc[t] = "finish" /\ CanStartWaitingEvent
  /\ WaitingWasStartedEvent' = Set(WaitingWasStartedEvent, t)
  /\ Goto(t, "process")
  /\ UNCHANGED <<StreamWasFinishedEvent, CanWriteEvent, m_BlockIndex, block, NextBlockIndex,
                 StreamWasFinished, barrier, Result, main, result, data, fault>>

ThreadFunc(t) ==
  \/ Process(t) \/ Close(t) \/ SeeFinished(t) \/ ReadRleBlock(t) \/ ReadEnd(t) \/ ReadFails(t)
  \/ TakeTurn(t) \/ WriteBytes(t) \/ Pass(t) \/ WriteFails(t) \/ Failed(t) \/ StartWaiting(t)

-------------------------------------------------------------------------------
(* CEncoder::CodeReal and ~CEncoder.                                        *)

\* Create, and what is reset before the threads may process.  The encoder is not used
\* again when its threads could not be created.
BeginCall ==
  /\ main.at = "idle" /\ main.calls < MaxCalls /\ result # "create"
  /\ main' = [at |-> "create", t |-> 0, calls |-> main.calls + 1]
  /\ chunks' \in Lengths /\ read' = 0 /\ written' = 0 /\ fault' = OK
  /\ CanProcessEvent' = FALSE /\ CanStartWaitingEvent' = FALSE
  /\ UNCHANGED <<events, local, NextBlockIndex, StreamWasFinished, CloseThreads, Result, result>>

Create ==
  /\ main.at = "create"
  /\ LET old == \A t \in Threads : pc[t] # "none" IN
     \/ /\ pc' = [t \in Threads |-> IF old THEN pc[t] ELSE "process"]
        /\ main' = [main EXCEPT !.at = "start"]
        /\ UNCHANGED <<CloseThreads, CanProcessEvent, fault>>
     \/ /\ ~old /\ Fails("create")
        /\ \E n \in Threads : pc' = [t \in Threads |-> IF t < n THEN "process" ELSE "none"]
        /\ CloseThreads' = TRUE /\ CanProcessEvent' = TRUE
        /\ main' = [main EXCEPT !.at = "free"]
  /\ UNCHANGED <<events, m_BlockIndex, block, NextBlockIndex, StreamWasFinished,
                 CanStartWaitingEvent, Result, result, data>>

None == [t \in Threads |-> FALSE]
Start ==
  /\ main.at = "start"
  /\ StreamWasFinishedEvent' = None /\ WaitingWasStartedEvent' = None
  /\ CanWriteEvent' = Set(None, 0)
  /\ NextBlockIndex' = 0 /\ StreamWasFinished' = FALSE /\ CloseThreads' = FALSE
  /\ Result' = OK /\ CanProcessEvent' = TRUE /\ CanStartWaitingEvent' = FALSE
  /\ main' = [main EXCEPT !.at = "waitFinished", !.t = 0]
  /\ UNCHANGED <<local, result, data, fault>>

Return(r) == main' = [main EXCEPT !.at = "idle", !.t = 0] /\ result' = r

AllocFails ==
  /\ main.at = "start" /\ "alloc" \in Faults
  /\ Return("alloc")
  /\ UNCHANGED <<events, local, NextBlockIndex, StreamWasFinished, barrier, Result, data, fault>>

WaitFinished ==
  /\ main.at = "waitFinished" /\ main.t < NumThreads /\ StreamWasFinishedEvent[main.t]
  /\ StreamWasFinishedEvent' = Reset(StreamWasFinishedEvent, main.t)
  /\ main' = [main EXCEPT !.t = @ + 1]
  /\ UNCHANGED <<WaitingWasStartedEvent, CanWriteEvent, local, NextBlockIndex,
                 StreamWasFinished, barrier, Result, result, data, fault>>

AllFinished ==
  /\ main.at = "waitFinished" /\ main.t = NumThreads
  /\ CanProcessEvent' = FALSE /\ CanStartWaitingEvent' = TRUE
  /\ main' = [main EXCEPT !.at = "waitWaiting", !.t = 0]
  /\ UNCHANGED <<events, local, NextBlockIndex, StreamWasFinished, CloseThreads, Result,
                 result, data, fault>>

WaitWaiting ==
  /\ main.at = "waitWaiting" /\ main.t < NumThreads /\ WaitingWasStartedEvent[main.t]
  /\ WaitingWasStartedEvent' = Reset(WaitingWasStartedEvent, main.t)
  /\ main' = [main EXCEPT !.t = @ + 1]
  /\ UNCHANGED <<StreamWasFinishedEvent, CanWriteEvent, local, NextBlockIndex,
                 StreamWasFinished, barrier, Result, result, data, fault>>

AllWaiting ==
  /\ main.at = "waitWaiting" /\ main.t = NumThreads
  /\ CanStartWaitingEvent' = FALSE
  /\ \/ Result # OK /\ Return(Result)
     \/ Result = OK /\ main' = [main EXCEPT !.at = "tail"] /\ UNCHANGED result
  /\ UNCHANGED <<events, local, NextBlockIndex, StreamWasFinished, CloseThreads,
                 CanProcessEvent, Result, data, fault>>

\* The end of the stream, with the combined CRC, is written and flushed.
Flush ==
  /\ \/ main.at = "tail" /\ Return(OK) /\ UNCHANGED fault
     \/ /\ main.at = "tail" /\ Fails("flush")
        /\ main' = [main EXCEPT !.at = "flushFailed"] /\ UNCHANGED result
     \/ main.at = "flushFailed" /\ Return("flush") /\ UNCHANGED fault
  /\ UNCHANGED <<events, local, NextBlockIndex, StreamWasFinished, barrier, Result, data>>

\* CEncoder::Free, after the creation has failed or in the destructor.
Destroy ==
  /\ main.at = "idle"
  /\ CloseThreads' = TRUE /\ CanProcessEvent' = TRUE
  /\ main' = [main EXCEPT !.at = "destroy", !.t = 0]
  /\ UNCHANGED <<events, local, NextBlockIndex, StreamWasFinished, CanStartWaitingEvent,
                 Result, result, data, fault>>

Wait_Close ==
  /\ main.at \in {"free", "destroy"} /\ main.t < NumThreads
  /\ pc[main.t] \in {"none", "ended"}
  /\ main' = [main EXCEPT !.t = @ + 1]
  /\ UNCHANGED <<events, local, NextBlockIndex, StreamWasFinished, barrier, Result, result,
                 data, fault>>

Freed ==
  /\ main.at = "free" /\ main.t = NumThreads
  /\ pc' = [t \in Threads |-> "none"]
  /\ Return("create")
  /\ UNCHANGED <<events, m_BlockIndex, block, NextBlockIndex, StreamWasFinished, barrier,
                 Result, data, fault>>

Destroyed == main.at = "destroy" /\ main.t = NumThreads /\ UNCHANGED vars

Inside ==
  \/ Create \/ Start \/ AllocFails \/ WaitFinished \/ AllFinished \/ WaitWaiting \/ AllWaiting
  \/ Flush \/ Wait_Close \/ Freed

Next == BeginCall \/ Destroy \/ Inside \/ Destroyed \/ \E t \in Threads : ThreadFunc(t)

\* Threads run, and a call that has begun goes on.
Spec ==
  /\ Init /\ [][Next]_vars
  /\ WF_vars(Inside) /\ \A t \in Threads : WF_vars(ThreadFunc(t))
-------------------------------------------------------------------------------
(* Properties.                                                              *)

Places == {"none", "process", "enter", "encode", "write", "pass", "progress", "writeFailed",
           "finish", "ended"}
TypeOK ==
  /\ pc \in [Threads -> Places]
  /\ m_BlockIndex \in [Threads -> Threads] /\ NextBlockIndex \in Threads
  /\ \A t \in Threads : block[t] \in Nat
  /\ StreamWasFinishedEvent \in [Threads -> BOOLEAN]
  /\ WaitingWasStartedEvent \in [Threads -> BOOLEAN]
  /\ CanWriteEvent \in [Threads -> BOOLEAN]
  /\ {StreamWasFinished, CloseThreads, CanProcessEvent, CanStartWaitingEvent} \subseteq BOOLEAN
  /\ {Result, result, fault} \subseteq {OK} \cup FaultKinds
  /\ main.t \in 0 .. NumThreads /\ main.calls \in 0 .. MaxCalls
  /\ written <= read /\ read <= chunks

Running == main.at \notin {"idle", "destroy"}

\* Which operation failed does not matter there.
SomeFault == CHOOSE kind \in FaultKinds : TRUE

\* The coder of module OrderedCoder, with one block in the hands of each thread.
O == INSTANCE OrderedCoder WITH
  inFlight <- NumThreads,
  Errors   <- FaultKinds,
  Ok       <- OK,
  running  <- Running,
  fault    <- IF fault = OK THEN OK ELSE SomeFault

\* Blocks are read and written once and in the order of the input, whichever threads have
\* them, call after call; Code returns S_OK only with all of them written, and an error
\* only after one.
ImplementsOrderedCoder == O!Spec

\* Code returns, unless a write of a block has failed: no thread waits for a turn that
\* nobody passes, and nobody is left behind at the barrier between two calls.
ReturnsUnlessWriteFails == Running ~> (~Running \/ fault = "write")

\* Code returns, also with the error code it gets from the output stream.
CallsReturn == Running ~> ~Running
===============================================================================
