-------------------------------- MODULE MtCoder -------------------------------
(***************************************************************************)
(* CMtCoder (C/MtCoder.h, C/MtCoder.c), the block-parallel encoder behind   *)
(* the LZMA2 and xz encoders, in the configuration the repository builds    *)
(* (MTCODER_USE_WRITE_THREAD not defined): any coder thread reads the next  *)
(* block under the readEvent token, encodes it into a free output buffer,   *)
(* and whoever finishes the block whose turn it is to be written writes it  *)
(* and every ready block after it.  A thread that has read a block and not  *)
(* the last one starts the next thread.                                     *)
(*                                                                          *)
(* The input is a number of chunks (the reads of blockSize bytes; the last  *)
(* one is the short read, or the end of inData).  An output buffer holds    *)
(* the number of the chunk that was encoded into it.  The steps are the     *)
(* accesses to what threads share: a wait, a set, a release, a critical     *)
(* section, a callback.                                                     *)
(***************************************************************************)
EXTENDS Integers, Sequences, FiniteSets, SequencesExt

CONSTANTS
  MaxThreads,  \* MTCODER_THREADS_MAX: length of threads
  MaxBlocks,   \* MTCODER_BLOCKS_MAX: length of blocks and freeBlockList
  Plans        \* bound: the sequences of calls of MtCoder_Code that a caller makes

\* MTCODER_GET_NUM_BLOCKS_FROM_THREADS, and up to 3 more blocks when they are small.
NumBlocksFromThreads(n) == n + n \div 8 + 1

\* A call: numThreadsMax, numBlocksMax, the length of its input in chunks, and the
\* operations that may fail in it.
Calls ==
  {c \in [numThreads : 1 .. MaxThreads, numBlocks : 1 .. MaxBlocks, chunks : Nat \ {0},
          faults : SUBSET {"read", "code", "write", "create"}] :
     c.numBlocks \in NumBlocksFromThreads(c.numThreads) .. NumBlocksFromThreads(c.numThreads) + 3}

ASSUME CoderAssumption ==
  /\ MaxThreads \in Nat \ {0} /\ MaxBlocks \in Nat
  /\ \A p \in Plans : Len(p) > 0 /\ \A i \in 1 .. Len(p) : p[i] \in Calls

Threads == 0 .. MaxThreads - 1
Blocks == 0 .. MaxBlocks - 1     \* also the output buffers
None == -1                       \* (unsigned)(int)-1

\* SRes: SZ_OK, or the operation whose error it is.
OK == "ok"
SResults == {OK, "read", "code", "write", "create"}

VARIABLES
  \* the caller's thread, in MtCoder_Code and MtCoder_Free
  mpc, mi, mres, plan, session, chunks, expected,
  \* CMtCoder
  numStartedThreadsLimit, numBlocksMax,
  readEvent, blocksSemaphore, stopReading, readRes, finishedEvent, writeRes,
  writeIndex, ReadyBlocks, numFinishedThreads, numStartedThreads, blockIndex,
  readProcessed, freeBlocks, mtRes, blocks,
  \* CMtCoderThread and the local variables of ThreadFunc2
  created, stop, startEvent, pc, loc,
  \* the callbacks: the chunk in each output buffer, and the last chunk written
  content, written

call == <<plan, session, chunks, expected, numStartedThreadsLimit, numBlocksMax>>
main == <<mpc, mi, mres, call>>
read == <<readEvent, stopReading, readRes, blockIndex, readProcessed>>
write == <<writeRes, writeIndex, ReadyBlocks, blocks>>
start == <<created, stop, startEvent, numStartedThreads>>
finish == <<finishedEvent, numFinishedThreads>>
output == <<content, written>>
vars == <<main, read, write, start, finish, output, blocksSemaphore, freeBlocks, mtRes, pc, loc>>

\* MtProgress_SetError: the first error stays.
SetError(res) == mtRes' = IF mtRes = OK THEN res ELSE mtRes

Goto(t, label) == pc' = [pc EXCEPT ![t] = label]

\* The ring of blocks[].
NextBlock(b) == IF b + 1 >= numBlocksMax THEN 0 ELSE b + 1

InitLoc == [chunk |-> 0, res |-> OK, finished |-> FALSE, bi |-> 0, bufIndex |-> None,
            isReady |-> FALSE, numFinished |-> 0]

-------------------------------------------------------------------------------
(* MtCoder_Construct, then the calls of MtCoder_Code by the caller.         *)

Init ==
  /\ mpc = "idle" /\ mi = 0 /\ mres = OK /\ plan \in Plans /\ session = 0
  /\ chunks = 0 /\ expected = 0 /\ numStartedThreadsLimit = 0 /\ numBlocksMax = 0
  /\ readEvent = FALSE /\ stopReading = FALSE /\ readRes = OK
  /\ blockIndex = 0 /\ readProcessed = 0
  /\ writeRes = OK /\ writeIndex = 0 /\ ReadyBlocks = [b \in Blocks |-> FALSE]
  /\ blocks = [b \in Blocks |-> [res |-> OK, bufIndex |-> None, finished |-> FALSE]]
  /\ created = [t \in Threads |-> FALSE]
  /\ stop = [t \in Threads |-> FALSE]
  /\ startEvent = [t \in Threads |-> FALSE]
  /\ numStartedThreads = 0
  /\ finishedEvent = FALSE /\ numFinishedThreads = 0
  /\ blocksSemaphore = 0 /\ freeBlocks = <<>> /\ mtRes = OK
  /\ pc = [t \in Threads |-> "exited"]
  /\ loc = [t \in Threads |-> InitLoc]
  /\ content = [b \in Blocks |-> 0] /\ written = 0

ErrorsReset == readRes' = OK /\ mtRes' = OK

ReadReset_KeepStop == readProcessed' = 0 /\ blockIndex' = 0 /\ UNCHANGED stopReading   \* mutant
ReadReset == readProcessed' = 0 /\ blockIndex' = 0 /\ stopReading' = FALSE

\* What may fail in the call that is in progress.
Faults == plan[IF session > Len(plan) THEN Len(plan) ELSE session].faults

\* Everything up to numStartedThreads = 0; the expectedDataSize of the caller is
\* reached after `expected' chunks (0: never).
MtCoder_Code ==
  /\ mpc = "idle"
  /\ session < Len(plan)
  /\ session' = session + 1
  /\ chunks' = plan[session'].chunks /\ expected' \in 0 .. chunks'
  /\ numStartedThreadsLimit' = plan[session'].numThreads
  /\ numBlocksMax' = plan[session'].numBlocks
  /\ ErrorsReset
  /\ finishedEvent' = FALSE
  /\ readEvent' = FALSE
  /\ blocksSemaphore' = numBlocksMax'
  /\ freeBlocks' = [i \in 1 .. MaxBlocks |-> i - 1]
  /\ ReadReset
  /\ writeIndex' = 0 /\ writeRes' = OK
  /\ ReadyBlocks' = [b \in Blocks |-> FALSE]
  /\ numFinishedThreads' = 0 /\ numStartedThreads' = 0
  /\ written' = 0
  /\ mpc' = "start"
  /\ UNCHANGED <<mi, mres, plan, blocks, created, stop, startEvent, pc, loc, content>>

\* MtCoderThread_CreateAndStart: the thread is created once and then waits for
\* startEvent between the calls.
CreateAndStart(t) ==
  /\ startEvent' = [startEvent EXCEPT ![t] = TRUE]
  /\ stop' = [stop EXCEPT ![t] = FALSE]
  /\ created' = [created EXCEPT ![t] = TRUE]

\* Thread_Create fails; the event was reset.
CreateFails(t) ==
  /\ "create" \in Faults
  /\ ~created[t]
  /\ startEvent' = [startEvent EXCEPT ![t] = FALSE]
  /\ stop' = [stop EXCEPT ![t] = FALSE]
  /\ UNCHANGED created

StartFirst ==
  /\ mpc = "start"
  /\ numStartedThreads' = 1
  /\ \/ /\ CreateAndStart(0)
        /\ pc' = IF created[0] THEN pc ELSE [pc EXCEPT ![0] = "start"]
        /\ mpc' = "go"
        /\ UNCHANGED mres
     \/ /\ CreateFails(0)
        /\ mpc' = "idle"
        /\ mres' = "create"
        /\ UNCHANGED pc
  /\ UNCHANGED <<mi, call, read, write, finish, output,
                 blocksSemaphore, freeBlocks, mtRes, loc>>

Go ==
  /\ mpc = "go"
  /\ readEvent' = TRUE
  /\ mpc' = "wait"
  /\ UNCHANGED <<mi, mres, call, stopReading, readRes, blockIndex,
                 readProcessed, write, start, finish, output, blocksSemaphore,
                 freeBlocks, mtRes, pc, loc>>

FirstError_NoProgress(a, b, c) == IF a # OK THEN a ELSE c   \* mutant: mtProgress.res is ignored
FirstError(a, b, c) == IF a # OK THEN a ELSE IF b # OK THEN b ELSE c

\* Event_Wait(&p->finishedEvent), and the result of the call.
WaitFinished ==
  /\ mpc = "wait"
  /\ finishedEvent
  /\ finishedEvent' = FALSE
  /\ mres' = FirstError(readRes, mtRes, writeRes)
  /\ mpc' = IF mres' = OK THEN "idle" ELSE "free"
  /\ mi' = 0
  /\ UNCHANGED <<call, numFinishedThreads, read, write, start, output,
                 blocksSemaphore, freeBlocks, mtRes, pc, loc>>

\* MtCoder_Destruct
Destruct ==
  /\ mpc = "idle"
  /\ session = Len(plan)
  /\ mpc' = "free"
  /\ mi' = 0
  /\ session' = session + 1
  /\ UNCHANGED <<mres, plan, chunks, expected, numStartedThreadsLimit, numBlocksMax, read, write, start, finish, output,
                 blocksSemaphore, freeBlocks, mtRes, pc, loc>>

\* Event_Set(&t->startEvent)
Wake(t) == startEvent' = [startEvent EXCEPT ![t] = TRUE]

\* MtCoder_Free: MtCoderThread_Destruct of each thread that was created.
FreeThread ==
  /\ mpc = "free"
  /\ mi < MaxThreads
  /\ IF created[mi]
     THEN /\ stop' = [stop EXCEPT ![mi] = TRUE]
          /\ Wake(mi)
          /\ mpc' = "join"
          /\ UNCHANGED mi
     ELSE /\ mi' = mi + 1
          /\ UNCHANGED <<stop, startEvent, mpc>>
  /\ UNCHANGED <<mres, call, created, numStartedThreads, read, write,
                 finish, output, blocksSemaphore, freeBlocks, mtRes, pc, loc>>

\* Thread_Wait_Close, Event_Close(&t->startEvent)
JoinThread ==
  /\ mpc = "join"
  /\ pc[mi] = "exited"
  /\ created' = [created EXCEPT ![mi] = FALSE]
  /\ startEvent' = [startEvent EXCEPT ![mi] = FALSE]
  /\ mi' = mi + 1
  /\ mpc' = "free"
  /\ UNCHANGED <<mres, call, stop, numStartedThreads, read, write,
                 finish, output, blocksSemaphore, freeBlocks, mtRes, pc, loc>>

FreeDone ==
  /\ mpc = "free"
  /\ mi = MaxThreads
  /\ mpc' = IF session > Len(plan) THEN "destroyed" ELSE "idle"
  /\ mi' = 0
  /\ UNCHANGED <<mres, call, read, write, start, finish, output,
                 blocksSemaphore, freeBlocks, mtRes, pc, loc>>

-------------------------------------------------------------------------------
(* ThreadFunc: what a coder thread does around ThreadFunc2.                 *)

WaitStart(t) ==
  /\ pc[t] = "start"
  /\ startEvent[t]
  /\ startEvent' = [startEvent EXCEPT ![t] = FALSE]
  /\ Goto(t, IF stop[t] THEN "exited" ELSE "getRead")
  /\ UNCHANGED <<main, read, write, created, stop, numStartedThreads, finish, output,
                 blocksSemaphore, freeBlocks, mtRes, loc>>

\* InterlockedIncrement(&mtc->numFinishedThreads)
CountFinished(t) ==
  /\ pc[t] = "countFinished"
  /\ numFinishedThreads' = numFinishedThreads + 1
  /\ loc' = [loc EXCEPT ![t].numFinished = numFinishedThreads + 1]
  /\ Goto(t, "compare")
  /\ UNCHANGED <<main, read, write, start, finishedEvent, output, blocksSemaphore,
                 freeBlocks, mtRes>>

AllFinished_Early(n) == n >= numStartedThreads - 1          \* mutant: off by one
AllFinished(n) == n = numStartedThreads

\* if (numFinished == mtc->numStartedThreads) Event_Set(&mtc->finishedEvent)
CompareFinished(t) ==
  /\ pc[t] = "compare"
  /\ finishedEvent' = (finishedEvent \/ AllFinished(loc[t].numFinished))
  /\ Goto(t, "start")
  /\ loc' = [loc EXCEPT ![t] = InitLoc]
  /\ UNCHANGED <<main, read, write, start, numFinishedThreads, output, blocksSemaphore,
                 freeBlocks, mtRes>>

-------------------------------------------------------------------------------
(* ThreadFunc2: one block.  The thread that took readEvent reads.           *)

TakeRead == readEvent /\ readEvent' = FALSE

WaitRead(t) ==
  /\ pc[t] = "getRead"
  /\ TakeRead
  /\ IF stopReading
     THEN Goto(t, "passStop") /\ UNCHANGED loc
     ELSE /\ loc' = [loc EXCEPT ![t] = [InitLoc EXCEPT !.res = mtRes, !.finished = TRUE]]
          /\ Goto(t, IF mtRes = OK THEN "read" ELSE "getBlock")
  /\ UNCHANGED <<main, stopReading, readRes, blockIndex, readProcessed, write, start,
                 finish, output, blocksSemaphore, freeBlocks, mtRes>>

\* Event_Set(&mtc->readEvent)
GiveRead_Lost == UNCHANGED readEvent                        \* mutant: the next reader is not woken
GiveRead == readEvent' = TRUE

\* The next thread must see stopReading too.
PassStop(t) ==
  /\ pc[t] = "passStop"
  /\ GiveRead
  /\ Goto(t, "countFinished")
  /\ UNCHANGED <<main, stopReading, readRes, blockIndex, readProcessed, write, start,
                 finish, output, blocksSemaphore, freeBlocks, mtRes, loc>>

\* SeqInStream_ReadMax, or the next part of inData.
ReadBlock(t) ==
  /\ pc[t] = "read"
  /\ readProcessed' = readProcessed + 1
  /\ loc' = [loc EXCEPT ![t].chunk = readProcessed + 1,
                        ![t].finished = (readProcessed + 1 = chunks)]
  /\ Goto(t, "getBlock")
  /\ UNCHANGED <<main, readEvent, stopReading, readRes, blockIndex, write, start, finish,
                 output, blocksSemaphore, freeBlocks, mtRes>>

\* A read error, or no memory for inBuf.
ReadFails(t) ==
  /\ pc[t] = "read"
  /\ "read" \in Faults
  /\ readRes' = "read"
  /\ SetError("read")
  /\ loc' = [loc EXCEPT ![t].res = "read"]
  /\ Goto(t, "getBlock")
  /\ UNCHANGED <<main, readEvent, stopReading, blockIndex, readProcessed, write, start,
                 finish, output, blocksSemaphore, freeBlocks>>

\* Semaphore_Wait(&mtc->blocksSemaphore), still holding the readEvent token.
GetBlock(t) ==
  /\ pc[t] = "getBlock"
  /\ blocksSemaphore > 0
  /\ blocksSemaphore' = blocksSemaphore - 1
  /\ loc' = [loc EXCEPT ![t].bi = blockIndex, ![t].bufIndex = None]
  /\ blockIndex' = NextBlock(blockIndex)
  /\ Goto(t, "startNext")
  /\ UNCHANGED <<main, readEvent, stopReading, readRes, readProcessed, write, start, finish,
                 output, freeBlocks, mtRes>>

CountStarted(n) == numStartedThreads' = n + 1

\* res and finished after MtProgress_GetError(); the next thread is started.
StartNext(t) ==
  LET res == IF loc[t].res = OK THEN mtRes ELSE loc[t].res
      finished == loc[t].finished \/ res # OK
      next == numStartedThreads
      wanted == ~finished /\ next < numStartedThreadsLimit /\ loc[t].chunk # expected
  IN
  /\ pc[t] = "startNext"
  /\ \/ /\ ~wanted
        /\ loc' = [loc EXCEPT ![t].res = res, ![t].finished = finished]
        /\ stopReading' = (stopReading \/ finished)
        /\ Goto(t, "passRead")
        /\ UNCHANGED <<start, mtRes>>
     \/ /\ wanted
        /\ CreateAndStart(next)
        /\ CountStarted(next)
        /\ pc' = [pc EXCEPT ![t] = "passRead", ![next] = IF created[next] THEN @ ELSE "start"]
        /\ UNCHANGED <<loc, stopReading, mtRes>>
     \/ /\ wanted
        /\ CreateFails(next)
        /\ SetError("create")
        /\ loc' = [loc EXCEPT ![t].res = "create", ![t].finished = TRUE]
        /\ stopReading' = TRUE
        /\ Goto(t, "passRead")
        /\ UNCHANGED numStartedThreads
  /\ UNCHANGED <<main, readEvent, readRes, blockIndex, readProcessed, write, finish, output,
                 blocksSemaphore, freeBlocks>>

PassRead(t) ==
  /\ pc[t] = "passRead"
  /\ GiveRead
  /\ Goto(t, IF loc[t].res = OK THEN "getBuf" ELSE "publish")
  /\ UNCHANGED <<main, stopReading, readRes, blockIndex, readProcessed, write, start,
                 finish, output, blocksSemaphore, freeBlocks, mtRes, loc>>

-------------------------------------------------------------------------------
(* Encoding the block.                                                      *)

PopFree == freeBlocks' = IF freeBlocks = <<>> THEN <<>> ELSE Tail(freeBlocks)

\* The head of freeBlockList; at its end the code would index the list with -1.
GetBuf(t) ==
  /\ pc[t] = "getBuf"
  /\ loc' = [loc EXCEPT ![t].bufIndex = IF freeBlocks = <<>> THEN None ELSE Head(freeBlocks)]
  /\ PopFree
  /\ Goto(t, "code")
  /\ UNCHANGED <<main, read, write, start, finish, output, blocksSemaphore, mtRes>>

\* mtCallback->Code
Code(t) ==
  /\ pc[t] = "code"
  /\ content' = [content EXCEPT ![loc[t].bufIndex] = loc[t].chunk]
  /\ Goto(t, "publish")
  /\ UNCHANGED <<main, read, write, start, finish, written, blocksSemaphore, freeBlocks,
                 mtRes, loc>>

\* The coder fails, or its progress callback reports an error some thread set.
CodeFails(t) ==
  /\ pc[t] = "code"
  /\ \E res \in SResults \ {OK} :
       /\ res = mtRes \/ (res = "code" /\ "code" \in Faults)
       /\ SetError(res)
       /\ loc' = [loc EXCEPT ![t].res = res]
  /\ content' = [content EXCEPT ![loc[t].bufIndex] = 0]
  /\ Goto(t, "publish")
  /\ UNCHANGED <<main, read, write, start, finish, written, blocksSemaphore, freeBlocks>>

\* The end of the loop's body: its local variables are gone.
EndBlock(t) ==
  /\ Goto(t, IF loc[t].res # OK \/ loc[t].finished THEN "countFinished" ELSE "getRead")
  /\ loc' = [loc EXCEPT ![t] = InitLoc]

TakeTurn_Keep == UNCHANGED writeIndex                       \* mutant: the turn is not taken
TakeTurn == writeIndex' = None

\* The block is recorded; it is left to the writer, unless its turn has come.
Publish(t) ==
  /\ pc[t] = "publish"
  /\ blocks' = [blocks EXCEPT ![loc[t].bi] = [res |-> loc[t].res,
                                              bufIndex |-> loc[t].bufIndex,
                                              finished |-> loc[t].finished]]
  /\ IF writeIndex = loc[t].bi
     THEN /\ TakeTurn
          /\ loc' = IF writeRes # OK THEN [loc EXCEPT ![t].res = writeRes] ELSE loc
          /\ Goto(t, "write")
          /\ UNCHANGED ReadyBlocks
     ELSE /\ ReadyBlocks' = [ReadyBlocks EXCEPT ![loc[t].bi] = TRUE]
          /\ EndBlock(t)
          /\ UNCHANGED writeIndex
  /\ UNCHANGED <<main, read, writeRes, start, finish, output, blocksSemaphore, freeBlocks,
                 mtRes>>

-------------------------------------------------------------------------------
(* Writing: `bi' is the code's wi from here on.                             *)

\* mtCallback->Write, skipped after an error
Write(t) ==
  /\ pc[t] = "write"
  /\ \/ /\ loc[t].res = OK /\ loc[t].bufIndex # None
        /\ written' = content[loc[t].bufIndex]
        /\ UNCHANGED <<writeRes, mtRes, loc>>
     \/ /\ loc[t].res = OK /\ loc[t].bufIndex # None
        /\ "write" \in Faults
        /\ writeRes' = "write"
        /\ SetError("write")
        /\ loc' = [loc EXCEPT ![t].res = "write"]
        /\ UNCHANGED written
     \/ /\ loc[t].res # OK \/ loc[t].bufIndex = None
        /\ UNCHANGED <<written, writeRes, mtRes, loc>>
  /\ Goto(t, "advance")
  /\ UNCHANGED <<main, read, writeIndex, ReadyBlocks, blocks, start, finish, content,
                 blocksSemaphore, freeBlocks>>

PushFree_Leak(b) == UNCHANGED freeBlocks                    \* mutant: the buffer is not freed
PushFree(b) == freeBlocks' = IF b = None THEN freeBlocks ELSE <<b>> \o freeBlocks

TakeReadyFlag(b) == ReadyBlocks' = [ReadyBlocks EXCEPT ![b] = FALSE]

\* The critical section after a write: the buffer is freed, the turn passes.
Advance(t) ==
  LET wi == NextBlock(loc[t].bi) IN
  /\ pc[t] = "advance"
  /\ PushFree(loc[t].bufIndex)
  /\ loc' = [loc EXCEPT ![t].bi = wi, ![t].isReady = ReadyBlocks[wi]]
  /\ IF ReadyBlocks[wi]
     THEN TakeReadyFlag(wi) /\ UNCHANGED writeIndex
     ELSE writeIndex' = wi /\ UNCHANGED ReadyBlocks
  /\ Goto(t, "releaseBlock")
  /\ UNCHANGED <<main, read, writeRes, blocks, start, finish, output, blocksSemaphore, mtRes>>

\* Semaphore_Release1(&mtc->blocksSemaphore)
ReleaseBlock(t) ==
  /\ pc[t] = "releaseBlock"
  /\ blocksSemaphore' = blocksSemaphore + 1
  /\ IF loc[t].isReady
     THEN Goto(t, "takeReady") /\ UNCHANGED loc
     ELSE EndBlock(t)
  /\ UNCHANGED <<main, read, write, start, finish, output, freeBlocks, mtRes>>

\* The next ready block becomes the block to write.
TakeReady(t) ==
  LET block == blocks[loc[t].bi] IN
  /\ pc[t] = "takeReady"
  /\ loc' = [loc EXCEPT ![t].res = IF @ = OK THEN block.res ELSE @,
                        ![t].bufIndex = block.bufIndex,
                        ![t].finished = block.finished]
  /\ Goto(t, "write")
  /\ UNCHANGED <<main, read, write, start, finish, output, blocksSemaphore, freeBlocks, mtRes>>

-------------------------------------------------------------------------------

MainStep ==
  \/ MtCoder_Code \/ StartFirst \/ Go \/ WaitFinished
  \/ Destruct \/ FreeThread \/ JoinThread \/ FreeDone

ThreadStep(t) ==
  \/ WaitStart(t) \/ CountFinished(t) \/ CompareFinished(t)
  \/ WaitRead(t) \/ PassStop(t) \/ ReadBlock(t) \/ ReadFails(t) \/ GetBlock(t)
  \/ StartNext(t) \/ PassRead(t)
  \/ GetBuf(t) \/ Code(t) \/ CodeFails(t) \/ Publish(t)
  \/ Write(t) \/ Advance(t) \/ ReleaseBlock(t) \/ TakeReady(t)

Destroyed == mpc = "destroyed" /\ UNCHANGED vars

Next == MainStep \/ (\E t \in Threads : ThreadStep(t)) \/ Destroyed

Spec == Init /\ [][Next]_vars

\* The scheduler runs every thread that is not blocked, and the callbacks return; a call
\* that has begun goes on, and nothing makes the caller begin one.
FairSpec ==
  /\ Spec /\ WF_vars(mpc # "idle" /\ MainStep)
  /\ \A t \in Threads : WF_vars(ThreadStep(t))
-------------------------------------------------------------------------------
(* Properties.                                                              *)

Labels == {"exited", "start", "getRead", "passStop", "read", "getBlock", "startNext",
           "passRead", "getBuf", "code", "publish", "write", "advance", "releaseBlock",
           "takeReady", "countFinished", "compare"}

\* Type invariant of the caller, of CMtCoder, and of the threads.
TypeOK ==
  /\ mpc \in {"idle", "start", "go", "wait", "free", "join", "destroyed"}
  /\ mi \in 0 .. MaxThreads /\ mres \in SResults
  /\ plan \in Plans /\ session \in 0 .. Len(plan) + 1
  /\ chunks \in Nat /\ expected \in 0 .. chunks
  /\ numStartedThreadsLimit \in 0 .. MaxThreads /\ numBlocksMax \in 0 .. MaxBlocks
  /\ readEvent \in BOOLEAN /\ stopReading \in BOOLEAN /\ finishedEvent \in BOOLEAN
  /\ readRes \in SResults /\ writeRes \in SResults /\ mtRes \in SResults
  /\ blocksSemaphore \in 0 .. numBlocksMax
  /\ blockIndex \in Blocks /\ writeIndex \in Blocks \cup {None}
  /\ readProcessed \in Nat /\ written \in Nat
  /\ ReadyBlocks \in [Blocks -> BOOLEAN]
  /\ blocks \in [Blocks -> [res : SResults, bufIndex : Blocks \cup {None}, finished : BOOLEAN]]
  /\ numStartedThreads \in 0 .. numStartedThreadsLimit /\ numFinishedThreads \in Nat
  /\ freeBlocks \in Seq(Blocks)
  /\ created \in [Threads -> BOOLEAN] /\ stop \in [Threads -> BOOLEAN]
  /\ startEvent \in [Threads -> BOOLEAN]
  /\ pc \in [Threads -> Labels]
  /\ loc \in [Threads -> [chunk : Nat, res : SResults, finished : BOOLEAN, bi : Blocks,
                         bufIndex : Blocks \cup {None}, isReady : BOOLEAN,
                         numFinished : Nat]]
  /\ content \in [Blocks -> Nat]

At(labels) == {t \in Threads : pc[t] \in labels}

\* The blocks are written in the order they were read, whichever thread has come to
\* write: the buffer it passes to Write holds the chunk after the last one written.
\* Only when an operation has failed may chunks be missing (the turn passes over a
\* block whose Code failed, and another thread still writes the blocks after it);
\* even then no chunk is written twice or after a later one.
WritesInOrder ==
  \A t \in At({"write"}) :
    loc[t].res = OK /\ loc[t].bufIndex # None =>
      /\ content[loc[t].bufIndex] > written
      /\ mtRes = OK => content[loc[t].bufIndex] = written + 1

\* The turn to write is either in writeIndex or with exactly one thread, so no two
\* Write callbacks overlap and the turn is never lost.
OneWriter ==
  LET writers == At({"write", "advance", "takeReady"})
                   \cup {t \in At({"releaseBlock"}) : loc[t].isReady}
  IN /\ \A t, u \in writers : t = u
     /\ writeIndex = None <=> writers # {}

\* The turn to write: one thread has it, and it writes what comes next in the input.
TurnToWrite == WritesInOrder /\ OneWriter

\* The slots of blocks[] between the thread that takes one from the ring and the
\* thread that has written it: held by a thread or waiting as ready, never both,
\* never twice; and blocksSemaphore counts the others, so that it is not released
\* over its maximum and blockIndex never overtakes the writer.
SlotsExact ==
  LET holders == At({"startNext", "passRead", "getBuf", "code", "publish", "write",
                     "advance", "takeReady"})
                   \cup {t \in At({"releaseBlock"}) : loc[t].isReady}
      ready == {b \in Blocks : ReadyBlocks[b]}
      releasing == At({"releaseBlock"})
      inUse == {loc[t].bi : t \in holders} \cup ready
  IN mpc # "idle" /\ session > 0 =>
     /\ \A t, u \in holders : loc[t].bi = loc[u].bi => t = u
     /\ \A t \in holders : loc[t].bi \notin ready
     /\ blocksSemaphore + Cardinality(inUse) + Cardinality(releasing) = numBlocksMax

\* An output buffer is in the free list, or with the thread that fills or writes it,
\* or in a block that waits to be written: always in exactly one of these, and only
\* numBlocksMax buffers are ever used, so that the list cannot run out.
BufferOwnership ==
  LET holders == {t \in At({"code", "publish", "write", "advance"}) : loc[t].bufIndex # None}
      waiting == {b \in Blocks : /\ blocks[b].bufIndex # None
                                 /\ \/ ReadyBlocks[b]
                                    \/ \E t \in Threads : /\ loc[t].bi = b
                                                         /\ \/ pc[t] = "takeReady"
                                                            \/ pc[t] = "releaseBlock"
                                                               /\ loc[t].isReady}
      free == ToSet(freeBlocks)
      held == {loc[t].bufIndex : t \in holders} \cup {blocks[b].bufIndex : b \in waiting}
  IN mpc # "idle" /\ session > 0 =>
     /\ IsInjective(freeBlocks)
     /\ free \cap held = {} /\ free \cup held = Blocks
     /\ Cardinality(held) = Cardinality(holders) + Cardinality(waiting)
     /\ held \subseteq 0 .. numBlocksMax - 1
     /\ \A t \in At({"code"}) : loc[t].bufIndex # None

\* The ring of blocks and the output buffers, from the reader to the writer and back.
ResourcesExact == SlotsExact /\ BufferOwnership

\* When the caller is told that the work is finished, no thread of this call is at
\* work or about to start: what the callbacks use may be changed or freed.
FinishedIsQuiescent ==
  mpc = "wait" /\ finishedEvent =>
    \A t \in Threads : \/ pc[t] \in {"exited", "compare"}
                       \/ pc[t] = "start" /\ ~startEvent[t]

\* MtCoder_Code returns SZ_OK only when every chunk was written.
OkMeansComplete ==
  session > 0 /\ mpc = "idle" /\ mres = OK => written = chunks

\* The coder of module OrderedCoder: chunks are read in order, at most one more
\* than numBlocksMax ahead of the output, the output is a prefix of the input, and
\* the call succeeds only with the whole input written and fails only if some
\* operation failed.
O == INSTANCE OrderedCoder WITH
  Lengths  <- Nat \ {0},
  Errors   <- SResults \ {OK},
  Ok       <- OK,
  inFlight <- numBlocksMax + 1,
  running  <- mpc \in {"start", "go", "wait"},
  read     <- readProcessed,
  fault    <- mtRes,
  result   <- mres

ImplementsOrderedCoder == O!Spec

\* A call of MtCoder_Code returns, and so does MtCoder_Destruct: nothing waits
\* for a block, for readEvent, or for a thread that was not woken.
CallsReturn == mpc \notin {"idle", "destroyed"} ~> mpc \in {"idle", "destroyed"}
===============================================================================
