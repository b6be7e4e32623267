----------------------------- MODULE MatchFinderMt -----------------------------
(***************************************************************************)
(* The multithreaded match finder (C/LzFindMt.c, .h).  The LZ thread (the   *)
(* encoder) takes blocks of matches from the BT thread, which takes blocks  *)
(* of hash heads from the HASH thread.  Each of the two links is a CMtSync: *)
(* a ring of blocks, two semaphores that count its free and filled slots,   *)
(* two events that start and stop the producer, and a critical section that *)
(* the consumer holds while it uses a block, so that the HASH thread can    *)
(* move the input window only when nobody points into it.                   *)
(*                                                                         *)
(* A step is the code between two operations on synchronization objects.    *)
(* A block is identified by the run it was made in and its number there.    *)
(* exit(1) of BUFFER_MUST_BE_(UN)LOCKED is a guard: BufferLocks shows that  *)
(* it holds whenever it is evaluated.                                       *)
(***************************************************************************)
EXTENDS Integers

CONSTANTS
  kMtHashNumBlocks, kMtBtNumBlocks,   \* slots of the two rings
  MaxBlocks,       \* bound: blocks the encoder takes in one run
  StreamLengths,   \* bound: the lengths of the streams, in hash blocks
  MaxRuns,         \* bound: how often the encoder starts a stream
  Faults           \* which failures happen: "create", "init", "data"

ASSUME MtAssumption ==
  /\ kMtHashNumBlocks \in Nat \ {0} /\ kMtBtNumBlocks \in Nat \ {0}
  /\ MaxBlocks \in Nat \ {0} /\ StreamLengths \subseteq Nat /\ MaxRuns \in Nat \ {0}
  /\ Faults \subseteq {"create", "init", "data"}

Syncs == {"hashSync", "btSync"}
Threads == {"LZ", "BT", "HASH"}
NoThread == "none"

Producer(s) == IF s = "btSync" THEN "BT" ELSE "HASH"
Consumer(s) == IF s = "btSync" THEN "LZ" ELSE "BT"
NumBlocks(s) == IF s = "btSync" THEN kMtBtNumBlocks ELSE kMtHashNumBlocks

VARIABLES
  \* the fields of the two CMtSync; wasCreated also stands for Thread_WasCreated
  numProcessedBlocks, wasCreated, needStart, csWasInitialized, csWasEntered,
  exit, stopWriting, canStart, wasStopped, freeSemaphore, filledSemaphore,
  cs,               \* the owner of the critical section
  \* CMatchFinderMt
  buf,              \* hashBuf and btBuf: the blocks in the slots
  hashLeft,         \* hashBufPos # hashBufPosLimit
  failure_BT, failure_LZ_BT,
  \* the threads
  pc, blockIndex,
  dtor,             \* the part of MatchFinderMt_Destruct the LZ thread is in
  run,              \* how many streams were initialized
  length            \* length of the stream of this run, in hash blocks

syncFlags == <<wasCreated, csWasInitialized, needStart, exit, stopWriting>>
events == <<canStart, wasStopped>>
semaphores == <<freeSemaphore, filledSemaphore>>
lock == <<csWasEntered, cs>>
data == <<buf, hashLeft, failure_BT, failure_LZ_BT>>
vars == <<numProcessedBlocks, syncFlags, events, semaphores, lock, data,
          pc, blockIndex, dtor, run, length>>

\* The slot of a block: GET_HASH_BLOCK_OFFSET, GET_BT_BLOCK_OFFSET.
Slot_Short(s, i) == i % (NumBlocks(s) - 1)               \* mutant
Slot(s, i) == i % NumBlocks(s)

Block(i, failed) == [run |-> run, index |-> i, failed |-> failed]
NoBlock == [run |-> 0, index |-> 0, failed |-> FALSE]

\* The CMtSync on which thread t, a consumer, calls MtSync_*: the LZ thread uses
\* hashSync only when it destroys it.
CallSync(t) == IF t = "BT" \/ dtor = "hashSync" THEN "hashSync" ELSE "btSync"

Goto(t, label) == pc' = [pc EXCEPT ![t] = label]
Set(event, s, value) == [event EXCEPT ![s] = value]

\* Semaphore_Release1: over the maximum it fails, and no caller looks at the result.
Release(sem, s) == [sem EXCEPT ![s] = IF @ < NumBlocks(s) THEN @ + 1 ELSE @]
Acquire(sem, s) == [sem EXCEPT ![s] = @ - 1]

\* LOCK_BUFFER and UNLOCK_BUFFER.
Lock(s, t) ==
  /\ ~csWasEntered[s] /\ cs[s] = NoThread
  /\ cs' = Set(cs, s, t) /\ csWasEntered' = Set(csWasEntered, s, TRUE)
Unlock(s) ==
  /\ csWasEntered[s]
  /\ cs' = Set(cs, s, NoThread) /\ csWasEntered' = Set(csWasEntered, s, FALSE)

Init ==
  /\ numProcessedBlocks = [s \in Syncs |-> 0]
  /\ wasCreated = [s \in Syncs |-> FALSE]
  /\ csWasInitialized = [s \in Syncs |-> FALSE]
  /\ csWasEntered = [s \in Syncs |-> FALSE]
  \* MtSync_Construct does not set these three.
  /\ needStart \in [Syncs -> BOOLEAN]
  /\ exit \in [Syncs -> BOOLEAN]
  /\ stopWriting \in [Syncs -> BOOLEAN]
  /\ canStart = [s \in Syncs |-> FALSE]
  /\ wasStopped = [s \in Syncs |-> FALSE]
  /\ freeSemaphore = [s \in Syncs |-> 0]
  /\ filledSemaphore = [s \in Syncs |-> 0]
  /\ cs = [s \in Syncs |-> NoThread]
  /\ buf = [s \in Syncs |-> [i \in 0 .. NumBlocks(s) - 1 |-> NoBlock]]
  /\ hashLeft = FALSE /\ failure_BT = FALSE /\ failure_LZ_BT = FALSE
  /\ pc = [t \in Threads |-> IF t = "LZ" THEN "idle" ELSE "none"]
  /\ blockIndex = [s \in Syncs |-> 0]
  /\ dtor = "no" /\ run = 0 /\ length = 0

-------------------------------------------------------------------------------
(* The LZ thread creates the two links and starts a stream.                 *)

\* MatchFinderMt_Create, MtSync_Create: what exists is kept; the first thread that
\* cannot be created ends it, and MtSync_Destruct clears that CMtSync.
MatchFinderMt_Create ==
  /\ pc["LZ"] = "idle" /\ run < MaxRuns
  /\ \E failing \in {"none"} \cup (IF "create" \in Faults THEN {s \in Syncs : ~wasCreated[s]}
                                   ELSE {}) :
       LET reached == IF failing = "hashSync" THEN {"hashSync"} ELSE Syncs
           new == {s \in reached : ~wasCreated[s]}
           started == new \ {failing}
       IN /\ wasCreated' = [s \in Syncs |-> wasCreated[s] \/ s \in started]
          /\ csWasInitialized' = wasCreated'
          /\ needStart' = [s \in Syncs |-> needStart[s] \/ s \in new]
          /\ exit' = [s \in Syncs |-> exit[s] \/ s \in new]
          /\ pc' = [t \in Threads |->
                      IF t = "LZ" THEN (IF failing = "none" THEN "created" ELSE "idle")
                      ELSE IF \E s \in started : t = Producer(s) THEN "waitStart"
                      ELSE pc[t]]
  /\ UNCHANGED <<numProcessedBlocks, stopWriting, events, semaphores, lock, data,
                 blockIndex, dtor, run, length>>

\* MtSync_Init recreates the semaphores.  Mutant: it keeps them.
SemaphoresInit_Keep(S) == UNCHANGED semaphores
SemaphoresInit(S) ==
  /\ freeSemaphore' = [s \in Syncs |-> IF s \in S THEN NumBlocks(s) ELSE freeSemaphore[s]]
  /\ filledSemaphore' = [s \in Syncs |-> IF s \in S THEN 0 ELSE filledSemaphore[s]]

MtSync_InitAccepts(s) == needStart[s] /\ ~csWasEntered[s]

\* LzmaEnc_CodeOneBlock, (needInit): MatchFinderMt_InitMt and then MatchFinderMt_Init.
MatchFinderMt_InitMt ==
  /\ pc["LZ"] = "created"
  /\ \A s \in Syncs : MtSync_InitAccepts(s)
  /\ SemaphoresInit(Syncs)
  /\ hashLeft' = FALSE /\ failure_BT' = FALSE /\ failure_LZ_BT' = FALSE
  /\ run' = run + 1 /\ length' \in StreamLengths
  /\ Goto("LZ", "encode")
  /\ UNCHANGED <<numProcessedBlocks, syncFlags, events, lock, buf, blockIndex, dtor>>

\* A link that is not stopped is refused; a semaphore may fail to be created.  The
\* encoder returns the error and calls LzmaEnc_Finish.
InitMtFails ==
  /\ pc["LZ"] = "created"
  /\ \/ \E s \in Syncs : ~MtSync_InitAccepts(s)
     \/ "init" \in Faults
  /\ \/ UNCHANGED semaphores
     \/ MtSync_InitAccepts("hashSync") /\ SemaphoresInit({"hashSync"})
  /\ Goto("LZ", "finish")
  /\ UNCHANGED <<numProcessedBlocks, syncFlags, events, lock, data, blockIndex, dtor,
                 run, length>>

-------------------------------------------------------------------------------
(* MtSync_GetNextBlock, called by the consumer t.                           *)

\* The slot of the block the consumer has, numBlocks of the last call.
CurSlot(s) == Slot(s, numProcessedBlocks[s] - 1)

\* Mutant: StopWriting of the last run stays in force.
StartFlags_KeepStop(s) ==
  needStart' = Set(needStart, s, FALSE) /\ exit' = Set(exit, s, FALSE) /\ UNCHANGED stopWriting
StartFlags(s) ==
  /\ needStart' = Set(needStart, s, FALSE)
  /\ exit' = Set(exit, s, FALSE)
  /\ stopWriting' = Set(stopWriting, s, FALSE)

\* Mutant: the count of the last run goes on.
StartCount_Keep(s) == numProcessedBlocks' = [numProcessedBlocks EXCEPT ![s] = @ + 1]
StartCount(s) == numProcessedBlocks' = Set(numProcessedBlocks, s, 1)

\* The first call of a run: the producer waits for canStart.
GetFirstBlock(t) ==
  LET s == CallSync(t) IN
  /\ needStart[s] /\ ~csWasEntered[s]
  /\ StartCount(s)
  /\ StartFlags(s)
  /\ wasStopped' = Set(wasStopped, s, FALSE)
  /\ Goto(t, "signalStart")
  /\ UNCHANGED <<wasCreated, csWasInitialized, canStart, semaphores, lock, data>>

SignalStart(t) ==
  /\ pc[t] = "signalStart"
  /\ canStart' = Set(canStart, CallSync(t), TRUE)
  /\ Goto(t, "waitFilled")
  /\ UNCHANGED <<numProcessedBlocks, syncFlags, wasStopped, semaphores, lock, data,
                 blockIndex, dtor, run, length>>

\* A later call: the current block is unlocked, then its slot is freed.
FreeBlock(t) ==
  LET s == CallSync(t) IN
  /\ ~needStart[s]
  /\ Unlock(s)
  /\ numProcessedBlocks' = [numProcessedBlocks EXCEPT ![s] = @ + 1]
  /\ Goto(t, "releaseFree")
  /\ UNCHANGED <<syncFlags, events, semaphores, data>>

ReleaseFree(t) ==
  /\ pc[t] = "releaseFree"
  /\ freeSemaphore' = Release(freeSemaphore, CallSync(t))
  /\ Goto(t, "waitFilled")
  /\ UNCHANGED <<numProcessedBlocks, syncFlags, events, filledSemaphore, lock, data,
                 blockIndex, dtor, run, length>>

GetNextBlock(t) ==
  (GetFirstBlock(t) \/ FreeBlock(t)) /\ UNCHANGED <<blockIndex, dtor, run, length>>

WaitFilled(t) ==
  LET s == CallSync(t) IN
  /\ pc[t] = "waitFilled" /\ filledSemaphore[s] > 0
  /\ filledSemaphore' = Acquire(filledSemaphore, s)
  /\ Goto(t, "lockBuffer")
  /\ UNCHANGED <<numProcessedBlocks, syncFlags, events, freeSemaphore, lock, data,
                 blockIndex, dtor, run, length>>

LockBuffer(t) ==
  /\ pc[t] = "lockBuffer"
  /\ Lock(CallSync(t), t)
  /\ Goto(t, "gotBlock")
  /\ UNCHANGED <<numProcessedBlocks, syncFlags, events, semaphores, data, blockIndex,
                 dtor, run, length>>

-------------------------------------------------------------------------------
(* MtSync_StopWriting, called by the consumer t.                            *)

\* Where the caller goes on.
AfterStop(t) ==
  IF t = "BT" THEN "stopped" ELSE IF dtor = "no" THEN "idle" ELSE "destruct"

NothingToStop(s) == ~wasCreated[s] \/ needStart[s]

UnlockForStop(s) == IF csWasEntered[s] THEN Unlock(s) ELSE UNCHANGED lock

StopWriting(t) ==
  LET s == CallSync(t) IN
  /\ pc[t] = "stopCall"
  /\ \/ NothingToStop(s) /\ Goto(t, AfterStop(t)) /\ UNCHANGED lock
     \/ ~NothingToStop(s) /\ UnlockForStop(s) /\ Goto(t, "setStop")
  /\ UNCHANGED <<numProcessedBlocks, syncFlags, events, semaphores, data, blockIndex,
                 dtor, run, length>>

SetStop(t) ==
  /\ pc[t] = "setStop"
  /\ stopWriting' = Set(stopWriting, CallSync(t), TRUE)
  /\ Goto(t, "releaseStop")
  /\ UNCHANGED <<numProcessedBlocks, wasCreated, csWasInitialized, needStart, exit, events,
                 semaphores, lock, data, blockIndex, dtor, run, length>>

ReleaseStop(t) ==
  /\ pc[t] = "releaseStop"
  /\ freeSemaphore' = Release(freeSemaphore, CallSync(t))
  /\ Goto(t, "waitStopped")
  /\ UNCHANGED <<numProcessedBlocks, syncFlags, events, filledSemaphore, lock, data,
                 blockIndex, dtor, run, length>>

\* Mutant: StopWriting does not wait for the producer.
TakeStopped_NoWait(s) == UNCHANGED wasStopped
TakeStopped(s) == wasStopped[s] /\ wasStopped' = Set(wasStopped, s, FALSE)

WaitStopped(t) ==
  LET s == CallSync(t) IN
  /\ pc[t] = "waitStopped"
  /\ TakeStopped(s)
  /\ needStart' = Set(needStart, s, TRUE)
  /\ Goto(t, AfterStop(t))
  /\ UNCHANGED <<numProcessedBlocks, wasCreated, csWasInitialized, exit, stopWriting,
                 canStart, semaphores, lock, data, blockIndex, dtor, run, length>>

ConsumerStep(t) ==
  \/ SignalStart(t) \/ ReleaseFree(t) \/ WaitFilled(t) \/ LockBuffer(t)
  \/ StopWriting(t) \/ SetStop(t) \/ ReleaseStop(t) \/ WaitStopped(t)

-------------------------------------------------------------------------------
(* The LZ thread: the encoder, and the end.                                 *)

\* MatchFinderMt_GetNextBlock_Bt.  After failure_LZ_BT it touches no CMtSync.
GetNextBlock_Bt ==
  /\ pc["LZ"] = "encode" /\ ~failure_LZ_BT
  /\ needStart["btSync"] \/ numProcessedBlocks["btSync"] < MaxBlocks
  /\ GetNextBlock("LZ")

\* numItems of a failed block is 0.
ReadHeader ==
  /\ pc["LZ"] = "gotBlock"
  /\ failure_LZ_BT' = buf["btSync"][CurSlot("btSync")].failed
  /\ Goto("LZ", "encode")
  /\ UNCHANGED <<numProcessedBlocks, syncFlags, events, semaphores, lock, buf, hashLeft,
                 failure_BT, blockIndex, dtor, run, length>>

\* LzmaEnc_Finish, MatchFinderMt_ReleaseStream: at the end of the stream, or after an
\* error or a cancelled Progress at any block, also before the first.
ReleaseStream ==
  /\ pc["LZ"] \in {"encode", "finish"}
  /\ Goto("LZ", "stopCall")
  /\ UNCHANGED <<numProcessedBlocks, syncFlags, events, semaphores, lock, data, blockIndex,
                 dtor, run, length>>

\* MatchFinderMt_Destruct begins with MatchFinderMt_ReleaseStream.
MatchFinderMt_Destruct ==
  /\ pc["LZ"] = "idle"
  /\ dtor' = "release"
  /\ Goto("LZ", "stopCall")
  /\ UNCHANGED <<numProcessedBlocks, syncFlags, events, semaphores, lock, data, blockIndex,
                 run, length>>

\* MtSync_Destruct(s): a thread that exists is stopped first.
BeginDestruct(s) ==
  /\ dtor' = s
  /\ Goto("LZ", IF wasCreated[s] THEN "stopCall" ELSE "close")

Released ==
  /\ pc["LZ"] = "destruct" /\ dtor = "release"
  /\ BeginDestruct("btSync")
  /\ UNCHANGED <<numProcessedBlocks, syncFlags, events, semaphores, lock, data, blockIndex,
                 run, length>>

SendExit ==
  /\ pc["LZ"] = "destruct" /\ dtor \in Syncs
  /\ exit' = Set(exit, dtor, TRUE)
  /\ canStart' = Set(canStart, dtor, TRUE)
  /\ Goto("LZ", "join")
  /\ UNCHANGED <<numProcessedBlocks, wasCreated, csWasInitialized, needStart, stopWriting,
                 wasStopped, semaphores, lock, data, blockIndex, dtor, run, length>>

Join ==
  /\ pc["LZ"] = "join" /\ pc[Producer(dtor)] = "done"
  /\ Goto("LZ", "close")
  /\ UNCHANGED <<numProcessedBlocks, syncFlags, events, semaphores, lock, data, blockIndex,
                 dtor, run, length>>

Close ==
  /\ pc["LZ"] = "close"
  /\ csWasInitialized' = Set(csWasInitialized, dtor, FALSE)
  /\ csWasEntered' = Set(csWasEntered, dtor, FALSE)
  /\ wasCreated' = Set(wasCreated, dtor, FALSE)
  /\ IF dtor = "btSync" THEN BeginDestruct("hashSync")
     ELSE Goto("LZ", "destroyed") /\ UNCHANGED dtor
  /\ UNCHANGED <<numProcessedBlocks, needStart, exit, stopWriting, events, semaphores, cs,
                 data, blockIndex, run, length>>

LzStep ==
  \/ MatchFinderMt_Create \/ MatchFinderMt_InitMt \/ InitMtFails
  \/ GetNextBlock_Bt \/ ReadHeader \/ ReleaseStream \/ ConsumerStep("LZ")
  \/ MatchFinderMt_Destruct \/ Released \/ SendExit \/ Join \/ Close

-------------------------------------------------------------------------------
(* What the two producers have in common.                                   *)

\* Event_Wait(&p->canStart); blockIndex is set to 0 before it.
WaitStart(s) ==
  LET t == Producer(s) IN
  /\ pc[t] = "waitStart" /\ canStart[s]
  /\ canStart' = Set(canStart, s, FALSE)
  /\ blockIndex' = Set(blockIndex, s, 0)
  /\ Goto(t, IF exit[s] THEN "done" ELSE "loop")
  /\ UNCHANGED <<numProcessedBlocks, syncFlags, wasStopped, semaphores, lock, data, dtor,
                 run, length>>

\* Where a producer goes that has a free slot: it looks at stopWriting only now.
AfterWait(s) ==
  IF s = "hashSync" /\ exit[s] THEN "done"
  ELSE IF ~stopWriting[s] THEN "fill"
  ELSE IF s = "btSync" THEN "stopCall"       \* the BT thread stops the HASH thread
  ELSE "stopped"

\* A block is filled only in a free slot.
AcquireFree(s) == freeSemaphore[s] > 0 /\ freeSemaphore' = Acquire(freeSemaphore, s)

WaitFree(s) ==
  /\ pc[Producer(s)] = "waitFree"
  /\ AcquireFree(s)
  /\ Goto(Producer(s), AfterWait(s))
  /\ UNCHANGED <<numProcessedBlocks, syncFlags, events, filledSemaphore, lock, data,
                 blockIndex, dtor, run, length>>

\* The block blockIndex++ is in its slot.
PutBlock(s, failed) ==
  /\ buf' = [buf EXCEPT ![s][Slot(s, blockIndex[s])] = Block(blockIndex[s], failed)]
  /\ blockIndex' = [blockIndex EXCEPT ![s] = @ + 1]
  /\ Goto(Producer(s), "releaseFilled")

ReleaseFilled(s) ==
  /\ pc[Producer(s)] = "releaseFilled"
  /\ filledSemaphore' = Release(filledSemaphore, s)
  /\ Goto(Producer(s), "loop")
  /\ UNCHANGED <<numProcessedBlocks, syncFlags, events, freeSemaphore, lock, data,
                 blockIndex, dtor, run, length>>

Stopped(s) ==
  /\ pc[Producer(s)] = "stopped"
  /\ wasStopped' = Set(wasStopped, s, TRUE)
  /\ Goto(Producer(s), "waitStart")
  /\ UNCHANGED <<numProcessedBlocks, syncFlags, canStart, semaphores, lock, data,
                 blockIndex, dtor, run, length>>

ProducerStep(s) == WaitStart(s) \/ WaitFree(s) \/ ReleaseFilled(s) \/ Stopped(s)

-------------------------------------------------------------------------------
(* HashThreadFunc.                                                          *)

\* MatchFinder_NeedMove: true at most once before each block, before the end.
HashLoop ==
  /\ pc["HASH"] = "loop"
  /\ \/ Goto("HASH", "waitFree")
     \/ blockIndex["hashSync"] < length /\ Goto("HASH", "enterBt")
  /\ UNCHANGED <<numProcessedBlocks, syncFlags, events, semaphores, lock, data,
                 blockIndex, dtor, run, length>>

Enter(s, t) == cs[s] = NoThread /\ cs' = Set(cs, s, t)

EnterBt_Skip == UNCHANGED cs                            \* mutant
EnterBt == Enter("btSync", "HASH")

HashEntersBt ==
  /\ pc["HASH"] = "enterBt"
  /\ EnterBt
  /\ Goto("HASH", "enterHash")
  /\ UNCHANGED <<numProcessedBlocks, syncFlags, events, semaphores, csWasEntered, data,
                 blockIndex, dtor, run, length>>

HashEntersHash ==
  /\ pc["HASH"] = "enterHash"
  /\ Enter("hashSync", "HASH")
  /\ Goto("HASH", "move")
  /\ UNCHANGED <<numProcessedBlocks, syncFlags, events, semaphores, csWasEntered, data,
                 blockIndex, dtor, run, length>>

\* MatchFinder_MoveBlock and the two CriticalSection_Leave.
MoveBlock ==
  /\ pc["HASH"] = "move"
  /\ cs' = Set(cs, "hashSync", NoThread)
  /\ Goto("HASH", "leaveBt")
  /\ UNCHANGED <<numProcessedBlocks, syncFlags, events, semaphores, csWasEntered, data,
                 blockIndex, dtor, run, length>>

HashLeavesBt ==
  /\ pc["HASH"] = "leaveBt"
  /\ cs' = Set(cs, "btSync", NoThread)
  /\ Goto("HASH", "waitFree")
  /\ UNCHANGED <<numProcessedBlocks, syncFlags, events, semaphores, csWasEntered, data,
                 blockIndex, dtor, run, length>>

HashFill ==
  /\ pc["HASH"] = "fill"
  /\ PutBlock("hashSync", FALSE)
  /\ UNCHANGED <<numProcessedBlocks, syncFlags, events, semaphores, lock, hashLeft,
                 failure_BT, failure_LZ_BT, dtor, run, length>>

HashStep ==
  \/ ProducerStep("hashSync") \/ HashLoop \/ HashEntersBt \/ HashEntersHash
  \/ MoveBlock \/ HashLeavesBt \/ HashFill

-------------------------------------------------------------------------------
(* BtThreadFunc.                                                            *)

BtLoop ==
  /\ pc["BT"] = "loop"
  /\ Goto("BT", IF exit["btSync"] THEN "done" ELSE "waitFree")
  /\ UNCHANGED <<numProcessedBlocks, syncFlags, events, semaphores, lock, data,
                 blockIndex, dtor, run, length>>

LockCurrent == IF needStart["hashSync"] THEN UNCHANGED lock ELSE Lock("hashSync", "BT")

\* BtFillBlock: the rest of the last hash block is used under the lock again.
BtFillBlock ==
  /\ pc["BT"] = "fill" /\ ~csWasEntered["hashSync"]
  /\ LockCurrent
  /\ Goto("BT", "getMatches")
  /\ UNCHANGED <<numProcessedBlocks, syncFlags, events, semaphores, data, blockIndex,
                 dtor, run, length>>

\* BtGetMatches returns, and BtFillBlock unlocks the buffer of the hash block.
PutMatches(failed) ==
  /\ PutBlock("btSync", failed)
  /\ Unlock("hashSync")
  /\ UNCHANGED <<numProcessedBlocks, syncFlags, events, semaphores, failure_LZ_BT, dtor,
                 run, length>>

\* BtGetMatches after an earlier failure: an empty block.
BtFailed ==
  /\ pc["BT"] = "getMatches" /\ failure_BT
  /\ PutMatches(TRUE)
  /\ UNCHANGED <<hashLeft, failure_BT>>

GetNextBlock_Hash ==
  /\ pc["BT"] = "getMatches" /\ ~failure_BT /\ ~hashLeft
  /\ GetNextBlock("BT")

\* A hash block with fewer than numHashBytes bytes is the end of the stream: what is
\* left is put into the block, and the next call needs a new hash block.
BtEndOfStream ==
  /\ pc["BT"] = "gotBlock"
  /\ buf["hashSync"][CurSlot("hashSync")].index >= length
  /\ PutMatches(FALSE)
  /\ UNCHANGED <<hashLeft, failure_BT>>

BtNewHeads ==
  /\ pc["BT"] = "gotBlock"
  /\ buf["hashSync"][CurSlot("hashSync")].index < length
  /\ hashLeft' = TRUE
  /\ Goto("BT", "getMatches")
  /\ UNCHANGED <<numProcessedBlocks, syncFlags, events, semaphores, lock, buf, failure_BT,
                 failure_LZ_BT, blockIndex, dtor, run, length>>

\* GetMatchesSpecN_2: the block is full, or the heads are used up, or both.
BtMatchesFull ==
  /\ pc["BT"] = "getMatches" /\ ~failure_BT /\ hashLeft
  /\ hashLeft' \in BOOLEAN
  /\ PutMatches(FALSE)
  /\ UNCHANGED failure_BT

BtHeadsUsed ==
  /\ pc["BT"] = "getMatches" /\ ~failure_BT /\ hashLeft
  /\ hashLeft' = FALSE
  /\ UNCHANGED <<numProcessedBlocks, syncFlags, events, semaphores, lock, buf, failure_BT,
                 failure_LZ_BT, pc, blockIndex, dtor, run, length>>

\* It returns NULL: internal data failure.
BtDataFailure ==
  /\ pc["BT"] = "getMatches" /\ ~failure_BT /\ hashLeft
  /\ "data" \in Faults
  /\ failure_BT' = TRUE
  /\ PutMatches(TRUE)
  /\ UNCHANGED hashLeft

BtStep ==
  \/ ProducerStep("btSync") \/ ConsumerStep("BT") \/ BtLoop \/ BtFillBlock \/ BtFailed
  \/ GetNextBlock_Hash \/ BtEndOfStream \/ BtNewHeads \/ BtMatchesFull \/ BtHeadsUsed
  \/ BtDataFailure

Destroyed == pc["LZ"] = "destroyed" /\ UNCHANGED vars

Next == LzStep \/ BtStep \/ HashStep \/ Destroyed

Spec == Init /\ [][Next]_vars

\* The scheduler runs every thread that is not blocked; a call of the encoder that has
\* begun goes on, and nothing makes the encoder begin one; the input stream returns.
FairSpec ==
  /\ Spec /\ WF_vars(pc["LZ"] \notin {"idle", "encode"} /\ LzStep)
  /\ WF_vars(BtStep) /\ WF_vars(HashStep)

-------------------------------------------------------------------------------
(* Properties.                                                              *)

ConsumerLabels == {"signalStart", "releaseFree", "waitFilled", "lockBuffer", "gotBlock",
                   "stopCall", "setStop", "releaseStop", "waitStopped"}
ProducerLabels == {"none", "waitStart", "loop", "waitFree", "fill", "releaseFilled",
                   "stopped", "done"}
Labels ==
  [LZ   |-> ConsumerLabels \cup {"idle", "created", "encode", "finish", "destruct", "join",
                                 "close", "destroyed"},
   BT   |-> ConsumerLabels \cup ProducerLabels \cup {"getMatches"},
   HASH |-> ProducerLabels \cup {"enterBt", "enterHash", "move", "leaveBt"}]

Blocks == [run : 0 .. MaxRuns, index : Nat, failed : BOOLEAN]

\* Type invariant of the links, the buffers and the threads.
TypeOK ==
  /\ numProcessedBlocks \in [Syncs -> Nat] /\ blockIndex \in [Syncs -> Nat]
  /\ wasCreated \in [Syncs -> BOOLEAN] /\ csWasInitialized \in [Syncs -> BOOLEAN]
  /\ needStart \in [Syncs -> BOOLEAN] /\ exit \in [Syncs -> BOOLEAN]
  /\ stopWriting \in [Syncs -> BOOLEAN] /\ csWasEntered \in [Syncs -> BOOLEAN]
  /\ canStart \in [Syncs -> BOOLEAN] /\ wasStopped \in [Syncs -> BOOLEAN]
  /\ freeSemaphore \in [Syncs -> Nat] /\ filledSemaphore \in [Syncs -> Nat]
  /\ cs \in [Syncs -> Threads \cup {NoThread}]
  /\ DOMAIN buf = Syncs
  /\ \A s \in Syncs : buf[s] \in [0 .. NumBlocks(s) - 1 -> Blocks]
  /\ hashLeft \in BOOLEAN /\ failure_BT \in BOOLEAN /\ failure_LZ_BT \in BOOLEAN
  /\ DOMAIN pc = Threads /\ \A t \in Threads : pc[t] \in Labels[t]
  /\ dtor \in Syncs \cup {"no", "release"} /\ run \in 0 .. MaxRuns /\ length \in Nat

Running(s) == wasCreated[s] /\ ~needStart[s]

\* The producer is between taking a free slot and releasing it as filled.
Filling(s) ==
  pc[Producer(s)] \in {"fill", "releaseFilled"}
                      \cup IF s = "btSync" THEN {"getMatches", "signalStart", "releaseFree",
                                                 "waitFilled", "lockBuffer", "gotBlock"}
                           ELSE {}

\* The consumer is in MtSync_GetNextBlock and has no block.
NoBlockYet(s) == pc[Consumer(s)] \in {"signalStart", "waitFilled"}
Freeing(s) == pc[Consumer(s)] = "releaseFree"
HasBlock(s) == Running(s) /\ ~NoBlockYet(s) /\ ~Freeing(s)

\* While the consumer has a block, its slot holds the block of this run that comes
\* next in the order they were made, and the producer is not filling that slot.
BlockIntact ==
  \A s \in Syncs : HasBlock(s) /\ ~stopWriting[s] =>
    LET b == buf[s][CurSlot(s)] IN
    /\ b.run = run /\ b.index = numProcessedBlocks[s] - 1
    /\ Filling(s) /\ pc[Producer(s)] # "releaseFilled" => Slot(s, blockIndex[s]) # CurSlot(s)

Count(p) == IF p THEN 1 ELSE 0

\* Every slot is free, filled, being filled or with the consumer, and the two
\* semaphores count the first two kinds.
SlotsCounted ==
  \A s \in Syncs : Running(s) /\ ~stopWriting[s] =>
    freeSemaphore[s] + filledSemaphore[s] + Count(Filling(s)) + Count(~NoBlockYet(s))
      = NumBlocks(s)

\* "check semaphore count !!!" (MtSync_StopWriting): no release goes over the maximum;
\* it would be refused, and the refusal overlooked.
NoReleaseRefused ==
  /\ \A t \in {"LZ", "BT"} : pc[t] \in {"releaseFree", "releaseStop"} =>
       freeSemaphore[CallSync(t)] < NumBlocks(CallSync(t))
  /\ \A s \in Syncs : pc[Producer(s)] = "releaseFilled" => filledSemaphore[s] < NumBlocks(s)

\* The two semaphores say what is in the slots, and accept every release.
SemaphoresExact == SlotsCounted /\ NoReleaseRefused

\* The checks of BUFFER_MUST_BE_LOCKED and BUFFER_MUST_BE_UNLOCKED succeed, and
\* csWasEntered says whether the consumer owns the critical section.
BufferLocks ==
  /\ \A t \in {"LZ", "BT"} : pc[t] = "lockBuffer" => ~csWasEntered[CallSync(t)]
  /\ pc["LZ"] = "encode" => csWasEntered["btSync"] = ~needStart["btSync"]
  /\ pc["BT"] = "fill" => ~csWasEntered["hashSync"]
  /\ pc["BT"] \in {"getMatches", "gotBlock"} =>
       csWasEntered["hashSync"] = ~needStart["hashSync"]
  /\ \A s \in Syncs : csWasEntered[s] => cs[s] = Consumer(s)

\* The window is moved only when the BT thread is not matching and the encoder is not
\* using its pointer into the window.
MoveExclusive ==
  pc["HASH"] = "move" =>
    /\ pc["BT"] \notin {"getMatches", "gotBlock"}
    /\ pc["LZ"] \notin {"encode", "gotBlock", "idle", "created"}

\* What a thread uses under its critical section nobody else changes: its block's
\* slot, and the window that the HASH thread moves.
UsedUnderLock == BufferLocks /\ MoveExclusive

\* A link that StopWriting has returned for is as it was created: the producer waits
\* for canStart, both events are off, the HASH thread is stopped with the BT thread,
\* and MtSync_Init of the next stream accepts both.
StoppedIsQuiet ==
  /\ \A s \in Syncs : needStart[s] /\ wasCreated[s] =>
       /\ pc[Producer(s)] \in {"waitStart", "done"}
       /\ ~wasStopped[s] /\ (canStart[s] => exit[s])
       /\ cs[s] # Producer(s) /\ ~csWasEntered[s]
  /\ needStart["btSync"] /\ wasCreated["btSync"] => needStart["hashSync"]
  /\ pc["LZ"] = "created" => \A s \in Syncs : MtSync_InitAccepts(s)

\* "we must be sure that HASH_THREAD will not use CriticalSection(s) after deleting
\* CriticalSection": no thread is at a critical section that does not exist.
CriticalSectionsAlive ==
  /\ pc["HASH"] \in {"enterBt", "enterHash", "move", "leaveBt"} =>
       \A s \in Syncs : csWasInitialized[s]
  /\ \A t \in {"LZ", "BT"} : pc[t] = "lockBuffer" => csWasInitialized[CallSync(t)]
  /\ pc["LZ"] = "destroyed" => \A t \in {"BT", "HASH"} : pc[t] \in {"none", "done"}

\* After a stop everything is ready for the next start, or for the destruction.
EndsCleanly == StoppedIsQuiet /\ CriticalSectionsAlive

\* Each link is a queue of blocks (BlockQueue).
Taken(s) ==
  IF Running(s) THEN numProcessedBlocks[s] - Count(NoBlockYet(s) \/ Freeing(s)) ELSE 0
Made(s) == IF Running(s) THEN Taken(s) + filledSemaphore[s] ELSE 0
Holding(s) == Running(s) /\ ~NoBlockYet(s)

BtQ == INSTANCE BlockQueue WITH
  Slots <- NumBlocks("btSync"), running <- Running("btSync"),
  made <- Made("btSync"), taken <- Taken("btSync"), holding <- Holding("btSync")
HashQ == INSTANCE BlockQueue WITH
  Slots <- NumBlocks("hashSync"), running <- Running("hashSync"),
  made <- Made("hashSync"), taken <- Taken("hashSync"), holding <- Holding("hashSync")

BtQueue == BtQ!Spec
HashQueue == HashQ!Spec
ImplementsQueues == BtQueue /\ HashQueue

\* The encoder gets its next block, ReleaseStream and Destruct return: no thread waits
\* for a wakeup that was lost or for a critical section that nobody leaves.
CallsReturn ==
  pc["LZ"] \notin {"idle", "encode", "destroyed"} ~> pc["LZ"] \in {"idle", "encode", "destroyed"}
===============================================================================
