# Verification of p7zip's concurrent core

These modules model the parts of p7zip in which several threads share state,
check them with TLC on small instances, and prove the most important results
for every instance with TLAPS.  Paths are relative to the repository.

## 1. Inventory

| component | state it keeps | operations | interacts with | what makes it correct |
|---|---|---|---|---|
| Synchronization objects: `C/Threads.c`, `CPP/Windows/Synchronization.*` | state of an event, count of a semaphore, each under a mutex with a condition variable | create, set, reset, wait, release, wait for any of several | everything below | a wait returns only when signaled, an auto-reset event lets one thread through, no wakeup is lost |
| Stream binder: `CPP/7zip/Common/StreamBinder.*` | pointer and size of the writer's buffer, an event, a semaphore, two flags | `Create_ReInit`, `Read`, `Write`, `CloseRead_CallOnce`, `CloseWrite` | two coder threads of the mixer | the reader gets the writer's bytes in order, the writer learns exactly what was read, both return when the other ends |
| Coder mixer and `VirtThread`: `CPP/7zip/Archive/Common/CoderMixer2.*`, `CPP/7zip/Common/VirtThread.*` | a thread and a result for each coder | `SetBindInfo`, `ReInit2`, `Init`, `Code` | stream binders, coders | the call returns with every thread stopped and the right error |
| Block-parallel encoder: `C/MtCoder.*` | a token to read, a ring of blocks, the turn to write, a free list of output buffers, counters of threads | `MtCoder_Construct`, `MtCoder_Code`, `MtCoder_Destruct`, thread functions | LZMA2 and xz encoders by the callbacks `Code` and `Write` | blocks are written in the order they were read, memory is bounded, an error is reported, the call returns with no thread at work |
| Block-parallel decoder: `C/MtDec.*`, `C/Lzma2DecMt.c` | `canRead`/`canWrite` event of each thread, the interruption index, lists of input buffers, the cross buffer | `MtDec_Code`, `MtDec_PrepareRead`, `MtDec_Read`, thread functions, the one-thread rest | LZMA2 and xz decoders by callbacks | output in order, nothing lost or decoded twice when the ring stops, an error stops the blocks after it and not those before |
| Multithreaded match finder: `C/LzFindMt.*` | two producer and consumer pairs of block counters and semaphores, a critical section for each | `MtSync_*`, `MatchFinderMt_*` | LZMA encoder | every block is consumed once, stopping leaves the counts right for the next start |
| Memory blocks and memory stream: `CPP/7zip/Common/MemBlocks.*`, `OutMemStream.*` | a pool of blocks with a semaphore, a mode that is memory or real stream | allocate, free, `Write`, `SetRealStreamMode`, `DetachData` | zip update | no block is lost; a stream out of memory waits until its turn comes |
| Multithreaded zip update: `CPP/7zip/Archive/Zip/ZipUpdate.cpp`, `ZipAddCommon.cpp` | threads, references of items to memory streams, the list of finished threads | `Update2`, `CAddCommon::Compress` | memory blocks, write cache | items are written in order, the item at the front always advances, no failure is forgotten |
| Write cache: `CCacheOutStream` in `ZipUpdate.cpp` | a ring over the end of the file, a restriction | `Write`, `Seek`, `SetSize`, `SetRestriction`, `FinalFlush` | zip writer above, volumes below | it is a file for its user; what is final is never written again |
| Multithreaded BZip2 encoder: `CPP/7zip/Compress/BZip2Encoder.*` | a turn to write for each block number, two manual-reset events and two events of each thread | `Code`, thread function | archive handlers | blocks in order, the threads of a call are all parked before the next |
| Multithreaded BZip2 decoder: `CPP/7zip/Compress/BZip2Decoder.*` | one block shared with the scout thread, two events | `Code`, `RunScout` | archive handlers | the result and the output are those of the input, whichever thread parses |
| Sequential stream adapters: `InOutTempBuffer`, `LimitedStreams`, `MultiOutStream`, `FilterCoder` | positions and sizes | `Read`, `Write`, `Seek` | archive handlers | positions and sizes agree |
| Codecs, filters, hashes, ciphers; archive handlers; user interfaces; vendored code | - | - | - | covered by round-trip tests; not modelled (section 16) |

**Hard behaviours.** Interleavings of threads that share plain fields and are
kept apart only by events and semaphores; ends and errors that one thread meets
while others hold resources; reuse of the same objects for the next call;
bounded rings and pools.  `PROJECT.json` lists every hazard with its line.

## 2. Plan

1. `Pipe`, `StreamBinder`, `StreamBinderProofs` — done (section 3).
2. `OrderedCoder`, `MtCoder`, `MtCoderProofs` — done (section 4).
3. `BlockQueue`, `MatchFinderMt`, `MatchFinderMtProofs` — done (section 5).
4. `SyncObjects`, `PosixSync`, `PosixSyncProofs` — done (section 6).
5. `MtDec`, `MtDecInvariant`, `MtDecProofs` — done (section 7).
6. `ZipUpdateMt` with the memory blocks, `ZipUpdateMtProofs`; `OutFile`, `CacheOutStream` —
   done (sections 8, 9).
7. `CoderMixerMt`: coder threads over pipes, and its proofs — done (section 10).
8. `BZip2EncMt`, refined to the `OrderedCoder` of 2, with the proof of it; `BlockDecoder`,
   `BZip2DecMt` — done (sections 11, 12).
9. Not done: the proofs about where the decoding of `MtDec` has to stop (`AllDecoded`), about the
   data of `BZip2DecMt` and about the ring arithmetic of `CacheOutStream`.
10. Not done: the LZMA2 chunk state machine; sequential adapters (`InOutTempBuffer`,
    `LimitedStreams`, `MultiOutStream`) against reference definitions.

Abstract specifications: a pipe (`Pipe`), an ordered coder with bounded look-ahead
(`OrderedCoder`, implemented by `MtCoder` and by the BZip2 encoder), a queue of blocks
(`BlockQueue`), the synchronization objects (`SyncObjects`), a file (`OutFile`), a decoder of
blocks (`BlockDecoder`).

How the modules fit together: `PosixSync` shows that events and semaphores act in one
step each; the modules above it use them in that form, without being composed with it.
`StreamBinder` refines `Pipe`, and the streams of `CoderMixerMt` are pipes.  `ZipUpdateMt`
writes to the archive that `CacheOutStream` keeps.  `MtCoder` and `MatchFinderMt` are two users
of the objects that do not meet (one is inside an encoder that the other one runs).

## 3. Stream binder

`StreamBinder.tla` has the fields of `CStreamBinder` under their own names,
`canRead` for `_canRead_Event` and `canWrite` for the count of
`_canWrite_Semaphore`, and a program counter for each of the two threads.  A step
is the code between two points where the other thread can run:

| code | actions |
|---|---|
| `Write` | `WriteCut`, `WriteCall`, `WritePublish`, `WriteSignal`, `WriteWait`, `WriteCollect` |
| `CloseWrite` | `CloseWriteCall`, `CloseWriteClear`, `CloseWriteSignal` |
| `Read` | `ReadCall`, `ReadWait`, `ReadCopy`, `ReadRelease`, `ReadEnd` |
| `CloseRead_CallOnce` | `CloseRead_CallOnce` |
| `Create_ReInit`, `CreateStreams2` | `Create_ReInit` |

A byte is its position in the writer's stream: `buf` is the number of bytes before
the one `_buf` points to.  Either side may close between any two calls, as a coder
that fails or stops early does.

`Pipe.tla` says what the binder promises; its variables are what the coders can
observe.  `StreamBinder!P` maps the fields to it.

Run `stream_binder` (two sessions, 6 bytes, `Write` sizes 1-3, `Read` sizes 1, 2, 4:
reads smaller than, equal to and larger than a write, several writes in a session,
and the second session on the objects the first one left):

* `NoDataRace`: the threads are never both at `_buf`/`_bufSize`;
* `ReadsNextByte`, `AccountingExact`: nothing lost or read twice, `Write` reports what was read;
* `NoReleaseRefused`: the maximum 3 of the semaphore is never exceeded (`Semaphore_ReleaseN`
  would refuse the release and nobody looks at its result);
* `ImplementsPipe`: the refinement;
* `CallsReturn`: no wakeup is lost, whichever side closes.

Fairness is weak fairness of each thread: a coder that can go on does.  That includes
that a coder calls its stream again or returns (and then `CCoderMT::Code` releases the
stream), which is what the mixer relies on.

### Proofs (`StreamBinderProofs.tla`)

For every `WriteSizes`, `ReadSizes`, `MaxBytes` and `MaxSessions` allowed by
`SizesAssumption`: `TypeOK`, the four safety invariants and the refinement of `Pipe`.
None of the invariants is inductive by itself.  The inductive invariant `IInv` says where
the one permission to use the buffer is: with the writer (`WritersTurn`), in the pending
event (`Signaled`), with the reader (`ReadersTurn`), in the pending semaphore item
(`Emptied`), or with the reader for good (`Ended`); and how many of the bytes of the
current `Write` are consumed (`Accounting`).  `NextInv` has a step for each action;
`PipeStep` shows which step of the pipe each action is.

## 4. Block-parallel encoder

`MtCoder.tla` models the caller (`MtCoder_Code`, `MtCoder_Free`, `MtCoder_Destruct`) and
every coder thread (`ThreadFunc`, `ThreadFunc2`), in the configuration that the repository
builds (`MTCODER_USE_WRITE_THREAD` is commented out in `C/MtCoder.h`).  The state is the
fields of `CMtCoder` and `CMtCoderThread`; `freeBlockList` with its head is the sequence
`freeBlocks`; `loc[t]` holds the local variables of the thread's loop body, and is reset
when the body ends.  The input is a number of chunks, the last of which is the short or
final read; an output buffer holds the number of the chunk encoded into it; `written` is
the last chunk passed to `Write`.

| code | actions |
|---|---|
| `MtCoder_Code` | `MtCoder_Code` (set-up), `StartFirst`, `Go`, `WaitFinished` |
| `MtCoder_Free`, `MtCoderThread_Destruct`, `MtCoder_Destruct` | `Destruct`, `FreeThread`, `JoinThread`, `FreeDone` |
| `ThreadFunc` | `WaitStart`, `CountFinished`, `CompareFinished` |
| `ThreadFunc2`, reading | `WaitRead`, `PassStop`, `ReadBlock`, `ReadFails`, `GetBlock`, `StartNext`, `PassRead` |
| `ThreadFunc2`, coding | `GetBuf`, `Code`, `CodeFails`, `Publish` |
| `ThreadFunc2`, writing | `Write`, `Advance`, `ReleaseBlock`, `TakeReady` |

`OrderedCoder.tla` is the abstract coder: reads at most `numBlocksMax + 1` chunks ahead of
the output, writes in order, succeeds only with everything written, fails only after a fault.

Run `mt_coder` (`MCMtCoder.tla`) makes the sequences of calls `MCPlans`: one call with two threads
over a ring of three blocks and inputs of 1, 2 and 4 chunks, which wrap it; one with three
threads, where the starts form a chain and a writer drains several ready blocks; three calls with
one thread; a call with one thread and then one with two, for the state that a call leaves to
the next.  The read, the encoder, the write and the creation of a thread may fail in all of
them but the one with three threads.

The properties: `TurnToWrite` (blocks are written in order and the turn to write is in one
place), `ResourcesExact` (each slot of `blocks[]` has one owner and `blocksSemaphore` counts the
free ones; each output buffer is in one place, and the free list cannot run out),
`FinishedIsQuiescent` (the caller is woken only when no thread works), `OkMeansComplete`,
`ImplementsOrderedCoder`, and `CallsReturn` under weak fairness of the caller and of each
thread (the callbacks return, the scheduler runs every thread).

**After a failed block.** When `Code` fails for a block, its thread passes the turn on
without writing, and a thread whose own result is `SZ_OK` then writes the blocks after it
(`writeRes` is set only by a failed `Write`).  The output may so have a gap; the call
returns the error.  `TurnToWrite` and `OrderedCoder!Write` say exactly this.

### A stale comparison ends the next call

`ThreadFunc` increments `numFinishedThreads` and compares the result with
`numStartedThreads` in two steps.  With two threads, the first may be preempted between them
holding `numFinished = 1`; the second finishes the call.  The next `MtCoder_Code` on the same
object (`Lzma2Enc_Encode2` and `XzEnc_Encode` keep the `CMtCoder` between calls) sets
`numStartedThreads` to 1 for its first thread; the late comparison now succeeds and sets
`finishedEvent`, and the call returns `SZ_OK` while its own thread has written nothing.
Run `mt_coder_stale_finish` shows it step by step.  Within one call, and between calls when a
single thread is used, `FinishedIsQuiescent` and `OkMeansComplete` hold.

### Proofs (`MtCoderProofs.tla`)

`WokenWhenQuiet` proves `FinishedIsQuiescent`, `WritesTheNextBlock` proves `TurnToWrite`,
`NothingHeldTwice` proves `ResourcesExact`, `OkIsComplete` proves `OkMeansComplete`, `Refinement`
proves `ImplementsOrderedCoder` and `TypesHold` proves `TypeOK`, for any number of threads and blocks, any inputs and
any failures.  They assume `OneThreadUntilTheLast`: of a sequence of calls only the last may start
more than one thread.  After any other call the stale comparison above is possible, and then
`FinishedIsQuiescent` and `OkMeansComplete` are false.

`FinishedIsQuiescent` is not inductive, as it says nothing of how the count that wakes the caller
comes about.  The invariant adds

- for each place of the caller, what the threads do (`Places`): at rest before a call (`Rested`),
  at most the first of them being stopped (`Joining`), and inside a call (`InCall`) the threads
  below `numStartedThreads` started and the others not created;
- that the threads counted and the threads at work are all the threads started,
  `numFinishedThreads + Cardinality(Working) = numStartedThreads`.  A thread that starts another
  is at work itself, so that the last one to be counted sees the number of all of them;
- that a thread before its comparison holds a count of this call, and that none is there when a
  call with one thread has ended: this is where the assumption is used;
- the turn (`Turn`) and that a thread that was not created does not run (`Created`).

The other two need to know which chunk each slot and each buffer holds.  Inside a call three
numbers describe it (`Ring(w, n, done)`): `done` blocks have left the ring, the slots in use are
the `n` from `w` on, around the end of the ring, and so the block in the slot `b` is the chunk
`done + Pos(w, b) + 1` of the input.  The invariant says

- `Slots`: `blockIndex` is the end of that interval and the writer at its begin; each slot in it is
  ready or with one thread, no other one is; `blocksSemaphore`, the `n` slots and the threads about
  to release one add up to the size of the ring;
- `Stack`: the free list has no buffer twice, and the buffers that this call does not use stay at
  its end;
- `Owners`: a buffer is free or belongs to one block, and a block has at most one.  That the list is
  not empty when a thread takes a buffer is a pigeonhole argument: each buffer that is not free
  belongs to another block of the ring, and the block of that thread has none (`BufferLeft`);
- `ThreadOK`, `BlockOK`, `Progress`: the chunk that each thread and each waiting block holds, and
  what was written, as long as there is no error; an error anywhere is in `mtProgress.res`;
- `Token` and `Calm`: one thread reads, and outside a call nobody is inside.

`GetBlock` makes the interval longer by one, `Advance` moves its begin; the other steps leave it.

The result of the call needs one thing more, how the end of the input is found.  `End` says that
the reader of the last chunk sets `stopReading`, also when it is reading that it finds nothing left,
and that no thread leaves its loop but for `stopReading` or an error.  So when the last thread is
counted and there was no error, everything was read; no thread holds a block and no block is ready,
since the writer takes a ready block at its turn, and the ring is empty (`Quiet`).  With `n = 0`,
`Progress` makes what was written equal to what was read: `Outcome`, from which `OkMeansComplete`
follows.  The refinement is then one lemma for each action, a step of `OrderedCoder` or a stutter.
`Rest` adds the bounds on the counters of threads that `TypeOK` states and the others do not use.

## 5. Multithreaded match finder

`MatchFinderMt.tla` models the chain HASH thread -> BT thread -> encoder (thread "LZ").
The fields of the two `CMtSync` are functions over `{"hashSync", "btSync"}`; the HASH
thread produces for the first and the BT thread, its consumer, for the second.  A block is
the run it was made in and its number there; what it holds is left out, but for the
failure mark of a BT block.  `hashLeft` is `hashBufPos # hashBufPosLimit`.  A run is a
stream: `MatchFinderMt_InitMt` to `MatchFinderMt_ReleaseStream`.

| code | actions |
|---|---|
| `MatchFinderMt_Create`, `MatchFinderMt_InitMt`, `MatchFinderMt_Init` | `MatchFinderMt_Create`, `MatchFinderMt_InitMt`, `InitMtFails` |
| `MtSync_GetNextBlock` | `GetFirstBlock`, `SignalStart`, `FreeBlock`, `ReleaseFree`, `WaitFilled`, `LockBuffer` |
| `MtSync_StopWriting` | `StopWriting`, `SetStop`, `ReleaseStop`, `WaitStopped` |
| `MatchFinderMt_GetNextBlock_Bt`, `MatchFinderMt_ReleaseStream` | `GetNextBlock_Bt`, `ReadHeader`, `ReleaseStream` |
| `MatchFinderMt_Destruct`, `MtSync_Destruct` | `MatchFinderMt_Destruct`, `Released`, `SendExit`, `Join`, `Close` |
| `HashThreadFunc` | `WaitStart`, `HashLoop`, `HashEntersBt`, `HashEntersHash`, `MoveBlock`, `HashLeavesBt`, `WaitFree`, `HashFill`, `ReleaseFilled`, `Stopped` |
| `BtThreadFunc`, `BtFillBlock`, `BtGetMatches` | `WaitStart`, `BtLoop`, `WaitFree`, `BtFillBlock`, `GetNextBlock_Hash`, `BtNewHeads`, `BtEndOfStream`, `BtHeadsUsed`, `BtMatchesFull`, `BtDataFailure`, `BtFailed`, `ReleaseFilled`, `Stopped` |

`needStart`, `exit` and `stopWriting` are not set by `MtSync_Construct`: `Init` gives them any
value.  `BUFFER_MUST_BE_LOCKED` and `BUFFER_MUST_BE_UNLOCKED` end the process when they
fail; they are guards in the model, and `UsedUnderLock` says that they hold wherever they are
evaluated, so that no guard hides an `exit(1)`.

Run `match_finder_mt` (rings of 2 blocks, up to 3 blocks in a run, streams of 0 and of 3 hash
blocks, 2 runs, failures of thread creation, of the start and of the data):

* `BlockIntact`: the block the consumer uses is the next one of this run, and the producer
  is not writing into its slot;
* `SemaphoresExact`: free, filled, being filled and held slots add up to the ring, and no
  release is refused.  `MtSync_StopWriting` releases `freeSemaphore` without knowing its count
  ("check semaphore count !!!", `C/LzFindMt.c:175`).  The answer is that it always fits: a
  consumer that stops a running producer always holds a block, whose slot is not counted;
* `UsedUnderLock`: who uses the window holds its lock, and it is moved only when neither
  consumer uses it;
* `EndsCleanly`: what a stop leaves is what the next start expects, and the critical sections
  are deleted when nobody enters them any more (the comment of `MatchFinderMt_Destruct`);
* `ImplementsQueues`: each link implements the queue of `BlockQueue.tla`;
* `CallsReturn`: the encoder gets its block and the stop returns.

The encoder may end a stream at any block, also before the first and after a failure, since
`LzmaEnc_CodeOneBlock` returns there on errors of the progress or the output.  Fairness is weak
fairness of each thread: none of them waits for anything but the objects of the model and the
input stream.  The encoder's own unlocked read of the stream's error (`CheckErrors`) is left
out.

### Proofs (`MatchFinderMtProofs.tla`)

For rings of any size (one block included), streams of any length, any number of blocks and
runs, and every subset of the failures: `TypeOK`, the four safety invariants and
`ImplementsQueues`.  The only assumption is `MtAssumption`.

None of the invariants is inductive: each speaks of what a link looks like while a block is used,
and it is the stops and restarts that bring it there.  `IInv` says the same of both links, in
terms of the *roles* of the two threads on a link (`PRole`: searches for a free slot, fills it,
ends; `CRole`: inside or outside the critical section, or in one of the calls), because the BT
thread is on both links and most of its steps change its role on at most one:

* `Signals`: what the flags and events of a link that runs are, given the roles;
* `Slots`: each slot is free, filled, being filled, with the consumer, or is the one that was
  freed to wake a producer that has to stop.  This equation holds through a stop too, where
  `SlotsCounted` says nothing, and it is why no release is refused;
* `Numbers`, `InPlace`: the blocks from the one that the consumer has to the last one made are in
  their slots.  They are fewer than the ring has slots (from `Slots`), so their slots differ
  (lemma `Remainders`), and a block that is filled replaces none of them;
* `QuietLink`, `AbsentLink`: a link between two runs, and one that does not exist;
* `Owners`: who is inside which critical section; `Nested`: the HASH thread runs only inside a
  run of the BT thread, and its link is fresh when a run begins; `Main`: where the LZ thread is in
  `MatchFinderMt_Destruct`, and which links exist there.

The lemmas `X_Link` show for one link, whichever it is, that a step on it keeps `RunningLink`;
`Aside` is what a step leaves alone on the other one.  For the refinement `QueueStep` has the
steps of `BlockQueue` for a link `s`, and `StepOfQueue` shows that every step is one of them or
none.

## 6. Synchronization objects

`PosixSync.tla` models `Event_*` and `Semaphore_*` of `C/Threads.c` and the `*_WFMO` classes of
`CPP/Windows/Synchronization.h` on POSIX: a mutex, a condition variable, and a field of each
object.  A `*_WFMO` object shares the two with the others of its `CSynchro`; an object of
`Threads.c` has its own, which is the case of one object and waits for one object.  The
threads make any of the `Calls`, any number of times.

| code | actions |
|---|---|
| `Event_Set`, `CBaseEvent_WFMO::Set` | `Enter`, `Set`, `Broadcast`, `Leave` |
| `Event_Reset`, `CBaseEvent_WFMO::Reset` | `Enter`, `Reset`, `Leave` |
| `Semaphore_ReleaseN`, `CSemaphore_WFMO::Release` | `Enter`, `Release` or `ReleaseRefused`, `Broadcast`, `Leave` |
| `Event_Wait`, `Semaphore_Wait`, `WaitForMultiObj_Any_Infinite`, `IsSignaledAndUpdate` | `Enter`, `WaitTakes` or `WaitBlocks`, `SpuriousWakeup`, `Leave` |

`SyncObjects.tla` says what they promise: a call takes effect in one step between its start and
its return, and a wait takes the first of its objects that is signaled.

Run `posix_sync` (`MCPosixSync.tla`: 3 threads, an auto-reset and a manual-reset event, a
semaphore of maximum 2, releases of 1 and 2, waits for one and for any of two, every initial
state): `NoLostWakeup`, `ImplementsSyncObjects`, and `NoWaitForever`, which says that a wait whose
object stays signaled ends unless others take the mutex over and over again.  Nothing bounds
the number of calls, and fairness is only that a thread in a call goes on when it can: POSIX
does not say that a mutex is given in turn, so the exception in `NoWaitForever` is the code's.

### Proofs (`PosixSyncProofs.tla`)

For any threads, objects, maxima and calls allowed by `SyncAssumption`, and a value `NoThread`
that is no thread: `TypeOK`, `NoLostWakeup` and the refinement of `SyncObjects`.  The inductive
invariant adds `MutexOwner` (the owner of the mutex is the thread between lock and unlock) and
`CallState` (a call has a result from its effect on).  The argument for `NoLostWakeup` is
`NobodyMissed`: a thread that owns the mutex without being about to broadcast knows that no
blocked thread has anything to take, and it can only lower what there is.

## 7. Block-parallel decoder

`MtDec.tla` models `MtDec_Code` and its threads with `Lzma2DecMt_Decode` as the client: the
callbacks `Parse`, `PreCode`, `Code` and `Write`, and `Lzma2Dec_Decode_ST`, which goes on with
one thread.  The fields of `CMtDec` are the record `p`, those of a thread are `canRead`,
`canWrite`, `inBuf` (the list of links) and `filled` (`inDataSize_Start`, `inDataSize`), and
`loc[t]` holds the locals of `MtDec_ThreadFunc2`.  The stream is a sequence of units; a unit's
kind is all that the parser and the decoder see of it.

| code | actions |
|---|---|
| `Lzma2DecMt_Decode`, `MtDec_Code` | `MtDec_Code` (set-up and the start of thread 0), `MtReturn` |
| `MtDec_ThreadFunc2`, reading | `WaitRead`, `LinkFails`, `ReadCross`, `ReadLink`, `Check`, `StartNext` |
| `MtDec_ThreadFunc2`, decoding and writing | `Code`, `WaitWrite`, `Deliver` (the writes of the block, then the tokens or the filled threads) |
| `MtDec_PrepareRead`, `MtDec_Read`, `Lzma2Dec_Decode_ST` | `Prepare_ST`, `ReadFilled`, `ReadRest`, `ReadStream` (each with `Consume`) |
| `MtDec_Destruct` | `Destruct`, `CloseThread`, `JoinThread` |

Run `mt_dec` (`MCMtDec.tla`):

* `OutputInOrder`: nothing is left out or decoded twice, neither where a block ends inside a
  buffer nor where one thread takes over what the ring had read;
* `TokensInRing`: `canRead` is in one place, and `canWrite` is with the oldest block at work;
* `AllDecoded`: without a failing callback of the caller, all data before the end or the first
  damage is decoded, although other blocks were interrupted, or the ring lacked memory or threads.
  The ring never reports that: one thread takes over.  But that thread allocates too
  (`Lzma2Dec_Prepare_ST`: its tables, its window, its input buffer), and when it cannot, the call
  ends with `SZ_ERROR_MEM` and the rest of the data not decoded (`Prepare_ST`), which `AllDecoded`
  excepts by that result;
* `ReturnedIsQuiet`: the caller may use the threads' buffers when `MtDec_Code` has returned;
* `CallsReturn`.

Observed, and not stated as a property: after a write that fails in the ring, or a stream that
is damaged or ends inside a block, `Lzma2DecMt_Decode` returns `readRes`, which may be `SZ_OK`
(`C/Lzma2DecMt.c:934`), where the path with one thread returns the error.  The callers in
`CPP/7zip/Compress/Lzma2Decoder.cpp` compare the sizes and ask their own streams.  So
`AllDecoded` says nothing of the result of a damaged stream.

### Proofs (`MtDecInvariant.tla`, `MtDecProofs.tla`)

Proved for every number of threads, buffer size and plan of calls, and whatever the stream holds
and fails: `TokensInRing` (`TokensStayInRing`), `ReturnedIsQuiet` (`ReturnedRingIsQuiet`) and
`OutputInOrder` (`OutputStaysInOrder`).

`MtDecInvariant.tla` defines the two inductive invariants and the effects to which the actions
are reduced, `MtDecProofs.tla` has the proofs. The inductive invariant of the tokens is
`Control == Types /\ Phase`. `Phase` says for each part of a call where the tokens are: with no call in
progress nobody was told anything; in the ring (`Tokens`) one thread has the turn to read
(`ReadTurn`: it is told to read, or reads, or has the last block) and one the turn to write
(`WriteTurn`: its block is the oldest), the blocks at work have different numbers below
`blockIndex`, and a block that is not the last has its successor in `next` (`Chain`); then
thread 0 alone is told to return (`Exiting`), and returns (`Returned`). Neither token could be
followed alone: that the writer's successor has the next block comes from the reader's
hand-over, and that the ring starts again at a thread that waits comes from the last block being
the only one.

A thread's action is first reduced to its effect on the tokens: it works on (`Inside`), takes a
token (`TakesRead`, `TakesWrite`), passes canRead on (`PassesRead`, with or without a new thread),
ends (`Exits`) or gives its block up (`Delivers`).  The invariant is then kept by these effects,
whatever the data is.

`OutputInOrder` rests on `Control` and on a second inductive invariant, `Data`.  That the next
block to be written is the one after what was written follows only if it is known of every block
at work where it starts and ends, and that has to hold through the ring, its end, the blocks that
are kept, and the one thread that goes on.  Its parts:

- `Stored`: the output and the cross buffer are runs of the stream (`Run`), the latter from `Edge`,
  where the next block starts, to `pos`.
- `Blocks`: what a block is by itself.  Its links hold a run of the stream (`Laid`): the first link
  has `start` units of it, the others `InBufSize`, the last the rest, and what lies behind is not
  of the block.  A block that is being read grows at its end; one that is read is to be decoded, is
  broken, or is the last; what was decoded of it is a beginning of that run (`Coded`).
- `Joined`: a block ends where the block in `next` starts, and the newest at `Edge` or at a unit at
  which decoding stops.  `Around`: `next` is the next index, and 0 only once the ring is complete:
  the order in which `MtDec_Read` takes the kept blocks later.
- `Interrupts`: what a thread has found is known to all (`Told`), `wasInterrupted` and
  `needContinue` say what the block being delivered has (`Recorded`), and an interruption that is
  not yet recorded comes from a block at work that is not after it.
- `Written`: as long as nothing was given up (`Open`) the block that has the token to write starts
  where the output ends (`InTurn`); after that, if one thread is to continue, the kept blocks form
  a chain from the end of the output (`KeptRun`), the block with the token follows it (`KeepTurn`),
  and when the ring has ended the chain ends at `Edge` or where decoding stops (`TailEnds`).
- `Resumed`: the one thread consumes that chain, the first link of a block apart from the others
  (`Begun`), then the cross buffer, then the stream.

The actions are again reduced to effects (`Taken`, `Works`, `Gives`, `Keeps`, `Feeds` and so on), and
each part of `Data` is shown to be kept by each effect.  The lemmas about `Laid` say what putting a link,
reading one and dropping the first do to a run; they are what the arithmetic of `start`, `size` and
`InBufSize` in the code has to fulfil.

TLC finds `Control` and every part of `Data` true in all states of run `mt_dec`; the proofs show
that they are inductive for all constants.

## 8. Multithreaded zip update

`ZipUpdateMt.tla` has the loops of `Update2`, the threads of `CThreads`, the memory streams
they write to (`COutMemStream`) and the pool of blocks (`CMemBlockManagerMt`).  A unit of data
is named by item, pass and number, so that data of the wrong item, or of a method that was
given up, is visible.

| code | actions |
|---|---|
| `Update2`, starting coders | `CreateThread`, `NextMtItem`, `PassDirect`, `PassAbsent`, `StartThread`, `GetStreamFails` |
| `Update2`, writing items | `NextItem`, `SkipItem`, `WriteDirect`, `WriteFinished`, `OpenItem`, `HeaderFails`, `Lock`, `GetFreeItem`, `CoderFailed`, `CloseItem`, `DetachData`, `WriteCentralDir` |
| `CThreadInfo::WaitAndCode`, `CAddCommon::Compress` | `WaitWork`, `CallWrite`, `EndCompress`, `NextMethod`, `CompressFails`, `ReleaseItem`, `ReleaseSem` |
| `COutMemStream` | `WriteReal`, `WriteBlock`, `WaitStop`, `WaitReal`, `WaitBlock`, `AllocateBlock`, `WriteToRealStream` |
| `~CThreads`, `Update` | `StopWriting`, `StopWait`, `Wait_Close`, `FinalFlush` |
| `CMemBlockManagerMt::FreeBlock` | `FreeBlock`, `ReleaseBlock` (the list, then the semaphore) |

Run `zip_update_mt`: `ArchiveExact`, `OkMeansWritten`, `BlocksExact`, `OneWriter`, and
`UpdateReturns`: the coder at the front waits for a block *or* for its turn, so the pool may be
as small as zero.  `Update2` does not look at the result of `WriteToStream` for a finished
item.  For an error of a write that does no harm, as `CCacheOutStream` keeps it in `_hres`
(`hres`, `KeptFails`) and fails again at the next write, whose result is looked at.

### A restriction that fails

With volumes below, `CCacheOutStream::MyWrite` also tells them which part is final, and they
close and rename the volumes in it.  `MyWrite` returns an error of that (`SetRestriction`) without
keeping it in `_hres`, and has raised `_restrict_phy` before, so that it does not ask again
(`RefusedFails`).  The next write succeeds.  Where the result of a write is looked at, the update
ends with it; in `WriteToStream` the item ends where the error was met, its header says all of it,
and `Update` returns `S_OK` (`DropError`; `dropped` remembers it), which is
"Successful operation" for the program (`CPP/7zip/UI/Common/ExitCode.h:10`), unless the volumes meet
an error again when they are closed.  An item that is finished before its
turn is enough: `ZipUpdateMtRestriction.cfg`, in which only a restriction may fail, makes TLC print
the steps to a violation of `OkMeansNoError`.  Run `zip_update_mt` has this failure along with all
the others, and shows with `OkMeansWritten` that it is the only way in which `S_OK` can leave data out.
What is left out leaves zeros in the
file up to the place where the next item begins; the model has only what was written.

### Proofs (`ZipUpdateMtProofs.tla`)

`ArchiveIsExact`, `OkIsWritten`, `NoBlockLost` and `ArchiveHasOneWriter` prove the four invariants
for any number of threads, any lists of items, any sizes of the pool, of its blocks and of the
writes, any number of methods to try, and any subset of the faults.  `UpdateReturns` is a liveness
property and only model-checked.

None of the four is inductive: what is in the archive depends on which thread has which item, which
one was told that it is its turn, and what its stream holds at that moment.  `IInv` has six parts.

- `Types` (also `TypesHold`): what the variables range over, and where each thread can be.  A thread
  that frees blocks is at `free` or `releaseBlock`; `Place` is where it goes then.
- `Blocks`: the sum of `BlocksExact`, and that neither a stream without an item nor an item that is
  not finished has a block.
- `Rest`: a thread that is not in `threadIndices`, or is in the list of the finished ones, or is being
  collected, is at rest and will not begin with an item; the list has no thread twice, and is as long
  as its semaphore counts, but for a release that is still to come.  So the thread that
  `GetFreeItem` returns has an item and is not at it any more.
- `Order`: the threads of `threadIndices` are in the order of their items, and these are just the
  items that were started and are neither written nor finished (`Pending`).  So the current item,
  if it is one of them, is that of the first thread of `threadIndices`: the test `t == 0` in the
  code is the test whether the thread found is that of the current item, and the `E_FAIL` after it
  is never returned.
- `Turns`: a thread that was told to write to the archive, or has begun to, has the current item,
  and was told in this turn (`main.lastReal = main.item`).
- `ArchiveFits`: the items written are those before the current one in their order; a finished item
  has in memory all the units of its last method; and for each thread, `DataFits`: as long as its
  stream is not at the archive, the memory has all that the coder has written; then the archive
  itself, from `offset` on.  With nothing lost (`Lost` is `failed \/ dropped`) the archive is
  `Written \o Current`, where `Current` is the header of the current item and what its thread has
  written there.  `FailureSeen`: an error that was returned to one who looks at it is kept in
  `_hres`, or is the result of the update, or of a coder that is still to be collected; so that
  `S_OK` leaves only the dropped ones.  `PositionFits`: the archive ends where the thread that writes to
  it is, by its own count.

`StartThread`, `CloseItem` and `DetachData` change which thread has which item, `WriteToRealStream`
moves the data from the memory to the archive, and `Rewound` drops those of a method that is given
up: each has a lemma for every part that it can disturb.  The other steps of the main thread touch
few of the parts, and those of a thread leave all of the update alone (`ThreadEffects`).  Sums over
the threads, the items and the actors are numbers of pairs (`Total`), of which `TotalExcept` says how
one changed value changes them; the concatenation of what was written is the last value of a function
of the number of items (`Partial`).

## 9. Write cache

`CacheOutStream.tla` models `CCacheOutStream`: a ring buffer over the end of the archive, from
which a header can be taken back before it gets to the disk, and a restriction that tells the
volumes below which part is final.  The user's side is what `COutArchive` does: it writes at the
end, and goes back only behind the place it restricted.  The code never looks at the data, so
one marked unit among equal ones is enough to show any loss, stale cell or wrong place.  `_phyPos`
is left out: `MyWrite` seeks whenever it is not where the data goes.

`OutFile.tla` is a file.  Run `cache_out_stream` (a ring of two blocks of two units, a file of up
to 7): `ImplementsOutFile`, and `RestrictionKept`, which says that what was told to be final is
never written again nor cut.  A write below may fail, which is kept, and so may a restriction, which
is not (section 8).  The call that meets the latter is cut short at that place, with the data taken
or not, and the cache is as usable as before (`Refused`).  The user may not have seen it and go on
(`WriteRefused`, `dropped`): it then takes the end of the file to be where it meant to write to,
and may leave a gap.  Both properties hold all the same: the cache loses nothing but what the refused
`Write` did not take.

## 10. Coder mixer

`CoderMixerMt.tla` models `CMixerMT::Code` with its caller, the `CVirtThread` of every coder but
the main one, and the streams between them, whose ends are those of `Pipe`: a `Write` offers one
unit here, since a pipe of any other size does the same in more steps (section 3).  A coder
works in rounds, one unit of each stream, and may fail or throw at any time.  It may end before its source only in
a decoder, which knows how much it needs; the coders of an encoder read to the end of their input.
`Decodes` tells the two apart where it matters: only a coder of an encoder has two streams to
write to.

| code | actions |
|---|---|
| `ReInit2`, `SelectMainCoder`, `Init` | `BeginCall` |
| `CMixerMT::Code` | `Create`, `StartsAll`, `Start`, `CodeMain`, `MainEnds`, `WaitFinish`, `Return` |
| `CoderThread` | `WaitStart`, `Finish` |
| `CCoderMT::Code`, `Release`, and the coder's own `Code` | `Read`, `ReadUnit`, `ReadEnd`, `Write`, `WriteReturns`, `WriteCut`, `EndEarly`, `Fail`, `Throw`, `Release` |
| `~CMixerMT`, `WaitThreadFinish` | `Destroy`, `TellExit`, `Wait_Close` |

`own` is a history variable: the error that a coder itself had, as opposed to what it returns
because its neighbour ended.  `Result` is not reset by the code; `"old"` is what the last call
left there.  The mixer is used again only after the results with which `CHandler::Extract` goes
on.

Run `coder_mixer_mt` (a chain, a tree of a decoder and one of an encoder): `CauseReported` (the
priorities of the results in `Code` find the cause, not a consequence), `ReturnedIsQuiet`,
`CallsReturn` (no circle of coders waits for each other).  An exception of the main coder leaves
`Code` with the others at work, so `ReturnedIsQuiet` leaves it out; the destructor then waits for
them, which `CallsReturn` covers.

### Proofs (`CoderMixerMtProofs.tla`)

Both safety properties, for any number of coders, any folders allowed by `MixerAssumption`, any
bounds and failures.

`ReturnedIsQuiet` speaks only of the end of a call; the invariant `IInv` follows the call.  `Fits` says how far each coder may be, by the place of the caller in its loops: quiet until
its event is set; then `Active`, which is started, inside, or finished with its ends closed; and
quiet again when it has been waited for.  `Offers` says that a unit is offered only while its
writer waits in the `Write` that offered it, so that nothing is left in a stream of quiet
coders; `Runs` says that only its thread, or the caller, is at a coder.  Inside a call ends of
streams only close (`Closing`), from which `AsideFits` has that a step of one coder leaves the
others where they were.

`CauseReported` needs `Reports` on top of `IInv`.  `EndFits` says, by the places of the coder and
of the caller, whether a coder has ended in this call: the results of the last call are still there
until it does, and `Code` must not read one of those.  `Kept` says that the error a coder had
itself is the result it leaves.  With these, a call in which a coder failed finds an error to
return, and `Verdict` shows from the order of the searches that it is a cause.  The other half is
that `Code` makes no error up: a coder whose input ends returns `S_FALSE`, which is wrong when the
input ends only because its writer was cut.  While nobody failed (`NoCause`), a stream is
closed only by a coder that has ended; in a decoder a coder is cut only by the one that reads from
it, which has ended then and no longer reads; in an encoder no coder ends before its source, so none
is cut.  So the writer of a stream that ends under its reader has `S_OK`.  `Order` does not hold
where a coder that follows a branching one ends early: the branching coder is cut and its other
reader sees a damaged stream.  Three coders are too few for that to reach the result;
encoders do not do it, and `EndEarly` leaves it out.

## 11. Multithreaded BZip2 encoder

`BZip2EncMt.tla` models `CEncoder::Code` with two threads or more.  What happens inside `CS` is one
step, as nothing waits in it.  The turn to write goes around `CanWriteEvent`, which belongs to
the block number modulo the threads; the threads meet the caller twice at the end of a call,
after the stream and before the next.

| code | actions |
|---|---|
| `ThreadFunc` | `Process`, `Close`, `SeeFinished`, `ReadRleBlock`, `ReadEnd`, `ReadFails` |
| `EncodeBlock3` | `TakeTurn`, `WriteBytes`, `Pass`, `WriteFails` |
| `FinishStream` | `Failed`, `StartWaiting` |
| `Create`, `CodeReal`, `Code` | `BeginCall`, `Create`, `Start`, `AllocFails`, `WaitFinished`, `AllFinished`, `WaitWaiting`, `AllWaiting`, `Flush`, `Return` |
| `Free` | `Destroy`, `Wait_Close`, `Freed` |

Run `bzip2_enc_mt` shows that the encoder implements the same `OrderedCoder` as `MtCoder`, with
one block for each thread in flight, call after call (`ImplementsOrderedCoder`), and that a call
returns unless a write has failed (`ReturnsUnlessWriteFails`).  An encoder whose threads could not
be created is not used again.

`BZip2EncMtProofs.tla` proves `ImplementsOrderedCoder` for any number of threads, any inputs, any
number of calls and any failures.  The property is about block numbers and the code has only their
remainders modulo `NumThreads`; the inductive invariant connects the two:

- every block read and not written is with exactly one thread (`Distinct`, `Covered`).  So there
  are at most `NumThreads` of them, and fewer when a thread is about to read, since that thread has
  none (`Pigeonhole`);
- the index of a block, the index of the next one, and that of the event that is set follow the
  block's number, the number of blocks read and the number written around the ring (`Numbers`,
  `NextNumber`, `TurnInEvent`).  Two numbers less than `NumThreads` apart with one index are equal
  (`SameIndex`): a thread that finds its event set has the block that comes next;
- the turn is set in one event, or with one thread, or lost for good after a failed write
  (`OneTurn`, `TurnLost`);
- an error is in `Result` or in a thread that is about to put it there, and the stream ends only
  after an error or with everything read (`ErrorKept`, `EndSeen`);
- where the threads can be at each point of the call: at rest, coding, or on one side or the other
  of the second wait (`Resting`, `FirstWait`, `SecondWait`, `Closing`).  Without it a thread of
  one call could be found at work in the next.

### A failed write and the next turn

`WriteBytes` throws when the output stream fails.  The handler in `ThreadFunc` ends the stream,
but the event of the next turn is set only after the write.  A thread with the next block waits
for it without end, and `CodeReal` for that thread.  Run `bzip2_enc_write_error` shows it, and
deadlock is not checked in these two runs because of it.

## 12. Multithreaded BZip2 decoder

`BZip2DecMt.tla` models `CDecoder::Code`.  It starts with one thread; from some block on, which
the code chooses by its size and the model at will, the scout thread parses ahead.  The two
share the parser, the buffer and `CBlock`, and take turns by `DecoderEvent` and `ScoutEvent`.  A
block is its place in the input, which also stands for its CRC.  A block that cannot be read is
damaged (`S_FALSE`), or the input ends inside it, or fails there with its own error (`Meets`).

| code | actions |
|---|---|
| `Code`, `DecodeStreams` | `BeginCall`, `FirstStream`, `ProgressFails`, `Finish`, `ParseEnd`, `ParseBlock`, `ReadNext`, `TakeBlock`, `DecodeBlock1`, `StartScout`, `Return` |
| `DecodeBlock`, `Flush`, `WaitScout` | `StopAtLimit`, `DecodeBlock`, `Flush`, `WaitScout` |
| `RunScout` | `ScoutBegin`, `ScoutReadSignature`, `ScoutReadBlock`, `ScoutHasBlock`, `ScoutNextStream`, `ScoutDone` |
| `~CDecoder` | `Destroy`, `Wait_Close` |

`BlockDecoder.tla` is the decoder without the scout: the blocks in order, each with its own CRC,
`S_OK` only at the end of a sound input or at the limit, and otherwise the error of what it met.
Run `bzip2_dec_mt` shows the refinement on every succession of up to four items and any item
after them, with a second call.

Observed: with the scout, a block that could be read is not written when what follows it is
damaged, while one thread writes it first.  The abstract decoder so leaves out at most one
readable block on an error; with no error it leaves out none.

## 13. Bounds

Each bound is a constant of a module:

| module | constants | why they are enough |
|---|---|---|
| `StreamBinder` | `MaxBytes`, `MaxSessions`, `WriteSizes`, `ReadSizes` | reads below, equal to and above a write; a second session on used objects |
| `MCMtCoder` | `MCPlans`, `MaxBlocks` | more chunks than blocks in the ring; three threads start one another; a call after any outcome of the one before, with as many and with more threads; the blocks follow the code's formula for the threads |
| `MatchFinderMt` | `kMtHashNumBlocks`, `kMtBtNumBlocks`, `MaxBlocks`, `StreamLengths`, `MaxRuns`, `Faults` | rings of 2 instead of the code's larger ones, and 3 blocks in a run, so that both wrap and the producer waits; a stream that ends before its first block; a second run on used objects |
| `MCPosixSync` | `Threads`, the objects, `MCMaxCount`, `MCCalls` | two threads can block while a third releases for both; releases fit and are refused |
| `MCMtDec` | `MCPlans`, `InBufSize` | a ring of three turns around; blocks end inside and at the border of a buffer; a second call, also with another number of threads |
| `MCZipUpdateMt` | `MCItemLists`, `PoolSizes`, `BlockSize`, `WriteSizes`, `MaxUnits`, `MaxPasses`, `Faults` | an item needs two blocks, so one item takes the whole pool while another is at the front; with no blocks every byte waits for the turn; more items than threads. After a restriction that fails the update goes on: an item is refused, and others are written before and after it |
| `CacheOutStream` | `MaxSize`, `MaxWrite` | the file is almost twice the ring, which wraps; a write is longer than a block |
| `MCCoderMixerMt` | `MCFolders`, `MaxUnits`, `MaxCalls` | every shape of three coders: in line, two into one, one into two; a second call on used threads |
| `BZip2EncMt` | `NumThreads`, `Lengths`, `MaxCalls` | four blocks go around the turns of three threads; a second call |
| `MCBZip2DecMt` | `MaxItems`, `MCLaterInputs`, `Limits` | all ways in which streams and blocks can follow each other, over two streams |

The proofs depend on none of them.

Fairness is weak fairness of each thread and of the caller inside a call: the scheduler runs a
thread that is not blocked, and the callbacks, streams and coders below return.  No run assumes
that a caller begins a call, but that of section 3, where the two callers are coders that go on.  Section 8 assumes only
that some thread runs as long as one can (`WF_vars(Next)`): an update is finite.

## 14. What is proved, what is only model-checked

Proved for all constants: all safety of sections 3, 4, 5, 6, 8 and 10, the refinements of
sections 3, 4, 5, 6 and 11, and the tokens and the order of the output of section 7.  Each proof is from the
assumptions on the constants in the module alone, and those of section 4 from the one on the
plans stated there.  `OkIsWritten` of section 8 excepts the dropped error of a restriction, which
is a case in which `OkMeansNoError` is false (section 8).  Model-checked only: `AllDecoded` of section 7 (that nothing is
left out at the end needs, besides `Data`, what each way to end a call has seen of the stream),
all of the sections 9 and 12, and liveness everywhere (`CallsReturn`, `NoWaitForever`, `UpdateReturns`,
`ReturnsUnlessWriteFails`), which is out of the prover's reach.

## 15. Running

    tlc -config StreamBinder.cfg StreamBinder
    tlc -config MtCoder.cfg MCMtCoder
    tlc -config MtCoderStale.cfg MCMtCoder            # the violation of section 4
    tlc -config MatchFinderMt.cfg MatchFinderMt
    tlc -config MCPosixSync.cfg MCPosixSync
    tlc -config MtDec.cfg MCMtDec
    tlc -config ZipUpdateMt.cfg MCZipUpdateMt
    tlc -config ZipUpdateMtRestriction.cfg MCZipUpdateMt  # the violation of section 8
    tlc -config CacheOutStream.cfg CacheOutStream
    tlc -config CoderMixerMt.cfg MCCoderMixerMt
    tlc -config BZip2EncMt.cfg BZip2EncMt
    tlc -config BZip2EncMtWriteError.cfg BZip2EncMt   # the violation of section 11
    tlc -config BZip2DecMt.cfg MCBZip2DecMt
    tlapm StreamBinderProofs.tla
    tlapm PosixSyncProofs.tla
    tlapm CoderMixerMtProofs.tla
    tlapm BZip2EncMtProofs.tla
    tlapm MtCoderProofs.tla
    tlapm MtDecProofs.tla                             # takes longest: about 20 minutes
    tlapm MatchFinderMtProofs.tla
    tlapm ZipUpdateMtProofs.tla

Every property of a run has in `PROJECT.json` a mutant of the code that breaks it; the mutated
operators stand in the modules beside the definition they change, marked `mutant`.

## 16. Not modelled

Failures of the synchronization objects themselves (`RINOK_THREAD`, errors of `pthread_*`); the
wrap of the 32-bit sum of count and release in `Semaphore_ReleaseN` (`C/Threads.c:461`), which no
user comes near: they release one item at a time, the stream binder one or two;
`Semaphore_OptCreateInit` of an existing semaphore, which writes without the mutex
(`EndsCleanly` and `FinishedIsQuiescent` show that its callers are alone then); memory ordering of
the plain fields (each step is atomic; `NoDataRace` and the ownership invariants show where that
matters not); progress callbacks other than the error they carry; a limited output and the pull
interfaces of the LZMA2 decoder and of `NSIS`; the xz decoder's callbacks over `MtDec`; `CMixerST`,
which is a chain of calls in one thread; the sequential stream adapters; the codecs' arithmetic,
filters, hashes and ciphers, whose state is bytes and tables; parsers and writers of archive
formats; user interfaces; vendored code.
