------------------------------ MODULE ZipUpdateMt ------------------------------
(***************************************************************************)
(* Update2 with several threads (CPP/7zip/Archive/Zip/ZipUpdate.cpp), the   *)
(* memory streams its coder threads write to (CPP/7zip/Common/              *)
(* OutMemStream.cpp) and the pool of memory blocks (CPP/7zip/Common/        *)
(* MemBlocks.cpp).                                                          *)
(*                                                                          *)
(* The main thread starts the coders ahead, one item for each thread, and   *)
(* puts the items into the archive in their order.  A coder writes into     *)
(* blocks of the pool.  The coder of the item whose turn it is gets the     *)
(* archive itself: it moves there what it has in memory when it runs out of *)
(* blocks.  An item that is finished before its turn keeps its blocks.      *)
(*                                                                          *)
(* The packed data of an item is a sequence of units <<item, pass, number>>;*)
(* a pass is one of the methods that Compress tries.  The archive is the    *)
(* sequence of headers <<item, 0, 0>> and units written to it.              *)
(***************************************************************************)
EXTENDS Integers, Sequences, FiniteSets, SequencesExt

CONSTANTS
  Threads,     \* the coder threads
  Main,        \* the thread that calls Update2
  ItemLists,   \* the lists updateItems of an update, by the kinds of their items
  PoolSizes,   \* the numbers of blocks that AllocateSpaceAlways may get
  BlockSize,   \* the units in a block
  WriteSizes,  \* the sizes of a coder's Write calls, in units
  MaxUnits,    \* bound: units of an item
  MaxPasses,   \* the methods that Compress tries (numTestMethods)
  Faults       \* the operations that may fail

\* A new file; a file that GetStream does not find any more; a folder or an item of
\* the old archive, which the main thread writes itself.
Kinds == {"file", "absent", "direct"}
FaultKinds == {"create", "stream", "direct", "code", "write", "restrict"}

ASSUME ZipAssumption ==
  /\ IsFiniteSet(Threads) /\ Threads # {} /\ Main \notin Threads
  /\ ItemLists \subseteq Seq(Kinds)
  /\ PoolSizes \subseteq Nat /\ BlockSize \in Nat \ {0}
  /\ WriteSizes \subseteq Nat \ {0} /\ MaxUnits \in Nat /\ MaxPasses \in Nat \ {0}
  /\ Faults \subseteq FaultKinds

Actors == Threads \cup {Main}
OK == "ok"
Results == {OK, "running", "E_FAIL", "E_ABORT", "write"} \cup Faults

VARIABLES
  updateItems, numBlocks,
  \* CMemBlockManagerMt: the blocks on its list, the count of its semaphore
  freeBlocks, semaphore,
  \* the blocks each thread has yet to free, and where it goes then
  toFree, after,
  pc,
  \* CThreadInfo: IsFree, CompressEvent, ExitThread, its COutMemStream, its coder
  isFree, compressEvent, exitThread, out, coder,
  \* CMtSem: the list from Head on, the count of Semaphore
  finishedList, finishedSem,
  \* the variables of Update2; refs.Refs; items
  main, threadIndices, refs, items,
  \* what was written to the archive; CCacheOutStream::_hres is an error
  archive, hres,
  \* history: an error of the archive was kept in _hres or returned to who looks at it;
  \* one that was neither was dropped
  failed, dropped

pool == <<freeBlocks, semaphore>>
info == <<isFree, compressEvent, exitThread>>
mtSem == <<finishedList, finishedSem>>
update == <<main, threadIndices, refs, items>>
output == <<archive, hres, failed, dropped>>
const == <<updateItems, numBlocks>>
vars == <<const, pool, toFree, after, pc, info, out, coder, mtSem, update, output>>

Goto(a, label) == pc' = [pc EXCEPT ![a] = label]
SetOut(t, o) == out' = [out EXCEPT ![t] = o]
SetCoder(t, c) == coder' = [coder EXCEPT ![t] = c]
SetMain(m) == main' = m
Smaller(a, b) == IF a < b THEN a ELSE b
Larger(a, b) == IF a > b THEN a ELSE b
First(s, n) == SubSeq(s, 1, Smaller(n, Len(s)))

Header(i) == <<i, 0, 0>>
Units(i, pass, first, last) == [k \in 1 .. last - first + 1 |-> <<i, pass, first + k - 1>>]

\* The archive takes the data, unless an error is kept.
Append2(units) == ~hres /\ archive' = archive \o units /\ UNCHANGED <<hres, failed, dropped>>

\* A write below fails: CCacheOutStream keeps the error, and goes on failing.
KeptFails_Once == "write" \in Faults /\ UNCHANGED output           \* mutant: forgotten
KeptFails ==
  /\ hres \/ "write" \in Faults
  /\ hres' = TRUE /\ failed' = TRUE /\ UNCHANGED <<archive, dropped>>

\* SetRestriction of the file below fails: MyWrite returns that, and does not keep it.
Refuses == "restrict" \in Faults /\ ~hres
RefusedFails == Refuses /\ failed' = TRUE /\ UNCHANGED <<archive, hres, dropped>>

WriteFails == KeptFails \/ RefusedFails

\* COutMemStream::Free and Init.
Emptied(o) == [o EXCEPT !.blocks = 0, !.size = 0, !.cells = <<>>]
InitStream_KeepEvent(o) == [Emptied(o) EXCEPT !.pos = 0, !.real = FALSE, !.unlockSent = FALSE]  \* mutant
InitStream(o) == [Emptied(o) EXCEPT !.pos = 0, !.real = FALSE, !.unlockSent = FALSE,
                                    !.realEvent = FALSE]

InitOut == [blocks |-> 0, pos |-> 0, size |-> 0, cells |-> <<>>, real |-> FALSE,
            unlockSent |-> FALSE, realEvent |-> FALSE, stopEvent |-> FALSE, offset |-> 0]
InitCoder == [item |-> 1, pass |-> 1, units |-> 0, rest |-> 0, result |-> OK, packSize |-> 0]
InitRef == [skip |-> FALSE, finished |-> FALSE, blocks |-> 0, size |-> 0, cells |-> <<>>,
            pass |-> 0, packSize |-> 0]

NumItems == Len(updateItems)

Init ==
  /\ updateItems \in ItemLists /\ numBlocks \in PoolSizes
  /\ freeBlocks = numBlocks /\ semaphore = numBlocks
  /\ toFree = [a \in Actors |-> 0] /\ after = [a \in Actors |-> "loop"]
  /\ pc = [a \in Actors |-> IF a = Main THEN "create" ELSE "none"]
  /\ isFree = [t \in Threads |-> TRUE]
  /\ compressEvent = [t \in Threads |-> FALSE] /\ exitThread = [t \in Threads |-> FALSE]
  /\ out = [t \in Threads |-> InitOut] /\ coder = [t \in Threads |-> InitCoder]
  /\ finishedList = <<>> /\ finishedSem = 0
  /\ main = [item |-> 1, mtItem |-> 1, lastReal |-> 0, ti |-> Main, result |-> "running"]
  /\ threadIndices = <<>> /\ items = <<>>
  /\ refs = [i \in 1 .. NumItems |-> InitRef]
  /\ archive = <<>> /\ hres = FALSE /\ failed = FALSE /\ dropped = FALSE

-------------------------------------------------------------------------------
(* CMemBlockManagerMt.                                                      *)

\* CMemLockBlocks::Free: `a' is about to free n blocks, and then goes to `label'.
FreeAndGoto(a, n, label) ==
  /\ toFree' = [toFree EXCEPT ![a] = n]
  /\ after' = [after EXCEPT ![a] = label]
  /\ Goto(a, IF n = 0 THEN label ELSE "free")

\* FreeBlock puts the block on the list, and then releases the semaphore.
FreeBlock(a) ==
  /\ pc[a] = "free"
  /\ freeBlocks' = freeBlocks + 1
  /\ toFree' = [toFree EXCEPT ![a] = @ - 1]
  /\ Goto(a, "releaseBlock")
  /\ UNCHANGED <<const, semaphore, after, info, out, coder, mtSem, update, output>>

ReleaseBlock(a) ==
  /\ pc[a] = "releaseBlock"
  /\ semaphore' = semaphore + 1
  /\ Goto(a, IF toFree[a] = 0 THEN after[a] ELSE "free")
  /\ UNCHANGED <<const, freeBlocks, toFree, after, info, out, coder, mtSem, update, output>>

-------------------------------------------------------------------------------
(* The coder threads: CThreadInfo::WaitAndCode.                             *)

WaitWork(t) ==
  /\ pc[t] = "idle" /\ compressEvent[t]
  /\ compressEvent' = [compressEvent EXCEPT ![t] = FALSE]
  /\ Goto(t, IF exitThread[t] THEN "exited" ELSE "code")
  /\ UNCHANGED <<const, pool, toFree, after, isFree, exitThread, out, coder, mtSem, update,
                 output>>

\* The coder calls Write.
CallWrite(t) ==
  /\ pc[t] = "code"
  /\ \E n \in WriteSizes :
       /\ coder[t].units + n <= MaxUnits
       /\ SetCoder(t, [coder[t] EXCEPT !.units = @ + n, !.rest = n])
  /\ Goto(t, "write")
  /\ UNCHANGED <<const, pool, toFree, after, info, out, mtSem, update, output>>

Return(t, res) ==
  /\ SetCoder(t, [coder[t] EXCEPT !.result = res])
  /\ Goto(t, "finish")

\* The position of the stream, which is what Seek(0, STREAM_SEEK_CUR) returns.
Position(t) == IF out[t].real THEN Len(archive) - out[t].offset ELSE out[t].pos

\* The end of a pass is the end of Compress: the data is small enough, or there is no
\* other method.
EndCompress(t) ==
  /\ pc[t] = "code"
  /\ SetCoder(t, [coder[t] EXCEPT !.packSize = Position(t), !.result = OK])
  /\ Goto(t, "finish")
  /\ UNCHANGED <<const, pool, toFree, after, info, out, mtSem, update, output>>

\* Seek(0), SetSize(0).  The blocks stay.
Rewound_KeepSize(o) == [o EXCEPT !.pos = 0]                         \* mutant: TotalSize stays
Rewound(o) == [o EXCEPT !.pos = 0, !.size = 0]

NextMethod(t) ==
  /\ pc[t] = "code" /\ coder[t].pass < MaxPasses
  /\ SetCoder(t, [coder[t] EXCEPT !.pass = @ + 1, !.units = 0])
  /\ IF out[t].real
     THEN archive' = SubSeq(archive, 1, out[t].offset) /\ UNCHANGED out
     ELSE SetOut(t, Rewound(out[t])) /\ UNCHANGED archive
  /\ UNCHANGED <<const, pool, toFree, after, pc, info, mtSem, update, hres, failed, dropped>>

CompressFails(t) ==
  /\ pc[t] = "code" /\ "code" \in Faults
  /\ Return(t, "code")
  /\ UNCHANGED <<const, pool, toFree, after, info, out, mtSem, update, output>>

-------------------------------------------------------------------------------
(* COutMemStream::Write.                                                    *)

Capacity(t) == out[t].blocks * BlockSize
NextUnits(t, n) ==
  LET c == coder[t] first == c.units - c.rest + 1
  IN Units(c.item, c.pass, first, first + n - 1)

WriteReal(t) ==
  /\ pc[t] = "write" /\ out[t].real
  /\ \/ /\ Append2(NextUnits(t, coder[t].rest))
        /\ SetCoder(t, [coder[t] EXCEPT !.rest = 0])
        /\ Goto(t, "code")
     \/ WriteFails /\ Return(t, "write")
  /\ UNCHANGED <<const, pool, toFree, after, info, out, mtSem, update>>

\* One turn of the loop: the part that goes into the current block.
WriteBlock(t) ==
  /\ pc[t] = "write" /\ ~out[t].real /\ out[t].pos < Capacity(t)
  /\ LET o == out[t]
         n == Smaller(coder[t].rest, BlockSize - (o.pos % BlockSize))
         end == o.pos + n
     IN /\ SetOut(t, [o EXCEPT !.pos = end,
                               !.size = Larger(@, end),
                               !.cells = SubSeq(@, 1, o.pos) \o NextUnits(t, n)
                                           \o SubSeq(@, end + 1, Len(@))])
        /\ SetCoder(t, [coder[t] EXCEPT !.rest = @ - n])
        /\ Goto(t, IF coder[t].rest = n THEN "code" ELSE "write")
  /\ UNCHANGED <<const, pool, toFree, after, info, mtSem, update, output>>

\* There is no block: the stream waits for any of its two events and the semaphore,
\* and takes the first that is signaled.
Waits(t) == pc[t] = "write" /\ ~out[t].real /\ out[t].pos >= Capacity(t)

WaitStop(t) ==
  /\ Waits(t) /\ out[t].stopEvent
  /\ SetOut(t, [out[t] EXCEPT !.stopEvent = FALSE])
  /\ Return(t, "E_ABORT")
  /\ UNCHANGED <<const, pool, toFree, after, info, mtSem, update, output>>

WaitReal(t) ==
  /\ Waits(t) /\ ~out[t].stopEvent /\ out[t].realEvent
  /\ SetOut(t, [out[t] EXCEPT !.realEvent = FALSE, !.real = TRUE])
  /\ Goto(t, "flush")
  /\ UNCHANGED <<const, pool, toFree, after, info, coder, mtSem, update, output>>

WaitBlock(t) ==
  /\ Waits(t) /\ ~out[t].stopEvent /\ ~out[t].realEvent /\ semaphore > 0
  /\ semaphore' = semaphore - 1
  /\ Goto(t, "allocate")
  /\ UNCHANGED <<const, freeBlocks, toFree, after, info, out, coder, mtSem, update, output>>

AllocateBlock(t) ==
  /\ pc[t] = "allocate"
  /\ IF freeBlocks = 0 THEN Return(t, "E_FAIL") /\ UNCHANGED <<pool, out>>
     ELSE /\ freeBlocks' = freeBlocks - 1
          /\ SetOut(t, [out[t] EXCEPT !.blocks = @ + 1])
          /\ Goto(t, "write")
          /\ UNCHANGED <<semaphore, coder>>
  /\ UNCHANGED <<const, toFree, after, info, mtSem, update, output>>

\* WriteToRealStream: TotalSize units of the blocks, which are then free.
InMemory(o) == First(o.cells, o.size)

WriteToRealStream(t) ==
  /\ pc[t] = "flush"
  /\ \/ /\ Append2(InMemory(out[t]))
        /\ FreeAndGoto(t, out[t].blocks, "write")
        /\ SetOut(t, Emptied(out[t]))
        /\ UNCHANGED coder
     \/ WriteFails /\ Return(t, "write") /\ UNCHANGED <<toFree, after, out>>
  /\ UNCHANGED <<const, pool, info, mtSem, update>>

-------------------------------------------------------------------------------
(* CMtSem.                                                                  *)

ReleaseItem(t) ==
  /\ pc[t] = "finish"
  /\ finishedList' = <<t>> \o finishedList
  /\ Goto(t, "release")
  /\ UNCHANGED <<const, pool, toFree, after, info, out, coder, finishedSem, update, output>>

ReleaseSem(t) ==
  /\ pc[t] = "release"
  /\ finishedSem' = finishedSem + 1
  /\ Goto(t, "idle")
  /\ UNCHANGED <<const, pool, toFree, after, info, out, coder, finishedList, update, output>>

-------------------------------------------------------------------------------
(* Update2.                                                                 *)

\* ~CThreads follows any return.
Leave(res) == SetMain([main EXCEPT !.result = res]) /\ Goto(Main, "stop")

CreateThread ==
  /\ pc[Main] = "create"
  /\ \/ \E t \in Threads :
          /\ pc[t] = "none"
          /\ pc' = [pc EXCEPT ![t] = "idle",
                              ![Main] = IF \A u \in Threads \ {t} : pc[u] # "none"
                                        THEN "loop" ELSE "create"]
          /\ UNCHANGED main
     \/ "create" \in Faults /\ Leave("create")
  /\ UNCHANGED <<const, pool, toFree, after, info, out, coder, mtSem, threadIndices, refs,
                 items, output>>

\* The threads are started ahead.
Ahead ==
  pc[Main] = "loop" /\ Len(threadIndices) < Cardinality(Threads) /\ main.mtItem <= NumItems
NextMtItem == SetMain([main EXCEPT !.mtItem = @ + 1])

PassDirect ==
  /\ Ahead /\ updateItems[main.mtItem] = "direct"
  /\ NextMtItem
  /\ UNCHANGED <<const, pool, toFree, after, pc, info, out, coder, mtSem, threadIndices, refs,
                 items, output>>

PassAbsent ==
  /\ Ahead /\ updateItems[main.mtItem] = "absent"
  /\ refs' = [refs EXCEPT ![main.mtItem].skip = TRUE]
  /\ NextMtItem
  /\ UNCHANGED <<const, pool, toFree, after, pc, info, out, coder, mtSem, threadIndices,
                 items, output>>

\* The scan finds a free thread, or it is E_FAIL.
StartThread ==
  /\ Ahead /\ updateItems[main.mtItem] = "file"
  /\ IF \A t \in Threads : ~isFree[t]
     THEN /\ Leave("E_FAIL")
          /\ UNCHANGED <<info, out, coder, threadIndices>>
     ELSE LET t == CHOOSE u \in Threads : isFree[u] IN
          /\ isFree' = [isFree EXCEPT ![t] = FALSE]
          /\ SetOut(t, InitStream(out[t]))
          /\ SetCoder(t, [InitCoder EXCEPT !.item = main.mtItem])
          /\ compressEvent' = [compressEvent EXCEPT ![t] = TRUE]
          /\ threadIndices' = Append(threadIndices, t)
          /\ NextMtItem
          /\ UNCHANGED <<pc, exitThread>>
  /\ UNCHANGED <<const, pool, toFree, after, mtSem, refs, items, output>>

GetStreamFails ==
  /\ Ahead /\ updateItems[main.mtItem] = "file" /\ "stream" \in Faults
  /\ Leave("stream")
  /\ UNCHANGED <<const, pool, toFree, after, info, out, coder, mtSem, threadIndices, refs,
                 items, output>>

\* The item whose turn it is.
Turn == pc[Main] = "loop" /\ ~Ahead /\ main.item <= NumItems
NextItem == SetMain([main EXCEPT !.item = @ + 1])
Added(pass, packSize) == Append(items, [item |-> main.item, pass |-> pass, size |-> packSize])

SkipItem ==
  /\ Turn /\ refs[main.item].skip
  /\ NextItem
  /\ UNCHANGED <<const, pool, toFree, after, pc, info, out, coder, mtSem, threadIndices, refs,
                 items, output>>

\* WriteDirHeader, UpdateItemOldData.
WriteDirect ==
  /\ Turn /\ updateItems[main.item] = "direct"
  /\ \/ /\ Append2(<<Header(main.item)>> \o Units(main.item, 1, 1, 1))
        /\ items' = Added(1, 1)
        /\ NextItem /\ UNCHANGED pc
     \/ WriteFails /\ Leave("write") /\ UNCHANGED items
     \/ "direct" \in Faults /\ Leave("direct") /\ UNCHANGED <<items, output>>
  /\ UNCHANGED <<const, pool, toFree, after, info, out, coder, mtSem, threadIndices, refs>>

\* The item was finished before its turn.  The error of WriteToStream is dropped: when
\* it is kept, the archive fails again at the next write; when it is not, the archive
\* has a part of the units, and goes on.
DropError(r) ==
  \/ KeptFails
  \/ /\ Refuses
     /\ \E n \in 0 .. Len(InMemory(r)) :
          archive' = archive \o <<Header(main.item)>> \o First(InMemory(r), n)
     /\ dropped' = TRUE /\ UNCHANGED <<hres, failed>>

WriteFinished ==
  /\ Turn /\ refs[main.item].finished
  /\ LET r == refs[main.item] IN
     \/ /\ Append2(<<Header(main.item)>> \o InMemory(r)) \/ DropError(r)
        /\ items' = Added(r.pass, r.packSize)
        /\ refs' = [refs EXCEPT ![main.item].blocks = 0, ![main.item].cells = <<>>]
        /\ FreeAndGoto(Main, r.blocks, "loop")
        /\ NextItem
     \/ WriteFails /\ Leave("write") /\ UNCHANGED <<items, refs, toFree, after>>
  /\ UNCHANGED <<const, pool, info, out, coder, mtSem, threadIndices>>

\* The item is not finished: its header is written, and its thread gets the archive.
NotFinished ==
  /\ Turn /\ updateItems[main.item] = "file"
  /\ ~refs[main.item].skip /\ ~refs[main.item].finished

SetRealStreamMode(t, offset) ==
  SetOut(t, [out[t] EXCEPT !.offset = offset, !.unlockSent = TRUE, !.realEvent = TRUE])

OpenItem ==
  /\ NotFinished
  /\ IF main.lastReal < main.item THEN Append2(<<Header(main.item)>>) ELSE UNCHANGED output
  /\ SetMain([main EXCEPT !.lastReal = Larger(@, main.item)])
  /\ LET t == Head(threadIndices) IN
     IF out[t].unlockSent THEN UNCHANGED out ELSE SetRealStreamMode(t, Len(archive'))
  /\ Goto(Main, "lock")
  /\ UNCHANGED <<const, pool, toFree, after, info, coder, mtSem, threadIndices, refs, items>>

HeaderFails ==
  /\ NotFinished /\ main.lastReal < main.item
  /\ WriteFails /\ Leave("write")
  /\ UNCHANGED <<const, pool, toFree, after, info, out, coder, mtSem, threadIndices, refs, items>>

Lock ==
  /\ pc[Main] = "lock" /\ finishedSem > 0
  /\ finishedSem' = finishedSem - 1
  /\ Goto(Main, "getItem")
  /\ UNCHANGED <<const, pool, toFree, after, info, out, coder, finishedList, update, output>>

GetFreeItem ==
  /\ pc[Main] = "getItem"
  /\ finishedList' = Tail(finishedList)
  /\ SetMain([main EXCEPT !.ti = Head(finishedList)])
  /\ Goto(Main, "collect")
  /\ UNCHANGED <<const, pool, toFree, after, info, out, coder, finishedSem, threadIndices, refs,
                 items, output>>

\* threadInfo is the thread that has finished.
Collects == pc[Main] = "collect"
SetFree == isFree' = [isFree EXCEPT ![main.ti] = TRUE] /\ UNCHANGED <<compressEvent, exitThread>>
IsFront == threadIndices # <<>> /\ Head(threadIndices) = main.ti

CoderFailed ==
  /\ Collects /\ coder[main.ti].result # OK
  /\ SetFree
  /\ Leave(coder[main.ti].result)
  /\ UNCHANGED <<const, pool, toFree, after, out, coder, mtSem, threadIndices, refs, items, output>>

\* It was the current item: the rest in memory goes to the archive.
CloseItem ==
  /\ Collects /\ coder[main.ti].result = OK /\ IsFront
  /\ SetFree
  /\ threadIndices' = Tail(threadIndices)
  /\ LET t == main.ti IN
     IF coder[t].item # main.item
     THEN Leave("E_FAIL") /\ UNCHANGED <<toFree, after, out, items, output>>
     ELSE \/ /\ Append2(InMemory(out[t]))
             /\ items' = Added(coder[t].pass, coder[t].packSize)
             /\ FreeAndGoto(Main, out[t].blocks, "loop")
             /\ SetOut(t, Emptied(out[t]))
             /\ NextItem
          \/ WriteFails /\ Leave("write") /\ UNCHANGED <<toFree, after, out, items>>
  /\ UNCHANGED <<const, pool, coder, mtSem, refs>>

\* It was an item after the current one: DetachData keeps the blocks that hold data.
Needed(o) == (o.size + BlockSize - 1) \div BlockSize
Surplus_None(o) == 0                                  \* mutant: the others are lost
Surplus(o) == o.blocks - Needed(o)

DetachData ==
  /\ Collects /\ coder[main.ti].result = OK /\ ~IsFront
  /\ SetFree
  /\ \E k \in 1 .. Len(threadIndices) :
       threadIndices[k] = main.ti /\ threadIndices' = RemoveAt(threadIndices, k)
  /\ LET c == coder[main.ti] o == out[main.ti] IN
     /\ refs' = [refs EXCEPT ![c.item].finished = TRUE, ![c.item].blocks = Needed(o),
                             ![c.item].size = o.size,
                             ![c.item].cells = First(o.cells, Needed(o) * BlockSize),
                             ![c.item].pass = c.pass, ![c.item].packSize = c.packSize]
     /\ SetOut(main.ti, Emptied(o))
     /\ FreeAndGoto(Main, Surplus(o), "loop")
  /\ UNCHANGED <<const, pool, coder, mtSem, main, items, output>>

\* WriteCentralDir.
WriteCentralDir ==
  /\ pc[Main] = "loop" /\ ~Ahead /\ main.item > NumItems
  /\ \/ ~hres /\ Leave(OK) /\ UNCHANGED output
     \/ WriteFails /\ Leave("write")
  /\ UNCHANGED <<const, pool, toFree, after, info, out, coder, mtSem, threadIndices, refs, items>>

\* ~CThreads: StopWait_Close of one thread after the other.
StopWriting_Late(t) == UNCHANGED out        \* mutant: only CompressEvent is set
StopWriting(t) == SetOut(t, [out[t] EXCEPT !.stopEvent = TRUE])

StopWait(t) ==
  /\ pc[Main] = "stop" /\ ~exitThread[t]
  /\ exitThread' = [exitThread EXCEPT ![t] = TRUE]
  /\ StopWriting(t)
  /\ compressEvent' = [compressEvent EXCEPT ![t] = TRUE]
  /\ SetMain([main EXCEPT !.ti = t])
  /\ Goto(Main, "join")
  /\ UNCHANGED <<const, pool, toFree, after, isFree, coder, mtSem, threadIndices, refs, items,
                 output>>

Wait_Close ==
  /\ pc[Main] = "join" /\ pc[main.ti] \in {"none", "exited"}
  /\ Goto(Main, IF \A t \in Threads : exitThread[t] THEN "flush" ELSE "stop")
  /\ UNCHANGED <<const, pool, toFree, after, info, out, coder, mtSem, update, output>>

\* Update: FinalFlush of the archive when Update2 was successful.
FinalFlush ==
  /\ pc[Main] = "flush"
  /\ \/ main.result = OK /\ ~hres /\ UNCHANGED <<main, output>>
     \/ main.result = OK /\ WriteFails /\ SetMain([main EXCEPT !.result = "write"])
     \/ main.result # OK /\ UNCHANGED <<main, output>>
  /\ Goto(Main, "done")
  /\ UNCHANGED <<const, pool, toFree, after, info, out, coder, mtSem, threadIndices, refs, items>>

-------------------------------------------------------------------------------

MainStep ==
  \/ CreateThread \/ PassDirect \/ PassAbsent \/ StartThread \/ GetStreamFails
  \/ SkipItem \/ WriteDirect \/ WriteFinished \/ OpenItem \/ HeaderFails
  \/ Lock \/ GetFreeItem \/ CoderFailed \/ CloseItem \/ DetachData \/ WriteCentralDir
  \/ (\E t \in Threads : StopWait(t)) \/ Wait_Close \/ FinalFlush
  \/ FreeBlock(Main) \/ ReleaseBlock(Main)

ThreadStep(t) ==
  \/ WaitWork(t) \/ CallWrite(t) \/ EndCompress(t) \/ NextMethod(t) \/ CompressFails(t)
  \/ WriteReal(t) \/ WriteBlock(t) \/ WaitStop(t) \/ WaitReal(t) \/ WaitBlock(t)
  \/ AllocateBlock(t) \/ WriteToRealStream(t) \/ ReleaseItem(t) \/ ReleaseSem(t)
  \/ FreeBlock(t) \/ ReleaseBlock(t)

Done == pc[Main] = "done" /\ UNCHANGED vars

Next == MainStep \/ (\E t \in Threads : ThreadStep(t)) \/ Done

Spec == Init /\ [][Next]_vars

\* The coders come to an end, and some thread runs as long as one can: an update is finite,
\* so that no fairness among the threads is needed.
FairSpec == Spec /\ WF_vars(Next)
-------------------------------------------------------------------------------
(* Properties.                                                              *)

Labels == {"create", "loop", "lock", "getItem", "collect", "stop", "join", "flush", "done",
           "none", "idle", "code", "write", "allocate", "finish", "release", "exited",
           "free", "releaseBlock"}

\* Type invariant of Update2, its threads and the pool.
TypeOK ==
  /\ updateItems \in ItemLists /\ numBlocks \in PoolSizes
  /\ freeBlocks \in 0 .. numBlocks /\ semaphore \in 0 .. numBlocks
  /\ toFree \in [Actors -> Nat] /\ pc \in [Actors -> Labels]
  /\ isFree \in [Threads -> BOOLEAN] /\ compressEvent \in [Threads -> BOOLEAN]
  /\ exitThread \in [Threads -> BOOLEAN]
  /\ \A t \in Threads :
       /\ DOMAIN out[t] = DOMAIN InitOut /\ Len(out[t].cells) <= Capacity(t)
       /\ coder[t] \in [item : 1 .. Larger(NumItems, 1), pass : 1 .. MaxPasses,
                         units : 0 .. MaxUnits, rest : 0 .. MaxUnits, result : Results,
                         packSize : 0 .. MaxUnits]
  /\ finishedList \in Seq(Threads) /\ finishedSem \in 0 .. Cardinality(Threads)
  /\ main.item \in 1 .. NumItems + 1 /\ main.mtItem \in 1 .. NumItems + 1
  /\ main.result \in Results /\ threadIndices \in Seq(Threads)
  /\ DOMAIN refs = 1 .. NumItems
  /\ hres \in BOOLEAN /\ failed \in BOOLEAN /\ dropped \in BOOLEAN

Content(e) == <<Header(e.item)>> \o Units(e.item, e.pass, 1, e.size)
Written == FlattenSeq([k \in 1 .. Len(items) |-> Content(items[k])])

\* The items that are in the archive are those before the current one, in their order.
ItemsInOrder ==
  /\ {items[k].item : k \in 1 .. Len(items)} = {i \in 1 .. main.item - 1 : updateItems[i] # "absent"}
  /\ \A j, k \in 1 .. Len(items) : j < k => items[j].item < items[k].item

\* The archive is the items in the order of the update, each with its header and all
\* the units of the method that was taken, as many as its header says, and then a part
\* of the current item: whichever threads finished first, wherever the data went from
\* memory to the archive, and whichever method was given up; as long as no write of the
\* archive has failed.
ArchiveExact ==
  ~failed /\ ~dropped =>
    LET n == Len(Written)
        rest == SubSeq(archive, n + 1, Len(archive))
        i == main.item
    IN /\ ItemsInOrder
       /\ First(archive, n) = Written
       /\ \/ rest = <<>>
          \/ \E pass \in 1 .. MaxPasses :
               rest = <<Header(i)>> \o Units(i, pass, 1, Len(rest) - 1)

\* S_OK of Update means that all of the items are in the archive, even though the
\* error of WriteToStream for an item in memory is not looked at: a write that failed
\* below goes on failing, and a later write is looked at.  This is not so of an error of
\* SetRestriction, and only of that: see OkMeansNoError.
OkMeansWritten ==
  pc[Main] = "done" /\ main.result = OK =>
    main.item > NumItems /\ (archive = Written \/ dropped)

\* What ExitCode.h says: the update that ends with S_OK (kSuccess, "Successful
\* operation") has no error behind it, and all of the items are in the archive.  The code
\* does not keep this: ZipUpdateMtRestriction.cfg finds the dropped error.
OkMeansNoError == pc[Main] = "done" /\ main.result = OK => archive = Written

\* The sum of the values of f, as a number of pairs.
Total(f) == Cardinality(UNION {{x} \X (1 .. f[x]) : x \in DOMAIN f})

\* Every block of the pool is on the free list, or in one stream, or with one finished
\* item; the semaphore never counts more than the list has, so that who has taken it
\* finds a block; and with all that freed, none is missing.
BlocksExact ==
  LET held == Total([t \in Threads |-> out[t].blocks]) + Total(toFree)
              + Total([i \in 1 .. NumItems |-> refs[i].blocks])
      taking == Cardinality({t \in Threads : pc[t] = "allocate"})
      releasing == Cardinality({a \in Actors : pc[a] = "releaseBlock"})
  IN /\ freeBlocks + held = numBlocks
     /\ semaphore + taking + releasing = freeBlocks

Working(t) == pc[t] \notin {"none", "idle", "exited", "release"}

\* The archive has one writer: the thread of the current item from when it is told to
\* until it is collected, and the main thread otherwise.  The stream's OutSeqStream is
\* so never replaced under the thread that uses it.
OneWriter ==
  LET writers == {t \in Threads : Working(t) /\ (out[t].real \/ out[t].unlockSent)}
      mainWrites == \/ Turn /\ ~(NotFinished /\ main.lastReal = main.item)
                    \/ Collects /\ IsFront
  IN main.result = "running" =>
       /\ Cardinality(writers) <= 1
       /\ mainWrites => writers = {}

\* Update2 returns: no thread waits for memory that only waiting threads hold, and the
\* one whose turn it is never waits for memory.
UpdateReturns == <>(pc[Main] = "done")
===============================================================================
