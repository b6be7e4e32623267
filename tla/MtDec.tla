--------------------------------- MODULE MtDec ---------------------------------
(***************************************************************************)
(* CMtDec (C/MtDec.h, C/MtDec.c), the block-parallel decoder, with the      *)
(* LZMA2 decoder (C/Lzma2DecMt.c) as its client.  The threads form a ring.  *)
(* The thread that was given canRead reads input into its own list of       *)
(* links until the parser finds the end of a block, passes canRead on and   *)
(* decodes the block; canWrite follows the same ring, so that the blocks    *)
(* are written in order.  What was read after the end of the block goes to  *)
(* the next thread in the cross buffer.  An error interrupts the blocks     *)
(* after it.  When memory or threads run out, or a block is too large for   *)
(* this scheme, the call goes on with one thread: it decodes again what the *)
(* threads have read and not written (the filled threads, then the cross    *)
(* buffer), then the rest of the stream.                                    *)
(*                                                                          *)
(* The stream is a sequence of units, named by their positions.  A unit's   *)
(* kind is all the parser and the decoder see of it: "new" starts a block,  *)
(* "more" continues it, "end" is the end mark, "big" makes the block        *)
(* larger than outBlockMax, "bad" cannot be decoded, "wrong" cannot be      *)
(* parsed either.                                                           *)
(***************************************************************************)
EXTENDS Integers, Sequences, FiniteSets, SequencesExt

CONSTANTS
  MaxThreads,    \* MTDEC_THREADS_MAX: length of threads
  InBufSize,     \* inBufSize, in units
  Plans          \* bound: the sequences of calls of Lzma2DecMt_Decode

Kinds == {"new", "more", "end", "big", "bad", "wrong"}
FaultKinds ==
  {"alloc", "cross", "create", "precode", "codeMem", "prepare", "read", "write", "progress"}

\* A call: numThreadsMax, its stream, and the operations that may fail in it.
Calls == [numThreads : 1 .. MaxThreads, input : Seq(Kinds), faults : SUBSET FaultKinds]

ASSUME DecAssumption ==
  /\ MaxThreads \in Nat \ {0}
  /\ InBufSize \in Nat \ {0}
  /\ \A q \in Plans : Len(q) > 0 /\ \A i \in 1 .. Len(q) : q[i] \in Calls

Threads == 0 .. MaxThreads - 1
OK == "ok"
SResults == {OK, "data", "mem", "fail", "read", "write", "progress", "create", "eof"}

VARIABLES
  \* Lzma2DecMt_Decode: where it is, its result, the stream and the place in it,
  \* the units whose data went to the output, and whether a write of these failed
  mpc, result, plan, calls, input, pos, decoded, writeFailed,
  \* CMtDec, and its mtProgress with the interrupt flag
  p, progress,
  \* CMtDecThread: the events, the links of inBuf, inDataSize(_Start)
  canRead, canWrite, inBuf, filled,
  \* the local variables of MtDec_ThreadFunc2 and CLzma2DecMtThread
  pc, loc,
  \* the decoder of Lzma2Dec_Decode_ST
  st

caller == <<mpc, result, plan, calls, input, st>>
stream == <<pos, decoded, writeFailed>>
vars == <<caller, stream, p, progress, canRead, canWrite, inBuf, filled, pc, loc>>

Goto(t, label) == pc' = [pc EXCEPT ![t] = label]
SetLoc(t, l) == loc' = [loc EXCEPT ![t] = l]
Smaller(a, b) == IF a < b THEN a ELSE b
Least(S) == CHOOSE i \in S : \A j \in S : i <= j
Rest(s, n) == SubSeq(s, n + 1, Len(s))

InitLoc ==
  [block |-> 0, res |-> OK, interrupted |-> FALSE, finish |-> FALSE, needCode |-> FALSE,
   needWrite |-> FALSE, alloc |-> FALSE, overflow |-> FALSE, start |-> 0, size |-> 0,
   links |-> 0, parsed |-> 0, state |-> "continue", marked |-> FALSE, codeRes |-> OK,
   thrErr |-> FALSE, next |-> 0, codePos |-> 0, out |-> <<>>, toStream |-> FALSE]

InitP ==
  [blockIndex |-> 1, isAllocError |-> FALSE, overflow |-> FALSE, threadingError |-> FALSE,
   readWasFinished |-> FALSE, readRes |-> OK, codeRes |-> OK, wasInterrupted |-> FALSE,
   cross |-> <<>>, crossBlock |-> FALSE, filledThreadStart |-> 0, numFilledThreads |-> 0,
   Limit |-> 1, numStartedThreads |-> 0, exitThread |-> FALSE]

InitProgress == [res |-> OK, needInterrupt |-> FALSE, interruptIndex |-> 0]
InitSt == [mode |-> FALSE, lim |-> 0, fed |-> FALSE, i |-> 0]

-------------------------------------------------------------------------------
(* The interrupt flag, under the critical section of mtProgress.            *)

\* needInterrupt && interruptIndex > p->interruptIndex
Interrupted_All(block) == progress.needInterrupt            \* mutant: earlier blocks too
Interrupted(block) == progress.needInterrupt /\ block > progress.interruptIndex

\* MtDec_Interrupt: the first block to fail is the one with the smallest index.
Interrupt(block) ==
  IF ~progress.needInterrupt \/ block < progress.interruptIndex
  THEN [progress EXCEPT !.needInterrupt = TRUE, !.interruptIndex = block]
  ELSE progress

\* What may fail in the call that is in progress.
Faults == plan[calls].faults

\* The results a call of the progress callback may leave in mtProgress.res.
ProgressResults ==
  {progress.res} \cup (IF progress.res = OK /\ "progress" \in Faults THEN {"progress"} ELSE {})

-------------------------------------------------------------------------------
(* The caller: Lzma2DecMt_Decode, up to the ring's first thread.            *)

Init ==
  /\ mpc = "idle" /\ result = OK /\ plan \in Plans /\ calls = 0 /\ input = <<>> /\ pos = 0
  /\ decoded = <<>> /\ writeFailed = FALSE
  /\ p = InitP /\ progress = InitProgress
  /\ canRead = [t \in Threads |-> FALSE] /\ canWrite = [t \in Threads |-> FALSE]
  /\ inBuf = [t \in Threads |-> <<>>]
  /\ filled = [t \in Threads |-> [start |-> 0, size |-> 0]]
  /\ pc = [t \in Threads |-> "none"]
  /\ loc = [t \in Threads |-> InitLoc]
  /\ st = InitSt

\* MtDec_Code: thread 0 of the ring is the caller itself.
MtDec_Code ==
  /\ mpc = "idle" /\ calls < Len(plan)
  /\ calls' = calls + 1
  /\ input' = plan[calls'].input
  /\ pos' = 0 /\ decoded' = <<>> /\ writeFailed' = FALSE
  /\ p' = [InitP EXCEPT !.crossBlock = p.crossBlock, !.numStartedThreads = 1,
                      !.Limit = plan[calls'].numThreads]
  /\ progress' = InitProgress
  /\ canRead' = [canRead EXCEPT ![0] = TRUE]
  /\ canWrite' = [canWrite EXCEPT ![0] = TRUE]
  /\ Goto(0, "canRead")
  /\ mpc' = "mt"
  /\ st' = InitSt
  /\ UNCHANGED <<result, plan, inBuf, filled, loc>>

-------------------------------------------------------------------------------
(* MtDec_ThreadFunc2: reading one block, with canRead.                      *)

\* Event_Wait(&t->canRead); then the first check for errors of the block.
WaitRead(t) ==
  /\ pc[t] = "canRead" /\ canRead[t]
  /\ canRead' = [canRead EXCEPT ![t] = FALSE]
  /\ IF p.exitThread
     THEN /\ Goto(t, IF t = 0 THEN "returned" ELSE "exited")
          /\ UNCHANGED <<p, progress, loc>>
     ELSE \E r \in ProgressResults :
          LET stop == Interrupted(p.blockIndex) IN
            /\ progress' = [progress EXCEPT !.res = r]
            /\ p' = [p EXCEPT !.blockIndex = @ + 1]
            /\ SetLoc(t, [InitLoc EXCEPT !.block = p.blockIndex, !.res = r,
                                         !.interrupted = stop, !.finish = p.readWasFinished])
            /\ Goto(t, IF r = OK /\ ~stop THEN "read" ELSE "start")
  /\ UNCHANGED <<caller, stream, canWrite, inBuf, filled>>

\* No memory for one more link of inBuf.
LinkFails(t) ==
  /\ pc[t] = "read" /\ loc[t].links = Len(inBuf[t])
  /\ "alloc" \in Faults
  /\ SetLoc(t, [loc[t] EXCEPT !.finish = TRUE, !.alloc = TRUE])
  /\ Goto(t, "check")
  /\ UNCHANGED <<caller, stream, p, progress, canRead, canWrite, inBuf, filled>>

\* Lzma2DecMt_MtCallback_Parse: the parser stops at the start of the next block
\* (which it does not take), at the end mark, or at what it cannot parse.
Parse(data, parsed) ==
  LET stops == {i \in 1 .. Len(data) :
                  \/ input[data[i]] \in {"end", "wrong", "big"}
                  \/ input[data[i]] = "new" /\ parsed + i > 1}
      i == Least(stops)
      kind == input[data[i]]
  IN IF stops = {} THEN [state |-> "continue", size |-> Len(data), marked |-> FALSE]
     ELSE CASE kind = "new" -> [state |-> "new", size |-> i - 1, marked |-> TRUE]
            [] kind = "end" -> [state |-> "end", size |-> i, marked |-> TRUE]
            [] kind = "wrong" -> [state |-> "end", size |-> i, marked |-> FALSE]
            [] kind = "big" -> [state |-> "overflow", size |-> i, marked |-> FALSE]

\* The list with one more link in use, its contents replaced.
PutLink(t, data) ==
  LET n == loc[t].links + 1 IN
  inBuf' = [inBuf EXCEPT ![t] = SubSeq(@, 1, n - 1) \o <<data>> \o Rest(@, n)]

\* What the block keeps for the next one; the mutant forgets the cross buffer.
Carry_Lost(data, n) == <<>>
Carry(data, n) == Rest(data, n)

\* The size of the block once the rest of `data' belongs to the next block.
Reduced(isCross, size, n, len) == IF isCross THEN n ELSE size - (len - n)

\* One turn of the loop once the data is there: `l' is loc[t] and `q' is p, with the
\* read counted in them.
Parsed(t, data, isCross, l, q) ==
  LET r == Parse(data, l.parsed)
      full == r.size = Len(data)
      last == r.state # "continue" \/ l.finish
      m == [l EXCEPT !.links = @ + 1, !.needWrite = TRUE, !.parsed = @ + r.size,
                     !.state = r.state, !.marked = r.marked]
      coded == [m EXCEPT !.needCode = TRUE, !.finish = @ \/ r.state = "end"]
      cut == [coded EXCEPT !.size = Reduced(isCross, @, r.size, Len(data)),
                           !.start = IF l.links = 0 THEN r.size ELSE @]
  IN
  /\ PutLink(t, IF isCross /\ r.state = "new" THEN SubSeq(data, 1, r.size) ELSE data)
  /\ Goto(t, IF last THEN "check" ELSE "read")
  /\ \/ /\ r.state = "overflow"
        /\ SetLoc(t, [m EXCEPT !.finish = TRUE, !.overflow = TRUE])
        /\ p' = [q EXCEPT !.cross = <<>>]
     \/ /\ r.state # "overflow" /\ full
        /\ SetLoc(t, IF last THEN coded ELSE m)
        /\ p' = [q EXCEPT !.cross = <<>>]
     \/ /\ r.state = "end" /\ ~full
        /\ SetLoc(t, cut)
        /\ p' = [q EXCEPT !.cross = IF isCross THEN Carry(data, r.size) ELSE <<>>]
     \/ /\ r.state = "new" /\ ~full
        /\ SetLoc(t, [cut EXCEPT !.finish = FALSE])
        /\ p' = [q EXCEPT !.cross = Carry(data, r.size), !.crossBlock = TRUE]
     \/ /\ r.state = "new" /\ ~full                 \* no memory for the cross buffer
        /\ "cross" \in Faults /\ ~isCross /\ ~q.crossBlock
        /\ SetLoc(t, [coded EXCEPT !.finish = TRUE, !.alloc = TRUE])
        /\ p' = q

\* The first turn parses what the previous block left in the cross buffer.
ReadCross(t) ==
  LET size == Len(p.cross) IN
  /\ pc[t] = "read" /\ loc[t].links = 0 /\ size # 0
  /\ Parsed(t, p.cross, TRUE, [loc[t] EXCEPT !.size = size, !.start = size], p)
  /\ UNCHANGED <<caller, stream, progress, canRead, canWrite, filled>>

\* A turn that reads n units, of `most' that SeqInStream_ReadMax could return, and the
\* check for errors.  A read error is kept for later: the data before it is decoded first.
ReadUnits(t, most, n, fails, r) ==
  LET short == fails \/ n # InBufSize
      data == [i \in 1 .. n |-> pos + i]
      l == [loc[t] EXCEPT !.size = @ + n, !.finish = short,
                          !.start = IF loc[t].links = 0 THEN n ELSE @]
      stop == Interrupted(l.block)
      q == [p EXCEPT !.readWasFinished = @ \/ short,
                     !.readRes = IF fails THEN "read" ELSE @]
  IN
  /\ IF p.readRes = "read" THEN fails /\ n = 0     \* the stream fails again
     ELSE IF fails THEN "read" \in Faults ELSE n = most
  /\ r # progress.res => n > 0
  /\ pos' = pos + n
  /\ progress' = [progress EXCEPT !.res = r]
  /\ IF n > 0 /\ (r # OK \/ stop)
     THEN /\ SetLoc(t, [l EXCEPT !.res = r, !.interrupted = stop])
          /\ PutLink(t, data)
          /\ p' = q
          /\ Goto(t, "check")
     ELSE Parsed(t, data, FALSE, l, q)

ReadLink(t) ==
  LET most == Smaller(InBufSize, Len(input) - pos) IN
  /\ pc[t] = "read" /\ (loc[t].links = 0 => p.cross = <<>>)
  /\ \E n \in 0 .. most, fails \in BOOLEAN, r \in ProgressResults :
       ReadUnits(t, most, n, fails, r)
  /\ UNCHANGED <<caller, decoded, writeFailed, canRead, canWrite, filled>>

-------------------------------------------------------------------------------
(* MtDec_ThreadFunc2: passing canRead on, and decoding.                     *)

\* The last check before the block is coded, and PreCode: nothing to decode is a data
\* error, and the memory for the output may be missing.
Check(t) ==
  LET l == [loc[t] EXCEPT !.res = IF @ = OK THEN progress.res ELSE @,
                          !.interrupted = IF loc[t].res = OK THEN Interrupted(loc[t].block)
                                          ELSE @]
      failed(res) == [l EXCEPT !.codeRes = res, !.needCode = FALSE, !.finish = TRUE]
      go == l.res = OK /\ l.needCode /\ ~l.interrupted
  IN
  /\ pc[t] = "check"
  /\ \/ go /\ l.parsed = 0 /\ SetLoc(t, failed("data"))
     \/ go /\ l.parsed # 0 /\ "precode" \in Faults /\ SetLoc(t, failed("mem"))
     \/ (go => l.parsed # 0) /\ SetLoc(t, l)
  /\ Goto(t, "start")
  /\ UNCHANGED <<caller, stream, p, progress, canRead, canWrite, inBuf, filled>>

\* The next thread of the ring.
NextInRing_All(t, started) == (t + 1) % p.Limit          \* mutant: threads never started
NextInRing(t, started) == IF t + 1 >= started THEN 0 ELSE t + 1

\* MtDecThread_CreateAndStart of the next thread, while there are fewer than the limit,
\* and Event_Set(&nextThread->canRead): from here the next block is read by another
\* thread.
StartNext(t) ==
  LET l == [loc[t] EXCEPT !.finish = @ \/ loc[t].res # OK \/ loc[t].interrupted, !.links = 1]
      new == p.numStartedThreads
      wanted == ~l.finish /\ new < p.Limit
      label == IF l.res = OK /\ l.needCode /\ l.codeRes = OK THEN "code" ELSE "write"
      \* `r' is canRead, after the events of a new thread were reset
      pass(r, started, codes) ==
        LET next == NextInRing(t, started) IN
        /\ canRead' = [r EXCEPT ![next] = TRUE]
        /\ SetLoc(t, [l EXCEPT !.next = next])
        /\ pc' = codes
      here == [pc EXCEPT ![t] = label]
  IN
  /\ pc[t] = "start"
  /\ \/ /\ l.finish
        /\ SetLoc(t, l)
        /\ Goto(t, label)
        /\ UNCHANGED <<p, canRead, canWrite>>
     \/ /\ ~l.finish /\ ~wanted
        /\ pass(canRead, new, here)
        /\ UNCHANGED <<p, canWrite>>
     \/ /\ wanted
        /\ pass([canRead EXCEPT ![new] = FALSE], new + 1,
                [here EXCEPT ![new] = IF @ = "none" THEN "canRead" ELSE @])
        /\ canWrite' = [canWrite EXCEPT ![new] = FALSE]
        /\ p' = [p EXCEPT !.numStartedThreads = @ + 1]
     \/ /\ wanted /\ new > 1 /\ pc[new] = "none" /\ "create" \in Faults
        /\ pass([canRead EXCEPT ![new] = FALSE], new, here)
        /\ canWrite' = [canWrite EXCEPT ![new] = FALSE]
        /\ p' = [p EXCEPT !.Limit = new]
     \/ /\ wanted /\ new = 1 /\ pc[new] = "none" /\ "create" \in Faults
        /\ SetLoc(t, [l EXCEPT !.finish = TRUE, !.needCode = FALSE, !.thrErr = TRUE])
        /\ Goto(t, "write")
        /\ UNCHANGED <<p, canRead, canWrite>>
  /\ UNCHANGED <<caller, stream, progress, inBuf, filled>>

\* What is left of a block's data once `done' units of it are coded or read again.
LinkSize(isFirst, start, size) ==
  IF isFirst THEN start ELSE Smaller(InBufSize, size)

\* Lzma2DecMt_MtCallback_Code: the units of `data' that are decoded, and the result.
\* A block whose end is known is decoded up to that end, and no data may follow.
Decode(data, l) ==
  LET damaged == {i \in 1 .. Len(data) : input[data[i]] \in {"bad", "wrong"}}
      room == IF l.marked THEN l.parsed - l.codePos ELSE Len(data)
      n == Smaller(room, IF damaged = {} THEN Len(data) ELSE Least(damaged) - 1)
  IN [out |-> SubSeq(data, 1, n),
      res |-> IF n = Len(data) THEN OK ELSE IF n = room THEN "fail" ELSE "data"]

\* One link; then the block is complete, or an error is found, or the check between
\* links says that the block is not needed any more.
Code(t) ==
  LET l == loc[t]
      size == LinkSize(l.codePos = 0, l.start, l.size - l.codePos)
      data == SubSeq(inBuf[t][l.links], 1, size)
  IN
  /\ pc[t] = "code"
  /\ \E d \in {Decode(data, l)} \cup
             (IF "codeMem" \in Faults THEN {[out |-> <<>>, res |-> "mem"]} ELSE {}),
       r \in ProgressResults :
       LET m == [l EXCEPT !.codeRes = d.res, !.codePos = @ + Len(d.out), !.out = @ \o d.out]
           more == d.res = OK /\ m.codePos # l.size
           stop == more /\ Interrupted(l.block)
       IN
       /\ r # progress.res => more
       /\ progress' = [(IF d.res = OK THEN progress ELSE Interrupt(l.block)) EXCEPT !.res = r]
       /\ IF more
          THEN /\ SetLoc(t, [m EXCEPT !.res = r, !.interrupted = stop, !.links = @ + 1])
               /\ Goto(t, IF r = OK /\ ~stop THEN "code" ELSE "write")
          ELSE /\ SetLoc(t, m)
               /\ Goto(t, "write")
  /\ UNCHANGED <<caller, stream, p, canRead, canWrite, inBuf, filled>>

-------------------------------------------------------------------------------
(* MtDec_ThreadFunc2: writing, with canWrite.                               *)

TakeWrite_Manual(t) == canWrite[t] /\ UNCHANGED canWrite     \* mutant: not an auto-reset event
TakeWrite(t) == canWrite[t] /\ canWrite' = [canWrite EXCEPT ![t] = FALSE]

\* Event_Wait(&t->canWrite), what the block has found is recorded, unless an earlier
\* block was interrupted; and MtProgress_ProgressAdd for a block that was coded.
WaitWrite(t) ==
  LET l == loc[t]
      alloc == l.alloc \/ l.codeRes = "mem"
      early == p.wasInterrupted
  IN
  /\ pc[t] = "write" /\ TakeWrite(t)
  /\ \E r \in (IF l.needCode THEN ProgressResults ELSE {progress.res}) :
       /\ progress' = [progress EXCEPT !.res = r]
       /\ SetLoc(t, [l EXCEPT !.res = IF l.needCode THEN r ELSE @,
                              !.interrupted = @ \/ early,
                              !.toStream = early \/ ~(l.thrErr \/ alloc \/ l.overflow)])
  /\ p' = IF early THEN p
          ELSE [p EXCEPT !.wasInterrupted = l.codeRes # OK \/ l.thrErr \/ alloc \/ l.overflow,
                         !.codeRes = IF l.codeRes # OK THEN l.codeRes ELSE @,
                         !.threadingError = @ \/ l.thrErr,
                         !.isAllocError = @ \/ alloc,
                         !.overflow = @ \/ l.overflow]
  /\ Goto(t, "deliver")
  /\ UNCHANGED <<caller, stream, canRead, inBuf, filled>>

\* A block that was not written is kept to be decoded again, and so is every block
\* after it.
FilledStart(q, t) == IF q.numFilledThreads = 0 THEN t ELSE q.filledThreadStart

Kept(l) == l.size # 0 \/ ~l.finish

Keep(t, l, q, again) ==
  IF ~again THEN p' = q /\ UNCHANGED filled
  ELSE LET kept == Kept(l) IN
    /\ p' = [q EXCEPT !.filledThreadStart = FilledStart(q, t),
                      !.numFilledThreads = IF kept THEN @ + 1 ELSE @]
    /\ filled' = IF kept THEN [filled EXCEPT ![t] = [start |-> l.start, size |-> l.size]]
                 ELSE filled

\* The end of a block: its canWrite goes to the next thread, or the ring starts again at
\* thread 0, or decoding ends and thread 0 is told to return.
PassRead(t, l, needContinue) ==
  canRead' = IF l.finish /\ (needContinue \/ t # 0) THEN [canRead EXCEPT ![0] = TRUE] ELSE canRead

PassWrite_Exit(l, needContinue) ==                          \* mutant: also when decoding ends
  canWrite' = [canWrite EXCEPT ![IF l.finish THEN 0 ELSE l.next] = TRUE]
PassWrite(l, needContinue) ==
  canWrite' = IF ~l.finish THEN [canWrite EXCEPT ![l.next] = TRUE]
              ELSE IF needContinue THEN [canWrite EXCEPT ![0] = TRUE]
              ELSE canWrite

Pass(t, l, needContinue) ==
  /\ PassRead(t, l, needContinue)
  /\ PassWrite(l, needContinue)
  /\ Goto(t, IF l.finish /\ ~needContinue /\ t = 0 THEN "returned" ELSE "canRead")

\* Lzma2DecMt_MtCallback_Write: the results it may have; `written' is the new output.
WriteResults(l) ==
  LET go == l.needWrite /\ l.res = OK /\ l.toStream /\ ~l.interrupted
      incomplete == l.codeRes = OK /\ l.marked /\ l.parsed # l.codePos
  IN
  IF ~l.needWrite THEN {[res |-> l.res, more |-> ~l.finish, recode |-> TRUE, out |-> decoded]}
  ELSE IF ~go THEN {[res |-> OK, more |-> FALSE, recode |-> TRUE, out |-> decoded]}
  ELSE IF incomplete THEN {[res |-> "fail", more |-> FALSE, recode |-> TRUE, out |-> decoded]}
  ELSE {[res |-> OK, more |-> l.state \notin {"overflow", "end"}, recode |-> FALSE,
         out |-> decoded \o l.out]}
       \cup (IF "write" \notin Faults THEN {}
             ELSE {[res |-> "write", more |-> FALSE, recode |-> FALSE, out |-> decoded]})

Deliver(t) ==
  LET l == loc[t] IN
  /\ pc[t] = "deliver"
  /\ \E w \in WriteResults(l) :
     LET failed == l.needWrite /\ w.res # OK
         q == [p EXCEPT !.wasInterrupted = @ \/ failed,
                        !.exitThread = @ \/ (l.finish /\ ~w.more /\ t # 0)]
         again == \/ ~l.needCode \/ w.res # OK \/ q.wasInterrupted \/ l.codeRes # OK
                  \/ l.interrupted \/ p.numFilledThreads # 0
     IN
     /\ decoded' = w.out
     /\ writeFailed' = (writeFailed \/ w.res = "write")
     /\ progress' = IF failed \/ (l.needWrite /\ ~w.more /\ ~l.finish) THEN Interrupt(l.block)
                    ELSE progress
     /\ Keep(t, l, q, w.recode /\ again)
     /\ Pass(t, l, w.more)
  /\ SetLoc(t, InitLoc)
  /\ UNCHANGED <<caller, pos, inBuf>>

-------------------------------------------------------------------------------
(* Lzma2DecMt_Decode after the ring, and Lzma2Dec_Decode_ST.                *)

\* A link stays in inBuf when the thread holds data to be decoded again.
Holds(t) ==
  /\ t <= p.numStartedThreads
  /\ p.numFilledThreads > IF t >= p.filledThreadStart THEN t - p.filledThreadStart
                          ELSE t + p.numStartedThreads - p.filledThreadStart

NeedContinue == p.isAllocError \/ p.threadingError \/ p.overflow

\* Lzma2Dec_Prepare_ST: the one-thread decoder needs memory of its own, for its tables,
\* its window and its input buffer; without it the call ends there.
Prepare_ST ==
  \/ /\ mpc' = "st"
     /\ st' = [st EXCEPT !.mode = p.numFilledThreads # 0 \/ p.cross # <<>>]
     /\ UNCHANGED result
  \/ /\ "prepare" \in Faults
     /\ mpc' = "idle"
     /\ result' = "mem"
     /\ UNCHANGED st

\* MtDec_Code returns; one thread goes on when the ring could not do its work.
MtReturn ==
  LET res == progress.res IN
  /\ mpc = "mt" /\ pc[0] = "returned"
  /\ IF res # OK \/ ~NeedContinue
     THEN /\ result' = IF res # OK THEN res ELSE p.readRes
          /\ mpc' = "idle"
          /\ UNCHANGED <<st, inBuf, p>>
     ELSE /\ inBuf' = [t \in Threads |-> IF Holds(t) THEN inBuf[t] ELSE <<>>]
          /\ p' = [p EXCEPT !.crossBlock = @ /\ p.cross # <<>>]    \* MtDec_PrepareRead
          /\ Prepare_ST
  /\ Goto(0, "none")
  /\ UNCHANGED <<plan, calls, input, stream, progress, canRead, canWrite, filled, loc>>

\* Lzma2Dec_DecodeToDic, the write of what it decoded, and the progress callback when
\* the loop goes on.  The first chunk of a stream must start a block.
Consume(data) ==
  LET stops == {i \in 1 .. Len(data) : input[data[i]] \in {"end", "bad", "wrong"}}
      i == Least(stops)
      n == IF stops = {} THEN Len(data) ELSE IF input[data[i]] = "end" THEN i ELSE i - 1
      legal == st.fed \/ data = <<>> \/ input[data[1]] \in {"new", "end"}
      res == IF ~legal THEN "data"
             ELSE IF stops # {} THEN IF input[data[i]] = "end" THEN p.readRes ELSE "data"
             ELSE IF data = <<>> THEN IF p.readRes # OK THEN p.readRes ELSE "eof"
             ELSE OK
      out == IF legal THEN decoded \o SubSeq(data, 1, n) ELSE decoded
      returns(r) == result' = r /\ mpc' = "idle"
  IN
  /\ \/ /\ decoded' = out
        /\ IF ~legal \/ stops # {} \/ (data = <<>> /\ p.readWasFinished)
           THEN returns(res)
           ELSE UNCHANGED <<result, mpc>>
        /\ UNCHANGED writeFailed
     \/ /\ "write" \in Faults /\ out # decoded
        /\ writeFailed' = TRUE
        /\ returns("write")
        /\ UNCHANGED decoded
     \/ /\ "progress" \in Faults /\ res = OK /\ stops = {}
        /\ decoded' \in {decoded, out}          \* what is not written yet is dropped
        /\ returns("progress")
        /\ UNCHANGED writeFailed

\* MtDec_Read, then decoding: the links of the filled threads, around the ring.
ReadFilled ==
  LET s == p.filledThreadStart
      freed == [inBuf EXCEPT ![s] = Tail(@)]
      empty == st.lim # 0 /\ filled[s].size = 0
      next == IF s + 1 = p.numStartedThreads THEN 0 ELSE s + 1
      bufs == IF st.lim = 0 THEN inBuf ELSE IF empty THEN [inBuf EXCEPT ![s] = <<>>] ELSE freed
      t == IF empty THEN next ELSE s
      f == filled[t]
      lim == LinkSize(f.start # 0, f.start, f.size)
  IN
  /\ mpc = "st" /\ st.mode /\ p.numFilledThreads # 0
  /\ inBuf' = bufs
  /\ IF empty /\ p.numFilledThreads = 1
     THEN /\ p' = [p EXCEPT !.numFilledThreads = 0]
          /\ UNCHANGED <<st, filled, mpc, result, decoded, writeFailed>>
     ELSE /\ p' = [p EXCEPT !.numFilledThreads = IF empty THEN @ - 1 ELSE @,
                            !.filledThreadStart = t]
          /\ filled' = [filled EXCEPT ![t] = [start |-> 0, size |-> f.size - lim]]
          /\ st' = [st EXCEPT !.lim = lim, !.fed = TRUE]
          /\ IF lim = 0 THEN UNCHANGED <<mpc, result, decoded, writeFailed>>
             ELSE Consume(SubSeq(bufs[t][1], 1, lim))
  /\ UNCHANGED <<plan, calls, input, pos, progress, canRead, canWrite, pc, loc>>

\* MtDec_Read, after the filled threads: the cross buffer, once.
ReadRest ==
  /\ mpc = "st" /\ st.mode /\ p.numFilledThreads = 0
  /\ IF p.cross # <<>>
     THEN /\ p' = [p EXCEPT !.cross = <<>>]
          /\ st' = [st EXCEPT !.fed = TRUE]
          /\ Consume(p.cross)
     ELSE /\ p' = [p EXCEPT !.crossBlock = FALSE]
          /\ st' = [st EXCEPT !.mode = FALSE]
          /\ UNCHANGED <<mpc, result, decoded, writeFailed>>
  /\ UNCHANGED <<plan, calls, input, pos, progress, canRead, canWrite, inBuf, filled, pc, loc>>

\* ISeqInStream_Read, then decoding.
ReadStream ==
  LET most == Smaller(InBufSize, Len(input) - pos) IN
  /\ mpc = "st" /\ ~st.mode
  /\ \/ /\ p.readWasFinished
        /\ Consume(<<>>)
        /\ UNCHANGED <<pos, p, st>>
     \/ /\ ~p.readWasFinished /\ most > 0
        /\ pos' = pos + most
        /\ st' = [st EXCEPT !.fed = TRUE]
        /\ Consume([i \in 1 .. most |-> pos + i])
        /\ UNCHANGED p
     \/ /\ ~p.readWasFinished
        /\ \E fails \in {f \in BOOLEAN : IF f THEN "read" \in Faults ELSE most = 0} :
             p' = [p EXCEPT !.readWasFinished = TRUE, !.readRes = IF fails THEN "read" ELSE @]
        /\ UNCHANGED <<pos, st, mpc, result, decoded, writeFailed>>
  /\ UNCHANGED <<plan, calls, input, progress, canRead, canWrite, inBuf, filled, pc, loc>>

-------------------------------------------------------------------------------
(* MtDec_Destruct                                                           *)

Destruct ==
  /\ mpc = "idle" /\ calls = Len(plan)
  /\ mpc' = "wake"
  /\ p' = [p EXCEPT !.exitThread = TRUE]
  /\ st' = InitSt
  /\ UNCHANGED <<result, plan, calls, input, stream, progress, canRead, canWrite, inBuf, filled, pc, loc>>

\* MtDecThread_CloseThread
CloseThread ==
  /\ mpc = "wake"
  /\ IF pc[st.i] = "none"
     THEN /\ UNCHANGED <<canRead, canWrite>>
     ELSE /\ canRead' = [canRead EXCEPT ![st.i] = TRUE]
          /\ canWrite' = [canWrite EXCEPT ![st.i] = TRUE]
  /\ mpc' = "join"
  /\ UNCHANGED <<result, plan, calls, input, st, stream, p, progress, inBuf, filled, pc, loc>>

JoinThread ==
  /\ mpc = "join" /\ pc[st.i] \in {"none", "exited"}
  /\ inBuf' = [inBuf EXCEPT ![st.i] = <<>>]
  /\ canRead' = [canRead EXCEPT ![st.i] = FALSE]
  /\ canWrite' = [canWrite EXCEPT ![st.i] = FALSE]
  /\ st' = [st EXCEPT !.i = IF @ = MaxThreads - 1 THEN 0 ELSE @ + 1]
  /\ mpc' = IF st.i = MaxThreads - 1 THEN "destroyed" ELSE "wake"
  /\ Goto(st.i, "none")
  /\ UNCHANGED <<result, plan, calls, input, stream, p, progress, filled, loc>>

-------------------------------------------------------------------------------

CallerStep ==
  \/ MtDec_Code \/ MtReturn \/ ReadFilled \/ ReadRest \/ ReadStream
  \/ Destruct \/ CloseThread \/ JoinThread

ThreadStep(t) ==
  \/ WaitRead(t) \/ LinkFails(t) \/ ReadCross(t) \/ ReadLink(t) \/ Check(t)
  \/ StartNext(t) \/ Code(t) \/ WaitWrite(t) \/ Deliver(t)

Destroyed == mpc = "destroyed" /\ UNCHANGED vars

Next == CallerStep \/ (\E t \in Threads : ThreadStep(t)) \/ Destroyed

Spec == Init /\ [][Next]_vars

\* The scheduler runs every thread that is not blocked, and the callbacks return; a call
\* that has begun goes on, and nothing makes the caller begin one.
FairSpec ==
  /\ Spec /\ WF_vars(mpc # "idle" /\ CallerStep)
  /\ \A t \in Threads : WF_vars(ThreadStep(t))
-------------------------------------------------------------------------------
(* Properties.                                                              *)

Labels == {"none", "canRead", "read", "check", "start", "code", "write", "deliver",
           "returned", "exited"}

At(labels) == {t \in Threads : pc[t] \in labels}

\* Type invariant of the caller, of CMtDec, and of the threads.
TypeOK ==
  /\ mpc \in {"idle", "mt", "st", "wake", "join", "destroyed"}
  /\ result \in SResults /\ plan \in Plans /\ calls \in 0 .. Len(plan)
  /\ input \in Seq(Kinds) /\ pos \in 0 .. Len(input)
  /\ decoded \in Seq(1 .. Len(input)) /\ writeFailed \in BOOLEAN
  /\ DOMAIN p = DOMAIN InitP /\ p.blockIndex \in Nat \ {0}
  /\ p.cross \in Seq(1 .. Len(input)) /\ Len(p.cross) <= InBufSize
  /\ p.filledThreadStart \in Threads /\ p.numFilledThreads \in 0 .. MaxThreads
  /\ p.Limit \in 1 .. MaxThreads /\ p.numStartedThreads \in 0 .. p.Limit
  /\ p.readRes \in {OK, "read"} /\ p.codeRes \in SResults
  /\ progress \in [res : {OK, "progress"}, needInterrupt : BOOLEAN, interruptIndex : Nat]
  /\ canRead \in [Threads -> BOOLEAN] /\ canWrite \in [Threads -> BOOLEAN]
  /\ \A t \in Threads : \A i \in 1 .. Len(inBuf[t]) : Len(inBuf[t][i]) <= InBufSize
  /\ filled \in [Threads -> [start : 0 .. InBufSize, size : Nat]]
  /\ pc \in [Threads -> Labels]
  /\ \A t \in Threads : DOMAIN loc[t] = DOMAIN InitLoc /\ loc[t].next \in Threads
  /\ st \in [mode : BOOLEAN, lim : Nat, fed : BOOLEAN, i : Threads]

\* The data reaches the output in the order of the stream, with no unit left out or
\* decoded twice: neither where one block ends and the next begins in the same buffer,
\* nor where the decoding goes over from the ring to one thread.
OutputInOrder == decoded = [i \in 1 .. Len(decoded) |-> i]

\* Where decoding has to stop: after the end mark, before the first damage, or where
\* the stream could not be read any more ("we want to decode all data before error").
Goal ==
  LET stops == {i \in 1 .. Len(input) : input[i] \in {"end", "bad", "wrong"}}
      i == Least(stops)
      last == IF stops = {} THEN Len(input) ELSE IF input[i] = "end" THEN i ELSE i - 1
  IN IF p.readRes = OK THEN last ELSE Smaller(pos, last)

\* When the call is over and it reports no failure of a callback of the caller and no
\* lack of memory, everything that can be decoded was written: whatever memory or
\* threads the ring was missing (which it never reports: one thread takes over; only
\* that thread's own memory ends the call), and whichever blocks were interrupted, since
\* an error interrupts only the blocks after it, and what they had read is decoded again
\* when that is needed.
AllDecoded ==
  mpc = "idle" /\ calls > 0 /\ result \notin {"write", "progress", "mem"} /\ ~writeFailed
  => decoded = [i \in 1 .. Goal |-> i]

Ringing == mpc = "mt" /\ pc[0] # "returned"
Ending == {t \in At({"code", "write", "deliver"}) : loc[t].finish}

\* The token to read is never lost and never doubled: one thread is told to read, or
\* reads, or has taken the last block of the ring and will start the ring again.
OneReader ==
  Ringing => LET readers == {t \in Threads : canRead[t]} \cup At({"read", "check", "start"})
             IN Cardinality(readers) + Cardinality(Ending) = 1

\* The token to write goes around with the oldest block of those in work, until
\* decoding ends.
WriterIsOldest ==
  LET working == At({"read", "check", "start", "code", "write", "deliver"})
      writers == {t \in Threads : canWrite[t]} \cup At({"deliver"})
  IN /\ Ringing /\ ~p.exitThread => Cardinality(writers) = 1
     /\ \A t \in writers, u \in working : t \in working => loc[t].block <= loc[u].block

\* The two tokens go around the ring, one behind the other.
TokensInRing == OneReader /\ WriterIsOldest

\* When MtDec_Code has returned, no other thread is at work or was told to be: their
\* buffers may be read and freed, and the events reset for the next call.
ReturnedIsQuiet ==
  mpc \in {"idle", "st"} =>
    \A t \in Threads : ~canRead[t] /\ ~canWrite[t] /\ pc[t] \in {"none", "canRead"}

\* Every call returns and the decoder can be destroyed: no thread waits for a token
\* that nobody passes.
CallsReturn == mpc \notin {"idle", "destroyed"} ~> mpc \in {"idle", "destroyed"}
===============================================================================
