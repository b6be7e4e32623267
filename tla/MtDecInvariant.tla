--------------------------- MODULE MtDecInvariant ---------------------------
(***************************************************************************)
(* The inductive invariants of MtDec, which MtDecProofs proves: Control is *)
(* that of the tokens, and Data that of the units of the stream: where      *)
(* each block at work, each kept block and the output start and end.  After *)
(* each of them stand the effects to which the actions are reduced.         *)
(***************************************************************************)
EXTENDS MtDec

-------------------------------------------------------------------------------
(* The tokens.                                                              *)

Reading == At({"read", "check", "start"})

Coding == At({"code", "write", "deliver"})

Working == Reading \cup Coding

\* A thread passed canRead on and has a block behind it in the ring.
Passing == {t \in Coding : ~loc[t].finish}

NoRead == \A t \in Threads : ~canRead[t]

NoWrite == \A t \in Threads : ~canWrite[t]

AllWait == \A t \in Threads : pc[t] \in {"none", "canRead"}

\* The thread r is told to read, or reads, or has the last block.
ReadTurn(r) ==
  /\ \A t \in Threads : canRead[t] => t = r
  /\ \/ canRead[r] /\ Reading = {} /\ Ending = {}
     \/ ~canRead[r] /\ Reading = {r} /\ Ending = {} /\ loc[r].block = p.blockIndex - 1
     \/ ~canRead[r] /\ Reading = {} /\ Ending = {r} /\ loc[r].block = p.blockIndex - 1

\* The thread w has the token to write: its block is the oldest, or it will read the
\* next block.
WriteTurn(w) ==
  /\ \A t \in Threads : canWrite[t] \/ pc[t] = "deliver" => t = w
  /\ canWrite[w] <=> pc[w] # "deliver"
  /\ Working # {} => w \in Working
  /\ Working = {} => canRead[w]
  /\ \A u \in Working : loc[w].block <= loc[u].block

\* The blocks in work.
Chain ==
  /\ \A t \in Working : loc[t].block \in 1 .. p.blockIndex - 1
  /\ \A t, u \in Working : loc[t].block = loc[u].block => t = u
  /\ \A t \in Passing : IF loc[t].block = p.blockIndex - 1 THEN canRead[loc[t].next]
                        ELSE /\ loc[t].next \in Working
                             /\ loc[loc[t].next].block = loc[t].block + 1

\* The threads of the ring, and those that are not started or sleep since an earlier call.
Started ==
  \A t \in Threads :
    /\ pc[t] \notin {"returned", "exited"}
    /\ t < p.numStartedThreads => pc[t] # "none"
    /\ t >= p.numStartedThreads =>
         ~canRead[t] /\ ~canWrite[t] /\ pc[t] \in {"none", "canRead"}

Tokens ==
  /\ ~p.exitThread
  /\ p.numStartedThreads > 0
  /\ \E r \in Threads : ReadTurn(r)
  /\ \E w \in Threads : WriteTurn(w)
  /\ Chain
  /\ Started

\* Thread 0 is told to return.
Exiting ==
  /\ p.exitThread
  /\ \A t \in Threads : canRead[t] <=> t = 0
  /\ NoWrite /\ AllWait /\ pc[0] = "canRead"

Returned ==
  /\ pc[0] = "returned"
  /\ \A t \in Threads \ {0} : pc[t] \in {"none", "canRead"}
  /\ NoRead /\ NoWrite

Phase ==
  /\ mpc \in {"idle", "st"} => NoRead /\ NoWrite /\ AllWait /\ pc[0] = "none"
  /\ mpc \in {"wake", "join", "destroyed"} =>
       p.exitThread /\ (\A t \in Threads : pc[t] \in {"none", "canRead", "exited"}) /\ pc[0] = "none"
  /\ mpc = "mt" => Tokens \/ Exiting \/ Returned

Types ==
  /\ mpc \in {"idle", "mt", "st", "wake", "join", "destroyed"}
  /\ plan \in Plans /\ calls \in 0 .. Len(plan)
  /\ mpc \in {"mt", "st"} => calls > 0
  /\ DOMAIN p = DOMAIN InitP /\ p.blockIndex \in Nat \ {0}
  /\ p.numStartedThreads \in Nat /\ p.Limit \in 1 .. MaxThreads
  /\ p.numStartedThreads <= p.Limit /\ p.exitThread \in BOOLEAN
  /\ canRead \in [Threads -> BOOLEAN] /\ canWrite \in [Threads -> BOOLEAN]
  /\ pc \in [Threads -> Labels]
  /\ DOMAIN loc = Threads
  /\ \A t \in Threads : /\ DOMAIN loc[t] = DOMAIN InitLoc /\ loc[t].next \in Threads
                        /\ loc[t].block \in Nat
  /\ DOMAIN st = DOMAIN InitSt /\ st.i \in Threads

Control == Types /\ Phase

-------------------------------------------------------------------------------
(* Every step keeps the types.                                              *)

\* A step of thread t that only it makes.
LocalTypes(l) ==
  DOMAIN l = DOMAIN InitLoc /\ l.next \in Threads /\ l.block \in Nat

\* What the ring does to p while it runs: the fields of p in Types.
SameRing ==
  /\ DOMAIN p' = DOMAIN p
  /\ p'.blockIndex = p.blockIndex /\ p'.numStartedThreads = p.numStartedThreads
  /\ p'.Limit = p.Limit

-------------------------------------------------------------------------------
(* What the steps of a thread do to the tokens and the blocks.              *)

ReadingLabels == {"read", "check", "start"}

CodingLabels == {"code", "write", "deliver"}

Untouched ==
  UNCHANGED caller /\ SameRing /\ p'.exitThread = p.exitThread

\* t works on without a token: it reads or codes on, or codes the last block.
Inside(t, label, l) ==
  /\ Goto(t, label) /\ SetLoc(t, l)
  /\ LocalTypes(l) /\ l.block = loc[t].block /\ l.next = loc[t].next
  /\ \/ pc[t] \in ReadingLabels /\ label \in ReadingLabels
     \/ pc[t] \in ReadingLabels /\ label \in {"code", "write"} /\ l.finish
     \/ pc[t] = "code" /\ label \in {"code", "write"} /\ l.finish = loc[t].finish
  /\ Untouched /\ UNCHANGED <<canRead, canWrite>>

\* t takes the token to read, and with it the number of its block.
TakesRead(t, label, l) ==
  /\ pc[t] = "canRead" /\ canRead[t] /\ ~p.exitThread
  /\ Goto(t, label) /\ label \in {"read", "start"} /\ SetLoc(t, l)
  /\ LocalTypes(l) /\ l.block = p.blockIndex
  /\ canRead' = [canRead EXCEPT ![t] = FALSE]
  /\ p' = [p EXCEPT !.blockIndex = @ + 1]
  /\ UNCHANGED caller /\ UNCHANGED canWrite

\* Thread 0 returns; or a thread ends that is told to.
Exits(t, label) ==
  /\ pc[t] = "canRead" /\ canRead[t] /\ p.exitThread
  /\ label = IF t = 0 THEN "returned" ELSE "exited"
  /\ Goto(t, label) /\ UNCHANGED loc
  /\ canRead' = [canRead EXCEPT ![t] = FALSE]
  /\ UNCHANGED caller /\ UNCHANGED <<p, canWrite>>

\* t passes the token to read to the next thread, which it may have started.
PassesRead(t, label, l) ==
  /\ pc[t] = "start" /\ label \in {"code", "write"}
  /\ SetLoc(t, l) /\ LocalTypes(l) /\ l.block = loc[t].block /\ ~l.finish
  /\ DOMAIN p' = DOMAIN p /\ p'.blockIndex = p.blockIndex /\ p'.exitThread = p.exitThread
  /\ p'.numStartedThreads \in Nat /\ p'.Limit \in 1 .. MaxThreads
  /\ p.numStartedThreads <= p'.numStartedThreads /\ p'.numStartedThreads <= p'.Limit
  /\ l.next = NextInRing(t, p'.numStartedThreads)
  /\ canRead' = [canRead EXCEPT ![l.next] = TRUE]
  /\ canWrite' = canWrite
  /\ pc' \in [Threads -> Labels] /\ pc'[t] = label
  /\ \A u \in Threads \ {t} :
        \/ pc'[u] = pc[u] /\ (u < p'.numStartedThreads => u < p.numStartedThreads \/ pc[u] # "none")
        \/ pc[u] = "none" /\ pc'[u] = "canRead"
  /\ UNCHANGED caller

\* A label of `code' or `write', and what StartNext makes of the local variables.
Started1(t) ==
  [loc[t] EXCEPT !.finish = @ \/ loc[t].res # OK \/ loc[t].interrupted, !.links = 1]

StartLabel(t) ==
  IF Started1(t).res = OK /\ Started1(t).needCode /\ Started1(t).codeRes = OK THEN "code" ELSE "write"

\* t takes the token to write.
TakesWrite(t, l) ==
  /\ pc[t] = "write" /\ canWrite[t]
  /\ canWrite' = [canWrite EXCEPT ![t] = FALSE] /\ UNCHANGED canRead
  /\ Goto(t, "deliver") /\ SetLoc(t, l)
  /\ LocalTypes(l) /\ l.block = loc[t].block /\ l.next = loc[t].next /\ l.finish = loc[t].finish
  /\ Untouched

\* t is done with its block.  The tokens go on as Pass says.
Delivers(t, more) ==
  /\ pc[t] = "deliver"
  /\ Pass(t, loc[t], more)
  /\ SetLoc(t, InitLoc)
  /\ SameRing /\ UNCHANGED caller
  /\ p'.exitThread = (p.exitThread \/ (loc[t].finish /\ ~more /\ t # 0))

\* What Deliver does for the result w of the call of Write.
AfterWrite(t, w) ==
  [p EXCEPT !.wasInterrupted = @ \/ (loc[t].needWrite /\ w.res # OK),
            !.exitThread = @ \/ (loc[t].finish /\ ~w.more /\ t # 0)]

-------------------------------------------------------------------------------
(* The steps of the caller.                                                 *)

\* The steps of the one thread that goes on alone.
Alone ==
  /\ mpc = "st" /\ mpc' \in {"st", "idle"}
  /\ SameRing /\ p'.exitThread = p.exitThread
  /\ DOMAIN st' = DOMAIN st /\ st'.i = st.i
  /\ UNCHANGED <<plan, calls, canRead, canWrite, pc, loc>>

-------------------------------------------------------------------------------
(* The data.                                                                *)

\* n units of the stream that follow the first b.
Run(b, n) == [i \in 1 .. n |-> b + i]

\* Where the next block starts: what is in the cross buffer was read and not taken.
Edge == pos - Len(p.cross)

\* The m-th link of a block with `s' units in the first one: how many units of the block
\* are in it at most, and how many are before it.
Cap(s, m) == IF m = 1 THEN s ELSE InBufSize

Offset(s, m) == IF m = 1 THEN 0 ELSE s + (m - 2) * InBufSize

\* The n units after the first b of the stream lie in the links.
Laid(links, b, s, n) ==
  \A m \in 1 .. n + 1, i \in 1 .. n :
    i <= Cap(s, m) /\ Offset(s, m) + i <= n =>
      m <= Len(links) /\ i <= Len(links[m]) /\ links[m][i] = b + Offset(s, m) + i

\* The units of the stream before the links of a thread, before its block, and up to the
\* end of its block.
Base(links) == links[1][1] - 1

Begin(t) == IF loc[t].size > 0 THEN Base(inBuf[t]) ELSE Edge

End(t) == Begin(t) + loc[t].size

Stored ==
  /\ input \in Seq(Kinds) /\ pos \in 0 .. Len(input)
  /\ p.cross \in Seq(Nat) /\ Edge \in Nat /\ p.cross = Run(Edge, Len(p.cross))
  /\ decoded \in Seq(Nat) /\ decoded = Run(0, Len(decoded))
  /\ p.wasInterrupted \in BOOLEAN /\ p.isAllocError \in BOOLEAN
  /\ p.threadingError \in BOOLEAN /\ p.overflow \in BOOLEAN /\ p.readWasFinished \in BOOLEAN
  /\ p.filledThreadStart \in Threads /\ p.numFilledThreads \in Nat
  /\ progress \in [res : {OK, "progress"}, needInterrupt : BOOLEAN, interruptIndex : Nat]
  /\ inBuf \in [Threads -> Seq(Seq(Nat))]
  /\ filled \in [Threads -> [start : Nat, size : Nat]]
  /\ st.lim \in Nat /\ st.mode \in BOOLEAN
  /\ mpc = "mt" => st.lim = 0

BlockTypes(l) ==
  /\ LocalTypes(l)
  /\ l.res \in {OK, "progress"} /\ l.codeRes \in {OK, "data", "mem", "fail"}
  /\ l.interrupted \in BOOLEAN /\ l.finish \in BOOLEAN /\ l.needCode \in BOOLEAN
  /\ l.needWrite \in BOOLEAN /\ l.alloc \in BOOLEAN /\ l.overflow \in BOOLEAN
  /\ l.marked \in BOOLEAN /\ l.thrErr \in BOOLEAN /\ l.toStream \in BOOLEAN
  /\ l.start \in Nat /\ l.size \in Nat /\ l.links \in Nat /\ l.parsed \in Nat /\ l.codePos \in Nat
  /\ l.state \in {"continue", "new", "end", "overflow"} /\ l.out \in Seq(Nat)

\* Nothing of the block was decoded.
Fresh(l) == l.codePos = 0 /\ l.out = <<>> /\ l.codeRes = OK /\ ~l.thrErr

\* Why a block is not decoded or not the last one.
Broken(l) == l.res # OK \/ l.interrupted

Stopped(l) == l.alloc \/ l.overflow \/ l.thrErr

\* The links hold the block.
Stocked(l, links) ==
  /\ l.start <= l.size /\ (l.size > 0 => l.start > 0)
  /\ l.size > 0 => Base(links) \in Nat /\ Laid(links, Base(links), l.start, l.size)

\* A block whose end is not found yet.
Growing(l, links) ==
  /\ Fresh(l) /\ ~Broken(l) /\ ~Stopped(l) /\ ~l.needCode /\ l.state = "continue"
  /\ l.parsed = l.size /\ l.size = Offset(l.start, l.links + 1) /\ l.links <= Len(links)
  /\ IF l.links = 0 THEN l.size = 0 /\ l.start = 0 ELSE ~l.finish /\ l.start > 0

\* A block that was read, or given up.
Whole(label, l) ==
  /\ Stopped(l) => l.finish
  /\ l.needCode \/ Stopped(l) \/ Broken(l) \/ l.codeRes # OK
  /\ ~l.finish => (l.size > 0 /\ l.state = "new") \/ (Broken(l) /\ label \in ReadingLabels)
  /\ l.finish /\ l.state = "new" => Stopped(l) \/ Broken(l) \/ l.codeRes # OK
  /\ l.needCode => l.needWrite
  /\ ~l.needCode /\ l.codeRes # OK => l.finish

\* What the first c units of a block are decoded to.
Output(b, c) == IF c > 0 THEN Run(b, c) ELSE <<>>

\* How much of it was decoded.
Coded(label, l, links) ==
  /\ l.codePos <= l.size /\ (~l.needCode => l.codePos = 0)
  /\ l.out = Output(Base(links), l.codePos)
  /\ label = "code" =>
       /\ l.needCode /\ l.codeRes = OK /\ l.res = OK
       /\ l.links > 0 /\ l.codePos = Offset(l.start, l.links)
       /\ l.codePos < l.size \/ (l.size = 0 /\ l.links = 1)
  /\ label \in {"write", "deliver"} =>
       (l.needCode /\ l.codeRes = OK /\ ~Broken(l) => l.codePos = l.size)

\* What a block is, whatever the other threads do.
BlockOf(label, l, links) ==
  /\ BlockTypes(l)
  /\ Stocked(l, links)
  /\ label = "read" => Growing(l, links)
  /\ label # "read" => Whole(label, l)
  /\ label = "check" => Fresh(l)
  /\ label = "start" => l.codePos = 0 /\ l.out = <<>> /\ ~l.thrErr
  /\ label \in CodingLabels => Coded(label, l, links)

Blocks == \A t \in Working : BlockOf(pc[t], loc[t], inBuf[t])

\* A block starts where the one before it ends.
Newest(t) == loc[t].block = p.blockIndex - 1

Stops(x) == x > 0 /\ input[x] \in {"end", "wrong"}

\* The newest block ends where the next one starts, or decoding stops at its end.
LastEnds(t) == End(t) = Edge \/ (loc[t].finish /\ loc[t].state = "end" /\ Stops(End(t)))

Joined ==
  /\ \A t \in Passing : End(t) = IF Newest(t) THEN Edge ELSE Begin(loc[t].next)
  /\ \A t \in Working : Newest(t) => LastEnds(t)
  /\ \A t \in At({"read"}) : loc[t].links > 0 => p.cross = <<>>

\* The next thread of the ring, which is complete once it has gone around.
Around ==
  \A t \in Passing :
    \/ loc[t].next = t + 1 /\ t + 1 < p.numStartedThreads
    \/ loc[t].next = 0 /\ t + 1 = p.numStartedThreads /\ p.numStartedThreads = p.Limit

\* What a thread has found is known to all.
Told(label, l) ==
  /\ l.res # OK => progress.res # OK
  /\ l.interrupted /\ label # "deliver" => Interrupted(l.block)
  /\ l.codeRes # OK /\ l.needCode =>
       progress.needInterrupt /\ progress.interruptIndex <= l.block

\* What p says of the block that is delivered.
Recorded(l) ==
  /\ l.interrupted => p.wasInterrupted \/ progress.res # OK
  /\ ~l.interrupted =>
       /\ l.toStream <=> ~(Stopped(l) \/ l.codeRes = "mem")
       /\ p.wasInterrupted <=> (Stopped(l) \/ l.codeRes # OK)
       /\ NeedContinue <=> ~l.toStream

\* Where an interruption comes from.
Interrupts ==
  /\ NeedContinue => p.wasInterrupted
  /\ \A t \in Working : Told(pc[t], loc[t])
  /\ \A t \in At({"deliver"}) : Recorded(loc[t])
  /\ ~p.wasInterrupted /\ progress.res = OK /\ progress.needInterrupt =>
       \E u \in Working : loc[u].block <= progress.interruptIndex /\ loc[u].codeRes # OK

\* Every block was written, up to the oldest one at work.
Open ==
  /\ progress.res = OK
  /\ ~p.wasInterrupted \/ \E t \in At({"deliver"}) : ~loc[t].interrupted

\* The threads that keep what they have read, and where that ends.
F(i) ==
  LET x == p.filledThreadStart + i IN
  IF x >= p.numStartedThreads THEN x - p.numStartedThreads ELSE x

After(t) == Base(inBuf[t]) + filled[t].size

KeptEnd == IF p.numFilledThreads = 0 THEN Len(decoded) ELSE After(F(p.numFilledThreads - 1))

\* The links hold what is kept in them.
KeptOf(links, f) ==
  /\ 0 < f.start /\ f.start <= f.size
  /\ Base(links) \in Nat /\ Laid(links, Base(links), f.start, f.size)

\* The kept blocks from one of them on are a run of the stream from b.
Chained(first, b) ==
  \A i \in first .. p.numFilledThreads - 1 :
    /\ KeptOf(inBuf[F(i)], filled[F(i)])
    /\ i = first => Base(inBuf[F(i)]) = b
    /\ i > first => Base(inBuf[F(i)]) = After(F(i - 1))
    /\ \A j \in first .. i - 1 : After(F(j)) <= Base(inBuf[F(i)])

KeptRun ==
  /\ p.filledThreadStart < p.numStartedThreads /\ p.numFilledThreads <= p.numStartedThreads
  /\ Chained(0, Len(decoded))

\* It ends where the next block starts, or with a unit at which decoding stops.
TailEnds(x) == x = Edge \/ (x > Len(decoded) /\ Stops(x))

\* The block to write is the one after what was written.
InTurn ==
  /\ \A t \in Working : canWrite[t] \/ pc[t] = "deliver" => Len(decoded) = Begin(t)
  /\ Working = {} => Len(decoded) = Edge

\* The block to keep is the one after what was kept, and the ones after it are given up.
KeepTurn ==
  /\ p.numFilledThreads > 0
  /\ \A t \in Threads : canWrite[t] \/ pc[t] = "deliver" =>
       t = F(p.numFilledThreads) /\ (t \in Working => KeptEnd = Begin(t))
  /\ Working = {} => KeptEnd = Edge
  /\ p.filledThreadStart + p.numFilledThreads >= p.numStartedThreads =>
       p.numStartedThreads = p.Limit
  /\ Interrupted(p.blockIndex)
  /\ \A i \in 0 .. p.numFilledThreads - 1 :
       F(i) \in Working => /\ pc[F(i)] \in {"start", "write", "deliver"}
                           /\ loc[F(i)].size = 0 /\ loc[F(i)].interrupted
                           /\ ~loc[F(i)].needCode

Written ==
  /\ \A t \in At({"deliver"}) :
       loc[t].needCode /\ ~Broken(loc[t]) /\ loc[t].size > 0 => Len(decoded) = Base(inBuf[t])
  /\ mpc = "mt" /\ Open => p.numFilledThreads = 0 /\ (Tokens => InTurn)
  /\ mpc = "mt" /\ ~Open /\ NeedContinue /\ progress.res = OK =>
       /\ KeptRun
       /\ Exiting \/ Returned => TailEnds(KeptEnd)
       /\ Tokens => KeepTurn

\* The first kept block while it is decoded, and where it ends.
FirstEnd == Len(decoded) + filled[p.filledThreadStart].size

Begun ==
  LET s == p.filledThreadStart IN
  /\ s < p.numStartedThreads /\ p.numFilledThreads <= p.numStartedThreads
  /\ filled[s].start = 0 /\ Len(inBuf[s]) > 0
  /\ Laid(inBuf[s], Len(decoded), 0, filled[s].size)
  /\ Chained(1, FirstEnd)

\* One thread decodes what was kept, then the cross buffer, then the stream.
Resumed ==
  mpc = "st" =>
    /\ st.mode /\ p.numFilledThreads > 0 /\ st.lim = 0 => KeptRun
    /\ st.mode /\ p.numFilledThreads > 0 /\ st.lim > 0 => Begun
    /\ st.mode => TailEnds(IF p.numFilledThreads = 1 /\ st.lim > 0 THEN FirstEnd ELSE KeptEnd)
    /\ ~st.mode => Len(decoded) = pos /\ p.cross = <<>> /\ p.numFilledThreads = 0

Data == Stored /\ Blocks /\ Joined /\ Around /\ Interrupts /\ Written /\ Resumed

-------------------------------------------------------------------------------
(* Runs of units, and how the links hold them.                              *)

\* Concatenations and prefixes under names, which the provers leave as they are.
Joint(s, u) == s \o u

First(s, n) == SubSeq(s, 1, n)

\* The links with one more in use.
Put(L, m, d) == SubSeq(L, 1, m - 1) \o <<d>> \o Rest(L, m)

\* The k units that follow a block from b in the first m - 1 links are put after these.
Puts(L, b, s, m, k, data) ==
  /\ m - 1 <= Len(L) /\ Laid(L, b, s, Offset(s, m)) /\ k <= Cap(s, m)
  /\ data = Run(b + Offset(s, m), k)

-------------------------------------------------------------------------------
(* A thread that works on its block alone.                                  *)

SameKeep ==
  /\ p'.wasInterrupted = p.wasInterrupted /\ p'.isAllocError = p.isAllocError
  /\ p'.threadingError = p.threadingError /\ p'.overflow = p.overflow
  /\ p'.filledThreadStart = p.filledThreadStart /\ p'.numFilledThreads = p.numFilledThreads

\* No error is forgotten, and a new interruption comes from the block of t.
SameErrors(t) ==
  /\ progress.res # OK => progress'.res # OK
  /\ progress.needInterrupt =>
       progress'.needInterrupt /\ progress'.interruptIndex <= progress.interruptIndex
  /\ progress'.needInterrupt =>
       \/ progress.needInterrupt /\ progress'.interruptIndex = progress.interruptIndex
       \/ loc'[t].codeRes # OK /\ loc[t].block <= progress'.interruptIndex

Works(t) ==
  /\ pc[t] \in {"read", "check", "code"}
  /\ pc[t] = "code" => /\ pc'[t] \in {"code", "write"} /\ UNCHANGED <<p, pos>>
                       /\ inBuf'[t] = inBuf[t] /\ loc'[t].size = loc[t].size
                       /\ loc'[t].finish = loc[t].finish /\ loc'[t].state = loc[t].state
  /\ pc[t] # "code" => pc'[t] \in ReadingLabels /\ LastEnds(t)'
  /\ loc'[t].block = loc[t].block /\ loc'[t].next = loc[t].next
  /\ loc[t].codeRes # OK => loc'[t].codeRes # OK
  /\ \A u \in Threads \ {t} : pc'[u] = pc[u] /\ loc'[u] = loc[u] /\ inBuf'[u] = inBuf[u]
  /\ SameRing /\ p'.exitThread = p.exitThread /\ SameKeep /\ SameErrors(t)
  /\ UNCHANGED <<caller, decoded, filled, canRead, canWrite>>
  /\ BlockOf(pc'[t], loc'[t], inBuf'[t])
  /\ Begin(t)' = Begin(t)
  /\ pc'[t] = "read" /\ loc'[t].links > 0 => p'.cross = <<>>
  /\ Told(pc[t], loc[t])'

-------------------------------------------------------------------------------
(* The steps in which a thread works alone: decoding.                       *)

\* What the decoder takes of a link follows what it took before.
Piece(B, b, s, n, c, q, k, data) ==
  /\ c = Offset(s, q) /\ (n > 0 => b \in Nat /\ Laid(B, b, s, n)) /\ (n = 0 => c = 0)
  /\ c + k <= n /\ k <= Cap(s, q) /\ data = First(B[q], k)

Follows(b, c, data, k) ==
  /\ data \in Seq(Nat) /\ Len(data) = k
  /\ \A x \in 0 .. k : Joint(Output(b, c), First(data, x)) = Output(b, c + x)

-------------------------------------------------------------------------------
(* The steps in which a thread works alone: reading.                        *)

\* The g links hold a block from b; the next one is put after them, and the block takes
\* the first k of the n units that are read.
Grows(L, g, s, b, n, k, d) ==
  LET e == b + Offset(s, g + 1) IN
  /\ g <= Len(L) /\ (g > 0 => s > 0 /\ Laid(L, b, s, Offset(s, g + 1)) /\ n <= InBufSize)
  /\ d = Run(e, n) \/ (g = 0 /\ d = Run(e, k))

\* A turn of the loop: n units from E on are in `data', of which the block takes the first
\* k; `d' is put in the next link, `m' are the new values of the local variables, and `c'
\* is left in the cross buffer.
Taken(t, E, n, data, k, d, m, label, c) ==
  /\ SetLoc(t, m) /\ Goto(t, label) /\ PutLink(t, d)
  /\ d = data \/ (loc[t].links = 0 /\ d = First(data, k))
  /\ BlockTypes(m) /\ Fresh(m)
  /\ m.size = loc[t].size + k
  /\ m.start = IF loc[t].links = 0 THEN k ELSE loc[t].start
  /\ m.block = loc[t].block /\ m.next = loc[t].next
  /\ c = Run(E + k, n - k) \/ (c = <<>> /\ k > 0 /\ m.finish /\ m.state = "end" /\ Stops(E + k))
  /\ label \in {"read", "check"}
  /\ label = "read" => /\ k = n /\ ~m.finish /\ ~Broken(m) /\ ~Stopped(m) /\ ~m.needCode
                       /\ m.state = "continue" /\ m.parsed = m.size
                       /\ m.links = loc[t].links + 1
  /\ label = "check" => Whole("check", m)

\* The local variables once the n units were read.
Enters(t, l, n, isCross) ==
  /\ BlockTypes(l) /\ Fresh(l) /\ ~Broken(l) /\ ~Stopped(l) /\ ~l.needCode
  /\ l.parsed = loc[t].size /\ l.size = loc[t].size + n /\ loc[t].size \in Nat
  /\ l.start = IF loc[t].links = 0 THEN n ELSE loc[t].start
  /\ l.links = loc[t].links /\ l.block = loc[t].block /\ l.next = loc[t].next
  /\ loc[t].links = 0 => loc[t].size = 0
  /\ isCross => loc[t].links = 0

\* What the turn does to p.
Passes(q, c) ==
  /\ DOMAIN p' = DOMAIN q /\ p'.cross = c
  /\ \A f \in DOMAIN q : f \notin {"cross", "crossBlock"} => p'[f] = q[f]

\* A turn with the n units that follow E in `data'.
Turning(t, E, n, data, isCross, l, q) ==
  /\ data = Run(E, n) /\ Enters(t, l, n, isCross)
  /\ DOMAIN q = DOMAIN InitP /\ (~isCross => q.cross = <<>>)
  /\ Parsed(t, data, isCross, l, q)

\* The links of a block once there is one more, and what they hold.
Grew(L, g, s, k, d, z, N) == z = (IF g = 0 THEN k ELSE s) /\ N = Put(L, g + 1, d)

Grown(N, g, s, b, z, k) ==
  /\ N \in Seq(Seq(Nat)) /\ g + 1 <= Len(N)
  /\ Offset(z, g + 1) = Offset(s, g + 1)
  /\ Laid(N, b, z, Offset(z, g + 1) + k)
  /\ Offset(z, g + 1) + k > 0 => Base(N) = b

\* What a turn does to the rest of the state.
Entered(t, n, label, m, c) ==
  /\ loc[t].links > 0 => n <= InBufSize
  /\ label = "read" => n > 0 /\ (loc[t].links > 0 => n = InBufSize)
  /\ SameRing /\ p'.exitThread = p.exitThread /\ SameKeep
  /\ p'.cross = c /\ p'.readWasFinished \in BOOLEAN
  /\ pos' = Edge + n /\ pos' <= Len(input)
  /\ progress' \in [res : {OK, "progress"}, needInterrupt : BOOLEAN, interruptIndex : Nat]
  /\ SameErrors(t)
  /\ Told(label, m)'
  /\ UNCHANGED <<caller, decoded, writeFailed, filled, canRead, canWrite>>

\* The fields of p that a turn leaves alone.
Agrees(q) ==
  /\ DOMAIN q = DOMAIN InitP
  /\ q.blockIndex = p.blockIndex /\ q.numStartedThreads = p.numStartedThreads
  /\ q.Limit = p.Limit /\ q.exitThread = p.exitThread
  /\ q.wasInterrupted = p.wasInterrupted /\ q.isAllocError = p.isAllocError
  /\ q.threadingError = p.threadingError /\ q.overflow = p.overflow
  /\ q.filledThreadStart = p.filledThreadStart /\ q.numFilledThreads = p.numFilledThreads

\* The local variables of a thread that reads, with n units more.
More(t, l, n) ==
  /\ l.size = loc[t].size + n /\ l.start = (IF loc[t].links = 0 THEN n ELSE loc[t].start)
  /\ l.links = loc[t].links /\ l.block = loc[t].block /\ l.next = loc[t].next
  /\ l.parsed = loc[t].parsed /\ l.codePos = loc[t].codePos /\ l.out = loc[t].out
  /\ l.codeRes = loc[t].codeRes /\ l.thrErr = loc[t].thrErr /\ l.res = loc[t].res
  /\ l.interrupted = loc[t].interrupted /\ l.alloc = loc[t].alloc
  /\ l.overflow = loc[t].overflow /\ l.needCode = loc[t].needCode

\* The block that is read to here is given up.
Breaks(t, E, n, data, l, r, m) ==
  /\ data = Run(E, n) /\ Enters(t, l, n, FALSE) /\ l.state = "continue"
  /\ \E stop \in BOOLEAN : (r # OK \/ stop) /\ m = [l EXCEPT !.res = r, !.interrupted = stop]
  /\ SetLoc(t, m) /\ PutLink(t, data) /\ Goto(t, "check")

-------------------------------------------------------------------------------
(* The data while one thread decodes.                                       *)

SameFlags ==
  /\ p'.wasInterrupted = p.wasInterrupted /\ p'.isAllocError = p.isAllocError
  /\ p'.threadingError = p.threadingError /\ p'.overflow = p.overflow

\* What is decoded of the k units that follow those decoded.
Advances(k) ==
  /\ decoded' \in Seq(Nat) /\ decoded' = Run(0, Len(decoded'))
  /\ mpc' \in {"st", "idle"}
  /\ mpc' = "st" =>
       /\ Len(decoded') = Len(decoded) + k
       /\ \A x \in Len(decoded) + 1 .. Len(decoded) + k : input[x] \notin {"end", "bad", "wrong"}

\* A turn of the loop of MtDec_Read and the decoding after it: the next k units come from
\* the first link of s, and z units of its block are left.
Feeds(s, k, z, n) ==
  /\ p' = [p EXCEPT !.numFilledThreads = n, !.filledThreadStart = s]
  /\ filled' = [filled EXCEPT ![s] = [start |-> 0, size |-> z]]
  /\ st' = [st EXCEPT !.lim = k, !.fed = TRUE]
  /\ Consume(First(inBuf'[s][1], k))

-------------------------------------------------------------------------------
(* The data while the tokens go around.                                     *)

\* A step of the ring that keeps what was written and what is kept.
SameKept ==
  /\ UNCHANGED <<decoded, filled, inBuf>> /\ Edge' = Edge
  /\ p'.filledThreadStart = p.filledThreadStart /\ p'.numFilledThreads = p.numFilledThreads

\* The places of the kept threads are the same.
SamePlaces ==
  /\ \A i \in 0 .. p.numFilledThreads : F(i)' = F(i)
  /\ p'.filledThreadStart < p'.numStartedThreads /\ p'.numFilledThreads <= p'.numStartedThreads
  /\ p'.filledThreadStart + p'.numFilledThreads >= p'.numStartedThreads =>
       p'.numStartedThreads = p'.Limit

\* No other thread gets the token to write; a new block starts where the next one did.
SameWriters ==
  /\ \A u \in Threads : canWrite'[u] \/ pc'[u] = "deliver" => canWrite[u] \/ pc[u] = "deliver"
  /\ \A u \in Working' : canWrite'[u] \/ pc'[u] = "deliver" =>
       IF u \in Working THEN Begin(u)' = Begin(u) ELSE Begin(u)' = Edge /\ Working = {}

\* What a kept thread reads later is given up.
GivenUp(t) ==
  /\ pc[t] \in {"start", "write", "deliver"}
  /\ loc[t].size = 0 /\ loc[t].interrupted /\ ~loc[t].needCode

\* The threads at work on a block that is delivered write it in its place.
InPlace(t) ==
  loc[t].needCode /\ ~Broken(loc[t]) /\ loc[t].size > 0 => Len(decoded) = Base(inBuf[t])

\* t starts to read a block, of which nothing is known yet.
Reads(t, r, l) ==
  LET stop == Interrupted(p.blockIndex) IN
  /\ pc[t] = "canRead" /\ canRead[t] /\ ~p.exitThread /\ r \in ProgressResults
  /\ progress' = [progress EXCEPT !.res = r]
  /\ p' = [p EXCEPT !.blockIndex = @ + 1]
  /\ l = [InitLoc EXCEPT !.block = p.blockIndex, !.res = r, !.interrupted = stop,
                         !.finish = p.readWasFinished]
  /\ SetLoc(t, l) /\ Goto(t, IF r = OK /\ ~stop THEN "read" ELSE "start")
  /\ UNCHANGED <<caller, stream, canWrite, inBuf, filled>>

-------------------------------------------------------------------------------
(* The data when the token to read is passed on.                            *)

\* What else changes when t starts to code its block: another thread may begin to wait.
Moves(t) ==
  /\ \A u \in Threads \ {t} : /\ loc'[u] = loc[u]
                              /\ pc'[u] = pc[u] \/ (pc[u] = "none" /\ pc'[u] = "canRead")
  /\ \A u \in Threads : canWrite'[u] => canWrite[u]
  /\ SameKeep /\ p'.cross = p.cross /\ p'.readWasFinished = p.readWasFinished
  /\ p'.blockIndex = p.blockIndex
  /\ UNCHANGED <<caller, stream, progress, inBuf, filled>>

\* The ring gets one more thread, or it is complete.
RingGrows(t) ==
  /\ \/ p'.numStartedThreads = p.numStartedThreads
        /\ (~loc'[t].finish => p'.numStartedThreads = p'.Limit)
     \/ p'.numStartedThreads = p.numStartedThreads + 1 /\ p.numStartedThreads < p.Limit
  /\ p.numStartedThreads = p.Limit =>
       p'.numStartedThreads = p.numStartedThreads /\ p'.Limit = p.Limit
  /\ ~loc'[t].finish => loc'[t].next = NextInRing(t, p'.numStartedThreads)

\* What is then known of the block k.
Begins(k, l, label) ==
  /\ l.res = k.res /\ l.interrupted = k.interrupted /\ l.codeRes = k.codeRes
  /\ l.alloc = k.alloc /\ l.overflow = k.overflow /\ l.needWrite = k.needWrite
  /\ l.start = k.start /\ l.size = k.size /\ l.state = k.state /\ l.links = 1
  /\ l.codePos = k.codePos /\ l.out = k.out /\ l.block = k.block
  /\ \/ /\ l.finish = (k.finish \/ Broken(k)) /\ l.needCode = k.needCode /\ l.thrErr = k.thrErr
        /\ label = IF l.res = OK /\ l.needCode /\ l.codeRes = OK THEN "code" ELSE "write"
     \/ l.finish /\ ~l.needCode /\ l.thrErr /\ label = "write"

-------------------------------------------------------------------------------
(* The data when a block is to be written.                                  *)

\* What is recorded of the block of t before it is written.
Records(t, r, l) ==
  LET k == loc[t]
      early == p.wasInterrupted
  IN
  /\ r = progress.res \/ (k.needCode /\ r \in ProgressResults)
  /\ progress'.res = r /\ progress'.needInterrupt = progress.needInterrupt
  /\ progress'.interruptIndex = progress.interruptIndex
  /\ progress' \in [res : {OK, "progress"}, needInterrupt : BOOLEAN, interruptIndex : Nat]
  /\ l.res = (IF k.needCode THEN r ELSE k.res)
  /\ l.interrupted = (k.interrupted \/ early)
  /\ l.toStream = (early \/ ~(Stopped(k) \/ k.codeRes = "mem"))
  /\ BlockTypes(l)
  /\ l.finish = k.finish /\ l.needCode = k.needCode /\ l.needWrite = k.needWrite
  /\ l.alloc = k.alloc /\ l.overflow = k.overflow /\ l.thrErr = k.thrErr
  /\ l.codeRes = k.codeRes /\ l.start = k.start /\ l.size = k.size /\ l.state = k.state
  /\ l.codePos = k.codePos /\ l.out = k.out /\ l.block = k.block /\ l.next = k.next
  /\ early => p' = p
  /\ ~early => /\ p'.wasInterrupted = (k.codeRes # OK \/ Stopped(k))
               /\ p'.threadingError = (p.threadingError \/ k.thrErr)
               /\ p'.isAllocError = (p.isAllocError \/ k.alloc \/ k.codeRes = "mem")
               /\ p'.overflow = (p.overflow \/ k.overflow)

\* What p keeps meanwhile.
SameFrame ==
  /\ SameRing /\ p'.exitThread = p.exitThread
  /\ p'.cross = p.cross /\ p'.readWasFinished = p.readWasFinished
  /\ p'.filledThreadStart = p.filledThreadStart /\ p'.numFilledThreads = p.numFilledThreads

\* The step of WaitWrite, with all that is known of it.
WritesNext(t, r, l) ==
  /\ Records(t, r, l) /\ SameFrame /\ UNCHANGED <<caller, stream, inBuf, filled>>
  /\ mpc = "mt" /\ mpc' = "mt" /\ Tokens /\ Types /\ Stored /\ ~Exiting' /\ ~Returned'
  /\ t \in Working /\ pc[t] = "write" /\ canWrite[t] /\ Told("write", loc[t])
  /\ pc'[t] = "deliver" /\ loc'[t] = l
  /\ \A u \in Threads \ {t} : pc'[u] = pc[u] /\ loc'[u] = loc[u]
  /\ \A u \in Working : u \in Threads /\ loc[u].block \in Nat /\ loc[t].block <= loc[u].block
  /\ At({"deliver"}) = {} /\ At({"deliver"})' = {t}
  /\ \A u \in Threads : ~canWrite'[u]
  /\ Working' = Working /\ Passing' = Passing /\ Edge' = Edge
  /\ \A u \in Working : (Newest(u)' <=> Newest(u)) /\ Begin(u)' = Begin(u) /\ End(u)' = End(u)
  /\ BlockOf("deliver", l, inBuf[t]) /\ (Broken(loc[t]) => Broken(l))
  /\ (progress.res # OK => r # OK) /\ r \in {OK, "progress"} /\ (l.res # OK => r # OK)
  /\ loc[t].interrupted /\ ~p.wasInterrupted => progress.res # OK

-------------------------------------------------------------------------------
(* The data when a block is delivered.                                      *)

\* What Lzma2DecMt_MtCallback_Write does with the block l: nothing was read or
\* decoded, it is not to be written, its decoding stopped early, it is written, or
\* the write fails.
ToWrite(l) == l.needWrite /\ l.res = OK /\ l.toStream /\ ~l.interrupted

Wrote(l, w) ==
  /\ ToWrite(l) /\ w.res = OK /\ ~w.recode /\ w.out = Joint(decoded, l.out)
  /\ w.more <=> l.state \notin {"overflow", "end"}

Skipped(l, w) ==
  /\ w.recode /\ w.out = decoded
  /\ \/ ~l.needWrite /\ w.res = l.res /\ (w.more <=> ~l.finish)
     \/ l.needWrite /\ ~ToWrite(l) /\ w.res = OK /\ ~w.more

Failed(l, w) == l.needWrite /\ ToWrite(l) /\ w.res # OK /\ ~w.more /\ w.out = decoded

\* The write fails, or the block is kept to be decoded again.
Fails(l, w) == l.needWrite /\ w.res # OK

Again(l, w) ==
  w.recode /\ (\/ ~l.needCode \/ w.res # OK \/ p.wasInterrupted \/ Fails(l, w) \/ l.codeRes # OK
               \/ l.interrupted \/ p.numFilledThreads # 0)

\* What a delivery does to the data.
Gives(t, w) ==
  LET l == loc[t] IN
  /\ decoded' = w.out /\ UNCHANGED <<caller, pos, inBuf>>
  /\ p'.wasInterrupted = (p.wasInterrupted \/ Fails(l, w))
  /\ p'.isAllocError = p.isAllocError /\ p'.threadingError = p.threadingError
  /\ p'.overflow = p.overflow /\ p'.readWasFinished = p.readWasFinished /\ p'.cross = p.cross
  /\ progress' = IF Fails(l, w) \/ (l.needWrite /\ ~w.more /\ ~l.finish) THEN Interrupt(l.block)
                 ELSE progress
  /\ p'.filledThreadStart = IF Again(l, w) THEN FilledStart(p, t) ELSE p.filledThreadStart
  /\ p'.numFilledThreads = IF Again(l, w) /\ Kept(l) THEN p.numFilledThreads + 1
                           ELSE p.numFilledThreads
  /\ filled' = IF Again(l, w) /\ Kept(l)
               THEN [filled EXCEPT ![t] = [start |-> l.start, size |-> l.size]] ELSE filled
  /\ Delivers(t, w.more)

\* What the step of Deliver gives, with all that is known of it.
Hands(t, l, w) ==
  /\ l = loc[t] /\ Gives(t, w) /\ w.more \in BOOLEAN /\ w.recode \in BOOLEAN
  /\ Wrote(l, w) \/ Skipped(l, w) \/ Failed(l, w)
  /\ mpc = "mt" /\ mpc' = "mt" /\ Tokens /\ Types /\ Types' /\ Stored
  /\ t \in Working /\ pc[t] = "deliver" /\ pc'[t] \in {"canRead", "returned"}
  /\ BlockOf("deliver", l, inBuf[t]) /\ Told("deliver", l) /\ Recorded(l)
  /\ \A u \in Threads \ {t} : pc'[u] = pc[u] /\ loc'[u] = loc[u]
  /\ Newest(t) => Working = {t}
  /\ l.finish => Newest(t)
  /\ ~Newest(t) => l.next \in Working \ {t}
  /\ At({"deliver"}) = {t} /\ At({"deliver"})' = {}
  /\ Working' = Working \ {t} /\ Passing' = Passing \ {t} /\ (~l.finish => t \in Passing)
  /\ p'.blockIndex = p.blockIndex /\ p'.numStartedThreads = p.numStartedThreads
  /\ p'.Limit = p.Limit /\ Edge' = Edge
  /\ \A u \in Working \ {t} :
       (Newest(u)' <=> Newest(u)) /\ Begin(u)' = Begin(u) /\ End(u)' = End(u)
  /\ ~l.finish => ~Exiting' /\ ~Returned' /\ \A u \in Threads : canWrite'[u] => u = l.next
  /\ l.finish /\ ~w.more => ~Tokens'

\* The blocks that are kept with the n that were.
Keeps(t, l, n) ==
  /\ n \in Nat /\ KeptRun' /\ KeptEnd' = End(t) /\ Len(decoded) <= Begin(t)
  /\ p'.numFilledThreads = IF l.size > 0 THEN n + 1 ELSE n
  /\ l.size > 0 => n < p'.numStartedThreads /\ F(n)' = t
  /\ \A i \in 0 .. n - 1, v \in Working' : v = F(i)' => GivenUp(v)'
  /\ p'.filledThreadStart + n >= p'.numStartedThreads => p'.numStartedThreads = p'.Limit
  /\ l.finish \/ Interrupted(p.blockIndex)'

===============================================================================
