----------------------------- MODULE MtCoderProofs -----------------------------
(***************************************************************************)
(* Proofs about module MtCoder, for every number of threads and blocks and   *)
(* every failure.  The first part says who is at work: inside a call the     *)
(* caller is woken only when no thread works, and the turn to write is in    *)
(* one place.  The second part is about the ring: every slot and every       *)
(* output buffer has one owner, and the blocks are written in the order they *)
(* were read, no chunk twice.                                                *)
(*                                                                          *)
(* The proofs rest on what a call leaves to the next one.  A thread that is  *)
(* not the last one of its call may survive it before its comparison (the    *)
(* stale comparison that the run mt_coder_stale_finish shows), so the        *)
(* theorems are about sequences of calls of which only the last may have     *)
(* more than one thread: that is all they assume beyond the module's own     *)
(* assumption.                                                               *)
(***************************************************************************)
EXTENDS MtCoder, FiniteSetTheorems, TLAPS

\* Only the last call of p may start more than one thread.
OneThreadBefore(p) == \A i \in 1 .. Len(p) - 1 : p[i].numThreads = 1
OneThreadUntilTheLast == \A p \in Plans : OneThreadBefore(p)

Block == [res : SResults, bufIndex : Blocks \cup {None}, finished : BOOLEAN]
Locals == [chunk : Nat, res : SResults, finished : BOOLEAN, bi : Blocks,
           bufIndex : Blocks \cup {None}, isReady : BOOLEAN, numFinished : Nat]

MainTypes ==
  /\ mpc \in {"idle", "start", "go", "wait", "free", "join", "destroyed"}
  /\ mi \in 0 .. MaxThreads /\ mres \in SResults
  /\ plan \in Plans /\ OneThreadBefore(plan) /\ session \in 0 .. Len(plan) + 1
  /\ numStartedThreadsLimit \in 0 .. MaxThreads /\ numBlocksMax \in 0 .. MaxBlocks
  /\ 0 \in Blocks /\ MaxThreads \in Nat /\ MaxThreads > 0
  /\ chunks \in Nat
  /\ mpc = "start" => numStartedThreadsLimit > 0
  /\ mpc = "join" => mi < MaxThreads

RingTypes ==
  /\ readRes \in SResults /\ writeRes \in SResults /\ mtRes \in SResults
  /\ blockIndex \in Blocks /\ writeIndex \in Blocks \cup {None} /\ readProcessed \in Nat
  /\ ReadyBlocks \in [Blocks -> BOOLEAN] /\ blocks \in [Blocks -> Block]
  /\ freeBlocks \in Seq(Blocks)

ThreadTypes ==
  /\ numStartedThreads \in 0 .. MaxThreads /\ numFinishedThreads \in Nat
  /\ finishedEvent \in BOOLEAN
  /\ created \in [Threads -> BOOLEAN] /\ stop \in [Threads -> BOOLEAN]
  /\ startEvent \in [Threads -> BOOLEAN]
  /\ pc \in [Threads -> Labels]
  /\ loc \in [Threads -> Locals]

Types == MainTypes /\ RingTypes /\ ThreadTypes

\* The thread t has the turn to write; otherwise writeIndex has it.
HasTurn(t) == pc[t] \in {"write", "advance", "takeReady"} \/ (pc[t] = "releaseBlock" /\ loc[t].isReady)
Turn ==
  /\ \A t, u \in Threads : HasTurn(t) /\ HasTurn(u) => t = u
  /\ writeIndex = None <=> \E t \in Threads : HasTurn(t)

\* A thread that was not created does not run.
Created == \A t \in Threads : ~created[t] => pc[t] = "exited"

\* No thread is at work or has one coming; at most the first thread exists.
Rested ==
  /\ \A t \in Threads : ~startEvent[t] /\ pc[t] = (IF created[t] THEN "start" ELSE "exited")
  /\ \A t \in Threads : t # 0 => ~created[t]

\* The first thread is being stopped.
Joining ==
  /\ mi = 0 /\ created[0] /\ (IF startEvent[0] THEN pc[0] = "start" /\ stop[0] ELSE pc[0] = "exited")
  /\ \A t \in Threads : t # 0 => ~startEvent[t] /\ ~created[t] /\ pc[t] = "exited"

\* Between WaitStart and the count of the finished threads.
Inside == Labels \ {"exited", "start", "compare"}
Working == {t \in Threads : startEvent[t] \/ pc[t] \in Inside}

\* A thread of the call: started, and then stopped by nobody until the call ends.
Started(t) == created[t] /\ pc[t] # "exited" /\ (startEvent[t] => pc[t] = "start" /\ ~stop[t])
NotStarted(t) == ~created[t] /\ pc[t] = "exited" /\ ~startEvent[t]

\* Inside a call every thread that was started is at work or has been counted, and the
\* last one to be counted sees the number of all of them.
InCall ==
  /\ numStartedThreads \in 1 .. numStartedThreadsLimit
  /\ \A t \in Threads : IF t < numStartedThreads THEN Started(t) ELSE NotStarted(t)
  /\ numFinishedThreads + Cardinality(Working) = numStartedThreads
  /\ \A t \in Threads : pc[t] = "compare" => loc[t].numFinished <= numFinishedThreads
  /\ finishedEvent => Working = {}
  /\ finishedEvent /\ numStartedThreadsLimit = 1 => pc[0] # "compare"

BeforeLast == session < Len(plan)

\* What the threads do, by the place of the caller.
Places ==
  /\ mpc \in {"idle", "free"} /\ BeforeLast => Rested
  /\ mpc = "join" /\ BeforeLast => Joining
  /\ mpc = "start" => Rested /\ numFinishedThreads = 0 /\ ~finishedEvent
  /\ mpc \in {"start", "go", "wait"} /\ BeforeLast => numStartedThreadsLimit = 1
  /\ mpc \in {"go", "wait"} => InCall

IInv == Types /\ Turn /\ Created /\ Places

-------------------------------------------------------------------------------
(* The values of the types.                                                 *)

LEMMA SmallTypes ==
  /\ OK \in SResults /\ \A x \in {"read", "code", "write", "create"} : x \in SResults
  /\ None \notin Blocks /\ None = -1
BY DEF OK, SResults, None, Blocks

\* The ring has a first block as soon as there is a call.
LEMMA PlanTypes ==
  ASSUME NEW p \in Plans
  PROVE  /\ Len(p) \in Nat \ {0} /\ 0 \in Blocks /\ 0 \in Threads
         /\ \A i \in 1 .. Len(p) : /\ p[i].numThreads \in 1 .. MaxThreads
                                  /\ p[i].numBlocks \in 1 .. MaxBlocks
                                  /\ p[i].chunks \in Nat
BY CoderAssumption DEF Calls, Blocks, Threads

LEMMA InitLocType == 0 \in Blocks => InitLoc \in Locals
BY SmallTypes DEF InitLoc, Locals

\* An assignment to local variables.
LEMMA SetNumFinished == \A r \in Locals : \A v \in Nat : [r EXCEPT !.numFinished = v] \in Locals
BY DEF Locals

LEMMA SetRes == \A r \in Locals : \A v \in SResults : [r EXCEPT !.res = v] \in Locals
BY DEF Locals

LEMMA SetResult == \A r \in Locals : \A v \in SResults, f \in BOOLEAN : [r EXCEPT !.res = v, !.finished = f] \in Locals
BY DEF Locals

LEMMA SetChunk == \A r \in Locals : \A v \in Nat, f \in BOOLEAN : [r EXCEPT !.chunk = v, !.finished = f] \in Locals
BY DEF Locals

LEMMA SetBlock == \A r \in Locals : \A v \in Blocks, b \in Blocks \cup {None} : [r EXCEPT !.bi = v, !.bufIndex = b] \in Locals
BY DEF Locals

LEMMA SetBuffer == \A r \in Locals : \A b \in Blocks \cup {None} : [r EXCEPT !.bufIndex = b] \in Locals
BY DEF Locals

LEMMA SetNext == \A r \in Locals : \A v \in Blocks, f \in BOOLEAN : [r EXCEPT !.bi = v, !.isReady = f] \in Locals
BY DEF Locals

LEMMA SetTaken == \A r \in Locals : \A v \in SResults, b \in Blocks \cup {None}, f \in BOOLEAN :
    [r EXCEPT !.res = v, !.bufIndex = b, !.finished = f] \in Locals
BY DEF Locals

LEMMA NextBlockType ==
  ASSUME MainTypes, NEW b \in Blocks
  PROVE  NextBlock(b) \in Blocks
BY CoderAssumption DEF MainTypes, NextBlock, Blocks

-------------------------------------------------------------------------------
(* Every step keeps the types.                                              *)

LEMMA MtCoder_Code_Types ==
  ASSUME Types, MtCoder_Code
  PROVE  Types'
<1>1. MainTypes'
  <2>1. /\ session' = session + 1 /\ session < Len(plan) /\ plan' = plan /\ mpc' = "start"
        /\ chunks' = plan[session'].chunks /\ numStartedThreadsLimit' = plan[session'].numThreads
        /\ numBlocksMax' = plan[session'].numBlocks /\ mi' = mi /\ mres' = mres
    BY DEF MtCoder_Code
  <2>2. plan \in Plans /\ session \in Nat /\ Len(plan) \in Nat
    BY PlanTypes DEF Types, MainTypes
  <2>3. session' \in 1 .. Len(plan)
    BY <2>1, <2>2
  <2>4. /\ numStartedThreadsLimit' \in 1 .. MaxThreads /\ numBlocksMax' \in 1 .. MaxBlocks
        /\ chunks' \in Nat
    BY <2>1, <2>2, <2>3, PlanTypes
  <2> QED
    BY <2>1, <2>2, <2>3, <2>4 DEF Types, MainTypes
<1>2. RingTypes'
  <2>1. 0 \in Blocks /\ freeBlocks' \in Seq(Blocks)
    <3>1. \A i \in 1 .. MaxBlocks : i - 1 \in Blocks
      BY CoderAssumption DEF Blocks
    <3>2. MaxBlocks \in Nat /\ freeBlocks' \in [1 .. MaxBlocks -> Blocks]
      BY <3>1, CoderAssumption DEF MtCoder_Code
    <3> QED
      BY <3>2, CoderAssumption DEF Types, MainTypes
  <2>2. ReadyBlocks' \in [Blocks -> BOOLEAN]
    BY DEF MtCoder_Code
  <2> QED
    BY <2>1, <2>2, SmallTypes DEF MtCoder_Code, ErrorsReset, ReadReset, vars, main, call, read, write, start, finish, output, Types, MainTypes, RingTypes
<1>3. ThreadTypes'
  <2>1. created' = created /\ stop' = stop /\ startEvent' = startEvent /\ pc' = pc /\ loc' = loc
    BY DEF MtCoder_Code, ErrorsReset, ReadReset, vars, main, call, read, write, start, finish, output
  <2>2. numStartedThreads' = 0 /\ numFinishedThreads' = 0 /\ finishedEvent' = FALSE
    BY DEF MtCoder_Code, ErrorsReset, ReadReset, vars, main, call, read, write, start, finish, output
  <2> QED
    BY <2>1, <2>2, MaxThreads \in Nat DEF Types, MainTypes, ThreadTypes, Threads
<1> QED
  BY <1>1, <1>2, <1>3 DEF Types

LEMMA StartFirst_Types ==
  ASSUME Types, StartFirst
  PROVE  Types'
<1> USE DEF StartFirst, CreateAndStart, CreateFails, vars, main, call, read, write, start, finish, output
<1>1. MainTypes'
  BY SmallTypes, CoderAssumption, PlanTypes DEF Types, MainTypes
<1>2. RingTypes'
  BY SmallTypes, CoderAssumption DEF Types, MainTypes, RingTypes
<1>3. ThreadTypes'
  BY SmallTypes, CoderAssumption DEF Types, MainTypes, ThreadTypes, Labels, Threads
<1> QED
  BY <1>1, <1>2, <1>3 DEF Types

LEMMA Go_Types ==
  ASSUME Types, Go
  PROVE  Types'
<1> USE DEF Go, vars, main, call, read, write, start, finish, output
<1>1. MainTypes'
  BY SmallTypes, CoderAssumption, PlanTypes DEF Types, MainTypes
<1>2. RingTypes'
  BY SmallTypes, CoderAssumption DEF Types, MainTypes, RingTypes
<1>3. ThreadTypes'
  BY SmallTypes, CoderAssumption DEF Types, MainTypes, ThreadTypes, Labels, Threads
<1> QED
  BY <1>1, <1>2, <1>3 DEF Types

LEMMA WaitFinished_Types ==
  ASSUME Types, WaitFinished
  PROVE  Types'
<1> USE DEF WaitFinished, FirstError, vars, main, call, read, write, start, finish, output
<1>1. MainTypes'
  BY SmallTypes, CoderAssumption, PlanTypes DEF Types, MainTypes, RingTypes
<1>2. RingTypes'
  BY SmallTypes, CoderAssumption DEF Types, MainTypes, RingTypes
<1>3. ThreadTypes'
  BY SmallTypes, CoderAssumption DEF Types, MainTypes, ThreadTypes, Labels, Threads
<1> QED
  BY <1>1, <1>2, <1>3 DEF Types

LEMMA Destruct_Types ==
  ASSUME Types, Destruct
  PROVE  Types'
<1> USE DEF Destruct, vars, main, call, read, write, start, finish, output
<1>1. MainTypes'
  BY SmallTypes, CoderAssumption, PlanTypes DEF Types, MainTypes
<1>2. RingTypes'
  BY SmallTypes, CoderAssumption DEF Types, MainTypes, RingTypes
<1>3. ThreadTypes'
  BY SmallTypes, CoderAssumption DEF Types, MainTypes, ThreadTypes, Labels, Threads
<1> QED
  BY <1>1, <1>2, <1>3 DEF Types

LEMMA FreeThread_Types ==
  ASSUME Types, FreeThread
  PROVE  Types'
<1> USE DEF FreeThread, Wake, vars, main, call, read, write, start, finish, output
<1>1. MainTypes'
  BY SmallTypes, CoderAssumption, PlanTypes DEF Types, MainTypes
<1>2. RingTypes'
  BY SmallTypes, CoderAssumption DEF Types, MainTypes, RingTypes
<1>3. ThreadTypes'
  BY SmallTypes, CoderAssumption DEF Types, MainTypes, ThreadTypes, Labels, Threads
<1> QED
  BY <1>1, <1>2, <1>3 DEF Types

LEMMA JoinThread_Types ==
  ASSUME Types, JoinThread
  PROVE  Types'
<1> USE DEF JoinThread, vars, main, call, read, write, start, finish, output
<1>1. MainTypes'
  BY SmallTypes, CoderAssumption, PlanTypes DEF Types, MainTypes
<1>2. RingTypes'
  BY SmallTypes, CoderAssumption DEF Types, MainTypes, RingTypes
<1>3. ThreadTypes'
  BY SmallTypes, CoderAssumption DEF Types, MainTypes, ThreadTypes, Labels, Threads
<1> QED
  BY <1>1, <1>2, <1>3 DEF Types

LEMMA FreeDone_Types ==
  ASSUME Types, FreeDone
  PROVE  Types'
<1> USE DEF FreeDone, vars, main, call, read, write, start, finish, output
<1>1. MainTypes'
  BY SmallTypes, CoderAssumption, PlanTypes DEF Types, MainTypes
<1>2. RingTypes'
  BY SmallTypes, CoderAssumption DEF Types, MainTypes, RingTypes
<1>3. ThreadTypes'
  BY SmallTypes, CoderAssumption DEF Types, MainTypes, ThreadTypes, Labels, Threads
<1> QED
  BY <1>1, <1>2, <1>3 DEF Types

LEMMA WaitStart_Types ==
  ASSUME Types, NEW t \in Threads, WaitStart(t)
  PROVE  Types'
<1>1. MainTypes'
  BY DEF WaitStart, Goto, vars, main, call, read, write, start, finish, output, Types, MainTypes
<1>2. RingTypes'
  BY SmallTypes, NextBlockType DEF WaitStart, Goto, vars, main, call, read, write, start, finish, output, Types, RingTypes, ThreadTypes, Block, Locals
<1>3. pc' \in [Threads -> Labels]
  BY DEF WaitStart, Goto, Types, ThreadTypes, Labels
<1>4. loc' \in [Threads -> Locals]
  <2>1. loc \in [Threads -> Locals] /\ loc[t] \in Locals
    BY DEF Types, MainTypes, RingTypes, ThreadTypes, Locals
  <2> QED
    BY <2>1 DEF WaitStart, Goto
<1>5. ThreadTypes'
  BY <1>3, <1>4, SmallTypes DEF WaitStart, Goto, vars, main, call, read, write, start, finish, output, Types, MainTypes, ThreadTypes, Threads
<1> QED
  BY <1>1, <1>2, <1>5 DEF Types

LEMMA CountFinished_Types ==
  ASSUME Types, NEW t \in Threads, CountFinished(t)
  PROVE  Types'
<1>1. MainTypes'
  BY DEF CountFinished, Goto, vars, main, call, read, write, start, finish, output, Types, MainTypes
<1>2. RingTypes'
  BY SmallTypes, NextBlockType DEF CountFinished, Goto, vars, main, call, read, write, start, finish, output, Types, RingTypes, ThreadTypes, Block, Locals
<1>3. pc' \in [Threads -> Labels]
  BY DEF CountFinished, Goto, Types, ThreadTypes, Labels
<1>4. loc' \in [Threads -> Locals]
  <2>1. loc \in [Threads -> Locals] /\ loc[t] \in Locals /\ numFinishedThreads \in Nat
    BY DEF Types, MainTypes, RingTypes, ThreadTypes, Locals
  <2> QED
    BY <2>1, SetNumFinished DEF CountFinished, Goto
<1>5. ThreadTypes'
  BY <1>3, <1>4, SmallTypes DEF CountFinished, Goto, vars, main, call, read, write, start, finish, output, Types, MainTypes, ThreadTypes, Threads
<1> QED
  BY <1>1, <1>2, <1>5 DEF Types

LEMMA CompareFinished_Types ==
  ASSUME Types, NEW t \in Threads, CompareFinished(t)
  PROVE  Types'
<1>1. MainTypes'
  BY DEF CompareFinished, AllFinished, InitLoc, Goto, vars, main, call, read, write, start, finish, output, Types, MainTypes
<1>2. RingTypes'
  BY SmallTypes, NextBlockType DEF CompareFinished, AllFinished, InitLoc, Goto, vars, main, call, read, write, start, finish, output, Types, RingTypes, ThreadTypes, Block, Locals
<1>3. pc' \in [Threads -> Labels]
  BY DEF CompareFinished, AllFinished, InitLoc, Goto, Types, ThreadTypes, Labels
<1>4. loc' \in [Threads -> Locals]
  <2>1. loc \in [Threads -> Locals] /\ loc[t] \in Locals /\ 0 \in Blocks
    BY DEF Types, MainTypes, RingTypes, ThreadTypes, Locals
  <2> QED
    BY <2>1, InitLocType DEF CompareFinished, AllFinished, InitLoc, Goto
<1>5. ThreadTypes'
  BY <1>3, <1>4, SmallTypes DEF CompareFinished, AllFinished, InitLoc, Goto, vars, main, call, read, write, start, finish, output, Types, MainTypes, ThreadTypes, Threads
<1> QED
  BY <1>1, <1>2, <1>5 DEF Types

LEMMA WaitRead_Types ==
  ASSUME Types, NEW t \in Threads, WaitRead(t)
  PROVE  Types'
<1>1. MainTypes'
  BY DEF WaitRead, TakeRead, InitLoc, Goto, vars, main, call, read, write, start, finish, output, Types, MainTypes
<1>2. RingTypes'
  BY SmallTypes, NextBlockType DEF WaitRead, TakeRead, InitLoc, Goto, vars, main, call, read, write, start, finish, output, Types, RingTypes, ThreadTypes, Block, Locals
<1>3. pc' \in [Threads -> Labels]
  BY DEF WaitRead, TakeRead, InitLoc, Goto, Types, ThreadTypes, Labels
<1>4. loc' \in [Threads -> Locals]
  <2>1. loc \in [Threads -> Locals] /\ loc[t] \in Locals /\ mtRes \in SResults /\ 0 \in Blocks
    BY DEF Types, MainTypes, RingTypes, ThreadTypes, Locals
  <2> QED
    BY <2>1, SetResult, InitLocType, SmallTypes DEF WaitRead
<1>5. ThreadTypes'
  BY <1>3, <1>4, SmallTypes DEF WaitRead, TakeRead, InitLoc, Goto, vars, main, call, read, write, start, finish, output, Types, MainTypes, ThreadTypes, Threads
<1> QED
  BY <1>1, <1>2, <1>5 DEF Types

LEMMA PassStop_Types ==
  ASSUME Types, NEW t \in Threads, PassStop(t)
  PROVE  Types'
<1>1. MainTypes'
  BY DEF PassStop, GiveRead, Goto, vars, main, call, read, write, start, finish, output, Types, MainTypes
<1>2. RingTypes'
  BY SmallTypes, NextBlockType DEF PassStop, GiveRead, Goto, vars, main, call, read, write, start, finish, output, Types, RingTypes, ThreadTypes, Block, Locals
<1>3. pc' \in [Threads -> Labels]
  BY DEF PassStop, GiveRead, Goto, Types, ThreadTypes, Labels
<1>4. loc' \in [Threads -> Locals]
  <2>1. loc \in [Threads -> Locals] /\ loc[t] \in Locals
    BY DEF Types, MainTypes, RingTypes, ThreadTypes, Locals
  <2> QED
    BY <2>1 DEF PassStop, GiveRead, Goto
<1>5. ThreadTypes'
  BY <1>3, <1>4, SmallTypes DEF PassStop, GiveRead, Goto, vars, main, call, read, write, start, finish, output, Types, MainTypes, ThreadTypes, Threads
<1> QED
  BY <1>1, <1>2, <1>5 DEF Types

LEMMA ReadBlock_Types ==
  ASSUME Types, NEW t \in Threads, ReadBlock(t)
  PROVE  Types'
<1>1. MainTypes'
  BY DEF ReadBlock, Goto, vars, main, call, read, write, start, finish, output, Types, MainTypes
<1>2. RingTypes'
  BY SmallTypes, NextBlockType DEF ReadBlock, Goto, vars, main, call, read, write, start, finish, output, Types, RingTypes, ThreadTypes, Block, Locals
<1>3. pc' \in [Threads -> Labels]
  BY DEF ReadBlock, Goto, Types, ThreadTypes, Labels
<1>4. loc' \in [Threads -> Locals]
  <2>1. loc \in [Threads -> Locals] /\ loc[t] \in Locals /\ readProcessed + 1 \in Nat
    BY DEF Types, MainTypes, RingTypes, ThreadTypes, Locals
  <2>2. (readProcessed + 1 = chunks) \in BOOLEAN
    OBVIOUS
  <2> QED
    BY <2>1, <2>2, SetChunk DEF ReadBlock, Goto
<1>5. ThreadTypes'
  BY <1>3, <1>4, SmallTypes DEF ReadBlock, Goto, vars, main, call, read, write, start, finish, output, Types, MainTypes, ThreadTypes, Threads
<1> QED
  BY <1>1, <1>2, <1>5 DEF Types

LEMMA ReadFails_Types ==
  ASSUME Types, NEW t \in Threads, ReadFails(t)
  PROVE  Types'
<1>1. MainTypes'
  BY DEF ReadFails, SetError, Goto, vars, main, call, read, write, start, finish, output, Types, MainTypes
<1>2. RingTypes'
  BY SmallTypes, NextBlockType DEF ReadFails, SetError, Goto, vars, main, call, read, write, start, finish, output, Types, RingTypes, ThreadTypes, Block, Locals
<1>3. pc' \in [Threads -> Labels]
  BY DEF ReadFails, SetError, Goto, Types, ThreadTypes, Labels
<1>4. loc' \in [Threads -> Locals]
  <2>1. loc \in [Threads -> Locals] /\ loc[t] \in Locals
    BY DEF Types, MainTypes, RingTypes, ThreadTypes, Locals
  <2> QED
    BY <2>1, SetRes, SmallTypes DEF ReadFails, SetError, Goto
<1>5. ThreadTypes'
  BY <1>3, <1>4, SmallTypes DEF ReadFails, SetError, Goto, vars, main, call, read, write, start, finish, output, Types, MainTypes, ThreadTypes, Threads
<1> QED
  BY <1>1, <1>2, <1>5 DEF Types

LEMMA GetBlock_Types ==
  ASSUME Types, NEW t \in Threads, GetBlock(t)
  PROVE  Types'
<1>1. MainTypes'
  BY DEF GetBlock, NextBlock, Goto, vars, main, call, read, write, start, finish, output, Types, MainTypes
<1>2. RingTypes'
  BY SmallTypes, NextBlockType DEF GetBlock, NextBlock, Goto, vars, main, call, read, write, start, finish, output, Types, RingTypes, ThreadTypes, Block, Locals
<1>3. pc' \in [Threads -> Labels]
  BY DEF GetBlock, NextBlock, Goto, Types, ThreadTypes, Labels
<1>4. loc' \in [Threads -> Locals]
  <2>1. loc \in [Threads -> Locals] /\ loc[t] \in Locals /\ blockIndex \in Blocks /\ MainTypes
    BY DEF Types, MainTypes, RingTypes, ThreadTypes, Locals
  <2> QED
    BY <2>1, SetBlock, NextBlockType, SmallTypes DEF GetBlock, NextBlock, Goto
<1>5. ThreadTypes'
  BY <1>3, <1>4, SmallTypes DEF GetBlock, NextBlock, Goto, vars, main, call, read, write, start, finish, output, Types, MainTypes, ThreadTypes, Threads
<1> QED
  BY <1>1, <1>2, <1>5 DEF Types

LEMMA StartNext_Types ==
  ASSUME Types, NEW t \in Threads, StartNext(t)
  PROVE  Types'
<1>1. MainTypes'
  BY DEF StartNext, SetError, CreateAndStart, CreateFails, CountStarted, Goto, vars, main, call, read, write, start, finish, output, Types, MainTypes
<1>2. RingTypes'
  BY SmallTypes, NextBlockType DEF StartNext, SetError, CreateAndStart, CreateFails, CountStarted, Goto, vars, main, call, read, write, start, finish, output, Types, RingTypes, ThreadTypes, Block, Locals
<1>3. pc' \in [Threads -> Labels]
  BY DEF StartNext, SetError, CreateAndStart, CreateFails, CountStarted, Goto, Types, ThreadTypes, Labels
<1>4. loc' \in [Threads -> Locals]
  <2> DEFINE res == IF loc[t].res = OK THEN mtRes ELSE loc[t].res
             finished == loc[t].finished \/ res # OK
  <2>1. loc \in [Threads -> Locals] /\ loc[t] \in Locals /\ res \in SResults /\ finished \in BOOLEAN
    BY DEF Types, RingTypes, ThreadTypes, Locals
  <2>2. /\ [loc[t] EXCEPT !.res = res, !.finished = finished] \in Locals
        /\ [loc[t] EXCEPT !.res = "create", !.finished = TRUE] \in Locals
    BY <2>1, SetResult, SmallTypes
  <2>3. \/ loc' = [loc EXCEPT ![t].res = res, ![t].finished = finished]
        \/ loc' = loc
        \/ loc' = [loc EXCEPT ![t].res = "create", ![t].finished = TRUE]
    BY DEF StartNext
  <2> QED
    BY <2>1, <2>2, <2>3
<1>5. ThreadTypes'
  <2>1. numStartedThreads' \in 0 .. MaxThreads
    BY DEF StartNext, start, CountStarted, Types, MainTypes, ThreadTypes
  <2>2. created' \in [Threads -> BOOLEAN] /\ stop' \in [Threads -> BOOLEAN] /\ startEvent' \in [Threads -> BOOLEAN]
    BY DEF StartNext, start, CreateAndStart, CreateFails, Types, ThreadTypes
  <2> QED
    BY <1>3, <1>4, <2>1, <2>2 DEF StartNext, finish, Types, ThreadTypes
<1> QED
  BY <1>1, <1>2, <1>5 DEF Types

LEMMA PassRead_Types ==
  ASSUME Types, NEW t \in Threads, PassRead(t)
  PROVE  Types'
<1>1. MainTypes'
  BY DEF PassRead, GiveRead, Goto, vars, main, call, read, write, start, finish, output, Types, MainTypes
<1>2. RingTypes'
  BY SmallTypes, NextBlockType DEF PassRead, GiveRead, Goto, vars, main, call, read, write, start, finish, output, Types, RingTypes, ThreadTypes, Block, Locals
<1>3. pc' \in [Threads -> Labels]
  BY DEF PassRead, GiveRead, Goto, Types, ThreadTypes, Labels
<1>4. loc' \in [Threads -> Locals]
  <2>1. loc \in [Threads -> Locals] /\ loc[t] \in Locals
    BY DEF Types, MainTypes, RingTypes, ThreadTypes, Locals
  <2> QED
    BY <2>1 DEF PassRead, GiveRead, Goto
<1>5. ThreadTypes'
  BY <1>3, <1>4, SmallTypes DEF PassRead, GiveRead, Goto, vars, main, call, read, write, start, finish, output, Types, MainTypes, ThreadTypes, Threads
<1> QED
  BY <1>1, <1>2, <1>5 DEF Types

LEMMA GetBuf_Types ==
  ASSUME Types, NEW t \in Threads, GetBuf(t)
  PROVE  Types'
<1>1. MainTypes'
  BY DEF GetBuf, PopFree, Goto, vars, main, call, read, write, start, finish, output, Types, MainTypes
<1>2. RingTypes'
  BY SmallTypes, NextBlockType DEF GetBuf, PopFree, Goto, vars, main, call, read, write, start, finish, output, Types, RingTypes, ThreadTypes, Block, Locals
<1>3. pc' \in [Threads -> Labels]
  BY DEF GetBuf, PopFree, Goto, Types, ThreadTypes, Labels
<1>4. loc' \in [Threads -> Locals]
  <2>1. loc \in [Threads -> Locals] /\ loc[t] \in Locals /\ freeBlocks \in Seq(Blocks)
    BY DEF Types, MainTypes, RingTypes, ThreadTypes, Locals
  <2> QED
    BY <2>1, SetBuffer DEF GetBuf, PopFree, Goto
<1>5. ThreadTypes'
  BY <1>3, <1>4, SmallTypes DEF GetBuf, PopFree, Goto, vars, main, call, read, write, start, finish, output, Types, MainTypes, ThreadTypes, Threads
<1> QED
  BY <1>1, <1>2, <1>5 DEF Types

LEMMA Code_Types ==
  ASSUME Types, NEW t \in Threads, Code(t)
  PROVE  Types'
<1>1. MainTypes'
  BY DEF Code, Goto, vars, main, call, read, write, start, finish, output, Types, MainTypes
<1>2. RingTypes'
  BY SmallTypes, NextBlockType DEF Code, Goto, vars, main, call, read, write, start, finish, output, Types, RingTypes, ThreadTypes, Block, Locals
<1>3. pc' \in [Threads -> Labels]
  BY DEF Code, Goto, Types, ThreadTypes, Labels
<1>4. loc' \in [Threads -> Locals]
  <2>1. loc \in [Threads -> Locals] /\ loc[t] \in Locals
    BY DEF Types, MainTypes, RingTypes, ThreadTypes, Locals
  <2> QED
    BY <2>1 DEF Code, Goto
<1>5. ThreadTypes'
  BY <1>3, <1>4, SmallTypes DEF Code, Goto, vars, main, call, read, write, start, finish, output, Types, MainTypes, ThreadTypes, Threads
<1> QED
  BY <1>1, <1>2, <1>5 DEF Types

LEMMA CodeFails_Types ==
  ASSUME Types, NEW t \in Threads, CodeFails(t)
  PROVE  Types'
<1>1. MainTypes'
  BY DEF CodeFails, SetError, Goto, vars, main, call, read, write, start, finish, output, Types, MainTypes
<1>2. RingTypes'
  BY SmallTypes, NextBlockType DEF CodeFails, SetError, Goto, vars, main, call, read, write, start, finish, output, Types, RingTypes, ThreadTypes, Block, Locals
<1>3. pc' \in [Threads -> Labels]
  BY DEF CodeFails, SetError, Goto, Types, ThreadTypes, Labels
<1>4. loc' \in [Threads -> Locals]
  <2>1. loc \in [Threads -> Locals] /\ loc[t] \in Locals
    BY DEF Types, MainTypes, RingTypes, ThreadTypes, Locals
  <2> QED
    BY <2>1, SetRes DEF CodeFails, SetError, Goto
<1>5. ThreadTypes'
  BY <1>3, <1>4, SmallTypes DEF CodeFails, SetError, Goto, vars, main, call, read, write, start, finish, output, Types, MainTypes, ThreadTypes, Threads
<1> QED
  BY <1>1, <1>2, <1>5 DEF Types

LEMMA Publish_Types ==
  ASSUME Types, NEW t \in Threads, Publish(t)
  PROVE  Types'
<1>1. MainTypes'
  BY DEF Publish, TakeTurn, EndBlock, InitLoc, Goto, vars, main, call, read, write, start, finish, output, Types, MainTypes
<1>2. RingTypes'
  BY SmallTypes, NextBlockType DEF Publish, TakeTurn, EndBlock, InitLoc, Goto, vars, main, call, read, write, start, finish, output, Types, RingTypes, ThreadTypes, Block, Locals
<1>3. pc' \in [Threads -> Labels]
  BY DEF Publish, TakeTurn, EndBlock, InitLoc, Goto, Types, ThreadTypes, Labels
<1>4. loc' \in [Threads -> Locals]
  <2>1. loc \in [Threads -> Locals] /\ loc[t] \in Locals /\ writeRes \in SResults /\ 0 \in Blocks
    BY DEF Types, MainTypes, RingTypes, ThreadTypes, Locals
  <2> QED
    BY <2>1, SetRes, InitLocType DEF Publish, TakeTurn, EndBlock, InitLoc, Goto
<1>5. ThreadTypes'
  BY <1>3, <1>4, SmallTypes DEF Publish, TakeTurn, EndBlock, InitLoc, Goto, vars, main, call, read, write, start, finish, output, Types, MainTypes, ThreadTypes, Threads
<1> QED
  BY <1>1, <1>2, <1>5 DEF Types

LEMMA Write_Types ==
  ASSUME Types, NEW t \in Threads, Write(t)
  PROVE  Types'
<1>1. MainTypes'
  BY DEF Write, SetError, Goto, vars, main, call, read, write, start, finish, output, Types, MainTypes
<1>2. RingTypes'
  BY SmallTypes, NextBlockType DEF Write, SetError, Goto, vars, main, call, read, write, start, finish, output, Types, RingTypes, ThreadTypes, Block, Locals
<1>3. pc' \in [Threads -> Labels]
  BY DEF Write, SetError, Goto, Types, ThreadTypes, Labels
<1>4. loc' \in [Threads -> Locals]
  <2>1. loc \in [Threads -> Locals] /\ loc[t] \in Locals
    BY DEF Types, MainTypes, RingTypes, ThreadTypes, Locals
  <2> QED
    BY <2>1, SetRes, SmallTypes DEF Write, SetError, Goto
<1>5. ThreadTypes'
  BY <1>3, <1>4, SmallTypes DEF Write, SetError, Goto, vars, main, call, read, write, start, finish, output, Types, MainTypes, ThreadTypes, Threads
<1> QED
  BY <1>1, <1>2, <1>5 DEF Types

LEMMA Advance_Types ==
  ASSUME Types, NEW t \in Threads, Advance(t)
  PROVE  Types'
<1>1. MainTypes'
  BY DEF Advance, PushFree, TakeReadyFlag, NextBlock, Goto, vars, main, call, read, write, start, finish, output, Types, MainTypes
<1>2. RingTypes'
  <2>1. freeBlocks' \in Seq(Blocks)
    BY DEF Advance, PushFree, Types, RingTypes, ThreadTypes, Locals
  <2>2. NextBlock(loc[t].bi) \in Blocks
    BY NextBlockType DEF Types, ThreadTypes, Locals
  <2> QED
    BY <2>1, <2>2, SmallTypes DEF Advance, PushFree, TakeReadyFlag, NextBlock, Goto, vars, main, call, read, write, start, finish, output, Types, RingTypes, ThreadTypes, Block, Locals
<1>3. pc' \in [Threads -> Labels]
  BY DEF Advance, PushFree, TakeReadyFlag, NextBlock, Goto, Types, ThreadTypes, Labels
<1>4. loc' \in [Threads -> Locals]
  <2>1. loc \in [Threads -> Locals] /\ loc[t] \in Locals /\ loc[t].bi \in Blocks /\ ReadyBlocks \in [Blocks -> BOOLEAN] /\ MainTypes
    BY DEF Types, MainTypes, RingTypes, ThreadTypes, Locals
  <2> QED
    BY <2>1, SetNext, NextBlockType DEF Advance, PushFree, TakeReadyFlag, NextBlock, Goto
<1>5. ThreadTypes'
  BY <1>3, <1>4, SmallTypes DEF Advance, PushFree, TakeReadyFlag, NextBlock, Goto, vars, main, call, read, write, start, finish, output, Types, MainTypes, ThreadTypes, Threads
<1> QED
  BY <1>1, <1>2, <1>5 DEF Types

LEMMA ReleaseBlock_Types ==
  ASSUME Types, NEW t \in Threads, ReleaseBlock(t)
  PROVE  Types'
<1>1. MainTypes'
  BY DEF ReleaseBlock, EndBlock, InitLoc, Goto, vars, main, call, read, write, start, finish, output, Types, MainTypes
<1>2. RingTypes'
  BY SmallTypes, NextBlockType DEF ReleaseBlock, EndBlock, InitLoc, Goto, vars, main, call, read, write, start, finish, output, Types, RingTypes, ThreadTypes, Block, Locals
<1>3. pc' \in [Threads -> Labels]
  BY DEF ReleaseBlock, EndBlock, InitLoc, Goto, Types, ThreadTypes, Labels
<1>4. loc' \in [Threads -> Locals]
  <2>1. loc \in [Threads -> Locals] /\ loc[t] \in Locals /\ 0 \in Blocks
    BY DEF Types, MainTypes, RingTypes, ThreadTypes, Locals
  <2> QED
    BY <2>1, InitLocType DEF ReleaseBlock, EndBlock, InitLoc, Goto
<1>5. ThreadTypes'
  BY <1>3, <1>4, SmallTypes DEF ReleaseBlock, EndBlock, InitLoc, Goto, vars, main, call, read, write, start, finish, output, Types, MainTypes, ThreadTypes, Threads
<1> QED
  BY <1>1, <1>2, <1>5 DEF Types

LEMMA TakeReady_Types ==
  ASSUME Types, NEW t \in Threads, TakeReady(t)
  PROVE  Types'
<1>1. MainTypes'
  BY DEF TakeReady, Goto, vars, main, call, read, write, start, finish, output, Types, MainTypes
<1>2. RingTypes'
  BY SmallTypes, NextBlockType DEF TakeReady, Goto, vars, main, call, read, write, start, finish, output, Types, RingTypes, ThreadTypes, Block, Locals
<1>3. pc' \in [Threads -> Labels]
  BY DEF TakeReady, Goto, Types, ThreadTypes, Labels
<1>4. loc' \in [Threads -> Locals]
  <2>1. loc \in [Threads -> Locals] /\ loc[t] \in Locals /\ blocks[loc[t].bi] \in Block /\ loc[t].res \in SResults
    BY DEF Types, MainTypes, RingTypes, ThreadTypes, Locals
  <2> QED
    BY <2>1, SetTaken DEF TakeReady, Goto, Block
<1>5. ThreadTypes'
  BY <1>3, <1>4, SmallTypes DEF TakeReady, Goto, vars, main, call, read, write, start, finish, output, Types, MainTypes, ThreadTypes, Threads
<1> QED
  BY <1>1, <1>2, <1>5 DEF Types


-------------------------------------------------------------------------------
(* The turn to write.                                                       *)

LEMMA TurnKept ==
  ASSUME Turn, writeIndex' = writeIndex, \A t \in Threads : HasTurn(t)' <=> HasTurn(t)
  PROVE  Turn'
BY DEF Turn

\* A step of the thread t that does not give or take the turn.
LEMMA TurnAside ==
  ASSUME Types, Turn, writeIndex' = writeIndex, NEW t \in Threads, NEW x \in Labels,
         pc' = [pc EXCEPT ![t] = x], \A u \in Threads \ {t} : loc'[u] = loc[u],
         HasTurn(t)' <=> HasTurn(t)
  PROVE  Turn'
<1>1. \A u \in Threads : HasTurn(u)' <=> HasTurn(u)
  BY DEF Types, ThreadTypes, HasTurn
<1> QED
  BY <1>1, TurnKept

LEMMA WaitStart_Turn ==
  ASSUME Types, Turn, NEW t \in Threads, WaitStart(t)
  PROVE  Turn'
<1> DEFINE x == IF stop[t] THEN "exited" ELSE "getRead"
<1>1. x \in Labels /\ pc' = [pc EXCEPT ![t] = x] /\ writeIndex' = writeIndex
  BY DEF WaitStart, Goto, read, write, Labels
<1>2. \A u \in Threads \ {t} : loc'[u] = loc[u]
  BY DEF WaitStart, Types, ThreadTypes
<1>3. HasTurn(t)' <=> HasTurn(t)
  BY <1>1 DEF WaitStart, HasTurn, Types, ThreadTypes
<1> QED
  BY <1>1, <1>2, <1>3, TurnAside

LEMMA CountFinished_Turn ==
  ASSUME Types, Turn, NEW t \in Threads, CountFinished(t)
  PROVE  Turn'
<1> DEFINE x == "compare"
<1>1. x \in Labels /\ pc' = [pc EXCEPT ![t] = x] /\ writeIndex' = writeIndex
  BY DEF CountFinished, Goto, read, write, Labels
<1>2. \A u \in Threads \ {t} : loc'[u] = loc[u]
  BY DEF CountFinished, Types, ThreadTypes
<1>3. HasTurn(t)' <=> HasTurn(t)
  BY <1>1 DEF CountFinished, HasTurn, Types, ThreadTypes
<1> QED
  BY <1>1, <1>2, <1>3, TurnAside

LEMMA CompareFinished_Turn ==
  ASSUME Types, Turn, NEW t \in Threads, CompareFinished(t)
  PROVE  Turn'
<1> DEFINE x == "start"
<1>1. x \in Labels /\ pc' = [pc EXCEPT ![t] = x] /\ writeIndex' = writeIndex
  BY DEF CompareFinished, Goto, read, write, Labels
<1>2. \A u \in Threads \ {t} : loc'[u] = loc[u]
  BY DEF CompareFinished, Types, ThreadTypes
<1>3. HasTurn(t)' <=> HasTurn(t)
  BY <1>1 DEF CompareFinished, HasTurn, Types, ThreadTypes
<1> QED
  BY <1>1, <1>2, <1>3, TurnAside

LEMMA WaitRead_Turn ==
  ASSUME Types, Turn, NEW t \in Threads, WaitRead(t)
  PROVE  Turn'
<1> DEFINE x == IF stopReading THEN "passStop" ELSE IF mtRes = OK THEN "read" ELSE "getBlock"
<1>1. x \in Labels /\ pc' = [pc EXCEPT ![t] = x] /\ writeIndex' = writeIndex
  BY DEF WaitRead, Goto, read, write, Labels
<1>2. \A u \in Threads \ {t} : loc'[u] = loc[u]
  BY DEF WaitRead, Types, ThreadTypes
<1>3. HasTurn(t)' <=> HasTurn(t)
  BY <1>1 DEF WaitRead, HasTurn, Types, ThreadTypes
<1> QED
  BY <1>1, <1>2, <1>3, TurnAside

LEMMA PassStop_Turn ==
  ASSUME Types, Turn, NEW t \in Threads, PassStop(t)
  PROVE  Turn'
<1> DEFINE x == "countFinished"
<1>1. x \in Labels /\ pc' = [pc EXCEPT ![t] = x] /\ writeIndex' = writeIndex
  BY DEF PassStop, Goto, read, write, Labels
<1>2. \A u \in Threads \ {t} : loc'[u] = loc[u]
  BY DEF PassStop, Types, ThreadTypes
<1>3. HasTurn(t)' <=> HasTurn(t)
  BY <1>1 DEF PassStop, HasTurn, Types, ThreadTypes
<1> QED
  BY <1>1, <1>2, <1>3, TurnAside

LEMMA ReadBlock_Turn ==
  ASSUME Types, Turn, NEW t \in Threads, ReadBlock(t)
  PROVE  Turn'
<1> DEFINE x == "getBlock"
<1>1. x \in Labels /\ pc' = [pc EXCEPT ![t] = x] /\ writeIndex' = writeIndex
  BY DEF ReadBlock, Goto, read, write, Labels
<1>2. \A u \in Threads \ {t} : loc'[u] = loc[u]
  BY DEF ReadBlock, Types, ThreadTypes
<1>3. HasTurn(t)' <=> HasTurn(t)
  BY <1>1 DEF ReadBlock, HasTurn, Types, ThreadTypes
<1> QED
  BY <1>1, <1>2, <1>3, TurnAside

LEMMA ReadFails_Turn ==
  ASSUME Types, Turn, NEW t \in Threads, ReadFails(t)
  PROVE  Turn'
<1> DEFINE x == "getBlock"
<1>1. x \in Labels /\ pc' = [pc EXCEPT ![t] = x] /\ writeIndex' = writeIndex
  BY DEF ReadFails, Goto, read, write, Labels
<1>2. \A u \in Threads \ {t} : loc'[u] = loc[u]
  BY DEF ReadFails, Types, ThreadTypes
<1>3. HasTurn(t)' <=> HasTurn(t)
  BY <1>1 DEF ReadFails, HasTurn, Types, ThreadTypes
<1> QED
  BY <1>1, <1>2, <1>3, TurnAside

LEMMA GetBlock_Turn ==
  ASSUME Types, Turn, NEW t \in Threads, GetBlock(t)
  PROVE  Turn'
<1> DEFINE x == "startNext"
<1>1. x \in Labels /\ pc' = [pc EXCEPT ![t] = x] /\ writeIndex' = writeIndex
  BY DEF GetBlock, Goto, read, write, Labels
<1>2. \A u \in Threads \ {t} : loc'[u] = loc[u]
  BY DEF GetBlock, Types, ThreadTypes
<1>3. HasTurn(t)' <=> HasTurn(t)
  BY <1>1 DEF GetBlock, HasTurn, Types, ThreadTypes
<1> QED
  BY <1>1, <1>2, <1>3, TurnAside

LEMMA PassRead_Turn ==
  ASSUME Types, Turn, NEW t \in Threads, PassRead(t)
  PROVE  Turn'
<1> DEFINE x == IF loc[t].res = OK THEN "getBuf" ELSE "publish"
<1>1. x \in Labels /\ pc' = [pc EXCEPT ![t] = x] /\ writeIndex' = writeIndex
  BY DEF PassRead, Goto, read, write, Labels
<1>2. \A u \in Threads \ {t} : loc'[u] = loc[u]
  BY DEF PassRead, Types, ThreadTypes
<1>3. HasTurn(t)' <=> HasTurn(t)
  BY <1>1 DEF PassRead, HasTurn, Types, ThreadTypes
<1> QED
  BY <1>1, <1>2, <1>3, TurnAside

LEMMA GetBuf_Turn ==
  ASSUME Types, Turn, NEW t \in Threads, GetBuf(t)
  PROVE  Turn'
<1> DEFINE x == "code"
<1>1. x \in Labels /\ pc' = [pc EXCEPT ![t] = x] /\ writeIndex' = writeIndex
  BY DEF GetBuf, Goto, read, write, Labels
<1>2. \A u \in Threads \ {t} : loc'[u] = loc[u]
  BY DEF GetBuf, Types, ThreadTypes
<1>3. HasTurn(t)' <=> HasTurn(t)
  BY <1>1 DEF GetBuf, HasTurn, Types, ThreadTypes
<1> QED
  BY <1>1, <1>2, <1>3, TurnAside

LEMMA Code_Turn ==
  ASSUME Types, Turn, NEW t \in Threads, Code(t)
  PROVE  Turn'
<1> DEFINE x == "publish"
<1>1. x \in Labels /\ pc' = [pc EXCEPT ![t] = x] /\ writeIndex' = writeIndex
  BY DEF Code, Goto, read, write, Labels
<1>2. \A u \in Threads \ {t} : loc'[u] = loc[u]
  BY DEF Code, Types, ThreadTypes
<1>3. HasTurn(t)' <=> HasTurn(t)
  BY <1>1 DEF Code, HasTurn, Types, ThreadTypes
<1> QED
  BY <1>1, <1>2, <1>3, TurnAside

LEMMA CodeFails_Turn ==
  ASSUME Types, Turn, NEW t \in Threads, CodeFails(t)
  PROVE  Turn'
<1> DEFINE x == "publish"
<1>1. x \in Labels /\ pc' = [pc EXCEPT ![t] = x] /\ writeIndex' = writeIndex
  BY DEF CodeFails, Goto, read, write, Labels
<1>2. \A u \in Threads \ {t} : loc'[u] = loc[u]
  BY DEF CodeFails, Types, ThreadTypes
<1>3. HasTurn(t)' <=> HasTurn(t)
  BY <1>1 DEF CodeFails, HasTurn, Types, ThreadTypes
<1> QED
  BY <1>1, <1>2, <1>3, TurnAside

LEMMA Write_Turn ==
  ASSUME Types, Turn, NEW t \in Threads, Write(t)
  PROVE  Turn'
<1> DEFINE x == "advance"
<1>1. x \in Labels /\ pc' = [pc EXCEPT ![t] = x] /\ writeIndex' = writeIndex
  BY DEF Write, Goto, read, write, Labels
<1>2. \A u \in Threads \ {t} : loc'[u] = loc[u]
  BY DEF Write, Types, ThreadTypes
<1>3. HasTurn(t)' <=> HasTurn(t)
  BY <1>1 DEF Write, HasTurn, Types, ThreadTypes
<1> QED
  BY <1>1, <1>2, <1>3, TurnAside

LEMMA TakeReady_Turn ==
  ASSUME Types, Turn, NEW t \in Threads, TakeReady(t)
  PROVE  Turn'
<1> DEFINE x == "write"
<1>1. x \in Labels /\ pc' = [pc EXCEPT ![t] = x] /\ writeIndex' = writeIndex
  BY DEF TakeReady, Goto, read, write, Labels
<1>2. \A u \in Threads \ {t} : loc'[u] = loc[u]
  BY DEF TakeReady, Types, ThreadTypes
<1>3. HasTurn(t)' <=> HasTurn(t)
  BY <1>1 DEF TakeReady, HasTurn, Types, ThreadTypes
<1> QED
  BY <1>1, <1>2, <1>3, TurnAside

LEMMA StartNext_Turn ==
  ASSUME Types, Turn, Created, NEW t \in Threads, StartNext(t)
  PROVE  Turn'
<1>1. \A u \in Threads : loc'[u].isReady = loc[u].isReady
  BY DEF StartNext, Types, ThreadTypes, Locals
<1>2. \A u \in Threads : \/ pc'[u] = pc[u]
                         \/ pc[u] \in {"startNext", "exited"} /\ pc'[u] \in {"passRead", "start"}
  <2>1. pc \in [Threads -> Labels] /\ pc[t] = "startNext" /\ created[t]
    BY DEF StartNext, Created, Types, ThreadTypes
  <2>2. \/ pc' = [pc EXCEPT ![t] = "passRead"]
        \/ pc' = [pc EXCEPT ![t] = "passRead",
                            ![numStartedThreads] = IF created[numStartedThreads] THEN @ ELSE "start"]
    BY DEF StartNext, Goto
  <2>3. ASSUME NEW u \in Threads
        PROVE  \/ pc'[u] = pc[u]
               \/ pc'[u] = "passRead" /\ u = t
               \/ pc'[u] = "start" /\ ~created[u]
    BY <2>1, <2>2
  <2> QED
    BY <2>1, <2>3 DEF Created
<1>3. \A u \in Threads : HasTurn(u)' <=> HasTurn(u)
  BY <1>1, <1>2 DEF HasTurn
<1> QED
  BY <1>3, TurnKept DEF StartNext, write

\* The thread whose block comes next takes the turn from writeIndex.
LEMMA Publish_Turn ==
  ASSUME Types, Turn, NEW t \in Threads, Publish(t)
  PROVE  Turn'
<1>1. \A u \in Threads \ {t} : HasTurn(u)' <=> HasTurn(u)
  BY DEF Publish, EndBlock, Goto, HasTurn, Types, ThreadTypes
<1>2. loc[t].bi # None /\ ~HasTurn(t)
  BY SmallTypes DEF Publish, HasTurn, Types, ThreadTypes, Locals
<1>3. CASE writeIndex = loc[t].bi
  <2>1. HasTurn(t)' /\ writeIndex' = None
    BY <1>3 DEF Publish, TakeTurn, Goto, HasTurn, Types, ThreadTypes
  <2> QED
    BY <1>1, <1>2, <1>3, <2>1 DEF Turn
<1>4. CASE writeIndex # loc[t].bi
  <2>1. ~HasTurn(t)' /\ writeIndex' = writeIndex
    BY <1>4 DEF Publish, EndBlock, Goto, HasTurn, Types, ThreadTypes
  <2> QED
    BY <1>1, <1>2, <2>1 DEF Turn
<1> QED
  BY <1>3, <1>4

\* The writer keeps the turn for the next block if that one is ready.
LEMMA Advance_Turn ==
  ASSUME Types, Turn, NEW t \in Threads, Advance(t)
  PROVE  Turn'
<1> DEFINE wi == NextBlock(loc[t].bi)
<1>1. \A u \in Threads \ {t} : HasTurn(u)' <=> HasTurn(u)
  BY DEF Advance, Goto, HasTurn, Types, ThreadTypes
<1>2. wi \in Blocks /\ HasTurn(t)
  BY NextBlockType DEF Advance, HasTurn, Types, ThreadTypes, Locals
<1>3. pc'[t] = "releaseBlock" /\ loc'[t].isReady = ReadyBlocks[wi]
  BY DEF Advance, Goto, Types, ThreadTypes, Locals
<1>4. CASE ReadyBlocks[wi]
  BY <1>1, <1>2, <1>3, <1>4 DEF Advance, Turn, HasTurn
<1>5. CASE ~ReadyBlocks[wi]
  <2>1. ~HasTurn(t)' /\ writeIndex' # None
    BY <1>2, <1>3, <1>5, SmallTypes DEF Advance, HasTurn
  <2> QED
    BY <1>1, <1>2, <2>1 DEF Turn
<1> QED
  BY <1>4, <1>5

LEMMA ReleaseBlock_Turn ==
  ASSUME Types, Turn, NEW t \in Threads, ReleaseBlock(t)
  PROVE  Turn'
<1>1. \A u \in Threads \ {t} : HasTurn(u)' <=> HasTurn(u)
  BY DEF ReleaseBlock, EndBlock, Goto, HasTurn, Types, ThreadTypes
<1>2. HasTurn(t)' <=> HasTurn(t)
  BY DEF ReleaseBlock, EndBlock, Goto, HasTurn, Types, ThreadTypes
<1> QED
  BY <1>1, <1>2, TurnKept DEF ReleaseBlock, write

-------------------------------------------------------------------------------
(* A thread that was not created does not run.                              *)

LEMMA CreatedAside ==
  ASSUME Types, Created, created' = created, NEW t \in Threads, pc[t] # "exited",
         NEW x \in Labels, pc' = [pc EXCEPT ![t] = x]
  PROVE  Created'
BY DEF Created, Types, ThreadTypes

LEMMA StartNext_Created ==
  ASSUME Types, Created, NEW t \in Threads, StartNext(t)
  PROVE  Created'
<1>1. CASE created' = created /\ pc' = [pc EXCEPT ![t] = "passRead"]
  BY <1>1, CreatedAside DEF StartNext, Labels
<1>2. CASE /\ created' = [created EXCEPT ![numStartedThreads] = TRUE]
           /\ pc' = [pc EXCEPT ![t] = "passRead",
                               ![numStartedThreads] = IF created[numStartedThreads] THEN @ ELSE "start"]
  <2>1. created[t]
    BY DEF StartNext, Created
  <2> QED
    BY <1>2, <2>1 DEF Created, Types, ThreadTypes
<1> QED
  BY <1>1, <1>2 DEF StartNext, Goto, CreateAndStart, CreateFails, start

LEMMA StartFirst_Created ==
  ASSUME Types, Created, StartFirst
  PROVE  Created'
<1>1. 0 \in Threads
  BY DEF Types, MainTypes, Threads
<1> QED
  BY <1>1 DEF StartFirst, CreateAndStart, CreateFails, Created, Types, ThreadTypes

LEMMA JoinThread_Created ==
  ASSUME Types, Created, JoinThread
  PROVE  Created'
BY DEF JoinThread, Created, Types, ThreadTypes

-------------------------------------------------------------------------------
(* Who is at work.                                                          *)

LEMMA WorkingFinite ==
  /\ IsFiniteSet(Working) /\ Cardinality(Working) \in Nat
  /\ Working = {} <=> Cardinality(Working) = 0
<1>1. IsFiniteSet(Threads)
  BY CoderAssumption, FS_Interval, 0 \in Int, MaxThreads - 1 \in Int DEF Threads
<1>2. Working \subseteq Threads
  BY DEF Working
<1> QED
  BY <1>1, <1>2, FS_Subset, FS_CardinalityType, FS_EmptySet

\* Only threads of the call are at work.
LEMMA AtWork ==
  ASSUME Types, InCall, NEW t \in Working
  PROVE  t < numStartedThreads /\ Started(t)
BY DEF InCall, Working, NotStarted, Inside

\* No thread works, and none is counted, unless a call is in progress.
LEMMA WorkInCall ==
  ASSUME Types, Places, NEW t \in Threads, pc[t] \notin {"exited", "start"}
  PROVE  mpc \in {"go", "wait", "destroyed"} \/ (~BeforeLast /\ mpc \in {"idle", "free", "join"})
BY DEF Types, MainTypes, Places, Rested, Joining, BeforeLast

\* A step of a thread at work that goes on working.
LEMMA InsidePlaces ==
  ASSUME Types, Places, NEW t \in Threads, pc[t] \in Inside, NEW x \in Inside,
         pc' = [pc EXCEPT ![t] = x], UNCHANGED <<main, start, finish>>,
         \A u \in Threads \ {t} : loc'[u] = loc[u]
  PROVE  Places'
<1>1. pc'[t] = x /\ \A u \in Threads \ {t} : pc'[u] = pc[u]
  BY DEF Types, ThreadTypes
<1>2. Working' = Working
  BY <1>1 DEF Working, start
<1>3. ASSUME InCall PROVE InCall'
  <2>1. \A u \in Threads : (Started(u) <=> Started(u)') /\ (NotStarted(u) <=> NotStarted(u)')
    BY <1>1, <1>3 DEF Started, NotStarted, start, Inside, InCall
  <2>2. \A u \in Threads : pc'[u] = "compare" =>
                            u # t /\ pc[u] = "compare" /\ loc'[u] = loc[u]
    BY <1>1 DEF Inside
  <2>3. 0 \in Threads /\ (pc'[0] = "compare" => pc[0] = "compare")
    BY <2>2 DEF Types, MainTypes, Threads
  <2> QED
    BY <1>2, <1>3, <2>1, <2>2, <2>3 DEF InCall, main, call, start, finish
<1>4. mpc \in {"go", "wait", "destroyed"} \/ (~BeforeLast /\ mpc \in {"idle", "free", "join"})
  BY WorkInCall DEF Inside
<1> QED
  BY <1>3, <1>4 DEF Places, BeforeLast, main, call

LEMMA WaitRead_Places ==
  ASSUME Types, Places, NEW t \in Threads, WaitRead(t)
  PROVE  Places'
<1> DEFINE x == IF stopReading THEN "passStop" ELSE IF mtRes = OK THEN "read" ELSE "getBlock"
<1>1. pc[t] \in Inside /\ x \in Inside
  BY DEF WaitRead, Inside, Labels
<1>2. pc' = [pc EXCEPT ![t] = x] /\ UNCHANGED <<main, start, finish>>
  BY DEF WaitRead, Goto
<1>3. \A u \in Threads \ {t} : loc'[u] = loc[u]
  BY DEF WaitRead, Types, ThreadTypes
<1> QED
  BY <1>1, <1>2, <1>3, InsidePlaces

LEMMA PassStop_Places ==
  ASSUME Types, Places, NEW t \in Threads, PassStop(t)
  PROVE  Places'
<1> DEFINE x == "countFinished"
<1>1. pc[t] \in Inside /\ x \in Inside
  BY DEF PassStop, Inside, Labels
<1>2. pc' = [pc EXCEPT ![t] = x] /\ UNCHANGED <<main, start, finish>>
  BY DEF PassStop, Goto
<1>3. \A u \in Threads \ {t} : loc'[u] = loc[u]
  BY DEF PassStop, Types, ThreadTypes
<1> QED
  BY <1>1, <1>2, <1>3, InsidePlaces

LEMMA ReadBlock_Places ==
  ASSUME Types, Places, NEW t \in Threads, ReadBlock(t)
  PROVE  Places'
<1> DEFINE x == "getBlock"
<1>1. pc[t] \in Inside /\ x \in Inside
  BY DEF ReadBlock, Inside, Labels
<1>2. pc' = [pc EXCEPT ![t] = x] /\ UNCHANGED <<main, start, finish>>
  BY DEF ReadBlock, Goto
<1>3. \A u \in Threads \ {t} : loc'[u] = loc[u]
  BY DEF ReadBlock, Types, ThreadTypes
<1> QED
  BY <1>1, <1>2, <1>3, InsidePlaces

LEMMA ReadFails_Places ==
  ASSUME Types, Places, NEW t \in Threads, ReadFails(t)
  PROVE  Places'
<1> DEFINE x == "getBlock"
<1>1. pc[t] \in Inside /\ x \in Inside
  BY DEF ReadFails, Inside, Labels
<1>2. pc' = [pc EXCEPT ![t] = x] /\ UNCHANGED <<main, start, finish>>
  BY DEF ReadFails, Goto
<1>3. \A u \in Threads \ {t} : loc'[u] = loc[u]
  BY DEF ReadFails, Types, ThreadTypes
<1> QED
  BY <1>1, <1>2, <1>3, InsidePlaces

LEMMA GetBlock_Places ==
  ASSUME Types, Places, NEW t \in Threads, GetBlock(t)
  PROVE  Places'
<1> DEFINE x == "startNext"
<1>1. pc[t] \in Inside /\ x \in Inside
  BY DEF GetBlock, Inside, Labels
<1>2. pc' = [pc EXCEPT ![t] = x] /\ UNCHANGED <<main, start, finish>>
  BY DEF GetBlock, Goto
<1>3. \A u \in Threads \ {t} : loc'[u] = loc[u]
  BY DEF GetBlock, Types, ThreadTypes
<1> QED
  BY <1>1, <1>2, <1>3, InsidePlaces

LEMMA PassRead_Places ==
  ASSUME Types, Places, NEW t \in Threads, PassRead(t)
  PROVE  Places'
<1> DEFINE x == IF loc[t].res = OK THEN "getBuf" ELSE "publish"
<1>1. pc[t] \in Inside /\ x \in Inside
  BY DEF PassRead, Inside, Labels
<1>2. pc' = [pc EXCEPT ![t] = x] /\ UNCHANGED <<main, start, finish>>
  BY DEF PassRead, Goto
<1>3. \A u \in Threads \ {t} : loc'[u] = loc[u]
  BY DEF PassRead, Types, ThreadTypes
<1> QED
  BY <1>1, <1>2, <1>3, InsidePlaces

LEMMA GetBuf_Places ==
  ASSUME Types, Places, NEW t \in Threads, GetBuf(t)
  PROVE  Places'
<1> DEFINE x == "code"
<1>1. pc[t] \in Inside /\ x \in Inside
  BY DEF GetBuf, Inside, Labels
<1>2. pc' = [pc EXCEPT ![t] = x] /\ UNCHANGED <<main, start, finish>>
  BY DEF GetBuf, Goto
<1>3. \A u \in Threads \ {t} : loc'[u] = loc[u]
  BY DEF GetBuf, Types, ThreadTypes
<1> QED
  BY <1>1, <1>2, <1>3, InsidePlaces

LEMMA Code_Places ==
  ASSUME Types, Places, NEW t \in Threads, Code(t)
  PROVE  Places'
<1> DEFINE x == "publish"
<1>1. pc[t] \in Inside /\ x \in Inside
  BY DEF Code, Inside, Labels
<1>2. pc' = [pc EXCEPT ![t] = x] /\ UNCHANGED <<main, start, finish>>
  BY DEF Code, Goto
<1>3. \A u \in Threads \ {t} : loc'[u] = loc[u]
  BY DEF Code, Types, ThreadTypes
<1> QED
  BY <1>1, <1>2, <1>3, InsidePlaces

LEMMA CodeFails_Places ==
  ASSUME Types, Places, NEW t \in Threads, CodeFails(t)
  PROVE  Places'
<1> DEFINE x == "publish"
<1>1. pc[t] \in Inside /\ x \in Inside
  BY DEF CodeFails, Inside, Labels
<1>2. pc' = [pc EXCEPT ![t] = x] /\ UNCHANGED <<main, start, finish>>
  BY DEF CodeFails, Goto
<1>3. \A u \in Threads \ {t} : loc'[u] = loc[u]
  BY DEF CodeFails, Types, ThreadTypes
<1> QED
  BY <1>1, <1>2, <1>3, InsidePlaces

LEMMA Publish_Places ==
  ASSUME Types, Places, NEW t \in Threads, Publish(t)
  PROVE  Places'
<1> DEFINE x == IF writeIndex = loc[t].bi THEN "write" ELSE IF loc[t].res # OK \/ loc[t].finished THEN "countFinished" ELSE "getRead"
<1>1. pc[t] \in Inside /\ x \in Inside
  BY DEF Publish, Inside, Labels
<1>2. pc' = [pc EXCEPT ![t] = x] /\ UNCHANGED <<main, start, finish>>
  BY DEF Publish, Goto, EndBlock
<1>3. \A u \in Threads \ {t} : loc'[u] = loc[u]
  BY DEF Publish, EndBlock, Types, ThreadTypes
<1> QED
  BY <1>1, <1>2, <1>3, InsidePlaces

LEMMA Write_Places ==
  ASSUME Types, Places, NEW t \in Threads, Write(t)
  PROVE  Places'
<1> DEFINE x == "advance"
<1>1. pc[t] \in Inside /\ x \in Inside
  BY DEF Write, Inside, Labels
<1>2. pc' = [pc EXCEPT ![t] = x] /\ UNCHANGED <<main, start, finish>>
  BY DEF Write, Goto
<1>3. \A u \in Threads \ {t} : loc'[u] = loc[u]
  BY DEF Write, Types, ThreadTypes
<1> QED
  BY <1>1, <1>2, <1>3, InsidePlaces

LEMMA Advance_Places ==
  ASSUME Types, Places, NEW t \in Threads, Advance(t)
  PROVE  Places'
<1> DEFINE x == "releaseBlock"
<1>1. pc[t] \in Inside /\ x \in Inside
  BY DEF Advance, Inside, Labels
<1>2. pc' = [pc EXCEPT ![t] = x] /\ UNCHANGED <<main, start, finish>>
  BY DEF Advance, Goto
<1>3. \A u \in Threads \ {t} : loc'[u] = loc[u]
  BY DEF Advance, Types, ThreadTypes
<1> QED
  BY <1>1, <1>2, <1>3, InsidePlaces

LEMMA ReleaseBlock_Places ==
  ASSUME Types, Places, NEW t \in Threads, ReleaseBlock(t)
  PROVE  Places'
<1> DEFINE x == IF loc[t].isReady THEN "takeReady" ELSE IF loc[t].res # OK \/ loc[t].finished THEN "countFinished" ELSE "getRead"
<1>1. pc[t] \in Inside /\ x \in Inside
  BY DEF ReleaseBlock, Inside, Labels
<1>2. pc' = [pc EXCEPT ![t] = x] /\ UNCHANGED <<main, start, finish>>
  BY DEF ReleaseBlock, Goto, EndBlock
<1>3. \A u \in Threads \ {t} : loc'[u] = loc[u]
  BY DEF ReleaseBlock, EndBlock, Types, ThreadTypes
<1> QED
  BY <1>1, <1>2, <1>3, InsidePlaces

LEMMA TakeReady_Places ==
  ASSUME Types, Places, NEW t \in Threads, TakeReady(t)
  PROVE  Places'
<1> DEFINE x == "write"
<1>1. pc[t] \in Inside /\ x \in Inside
  BY DEF TakeReady, Inside, Labels
<1>2. pc' = [pc EXCEPT ![t] = x] /\ UNCHANGED <<main, start, finish>>
  BY DEF TakeReady, Goto
<1>3. \A u \in Threads \ {t} : loc'[u] = loc[u]
  BY DEF TakeReady, Types, ThreadTypes
<1> QED
  BY <1>1, <1>2, <1>3, InsidePlaces

-------------------------------------------------------------------------------
(* The steps that begin and end the work of a thread.                       *)

LEMMA WaitStart_Places ==
  ASSUME Types, Places, NEW t \in Threads, WaitStart(t)
  PROVE  Places'
<1>1. /\ pc[t] = "start" /\ startEvent[t] /\ startEvent' = [startEvent EXCEPT ![t] = FALSE]
      /\ pc' = [pc EXCEPT ![t] = IF stop[t] THEN "exited" ELSE "getRead"]
      /\ UNCHANGED <<main, created, stop, numStartedThreads, finish, loc>>
  BY DEF WaitStart, Goto
<1>2. pc \in [Threads -> Labels] /\ startEvent \in [Threads -> BOOLEAN] /\ 0 \in Threads
  BY DEF Types, MainTypes, ThreadTypes, Threads
<1>3. ASSUME InCall PROVE InCall'
  <2>1. t \in Working
    BY <1>1 DEF Working
  <2>2. t < numStartedThreads /\ Started(t) /\ ~stop[t]
    BY <1>1, <1>3, <2>1, AtWork DEF Started
  <2>3. Working' = Working
    BY <1>1, <1>2, <2>2 DEF Working, Inside, Labels
  <2>4. \A u \in Threads : IF u < numStartedThreads THEN Started(u)' ELSE NotStarted(u)'
    BY <1>1, <1>2, <1>3, <2>2 DEF InCall, Started, NotStarted
  <2>5. \A u \in Threads : pc'[u] = "compare" => pc[u] = "compare"
    BY <1>1, <1>2
  <2> QED
    BY <1>1, <1>2, <1>3, <2>3, <2>4, <2>5 DEF InCall, main, call, finish
<1>4. ASSUME Joining PROVE Joining'
  BY <1>1, <1>2, <1>4 DEF Joining, main
<1>5. ~Rested
  BY <1>1 DEF Rested
<1> QED
  BY <1>1, <1>3, <1>4, <1>5 DEF Places, BeforeLast, main, call

\* Event_Set of finishedEvent is still to come: a thread works until it is counted.
LEMMA CountFinished_Places ==
  ASSUME Types, Places, NEW t \in Threads, CountFinished(t)
  PROVE  Places'
<1>1. /\ pc[t] = "countFinished" /\ pc' = [pc EXCEPT ![t] = "compare"]
      /\ numFinishedThreads' = numFinishedThreads + 1
      /\ loc' = [loc EXCEPT ![t].numFinished = numFinishedThreads + 1]
      /\ UNCHANGED <<main, start, finishedEvent>>
  BY DEF CountFinished, Goto
<1>2. pc \in [Threads -> Labels] /\ loc \in [Threads -> Locals] /\ 0 \in Threads
  BY DEF Types, MainTypes, ThreadTypes, Threads
<1>3. ASSUME InCall PROVE InCall'
  <2>1. t \in Working
    BY <1>1 DEF Working, Inside, Labels
  <2>2. t < numStartedThreads /\ Started(t) /\ ~startEvent[t]
    BY <1>1, <1>3, <2>1, AtWork DEF Started
  <2>3. Working' = Working \ {t}
    BY <1>1, <1>2, <2>2 DEF Working, Inside, start
  <2>4. Cardinality(Working') = Cardinality(Working) - 1
    BY <2>1, <2>3, WorkingFinite, FS_RemoveElement
  <2>5. \A u \in Threads : IF u < numStartedThreads THEN Started(u)' ELSE NotStarted(u)'
    BY <1>1, <1>2, <1>3, <2>2 DEF InCall, Started, NotStarted, start
  <2>6. numFinishedThreads \in Nat /\ Cardinality(Working) \in Nat
    BY WorkingFinite DEF Types, ThreadTypes
  <2>7. loc'[t].numFinished = numFinishedThreads' /\ \A u \in Threads \ {t} : loc'[u] = loc[u]
    BY <1>1, <1>2 DEF Locals
  <2>8. \A u \in Threads : pc'[u] = "compare" => loc'[u].numFinished <= numFinishedThreads'
    <3> SUFFICES ASSUME NEW u \in Threads, pc'[u] = "compare"
                 PROVE  loc'[u].numFinished <= numFinishedThreads'
      OBVIOUS
    <3>1. CASE u = t
      BY <1>1, <2>6, <2>7, <3>1
    <3>2. CASE u # t
      <4>1. loc[u].numFinished <= numFinishedThreads /\ loc[u].numFinished \in Nat
        BY <1>1, <1>2, <1>3, <3>2 DEF InCall, Locals
      <4> QED
        BY <1>1, <2>6, <2>7, <3>2, <4>1
    <3> QED
      BY <3>1, <3>2
  <2>9. ~finishedEvent
    BY <1>3, <2>1 DEF InCall
  <2> QED
    BY <1>1, <1>3, <2>4, <2>5, <2>6, <2>8, <2>9 DEF InCall, main, call, start
<1>4. mpc \in {"go", "wait", "destroyed"} \/ (~BeforeLast /\ mpc \in {"idle", "free", "join"})
  BY <1>1, WorkInCall
<1> QED
  BY <1>1, <1>3, <1>4 DEF Places, BeforeLast, main, call

\* A thread that counted as many as were started was the last: nobody works.
LEMMA CompareFinished_Places ==
  ASSUME Types, Places, NEW t \in Threads, CompareFinished(t)
  PROVE  Places'
<1>1. /\ pc[t] = "compare" /\ pc' = [pc EXCEPT ![t] = "start"]
      /\ finishedEvent' = (finishedEvent \/ loc[t].numFinished = numStartedThreads)
      /\ loc' = [loc EXCEPT ![t] = InitLoc]
      /\ UNCHANGED <<main, start, numFinishedThreads>>
  BY DEF CompareFinished, AllFinished, Goto
<1>2. pc \in [Threads -> Labels] /\ loc \in [Threads -> Locals] /\ 0 \in Threads
  BY DEF Types, MainTypes, ThreadTypes, Threads
<1>3. ASSUME InCall PROVE InCall'
  <2>1. t < numStartedThreads /\ Started(t) /\ ~startEvent[t]
    BY <1>1, <1>3 DEF InCall, NotStarted, Started
  <2>2. Working' = Working
    BY <1>1, <1>2, <2>1 DEF Working, Inside, start
  <2>3. \A u \in Threads : IF u < numStartedThreads THEN Started(u)' ELSE NotStarted(u)'
    BY <1>1, <1>2, <1>3, <2>1 DEF InCall, Started, NotStarted, start
  <2>4. numFinishedThreads \in Nat /\ Cardinality(Working) \in Nat /\ numStartedThreads \in Nat
    BY WorkingFinite DEF Types, MainTypes, ThreadTypes
  <2>5. loc[t].numFinished = numStartedThreads => Working = {}
    <3>1. loc[t].numFinished <= numFinishedThreads
      BY <1>1, <1>3 DEF InCall
    <3>2. numFinishedThreads + Cardinality(Working) = numStartedThreads
      BY <1>3 DEF InCall
    <3> QED
      BY <2>4, <3>1, <3>2, WorkingFinite
  <2>6. finishedEvent' => Working' = {}
    BY <1>1, <1>3, <2>2, <2>5 DEF InCall
  <2>7. \A u \in Threads : pc'[u] = "compare" => pc[u] = "compare" /\ loc'[u] = loc[u]
    BY <1>1, <1>2
  <2>8. numStartedThreadsLimit = 1 => pc'[0] # "compare"
    <3>1. numStartedThreadsLimit = 1 => t = 0
      BY <1>3, <2>1 DEF InCall, Threads
    <3> QED
      BY <1>1, <1>2, <1>3, <2>1, <3>1 DEF InCall, NotStarted
  <2> QED
    BY <1>1, <1>3, <2>2, <2>3, <2>6, <2>7, <2>8 DEF InCall, main, call, start
<1>4. mpc \in {"go", "wait", "destroyed"} \/ (~BeforeLast /\ mpc \in {"idle", "free", "join"})
  BY <1>1, WorkInCall
<1> QED
  BY <1>1, <1>3, <1>4 DEF Places, BeforeLast, main, call

\* The thread that starts another one is at work itself.
LEMMA StartNext_Places ==
  ASSUME Types, Places, NEW t \in Threads, StartNext(t)
  PROVE  Places'
<1> DEFINE next == numStartedThreads
<1>1. pc[t] = "startNext" /\ UNCHANGED <<main, finish>>
  BY DEF StartNext
<1>2. /\ pc \in [Threads -> Labels] /\ startEvent \in [Threads -> BOOLEAN] /\ 0 \in Threads
      /\ created \in [Threads -> BOOLEAN] /\ stop \in [Threads -> BOOLEAN]
  BY DEF Types, MainTypes, ThreadTypes, Threads
<1>3. \A u \in Threads \ {t} : loc'[u] = loc[u]
  BY DEF StartNext, Types, ThreadTypes
<1>4. \/ UNCHANGED start /\ pc' = [pc EXCEPT ![t] = "passRead"]
      \/ /\ next < numStartedThreadsLimit /\ CreateAndStart(next) /\ numStartedThreads' = next + 1
         /\ pc' = [pc EXCEPT ![t] = "passRead", ![next] = IF created[next] THEN @ ELSE "start"]
      \/ /\ CreateFails(next) /\ numStartedThreads' = next /\ next < numStartedThreadsLimit
         /\ pc' = [pc EXCEPT ![t] = "passRead"]
  BY DEF StartNext, CountStarted, Goto
<1>5. pc[t] \in Inside /\ "passRead" \in Inside
  BY <1>1 DEF Inside, Labels
<1>6. CASE UNCHANGED start /\ pc' = [pc EXCEPT ![t] = "passRead"]
  BY <1>1, <1>3, <1>5, <1>6, InsidePlaces
<1>7. ASSUME InCall, next < numStartedThreadsLimit
      PROVE  next \in Threads /\ NotStarted(next) /\ next # t /\ t \in Working /\ next \notin Working
             /\ next + 1 \in 1 .. numStartedThreadsLimit /\ next > 0 /\ Started(t) /\ t < next
  <2>1. next \in Threads /\ next + 1 \in 1 .. numStartedThreadsLimit /\ next > 0
    BY <1>7 DEF Types, MainTypes, ThreadTypes, Threads, InCall
  <2>2. NotStarted(next) /\ t \in Working
    BY <1>5, <1>7, <2>1 DEF InCall, Working
  <2> QED
    BY <1>1, <1>7, <2>1, <2>2, AtWork DEF NotStarted, Working, Inside
<1>8. ASSUME InCall, next < numStartedThreadsLimit, CreateAndStart(next), numStartedThreads' = next + 1,
             pc' = [pc EXCEPT ![t] = "passRead", ![next] = IF created[next] THEN @ ELSE "start"]
      PROVE  InCall'
  <2>1. /\ pc'[t] = "passRead" /\ pc'[next] = "start" /\ startEvent'[next] /\ ~stop'[next] /\ created'[next]
        /\ \A u \in Threads \ {next} : /\ startEvent'[u] = startEvent[u] /\ stop'[u] = stop[u]
                                       /\ created'[u] = created[u]
        /\ \A u \in Threads \ {t, next} : pc'[u] = pc[u]
    BY <1>2, <1>7, <1>8 DEF CreateAndStart, NotStarted
  <2>2. Working' = Working \cup {next}
    <3>1. next \in Threads /\ next # t
      BY <1>7, <1>8
    <3>2. \A u \in Threads : (startEvent'[u] \/ pc'[u] \in Inside) <=>
                            (startEvent[u] \/ pc[u] \in Inside \/ u = next)
      <4>1. startEvent'[t] = startEvent[t] /\ pc'[t] \in Inside
        BY <1>5, <2>1, <3>1
      <4> QED
        BY <1>5, <2>1, <3>1, <4>1
    <3> QED
      BY <3>1, <3>2 DEF Working
  <2>3. Cardinality(Working') = Cardinality(Working) + 1
    BY <1>7, <1>8, <2>2, WorkingFinite, FS_AddElement
  <2>4. ASSUME NEW u \in Threads
        PROVE  IF u < next + 1 THEN Started(u)' ELSE NotStarted(u)'
    <3>1. IF u < next THEN Started(u) ELSE NotStarted(u)
      BY <1>8 DEF InCall
    <3>2. next \in Nat /\ u \in Int
      BY DEF Types, MainTypes, ThreadTypes, Threads
    <3>3. CASE u = next
      BY <2>1, <3>2, <3>3 DEF Started
    <3>4. CASE u = t
      BY <1>1, <1>7, <1>8, <2>1, <3>2, <3>4 DEF Started
    <3>5. CASE u # next /\ u # t
      BY <2>1, <3>1, <3>2, <3>5 DEF Started, NotStarted
    <3> QED
      BY <3>3, <3>4, <3>5
  <2>5. numFinishedThreads \in Nat /\ Cardinality(Working) \in Nat /\ next \in Nat
    BY WorkingFinite DEF Types, MainTypes, ThreadTypes
  <2>6. \A u \in Threads : pc'[u] = "compare" => pc[u] = "compare" /\ loc'[u] = loc[u]
    BY <1>3, <1>7, <1>8, <2>1
  <2>7. ~finishedEvent
    BY <1>7, <1>8 DEF InCall
  <2>8. numStartedThreads' \in 1 .. numStartedThreadsLimit' /\ numFinishedThreads' + Cardinality(Working') = numStartedThreads'
    <3>1. numFinishedThreads + Cardinality(Working) = next
      BY <1>8 DEF InCall
    <3> QED
      BY <1>1, <1>7, <1>8, <2>3, <2>5, <3>1 DEF main, call, finish
  <2>9. \A u \in Threads : IF u < numStartedThreads' THEN Started(u)' ELSE NotStarted(u)'
    BY <1>8, <2>4
  <2>10. \A u \in Threads : pc'[u] = "compare" => loc'[u].numFinished <= numFinishedThreads'
    BY <1>1, <1>8, <2>6 DEF InCall, finish
  <2>11. finishedEvent' = FALSE
    BY <1>1, <2>7 DEF Types, ThreadTypes, finish
  <2> QED
    BY <2>8, <2>9, <2>10, <2>11 DEF InCall
<1>9. ASSUME InCall, next < numStartedThreadsLimit, CreateFails(next), numStartedThreads' = next,
             pc' = [pc EXCEPT ![t] = "passRead"]
      PROVE  InCall'
  <2>1. /\ pc'[t] = "passRead" /\ \A u \in Threads \ {t} : pc'[u] = pc[u]
        /\ ~startEvent'[next] /\ created' = created
        /\ \A u \in Threads \ {next} : startEvent'[u] = startEvent[u] /\ stop'[u] = stop[u]
    BY <1>2, <1>7, <1>9 DEF CreateFails
  <2>2. Working' = Working
    BY <1>5, <1>7, <1>9, <2>1 DEF Working, NotStarted
  <2>3. ASSUME NEW u \in Threads
        PROVE  IF u < next THEN Started(u)' ELSE NotStarted(u)'
    <3>1. IF u < next THEN Started(u) ELSE NotStarted(u)
      BY <1>9 DEF InCall
    <3>2. ~(next < next) /\ next \in Nat
      BY DEF Types, ThreadTypes
    <3>3. CASE u = next
      BY <1>7, <1>9, <2>1, <3>2, <3>3 DEF NotStarted
    <3>4. CASE u = t
      BY <1>1, <1>7, <1>9, <2>1, <3>4 DEF Started
    <3>5. CASE u # next /\ u # t
      BY <2>1, <3>1, <3>5 DEF Started, NotStarted
    <3> QED
      BY <3>3, <3>4, <3>5
  <2>4. \A u \in Threads : pc'[u] = "compare" => pc[u] = "compare" /\ loc'[u] = loc[u]
    BY <1>3, <2>1
  <2> QED
    BY <1>1, <1>2, <1>9, <2>2, <2>3, <2>4 DEF InCall, main, call, finish
<1>10. mpc \in {"go", "wait", "destroyed"} \/ (~BeforeLast /\ mpc \in {"idle", "free", "join"})
  BY <1>1, WorkInCall
<1>11. ASSUME InCall PROVE InCall' \/ Places'
  BY <1>4, <1>6, <1>8, <1>9, <1>11
<1> QED
  BY <1>1, <1>10, <1>11 DEF Places, BeforeLast, main, call

-------------------------------------------------------------------------------
(* The steps of the caller.                                                 *)

\* A step that leaves the threads and writeIndex alone.
LEMMA ThreadsAlone ==
  ASSUME Turn, Created, UNCHANGED <<pc, loc, created, writeIndex>>
  PROVE  Turn' /\ Created'
BY TurnKept DEF HasTurn, Created

LEMMA MtCoder_Code_Rest ==
  ASSUME IInv, MtCoder_Code
  PROVE  Turn' /\ Created' /\ Places'
<1>1. BeforeLast /\ mpc = "idle" /\ plan' = plan /\ session' = session + 1
  BY DEF MtCoder_Code, BeforeLast
<1>2. Rested
  BY <1>1 DEF IInv, Places
<1>3. UNCHANGED <<pc, loc, created, stop, startEvent>> /\ writeIndex' = 0 /\ mpc' = "start"
  BY DEF MtCoder_Code
<1>4. Rested'
  BY <1>2, <1>3 DEF Rested
<1>5. \A t \in Threads : ~HasTurn(t)'
  BY <1>4 DEF Rested, HasTurn
<1>6. Turn' /\ Created'
  BY <1>3, <1>5 DEF Turn, None, IInv, Created
<1>7. session' < Len(plan') => numStartedThreadsLimit' = 1
  <2>1. numStartedThreadsLimit' = plan[session'].numThreads
    BY DEF MtCoder_Code
  <2>2. OneThreadBefore(plan) /\ session \in Nat /\ Len(plan) \in Nat
    BY PlanTypes DEF IInv, Types, MainTypes
  <2> QED
    BY <1>1, <2>1, <2>2 DEF OneThreadBefore
<1>8. numFinishedThreads' = 0 /\ finishedEvent' = FALSE
  BY DEF MtCoder_Code
<1> QED
  BY <1>3, <1>4, <1>6, <1>7, <1>8 DEF Places, BeforeLast

LEMMA StartFirst_Rest ==
  ASSUME IInv, StartFirst
  PROVE  Turn' /\ Created' /\ Places'
<1>1. /\ mpc = "start" /\ numStartedThreads' = 1
      /\ UNCHANGED <<mi, call, read, write, finish, loc>>
  BY DEF StartFirst
<1>2. /\ Rested /\ numFinishedThreads = 0 /\ ~finishedEvent /\ numStartedThreadsLimit > 0
      /\ (BeforeLast => numStartedThreadsLimit = 1)
  BY <1>1 DEF IInv, Places, Types, MainTypes
<1>3. /\ pc \in [Threads -> Labels] /\ startEvent \in [Threads -> BOOLEAN] /\ 0 \in Threads
      /\ created \in [Threads -> BOOLEAN] /\ stop \in [Threads -> BOOLEAN]
      /\ numStartedThreadsLimit \in Nat
  BY DEF IInv, Types, MainTypes, ThreadTypes, Threads
<1>4. \A t \in Threads : pc[t] \in {"start", "exited"}
  BY <1>2 DEF Rested
<1>5. \A t \in Threads : pc'[t] \in {"start", "exited"}
  BY <1>3, <1>4 DEF StartFirst
<1>6. \A t \in Threads : HasTurn(t)' <=> HasTurn(t)
  BY <1>4, <1>5 DEF HasTurn
<1>7. Turn'
  BY <1>1, <1>6, TurnKept DEF IInv, write
<1>8. CASE CreateAndStart(0) /\ mpc' = "go" /\ pc' = (IF created[0] THEN pc ELSE [pc EXCEPT ![0] = "start"])
  <2>1. /\ startEvent'[0] /\ ~stop'[0] /\ created'[0] /\ pc'[0] = "start"
        /\ \A t \in Threads \ {0} : /\ startEvent'[t] = startEvent[t] /\ created'[t] = created[t]
                                   /\ pc'[t] = pc[t]
    BY <1>2, <1>3, <1>8 DEF CreateAndStart, Rested
  <2>2. Working' = {0}
    BY <1>2, <1>3, <1>5, <2>1 DEF Working, Inside, Rested
  <2>3. Cardinality(Working') = 1
    BY <2>2, FS_Singleton
  <2>4. \A t \in Threads : IF t < 1 THEN Started(t)' ELSE NotStarted(t)'
    <3>1. Started(0)'
      BY <2>1 DEF Started
    <3>2. \A t \in Threads \ {0} : NotStarted(t)' /\ ~(t < 1)
      BY <1>2, <2>1 DEF NotStarted, Rested, Threads
    <3> QED
      BY <3>1, <3>2
  <2>5. InCall'
    BY <1>1, <1>2, <1>3, <1>5, <2>3, <2>4 DEF InCall, finish, call
  <2> QED
    BY <1>1, <1>2, <1>7, <1>8, <2>5, StartFirst_Created DEF Places, BeforeLast, call, IInv
<1>9. CASE CreateFails(0) /\ mpc' = "idle" /\ pc' = pc
  <2>1. Rested'
    BY <1>2, <1>3, <1>9 DEF CreateFails, Rested
  <2> QED
    BY <1>7, <1>9, <2>1, StartFirst_Created DEF Places, IInv
<1> QED
  BY <1>8, <1>9 DEF StartFirst

LEMMA Go_Rest ==
  ASSUME IInv, Go
  PROVE  Turn' /\ Created' /\ Places'
<1>1. /\ mpc = "go" /\ mpc' = "wait"
      /\ UNCHANGED <<mi, call, start, finish, pc, loc, writeIndex>>
  BY DEF Go, write
<1>2. InCall /\ (BeforeLast => numStartedThreadsLimit = 1)
  BY <1>1 DEF IInv, Places
<1>3. Turn' /\ Created'
  BY <1>1, ThreadsAlone DEF IInv, start
<1>4. Working' = Working
  BY <1>1 DEF Working, start
<1>5. InCall'
  BY <1>1, <1>2, <1>4 DEF InCall, Started, NotStarted, call, start, finish
<1> QED
  BY <1>1, <1>2, <1>3, <1>5 DEF Places, BeforeLast, call

\* The only thread of a call before the last has been waited for.
LEMMA WaitFinished_Rest ==
  ASSUME IInv, WaitFinished
  PROVE  Turn' /\ Created' /\ Places'
<1>1. /\ mpc = "wait" /\ finishedEvent /\ mpc' \in {"idle", "free"}
      /\ UNCHANGED <<call, start, pc, loc, writeIndex>>
  BY DEF WaitFinished, write
<1>2. Turn' /\ Created'
  BY <1>1, ThreadsAlone DEF IInv, start
<1>3. ASSUME BeforeLast PROVE Rested
  <2>1. InCall /\ numStartedThreadsLimit = 1 /\ Working = {}
    BY <1>1, <1>3 DEF IInv, Places, InCall
  <2>2. 0 \in Threads /\ numStartedThreads = 1 /\ pc \in [Threads -> Labels]
    BY <2>1 DEF IInv, Types, MainTypes, ThreadTypes, Threads, InCall
  <2>3. Started(0) /\ pc[0] # "compare" /\ ~startEvent[0] /\ pc[0] \notin Inside
    BY <1>1, <2>1, <2>2 DEF InCall, Working
  <2>4. pc[0] = "start" /\ created[0]
    BY <2>2, <2>3 DEF Started, Inside
  <2>5. \A t \in Threads \ {0} : NotStarted(t)
    BY <2>1, <2>2 DEF InCall, Threads
  <2> QED
    BY <2>3, <2>4, <2>5 DEF Rested, NotStarted
<1>4. BeforeLast => Rested'
  BY <1>1, <1>3 DEF Rested, start
<1> QED
  BY <1>1, <1>2, <1>4 DEF Places, BeforeLast, call

LEMMA Destruct_Rest ==
  ASSUME IInv, Destruct
  PROVE  Turn' /\ Created' /\ Places'
<1>1. mpc = "idle" /\ mpc' = "free" /\ session = Len(plan) /\ session' = session + 1 /\ plan' = plan
      /\ UNCHANGED <<pc, loc, created, writeIndex>>
  BY DEF Destruct, write, start
<1>2. Turn' /\ Created'
  BY <1>1, ThreadsAlone DEF IInv
<1>3. ~BeforeLast'
  BY <1>1, PlanTypes DEF BeforeLast, IInv, Types, MainTypes
<1> QED
  BY <1>1, <1>2, <1>3 DEF Places

LEMMA FreeThread_Rest ==
  ASSUME IInv, FreeThread
  PROVE  Turn' /\ Created' /\ Places'
<1>1. mpc = "free" /\ mi < MaxThreads /\ UNCHANGED <<call, pc, loc, created, writeIndex>>
  BY DEF FreeThread, write, start
<1>2. Turn' /\ Created'
  BY <1>1, ThreadsAlone DEF IInv
<1>3. /\ mi \in Threads /\ 0 \in Threads /\ (BeforeLast => Rested)
      /\ startEvent \in [Threads -> BOOLEAN] /\ stop \in [Threads -> BOOLEAN]
  BY <1>1 DEF IInv, Places, Types, MainTypes, ThreadTypes, Threads
<1>4. CASE created[mi]
  <2>1. /\ mpc' = "join" /\ mi' = mi
        /\ stop' = [stop EXCEPT ![mi] = TRUE] /\ startEvent' = [startEvent EXCEPT ![mi] = TRUE]
    BY <1>4 DEF FreeThread, Wake
  <2>2. BeforeLast => Joining'
    BY <1>1, <1>3, <1>4, <2>1 DEF Rested, Joining
  <2> QED
    BY <1>1, <1>2, <2>1, <2>2 DEF Places, BeforeLast, call
<1>5. CASE ~created[mi]
  <2>1. mpc' = mpc /\ startEvent' = startEvent
    BY <1>5 DEF FreeThread
  <2>2. BeforeLast => Rested'
    BY <1>1, <1>3, <2>1 DEF Rested
  <2> QED
    BY <1>1, <1>2, <2>1, <2>2 DEF Places, BeforeLast, call
<1> QED
  BY <1>4, <1>5

LEMMA JoinThread_Rest ==
  ASSUME IInv, JoinThread
  PROVE  Turn' /\ Created' /\ Places'
<1>1. /\ mpc = "join" /\ mpc' = "free" /\ UNCHANGED <<call, pc, loc, writeIndex>>
      /\ created' = [created EXCEPT ![mi] = FALSE] /\ startEvent' = [startEvent EXCEPT ![mi] = FALSE]
      /\ pc[mi] = "exited"
  BY DEF JoinThread, write
<1>2. Turn' /\ Created'
  BY <1>1, TurnKept, JoinThread_Created DEF IInv, HasTurn
<1>3. BeforeLast => Joining
  BY <1>1 DEF IInv, Places
<1>4. created \in [Threads -> BOOLEAN] /\ startEvent \in [Threads -> BOOLEAN] /\ 0 \in Threads
  BY DEF IInv, Types, MainTypes, ThreadTypes, Threads
<1>5. BeforeLast => Rested'
  BY <1>1, <1>3, <1>4 DEF Joining, Rested
<1> QED
  BY <1>1, <1>2, <1>5 DEF Places, BeforeLast, call

LEMMA FreeDone_Rest ==
  ASSUME IInv, FreeDone
  PROVE  Turn' /\ Created' /\ Places'
<1>1. mpc = "free" /\ mpc' \in {"idle", "destroyed"} /\ UNCHANGED <<call, start, pc, loc, writeIndex>>
  BY DEF FreeDone, write
<1>2. Turn' /\ Created'
  BY <1>1, ThreadsAlone DEF IInv, start
<1>3. BeforeLast => Rested'
  BY <1>1 DEF IInv, Places, Rested, start
<1> QED
  BY <1>1, <1>2, <1>3 DEF Places, BeforeLast, call

-------------------------------------------------------------------------------
(* The invariant.                                                           *)

LEMMA InitInv ==
  ASSUME OneThreadUntilTheLast, Init
  PROVE  IInv
<1>1. plan \in Plans /\ OneThreadBefore(plan) /\ 0 \in Blocks /\ 0 \in Threads /\ Len(plan) \in Nat \ {0}
  BY PlanTypes DEF Init, OneThreadUntilTheLast
<1>2. MaxThreads \in Nat /\ MaxThreads > 0 /\ MaxBlocks \in Nat
  BY CoderAssumption
<1>3. MainTypes
  BY <1>1, <1>2, SmallTypes DEF Init, MainTypes
<1>4. RingTypes
  <2>1. freeBlocks \in Seq(Blocks)
    BY DEF Init
  <2> QED
    BY <1>1, <2>1, SmallTypes DEF Init, RingTypes, Block
<1>5. ThreadTypes
  <2>1. InitLoc \in Locals
    BY <1>1, InitLocType
  <2>2. loc \in [Threads -> Locals] /\ pc \in [Threads -> Labels]
    BY <2>1 DEF Init, Labels
  <2>3. created \in [Threads -> BOOLEAN] /\ stop \in [Threads -> BOOLEAN] /\ startEvent \in [Threads -> BOOLEAN]
    BY DEF Init
  <2>4. numStartedThreads = 0 /\ numFinishedThreads = 0 /\ finishedEvent = FALSE
    BY DEF Init
  <2>5. numStartedThreads \in 0 .. MaxThreads
    BY <1>2, <2>4
  <2>6. numFinishedThreads \in Nat /\ finishedEvent \in BOOLEAN
    BY <2>4
  <2> QED
    BY <2>2, <2>3, <2>5, <2>6 DEF ThreadTypes
<1>6. \A t \in Threads : pc[t] = "exited" /\ ~created[t] /\ ~startEvent[t]
  BY DEF Init
<1>7. Turn /\ Created
  BY <1>6 DEF Init, Turn, HasTurn, Created, None
<1>8. Places
  BY <1>6 DEF Init, Places, Rested
<1> QED
  BY <1>3, <1>4, <1>5, <1>7, <1>8 DEF IInv, Types

LEMMA StepTypes ==
  ASSUME Types, Next
  PROVE  Types'
<1>1. CASE MtCoder_Code
  BY <1>1, MtCoder_Code_Types
<1>2. CASE StartFirst
  BY <1>2, StartFirst_Types
<1>3. CASE Go
  BY <1>3, Go_Types
<1>4. CASE WaitFinished
  BY <1>4, WaitFinished_Types
<1>5. CASE Destruct
  BY <1>5, Destruct_Types
<1>6. CASE FreeThread
  BY <1>6, FreeThread_Types
<1>7. CASE JoinThread
  BY <1>7, JoinThread_Types
<1>8. CASE FreeDone
  BY <1>8, FreeDone_Types
<1>9. ASSUME NEW t \in Threads, WaitStart(t) PROVE Types'
  BY <1>9, WaitStart_Types
<1>10. ASSUME NEW t \in Threads, CountFinished(t) PROVE Types'
  BY <1>10, CountFinished_Types
<1>11. ASSUME NEW t \in Threads, CompareFinished(t) PROVE Types'
  BY <1>11, CompareFinished_Types
<1>12. ASSUME NEW t \in Threads, WaitRead(t) PROVE Types'
  BY <1>12, WaitRead_Types
<1>13. ASSUME NEW t \in Threads, PassStop(t) PROVE Types'
  BY <1>13, PassStop_Types
<1>14. ASSUME NEW t \in Threads, ReadBlock(t) PROVE Types'
  BY <1>14, ReadBlock_Types
<1>15. ASSUME NEW t \in Threads, ReadFails(t) PROVE Types'
  BY <1>15, ReadFails_Types
<1>16. ASSUME NEW t \in Threads, GetBlock(t) PROVE Types'
  BY <1>16, GetBlock_Types
<1>17. ASSUME NEW t \in Threads, StartNext(t) PROVE Types'
  BY <1>17, StartNext_Types
<1>18. ASSUME NEW t \in Threads, PassRead(t) PROVE Types'
  BY <1>18, PassRead_Types
<1>19. ASSUME NEW t \in Threads, GetBuf(t) PROVE Types'
  BY <1>19, GetBuf_Types
<1>20. ASSUME NEW t \in Threads, Code(t) PROVE Types'
  BY <1>20, Code_Types
<1>21. ASSUME NEW t \in Threads, CodeFails(t) PROVE Types'
  BY <1>21, CodeFails_Types
<1>22. ASSUME NEW t \in Threads, Publish(t) PROVE Types'
  BY <1>22, Publish_Types
<1>23. ASSUME NEW t \in Threads, Write(t) PROVE Types'
  BY <1>23, Write_Types
<1>24. ASSUME NEW t \in Threads, Advance(t) PROVE Types'
  BY <1>24, Advance_Types
<1>25. ASSUME NEW t \in Threads, ReleaseBlock(t) PROVE Types'
  BY <1>25, ReleaseBlock_Types
<1>26. ASSUME NEW t \in Threads, TakeReady(t) PROVE Types'
  BY <1>26, TakeReady_Types
<1>27. CASE Destroyed
  BY <1>27 DEF Destroyed, vars, main, call, read, write, start, finish, output, Types, MainTypes, RingTypes, ThreadTypes
<1> QED
  BY <1>1, <1>2, <1>3, <1>4, <1>5, <1>6, <1>7, <1>8, <1>9, <1>10, <1>11, <1>12, <1>13, <1>14, <1>15, <1>16, <1>17, <1>18, <1>19, <1>20, <1>21, <1>22, <1>23, <1>24, <1>25, <1>26, <1>27
     DEF Next, MainStep, ThreadStep

LEMMA StepRest ==
  ASSUME IInv, Next
  PROVE  Turn' /\ Created' /\ Places'
<1> USE DEF IInv
<1>1. CASE MtCoder_Code
  BY <1>1, MtCoder_Code_Rest
<1>2. CASE StartFirst
  BY <1>2, StartFirst_Rest
<1>3. CASE Go
  BY <1>3, Go_Rest
<1>4. CASE WaitFinished
  BY <1>4, WaitFinished_Rest
<1>5. CASE Destruct
  BY <1>5, Destruct_Rest
<1>6. CASE FreeThread
  BY <1>6, FreeThread_Rest
<1>7. CASE JoinThread
  BY <1>7, JoinThread_Rest
<1>8. CASE FreeDone
  BY <1>8, FreeDone_Rest
<1>9. ASSUME NEW t \in Threads, WaitStart(t) PROVE Turn' /\ Created' /\ Places'
  <2>1. Created'
    BY <1>9, CreatedAside DEF WaitStart, Goto, EndBlock, start, Labels
  <2> QED
    BY <1>9, <2>1, WaitStart_Turn, WaitStart_Places
<1>10. ASSUME NEW t \in Threads, CountFinished(t) PROVE Turn' /\ Created' /\ Places'
  <2>1. Created'
    BY <1>10, CreatedAside DEF CountFinished, Goto, EndBlock, start, Labels
  <2> QED
    BY <1>10, <2>1, CountFinished_Turn, CountFinished_Places
<1>11. ASSUME NEW t \in Threads, CompareFinished(t) PROVE Turn' /\ Created' /\ Places'
  <2>1. Created'
    BY <1>11, CreatedAside DEF CompareFinished, Goto, EndBlock, start, Labels
  <2> QED
    BY <1>11, <2>1, CompareFinished_Turn, CompareFinished_Places
<1>12. ASSUME NEW t \in Threads, WaitRead(t) PROVE Turn' /\ Created' /\ Places'
  <2>1. Created'
    BY <1>12, CreatedAside DEF WaitRead, Goto, EndBlock, start, Labels
  <2> QED
    BY <1>12, <2>1, WaitRead_Turn, WaitRead_Places
<1>13. ASSUME NEW t \in Threads, PassStop(t) PROVE Turn' /\ Created' /\ Places'
  <2>1. Created'
    BY <1>13, CreatedAside DEF PassStop, Goto, EndBlock, start, Labels
  <2> QED
    BY <1>13, <2>1, PassStop_Turn, PassStop_Places
<1>14. ASSUME NEW t \in Threads, ReadBlock(t) PROVE Turn' /\ Created' /\ Places'
  <2>1. Created'
    BY <1>14, CreatedAside DEF ReadBlock, Goto, EndBlock, start, Labels
  <2> QED
    BY <1>14, <2>1, ReadBlock_Turn, ReadBlock_Places
<1>15. ASSUME NEW t \in Threads, ReadFails(t) PROVE Turn' /\ Created' /\ Places'
  <2>1. Created'
    BY <1>15, CreatedAside DEF ReadFails, Goto, EndBlock, start, Labels
  <2> QED
    BY <1>15, <2>1, ReadFails_Turn, ReadFails_Places
<1>16. ASSUME NEW t \in Threads, GetBlock(t) PROVE Turn' /\ Created' /\ Places'
  <2>1. Created'
    BY <1>16, CreatedAside DEF GetBlock, Goto, EndBlock, start, Labels
  <2> QED
    BY <1>16, <2>1, GetBlock_Turn, GetBlock_Places
<1>17. ASSUME NEW t \in Threads, StartNext(t) PROVE Turn' /\ Created' /\ Places'
  BY <1>17, StartNext_Turn, StartNext_Created, StartNext_Places
<1>18. ASSUME NEW t \in Threads, PassRead(t) PROVE Turn' /\ Created' /\ Places'
  <2>1. Created'
    BY <1>18, CreatedAside DEF PassRead, Goto, EndBlock, start, Labels
  <2> QED
    BY <1>18, <2>1, PassRead_Turn, PassRead_Places
<1>19. ASSUME NEW t \in Threads, GetBuf(t) PROVE Turn' /\ Created' /\ Places'
  <2>1. Created'
    BY <1>19, CreatedAside DEF GetBuf, Goto, EndBlock, start, Labels
  <2> QED
    BY <1>19, <2>1, GetBuf_Turn, GetBuf_Places
<1>20. ASSUME NEW t \in Threads, Code(t) PROVE Turn' /\ Created' /\ Places'
  <2>1. Created'
    BY <1>20, CreatedAside DEF Code, Goto, EndBlock, start, Labels
  <2> QED
    BY <1>20, <2>1, Code_Turn, Code_Places
<1>21. ASSUME NEW t \in Threads, CodeFails(t) PROVE Turn' /\ Created' /\ Places'
  <2>1. Created'
    BY <1>21, CreatedAside DEF CodeFails, Goto, EndBlock, start, Labels
  <2> QED
    BY <1>21, <2>1, CodeFails_Turn, CodeFails_Places
<1>22. ASSUME NEW t \in Threads, Publish(t) PROVE Turn' /\ Created' /\ Places'
  <2>1. Created'
    BY <1>22, CreatedAside DEF Publish, Goto, EndBlock, start, Labels
  <2> QED
    BY <1>22, <2>1, Publish_Turn, Publish_Places
<1>23. ASSUME NEW t \in Threads, Write(t) PROVE Turn' /\ Created' /\ Places'
  <2>1. Created'
    BY <1>23, CreatedAside DEF Write, Goto, EndBlock, start, Labels
  <2> QED
    BY <1>23, <2>1, Write_Turn, Write_Places
<1>24. ASSUME NEW t \in Threads, Advance(t) PROVE Turn' /\ Created' /\ Places'
  <2>1. Created'
    BY <1>24, CreatedAside DEF Advance, Goto, EndBlock, start, Labels
  <2> QED
    BY <1>24, <2>1, Advance_Turn, Advance_Places
<1>25. ASSUME NEW t \in Threads, ReleaseBlock(t) PROVE Turn' /\ Created' /\ Places'
  <2>1. Created'
    BY <1>25, CreatedAside DEF ReleaseBlock, Goto, EndBlock, start, Labels
  <2> QED
    BY <1>25, <2>1, ReleaseBlock_Turn, ReleaseBlock_Places
<1>26. ASSUME NEW t \in Threads, TakeReady(t) PROVE Turn' /\ Created' /\ Places'
  <2>1. Created'
    BY <1>26, CreatedAside DEF TakeReady, Goto, EndBlock, start, Labels
  <2> QED
    BY <1>26, <2>1, TakeReady_Turn, TakeReady_Places
<1>27. CASE Destroyed
  <2>1. UNCHANGED <<pc, loc, created, writeIndex>> /\ mpc' = mpc /\ mpc = "destroyed"
    BY <1>27 DEF Destroyed, vars, main, write, start
  <2> QED
    BY <2>1, ThreadsAlone DEF Places
<1> QED
  BY <1>1, <1>2, <1>3, <1>4, <1>5, <1>6, <1>7, <1>8, <1>9, <1>10, <1>11, <1>12, <1>13, <1>14, <1>15, <1>16, <1>17, <1>18, <1>19, <1>20, <1>21, <1>22, <1>23, <1>24, <1>25, <1>26, <1>27
     DEF Next, MainStep, ThreadStep

LEMMA StutterInv ==
  ASSUME IInv, UNCHANGED vars
  PROVE  IInv'
<1> USE DEF vars, main, call, read, write, start, finish, output
<1>1. Types'
  BY DEF IInv, Types, MainTypes, RingTypes, ThreadTypes
<1>2. Turn' /\ Created'
  BY ThreadsAlone DEF IInv
<1>3. Working' = Working
  BY DEF Working
<1>4. InCall => InCall'
  BY <1>3 DEF InCall, Started, NotStarted
<1>5. (Rested => Rested') /\ (Joining => Joining')
  BY DEF Rested, Joining
<1>6. Places'
  BY <1>4, <1>5 DEF IInv, Places, BeforeLast
<1> QED
  BY <1>1, <1>2, <1>6 DEF IInv

LEMMA Invariant ==
  ASSUME OneThreadUntilTheLast
  PROVE  Spec => []IInv
<1>1. Init => IInv
  BY InitInv
<1>2. IInv /\ [Next]_vars => IInv'
  BY StepTypes, StepRest, StutterInv DEF IInv
<1> QED
  BY <1>1, <1>2, PTL DEF Spec

-------------------------------------------------------------------------------
(* Results.                                                                 *)

\* When finishedEvent lets MtCoder_Code return, no thread of the call is at work or
\* about to start, for any number of threads, any inputs and any failures: the caller
\* may change or free what the callbacks use.
THEOREM WokenWhenQuiet ==
  ASSUME OneThreadUntilTheLast
  PROVE  Spec => []FinishedIsQuiescent
<1>1. IInv => FinishedIsQuiescent
  BY DEF IInv, Places, InCall, Working, Inside, FinishedIsQuiescent, Types, ThreadTypes
<1> QED
  BY <1>1, Invariant, PTL
-------------------------------------------------------------------------------
(***************************************************************************)
(* The ring.  The blocks in use are an interval of it, from the one whose    *)
(* turn it is to be written (w) to the one the next reader will take; n is   *)
(* its length and `done' the number of blocks that have left it.  The chunk  *)
(* of a block is known from its place in that interval.                      *)
(***************************************************************************)

\* The number of blocks in the ring.
N == numBlocksMax

\* Outside Code nobody is inside, and who is woken is to stop.
Calm ==
  /\ session = 0 => mpc = "idle"
  /\ mpc \notin {"go", "wait"} =>
       \A t \in Threads : pc[t] \notin Inside /\ (startEvent[t] => stop[t])

\* One thread has the readEvent token, or the event has it, or it is not given yet.
ReaderAt == {"passStop", "read", "getBlock", "startNext", "passRead"}
Token ==
  /\ \A t, u \in Threads : pc[t] \in ReaderAt /\ pc[u] \in ReaderAt => t = u
  /\ (readEvent \/ mpc \in {"start", "go"}) => \A t \in Threads : pc[t] \notin ReaderAt
  /\ mpc \in {"start", "go"} => ~readEvent

-------------------------------------------------------------------------------
(* The ring of blocks.                                                      *)

\* The thread t holds a block of the ring.
HoldAt == {"startNext", "passRead", "getBuf", "code", "publish"}
Holds(t) == pc[t] \in HoldAt \/ HasTurn(t)
Releasing == {t \in Threads : pc[t] = "releaseBlock"}

\* The n blocks in use begin with w; the place of the block b after w.
Pos(w, b) == IF b >= w THEN b - w ELSE b - w + N
InUse(w, n, b) == b < N /\ Pos(w, b) < n
Slots(w, n) ==
  /\ w \in 0 .. N - 1 /\ n \in 0 .. N
  /\ blockIndex = IF w + n < N THEN w + n ELSE w + n - N
  /\ blocksSemaphore \in Nat /\ blocksSemaphore + n + Cardinality(Releasing) = N
  /\ writeIndex \in {None, w}
  /\ writeIndex # None => ~ReadyBlocks[w]
  /\ \A t \in Threads : HasTurn(t) => loc[t].bi = w
  /\ \A t, u \in Threads : Holds(t) /\ Holds(u) /\ loc[t].bi = loc[u].bi => t = u
  /\ \A t \in Threads : Holds(t) => InUse(w, n, loc[t].bi) /\ ~ReadyBlocks[loc[t].bi]
  /\ \A b \in Blocks : ReadyBlocks[b] => InUse(w, n, b)
  /\ \A b \in Blocks : InUse(w, n, b) =>
       ReadyBlocks[b] \/ \E t \in Threads : Holds(t) /\ loc[t].bi = b

\* The writer will take the block b, which is ready.
Takes(t) == pc[t] = "takeReady" \/ (pc[t] = "releaseBlock" /\ loc[t].isReady)
Waits(b) == ReadyBlocks[b] \/ \E t \in Threads : Takes(t) /\ loc[t].bi = b

-------------------------------------------------------------------------------
(* The output buffers.                                                      *)

\* The buffer f belongs to the block b, by its thread t or as it waits.
BufferAt == {"code", "publish", "write", "advance"}
Has(t, b, f) == pc[t] \in BufferAt /\ loc[t].bi = b /\ loc[t].bufIndex = f
Owns(b, f) == (Waits(b) /\ blocks[b].bufIndex = f) \/ \E t \in Threads : Has(t, b, f)

\* The buffers from N on are never used: they stay at the end of the list.
Unused == MaxBlocks - N
IsFree(f) == \E i \in 1 .. Len(freeBlocks) : freeBlocks[i] = f
Stack ==
  /\ Len(freeBlocks) >= Unused
  /\ \A i \in 1 .. Len(freeBlocks) :
       IF i > Len(freeBlocks) - Unused THEN freeBlocks[i] = MaxBlocks - Len(freeBlocks) + i - 1
       ELSE freeBlocks[i] < N
  /\ \A i, j \in 1 .. Len(freeBlocks) : freeBlocks[i] = freeBlocks[j] => i = j
Owners ==
  /\ \A b, c, f \in Blocks : Owns(b, f) /\ Owns(c, f) => b = c
  /\ \A b, f \in Blocks : Owns(b, f) => ~IsFree(f)
  /\ \A f \in Blocks : IsFree(f) \/ \E b \in Blocks : Owns(b, f)

-------------------------------------------------------------------------------
(* The chunks: `done' blocks have left the ring.                            *)

\* What the thread t holds: the buffer, the chunk, and no error that is not in mtRes.
Buffer(t) ==
  /\ pc[t] \in {"read", "getBuf", "code"} => loc[t].res = OK
  /\ pc[t] \in {"startNext", "passRead", "getBuf"} => loc[t].bufIndex = None
  /\ pc[t] \in {"code", "publish", "write"} /\ loc[t].res = OK => loc[t].bufIndex # None
  /\ (Holds(t) \/ pc[t] = "getBlock") /\ loc[t].res # OK => mtRes # OK
Reads(n, done, t) ==
  /\ pc[t] = "read" => readProcessed = done + n
  /\ pc[t] = "getBlock" /\ loc[t].res = OK => readProcessed = done + n + 1 /\ loc[t].chunk = readProcessed
  /\ pc[t] = "startNext" /\ loc[t].res = OK => readProcessed = done + n
Chunk(w, done, t) ==
  loc[t].res = OK =>
    /\ pc[t] \in HoldAt =>
         loc[t].chunk = done + Pos(w, loc[t].bi) + 1 /\ loc[t].chunk <= readProcessed
    /\ pc[t] = "publish" => content[loc[t].bufIndex] = loc[t].chunk
    /\ pc[t] = "write" => content[loc[t].bufIndex] = done + 1 /\ done + 1 <= readProcessed
ThreadOK(w, n, done, t) == Buffer(t) /\ Reads(n, done, t) /\ Chunk(w, done, t)

\* What a block that waits holds.
BlockOK(w, done, b) ==
  Waits(b) =>
    /\ blocks[b].res # OK => mtRes # OK
    /\ blocks[b].res = OK => /\ blocks[b].bufIndex # None
                             /\ content[blocks[b].bufIndex] = done + Pos(w, b) + 1
                             /\ done + Pos(w, b) + 1 <= readProcessed

\* Only an error lets a chunk be missing in the output.
LastDone(done) == IF \E t \in Threads : pc[t] = "advance" THEN done + 1 ELSE done
ReadingAt == {"read", "getBlock", "startNext"}
Progress(n, done) ==
  /\ writeRes # OK => mtRes # OK
  /\ (~stopReading \/ mtRes = OK) /\ (\A t \in Threads : pc[t] \notin ReadingAt) => readProcessed = done + n
  /\ written <= LastDone(done) /\ (mtRes = OK => written = LastDone(done))

Ring(w, n, done) ==
  /\ Slots(w, n) /\ Stack /\ Owners /\ Progress(n, done)
  /\ \A t \in Threads : ThreadOK(w, n, done, t)
  /\ \A b \in Blocks : BlockOK(w, done, b)

OutputTypes == content \in [Blocks -> Nat] /\ written \in Nat
RInv ==
  /\ IInv /\ Calm /\ Token /\ OutputTypes
  /\ session > 0 => \E w, n, done \in Nat : Ring(w, n, done)

-------------------------------------------------------------------------------
(* What the steps of a thread do to the shared state.                       *)

\* The other threads stay where they are; one may be created.
Others(t) ==
  \A u \in Threads \ {t} :
    loc'[u] = loc[u] /\ (pc'[u] = pc[u] \/ (pc[u] = "exited" /\ pc'[u] = "start"))

LEMMA WaitStart_Effects ==
  ASSUME Types, NEW t \in Threads, WaitStart(t)
  PROVE  /\ Others(t) /\ mpc' = mpc /\ session' = session /\ numBlocksMax' = numBlocksMax /\ chunks' = chunks
         /\ UNCHANGED <<readEvent, stopReading, blockIndex, readProcessed, writeRes,
                         writeIndex, ReadyBlocks, blocks, content, written,
                         blocksSemaphore, freeBlocks, mtRes>>
         /\ pc[t] = "start" /\ startEvent[t] /\ loc'[t] = loc[t]
         /\ startEvent' = [startEvent EXCEPT ![t] = FALSE] /\ stop' = stop
         /\ pc'[t] = IF stop[t] THEN "exited" ELSE "getRead"
<1>1. pc \in [Threads -> Labels] /\ loc \in [Threads -> Locals] /\ \A u \in Threads : loc[u] \in Locals
  BY DEF Types, ThreadTypes
<1>2. Others(t)
  BY <1>1 DEF WaitStart, Goto, Others
<1>3. mpc' = mpc /\ session' = session /\ numBlocksMax' = numBlocksMax /\ chunks' = chunks
  BY DEF WaitStart, main, call
<1> QED
  BY <1>1, <1>2, <1>3, SmallTypes DEF WaitStart, Goto, read, write, start, finish, output, Locals

LEMMA CountFinished_Effects ==
  ASSUME Types, NEW t \in Threads, CountFinished(t)
  PROVE  /\ Others(t) /\ mpc' = mpc /\ session' = session /\ numBlocksMax' = numBlocksMax /\ chunks' = chunks
         /\ UNCHANGED <<readEvent, stopReading, blockIndex, readProcessed, writeRes,
                         writeIndex, ReadyBlocks, blocks, content, written,
                         blocksSemaphore, freeBlocks, mtRes>>
         /\ pc[t] = "countFinished" /\ pc'[t] = "compare"
<1>1. pc \in [Threads -> Labels] /\ loc \in [Threads -> Locals] /\ \A u \in Threads : loc[u] \in Locals
  BY DEF Types, ThreadTypes
<1>2. Others(t)
  BY <1>1 DEF CountFinished, Goto, Others
<1>3. mpc' = mpc /\ session' = session /\ numBlocksMax' = numBlocksMax /\ chunks' = chunks
  BY DEF CountFinished, main, call
<1> QED
  BY <1>1, <1>2, <1>3, SmallTypes DEF CountFinished, Goto, read, write, start, finish, output, Locals

LEMMA CompareFinished_Effects ==
  ASSUME Types, NEW t \in Threads, CompareFinished(t)
  PROVE  /\ Others(t) /\ mpc' = mpc /\ session' = session /\ numBlocksMax' = numBlocksMax /\ chunks' = chunks
         /\ UNCHANGED <<readEvent, stopReading, blockIndex, readProcessed, writeRes,
                         writeIndex, ReadyBlocks, blocks, content, written,
                         blocksSemaphore, freeBlocks, mtRes>>
         /\ pc[t] = "compare" /\ pc'[t] = "start" /\ startEvent' = startEvent /\ stop' = stop
<1>1. pc \in [Threads -> Labels] /\ loc \in [Threads -> Locals] /\ \A u \in Threads : loc[u] \in Locals
  BY DEF Types, ThreadTypes
<1>2. Others(t)
  BY <1>1 DEF CompareFinished, Goto, Others
<1>3. mpc' = mpc /\ session' = session /\ numBlocksMax' = numBlocksMax /\ chunks' = chunks
  BY DEF CompareFinished, main, call
<1> QED
  BY <1>1, <1>2, <1>3, SmallTypes DEF CompareFinished, Goto, read, write, start, finish, output, Locals

LEMMA WaitRead_Effects ==
  ASSUME Types, NEW t \in Threads, WaitRead(t)
  PROVE  /\ Others(t) /\ mpc' = mpc /\ session' = session /\ numBlocksMax' = numBlocksMax /\ chunks' = chunks
         /\ UNCHANGED <<stopReading, blockIndex, readProcessed, writeRes, writeIndex,
                         ReadyBlocks, blocks, content, written, blocksSemaphore,
                         freeBlocks, mtRes>>
         /\ pc[t] = "getRead" /\ readEvent /\ readEvent' = FALSE
         /\ IF stopReading THEN pc'[t] = "passStop"
            ELSE /\ loc'[t].res = mtRes
                 /\ pc'[t] = IF mtRes = OK THEN "read" ELSE "getBlock"
<1>1. pc \in [Threads -> Labels] /\ loc \in [Threads -> Locals] /\ \A u \in Threads : loc[u] \in Locals
  BY DEF Types, ThreadTypes
<1>2. Others(t)
  BY <1>1 DEF WaitRead, Goto, Others
<1>4. ~stopReading => loc'[t].res = mtRes
  <2>1. ~stopReading => loc'[t] = [InitLoc EXCEPT !.res = mtRes, !.finished = TRUE]
    BY <1>1 DEF WaitRead
  <2> QED
    BY <2>1 DEF InitLoc
<1>3. mpc' = mpc /\ session' = session /\ numBlocksMax' = numBlocksMax /\ chunks' = chunks
  BY DEF WaitRead, main, call
<1> QED
  BY <1>1, <1>2, <1>3, <1>4 DEF WaitRead, Goto, read, write, start, finish, output, Locals, TakeRead

LEMMA PassStop_Effects ==
  ASSUME Types, NEW t \in Threads, PassStop(t)
  PROVE  /\ Others(t) /\ mpc' = mpc /\ session' = session /\ numBlocksMax' = numBlocksMax /\ chunks' = chunks
         /\ UNCHANGED <<stopReading, blockIndex, readProcessed, writeRes, writeIndex,
                         ReadyBlocks, blocks, content, written, blocksSemaphore,
                         freeBlocks, mtRes>>
         /\ pc[t] = "passStop" /\ pc'[t] = "countFinished"
<1>1. pc \in [Threads -> Labels] /\ loc \in [Threads -> Locals] /\ \A u \in Threads : loc[u] \in Locals
  BY DEF Types, ThreadTypes
<1>2. Others(t)
  BY <1>1 DEF PassStop, Goto, Others
<1>3. mpc' = mpc /\ session' = session /\ numBlocksMax' = numBlocksMax /\ chunks' = chunks
  BY DEF PassStop, main, call
<1> QED
  BY <1>1, <1>2, <1>3, SmallTypes DEF PassStop, Goto, read, write, start, finish, output, Locals, GiveRead

LEMMA ReadBlock_Effects ==
  ASSUME Types, NEW t \in Threads, ReadBlock(t)
  PROVE  /\ Others(t) /\ mpc' = mpc /\ session' = session /\ numBlocksMax' = numBlocksMax /\ chunks' = chunks
         /\ UNCHANGED <<readEvent, stopReading, blockIndex, writeRes, writeIndex,
                         ReadyBlocks, blocks, content, written, blocksSemaphore,
                         freeBlocks, mtRes>>
         /\ pc[t] = "read" /\ pc'[t] = "getBlock" /\ loc'[t].res = loc[t].res
         /\ readProcessed' = readProcessed + 1 /\ loc'[t].chunk = readProcessed + 1
<1>1. pc \in [Threads -> Labels] /\ loc \in [Threads -> Locals] /\ \A u \in Threads : loc[u] \in Locals
  BY DEF Types, ThreadTypes
<1>2. Others(t)
  BY <1>1 DEF ReadBlock, Goto, Others
<1>3. mpc' = mpc /\ session' = session /\ numBlocksMax' = numBlocksMax /\ chunks' = chunks
  BY DEF ReadBlock, main, call
<1> QED
  BY <1>1, <1>2, <1>3, SmallTypes DEF ReadBlock, Goto, read, write, start, finish, output, Locals

LEMMA ReadFails_Effects ==
  ASSUME Types, NEW t \in Threads, ReadFails(t)
  PROVE  /\ Others(t) /\ mpc' = mpc /\ session' = session /\ numBlocksMax' = numBlocksMax /\ chunks' = chunks
         /\ UNCHANGED <<readEvent, stopReading, blockIndex, readProcessed, writeRes,
                         writeIndex, ReadyBlocks, blocks, content, written,
                         blocksSemaphore, freeBlocks>>
         /\ pc[t] = "read" /\ pc'[t] = "getBlock" /\ loc'[t].res # OK
         /\ mtRes' # OK
<1>1. pc \in [Threads -> Labels] /\ loc \in [Threads -> Locals] /\ \A u \in Threads : loc[u] \in Locals
  BY DEF Types, ThreadTypes
<1>2. Others(t)
  BY <1>1 DEF ReadFails, Goto, Others
<1>3. mpc' = mpc /\ session' = session /\ numBlocksMax' = numBlocksMax /\ chunks' = chunks
  BY DEF ReadFails, main, call
<1> QED
  BY <1>1, <1>2, <1>3, SmallTypes DEF ReadFails, Goto, read, write, start, finish, output, Locals, SetError, OK

LEMMA GetBlock_Effects ==
  ASSUME Types, NEW t \in Threads, GetBlock(t)
  PROVE  /\ Others(t) /\ mpc' = mpc /\ session' = session /\ numBlocksMax' = numBlocksMax /\ chunks' = chunks
         /\ UNCHANGED <<readEvent, stopReading, readProcessed, writeRes, writeIndex,
                         ReadyBlocks, blocks, content, written, freeBlocks, mtRes>>
         /\ pc[t] = "getBlock" /\ pc'[t] = "startNext"
         /\ blocksSemaphore > 0 /\ blocksSemaphore' = blocksSemaphore - 1
         /\ blockIndex' = NextBlock(blockIndex)
         /\ loc'[t].bi = blockIndex /\ loc'[t].bufIndex = None
         /\ loc'[t].res = loc[t].res /\ loc'[t].chunk = loc[t].chunk
<1>1. pc \in [Threads -> Labels] /\ loc \in [Threads -> Locals] /\ \A u \in Threads : loc[u] \in Locals
  BY DEF Types, ThreadTypes
<1>2. Others(t)
  BY <1>1 DEF GetBlock, Goto, Others
<1>3. mpc' = mpc /\ session' = session /\ numBlocksMax' = numBlocksMax /\ chunks' = chunks
  BY DEF GetBlock, main, call
<1> QED
  BY <1>1, <1>2, <1>3, SmallTypes DEF GetBlock, Goto, read, write, start, finish, output, Locals

LEMMA StartNext_Effects ==
  ASSUME Types, Created, NEW t \in Threads, StartNext(t)
  PROVE  /\ Others(t) /\ mpc' = mpc /\ session' = session /\ numBlocksMax' = numBlocksMax /\ chunks' = chunks
         /\ UNCHANGED <<readEvent, blockIndex, readProcessed, writeRes, writeIndex,
                         ReadyBlocks, blocks, content, written, blocksSemaphore,
                         freeBlocks>>
         /\ pc[t] = "startNext" /\ pc'[t] = "passRead"
         /\ loc'[t].bi = loc[t].bi /\ loc'[t].bufIndex = loc[t].bufIndex /\ loc'[t].chunk = loc[t].chunk
         /\ loc'[t].res = OK => loc[t].res = OK
         /\ loc'[t].res # OK => mtRes' # OK \/ loc'[t].res = loc[t].res
         /\ mtRes # OK => mtRes' # OK
         /\ stopReading' \/ loc[t].res = OK
<1>1. pc \in [Threads -> Labels] /\ loc \in [Threads -> Locals] /\ \A u \in Threads : loc[u] \in Locals
  BY DEF Types, ThreadTypes
<1>2. Others(t)
  <2>1. \/ pc' = [pc EXCEPT ![t] = "passRead"]
        \/ pc' = [pc EXCEPT ![t] = "passRead",
                            ![numStartedThreads] = IF created[numStartedThreads] THEN @ ELSE "start"]
    BY DEF StartNext, Goto
  <2>2. \A u \in Threads \ {t} : loc'[u] = loc[u]
    BY <1>1 DEF StartNext
  <2>3. \A u \in Threads \ {t} : pc'[u] = pc[u] \/ (~created[u] /\ pc'[u] = "start")
    BY <1>1, <2>1
  <2> QED
    BY <2>2, <2>3 DEF Others, Created
<1>3. mpc' = mpc /\ session' = session /\ numBlocksMax' = numBlocksMax /\ chunks' = chunks
  BY DEF StartNext, main, call
<1> QED
  BY <1>1, <1>2, <1>3, SmallTypes DEF StartNext, Goto, read, write, start, finish, output, Locals, SetError, OK

LEMMA PassRead_Effects ==
  ASSUME Types, NEW t \in Threads, PassRead(t)
  PROVE  /\ Others(t) /\ mpc' = mpc /\ session' = session /\ numBlocksMax' = numBlocksMax /\ chunks' = chunks
         /\ UNCHANGED <<stopReading, blockIndex, readProcessed, writeRes, writeIndex,
                         ReadyBlocks, blocks, content, written, blocksSemaphore,
                         freeBlocks, mtRes>>
         /\ pc[t] = "passRead" /\ loc'[t] = loc[t]
         /\ pc'[t] = IF loc[t].res = OK THEN "getBuf" ELSE "publish"
<1>1. pc \in [Threads -> Labels] /\ loc \in [Threads -> Locals] /\ \A u \in Threads : loc[u] \in Locals
  BY DEF Types, ThreadTypes
<1>2. Others(t)
  BY <1>1 DEF PassRead, Goto, Others
<1>3. mpc' = mpc /\ session' = session /\ numBlocksMax' = numBlocksMax /\ chunks' = chunks
  BY DEF PassRead, main, call
<1> QED
  BY <1>1, <1>2, <1>3, SmallTypes DEF PassRead, Goto, read, write, start, finish, output, Locals, GiveRead

LEMMA GetBuf_Effects ==
  ASSUME Types, NEW t \in Threads, GetBuf(t)
  PROVE  /\ Others(t) /\ mpc' = mpc /\ session' = session /\ numBlocksMax' = numBlocksMax /\ chunks' = chunks
         /\ UNCHANGED <<readEvent, stopReading, blockIndex, readProcessed, writeRes,
                         writeIndex, ReadyBlocks, blocks, content, written,
                         blocksSemaphore, mtRes>>
         /\ pc[t] = "getBuf" /\ pc'[t] = "code"
         /\ loc'[t].bufIndex = (IF freeBlocks = <<>> THEN None ELSE Head(freeBlocks))
         /\ freeBlocks' = IF freeBlocks = <<>> THEN <<>> ELSE Tail(freeBlocks)
         /\ loc'[t].bi = loc[t].bi /\ loc'[t].chunk = loc[t].chunk /\ loc'[t].res = loc[t].res
<1>1. pc \in [Threads -> Labels] /\ loc \in [Threads -> Locals] /\ \A u \in Threads : loc[u] \in Locals
  BY DEF Types, ThreadTypes
<1>2. Others(t)
  BY <1>1 DEF GetBuf, Goto, Others
<1>3. mpc' = mpc /\ session' = session /\ numBlocksMax' = numBlocksMax /\ chunks' = chunks
  BY DEF GetBuf, main, call
<1> QED
  BY <1>1, <1>2, <1>3, SmallTypes DEF GetBuf, Goto, read, write, start, finish, output, Locals, PopFree

LEMMA Code_Effects ==
  ASSUME Types, NEW t \in Threads, Code(t)
  PROVE  /\ Others(t) /\ mpc' = mpc /\ session' = session /\ numBlocksMax' = numBlocksMax /\ chunks' = chunks
         /\ UNCHANGED <<readEvent, stopReading, blockIndex, readProcessed, writeRes,
                         writeIndex, ReadyBlocks, blocks, written, blocksSemaphore,
                         freeBlocks, mtRes>>
         /\ pc[t] = "code" /\ pc'[t] = "publish" /\ loc'[t] = loc[t]
         /\ content' = [content EXCEPT ![loc[t].bufIndex] = loc[t].chunk]
<1>1. pc \in [Threads -> Labels] /\ loc \in [Threads -> Locals] /\ \A u \in Threads : loc[u] \in Locals
  BY DEF Types, ThreadTypes
<1>2. Others(t)
  BY <1>1 DEF Code, Goto, Others
<1>3. mpc' = mpc /\ session' = session /\ numBlocksMax' = numBlocksMax /\ chunks' = chunks
  BY DEF Code, main, call
<1> QED
  BY <1>1, <1>2, <1>3, SmallTypes DEF Code, Goto, read, write, start, finish, output, Locals

LEMMA CodeFails_Effects ==
  ASSUME Types, NEW t \in Threads, CodeFails(t)
  PROVE  /\ Others(t) /\ mpc' = mpc /\ session' = session /\ numBlocksMax' = numBlocksMax /\ chunks' = chunks
         /\ UNCHANGED <<readEvent, stopReading, blockIndex, readProcessed, writeRes,
                         writeIndex, ReadyBlocks, blocks, written, blocksSemaphore,
                         freeBlocks>>
         /\ pc[t] = "code" /\ pc'[t] = "publish"
         /\ loc'[t].bi = loc[t].bi /\ loc'[t].bufIndex = loc[t].bufIndex
         /\ loc'[t].res # OK /\ mtRes' # OK
         /\ content' = [content EXCEPT ![loc[t].bufIndex] = 0]
<1>1. pc \in [Threads -> Labels] /\ loc \in [Threads -> Locals] /\ \A u \in Threads : loc[u] \in Locals
  BY DEF Types, ThreadTypes
<1>2. Others(t)
  BY <1>1 DEF CodeFails, Goto, Others
<1>3. mpc' = mpc /\ session' = session /\ numBlocksMax' = numBlocksMax /\ chunks' = chunks
  BY DEF CodeFails, main, call
<1> QED
  BY <1>1, <1>2, <1>3, SmallTypes DEF CodeFails, Goto, read, write, start, finish, output, Locals, SetError, OK

LEMMA Publish_Effects ==
  ASSUME Types, NEW t \in Threads, Publish(t)
  PROVE  /\ Others(t) /\ mpc' = mpc /\ session' = session /\ numBlocksMax' = numBlocksMax /\ chunks' = chunks
         /\ UNCHANGED <<readEvent, stopReading, blockIndex, readProcessed, writeRes,
                         content, written, blocksSemaphore, freeBlocks, mtRes>>
         /\ pc[t] = "publish"
         /\ blocks' = [blocks EXCEPT ![loc[t].bi] = [res |-> loc[t].res, bufIndex |-> loc[t].bufIndex,
                                                   finished |-> loc[t].finished]]
         /\ IF writeIndex = loc[t].bi
            THEN /\ pc'[t] = "write" /\ writeIndex' = None /\ ReadyBlocks' = ReadyBlocks
                 /\ loc'[t].bi = loc[t].bi /\ loc'[t].bufIndex = loc[t].bufIndex
                 /\ loc'[t].res = (IF writeRes # OK THEN writeRes ELSE loc[t].res)
            ELSE /\ pc'[t] \in {"getRead", "countFinished"} /\ writeIndex' = writeIndex
                 /\ ReadyBlocks' = [ReadyBlocks EXCEPT ![loc[t].bi] = TRUE]
<1>1. pc \in [Threads -> Labels] /\ loc \in [Threads -> Locals] /\ \A u \in Threads : loc[u] \in Locals
  BY DEF Types, ThreadTypes
<1>2. Others(t)
  BY <1>1 DEF Publish, Goto, Others, EndBlock
<1>3. mpc' = mpc /\ session' = session /\ numBlocksMax' = numBlocksMax /\ chunks' = chunks
  BY DEF Publish, main, call
<1> QED
  BY <1>1, <1>2, <1>3, SmallTypes DEF Publish, Goto, read, write, start, finish, output, Locals, TakeTurn, EndBlock, InitLoc

LEMMA Write_Effects ==
  ASSUME Types, NEW t \in Threads, Write(t)
  PROVE  /\ Others(t) /\ mpc' = mpc /\ session' = session /\ numBlocksMax' = numBlocksMax /\ chunks' = chunks
         /\ UNCHANGED <<readEvent, stopReading, blockIndex, readProcessed, writeIndex,
                         ReadyBlocks, blocks, content, blocksSemaphore, freeBlocks>>
         /\ pc[t] = "write" /\ pc'[t] = "advance"
         /\ loc'[t].bi = loc[t].bi /\ loc'[t].bufIndex = loc[t].bufIndex
         /\ loc'[t].res # OK => loc[t].res # OK \/ mtRes' # OK
         /\ mtRes # OK => mtRes' # OK
         /\ writeRes' # OK => writeRes # OK \/ mtRes' # OK
         /\ \/ loc[t].res = OK /\ loc[t].bufIndex # None /\ written' = content[loc[t].bufIndex]
            \/ mtRes' # OK /\ written' = written
            \/ (loc[t].res # OK \/ loc[t].bufIndex = None) /\ written' = written
<1>1. pc \in [Threads -> Labels] /\ loc \in [Threads -> Locals] /\ \A u \in Threads : loc[u] \in Locals
  BY DEF Types, ThreadTypes
<1>2. Others(t)
  BY <1>1 DEF Write, Goto, Others
<1>3. mpc' = mpc /\ session' = session /\ numBlocksMax' = numBlocksMax /\ chunks' = chunks
  BY DEF Write, main, call
<1> QED
  BY <1>1, <1>2, <1>3, SmallTypes DEF Write, Goto, read, write, start, finish, output, Locals, SetError, OK

LEMMA Advance_Effects ==
  ASSUME Types, NEW t \in Threads, Advance(t)
  PROVE  /\ Others(t) /\ mpc' = mpc /\ session' = session /\ numBlocksMax' = numBlocksMax /\ chunks' = chunks
         /\ UNCHANGED <<readEvent, stopReading, blockIndex, readProcessed, writeRes,
                         blocks, content, written, blocksSemaphore, mtRes>>
         /\ pc[t] = "advance" /\ pc'[t] = "releaseBlock"
         /\ freeBlocks' = (IF loc[t].bufIndex = None THEN freeBlocks ELSE <<loc[t].bufIndex>> \o freeBlocks)
         /\ loc'[t].bi = NextBlock(loc[t].bi) /\ loc'[t].res = loc[t].res
         /\ loc'[t].isReady <=> ReadyBlocks[NextBlock(loc[t].bi)]
         /\ IF ReadyBlocks[NextBlock(loc[t].bi)]
            THEN ReadyBlocks' = [ReadyBlocks EXCEPT ![NextBlock(loc[t].bi)] = FALSE] /\ writeIndex' = writeIndex
            ELSE writeIndex' = NextBlock(loc[t].bi) /\ ReadyBlocks' = ReadyBlocks
<1>1. pc \in [Threads -> Labels] /\ loc \in [Threads -> Locals] /\ \A u \in Threads : loc[u] \in Locals
  BY DEF Types, ThreadTypes
<1>2. Others(t)
  BY <1>1 DEF Advance, Goto, Others
<1>3. mpc' = mpc /\ session' = session /\ numBlocksMax' = numBlocksMax /\ chunks' = chunks
  BY DEF Advance, main, call
<1> QED
  BY <1>1, <1>2, <1>3, SmallTypes DEF Advance, Goto, read, write, start, finish, output, Locals, PushFree, TakeReadyFlag

LEMMA ReleaseBlock_Effects ==
  ASSUME Types, NEW t \in Threads, ReleaseBlock(t)
  PROVE  /\ Others(t) /\ mpc' = mpc /\ session' = session /\ numBlocksMax' = numBlocksMax /\ chunks' = chunks
         /\ UNCHANGED <<readEvent, stopReading, blockIndex, readProcessed, writeRes,
                         writeIndex, ReadyBlocks, blocks, content, written, freeBlocks,
                         mtRes>>
         /\ pc[t] = "releaseBlock" /\ blocksSemaphore' = blocksSemaphore + 1
         /\ IF loc[t].isReady THEN pc'[t] = "takeReady" /\ loc'[t] = loc[t]
            ELSE pc'[t] \in {"getRead", "countFinished"}
<1>1. pc \in [Threads -> Labels] /\ loc \in [Threads -> Locals] /\ \A u \in Threads : loc[u] \in Locals
  BY DEF Types, ThreadTypes
<1>2. Others(t)
  BY <1>1 DEF ReleaseBlock, Goto, Others, EndBlock
<1>3. mpc' = mpc /\ session' = session /\ numBlocksMax' = numBlocksMax /\ chunks' = chunks
  BY DEF ReleaseBlock, main, call
<1> QED
  BY <1>1, <1>2, <1>3, SmallTypes DEF ReleaseBlock, Goto, read, write, start, finish, output, Locals, EndBlock, InitLoc

LEMMA TakeReady_Effects ==
  ASSUME Types, NEW t \in Threads, TakeReady(t)
  PROVE  /\ Others(t) /\ mpc' = mpc /\ session' = session /\ numBlocksMax' = numBlocksMax /\ chunks' = chunks
         /\ UNCHANGED <<readEvent, stopReading, blockIndex, readProcessed, writeRes,
                         writeIndex, ReadyBlocks, blocks, content, written,
                         blocksSemaphore, freeBlocks, mtRes>>
         /\ pc[t] = "takeReady" /\ pc'[t] = "write" /\ loc'[t].bi = loc[t].bi
         /\ loc'[t].res = (IF loc[t].res = OK THEN blocks[loc[t].bi].res ELSE loc[t].res)
         /\ loc'[t].bufIndex = blocks[loc[t].bi].bufIndex
<1>1. pc \in [Threads -> Labels] /\ loc \in [Threads -> Locals] /\ \A u \in Threads : loc[u] \in Locals
  BY DEF Types, ThreadTypes
<1>2. Others(t)
  BY <1>1 DEF TakeReady, Goto, Others
<1>3. mpc' = mpc /\ session' = session /\ numBlocksMax' = numBlocksMax /\ chunks' = chunks
  BY DEF TakeReady, main, call
<1> QED
  BY <1>1, <1>2, <1>3, SmallTypes DEF TakeReady, Goto, read, write, start, finish, output, Locals

-------------------------------------------------------------------------------
(* Outside Code, and the readEvent token.                                   *)

\* Who is inside is in a call.
LEMMA InsideCall ==
  ASSUME Calm, NEW t \in Threads, pc[t] \in Inside, session \in Nat
  PROVE  mpc \in {"go", "wait"} /\ session > 0
BY DEF Calm

LEMMA CalmThread ==
  ASSUME IInv, Calm, NEW t \in Threads, ThreadStep(t)
  PROVE  Calm'
<1>1. Types /\ Created /\ session \in Nat
  BY PlanTypes DEF IInv, Types, MainTypes
<1>2. CASE WaitStart(t)
  BY <1>2, <1>1, WaitStart_Effects DEF Calm, Others, Inside, Types, ThreadTypes
<1>3. CASE CountFinished(t)
  <2>1. mpc \in {"go", "wait"} /\ session > 0
    BY <1>3, <1>1, CountFinished_Effects, InsideCall DEF Inside, Labels
  <2> QED
    BY <1>3, <1>1, <2>1, CountFinished_Effects DEF Calm
<1>4. CASE CompareFinished(t)
  BY <1>4, <1>1, CompareFinished_Effects DEF Calm, Others, Inside, Types, ThreadTypes
<1>5. CASE WaitRead(t)
  <2>1. mpc \in {"go", "wait"} /\ session > 0
    BY <1>5, <1>1, WaitRead_Effects, InsideCall DEF Inside, Labels
  <2> QED
    BY <1>5, <1>1, <2>1, WaitRead_Effects DEF Calm
<1>6. CASE PassStop(t)
  <2>1. mpc \in {"go", "wait"} /\ session > 0
    BY <1>6, <1>1, PassStop_Effects, InsideCall DEF Inside, Labels
  <2> QED
    BY <1>6, <1>1, <2>1, PassStop_Effects DEF Calm
<1>7. CASE ReadBlock(t)
  <2>1. mpc \in {"go", "wait"} /\ session > 0
    BY <1>7, <1>1, ReadBlock_Effects, InsideCall DEF Inside, Labels
  <2> QED
    BY <1>7, <1>1, <2>1, ReadBlock_Effects DEF Calm
<1>8. CASE ReadFails(t)
  <2>1. mpc \in {"go", "wait"} /\ session > 0
    BY <1>8, <1>1, ReadFails_Effects, InsideCall DEF Inside, Labels
  <2> QED
    BY <1>8, <1>1, <2>1, ReadFails_Effects DEF Calm
<1>9. CASE GetBlock(t)
  <2>1. mpc \in {"go", "wait"} /\ session > 0
    BY <1>9, <1>1, GetBlock_Effects, InsideCall DEF Inside, Labels
  <2> QED
    BY <1>9, <1>1, <2>1, GetBlock_Effects DEF Calm
<1>10. CASE StartNext(t)
  <2>1. mpc \in {"go", "wait"} /\ session > 0
    BY <1>10, <1>1, StartNext_Effects, InsideCall DEF Inside, Labels
  <2> QED
    BY <1>10, <1>1, <2>1, StartNext_Effects DEF Calm
<1>11. CASE PassRead(t)
  <2>1. mpc \in {"go", "wait"} /\ session > 0
    BY <1>11, <1>1, PassRead_Effects, InsideCall DEF Inside, Labels
  <2> QED
    BY <1>11, <1>1, <2>1, PassRead_Effects DEF Calm
<1>12. CASE GetBuf(t)
  <2>1. mpc \in {"go", "wait"} /\ session > 0
    BY <1>12, <1>1, GetBuf_Effects, InsideCall DEF Inside, Labels
  <2> QED
    BY <1>12, <1>1, <2>1, GetBuf_Effects DEF Calm
<1>13. CASE Code(t)
  <2>1. mpc \in {"go", "wait"} /\ session > 0
    BY <1>13, <1>1, Code_Effects, InsideCall DEF Inside, Labels
  <2> QED
    BY <1>13, <1>1, <2>1, Code_Effects DEF Calm
<1>14. CASE CodeFails(t)
  <2>1. mpc \in {"go", "wait"} /\ session > 0
    BY <1>14, <1>1, CodeFails_Effects, InsideCall DEF Inside, Labels
  <2> QED
    BY <1>14, <1>1, <2>1, CodeFails_Effects DEF Calm
<1>15. CASE Publish(t)
  <2>1. mpc \in {"go", "wait"} /\ session > 0
    BY <1>15, <1>1, Publish_Effects, InsideCall DEF Inside, Labels
  <2> QED
    BY <1>15, <1>1, <2>1, Publish_Effects DEF Calm
<1>16. CASE Write(t)
  <2>1. mpc \in {"go", "wait"} /\ session > 0
    BY <1>16, <1>1, Write_Effects, InsideCall DEF Inside, Labels
  <2> QED
    BY <1>16, <1>1, <2>1, Write_Effects DEF Calm
<1>17. CASE Advance(t)
  <2>1. mpc \in {"go", "wait"} /\ session > 0
    BY <1>17, <1>1, Advance_Effects, InsideCall DEF Inside, Labels
  <2> QED
    BY <1>17, <1>1, <2>1, Advance_Effects DEF Calm
<1>18. CASE ReleaseBlock(t)
  <2>1. mpc \in {"go", "wait"} /\ session > 0
    BY <1>18, <1>1, ReleaseBlock_Effects, InsideCall DEF Inside, Labels
  <2> QED
    BY <1>18, <1>1, <2>1, ReleaseBlock_Effects DEF Calm
<1>19. CASE TakeReady(t)
  <2>1. mpc \in {"go", "wait"} /\ session > 0
    BY <1>19, <1>1, TakeReady_Effects, InsideCall DEF Inside, Labels
  <2> QED
    BY <1>19, <1>1, <2>1, TakeReady_Effects DEF Calm
<1> QED
  BY <1>2, <1>3, <1>4, <1>5, <1>6, <1>7, <1>8, <1>9, <1>10, <1>11, <1>12, <1>13, <1>14, <1>15, <1>16, <1>17, <1>18, <1>19
     DEF ThreadStep

LEMMA TokenThread ==
  ASSUME IInv, Token, NEW t \in Threads, ThreadStep(t)
  PROVE  Token'
<1>1. Types /\ Created
  BY DEF IInv
<1>2. CASE WaitStart(t)
  BY <1>2, <1>1, WaitStart_Effects DEF Token, Others, ReaderAt
<1>3. CASE CountFinished(t)
  BY <1>3, <1>1, CountFinished_Effects DEF Token, Others, ReaderAt
<1>4. CASE CompareFinished(t)
  BY <1>4, <1>1, CompareFinished_Effects DEF Token, Others, ReaderAt
<1>5. CASE WaitRead(t)
  BY <1>5, <1>1, WaitRead_Effects DEF Token, Others, ReaderAt
<1>6. CASE PassStop(t)
  BY <1>6, <1>1, PassStop_Effects DEF Token, Others, ReaderAt
<1>7. CASE ReadBlock(t)
  BY <1>7, <1>1, ReadBlock_Effects DEF Token, Others, ReaderAt
<1>8. CASE ReadFails(t)
  BY <1>8, <1>1, ReadFails_Effects DEF Token, Others, ReaderAt
<1>9. CASE GetBlock(t)
  BY <1>9, <1>1, GetBlock_Effects DEF Token, Others, ReaderAt
<1>10. CASE StartNext(t)
  BY <1>10, <1>1, StartNext_Effects DEF Token, Others, ReaderAt
<1>11. CASE PassRead(t)
  BY <1>11, <1>1, PassRead_Effects DEF Token, Others, ReaderAt
<1>12. CASE GetBuf(t)
  BY <1>12, <1>1, GetBuf_Effects DEF Token, Others, ReaderAt
<1>13. CASE Code(t)
  BY <1>13, <1>1, Code_Effects DEF Token, Others, ReaderAt
<1>14. CASE CodeFails(t)
  BY <1>14, <1>1, CodeFails_Effects DEF Token, Others, ReaderAt
<1>15. CASE Publish(t)
  BY <1>15, <1>1, Publish_Effects DEF Token, Others, ReaderAt
<1>16. CASE Write(t)
  BY <1>16, <1>1, Write_Effects DEF Token, Others, ReaderAt
<1>17. CASE Advance(t)
  <2>1. Others(t) /\ pc[t] = "advance" /\ pc'[t] = "releaseBlock" /\ readEvent' = readEvent /\ mpc' = mpc
    BY <1>17, <1>1, Advance_Effects
  <2> QED
    BY <2>1, <1>1 DEF Token, Others, ReaderAt
<1>18. CASE ReleaseBlock(t)
  BY <1>18, <1>1, ReleaseBlock_Effects DEF Token, Others, ReaderAt
<1>19. CASE TakeReady(t)
  BY <1>19, <1>1, TakeReady_Effects DEF Token, Others, ReaderAt
<1> QED
  BY <1>2, <1>3, <1>4, <1>5, <1>6, <1>7, <1>8, <1>9, <1>10, <1>11, <1>12, <1>13, <1>14, <1>15, <1>16, <1>17, <1>18, <1>19
     DEF ThreadStep

-------------------------------------------------------------------------------
(* The slots of the ring.                                                   *)

\* The interval of the blocks in use after a step of t: GetBlock makes it longer, and
\* Advance moves its start.
Moves(t, w, n, done, w1, n1, done1) ==
  /\ w1 = IF pc[t] = "advance" THEN NextBlock(w) ELSE w
  /\ n1 = IF pc[t] = "advance" THEN n - 1 ELSE IF pc[t] = "getBlock" THEN n + 1 ELSE n
  /\ done1 = IF pc[t] = "advance" THEN done + 1 ELSE done

LEMMA RingTypesFacts ==
  ASSUME Types
  PROVE  /\ N \in Nat /\ MaxBlocks \in Nat /\ N <= MaxBlocks /\ None = -1
         /\ \A t \in Threads : loc[t].bi \in Nat /\ loc[t].bi \in Blocks
         /\ \A b \in Blocks : b \in Nat /\ b < MaxBlocks
         /\ \A b \in Nat : b < N => b \in Blocks
BY CoderAssumption DEF Types, MainTypes, ThreadTypes, Locals, Blocks, N, None

LEMMA ReleasingFinite == IsFiniteSet(Releasing) /\ Cardinality(Releasing) \in Nat
<1>1. IsFiniteSet(Threads)
  BY CoderAssumption, FS_Interval, 0 \in Int, MaxThreads - 1 \in Int DEF Threads
<1> QED
  BY <1>1, FS_Subset, FS_CardinalityType DEF Releasing

LEMMA SlotsAside ==
  ASSUME NEW w \in Nat, NEW n \in Nat, Slots(w, n), NEW t \in Threads, Others(t),
         UNCHANGED <<numBlocksMax, blockIndex, blocksSemaphore, writeIndex, ReadyBlocks>>,
         Holds(t)' <=> Holds(t), HasTurn(t)' <=> HasTurn(t), Holds(t) => loc'[t].bi = loc[t].bi,
         pc'[t] = "releaseBlock" <=> pc[t] = "releaseBlock"
  PROVE  Slots(w, n)'
<1>1. \A u \in Threads : /\ Holds(u)' <=> Holds(u)
                         /\ HasTurn(u)' <=> HasTurn(u)
                         /\ Holds(u) => loc'[u].bi = loc[u].bi
  BY DEF Others, Holds, HasTurn, HoldAt
<1>2. Releasing' = Releasing
  BY DEF Others, Releasing
<1>3. \A u \in Threads : HasTurn(u) => Holds(u)
  BY DEF Holds
<1>4. \A b \in Blocks : InUse(w, n, b)' <=> InUse(w, n, b)
  BY DEF InUse, Pos, N
<1>5. \A u \in Threads : Holds(u)' => InUse(w, n, loc[u].bi)'
  BY <1>1 DEF Slots, InUse, Pos, N
<1> QED
  BY <1>1, <1>2, <1>3, <1>4, <1>5 DEF Slots, N

\* The reader takes the slot after the last one in use.
LEMMA GetBlock_Slots ==
  ASSUME Types, NEW w \in Nat, NEW n \in Nat, Slots(w, n), NEW t \in Threads, GetBlock(t)
  PROVE  n + 1 <= N /\ Slots(w, n + 1)'
<1>1. /\ N \in Nat /\ w < N /\ n <= N /\ blockIndex \in Nat /\ blockIndex < N
      /\ \A u \in Threads : loc[u].bi \in Nat
      /\ \A b \in Blocks : b \in Nat
  BY RingTypesFacts DEF Slots
<1>2. n < N /\ blocksSemaphore' \in Nat /\ blocksSemaphore' + (n + 1) + Cardinality(Releasing) = N
  BY <1>1, ReleasingFinite, GetBlock_Effects DEF Slots
<1>3. Releasing' = Releasing /\ numBlocksMax' = numBlocksMax /\ ReadyBlocks' = ReadyBlocks /\ writeIndex' = writeIndex
  BY GetBlock_Effects DEF Others, Releasing
<1>4. /\ ~Holds(t) /\ Holds(t)' /\ ~HasTurn(t) /\ ~HasTurn(t)' /\ loc'[t].bi = blockIndex
      /\ \A u \in Threads \ {t} : /\ Holds(u)' <=> Holds(u)
                                  /\ HasTurn(u)' <=> HasTurn(u)
                                  /\ loc'[u].bi = loc[u].bi
  BY GetBlock_Effects DEF Others, Holds, HasTurn, HoldAt
<1>5. \A b \in Nat : InUse(w, n + 1, b)' <=> InUse(w, n, b) \/ b = blockIndex
  BY <1>1, <1>2, <1>3 DEF InUse, Pos, N, Slots
<1>6. ~InUse(w, n, blockIndex)
  BY <1>1, <1>2 DEF InUse, Pos, N, Slots
<1>7. blockIndex' = IF w + (n + 1) < N THEN w + (n + 1) ELSE w + (n + 1) - N
  BY <1>1, <1>2, GetBlock_Effects DEF NextBlock, N, Slots
<1>8. \A u \in Threads : Holds(u) => loc[u].bi # blockIndex
  BY <1>6 DEF Slots
<1>9. ~ReadyBlocks[blockIndex]
  BY <1>6, RingTypesFacts, <1>1 DEF Slots
<1>10. \A u, v \in Threads : Holds(u)' /\ Holds(v)' /\ loc'[u].bi = loc'[v].bi => u = v
  BY <1>4, <1>8 DEF Slots
<1>11. \A u \in Threads : Holds(u)' => InUse(w, n + 1, loc[u].bi)' /\ ~ReadyBlocks'[loc'[u].bi]
  BY <1>1, <1>3, <1>4, <1>5, <1>9 DEF Slots
<1>12. \A b \in Blocks : InUse(w, n + 1, b)' =>
         ReadyBlocks'[b] \/ \E u \in Threads : Holds(u)' /\ loc'[u].bi = b
  <2> SUFFICES ASSUME NEW b \in Blocks, InUse(w, n + 1, b)', ~ReadyBlocks[b]
               PROVE  \E u \in Threads : Holds(u)' /\ loc'[u].bi = b
    BY <1>3
  <2>1. CASE b = blockIndex
    BY <1>4, <2>1
  <2>2. CASE b # blockIndex
    <3>1. PICK u \in Threads : Holds(u) /\ loc[u].bi = b
      BY <1>1, <1>5, <2>2 DEF Slots
    <3> QED
      BY <1>4, <3>1
  <2> QED
    BY <2>1, <2>2
<1>13. \A b \in Blocks : ReadyBlocks'[b] => InUse(w, n + 1, b)'
  BY <1>1, <1>3, <1>5 DEF Slots
<1>14. \A u \in Threads : HasTurn(u)' => loc'[u].bi = w
  BY <1>4 DEF Slots
<1>15. w \in 0 .. N' - 1 /\ n + 1 \in 0 .. N' /\ writeIndex' \in {None, w} /\ N' = N
  BY <1>1, <1>2, <1>3 DEF N, Slots
<1> QED
  BY <1>2, <1>3, <1>7, <1>10, <1>11, <1>12, <1>13, <1>14, <1>15 DEF Slots

\* The block goes from its thread to the ready ones, or its turn has come.
LEMMA Publish_Slots ==
  ASSUME Types, NEW w \in Nat, NEW n \in Nat, Slots(w, n), NEW t \in Threads, Publish(t)
  PROVE  Slots(w, n)'
<1>1. /\ Holds(t) /\ ~HasTurn(t) /\ Releasing' = Releasing /\ numBlocksMax' = numBlocksMax
      /\ blocksSemaphore' = blocksSemaphore /\ blockIndex' = blockIndex
      /\ \A u \in Threads \ {t} : /\ Holds(u)' <=> Holds(u)
                                  /\ HasTurn(u)' <=> HasTurn(u)
                                  /\ loc'[u].bi = loc[u].bi
  BY Publish_Effects DEF Others, Holds, HasTurn, HoldAt, Releasing
<1>2. /\ \A b : InUse(w, n, b)' <=> InUse(w, n, b)
      /\ loc[t].bi \in Blocks /\ loc[t].bi # None /\ ReadyBlocks \in [Blocks -> BOOLEAN] /\ w # None
  BY <1>1, RingTypesFacts, SmallTypes DEF InUse, Pos, N, Types, RingTypes
<1>3. CASE writeIndex = loc[t].bi
  <2>1. /\ Holds(t)' /\ loc'[t].bi = loc[t].bi /\ loc[t].bi = w /\ ReadyBlocks' = ReadyBlocks
        /\ writeIndex' = None
    BY <1>2, <1>3, Publish_Effects DEF Holds, HasTurn, Slots
  <2>2. \A u \in Threads : (Holds(u)' <=> Holds(u)) /\ loc'[u].bi = loc[u].bi
    BY <1>1, <2>1
  <2>3. \A u \in Threads : HasTurn(u)' => loc'[u].bi = w
    BY <1>1, <2>1 DEF Slots
  <2> QED
    BY <1>1, <1>2, <2>1, <2>2, <2>3 DEF Slots, N
<1>4. CASE writeIndex # loc[t].bi
  <2>1. /\ ~Holds(t)' /\ ~HasTurn(t)' /\ writeIndex' = writeIndex
        /\ ReadyBlocks' = [ReadyBlocks EXCEPT ![loc[t].bi] = TRUE]
    BY <1>4, Publish_Effects DEF Holds, HasTurn, HoldAt
  <2>2. \A b \in Blocks : ReadyBlocks'[b] <=> ReadyBlocks[b] \/ b = loc[t].bi
    BY <1>2, <2>1
  <2>3. \A u \in Threads : Holds(u)' =>
          /\ u # t /\ Holds(u) /\ loc'[u].bi = loc[u].bi /\ loc[u].bi # loc[t].bi
          /\ ~ReadyBlocks'[loc[u].bi]
    BY <1>1, <1>2, <2>1, <2>2, RingTypesFacts DEF Slots
  <2>4. \A b \in Blocks : ReadyBlocks'[b] => InUse(w, n, b)'
    BY <1>1, <1>2, <2>2 DEF Slots
  <2>5. \A b \in Blocks : InUse(w, n, b)' =>
          ReadyBlocks'[b] \/ \E u \in Threads : Holds(u)' /\ loc'[u].bi = b
    <3> SUFFICES ASSUME NEW b \in Blocks, InUse(w, n, b)', ~ReadyBlocks'[b]
                 PROVE  \E u \in Threads : Holds(u)' /\ loc'[u].bi = b
      OBVIOUS
    <3>1. PICK u \in Threads : Holds(u) /\ loc[u].bi = b
      BY <1>2, <2>2 DEF Slots
    <3> QED
      BY <1>1, <2>2, <3>1
  <2>6. \A u \in Threads : HasTurn(u)' => loc'[u].bi = w
    BY <1>1, <2>1 DEF Slots
  <2>7. writeIndex # None => w \in Blocks /\ ~ReadyBlocks'[w]
    BY <1>2, <1>4, <2>2, RingTypesFacts DEF Slots
  <2> QED
    BY <1>1, <1>2, <2>1, <2>3, <2>4, <2>5, <2>6, <2>7 DEF Slots, N
<1> QED
  BY <1>3, <1>4

\* The slot w is left; the turn goes to the next one.
LEMMA Advance_Slots ==
  ASSUME Types, Turn, NEW w \in Nat, NEW n \in Nat, Slots(w, n), NEW t \in Threads, Advance(t),
         NEW w1 \in Nat, w1 = NextBlock(w)
  PROVE  n > 0 /\ loc[t].bi = w /\ Slots(w1, n - 1)'
<1>1. /\ N \in Nat /\ w < N /\ n <= N /\ \A u \in Threads : loc[u].bi \in Nat /\ loc[u].bi \in Blocks
      /\ \A b \in Blocks : b \in Nat
      /\ ReadyBlocks \in [Blocks -> BOOLEAN] /\ None = -1
  BY RingTypesFacts DEF Slots, Types, RingTypes
<1>2. HasTurn(t) /\ Holds(t) /\ loc[t].bi = w /\ InUse(w, n, w) /\ n > 0
  <2>1. HasTurn(t) /\ Holds(t)
    BY Advance_Effects DEF HasTurn, Holds
  <2>2. loc[t].bi = w /\ InUse(w, n, w)
    BY <2>1 DEF Slots
  <2> QED
    BY <1>1, <2>1, <2>2 DEF InUse, Pos, N
<1>3. /\ w1 \in Blocks /\ w1 < N
      /\ numBlocksMax' = numBlocksMax /\ blockIndex' = blockIndex /\ blocksSemaphore' = blocksSemaphore
  <2>1. w1 < N
    BY <1>1 DEF NextBlock, N
  <2>2. w1 \in Blocks
    BY <2>1, RingTypesFacts
  <2> QED
    BY <2>1, <2>2, Advance_Effects
<1>4. \A b \in Nat : InUse(w1, n - 1, b)' <=> InUse(w, n, b) /\ b # w
  BY <1>1, <1>2, <1>3 DEF InUse, Pos, N, NextBlock
<1>5. blockIndex' = IF w1 + (n - 1) < N THEN w1 + (n - 1) ELSE w1 + (n - 1) - N
  BY <1>1, <1>2, <1>3 DEF NextBlock, N, Slots
<1>6. Releasing' = Releasing \cup {t} /\ t \notin Releasing
  <2>1. Others(t) /\ pc[t] = "advance" /\ pc'[t] = "releaseBlock"
    BY Advance_Effects
  <2> QED
    BY <2>1 DEF Others, Releasing
<1>7. Cardinality(Releasing') = Cardinality(Releasing) + 1 /\ Cardinality(Releasing) \in Nat
  BY <1>6, ReleasingFinite, FS_AddElement
<1>8. blocksSemaphore' \in Nat /\ blocksSemaphore' + (n - 1) + Cardinality(Releasing') = N
  BY <1>1, <1>3, <1>7 DEF Slots
<1>9. \A u \in Threads \ {t} : /\ Holds(u)' <=> Holds(u)
                               /\ ~HasTurn(u) /\ ~HasTurn(u)'
                               /\ loc'[u].bi = loc[u].bi
                               /\ Holds(u) => loc[u].bi # w
  <2> SUFFICES ASSUME NEW u \in Threads \ {t}
               PROVE  /\ Holds(u)' <=> Holds(u)
                      /\ ~HasTurn(u) /\ ~HasTurn(u)'
                      /\ loc'[u].bi = loc[u].bi
                      /\ Holds(u) => loc[u].bi # w
    OBVIOUS
  <2>1. /\ loc'[u] = loc[u]
        /\ pc'[u] = pc[u] \/ (pc[u] = "exited" /\ pc'[u] = "start")
    BY Advance_Effects DEF Others
  <2>2. ~HasTurn(u)
    BY <1>2 DEF Turn
  <2>3. (Holds(u)' <=> Holds(u)) /\ ~HasTurn(u)'
    BY <2>1, <2>2 DEF Holds, HasTurn, HoldAt
  <2>4. Holds(u) => loc[u].bi # w
    BY <1>2 DEF Slots
  <2> QED
    BY <2>1, <2>2, <2>3, <2>4
<1>10. /\ loc'[t].bi = w1 /\ (Holds(t)' <=> HasTurn(t)') /\ (HasTurn(t)' <=> ReadyBlocks[w1])
       /\ writeIndex = None
  BY <1>2, Advance_Effects DEF Holds, HasTurn, HoldAt, Turn
<1>11. \A b \in Blocks : ReadyBlocks'[b] <=> ReadyBlocks[b] /\ b # w1
  <2>1. CASE ReadyBlocks[w1]
    <3>1. ReadyBlocks' = [ReadyBlocks EXCEPT ![w1] = FALSE]
      BY <1>2, <2>1, Advance_Effects
    <3> QED
      BY <1>1, <1>3, <3>1
  <2>2. CASE ~ReadyBlocks[w1]
    BY <1>2, <2>2, Advance_Effects
  <2> QED
    BY <2>1, <2>2
<1>12. writeIndex' \in {None, w1} /\ (writeIndex' # None => ~ReadyBlocks'[w1])
  BY <1>2, <1>3, <1>10, <1>11, Advance_Effects
<1>13. ~ReadyBlocks[w]
  BY <1>2 DEF Slots
<1>14. ReadyBlocks[w1] => InUse(w, n, w1) /\ w1 # w
  BY <1>3, <1>13 DEF Slots
<1>15. \A u, v \in Threads : Holds(u)' /\ Holds(v)' /\ loc'[u].bi = loc'[v].bi => u = v
  <2>1. \A u \in Threads \ {t} : Holds(u)' /\ ReadyBlocks[w1] => loc'[u].bi # w1
    BY <1>9 DEF Slots
  <2> QED
    BY <1>9, <1>10, <2>1 DEF Slots
<1>16. \A u \in Threads : Holds(u)' => InUse(w1, n - 1, loc[u].bi)' /\ ~ReadyBlocks'[loc'[u].bi]
  <2> SUFFICES ASSUME NEW u \in Threads, Holds(u)'
               PROVE  InUse(w1, n - 1, loc[u].bi)' /\ ~ReadyBlocks'[loc'[u].bi]
    OBVIOUS
  <2>1. CASE u = t
    BY <1>3, <1>4, <1>10, <1>11, <1>14, <2>1
  <2>2. CASE u # t
    BY <1>1, <1>4, <1>9, <1>11, <2>2 DEF Slots
  <2> QED
    BY <2>1, <2>2
<1>17. \A b \in Blocks : ReadyBlocks'[b] => InUse(w1, n - 1, b)'
  BY <1>1, <1>4, <1>11, <1>13 DEF Slots
<1>18. \A b \in Blocks : InUse(w1, n - 1, b)' =>
         ReadyBlocks'[b] \/ \E u \in Threads : Holds(u)' /\ loc'[u].bi = b
  <2> SUFFICES ASSUME NEW b \in Blocks, InUse(w1, n - 1, b)', ~ReadyBlocks'[b]
               PROVE  \E u \in Threads : Holds(u)' /\ loc'[u].bi = b
    OBVIOUS
  <2>1. InUse(w, n, b) /\ b # w
    BY <1>1, <1>4
  <2>2. CASE ReadyBlocks[b]
    BY <1>10, <1>11, <2>2
  <2>3. CASE ~ReadyBlocks[b]
    <3>1. PICK u \in Threads : Holds(u) /\ loc[u].bi = b
      BY <2>1, <2>3 DEF Slots
    <3> QED
      BY <1>2, <1>9, <2>1, <3>1
  <2> QED
    BY <2>2, <2>3
<1>19. \A u \in Threads : HasTurn(u)' => loc'[u].bi = w1
  BY <1>9, <1>10
<1>20. w1 \in 0 .. N' - 1 /\ n - 1 \in 0 .. N' /\ N' = N
  BY <1>1, <1>2, <1>3 DEF N
<1>21. Slots(w1, n - 1)'
  BY <1>5, <1>8, <1>12, <1>15, <1>16, <1>17, <1>18, <1>19, <1>20 DEF Slots
<1> QED
  BY <1>2, <1>3, <1>21

LEMMA ReleaseBlock_Slots ==
  ASSUME Types, NEW w \in Nat, NEW n \in Nat, Slots(w, n), NEW t \in Threads, ReleaseBlock(t)
  PROVE  Slots(w, n)'
<1>1. \A u \in Threads : /\ Holds(u)' <=> Holds(u)
                         /\ HasTurn(u)' <=> HasTurn(u)
                         /\ Holds(u) => loc'[u].bi = loc[u].bi
                         /\ HasTurn(u) => Holds(u)
  BY ReleaseBlock_Effects DEF Others, Holds, HasTurn, HoldAt
<1>2. Releasing' = Releasing \ {t} /\ t \in Releasing /\ numBlocksMax' = numBlocksMax
  BY ReleaseBlock_Effects DEF Others, Releasing
<1>3. Cardinality(Releasing') = Cardinality(Releasing) - 1 /\ Cardinality(Releasing) \in Nat
  BY <1>2, ReleasingFinite, FS_RemoveElement
<1>4. blocksSemaphore' \in Nat /\ blocksSemaphore' + n + Cardinality(Releasing') = N
  BY <1>3, ReleaseBlock_Effects DEF Slots
<1>5. \A b : InUse(w, n, b)' <=> InUse(w, n, b)
  BY <1>2 DEF InUse, Pos, N
<1> QED
  BY <1>1, <1>2, <1>4, <1>5, ReleaseBlock_Effects DEF Slots, N

-------------------------------------------------------------------------------
(* What a step of t leaves alone.                                           *)

LEMMA MemKept ==
  ASSUME Stack, Owners, NEW t \in Threads, Others(t),
         UNCHANGED <<numBlocksMax, freeBlocks, blocks, ReadyBlocks>>,
         Takes(t)' <=> Takes(t), Takes(t) => loc'[t].bi = loc[t].bi,
         \A b, f \in Blocks : Has(t, b, f)' <=> Has(t, b, f)
  PROVE  Stack' /\ Owners' /\ \A b \in Blocks : Waits(b)' <=> Waits(b)
<1>1. Stack' /\ \A f \in Blocks : IsFree(f)' <=> IsFree(f)
  BY DEF Stack, IsFree, Unused, N
<1>2. \A u \in Threads : (Takes(u)' <=> Takes(u)) /\ (Takes(u) => loc'[u].bi = loc[u].bi)
  BY DEF Others, Takes
<1>3. \A b \in Blocks : Waits(b)' <=> Waits(b)
  BY <1>2 DEF Waits
<1>4. \A u \in Threads, b, f \in Blocks : Has(u, b, f)' <=> Has(u, b, f)
  BY DEF Others, Has, BufferAt
<1>5. \A b, f \in Blocks : Owns(b, f)' <=> Owns(b, f)
  BY <1>3, <1>4 DEF Owns
<1> QED
  BY <1>1, <1>3, <1>5 DEF Owners

\* Another thread, while t reads, takes a block, or writes to its own buffer.
LEMMA OtherThread ==
  ASSUME Types, NEW w \in Nat, NEW n \in Nat, NEW n1 \in Nat, NEW done \in Nat,
         NEW t \in Threads, Others(t), NEW u \in Threads \ {t}, ThreadOK(w, n, done, u),
         numBlocksMax' = numBlocksMax, readProcessed' \in Nat, mtRes # OK => mtRes' # OK,
         (n1 = n /\ readProcessed' = readProcessed)
           \/ (pc[u] \notin ReadingAt /\ readProcessed' >= readProcessed),
         pc[u] \in {"publish", "write"} /\ loc[u].res = OK =>
           content'[loc[u].bufIndex] = content[loc[u].bufIndex]
  PROVE  ThreadOK(w, n1, done, u)'
<1>1. /\ loc'[u] = loc[u]
      /\ pc'[u] = pc[u] \/ (pc[u] = "exited" /\ pc'[u] = "start")
  BY DEF Others
<1>2. /\ readProcessed \in Nat /\ loc[u].chunk \in Nat /\ loc[u].bi \in Nat /\ N \in Nat
      /\ N' = N
  BY RingTypesFacts DEF Types, RingTypes, ThreadTypes, Locals, N
<1>3. Pos(w, loc[u].bi)' = Pos(w, loc[u].bi) /\ Pos(w, loc[u].bi) \in Int
  BY <1>1, <1>2 DEF Pos
<1>4. Buffer(u)'
  BY <1>1 DEF ThreadOK, Buffer, Holds, HasTurn, HoldAt
<1>5. Reads(n1, done, u)'
  BY <1>1 DEF ThreadOK, Reads, ReadingAt
<1>6. Chunk(w, done, u)'
  <2>1. pc[u] \in HoldAt /\ loc[u].res = OK => loc[u].chunk <= readProcessed'
    BY <1>2 DEF ThreadOK, Chunk
  <2>2. pc[u] = "write" /\ loc[u].res = OK => done + 1 <= readProcessed'
    BY <1>2 DEF ThreadOK, Chunk
  <2> HIDE DEF Pos
  <2> QED
    BY <1>1, <1>3, <2>1, <2>2 DEF ThreadOK, Chunk, HoldAt
<1> QED
  BY <1>4, <1>5, <1>6 DEF ThreadOK

LEMMA OtherBlocks ==
  ASSUME Types, NEW w \in Nat, NEW done \in Nat, NEW b \in Blocks, BlockOK(w, done, b),
         Waits(b)' => Waits(b), blocks'[b] = blocks[b], numBlocksMax' = numBlocksMax,
         readProcessed' \in Nat, readProcessed' >= readProcessed, mtRes # OK => mtRes' # OK,
         Waits(b) /\ blocks[b].res = OK => content'[blocks[b].bufIndex] = content[blocks[b].bufIndex]
  PROVE  BlockOK(w, done, b)'
<1>1. readProcessed \in Nat /\ b \in Nat /\ N \in Nat /\ N' = N
  BY RingTypesFacts DEF Types, RingTypes, N
<1>2. Pos(w, b)' = Pos(w, b) /\ Pos(w, b) \in Int
  BY <1>1 DEF Pos
<1>3. done + Pos(w, b) + 1 <= readProcessed => done + Pos(w, b) + 1 <= readProcessed'
  BY <1>1, <1>2
<1> QED
  BY <1>2, <1>3 DEF BlockOK

\* A step that moves no chunk and takes no block leaves what the blocks hold.
LEMMA BlocksAside ==
  ASSUME Types, NEW w \in Nat, NEW n \in Nat, NEW done \in Nat, Ring(w, n, done),
         \A b \in Blocks : Waits(b)' => Waits(b), blocks' = blocks, content' = content,
         numBlocksMax' = numBlocksMax, readProcessed' = readProcessed, mtRes # OK => mtRes' # OK
  PROVE  \A b \in Blocks : BlockOK(w, done, b)'
<1> SUFFICES ASSUME NEW b \in Blocks
             PROVE  BlockOK(w, done, b)'
  OBVIOUS
<1>1. BlockOK(w, done, b)
  BY DEF Ring
<1>2. readProcessed' \in Nat /\ readProcessed' >= readProcessed
  BY DEF Types, RingTypes
<1> QED
  BY <1>1, <1>2, OtherBlocks

-------------------------------------------------------------------------------
(* The steps inside the ring that leave the buffers where they are.         *)

LEMMA Facts ==
  ASSUME Types, OutputTypes
  PROVE  /\ readProcessed \in Nat /\ written \in Nat /\ content \in [Blocks -> Nat]
         /\ \A t \in Threads : loc[t].chunk \in Nat /\ loc[t].bufIndex \in Blocks \cup {None}
         /\ \A b \in Blocks : blocks[b].bufIndex \in Blocks \cup {None}
BY DEF Types, RingTypes, ThreadTypes, Locals, Block, OutputTypes

\* Slots and buffers have one owner.
LEMMA AloneBlock ==
  ASSUME NEW w, NEW n, NEW done, Ring(w, n, done), NEW t \in Threads, Holds(t), ~Takes(t)
  PROVE  ~Waits(loc[t].bi)
BY DEF Ring, Slots, Waits, Takes, Holds, HasTurn

LEMMA BufferApart ==
  ASSUME Types, NEW w, NEW n, NEW done, Ring(w, n, done), NEW t \in Threads, pc[t] = "code"
  PROVE  /\ \A u \in Threads \ {t} : pc[u] \in {"publish", "write"} /\ loc[u].bufIndex \in Blocks =>
              loc[u].bufIndex # loc[t].bufIndex
         /\ \A b \in Blocks : Waits(b) /\ blocks[b].bufIndex \in Blocks =>
              blocks[b].bufIndex # loc[t].bufIndex
<1>1. \A u \in Threads : loc[u].bi \in Blocks
  BY RingTypesFacts
<1>2. Has(t, loc[t].bi, loc[t].bufIndex) /\ Holds(t) /\ ~Takes(t)
  BY DEF Has, BufferAt, Holds, HoldAt, Takes
<1>3. ASSUME NEW u \in Threads \ {t}, pc[u] \in {"publish", "write"}, loc[u].bufIndex \in Blocks,
             loc[u].bufIndex = loc[t].bufIndex
      PROVE  FALSE
  <2>1. Has(u, loc[u].bi, loc[t].bufIndex) /\ Holds(u)
    BY <1>3 DEF Has, BufferAt, Holds, HoldAt, HasTurn
  <2>2. loc[u].bi = loc[t].bi
    BY <1>1, <1>2, <1>3, <2>1 DEF Ring, Owners, Owns
  <2> QED
    BY <1>2, <2>1, <2>2 DEF Ring, Slots
<1>4. ASSUME NEW b \in Blocks, Waits(b), blocks[b].bufIndex \in Blocks, blocks[b].bufIndex = loc[t].bufIndex
      PROVE  FALSE
  <2>1. b = loc[t].bi
    BY <1>1, <1>2, <1>4 DEF Ring, Owners, Owns
  <2> QED
    BY <1>2, <1>4, <2>1, AloneBlock
<1> QED
  BY <1>3, <1>4

LEMMA WaitRead_Ring ==
  ASSUME Types, Created, Turn, Token, OutputTypes, NEW w \in Nat, NEW n \in Nat, NEW done \in Nat, Ring(w, n, done),
         NEW t \in Threads, WaitRead(t)
  PROVE  Ring(w, n, done)'
<1>1. Slots(w, n)'
  BY SlotsAside, WaitRead_Effects DEF Ring, Holds, HasTurn, HoldAt
<1>2. Stack' /\ Owners' /\ \A b \in Blocks : Waits(b)' <=> Waits(b)
  <2>1. \A b, f \in Blocks : Has(t, b, f)' <=> Has(t, b, f)
    BY WaitRead_Effects DEF Has, BufferAt
  <2> QED
    BY <2>1, MemKept, WaitRead_Effects DEF Ring, Takes
<1>3. \A u \in Threads \ {t} : ThreadOK(w, n, done, u)'
  BY OtherThread, Facts, WaitRead_Effects DEF Ring
<1>4. ThreadOK(w, n, done, t)'
  <2>1. Buffer(t)'
    BY WaitRead_Effects, SmallTypes DEF Ring, ThreadOK, Buffer, Holds, HasTurn, HoldAt, Progress
  <2>2. Reads(n, done, t)'
    BY WaitRead_Effects DEF Ring, Progress, Token, ReaderAt, ReadingAt, Reads
  <2>3. Chunk(w, done, t)'
    BY WaitRead_Effects DEF Ring, ThreadOK, Chunk, HoldAt, Pos, N
  <2> QED
    BY <2>1, <2>2, <2>3 DEF ThreadOK
<1>5. \A b \in Blocks : BlockOK(w, done, b)'
  <2>1. /\ blocks' = blocks /\ content' = content /\ numBlocksMax' = numBlocksMax
        /\ readProcessed' = readProcessed /\ (mtRes # OK => mtRes' # OK)
    BY WaitRead_Effects
  <2> QED
    BY <1>2, <2>1, BlocksAside
<1>6. Progress(n, done)'
  BY WaitRead_Effects DEF Ring, Progress, LastDone, ReadingAt, Others
<1> QED
  BY <1>1, <1>2, <1>3, <1>4, <1>5, <1>6 DEF Ring

LEMMA ReadBlock_Ring ==
  ASSUME Types, Created, Turn, Token, OutputTypes, NEW w \in Nat, NEW n \in Nat, NEW done \in Nat, Ring(w, n, done),
         NEW t \in Threads, ReadBlock(t)
  PROVE  Ring(w, n, done)'
<1>1. Slots(w, n)'
  BY SlotsAside, ReadBlock_Effects DEF Ring, Holds, HasTurn, HoldAt
<1>2. Stack' /\ Owners' /\ \A b \in Blocks : Waits(b)' <=> Waits(b)
  <2>1. \A b, f \in Blocks : Has(t, b, f)' <=> Has(t, b, f)
    BY ReadBlock_Effects DEF Has, BufferAt
  <2> QED
    BY <2>1, MemKept, ReadBlock_Effects DEF Ring, Takes
<1>3. \A u \in Threads \ {t} : ThreadOK(w, n, done, u)'
  <2>1. \A u \in Threads \ {t} : pc[u] \notin ReadingAt
    BY ReadBlock_Effects DEF Token, ReaderAt, ReadingAt
  <2>2. readProcessed' \in Nat /\ readProcessed' >= readProcessed
    BY Facts, ReadBlock_Effects
  <2> QED
    BY <2>1, <2>2, OtherThread, ReadBlock_Effects DEF Ring
<1>4. ThreadOK(w, n, done, t)'
  <2>1. Buffer(t)'
    BY ReadBlock_Effects, SmallTypes DEF Ring, ThreadOK, Buffer, Holds, HasTurn, HoldAt, Progress
  <2>2. Reads(n, done, t)'
    BY ReadBlock_Effects DEF Ring, ThreadOK, Reads
  <2>3. Chunk(w, done, t)'
    BY ReadBlock_Effects DEF Ring, ThreadOK, Chunk, HoldAt, Pos, N
  <2> QED
    BY <2>1, <2>2, <2>3 DEF ThreadOK
<1>5. \A b \in Blocks : BlockOK(w, done, b)'
  <2>1. readProcessed' \in Nat /\ readProcessed' >= readProcessed
    BY Facts, ReadBlock_Effects
  <2> SUFFICES ASSUME NEW b \in Blocks
               PROVE  BlockOK(w, done, b)'
    OBVIOUS
  <2>2. BlockOK(w, done, b) /\ (Waits(b)' <=> Waits(b))
    BY <1>2 DEF Ring
  <2>3. blocks' = blocks /\ content' = content /\ numBlocksMax' = numBlocksMax /\ mtRes' = mtRes
    BY ReadBlock_Effects
  <2> QED
    BY <2>1, <2>2, <2>3, OtherBlocks
<1>6. Progress(n, done)'
  BY ReadBlock_Effects DEF Ring, Progress, LastDone, ReadingAt, Others
<1> QED
  BY <1>1, <1>2, <1>3, <1>4, <1>5, <1>6 DEF Ring

LEMMA ReadFails_Ring ==
  ASSUME Types, Created, Turn, Token, OutputTypes, NEW w \in Nat, NEW n \in Nat, NEW done \in Nat, Ring(w, n, done),
         NEW t \in Threads, ReadFails(t)
  PROVE  Ring(w, n, done)'
<1>1. Slots(w, n)'
  BY SlotsAside, ReadFails_Effects DEF Ring, Holds, HasTurn, HoldAt
<1>2. Stack' /\ Owners' /\ \A b \in Blocks : Waits(b)' <=> Waits(b)
  <2>1. \A b, f \in Blocks : Has(t, b, f)' <=> Has(t, b, f)
    BY ReadFails_Effects DEF Has, BufferAt
  <2> QED
    BY <2>1, MemKept, ReadFails_Effects DEF Ring, Takes
<1>3. \A u \in Threads \ {t} : ThreadOK(w, n, done, u)'
  BY OtherThread, Facts, ReadFails_Effects DEF Ring
<1>4. ThreadOK(w, n, done, t)'
  <2>1. Buffer(t)'
    BY ReadFails_Effects, SmallTypes DEF Ring, ThreadOK, Buffer, Holds, HasTurn, HoldAt, Progress
  <2>2. Reads(n, done, t)'
    BY ReadFails_Effects DEF Ring, ThreadOK, Reads
  <2>3. Chunk(w, done, t)'
    BY ReadFails_Effects DEF Ring, ThreadOK, Chunk, HoldAt, Pos, N
  <2> QED
    BY <2>1, <2>2, <2>3 DEF ThreadOK
<1>5. \A b \in Blocks : BlockOK(w, done, b)'
  <2>1. /\ blocks' = blocks /\ content' = content /\ numBlocksMax' = numBlocksMax
        /\ readProcessed' = readProcessed /\ (mtRes # OK => mtRes' # OK)
    BY ReadFails_Effects
  <2> QED
    BY <1>2, <2>1, BlocksAside
<1>6. Progress(n, done)'
  BY ReadFails_Effects DEF Ring, Progress, LastDone, ReadingAt, Others
<1> QED
  BY <1>1, <1>2, <1>3, <1>4, <1>5, <1>6 DEF Ring

LEMMA GetBlock_Ring ==
  ASSUME Types, Created, Turn, Token, OutputTypes, NEW w \in Nat, NEW n \in Nat, NEW done \in Nat, Ring(w, n, done),
         NEW t \in Threads, GetBlock(t)
  PROVE  Ring(w, n + 1, done)'
<1>1. Slots(w, n + 1)'
  BY GetBlock_Slots DEF Ring
<1>2. Stack' /\ Owners' /\ \A b \in Blocks : Waits(b)' <=> Waits(b)
  <2>1. \A b, f \in Blocks : Has(t, b, f)' <=> Has(t, b, f)
    BY GetBlock_Effects DEF Has, BufferAt
  <2> QED
    BY <2>1, MemKept, GetBlock_Effects DEF Ring, Takes
<1>3. \A u \in Threads \ {t} : ThreadOK(w, n + 1, done, u)'
  <2>1. \A u \in Threads \ {t} : pc[u] \notin ReadingAt
    BY GetBlock_Effects DEF Token, ReaderAt, ReadingAt
  <2> SUFFICES ASSUME NEW u \in Threads \ {t}
               PROVE  ThreadOK(w, n + 1, done, u)'
    OBVIOUS
  <2>2. ThreadOK(w, n, done, u) /\ n + 1 \in Nat
    BY DEF Ring
  <2>3. readProcessed' = readProcessed /\ readProcessed \in Nat
    BY Facts, GetBlock_Effects
  <2> QED
    BY <2>1, <2>2, <2>3, OtherThread, GetBlock_Effects
<1>4. ThreadOK(w, n + 1, done, t)'
  <2>1. Buffer(t)'
    BY GetBlock_Effects, SmallTypes DEF Ring, ThreadOK, Buffer, Holds, HasTurn, HoldAt, Progress
  <2>2. Reads(n + 1, done, t)'
    BY GetBlock_Effects DEF Ring, ThreadOK, Reads
  <2>3. Chunk(w, done, t)'
    <3>1. /\ N \in Nat /\ blockIndex \in Nat /\ w < N /\ n <= N /\ w \in Nat
          /\ blockIndex = IF w + n < N THEN w + n ELSE w + n - N
      BY RingTypesFacts DEF Ring, Slots, Types, RingTypes, Blocks
    <3>2. n + 1 <= N
      BY GetBlock_Slots DEF Ring
    <3>3. Pos(w, blockIndex) = n /\ Pos(w, loc[t].bi)' = Pos(w, blockIndex)
      BY <3>1, <3>2, GetBlock_Effects DEF Pos, N
    <3>4. loc'[t].res = OK => loc'[t].chunk = done + n + 1 /\ loc'[t].chunk <= readProcessed'
      BY GetBlock_Effects, Facts DEF Ring, ThreadOK, Reads
    <3> QED
      BY <3>3, <3>4, GetBlock_Effects DEF Chunk
  <2> QED
    BY <2>1, <2>2, <2>3 DEF ThreadOK
<1>5. \A b \in Blocks : BlockOK(w, done, b)'
  <2>1. /\ blocks' = blocks /\ content' = content /\ numBlocksMax' = numBlocksMax
        /\ readProcessed' = readProcessed /\ (mtRes # OK => mtRes' # OK)
    BY GetBlock_Effects
  <2> QED
    BY <1>2, <2>1, BlocksAside
<1>6. Progress(n + 1, done)'
  BY GetBlock_Effects DEF Ring, Progress, LastDone, ReadingAt, Others
<1> QED
  BY <1>1, <1>2, <1>3, <1>4, <1>5, <1>6 DEF Ring

LEMMA StartNext_Ring ==
  ASSUME Types, Created, Turn, Token, OutputTypes, NEW w \in Nat, NEW n \in Nat, NEW done \in Nat, Ring(w, n, done),
         NEW t \in Threads, StartNext(t)
  PROVE  Ring(w, n, done)'
<1>1. Slots(w, n)'
  BY SlotsAside, StartNext_Effects DEF Ring, Holds, HasTurn, HoldAt
<1>2. Stack' /\ Owners' /\ \A b \in Blocks : Waits(b)' <=> Waits(b)
  <2>1. \A b, f \in Blocks : Has(t, b, f)' <=> Has(t, b, f)
    BY StartNext_Effects DEF Has, BufferAt
  <2> QED
    BY <2>1, MemKept, StartNext_Effects DEF Ring, Takes
<1>3. \A u \in Threads \ {t} : ThreadOK(w, n, done, u)'
  BY OtherThread, Facts, StartNext_Effects DEF Ring
<1>4. ThreadOK(w, n, done, t)'
  <2>1. Buffer(t)'
    BY StartNext_Effects, SmallTypes DEF Ring, ThreadOK, Buffer, Holds, HasTurn, HoldAt, Progress
  <2>2. Reads(n, done, t)'
    BY StartNext_Effects DEF Ring, ThreadOK, Reads
  <2>3. Chunk(w, done, t)'
    BY StartNext_Effects DEF Ring, ThreadOK, Chunk, HoldAt, Pos, N
  <2> QED
    BY <2>1, <2>2, <2>3 DEF ThreadOK
<1>5. \A b \in Blocks : BlockOK(w, done, b)'
  <2>1. /\ blocks' = blocks /\ content' = content /\ numBlocksMax' = numBlocksMax
        /\ readProcessed' = readProcessed /\ (mtRes # OK => mtRes' # OK)
    BY StartNext_Effects
  <2> QED
    BY <1>2, <2>1, BlocksAside
<1>6. Progress(n, done)'
  <2>1. loc[t].res # OK => mtRes # OK
    BY StartNext_Effects DEF Ring, ThreadOK, Buffer, Holds, HoldAt
  <2>2. ~stopReading' \/ mtRes' = OK => loc[t].res = OK
    BY <2>1, StartNext_Effects
  <2>3. loc[t].res = OK => readProcessed' = done + n
    BY StartNext_Effects DEF Ring, ThreadOK, Reads
  <2>4. /\ written' = written /\ (writeRes' # OK => mtRes' # OK) /\ (mtRes # OK => mtRes' # OK)
        /\ LastDone(done)' = LastDone(done)
    BY StartNext_Effects DEF Ring, Progress, LastDone, Others
  <2> QED
    BY <2>2, <2>3, <2>4 DEF Ring, Progress
<1> QED
  BY <1>1, <1>2, <1>3, <1>4, <1>5, <1>6 DEF Ring

LEMMA PassRead_Ring ==
  ASSUME Types, Created, Turn, Token, OutputTypes, NEW w \in Nat, NEW n \in Nat, NEW done \in Nat, Ring(w, n, done),
         NEW t \in Threads, PassRead(t)
  PROVE  Ring(w, n, done)'
<1>1. Slots(w, n)'
  BY SlotsAside, PassRead_Effects DEF Ring, Holds, HasTurn, HoldAt
<1>2. Stack' /\ Owners' /\ \A b \in Blocks : Waits(b)' <=> Waits(b)
  <2>1. \A b, f \in Blocks : Has(t, b, f)' <=> Has(t, b, f)
    BY PassRead_Effects, SmallTypes DEF Has, BufferAt, Ring, ThreadOK, Buffer
  <2> QED
    BY <2>1, MemKept, PassRead_Effects DEF Ring, Takes
<1>3. \A u \in Threads \ {t} : ThreadOK(w, n, done, u)'
  BY OtherThread, Facts, PassRead_Effects DEF Ring
<1>4. ThreadOK(w, n, done, t)'
  <2>1. Buffer(t)'
    BY PassRead_Effects, SmallTypes DEF Ring, ThreadOK, Buffer, Holds, HasTurn, HoldAt, Progress
  <2>2. Reads(n, done, t)'
    BY PassRead_Effects DEF Ring, ThreadOK, Reads
  <2>3. Chunk(w, done, t)'
    BY PassRead_Effects DEF Ring, ThreadOK, Chunk, HoldAt, Pos, N
  <2> QED
    BY <2>1, <2>2, <2>3 DEF ThreadOK
<1>5. \A b \in Blocks : BlockOK(w, done, b)'
  <2>1. /\ blocks' = blocks /\ content' = content /\ numBlocksMax' = numBlocksMax
        /\ readProcessed' = readProcessed /\ (mtRes # OK => mtRes' # OK)
    BY PassRead_Effects
  <2> QED
    BY <1>2, <2>1, BlocksAside
<1>6. Progress(n, done)'
  BY PassRead_Effects DEF Ring, Progress, LastDone, ReadingAt, Others
<1> QED
  BY <1>1, <1>2, <1>3, <1>4, <1>5, <1>6 DEF Ring

LEMMA Code_Ring ==
  ASSUME Types, Created, Turn, Token, OutputTypes, NEW w \in Nat, NEW n \in Nat, NEW done \in Nat, Ring(w, n, done),
         NEW t \in Threads, Code(t)
  PROVE  Ring(w, n, done)'
<1>1. Slots(w, n)'
  BY SlotsAside, Code_Effects DEF Ring, Holds, HasTurn, HoldAt
<1>2. Stack' /\ Owners' /\ \A b \in Blocks : Waits(b)' <=> Waits(b)
  <2>1. \A b, f \in Blocks : Has(t, b, f)' <=> Has(t, b, f)
    BY Code_Effects DEF Has, BufferAt
  <2> QED
    BY <2>1, MemKept, Code_Effects DEF Ring, Takes
<1>3. \A u \in Threads \ {t} : ThreadOK(w, n, done, u)'
  <2>1. mtRes # OK => mtRes' # OK
    BY Code_Effects
  <2> SUFFICES ASSUME NEW u \in Threads \ {t}
               PROVE  ThreadOK(w, n, done, u)'
    OBVIOUS
  <2>2. ThreadOK(w, n, done, u)
    BY DEF Ring
  <2>3. pc[u] \in {"publish", "write"} /\ loc[u].res = OK => content'[loc[u].bufIndex] = content[loc[u].bufIndex]
    <3> SUFFICES ASSUME pc[u] \in {"publish", "write"}, loc[u].res = OK
                 PROVE  content'[loc[u].bufIndex] = content[loc[u].bufIndex]
      OBVIOUS
    <3>1. loc[u].bufIndex \in Blocks
      BY <2>2, Facts DEF ThreadOK, Buffer
    <3>2. loc[u].bufIndex # loc[t].bufIndex
      BY <3>1, BufferApart, Code_Effects
    <3> QED
      BY <3>1, <3>2, Facts, Code_Effects
  <2> QED
    BY <2>1, <2>2, <2>3, Facts, OtherThread, Code_Effects
<1>4. ThreadOK(w, n, done, t)'
  <2>1. Buffer(t)'
    BY Code_Effects, SmallTypes DEF Ring, ThreadOK, Buffer, Holds, HasTurn, HoldAt, Progress
  <2>2. Reads(n, done, t)'
    BY Code_Effects DEF Ring, ThreadOK, Reads
  <2>3. Chunk(w, done, t)'
    <3>1. loc[t].bufIndex \in Blocks
      BY Code_Effects, Facts DEF Ring, ThreadOK, Buffer
    <3>2. content'[loc'[t].bufIndex] = loc[t].chunk
      BY <3>1, Facts, Code_Effects
    <3> QED
      BY <3>2, Code_Effects DEF Ring, ThreadOK, Chunk, HoldAt, Pos, N
  <2> QED
    BY <2>1, <2>2, <2>3 DEF ThreadOK
<1>5. \A b \in Blocks : BlockOK(w, done, b)'
  <2> SUFFICES ASSUME NEW b \in Blocks
               PROVE  BlockOK(w, done, b)'
    OBVIOUS
  <2>1. BlockOK(w, done, b) /\ (Waits(b)' <=> Waits(b))
    BY <1>2 DEF Ring
  <2>2. Waits(b) /\ blocks[b].res = OK => content'[blocks[b].bufIndex] = content[blocks[b].bufIndex]
    <3> SUFFICES ASSUME Waits(b), blocks[b].res = OK
                 PROVE  content'[blocks[b].bufIndex] = content[blocks[b].bufIndex]
      OBVIOUS
    <3>1. blocks[b].bufIndex \in Blocks
      BY <2>1, Facts DEF BlockOK
    <3>2. blocks[b].bufIndex # loc[t].bufIndex
      BY <3>1, BufferApart, Code_Effects
    <3> QED
      BY <3>1, <3>2, Facts, Code_Effects
  <2>3. /\ mtRes # OK => mtRes' # OK
        /\ blocks'[b] = blocks[b] /\ numBlocksMax' = numBlocksMax
        /\ readProcessed' \in Nat /\ readProcessed' >= readProcessed
    BY Facts, Code_Effects
  <2> QED
    BY <2>1, <2>2, <2>3, OtherBlocks
<1>6. Progress(n, done)'
  BY Code_Effects DEF Ring, Progress, LastDone, ReadingAt, Others
<1> QED
  BY <1>1, <1>2, <1>3, <1>4, <1>5, <1>6 DEF Ring

LEMMA CodeFails_Ring ==
  ASSUME Types, Created, Turn, Token, OutputTypes, NEW w \in Nat, NEW n \in Nat, NEW done \in Nat, Ring(w, n, done),
         NEW t \in Threads, CodeFails(t)
  PROVE  Ring(w, n, done)'
<1>1. Slots(w, n)'
  BY SlotsAside, CodeFails_Effects DEF Ring, Holds, HasTurn, HoldAt
<1>2. Stack' /\ Owners' /\ \A b \in Blocks : Waits(b)' <=> Waits(b)
  <2>1. \A b, f \in Blocks : Has(t, b, f)' <=> Has(t, b, f)
    BY CodeFails_Effects DEF Has, BufferAt
  <2> QED
    BY <2>1, MemKept, CodeFails_Effects DEF Ring, Takes
<1>3. \A u \in Threads \ {t} : ThreadOK(w, n, done, u)'
  <2>1. mtRes # OK => mtRes' # OK
    BY CodeFails_Effects
  <2> SUFFICES ASSUME NEW u \in Threads \ {t}
               PROVE  ThreadOK(w, n, done, u)'
    OBVIOUS
  <2>2. ThreadOK(w, n, done, u)
    BY DEF Ring
  <2>3. pc[u] \in {"publish", "write"} /\ loc[u].res = OK => content'[loc[u].bufIndex] = content[loc[u].bufIndex]
    <3> SUFFICES ASSUME pc[u] \in {"publish", "write"}, loc[u].res = OK
                 PROVE  content'[loc[u].bufIndex] = content[loc[u].bufIndex]
      OBVIOUS
    <3>1. loc[u].bufIndex \in Blocks
      BY <2>2, Facts DEF ThreadOK, Buffer
    <3>2. loc[u].bufIndex # loc[t].bufIndex
      BY <3>1, BufferApart, CodeFails_Effects
    <3> QED
      BY <3>1, <3>2, Facts, CodeFails_Effects
  <2> QED
    BY <2>1, <2>2, <2>3, Facts, OtherThread, CodeFails_Effects
<1>4. ThreadOK(w, n, done, t)'
  <2>1. Buffer(t)'
    BY CodeFails_Effects, SmallTypes DEF Ring, ThreadOK, Buffer, Holds, HasTurn, HoldAt, Progress
  <2>2. Reads(n, done, t)'
    BY CodeFails_Effects DEF Ring, ThreadOK, Reads
  <2>3. Chunk(w, done, t)'
    BY CodeFails_Effects DEF Ring, ThreadOK, Chunk, HoldAt, Pos, N
  <2> QED
    BY <2>1, <2>2, <2>3 DEF ThreadOK
<1>5. \A b \in Blocks : BlockOK(w, done, b)'
  <2> SUFFICES ASSUME NEW b \in Blocks
               PROVE  BlockOK(w, done, b)'
    OBVIOUS
  <2>1. BlockOK(w, done, b) /\ (Waits(b)' <=> Waits(b))
    BY <1>2 DEF Ring
  <2>2. Waits(b) /\ blocks[b].res = OK => content'[blocks[b].bufIndex] = content[blocks[b].bufIndex]
    <3> SUFFICES ASSUME Waits(b), blocks[b].res = OK
                 PROVE  content'[blocks[b].bufIndex] = content[blocks[b].bufIndex]
      OBVIOUS
    <3>1. blocks[b].bufIndex \in Blocks
      BY <2>1, Facts DEF BlockOK
    <3>2. blocks[b].bufIndex # loc[t].bufIndex
      BY <3>1, BufferApart, CodeFails_Effects
    <3> QED
      BY <3>1, <3>2, Facts, CodeFails_Effects
  <2>3. /\ mtRes # OK => mtRes' # OK
        /\ blocks'[b] = blocks[b] /\ numBlocksMax' = numBlocksMax
        /\ readProcessed' \in Nat /\ readProcessed' >= readProcessed
    BY Facts, CodeFails_Effects
  <2> QED
    BY <2>1, <2>2, <2>3, OtherBlocks
<1>6. Progress(n, done)'
  BY CodeFails_Effects DEF Ring, Progress, LastDone, ReadingAt, Others
<1> QED
  BY <1>1, <1>2, <1>3, <1>4, <1>5, <1>6 DEF Ring

LEMMA Write_Ring ==
  ASSUME Types, Created, Turn, Token, OutputTypes, NEW w \in Nat, NEW n \in Nat, NEW done \in Nat, Ring(w, n, done),
         NEW t \in Threads, Write(t)
  PROVE  Ring(w, n, done)'
<1>1. Slots(w, n)'
  BY SlotsAside, Write_Effects DEF Ring, Holds, HasTurn, HoldAt
<1>2. Stack' /\ Owners' /\ \A b \in Blocks : Waits(b)' <=> Waits(b)
  <2>1. \A b, f \in Blocks : Has(t, b, f)' <=> Has(t, b, f)
    BY Write_Effects DEF Has, BufferAt
  <2> QED
    BY <2>1, MemKept, Write_Effects DEF Ring, Takes
<1>3. \A u \in Threads \ {t} : ThreadOK(w, n, done, u)'
  BY OtherThread, Facts, Write_Effects DEF Ring
<1>4. ThreadOK(w, n, done, t)'
  <2>1. Buffer(t)'
    BY Write_Effects, SmallTypes DEF Ring, ThreadOK, Buffer, Holds, HasTurn, HoldAt, Progress
  <2>2. Reads(n, done, t)'
    BY Write_Effects DEF Ring, ThreadOK, Reads
  <2>3. Chunk(w, done, t)'
    BY Write_Effects DEF Ring, ThreadOK, Chunk, HoldAt, Pos, N
  <2> QED
    BY <2>1, <2>2, <2>3 DEF ThreadOK
<1>5. \A b \in Blocks : BlockOK(w, done, b)'
  <2>1. /\ blocks' = blocks /\ content' = content /\ numBlocksMax' = numBlocksMax
        /\ readProcessed' = readProcessed /\ (mtRes # OK => mtRes' # OK)
    BY Write_Effects
  <2> QED
    BY <1>2, <2>1, BlocksAside
<1>6. Progress(n, done)'
  <2>1. LastDone(done) = done /\ LastDone(done)' = done + 1
    BY Write_Effects DEF LastDone, Turn, HasTurn
  <2>2. written' <= done + 1 /\ (mtRes' = OK => written' = done + 1)
    <3>1. CASE loc[t].res = OK /\ loc[t].bufIndex # None /\ written' = content[loc[t].bufIndex]
      BY <3>1, Write_Effects DEF Ring, ThreadOK, Chunk
    <3>2. CASE mtRes' # OK /\ written' = written
      BY <2>1, <3>2, Facts DEF Ring, Progress
    <3>3. CASE (loc[t].res # OK \/ loc[t].bufIndex = None) /\ written' = written
      <4>1. mtRes # OK
        BY <3>3, Write_Effects DEF Ring, ThreadOK, Buffer, Holds, HasTurn
      <4> QED
        BY <2>1, <3>3, <4>1, Facts, Write_Effects DEF Ring, Progress
    <3> QED
      BY <3>1, <3>2, <3>3, Write_Effects
  <2>3. writeRes' # OK => mtRes' # OK
    BY Write_Effects DEF Ring, Progress
  <2>4. (~stopReading' \/ mtRes' = OK) /\ (\A u \in Threads : pc'[u] \notin ReadingAt) => readProcessed' = done + n
    BY Write_Effects DEF Ring, Progress, ReadingAt, Others
  <2> QED
    BY <2>1, <2>2, <2>3, <2>4 DEF Progress
<1> QED
  BY <1>1, <1>2, <1>3, <1>4, <1>5, <1>6 DEF Ring

LEMMA ReleaseBlock_Ring ==
  ASSUME Types, Created, Turn, Token, OutputTypes, NEW w \in Nat, NEW n \in Nat, NEW done \in Nat, Ring(w, n, done),
         NEW t \in Threads, ReleaseBlock(t)
  PROVE  Ring(w, n, done)'
<1>1. Slots(w, n)'
  BY ReleaseBlock_Slots DEF Ring
<1>2. Stack' /\ Owners' /\ \A b \in Blocks : Waits(b)' <=> Waits(b)
  <2>1. \A b, f \in Blocks : Has(t, b, f)' <=> Has(t, b, f)
    BY ReleaseBlock_Effects DEF Has, BufferAt
  <2> QED
    BY <2>1, MemKept, ReleaseBlock_Effects DEF Ring, Takes
<1>3. \A u \in Threads \ {t} : ThreadOK(w, n, done, u)'
  BY OtherThread, Facts, ReleaseBlock_Effects DEF Ring
<1>4. ThreadOK(w, n, done, t)'
  <2>1. Buffer(t)'
    BY ReleaseBlock_Effects, SmallTypes DEF Ring, ThreadOK, Buffer, Holds, HasTurn, HoldAt, Progress
  <2>2. Reads(n, done, t)'
    BY ReleaseBlock_Effects DEF Ring, ThreadOK, Reads
  <2>3. Chunk(w, done, t)'
    BY ReleaseBlock_Effects DEF Ring, ThreadOK, Chunk, HoldAt, Pos, N
  <2> QED
    BY <2>1, <2>2, <2>3 DEF ThreadOK
<1>5. \A b \in Blocks : BlockOK(w, done, b)'
  <2>1. /\ blocks' = blocks /\ content' = content /\ numBlocksMax' = numBlocksMax
        /\ readProcessed' = readProcessed /\ (mtRes # OK => mtRes' # OK)
    BY ReleaseBlock_Effects
  <2> QED
    BY <1>2, <2>1, BlocksAside
<1>6. Progress(n, done)'
  BY ReleaseBlock_Effects DEF Ring, Progress, LastDone, ReadingAt, Others
<1> QED
  BY <1>1, <1>2, <1>3, <1>4, <1>5, <1>6 DEF Ring

-------------------------------------------------------------------------------
(* The steps that move a buffer.                                            *)

LEMMA PopStack ==
  ASSUME Types, Stack, Len(freeBlocks) > Unused, freeBlocks' = Tail(freeBlocks),
         numBlocksMax' = numBlocksMax
  PROVE  /\ freeBlocks[1] \in Blocks /\ freeBlocks[1] < N /\ IsFree(freeBlocks[1]) /\ Stack'
         /\ \A f \in Blocks : IsFree(f)' <=> IsFree(f) /\ f # freeBlocks[1]
<1>1. /\ freeBlocks \in Seq(Blocks) /\ N \in Nat /\ MaxBlocks \in Nat /\ N <= MaxBlocks /\ Unused \in Nat
      /\ Len(freeBlocks) \in Nat /\ Len(freeBlocks) > 0 /\ N' = N /\ Unused' = Unused
  BY RingTypesFacts DEF Types, RingTypes, Unused, N
<1>2. /\ Len(freeBlocks') = Len(freeBlocks) - 1
      /\ \A i \in 1 .. Len(freeBlocks) - 1 : freeBlocks'[i] = freeBlocks[i + 1]
  BY <1>1
<1>3. freeBlocks[1] \in Blocks /\ freeBlocks[1] < N /\ IsFree(freeBlocks[1])
  BY <1>1 DEF Stack, IsFree
<1>4. \A f \in Blocks : IsFree(f)' <=> IsFree(f) /\ f # freeBlocks[1]
  <2> SUFFICES ASSUME NEW f \in Blocks
               PROVE  IsFree(f)' <=> IsFree(f) /\ f # freeBlocks[1]
    OBVIOUS
  <2>1. IsFree(f)' => IsFree(f) /\ f # freeBlocks[1]
    <3> SUFFICES ASSUME NEW i \in 1 .. Len(freeBlocks) - 1, freeBlocks[i + 1] = f
                 PROVE  IsFree(f) /\ f # freeBlocks[1]
      BY <1>1, <1>2 DEF IsFree
    <3>1. i + 1 \in 1 .. Len(freeBlocks) /\ i + 1 # 1 /\ 1 \in 1 .. Len(freeBlocks)
      BY <1>1
    <3> QED
      BY <3>1 DEF IsFree, Stack
  <2>2. IsFree(f) /\ f # freeBlocks[1] => IsFree(f)'
    <3> SUFFICES ASSUME NEW i \in 1 .. Len(freeBlocks), freeBlocks[i] = f, i # 1
                 PROVE  IsFree(f)'
      BY DEF IsFree
    <3>1. i - 1 \in 1 .. Len(freeBlocks') /\ freeBlocks'[i - 1] = f
      BY <1>1, <1>2
    <3> QED
      BY <3>1 DEF IsFree
  <2> QED
    BY <2>1, <2>2
<1>5. \A i \in 1 .. Len(freeBlocks') :
        IF i > Len(freeBlocks') - Unused' THEN freeBlocks'[i] = MaxBlocks - Len(freeBlocks') + i - 1
        ELSE freeBlocks'[i] < N'
  <2> SUFFICES ASSUME NEW i \in 1 .. Len(freeBlocks) - 1
               PROVE  IF i > Len(freeBlocks) - 1 - Unused
                      THEN freeBlocks[i + 1] = MaxBlocks - (Len(freeBlocks) - 1) + i - 1
                      ELSE freeBlocks[i + 1] < N
    BY <1>1, <1>2
  <2>1. i + 1 \in 1 .. Len(freeBlocks)
    BY <1>1
  <2>2. IF i + 1 > Len(freeBlocks) - Unused
        THEN freeBlocks[i + 1] = MaxBlocks - Len(freeBlocks) + (i + 1) - 1 ELSE freeBlocks[i + 1] < N
    BY <2>1 DEF Stack
  <2> QED
    BY <1>1, <2>2
<1>6. \A i, j \in 1 .. Len(freeBlocks') : freeBlocks'[i] = freeBlocks'[j] => i = j
  <2> SUFFICES ASSUME NEW i \in 1 .. Len(freeBlocks) - 1, NEW j \in 1 .. Len(freeBlocks) - 1,
                      freeBlocks[i + 1] = freeBlocks[j + 1]
               PROVE  i = j
    BY <1>1, <1>2
  <2>1. i + 1 \in 1 .. Len(freeBlocks) /\ j + 1 \in 1 .. Len(freeBlocks)
    BY <1>1
  <2>2. i + 1 = j + 1
    BY <2>1 DEF Stack
  <2> QED
    BY <2>2
<1>7. Len(freeBlocks') >= Unused'
  BY <1>1, <1>2
<1> QED
  BY <1>3, <1>4, <1>5, <1>6, <1>7 DEF Stack

LEMMA PushStack ==
  ASSUME Types, Stack, NEW g \in Blocks, g < N, ~IsFree(g), freeBlocks' = <<g>> \o freeBlocks,
         numBlocksMax' = numBlocksMax
  PROVE  Stack' /\ \A f \in Blocks : IsFree(f)' <=> IsFree(f) \/ f = g
<1>1. /\ freeBlocks \in Seq(Blocks) /\ N \in Nat /\ MaxBlocks \in Nat /\ N <= MaxBlocks /\ Unused \in Nat
      /\ Len(freeBlocks) \in Nat /\ N' = N /\ Unused' = Unused
  BY RingTypesFacts DEF Types, RingTypes, Unused, N
<1>2. /\ Len(freeBlocks') = Len(freeBlocks) + 1 /\ freeBlocks'[1] = g
      /\ \A i \in 1 .. Len(freeBlocks) : freeBlocks'[i + 1] = freeBlocks[i]
  BY <1>1
<1>3. \A i \in 1 .. Len(freeBlocks') : i = 1 \/ (i - 1 \in 1 .. Len(freeBlocks) /\ freeBlocks'[i] = freeBlocks[i - 1])
  <2> SUFFICES ASSUME NEW i \in 1 .. Len(freeBlocks'), i # 1
               PROVE  i - 1 \in 1 .. Len(freeBlocks) /\ freeBlocks'[i] = freeBlocks[i - 1]
    OBVIOUS
  <2>1. i - 1 \in 1 .. Len(freeBlocks) /\ (i - 1) + 1 = i
    BY <1>1, <1>2
  <2> QED
    BY <1>2, <2>1
<1>4. \A f \in Blocks : IsFree(f)' <=> IsFree(f) \/ f = g
  <2> SUFFICES ASSUME NEW f \in Blocks
               PROVE  IsFree(f)' <=> IsFree(f) \/ f = g
    OBVIOUS
  <2>1. IsFree(f)' => IsFree(f) \/ f = g
    BY <1>2, <1>3 DEF IsFree
  <2>2. IsFree(f) => IsFree(f)'
    <3> SUFFICES ASSUME NEW i \in 1 .. Len(freeBlocks), freeBlocks[i] = f
                 PROVE  IsFree(f)'
      BY DEF IsFree
    <3>1. i + 1 \in 1 .. Len(freeBlocks') /\ freeBlocks'[i + 1] = f
      BY <1>1, <1>2
    <3> QED
      BY <3>1 DEF IsFree
  <2>3. IsFree(g)'
    <3>1. 1 \in 1 .. Len(freeBlocks')
      BY <1>1, <1>2
    <3> QED
      BY <1>2, <3>1 DEF IsFree
  <2> QED
    BY <2>1, <2>2, <2>3
<1>5. \A i \in 1 .. Len(freeBlocks') :
        IF i > Len(freeBlocks') - Unused' THEN freeBlocks'[i] = MaxBlocks - Len(freeBlocks') + i - 1
        ELSE freeBlocks'[i] < N'
  <2> SUFFICES ASSUME NEW i \in 1 .. Len(freeBlocks')
               PROVE  IF i > Len(freeBlocks) + 1 - Unused
                      THEN freeBlocks'[i] = MaxBlocks - (Len(freeBlocks) + 1) + i - 1
                      ELSE freeBlocks'[i] < N
    BY <1>1, <1>2
  <2>1. CASE i = 1
    BY <1>1, <1>2, <2>1 DEF Stack
  <2>2. CASE i # 1
    <3>1. i - 1 \in 1 .. Len(freeBlocks) /\ freeBlocks'[i] = freeBlocks[i - 1]
      BY <1>3, <2>2
    <3>2. IF i - 1 > Len(freeBlocks) - Unused
          THEN freeBlocks[i - 1] = MaxBlocks - Len(freeBlocks) + (i - 1) - 1 ELSE freeBlocks[i - 1] < N
      BY <3>1 DEF Stack
    <3> QED
      BY <1>1, <3>1, <3>2
  <2> QED
    BY <2>1, <2>2
<1>6. \A i, j \in 1 .. Len(freeBlocks') : freeBlocks'[i] = freeBlocks'[j] => i = j
  <2> SUFFICES ASSUME NEW i \in 1 .. Len(freeBlocks'), NEW j \in 1 .. Len(freeBlocks'),
                      freeBlocks'[i] = freeBlocks'[j]
               PROVE  i = j
    OBVIOUS
  <2>1. CASE i = 1 \/ j = 1
    BY <1>2, <1>3, <2>1 DEF IsFree
  <2>2. CASE i # 1 /\ j # 1
    <3>1. i - 1 \in 1 .. Len(freeBlocks) /\ j - 1 \in 1 .. Len(freeBlocks) /\ freeBlocks[i - 1] = freeBlocks[j - 1]
      BY <1>3, <2>2
    <3>2. i - 1 = j - 1
      BY <3>1 DEF Stack
    <3> QED
      BY <1>1, <1>2, <3>2
  <2> QED
    BY <2>1, <2>2
<1>7. Len(freeBlocks') >= Unused'
  BY <1>1, <1>2 DEF Stack
<1> QED
  BY <1>4, <1>5, <1>6, <1>7 DEF Stack

\* The buffers from N on are in the list.
LEMMA UnusedFree ==
  ASSUME Types, Stack, NEW f \in Blocks, f >= N
  PROVE  IsFree(f)
<1> DEFINE i == f - MaxBlocks + Len(freeBlocks) + 1
<1>1. /\ N \in Nat /\ MaxBlocks \in Nat /\ N <= MaxBlocks /\ f \in Nat /\ f < MaxBlocks
      /\ Len(freeBlocks) \in Nat /\ Len(freeBlocks) >= MaxBlocks - N
  BY RingTypesFacts DEF Types, RingTypes, Stack, Unused
<1>2. i \in 1 .. Len(freeBlocks) /\ i > Len(freeBlocks) - (MaxBlocks - N) /\ MaxBlocks - Len(freeBlocks) + i - 1 = f
  BY <1>1
<1> HIDE DEF i
<1>3. freeBlocks[i] = f
  BY <1>2 DEF Stack, Unused
<1> QED
  BY <1>2, <1>3 DEF IsFree

\* A block has at most one buffer, and is in use.
LEMMA OneBuffer ==
  ASSUME Types, NEW w, NEW n, NEW done, Ring(w, n, done), NEW b \in Blocks, NEW f \in Blocks, Owns(b, f)
  PROVE  InUse(w, n, b) /\ \A g \in Blocks : Owns(b, g) => f = g
<1>1. \A u \in Threads : pc[u] \in BufferAt => Holds(u) /\ ~Takes(u)
  BY DEF BufferAt, Holds, HoldAt, HasTurn, Takes
<1>2. \A u \in Threads : Takes(u) => Holds(u)
  BY DEF Takes, Holds, HasTurn
<1>3. CASE Waits(b)
  <2>1. InUse(w, n, b)
    BY <1>2, <1>3 DEF Ring, Slots, Waits
  <2>2. \A u \in Threads : pc[u] \in BufferAt => loc[u].bi # b
    BY <1>1, <1>3, AloneBlock
  <2> QED
    BY <2>1, <2>2 DEF Owns, Has
<1>4. CASE ~Waits(b)
  <2>1. PICK u \in Threads : Has(u, b, f)
    BY <1>4 DEF Owns
  <2>2. Holds(u) /\ loc[u].bi = b /\ loc[u].bufIndex = f
    BY <1>1, <2>1 DEF Has
  <2>3. \A v \in Threads, g \in Blocks : Has(v, b, g) => v = u
    BY <1>1, <2>2 DEF Has, Ring, Slots
  <2>4. \A g \in Blocks : Owns(b, g) => f = g
    BY <1>4, <2>2, <2>3 DEF Owns, Has
  <2>5. InUse(w, n, b)
    BY <2>2 DEF Ring, Slots
  <2> QED
    BY <2>4, <2>5
<1> QED
  BY <1>3, <1>4

\* A thread with a block and no buffer finds one in the list: each buffer that is not
\* there belongs to another block of the ring.
LEMMA BufferLeft ==
  ASSUME Types, NEW w, NEW n, NEW done, Ring(w, n, done), NEW t \in Threads, pc[t] = "getBuf"
  PROVE  Len(freeBlocks) > Unused
<1> SUFFICES ASSUME Len(freeBlocks) <= Unused
             PROVE  FALSE
  BY RingTypesFacts DEF Types, RingTypes, Unused
<1>1. /\ N \in Nat /\ MaxBlocks \in Nat /\ N <= MaxBlocks /\ freeBlocks \in Seq(Blocks)
      /\ Len(freeBlocks) = MaxBlocks - N /\ Stack /\ Owners
  BY RingTypesFacts DEF Types, RingTypes, Unused, Ring, Stack
<1> DEFINE S == 0 .. N - 1
           bt == loc[t].bi
           G == [f \in S |-> CHOOSE b \in Blocks : Owns(b, f)]
<1>2. \A f \in S : f \in Blocks /\ ~IsFree(f)
  <2> SUFFICES ASSUME NEW f \in S, NEW i \in 1 .. Len(freeBlocks), freeBlocks[i] = f
               PROVE  FALSE
    BY RingTypesFacts DEF IsFree
  <2>1. freeBlocks[i] = MaxBlocks - Len(freeBlocks) + i - 1
    BY <1>1 DEF Stack, Unused
  <2> QED
    BY <1>1, <2>1
<1>3. bt \in S /\ bt \in Blocks /\ \A f \in Blocks : ~Owns(bt, f)
  <2>1. Holds(t) /\ ~Takes(t)
    BY DEF Holds, HoldAt, Takes
  <2>2. ~Waits(bt) /\ InUse(w, n, bt) /\ bt \in Blocks /\ bt \in Nat
    <3>1. ~Waits(bt)
      BY <2>1, AloneBlock
    <3>2. InUse(w, n, bt)
      BY <2>1 DEF Ring, Slots
    <3> QED
      BY <3>1, <3>2, RingTypesFacts
  <2>3. \A u \in Threads : pc[u] \in BufferAt /\ loc[u].bi = bt => u = t
    BY <2>1 DEF Ring, Slots, BufferAt, Holds, HoldAt, HasTurn
  <2>4. \A u \in Threads, f \in Blocks : ~Has(u, bt, f)
    BY <2>3 DEF Has, BufferAt
  <2> QED
    BY <1>1, <2>2, <2>4 DEF Owns, InUse
<1>4. \A f \in S : G[f] \in Blocks /\ Owns(G[f], f)
  <2> SUFFICES ASSUME NEW f \in S
               PROVE  G[f] \in Blocks /\ Owns(G[f], f)
    OBVIOUS
  <2>1. \E b \in Blocks : Owns(b, f)
    BY <1>1, <1>2 DEF Owners
  <2> QED
    BY <2>1
<1> HIDE DEF G
<1>5. \A f \in S : G[f] \in S \ {bt}
  <2> SUFFICES ASSUME NEW f \in S
               PROVE  G[f] \in S \ {bt}
    OBVIOUS
  <2>1. InUse(w, n, G[f]) /\ G[f] \in Nat
    BY <1>2, <1>4, OneBuffer, RingTypesFacts
  <2>2. G[f] # bt
    BY <1>2, <1>3, <1>4
  <2> QED
    BY <1>1, <2>1, <2>2 DEF InUse
<1>6. G \in [S -> S \ {bt}]
  BY <1>5 DEF G
<1>7. IsFiniteSet(S) /\ Cardinality(S) = N /\ IsFiniteSet(S \ {bt}) /\ Cardinality(S \ {bt}) = N - 1
  <2>1. IsFiniteSet(S) /\ Cardinality(S) = IF 0 > N - 1 THEN 0 ELSE (N - 1) - 0 + 1
    <3>1. 0 \in Int /\ N - 1 \in Int
      BY <1>1
    <3> QED
      BY <3>1, FS_Interval
  <2>2. Cardinality(S) = N
    BY <1>1, <2>1
  <2>3. IsFiniteSet(S \ {bt}) /\ Cardinality(S \ {bt}) = Cardinality(S) - 1
    <3> HIDE DEF S, bt
    <3> QED
      BY <1>3, <2>1, FS_RemoveElement
  <2> QED
    BY <2>1, <2>2, <2>3
<1>8. PICK f \in S, g \in S : f # g /\ G[f] = G[g]
  <2>1. Cardinality(S \ {bt}) < Cardinality(S)
    BY <1>1, <1>7
  <2> HIDE DEF S, bt
  <2> QED
    BY <1>6, <1>7, <2>1, FS_PigeonHole
<1> QED
  BY <1>2, <1>4, <1>8, OneBuffer

LEMMA GetBuf_Ring ==
  ASSUME Types, Created, Turn, Token, OutputTypes, NEW w \in Nat, NEW n \in Nat, NEW done \in Nat,
         Ring(w, n, done), NEW t \in Threads, GetBuf(t)
  PROVE  Ring(w, n, done)'
<1> DEFINE g == freeBlocks[1]
           bt == loc[t].bi
<1>1. Slots(w, n)'
  BY SlotsAside, GetBuf_Effects DEF Ring, Holds, HasTurn, HoldAt
<1>2. /\ freeBlocks # <<>> /\ freeBlocks' = Tail(freeBlocks) /\ loc'[t].bufIndex = g
      /\ Len(freeBlocks) > Unused
  <2>1. Len(freeBlocks) > Unused /\ Unused \in Nat /\ freeBlocks \in Seq(Blocks)
    BY GetBuf_Effects, BufferLeft, RingTypesFacts DEF Types, RingTypes, Unused
  <2>2. freeBlocks # <<>>
    BY <2>1
  <2>3. freeBlocks' = Tail(freeBlocks) /\ loc'[t].bufIndex = Head(freeBlocks)
    BY <2>2, GetBuf_Effects
  <2> QED
    BY <2>1, <2>2, <2>3
<1>3. /\ g \in Blocks /\ g < N /\ IsFree(g) /\ Stack'
      /\ \A f \in Blocks : IsFree(f)' <=> IsFree(f) /\ f # g
  BY <1>2, PopStack, GetBuf_Effects DEF Ring
<1>4. \A b \in Blocks : Waits(b)' <=> Waits(b)
  BY GetBuf_Effects DEF Waits, Takes, Others
<1>5. bt \in Blocks /\ \A b, f \in Blocks : Owns(b, f)' <=> Owns(b, f) \/ (b = bt /\ f = g)
  <2>1. \A b, f \in Blocks : Has(t, b, f)' <=> b = bt /\ f = g
    BY <1>2, GetBuf_Effects DEF Has, BufferAt
  <2>2. \A b, f \in Blocks : ~Has(t, b, f)
    BY GetBuf_Effects DEF Has, BufferAt
  <2>3. \A u \in Threads \ {t}, b, f \in Blocks : Has(u, b, f)' <=> Has(u, b, f)
    BY GetBuf_Effects DEF Has, BufferAt, Others
  <2>4. blocks' = blocks /\ bt \in Blocks
    BY GetBuf_Effects, RingTypesFacts
  <2> HIDE DEF bt, g
  <2> QED
    BY <1>4, <2>1, <2>2, <2>3, <2>4 DEF Owns
<1> HIDE DEF bt, g
<1>6. Owners'
  <2>1. \A b \in Blocks : ~Owns(b, g)
    BY <1>3 DEF Ring, Owners
  <2>2. \A b, c, f \in Blocks : Owns(b, f)' /\ Owns(c, f)' => b = c
    BY <1>5, <2>1 DEF Ring, Owners
  <2>3. \A b, f \in Blocks : Owns(b, f)' => ~IsFree(f)'
    BY <1>3, <1>5, <2>1 DEF Ring, Owners
  <2>4. \A f \in Blocks : IsFree(f)' \/ \E b \in Blocks : Owns(b, f)'
    BY <1>3, <1>5 DEF Ring, Owners
  <2> QED
    BY <2>2, <2>3, <2>4 DEF Owners
<1>7. \A u \in Threads \ {t} : ThreadOK(w, n, done, u)'
  BY OtherThread, Facts, GetBuf_Effects DEF Ring
<1>8. ThreadOK(w, n, done, t)'
  <2>1. Buffer(t)'
    BY <1>2, <1>3, GetBuf_Effects, SmallTypes DEF Ring, ThreadOK, Buffer, Holds, HasTurn, HoldAt, g
  <2>2. Reads(n, done, t)'
    BY GetBuf_Effects DEF Reads
  <2>3. Chunk(w, done, t)'
    BY GetBuf_Effects DEF Ring, ThreadOK, Chunk, HoldAt, Pos, N
  <2> QED
    BY <2>1, <2>2, <2>3 DEF ThreadOK
<1>9. \A b \in Blocks : BlockOK(w, done, b)'
  <2>1. /\ blocks' = blocks /\ content' = content /\ numBlocksMax' = numBlocksMax
        /\ readProcessed' = readProcessed /\ (mtRes # OK => mtRes' # OK)
    BY GetBuf_Effects
  <2> QED
    BY <1>4, <2>1, BlocksAside
<1>10. Progress(n, done)'
  BY GetBuf_Effects DEF Ring, Progress, LastDone, ReadingAt, Others
<1> QED
  BY <1>1, <1>3, <1>6, <1>7, <1>8, <1>9, <1>10 DEF Ring

\* The owners of the buffers stay when the list and what each block owns stay.
LEMMA OwnersKept ==
  ASSUME Stack, Owners, UNCHANGED <<numBlocksMax, freeBlocks>>,
         \A b, f \in Blocks : Owns(b, f)' <=> Owns(b, f)
  PROVE  Stack' /\ Owners'
<1>1. Stack' /\ \A f \in Blocks : IsFree(f)' <=> IsFree(f)
  BY DEF Stack, IsFree, Unused, N
<1> QED
  BY <1>1 DEF Owners

LEMMA Publish_Ring ==
  ASSUME Types, Created, Turn, Token, OutputTypes, NEW w \in Nat, NEW n \in Nat, NEW done \in Nat,
         Ring(w, n, done), NEW t \in Threads, Publish(t)
  PROVE  Ring(w, n, done)'
<1> DEFINE bt == loc[t].bi
           turn == writeIndex = bt
<1>1. Slots(w, n)'
  BY Publish_Slots DEF Ring
<1>2. Holds(t) /\ ~Takes(t) /\ ~Takes(t)' /\ bt \in Blocks /\ ~Waits(bt) /\ pc[t] = "publish"
  <2>1. Holds(t) /\ ~Takes(t) /\ ~Takes(t)' /\ pc[t] = "publish"
    BY Publish_Effects DEF Holds, HoldAt, Takes
  <2> QED
    BY <2>1, AloneBlock, RingTypesFacts
<1>3. /\ \A b \in Blocks : b # bt => blocks'[b] = blocks[b]
      /\ blocks'[bt].res = loc[t].res /\ blocks'[bt].bufIndex = loc[t].bufIndex
  <2>1. blocks' = [blocks EXCEPT ![bt] = [res |-> loc[t].res, bufIndex |-> loc[t].bufIndex,
                                          finished |-> loc[t].finished]]
    BY Publish_Effects
  <2>2. blocks \in [Blocks -> Block]
    BY DEF Types, RingTypes
  <2> HIDE DEF bt
  <2>3. blocks'[bt] = [res |-> loc[t].res, bufIndex |-> loc[t].bufIndex, finished |-> loc[t].finished]
    BY <1>2, <2>1, <2>2
  <2> QED
    BY <2>1, <2>2, <2>3
<1>4. turn => /\ pc'[t] = "write" /\ ReadyBlocks' = ReadyBlocks /\ loc'[t].bi = bt
              /\ loc'[t].bufIndex = loc[t].bufIndex /\ bt = w
              /\ loc'[t].res = IF writeRes # OK THEN writeRes ELSE loc[t].res
  <2> SUFFICES ASSUME turn
               PROVE  /\ pc'[t] = "write" /\ ReadyBlocks' = ReadyBlocks /\ loc'[t].bi = bt
                      /\ loc'[t].bufIndex = loc[t].bufIndex /\ bt = w
                      /\ loc'[t].res = IF writeRes # OK THEN writeRes ELSE loc[t].res
    OBVIOUS
  <2>1. bt = w
    BY <1>2, SmallTypes DEF Ring, Slots
  <2>2. /\ pc'[t] = "write" /\ ReadyBlocks' = ReadyBlocks /\ loc'[t].bi = bt
        /\ loc'[t].bufIndex = loc[t].bufIndex
        /\ loc'[t].res = IF writeRes # OK THEN writeRes ELSE loc[t].res
    BY Publish_Effects
  <2> QED
    BY <2>1, <2>2
<1>5. ~turn => /\ pc'[t] \in {"getRead", "countFinished"}
               /\ \A b \in Blocks : ReadyBlocks'[b] <=> ReadyBlocks[b] \/ b = bt
  BY <1>2, Publish_Effects DEF Types, RingTypes
<1>6. \A u \in Threads \ {t} : /\ loc'[u] = loc[u] /\ (Takes(u)' <=> Takes(u))
                               /\ pc'[u] \in BufferAt <=> pc[u] \in BufferAt
  BY Publish_Effects DEF Others, Takes, BufferAt
<1>7. \A b \in Blocks : Waits(b)' <=> Waits(b) \/ (b = bt /\ ~turn)
  <2>1. \A b \in Blocks : ReadyBlocks'[b] <=> ReadyBlocks[b] \/ (b = bt /\ ~turn)
    BY <1>4, <1>5
  <2> HIDE DEF bt, turn
  <2> QED
    BY <1>2, <1>6, <2>1 DEF Waits
<1>8. \A b, f \in Blocks : Owns(b, f)' <=> Owns(b, f)
  <2>1. \A u \in Threads \ {t}, b, f \in Blocks : Has(u, b, f)' <=> Has(u, b, f)
    BY <1>6 DEF Has
  <2>2. \A b, f \in Blocks : Has(t, b, f) <=> b = bt /\ f = loc[t].bufIndex
    BY <1>2 DEF Has, BufferAt
  <2>3. \A b, f \in Blocks : Has(t, b, f)' <=> turn /\ b = bt /\ f = loc[t].bufIndex
    BY <1>4, <1>5 DEF Has, BufferAt
  <2> HIDE DEF bt, turn
  <2> QED
    BY <1>2, <1>3, <1>7, <2>1, <2>2, <2>3 DEF Owns
<1>9. Stack' /\ Owners'
  BY <1>8, OwnersKept, Publish_Effects DEF Ring
<1>10. \A u \in Threads \ {t} : ThreadOK(w, n, done, u)'
  BY OtherThread, Facts, Publish_Effects DEF Ring
<1>11. ThreadOK(w, n, done, t)'
  <2>1. CASE turn
    <3>1. Buffer(t)'
      BY <1>2, <1>4, <2>1, Publish_Effects, SmallTypes DEF Ring, ThreadOK, Buffer, Progress
    <3>2. Reads(n, done, t)'
      BY <1>4, <2>1 DEF Reads
    <3>3. Pos(w, bt) = 0 /\ done + 0 + 1 = done + 1
      BY <1>4, <2>1 DEF Pos
    <3>4. loc'[t].res = OK => content[loc[t].bufIndex] = done + 1 /\ done + 1 <= readProcessed
      <4> HIDE DEF turn, bt
      <4> QED
        BY <1>2, <1>4, <2>1, <3>3 DEF Ring, ThreadOK, Chunk, HoldAt, bt
    <3>5. Chunk(w, done, t)'
      BY <1>4, <2>1, <3>4, Publish_Effects DEF Chunk, HoldAt
    <3> QED
      BY <3>1, <3>2, <3>5 DEF ThreadOK
  <2>2. CASE ~turn
    BY <1>5, <2>2 DEF ThreadOK, Buffer, Reads, Chunk, Holds, HoldAt, HasTurn
  <2> QED
    BY <2>1, <2>2
<1>12. \A b \in Blocks : BlockOK(w, done, b)'
  <2> SUFFICES ASSUME NEW b \in Blocks
               PROVE  BlockOK(w, done, b)'
    OBVIOUS
  <2>1. CASE b # bt
    <3>1. BlockOK(w, done, b) /\ (Waits(b)' => Waits(b)) /\ blocks'[b] = blocks[b]
      BY <1>3, <1>7, <2>1 DEF Ring
    <3>2. UNCHANGED <<readProcessed, content, numBlocksMax, mtRes>> /\ readProcessed \in Nat
      BY Facts, Publish_Effects
    <3> QED
      BY <3>1, <3>2, OtherBlocks
  <2>2. CASE b = bt
    <3>1. UNCHANGED <<readProcessed, content, numBlocksMax, mtRes>>
      BY Publish_Effects
    <3>2. Pos(w, b)' = Pos(w, b)
      BY <3>1 DEF Pos, N
    <3>3. loc[t].res # OK => mtRes # OK
      BY <1>2 DEF Ring, ThreadOK, Buffer
    <3>4. loc[t].res = OK => /\ loc[t].bufIndex # None
                             /\ content[loc[t].bufIndex] = done + Pos(w, bt) + 1
                             /\ done + Pos(w, bt) + 1 <= readProcessed
      BY <1>2 DEF Ring, ThreadOK, Buffer, Chunk, HoldAt
    <3> HIDE DEF bt
    <3> QED
      BY <1>3, <2>2, <3>1, <3>2, <3>3, <3>4 DEF BlockOK
  <2> QED
    BY <2>1, <2>2
<1>13. Progress(n, done)'
  <2>1. (\E u \in Threads : pc'[u] = "advance") <=> (\E u \in Threads : pc[u] = "advance")
    BY <1>2, <1>4, <1>5, Publish_Effects DEF Others
  <2>2. (\A u \in Threads : pc'[u] \notin ReadingAt) => (\A u \in Threads : pc[u] \notin ReadingAt)
    BY <1>2, Publish_Effects DEF Others, ReadingAt
  <2> QED
    BY <2>1, <2>2, Publish_Effects DEF Ring, Progress, LastDone
<1> QED
  BY <1>1, <1>9, <1>10, <1>11, <1>12, <1>13 DEF Ring

LEMMA TakeReady_Ring ==
  ASSUME Types, Created, Turn, Token, OutputTypes, NEW w \in Nat, NEW n \in Nat, NEW done \in Nat,
         Ring(w, n, done), NEW t \in Threads, TakeReady(t)
  PROVE  Ring(w, n, done)'
<1>1. Slots(w, n)'
  BY SlotsAside, TakeReady_Effects DEF Ring, Holds, HasTurn, HoldAt
<1>2. /\ Takes(t) /\ ~Takes(t)' /\ Holds(t) /\ HasTurn(t) /\ loc[t].bi = w /\ w \in Blocks /\ Waits(w)
      /\ ~ReadyBlocks[w] /\ pc[t] = "takeReady"
  <2>1. Takes(t) /\ ~Takes(t)' /\ Holds(t) /\ HasTurn(t) /\ pc[t] = "takeReady"
    BY TakeReady_Effects DEF Holds, HasTurn, Takes
  <2>2. loc[t].bi = w /\ ~ReadyBlocks[w]
    BY <2>1 DEF Ring, Slots
  <2> QED
    BY <2>1, <2>2, RingTypesFacts DEF Waits
<1>3. \A u \in Threads \ {t} : /\ loc'[u] = loc[u] /\ (Takes(u)' <=> Takes(u)) /\ ~HasTurn(u)
                               /\ pc'[u] \in BufferAt <=> pc[u] \in BufferAt
  BY <1>2, TakeReady_Effects DEF Others, Takes, BufferAt, Turn
<1>4. \A b \in Blocks : Waits(b)' <=> Waits(b) /\ b # w
  <2>1. \A u \in Threads \ {t} : ~Takes(u) /\ ~Takes(u)'
    BY <1>3 DEF Takes, HasTurn
  <2>2. ReadyBlocks' = ReadyBlocks
    BY TakeReady_Effects
  <2> QED
    BY <1>2, <2>1, <2>2 DEF Waits
<1>5. \A b, f \in Blocks : Owns(b, f)' <=> Owns(b, f)
  <2>1. \A u \in Threads \ {t}, b, f \in Blocks : Has(u, b, f)' <=> Has(u, b, f)
    BY <1>3 DEF Has
  <2>2. \A b, f \in Blocks : ~Has(t, b, f)
    BY <1>2 DEF Has, BufferAt
  <2>3. \A b, f \in Blocks : Has(t, b, f)' <=> b = w /\ f = blocks[w].bufIndex
    BY <1>2, TakeReady_Effects DEF Has, BufferAt
  <2>4. blocks' = blocks
    BY TakeReady_Effects
  <2> QED
    BY <1>2, <1>4, <2>1, <2>2, <2>3, <2>4 DEF Owns
<1>6. Stack' /\ Owners'
  BY <1>5, OwnersKept, TakeReady_Effects DEF Ring
<1>7. \A u \in Threads \ {t} : ThreadOK(w, n, done, u)'
  BY OtherThread, Facts, TakeReady_Effects DEF Ring
<1>8. ThreadOK(w, n, done, t)'
  <2>1. BlockOK(w, done, w) /\ Buffer(t) /\ Pos(w, w) = 0 /\ done + 0 + 1 = done + 1
    BY <1>2 DEF Ring, ThreadOK, Pos
  <2>2. Buffer(t)'
    BY <1>2, <2>1, TakeReady_Effects DEF Buffer, BlockOK
  <2>3. Reads(n, done, t)'
    BY TakeReady_Effects DEF Reads
  <2>4. Chunk(w, done, t)'
    BY <1>2, <2>1, TakeReady_Effects DEF Chunk, BlockOK, HoldAt
  <2> QED
    BY <2>2, <2>3, <2>4 DEF ThreadOK
<1>9. \A b \in Blocks : BlockOK(w, done, b)'
  <2>1. /\ blocks' = blocks /\ content' = content /\ numBlocksMax' = numBlocksMax
        /\ readProcessed' = readProcessed /\ (mtRes # OK => mtRes' # OK)
    BY TakeReady_Effects
  <2> QED
    BY <1>4, <2>1, BlocksAside
<1>10. Progress(n, done)'
  BY TakeReady_Effects DEF Ring, Progress, LastDone, ReadingAt, Others
<1> QED
  BY <1>1, <1>6, <1>7, <1>8, <1>9, <1>10 DEF Ring

\* The place of a block after the first one has left.
LEMMA PosNext ==
  ASSUME NEW w \in Nat, NEW b \in Nat, NEW w1, w1 = NextBlock(w), N \in Nat, w < N, b < N, b # w
  PROVE  Pos(w1, b) = Pos(w, b) - 1 /\ Pos(w, b) \in Int
BY DEF Pos, NextBlock, N

LEMMA Advance_Ring ==
  ASSUME Types, Created, Turn, Token, OutputTypes, NEW w \in Nat, NEW n \in Nat, NEW done \in Nat,
         Ring(w, n, done), NEW t \in Threads, Advance(t), NEW w1 \in Nat, w1 = NextBlock(w)
  PROVE  n > 0 /\ Ring(w1, n - 1, done + 1)'
<1> DEFINE g == loc[t].bufIndex
<1>1. n > 0 /\ loc[t].bi = w /\ Slots(w1, n - 1)'
  BY Advance_Slots DEF Ring
<1>2. /\ Holds(t) /\ HasTurn(t) /\ ~Takes(t) /\ w \in Blocks /\ w1 \in Blocks /\ ~Waits(w) /\ pc[t] = "advance"
      /\ w < N /\ N \in Nat
  <2>1. Holds(t) /\ HasTurn(t) /\ ~Takes(t) /\ pc[t] = "advance"
    BY Advance_Effects DEF Holds, HasTurn, Takes
  <2>2. ~Waits(w) /\ w \in Blocks
    BY <1>1, <2>1, AloneBlock, RingTypesFacts
  <2>3. w < N /\ N \in Nat
    BY RingTypesFacts DEF Ring, Slots
  <2>4. w1 < N
    BY <2>3 DEF NextBlock, N
  <2> QED
    BY <2>1, <2>2, <2>3, <2>4, RingTypesFacts
<1>3. \A u \in Threads \ {t} : /\ loc'[u] = loc[u] /\ (Takes(u)' <=> Takes(u)) /\ ~HasTurn(u)
                               /\ pc'[u] \in BufferAt <=> pc[u] \in BufferAt
                               /\ Holds(u) => loc[u].bi # w
  <2> SUFFICES ASSUME NEW u \in Threads \ {t}
               PROVE  /\ loc'[u] = loc[u] /\ (Takes(u)' <=> Takes(u)) /\ ~HasTurn(u)
                      /\ pc'[u] \in BufferAt <=> pc[u] \in BufferAt
                      /\ Holds(u) => loc[u].bi # w
    OBVIOUS
  <2>1. loc'[u] = loc[u] /\ (Takes(u)' <=> Takes(u)) /\ (pc'[u] \in BufferAt <=> pc[u] \in BufferAt)
    BY Advance_Effects DEF Others, Takes, BufferAt
  <2>2. ~HasTurn(u)
    BY <1>2 DEF Turn
  <2>3. Holds(u) => loc[u].bi # w
    BY <1>1, <1>2 DEF Ring, Slots
  <2> QED
    BY <2>1, <2>2, <2>3
<1>4. \A b \in Blocks : Waits(b)' <=> Waits(b)
  <2>1. \A b \in Blocks : ReadyBlocks'[b] <=> ReadyBlocks[b] /\ b # w1
    <3>1. CASE ReadyBlocks[w1]
      <4>1. ReadyBlocks' = [ReadyBlocks EXCEPT ![w1] = FALSE] /\ ReadyBlocks \in [Blocks -> BOOLEAN]
        BY <1>1, <3>1, Advance_Effects DEF Types, RingTypes
      <4> QED
        BY <1>2, <4>1
    <3>2. CASE ~ReadyBlocks[w1]
      BY <1>1, <3>2, Advance_Effects
    <3> QED
      BY <3>1, <3>2
  <2>2. (Takes(t)' <=> ReadyBlocks[w1]) /\ loc'[t].bi = w1
    BY <1>1, Advance_Effects DEF Takes
  <2>3. \A u \in Threads \ {t} : ~Takes(u) /\ ~Takes(u)'
    BY <1>3 DEF Takes, HasTurn
  <2> QED
    BY <1>2, <2>1, <2>2, <2>3 DEF Waits
<1>5. /\ \A b, f \in Blocks : Owns(b, f)' <=> Owns(b, f) /\ b # w
      /\ \A f \in Blocks : Owns(w, f) <=> f = g
  <2>1. \A u \in Threads \ {t}, b, f \in Blocks : (Has(u, b, f)' <=> Has(u, b, f)) /\ (Has(u, b, f) => b # w)
    BY <1>3 DEF Has, BufferAt, Holds, HoldAt, HasTurn
  <2>2. \A b, f \in Blocks : (Has(t, b, f) <=> b = w /\ f = g) /\ ~Has(t, b, f)'
    BY <1>1, <1>2, Advance_Effects DEF Has, BufferAt
  <2>3. blocks' = blocks
    BY Advance_Effects
  <2> HIDE DEF g
  <2> QED
    BY <1>2, <1>4, <2>1, <2>2, <2>3 DEF Owns
<1>6. /\ Stack'
      /\ \A f \in Blocks : IsFree(f)' <=> IsFree(f) \/ f = g
  <2>1. Stack /\ Owners /\ numBlocksMax' = numBlocksMax /\ g \in Blocks \cup {None}
    BY Advance_Effects, Facts DEF Ring
  <2>2. CASE g = None
    <3>1. freeBlocks' = freeBlocks
      BY <2>2, Advance_Effects
    <3>2. \A f \in Blocks : f # g
      BY <2>2, SmallTypes
    <3> QED
      BY <2>1, <3>1, <3>2 DEF Stack, IsFree, Unused, N
  <2>3. CASE g # None
    <3>1. freeBlocks' = <<g>> \o freeBlocks /\ g \in Blocks
      BY <2>1, <2>3, Advance_Effects
    <3>2. ~IsFree(g)
      BY <1>2, <1>5, <2>1, <3>1 DEF Owners
    <3>3. g < N
      BY <2>1, <3>1, <3>2, UnusedFree, RingTypesFacts
    <3> QED
      BY <2>1, <3>1, <3>2, <3>3, PushStack
  <2> QED
    BY <2>2, <2>3
<1>7. Owners'
  <2> HIDE DEF g
  <2>1. \A b, c, f \in Blocks : Owns(b, f)' /\ Owns(c, f)' => b = c
    BY <1>5 DEF Ring, Owners
  <2>2. \A b, f \in Blocks : Owns(b, f)' => ~IsFree(f)'
    BY <1>2, <1>5, <1>6 DEF Ring, Owners
  <2>3. \A f \in Blocks : IsFree(f)' \/ \E b \in Blocks : Owns(b, f)'
    BY <1>5, <1>6 DEF Ring, Owners
  <2> QED
    BY <2>1, <2>2, <2>3 DEF Owners
<1>8. UNCHANGED <<readProcessed, content, blocks, numBlocksMax, mtRes, stopReading, written, writeRes>>
  BY Advance_Effects
<1>9. \A u \in Threads \ {t} : ThreadOK(w1, n - 1, done + 1, u)'
  <2> SUFFICES ASSUME NEW u \in Threads \ {t}
               PROVE  ThreadOK(w1, n - 1, done + 1, u)'
    OBVIOUS
  <2>1. /\ ThreadOK(w, n, done, u) /\ ~HasTurn(u) /\ loc'[u] = loc[u]
        /\ pc'[u] = pc[u] \/ (pc[u] = "exited" /\ pc'[u] = "start")
    BY <1>3, Advance_Effects DEF Ring, Others
  <2>2. (done + 1) + (n - 1) = done + n /\ (done + 1) + (n - 1) + 1 = done + n + 1
    OBVIOUS
  <2>3. Holds(u) => (done + 1) + Pos(w1, loc[u].bi)' + 1 = done + Pos(w, loc[u].bi) + 1
    <3> SUFFICES ASSUME Holds(u)
                 PROVE  (done + 1) + Pos(w1, loc[u].bi)' + 1 = done + Pos(w, loc[u].bi) + 1
      OBVIOUS
    <3>1. loc[u].bi \in Nat /\ loc[u].bi < N /\ loc[u].bi # w
      BY <1>3, RingTypesFacts DEF Ring, Slots, InUse
    <3>2. Pos(w1, loc[u].bi)' = Pos(w1, loc[u].bi)
      BY <1>8, <2>1 DEF Pos, N
    <3>3. Pos(w1, loc[u].bi) = Pos(w, loc[u].bi) - 1 /\ Pos(w, loc[u].bi) \in Int
      BY <1>2, <3>1, PosNext
    <3> QED
      BY <3>2, <3>3
  <2>4. Buffer(u)'
    BY <1>8, <2>1 DEF ThreadOK, Buffer, Holds, HoldAt, HasTurn
  <2>5. Reads(n - 1, done + 1, u)'
    BY <1>8, <2>1, <2>2 DEF ThreadOK, Reads
  <2>6. Chunk(w1, done + 1, u)'
    BY <1>8, <2>1, <2>3 DEF ThreadOK, Chunk, HoldAt, Holds, HasTurn
  <2> QED
    BY <2>4, <2>5, <2>6 DEF ThreadOK
<1>10. ThreadOK(w1, n - 1, done + 1, t)'
  <2>1. pc'[t] = "releaseBlock" /\ loc'[t].res = loc[t].res /\ Buffer(t)
    BY Advance_Effects DEF Ring, ThreadOK
  <2> QED
    BY <1>2, <1>8, <2>1 DEF ThreadOK, Buffer, Reads, Chunk, Holds, HoldAt, HasTurn
<1>11. \A b \in Blocks : BlockOK(w1, done + 1, b)'
  <2> SUFFICES ASSUME NEW b \in Blocks, Waits(b)
               PROVE  BlockOK(w1, done + 1, b)'
    BY <1>4 DEF BlockOK
  <2>1. b \in Nat /\ b < N /\ b # w
    <3>1. InUse(w, n, b)
      BY DEF Ring, Slots, Waits, Takes, Holds, HasTurn
    <3> QED
      BY <1>2, <3>1, RingTypesFacts DEF InUse
  <2>2. (done + 1) + Pos(w1, b)' + 1 = done + Pos(w, b) + 1
    <3>1. Pos(w1, b)' = Pos(w1, b)
      BY <1>8 DEF Pos, N
    <3>2. Pos(w1, b) = Pos(w, b) - 1 /\ Pos(w, b) \in Int
      BY <1>2, <2>1, PosNext
    <3> QED
      BY <3>1, <3>2
  <2>3. BlockOK(w, done, b)
    BY DEF Ring
  <2> QED
    BY <1>4, <1>8, <2>2, <2>3 DEF BlockOK
<1>12. Progress(n - 1, done + 1)'
  <2>1. LastDone(done) = done + 1 /\ LastDone(done + 1)' = done + 1
    <3>1. \A u \in Threads \ {t} : pc[u] # "advance"
      BY <1>3 DEF HasTurn
    <3>2. \A u \in Threads \ {t} : pc'[u] = pc[u] \/ pc'[u] = "start"
      BY Advance_Effects DEF Others
    <3>3. pc'[t] # "advance"
      BY Advance_Effects
    <3>4. \A u \in Threads : pc'[u] # "advance"
      BY <3>1, <3>2, <3>3
    <3> QED
      BY <1>2, <3>4 DEF LastDone
  <2>2. (done + 1) + (n - 1) = done + n
    OBVIOUS
  <2>3. (\A u \in Threads : pc'[u] \notin ReadingAt) => (\A u \in Threads : pc[u] \notin ReadingAt)
    BY <1>2, Advance_Effects DEF Others, ReadingAt
  <2> QED
    BY <1>8, <2>1, <2>2, <2>3 DEF Ring, Progress
<1> QED
  BY <1>1, <1>6, <1>7, <1>9, <1>10, <1>11, <1>12 DEF Ring

-------------------------------------------------------------------------------
(* The steps outside the ring.                                              *)

Outside == {"exited", "start", "getRead", "passStop", "countFinished", "compare"}
ring == <<numBlocksMax, stopReading, blockIndex, readProcessed, writeRes, writeIndex,
          ReadyBlocks, blocks, content, written, blocksSemaphore, freeBlocks, mtRes>>

LEMMA RingAside ==
  ASSUME Types, NEW w \in Nat, NEW n \in Nat, NEW done \in Nat, Ring(w, n, done), UNCHANGED ring,
         \A u \in Threads : (loc'[u] = loc[u] /\ pc'[u] = pc[u]) \/ (pc[u] \in Outside /\ pc'[u] \in Outside)
  PROVE  Ring(w, n, done)'
<1>1. /\ UNCHANGED <<numBlocksMax, stopReading, blockIndex, readProcessed, writeRes>>
      /\ UNCHANGED <<writeIndex, ReadyBlocks, blocks, content, written, blocksSemaphore, freeBlocks, mtRes>>
  BY DEF ring
<1>2. \A u \in Threads : /\ Holds(u)' <=> Holds(u)
                         /\ HasTurn(u)' <=> HasTurn(u)
                         /\ Takes(u)' <=> Takes(u)
                         /\ Holds(u) => loc'[u] = loc[u] /\ pc'[u] = pc[u]
  BY DEF Outside, Holds, HasTurn, HoldAt, Takes
<1>3. \A u \in Threads : (Takes(u) => Holds(u)) /\ (HasTurn(u) => Holds(u))
  BY DEF Takes, Holds, HasTurn
<1>4. Slots(w, n)'
  <2>1. Releasing' = Releasing
    BY DEF Outside, Releasing
  <2>2. \A b : InUse(w, n, b)' <=> InUse(w, n, b)
    BY <1>1 DEF InUse, Pos, N
  <2>3. \A u \in Threads : Holds(u)' => InUse(w, n, loc[u].bi)' /\ ~ReadyBlocks'[loc'[u].bi]
    BY <1>1, <1>2 DEF Ring, Slots, InUse, Pos, N
  <2> QED
    BY <1>1, <1>2, <1>3, <2>1, <2>2, <2>3 DEF Ring, Slots, N
<1>5. \A b \in Blocks : Waits(b)' <=> Waits(b)
  BY <1>1, <1>2, <1>3 DEF Waits
<1>6. \A b, f \in Blocks : Owns(b, f)' <=> Owns(b, f)
  <2>1. \A u \in Threads, b, f \in Blocks : Has(u, b, f)' <=> Has(u, b, f)
    BY DEF Has, BufferAt, Outside
  <2> QED
    BY <1>1, <1>5, <2>1 DEF Owns
<1>7. Stack' /\ Owners'
  BY <1>1, <1>6, OwnersKept DEF Ring
<1>8. \A u \in Threads : ThreadOK(w, n, done, u)'
  <2> SUFFICES ASSUME NEW u \in Threads
               PROVE  ThreadOK(w, n, done, u)'
    OBVIOUS
  <2>1. ThreadOK(w, n, done, u)
    BY DEF Ring
  <2>2. CASE loc'[u] = loc[u] /\ pc'[u] = pc[u]
    <3>1. Buffer(u)'
      BY <1>1, <2>1, <2>2 DEF ThreadOK, Buffer, Holds, HasTurn, HoldAt
    <3>2. Reads(n, done, u)'
      BY <1>1, <2>1, <2>2 DEF ThreadOK, Reads
    <3>3. Chunk(w, done, u)'
      BY <1>1, <2>1, <2>2 DEF ThreadOK, Chunk, Pos, N
    <3> QED
      BY <3>1, <3>2, <3>3 DEF ThreadOK
  <2>3. CASE pc'[u] \in Outside
    BY <2>3 DEF Outside, ThreadOK, Buffer, Reads, Chunk, Holds, HasTurn, HoldAt
  <2> QED
    BY <2>2, <2>3
<1>9. \A b \in Blocks : BlockOK(w, done, b)'
  BY <1>1, <1>5 DEF Ring, BlockOK, Pos, N
<1>10. Progress(n, done)'
  <2>1. (\E u \in Threads : pc'[u] = "advance") <=> (\E u \in Threads : pc[u] = "advance")
    BY DEF Outside
  <2>2. (\A u \in Threads : pc'[u] \notin ReadingAt) <=> (\A u \in Threads : pc[u] \notin ReadingAt)
    BY DEF Outside, ReadingAt
  <2> QED
    BY <1>1, <2>1, <2>2 DEF Ring, Progress, LastDone
<1> QED
  BY <1>4, <1>7, <1>8, <1>9, <1>10 DEF Ring

LEMMA EmptyRing ==
  \A m \in Nat : m > 0 => 0 \in 0 .. m - 1 /\ 0 \in 0 .. m /\ m + 0 + 0 = m /\ 0 + 0 < m
OBVIOUS
LEMMA FullList == \A m, k \in Nat : m <= k => k - (k - m) = m /\ k >= k - m
OBVIOUS

\* A call begins with an empty ring.
LEMMA MtCoder_Code_Ring ==
  ASSUME Types, Calm, OutputTypes, MtCoder_Code
  PROVE  Ring(0, 0, 0)'
<1>1. /\ N' \in Nat /\ 0 < N' /\ N' <= MaxBlocks /\ MaxBlocks \in Nat
      /\ blocksSemaphore' = N' /\ freeBlocks' = [i \in 1 .. MaxBlocks |-> i - 1]
      /\ ReadyBlocks' = [b \in Blocks |-> FALSE]
  <2>1. session + 1 \in 1 .. Len(plan) /\ numBlocksMax' = plan[session + 1].numBlocks
    BY PlanTypes DEF MtCoder_Code, Types, MainTypes
  <2>2. numBlocksMax' \in 1 .. MaxBlocks
    BY <2>1, PlanTypes DEF Types, MainTypes
  <2> QED
    BY <2>2, CoderAssumption DEF MtCoder_Code, N
<1>2. /\ blockIndex' = 0 /\ readProcessed' = 0 /\ writeIndex' = 0 /\ writeRes' = OK /\ written' = 0
      /\ mtRes' = OK /\ stopReading' = FALSE
  BY DEF MtCoder_Code, ReadReset, ErrorsReset
<1>3. \A u \in Threads : pc'[u] \notin Inside
  BY DEF MtCoder_Code, Calm
<1>4. /\ \A u \in Threads : pc'[u] \in Labels => ~Holds(u)' /\ ~HasTurn(u)' /\ ~Takes(u)'
      /\ \A u \in Threads : pc'[u] \in Labels => pc'[u] \in {"exited", "start", "compare"}
  BY <1>3 DEF Inside, Labels, Holds, HasTurn, HoldAt, Takes
<1>5. \A u \in Threads : pc'[u] \in Labels
  BY DEF MtCoder_Code, Types, ThreadTypes
<1>6. \A b, f \in Blocks : ~Waits(b)' /\ ~Owns(b, f)'
  <2>1. \A b \in Blocks : ~Waits(b)'
    BY <1>1, <1>4, <1>5 DEF Waits
  <2>2. \A u \in Threads, b, f \in Blocks : ~Has(u, b, f)'
    BY <1>4, <1>5 DEF Has, BufferAt
  <2> QED
    BY <2>1, <2>2 DEF Owns
<1>7. Slots(0, 0)'
  <2>1. Releasing' = {}
    BY <1>4, <1>5 DEF Releasing
  <2>2. Cardinality(Releasing') = 0
    BY <2>1, FS_EmptySet
  <2>3. \A b \in Nat : ~InUse(0, 0, b)'
    BY <1>1 DEF InUse, Pos
  <2>4. \A b \in Blocks : b \in Nat
    BY RingTypesFacts
  <2>5. 0 \in Blocks
    BY <1>1 DEF Blocks
  <2>6. /\ 0 \in 0 .. N' - 1 /\ 0 \in 0 .. N' /\ blockIndex' = IF 0 + 0 < N' THEN 0 + 0 ELSE 0 + 0 - N'
        /\ blocksSemaphore' \in Nat /\ blocksSemaphore' + 0 + Cardinality(Releasing') = N'
    <3>1. N' \in Nat /\ 0 < N' /\ blocksSemaphore' = N' /\ blockIndex' = 0
      BY <1>1, <1>2
    <3>2. 0 \in 0 .. N' - 1 /\ 0 \in 0 .. N'
      BY <3>1, EmptyRing
    <3>3. blocksSemaphore' + 0 + Cardinality(Releasing') = N'
      BY <2>2, <3>1, EmptyRing
    <3>4. blockIndex' = IF 0 + 0 < N' THEN 0 + 0 ELSE 0 + 0 - N'
      BY <3>1, EmptyRing
    <3> QED
      BY <3>1, <3>2, <3>3, <3>4
  <2>7. writeIndex' \in {None, 0} /\ \A b \in Blocks : ~ReadyBlocks'[b] /\ ~InUse(0, 0, b)'
    BY <1>1, <1>2, <2>3, <2>4
  <2>8. ~ReadyBlocks'[0]
    BY <2>5, <2>7
  <2> QED
    BY <1>4, <1>5, <2>6, <2>7, <2>8 DEF Slots
<1>8. Stack'
  <2>1. Len(freeBlocks') = MaxBlocks /\ \A i \in 1 .. MaxBlocks : freeBlocks'[i] = i - 1
    BY <1>1
  <2>2. Unused' = MaxBlocks - N'
    BY DEF Unused, N
  <2>3. ASSUME NEW i \in 1 .. MaxBlocks
        PROVE  IF i > MaxBlocks - Unused' THEN freeBlocks'[i] = MaxBlocks - MaxBlocks + i - 1
               ELSE freeBlocks'[i] < N'
    <3>1. freeBlocks'[i] = i - 1
      BY <2>1
    <3>2. N' \in Nat /\ MaxBlocks \in Nat /\ MaxBlocks - Unused' = N'
      BY <1>1, <2>2, FullList
    <3>3. i - 1 = MaxBlocks - MaxBlocks + i - 1 /\ (~(i > N') => i - 1 < N')
      BY <3>2
    <3> QED
      BY <3>1, <3>2, <3>3
  <2>4. \A i, j \in 1 .. MaxBlocks : freeBlocks'[i] = freeBlocks'[j] => i = j
    <3> SUFFICES ASSUME NEW i \in 1 .. MaxBlocks, NEW j \in 1 .. MaxBlocks, i - 1 = j - 1
                 PROVE  i = j
      BY <2>1
    <3> QED
      BY <1>1
  <2>5. MaxBlocks >= Unused'
    BY <1>1, <2>2, FullList
  <2> QED
    BY <2>1, <2>3, <2>4, <2>5 DEF Stack
<1>9. Owners'
  <2>1. \A f \in Blocks : IsFree(f)'
    <3> SUFFICES ASSUME NEW f \in Blocks
                 PROVE  IsFree(f)'
      OBVIOUS
    <3>1. f + 1 \in 1 .. MaxBlocks /\ Len(freeBlocks') = MaxBlocks /\ freeBlocks'[f + 1] = f
      BY <1>1, RingTypesFacts
    <3> QED
      BY <3>1 DEF IsFree
  <2> QED
    BY <1>6, <2>1 DEF Owners
<1>10. \A u \in Threads : ThreadOK(0, 0, 0, u)'
  BY <1>4, <1>5 DEF ThreadOK, Buffer, Reads, Chunk, HoldAt
<1>11. \A b \in Blocks : BlockOK(0, 0, b)'
  BY <1>6 DEF BlockOK
<1>12. Progress(0, 0)'
  <2>1. LastDone(0)' = 0
    BY <1>4, <1>5 DEF LastDone
  <2> QED
    BY <1>2, <2>1 DEF Progress
<1> QED
  BY <1>7, <1>8, <1>9, <1>10, <1>11, <1>12 DEF Ring

\* The steps of the caller but the first of a call.
LEMMA RingMain ==
  ASSUME IInv, NEW w \in Nat, NEW n \in Nat, NEW done \in Nat, Ring(w, n, done),
         StartFirst \/ Go \/ WaitFinished \/ Destruct \/ FreeThread \/ JoinThread \/ FreeDone
  PROVE  Ring(w, n, done)'
<1>1. Types /\ pc \in [Threads -> Labels] /\ Created
  BY DEF IInv, Types, ThreadTypes
<1>2. CASE StartFirst
  <2>1. \A u \in Threads : loc'[u] = loc[u] /\ (pc'[u] = pc[u] \/ (pc[u] = "exited" /\ pc'[u] = "start"))
    <3>1. loc' = loc /\ (pc' = pc \/ (~created[0] /\ pc' = [pc EXCEPT ![0] = "start"]))
      BY <1>2 DEF StartFirst
    <3> QED
      BY <1>1, <3>1 DEF Created
  <2>2. UNCHANGED ring
    BY <1>2 DEF StartFirst, call, read, write, start, finish, output, ring
  <2> QED
    BY <1>1, <2>1, <2>2, RingAside DEF Outside
<1>3. CASE Go
  <2>1. UNCHANGED ring /\ pc' = pc /\ loc' = loc
    BY <1>3 DEF Go, call, read, write, start, finish, output, ring
  <2> QED
    BY <1>1, <2>1, RingAside
<1>4. CASE WaitFinished
  <2>1. UNCHANGED ring /\ pc' = pc /\ loc' = loc
    BY <1>4 DEF WaitFinished, call, read, write, start, finish, output, ring
  <2> QED
    BY <1>1, <2>1, RingAside
<1>5. CASE Destruct
  <2>1. UNCHANGED ring /\ pc' = pc /\ loc' = loc
    BY <1>5 DEF Destruct, call, read, write, start, finish, output, ring
  <2> QED
    BY <1>1, <2>1, RingAside
<1>6. CASE FreeThread
  <2>1. UNCHANGED ring /\ pc' = pc /\ loc' = loc
    BY <1>6 DEF FreeThread, Wake, call, read, write, start, finish, output, ring
  <2> QED
    BY <1>1, <2>1, RingAside
<1>7. CASE JoinThread
  <2>1. UNCHANGED ring /\ pc' = pc /\ loc' = loc
    BY <1>7 DEF JoinThread, call, read, write, start, finish, output, ring
  <2> QED
    BY <1>1, <2>1, RingAside
<1>8. CASE FreeDone
  <2>1. UNCHANGED ring /\ pc' = pc /\ loc' = loc
    BY <1>8 DEF FreeDone, call, read, write, start, finish, output, ring
  <2> QED
    BY <1>1, <2>1, RingAside
<1> QED
  BY <1>2, <1>3, <1>4, <1>5, <1>6, <1>7, <1>8

LEMMA RingThread ==
  ASSUME IInv, Token, OutputTypes, NEW w \in Nat, NEW n \in Nat, NEW done \in Nat,
         Ring(w, n, done), NEW t \in Threads, ThreadStep(t)
  PROVE  \E w1, n1, done1 \in Nat : Ring(w1, n1, done1)'
<1>1. Types /\ Created /\ Turn
  BY DEF IInv
<1>2. CASE WaitStart(t)
  <2>1. UNCHANGED ring
    BY <1>1, <1>2, WaitStart_Effects DEF ring
  <2>2. \A u \in Threads : \/ loc'[u] = loc[u] /\ pc'[u] = pc[u]
                           \/ pc[u] \in Outside /\ pc'[u] \in Outside
    BY <1>1, <1>2, WaitStart_Effects DEF Others, Outside
  <2>3. Ring(w, n, done)'
    BY <1>1, <2>1, <2>2, RingAside
  <2> QED
    BY <2>3
<1>3. CASE CountFinished(t)
  <2>1. UNCHANGED ring
    BY <1>1, <1>3, CountFinished_Effects DEF ring
  <2>2. \A u \in Threads : \/ loc'[u] = loc[u] /\ pc'[u] = pc[u]
                           \/ pc[u] \in Outside /\ pc'[u] \in Outside
    BY <1>1, <1>3, CountFinished_Effects DEF Others, Outside
  <2>3. Ring(w, n, done)'
    BY <1>1, <2>1, <2>2, RingAside
  <2> QED
    BY <2>3
<1>4. CASE CompareFinished(t)
  <2>1. UNCHANGED ring
    BY <1>1, <1>4, CompareFinished_Effects DEF ring
  <2>2. \A u \in Threads : \/ loc'[u] = loc[u] /\ pc'[u] = pc[u]
                           \/ pc[u] \in Outside /\ pc'[u] \in Outside
    BY <1>1, <1>4, CompareFinished_Effects DEF Others, Outside
  <2>3. Ring(w, n, done)'
    BY <1>1, <2>1, <2>2, RingAside
  <2> QED
    BY <2>3
<1>5. CASE WaitRead(t)
  <2>1. Ring(w, n, done)'
    BY <1>1, <1>5, WaitRead_Ring
  <2> QED
    BY <2>1
<1>6. CASE PassStop(t)
  <2>1. UNCHANGED ring
    BY <1>1, <1>6, PassStop_Effects DEF ring
  <2>2. \A u \in Threads : \/ loc'[u] = loc[u] /\ pc'[u] = pc[u]
                           \/ pc[u] \in Outside /\ pc'[u] \in Outside
    BY <1>1, <1>6, PassStop_Effects DEF Others, Outside
  <2>3. Ring(w, n, done)'
    BY <1>1, <2>1, <2>2, RingAside
  <2> QED
    BY <2>3
<1>7. CASE ReadBlock(t)
  <2>1. Ring(w, n, done)'
    BY <1>1, <1>7, ReadBlock_Ring
  <2> QED
    BY <2>1
<1>8. CASE ReadFails(t)
  <2>1. Ring(w, n, done)'
    BY <1>1, <1>8, ReadFails_Ring
  <2> QED
    BY <2>1
<1>9. CASE GetBlock(t)
  <2>1. Ring(w, n + 1, done)' /\ n + 1 \in Nat
    BY <1>1, <1>9, GetBlock_Ring
  <2> QED
    BY <2>1
<1>10. CASE StartNext(t)
  <2>1. Ring(w, n, done)'
    BY <1>1, <1>10, StartNext_Ring
  <2> QED
    BY <2>1
<1>11. CASE PassRead(t)
  <2>1. Ring(w, n, done)'
    BY <1>1, <1>11, PassRead_Ring
  <2> QED
    BY <2>1
<1>12. CASE GetBuf(t)
  <2>1. Ring(w, n, done)'
    BY <1>1, <1>12, GetBuf_Ring
  <2> QED
    BY <2>1
<1>13. CASE Code(t)
  <2>1. Ring(w, n, done)'
    BY <1>1, <1>13, Code_Ring
  <2> QED
    BY <2>1
<1>14. CASE CodeFails(t)
  <2>1. Ring(w, n, done)'
    BY <1>1, <1>14, CodeFails_Ring
  <2> QED
    BY <2>1
<1>15. CASE Publish(t)
  <2>1. Ring(w, n, done)'
    BY <1>1, <1>15, Publish_Ring
  <2> QED
    BY <2>1
<1>16. CASE Write(t)
  <2>1. Ring(w, n, done)'
    BY <1>1, <1>16, Write_Ring
  <2> QED
    BY <2>1
<1>17. CASE Advance(t)
  <2>1. PICK w1 \in Nat : w1 = NextBlock(w)
    BY DEF NextBlock
  <2>2. n > 0 /\ Ring(w1, n - 1, done + 1)'
    BY <1>1, <1>17, <2>1, Advance_Ring
  <2>3. n - 1 \in Nat /\ done + 1 \in Nat
    BY <2>2
  <2> QED
    BY <2>1, <2>2, <2>3
<1>18. CASE ReleaseBlock(t)
  <2>1. Ring(w, n, done)'
    BY <1>1, <1>18, ReleaseBlock_Ring
  <2> QED
    BY <2>1
<1>19. CASE TakeReady(t)
  <2>1. Ring(w, n, done)'
    BY <1>1, <1>19, TakeReady_Ring
  <2> QED
    BY <2>1
<1> QED
  BY <1>2, <1>3, <1>4, <1>5, <1>6, <1>7, <1>8, <1>9, <1>10, <1>11, <1>12, <1>13, <1>14, <1>15, <1>16, <1>17, <1>18, <1>19 DEF ThreadStep

-------------------------------------------------------------------------------
(* The invariant.                                                           *)

\* What Code and Write do to the output.
LEMMA OutputThread ==
  ASSUME Types, Created, OutputTypes, NEW t \in Threads, ThreadStep(t)
  PROVE  OutputTypes'
<1>1. \A u \in Threads : loc[u].bufIndex \in Blocks \cup {None} /\ loc[u].chunk \in Nat
  BY DEF Types, ThreadTypes, Locals
<1>2. CASE WaitStart(t)
  BY <1>2, WaitStart_Effects DEF OutputTypes
<1>3. CASE CountFinished(t)
  BY <1>3, CountFinished_Effects DEF OutputTypes
<1>4. CASE CompareFinished(t)
  BY <1>4, CompareFinished_Effects DEF OutputTypes
<1>5. CASE WaitRead(t)
  BY <1>5, WaitRead_Effects DEF OutputTypes
<1>6. CASE PassStop(t)
  BY <1>6, PassStop_Effects DEF OutputTypes
<1>7. CASE ReadBlock(t)
  BY <1>7, ReadBlock_Effects DEF OutputTypes
<1>8. CASE ReadFails(t)
  BY <1>8, ReadFails_Effects DEF OutputTypes
<1>9. CASE GetBlock(t)
  BY <1>9, GetBlock_Effects DEF OutputTypes
<1>10. CASE StartNext(t)
  BY <1>10, StartNext_Effects DEF OutputTypes
<1>11. CASE PassRead(t)
  BY <1>11, PassRead_Effects DEF OutputTypes
<1>12. CASE GetBuf(t)
  BY <1>12, GetBuf_Effects DEF OutputTypes
<1>13. CASE Code(t)
  <2>1. content' = [content EXCEPT ![loc[t].bufIndex] = loc[t].chunk] /\ written' = written
    BY <1>13, Code_Effects
  <2> QED
    BY <1>1, <2>1 DEF OutputTypes
<1>14. CASE CodeFails(t)
  <2>1. content' = [content EXCEPT ![loc[t].bufIndex] = 0] /\ written' = written
    BY <1>14, CodeFails_Effects
  <2> QED
    BY <1>1, <2>1 DEF OutputTypes
<1>15. CASE Publish(t)
  BY <1>15, Publish_Effects DEF OutputTypes
<1>16. CASE Write(t)
  <2>1. /\ content' = content
        /\ written' = written \/ (loc[t].bufIndex # None /\ written' = content[loc[t].bufIndex])
    BY <1>16, Write_Effects
  <2> QED
    BY <1>1, <2>1 DEF OutputTypes
<1>17. CASE Advance(t)
  BY <1>17, Advance_Effects DEF OutputTypes
<1>18. CASE ReleaseBlock(t)
  BY <1>18, ReleaseBlock_Effects DEF OutputTypes
<1>19. CASE TakeReady(t)
  BY <1>19, TakeReady_Effects DEF OutputTypes
<1> QED
  BY <1>2, <1>3, <1>4, <1>5, <1>6, <1>7, <1>8, <1>9, <1>10, <1>11, <1>12, <1>13, <1>14, <1>15, <1>16, <1>17, <1>18, <1>19 DEF ThreadStep

LEMMA OutputMain ==
  ASSUME OutputTypes, MainStep
  PROVE  OutputTypes'
<1>1. content' = content /\ written' \in {written, 0}
  BY DEF MainStep, MtCoder_Code, StartFirst, Go, WaitFinished, Destruct, FreeThread, JoinThread, FreeDone, output
<1> QED
  BY <1>1 DEF OutputTypes

LEMMA CalmMain ==
  ASSUME IInv, Calm, MainStep
  PROVE  Calm'
<1>1. /\ created \in [Threads -> BOOLEAN] /\ stop \in [Threads -> BOOLEAN]
      /\ startEvent \in [Threads -> BOOLEAN] /\ pc \in [Threads -> Labels] /\ session \in Nat
      /\ plan \in Plans /\ mi \in 0 .. MaxThreads
  BY PlanTypes DEF IInv, Types, MainTypes, ThreadTypes
<1>2. CASE MtCoder_Code
  BY <1>1, <1>2 DEF MtCoder_Code, Calm
<1>3. CASE StartFirst
  <2>1. CASE mpc' = "go"
    BY <1>3, <2>1 DEF StartFirst, Calm, call
  <2>2. CASE mpc' # "go"
    <3>1. /\ pc' = pc /\ startEvent' = [startEvent EXCEPT ![0] = FALSE] /\ session' = session
          /\ stop' = [stop EXCEPT ![0] = FALSE] /\ mpc = "start" /\ mpc' = "idle"
      BY <1>3, <2>2 DEF StartFirst, CreateFails, CreateAndStart, call
    <3> QED
      BY <1>1, <3>1 DEF Calm
  <2> QED
    BY <2>1, <2>2
<1>4. CASE Go
  BY <1>4 DEF Go, Calm, call
<1>5. CASE WaitFinished
  <2>1. Working = {}
    BY <1>5 DEF WaitFinished, IInv, Places, InCall
  <2>2. UNCHANGED <<pc, startEvent, stop, session>> /\ mpc' \in {"idle", "free"} /\ session # 0
    BY <1>5 DEF WaitFinished, call, start, Calm
  <2> QED
    BY <2>1, <2>2 DEF Working, Calm
<1>6. CASE Destruct
  <2>1. session' = session + 1 /\ mpc' = "free" /\ mpc = "idle" /\ UNCHANGED <<pc, startEvent, stop>>
    BY <1>6 DEF Destruct, start
  <2> QED
    BY <1>1, <2>1 DEF Calm
<1>7. CASE FreeThread
  <2>1. UNCHANGED <<pc, session>> /\ mpc = "free" /\ mpc' \in {"free", "join"}
    BY <1>7 DEF FreeThread, call
  <2>2. \/ UNCHANGED <<stop, startEvent>>
        \/ stop' = [stop EXCEPT ![mi] = TRUE] /\ startEvent' = [startEvent EXCEPT ![mi] = TRUE]
    BY <1>7 DEF FreeThread, Wake
  <2> QED
    BY <1>1, <2>1, <2>2 DEF Calm
<1>8. CASE JoinThread
  <2>1. /\ UNCHANGED <<pc, session, stop>> /\ mpc = "join" /\ mpc' = "free"
        /\ startEvent' = [startEvent EXCEPT ![mi] = FALSE]
    BY <1>8 DEF JoinThread, call
  <2> QED
    BY <1>1, <2>1 DEF Calm
<1>9. CASE FreeDone
  BY <1>9 DEF FreeDone, Calm, call, start
<1> QED
  BY <1>2, <1>3, <1>4, <1>5, <1>6, <1>7, <1>8, <1>9 DEF MainStep

LEMMA TokenMain ==
  ASSUME IInv, Calm, Token, MainStep
  PROVE  Token'
<1>1. pc \in [Threads -> Labels]
  BY DEF IInv, Types, ThreadTypes
<1>2. CASE MtCoder_Code
  BY <1>2 DEF MtCoder_Code, Calm, Token, ReaderAt, Inside, Labels
<1>3. CASE StartFirst
  <2>1. /\ mpc = "start" /\ mpc' \in {"go", "idle"} /\ readEvent' = readEvent
        /\ pc' = pc \/ pc' = [pc EXCEPT ![0] = "start"]
    BY <1>3 DEF StartFirst, read
  <2>2. \A u \in Threads : pc'[u] = pc[u] \/ pc'[u] = "start"
    BY <1>1, <2>1
  <2> QED
    BY <2>1, <2>2 DEF Token, ReaderAt
<1>4. CASE Go
  BY <1>4 DEF Go, Token
<1>5. CASE WaitFinished
  BY <1>5 DEF WaitFinished, Token, read
<1>6. CASE Destruct
  BY <1>6 DEF Destruct, Token, read
<1>7. CASE FreeThread
  BY <1>7 DEF FreeThread, Token, read
<1>8. CASE JoinThread
  BY <1>8 DEF JoinThread, Token, read
<1>9. CASE FreeDone
  BY <1>9 DEF FreeDone, Token, read
<1> QED
  BY <1>2, <1>3, <1>4, <1>5, <1>6, <1>7, <1>8, <1>9 DEF MainStep

LEMMA RInvInit ==
  ASSUME OneThreadUntilTheLast, Init
  PROVE  RInv
<1>1. IInv
  BY InitInv
<1>2. session = 0 /\ mpc = "idle" /\ readEvent = FALSE /\ \A t \in Threads : pc[t] = "exited" /\ ~startEvent[t]
  BY DEF Init
<1>3. Calm /\ Token
  BY <1>2 DEF Calm, Token, Inside, ReaderAt
<1>4. OutputTypes
  BY DEF Init, OutputTypes
<1> QED
  BY <1>1, <1>2, <1>3, <1>4 DEF RInv

LEMMA RInvStutter ==
  ASSUME RInv, UNCHANGED vars
  PROVE  RInv'
<1>1. /\ UNCHANGED <<mpc, session, pc, loc, startEvent, stop, readEvent>>
      /\ UNCHANGED ring
  BY DEF vars, main, call, read, write, start, finish, output, ring
<1>2. IInv'
  BY StutterInv DEF RInv
<1>3. Calm' /\ Token' /\ OutputTypes'
  BY <1>1 DEF RInv, Calm, Token, OutputTypes, ring
<1>4. ASSUME NEW w \in Nat, NEW n \in Nat, NEW done \in Nat, Ring(w, n, done)
      PROVE  Ring(w, n, done)'
  BY <1>1, <1>4, RingAside DEF RInv, IInv
<1> QED
  BY <1>1, <1>2, <1>3, <1>4 DEF RInv

LEMMA RInvStep ==
  ASSUME RInv, Next
  PROVE  RInv'
<1>1. IInv /\ Types /\ Created /\ Calm /\ Token /\ OutputTypes
  BY DEF RInv, IInv
<1>2. IInv'
  BY <1>1, StepTypes, StepRest DEF IInv
<1>3. CASE MainStep
  <2>1. Calm' /\ Token' /\ OutputTypes'
    BY <1>1, <1>3, CalmMain, TokenMain, OutputMain
  <2>2. CASE MtCoder_Code
    <3>1. Ring(0, 0, 0)'
      BY <1>1, <2>2, MtCoder_Code_Ring
    <3> QED
      BY <1>2, <2>1, <3>1 DEF RInv
  <2>3. CASE ~MtCoder_Code
    <3>1. session > 0
      <4>1. session \in Nat
        BY <1>1, PlanTypes DEF Types, MainTypes
      <4>2. CASE Destruct
        BY <1>1, <4>2, PlanTypes DEF Destruct, Types, MainTypes
      <4>3. CASE ~Destruct
        <5>1. session' = session /\ mpc # "idle"
          BY <1>3, <2>3, <4>3 DEF MainStep, StartFirst, Go, WaitFinished, FreeThread, JoinThread, FreeDone, call
        <5> QED
          BY <1>1, <4>1, <5>1 DEF Calm
      <4> QED
        BY <4>2, <4>3
    <3>2. PICK w \in Nat, n \in Nat, done \in Nat : Ring(w, n, done)
      BY <3>1 DEF RInv
    <3>3. Ring(w, n, done)'
      BY <1>1, <1>3, <2>3, <3>2, RingMain DEF MainStep
    <3> QED
      BY <1>2, <2>1, <3>3 DEF RInv
  <2> QED
    BY <2>2, <2>3
<1>4. ASSUME NEW t \in Threads, ThreadStep(t)
      PROVE  RInv'
  <2>1. Calm' /\ Token' /\ OutputTypes'
    BY <1>1, <1>4, CalmThread, TokenThread, OutputThread
  <2>2. session' = session
    BY <1>4 DEF ThreadStep, WaitStart, CountFinished, CompareFinished, WaitRead, PassStop, ReadBlock, ReadFails,
                GetBlock, StartNext, PassRead, GetBuf, Code, CodeFails, Publish, Write, Advance, ReleaseBlock,
                TakeReady, main, call
  <2>3. CASE session > 0
    <3>1. PICK w \in Nat, n \in Nat, done \in Nat : Ring(w, n, done)
      BY <2>3 DEF RInv
    <3>2. \E w1, n1, done1 \in Nat : Ring(w1, n1, done1)'
      BY <1>1, <1>4, <3>1, RingThread
    <3> QED
      BY <1>2, <2>1, <3>2 DEF RInv
  <2>4. CASE ~(session > 0)
    BY <1>2, <2>1, <2>2, <2>4 DEF RInv
  <2> QED
    BY <2>3, <2>4
<1>5. CASE Destroyed
  BY <1>5, RInvStutter DEF Destroyed
<1> QED
  BY <1>3, <1>4, <1>5 DEF Next

LEMMA RingInvariant ==
  ASSUME OneThreadUntilTheLast
  PROVE  Spec => []RInv
<1>1. Init => RInv
  BY RInvInit
<1>2. RInv /\ [Next]_vars => RInv'
  BY RInvStep, RInvStutter
<1> QED
  BY <1>1, <1>2, PTL DEF Spec

-------------------------------------------------------------------------------
(* What the ring says of the properties of MtCoder.                         *)

\* As many values as arguments.
LEMMA ImageSize ==
  ASSUME NEW S, IsFiniteSet(S), NEW T, NEW f \in [S -> T],
         \A y \in T : \E x \in S : f[x] = y,
         \A x, y \in S : f[x] = f[y] => x = y
  PROVE  IsFiniteSet(T) /\ Cardinality(T) = Cardinality(S)
<1>1. f \in Surjection(S, T) /\ f \in Injection(S, T)
  BY DEF Surjection, Injection, IsInjective
<1> QED
  BY <1>1, FS_Surjection

\* The block a thread writes is the next one of the output.
LEMMA InOrder ==
  ASSUME RInv
  PROVE  WritesInOrder
<1> SUFFICES ASSUME NEW t \in Threads, pc[t] = "write", loc[t].res = OK, loc[t].bufIndex # None
             PROVE  /\ content[loc[t].bufIndex] > written
                    /\ mtRes = OK => content[loc[t].bufIndex] = written + 1
  BY DEF WritesInOrder, At
<1>1. session > 0
  <2>1. session \in Nat
    BY PlanTypes DEF RInv, IInv, Types, MainTypes
  <2>2. pc[t] \in Inside
    BY DEF Inside, Labels
  <2>3. session # 0
    BY <2>2 DEF RInv, Calm
  <2> QED
    BY <2>1, <2>3
<1>2. PICK w \in Nat, n \in Nat, done \in Nat : Ring(w, n, done)
  BY <1>1 DEF RInv
<1>3. content[loc[t].bufIndex] = done + 1
  BY <1>2 DEF Ring, ThreadOK, Chunk
<1>4. LastDone(done) = done
  BY DEF RInv, IInv, Turn, HasTurn, LastDone
<1>5. written \in Nat /\ written <= done /\ (mtRes = OK => written = done)
  BY <1>2, <1>4 DEF Ring, Progress, RInv, OutputTypes
<1> QED
  BY <1>3, <1>5

\* The blocks in use are n, by their places after w.
LEMMA RingSize ==
  ASSUME Types, NEW w \in Nat, NEW n \in Nat, Slots(w, n)
  PROVE  Cardinality({b \in Blocks : InUse(w, n, b)}) = n
<1> DEFINE S == 0 .. n - 1
           T == {b \in Blocks : InUse(w, n, b)}
           f == [i \in S |-> IF w + i < N THEN w + i ELSE w + i - N]
<1>1. N \in Nat /\ w < N /\ n <= N /\ \A b \in Nat : b < N => b \in Blocks
  BY RingTypesFacts DEF Slots
<1>2. \A b \in Blocks : b \in Nat
  BY RingTypesFacts
<1>3. IsFiniteSet(S) /\ Cardinality(S) = n
  <2>1. 0 \in Int /\ n - 1 \in Int
    OBVIOUS
  <2>2. IsFiniteSet(S) /\ Cardinality(S) = IF 0 > n - 1 THEN 0 ELSE (n - 1) - 0 + 1
    BY <2>1, FS_Interval
  <2> QED
    BY <2>2
<1>4. \A i \in S : f[i] \in Nat /\ f[i] < N /\ Pos(w, f[i]) = i
  BY <1>1 DEF Pos
<1>5. f \in [S -> T]
  BY <1>1, <1>4 DEF InUse
<1>6. \A b \in T : Pos(w, b) \in S /\ f[Pos(w, b)] = b
  <2> SUFFICES ASSUME NEW b \in T
               PROVE  Pos(w, b) \in S /\ f[Pos(w, b)] = b
    OBVIOUS
  <2>1. b \in Nat /\ b < N /\ Pos(w, b) < n
    BY <1>2 DEF InUse
  <2>2. CASE b >= w
    <3>1. Pos(w, b) = b - w /\ Pos(w, b) \in S
      BY <1>1, <2>1, <2>2 DEF Pos
    <3> QED
      BY <1>1, <2>1, <2>2, <3>1
  <2>3. CASE ~(b >= w)
    <3>1. Pos(w, b) = b - w + N /\ Pos(w, b) \in S
      BY <1>1, <2>1, <2>3 DEF Pos
    <3> QED
      BY <1>1, <2>1, <2>3, <3>1
  <2> QED
    BY <2>2, <2>3
<1>7. \A i, j \in S : f[i] = f[j] => i = j
  <2> HIDE DEF f, S
  <2> QED
    BY <1>4
<1> HIDE DEF f, S, T
<1>8. Cardinality(T) = Cardinality(S)
  BY <1>3, <1>5, <1>6, <1>7, ImageSize
<1> QED
  BY <1>3, <1>8 DEF T

LEMMA Exact ==
  ASSUME RInv
  PROVE  SlotsExact
<1> DEFINE holders == At({"startNext", "passRead", "getBuf", "code", "publish", "write",
                          "advance", "takeReady"})
                        \cup {t \in At({"releaseBlock"}) : loc[t].isReady}
           ready == {b \in Blocks : ReadyBlocks[b]}
           inUse == {loc[t].bi : t \in holders} \cup ready
<1> SUFFICES ASSUME session > 0
             PROVE  /\ \A t, u \in holders : loc[t].bi = loc[u].bi => t = u
                    /\ \A t \in holders : loc[t].bi \notin ready
                    /\ blocksSemaphore + Cardinality(inUse) + Cardinality(At({"releaseBlock"})) = numBlocksMax
  BY DEF SlotsExact
<1>1. PICK w \in Nat, n \in Nat, done \in Nat : Ring(w, n, done)
  BY DEF RInv
<1>2. Types /\ Slots(w, n)
  BY <1>1 DEF RInv, IInv, Ring
<1>3. \A t : t \in holders <=> t \in Threads /\ Holds(t)
  BY DEF At, Holds, HoldAt, HasTurn
<1>4. At({"releaseBlock"}) = Releasing
  BY DEF At, Releasing
<1> HIDE DEF holders
<1>5. inUse = {b \in Blocks : InUse(w, n, b)}
  <2>1. ASSUME NEW b \in inUse
        PROVE  b \in Blocks /\ InUse(w, n, b)
    <3>1. CASE b \in ready
      BY <1>2, <3>1 DEF Slots
    <3>2. CASE \E t \in holders : b = loc[t].bi
      BY <1>2, <1>3, <3>2, RingTypesFacts DEF Slots
    <3> QED
      BY <3>1, <3>2
  <2>2. ASSUME NEW b \in Blocks, InUse(w, n, b)
        PROVE  b \in inUse
    BY <1>2, <1>3, <2>2 DEF Slots
  <2> QED
    BY <2>1, <2>2
<1>6. Cardinality(inUse) = n
  BY <1>2, <1>5, RingSize
<1>7. blocksSemaphore + n + Cardinality(Releasing) = numBlocksMax
  BY <1>2 DEF Slots, N
<1>8. \A t, u \in holders : loc[t].bi = loc[u].bi => t = u
  BY <1>2, <1>3 DEF Slots
<1>9. \A t \in holders : loc[t].bi \notin ready
  BY <1>2, <1>3 DEF Slots
<1> HIDE DEF inUse
<1> QED
  BY <1>4, <1>6, <1>7, <1>8, <1>9

\* The buffers of the threads and those of the blocks that wait are different ones.
LEMMA HeldSize ==
  ASSUME Types, NEW w \in Nat, NEW n \in Nat, NEW done \in Nat, Ring(w, n, done),
         NEW H, \A t : t \in H <=> t \in Threads /\ pc[t] \in BufferAt /\ loc[t].bufIndex # None,
         NEW W, \A b : b \in W <=> b \in Blocks /\ Waits(b) /\ blocks[b].bufIndex # None
  PROVE  Cardinality({loc[t].bufIndex : t \in H} \cup {blocks[b].bufIndex : b \in W})
           = Cardinality(H) + Cardinality(W)
<1> DEFINE A == {loc[t].bufIndex : t \in H}
           B == {blocks[b].bufIndex : b \in W}
           f == [t \in H |-> loc[t].bufIndex]
           g == [b \in W |-> blocks[b].bufIndex]
<1>1. IsFiniteSet(H) /\ IsFiniteSet(W) /\ Cardinality(H) \in Nat /\ Cardinality(W) \in Nat
  <2>1. MaxThreads \in Nat /\ MaxBlocks \in Nat /\ 0 \in Int /\ MaxThreads - 1 \in Int /\ MaxBlocks - 1 \in Int
    BY CoderAssumption
  <2>2. IsFiniteSet(Threads) /\ IsFiniteSet(Blocks)
    BY <2>1, FS_Interval DEF Threads, Blocks
  <2>3. H \in SUBSET Threads /\ W \in SUBSET Blocks
    OBVIOUS
  <2>4. IsFiniteSet(H) /\ IsFiniteSet(W)
    BY <2>2, <2>3, FS_Subset
  <2> QED
    BY <2>4, FS_CardinalityType
<1>2. \A t \in H : /\ loc[t].bi \in Blocks /\ loc[t].bufIndex \in Blocks
                   /\ Owns(loc[t].bi, loc[t].bufIndex) /\ Holds(t) /\ ~Takes(t)
  BY RingTypesFacts DEF Types, ThreadTypes, Locals, Owns, Has, BufferAt, Holds, HoldAt, HasTurn, Takes
<1>3. \A b \in W : blocks[b].bufIndex \in Blocks /\ Owns(b, blocks[b].bufIndex)
  BY DEF Types, RingTypes, Block, Owns
<1>4. \A t, u \in H : loc[t].bufIndex = loc[u].bufIndex => t = u
  <2> SUFFICES ASSUME NEW t \in H, NEW u \in H, loc[t].bufIndex = loc[u].bufIndex
               PROVE  t = u
    OBVIOUS
  <2>1. loc[t].bi = loc[u].bi
    BY <1>2 DEF Ring, Owners
  <2> QED
    BY <1>2, <2>1 DEF Ring, Slots
<1>5. \A b, c \in W : blocks[b].bufIndex = blocks[c].bufIndex => b = c
  BY <1>3 DEF Ring, Owners
<1>6. \A t \in H, b \in W : loc[t].bufIndex # blocks[b].bufIndex
  <2> SUFFICES ASSUME NEW t \in H, NEW b \in W, loc[t].bufIndex = blocks[b].bufIndex
               PROVE  FALSE
    OBVIOUS
  <2>1. loc[t].bi = b
    BY <1>2, <1>3 DEF Ring, Owners
  <2> QED
    BY <1>2, <2>1, AloneBlock
<1>7. IsFiniteSet(A) /\ Cardinality(A) = Cardinality(H)
  <2>1. f \in [H -> A] /\ (\A y \in A : \E x \in H : f[x] = y) /\ (\A x, y \in H : f[x] = f[y] => x = y)
    BY <1>4
  <2> HIDE DEF f, A
  <2> QED
    BY <1>1, <2>1, ImageSize
<1>8. IsFiniteSet(B) /\ Cardinality(B) = Cardinality(W)
  <2>1. g \in [W -> B] /\ (\A y \in B : \E x \in W : g[x] = y) /\ (\A x, y \in W : g[x] = g[y] => x = y)
    BY <1>5
  <2> HIDE DEF g, B
  <2> QED
    BY <1>1, <2>1, ImageSize
<1>9. A \cap B = {}
  BY <1>6
<1> HIDE DEF A, B, f, g
<1>10. Cardinality(A \cup B) = Cardinality(A) + Cardinality(B) - Cardinality(A \cap B)
  BY <1>7, <1>8, FS_Union
<1>11. Cardinality(A \cap B) = 0
  BY <1>9, FS_EmptySet
<1>12. Cardinality(A \cup B) = Cardinality(H) + Cardinality(W)
  BY <1>1, <1>7, <1>8, <1>10, <1>11
<1> QED
  BY <1>12 DEF A, B

LEMMA Ownership ==
  ASSUME RInv
  PROVE  BufferOwnership
<1> DEFINE holders == {t \in At({"code", "publish", "write", "advance"}) : loc[t].bufIndex # None}
           waiting == {b \in Blocks : /\ blocks[b].bufIndex # None
                                      /\ \/ ReadyBlocks[b]
                                         \/ \E t \in Threads : /\ loc[t].bi = b
                                                              /\ \/ pc[t] = "takeReady"
                                                                 \/ pc[t] = "releaseBlock"
                                                                    /\ loc[t].isReady}
           free == ToSet(freeBlocks)
           held == {loc[t].bufIndex : t \in holders} \cup {blocks[b].bufIndex : b \in waiting}
<1> SUFFICES ASSUME session > 0
             PROVE  /\ IsInjective(freeBlocks)
                    /\ free \cap held = {} /\ free \cup held = Blocks
                    /\ Cardinality(held) = Cardinality(holders) + Cardinality(waiting)
                    /\ held \subseteq 0 .. numBlocksMax - 1
                    /\ \A t \in At({"code"}) : loc[t].bufIndex # None
  BY DEF BufferOwnership
<1>1. PICK w \in Nat, n \in Nat, done \in Nat : Ring(w, n, done)
  BY DEF RInv
<1>2. Types /\ Stack /\ Owners
  BY <1>1 DEF RInv, IInv, Ring
<1>3. \A t : t \in holders <=> t \in Threads /\ pc[t] \in BufferAt /\ loc[t].bufIndex # None
  BY DEF At, BufferAt
<1>4. \A b : b \in waiting <=> b \in Blocks /\ Waits(b) /\ blocks[b].bufIndex # None
  BY DEF Waits, Takes
<1>5. \A f : f \in free <=> IsFree(f)
  BY <1>2 DEF ToSet, IsFree, Types, RingTypes
<1>6. \A f \in free : f \in Blocks
  BY <1>2 DEF ToSet, Types, RingTypes
<1>7. IsInjective(freeBlocks)
  BY <1>2 DEF Stack, IsInjective, Types, RingTypes
<1>8. \A t \in At({"code"}) : loc[t].bufIndex # None
  BY <1>1 DEF At, Ring, ThreadOK, Buffer
<1> HIDE DEF holders, waiting, free
<1>9. \A f : f \in held <=> f \in Blocks /\ \E b \in Blocks : Owns(b, f)
  <2>1. ASSUME NEW t \in holders
        PROVE  loc[t].bufIndex \in Blocks /\ \E b \in Blocks : Owns(b, loc[t].bufIndex)
    <3>1. t \in Threads /\ loc[t].bi \in Blocks /\ loc[t].bufIndex \in Blocks
      BY <1>2, <1>3, RingTypesFacts DEF Types, ThreadTypes, Locals
    <3> QED
      BY <1>3, <3>1 DEF Owns, Has
  <2>2. ASSUME NEW b \in waiting
        PROVE  b \in Blocks /\ blocks[b].bufIndex \in Blocks /\ Owns(b, blocks[b].bufIndex)
    BY <1>2, <1>4 DEF Types, RingTypes, Block, Owns
  <2>3. ASSUME NEW f \in Blocks, NEW b \in Blocks, Owns(b, f)
        PROVE  f \in held
    <3>1. f # None
      BY SmallTypes
    <3>2. CASE Waits(b) /\ blocks[b].bufIndex = f
      BY <1>4, <3>1, <3>2
    <3>3. CASE \E t \in Threads : Has(t, b, f)
      BY <1>3, <3>1, <3>3 DEF Has
    <3> QED
      BY <2>3, <3>2, <3>3 DEF Owns
  <2> QED
    BY <2>1, <2>2, <2>3
<1>10. Cardinality(held) = Cardinality(holders) + Cardinality(waiting)
  BY <1>1, <1>2, <1>3, <1>4, HeldSize
<1> HIDE DEF held
<1>11. free \cap held = {} /\ free \cup held = Blocks
  BY <1>2, <1>5, <1>6, <1>9 DEF Owners
<1>12. held \subseteq 0 .. numBlocksMax - 1
  <2> SUFFICES ASSUME NEW f \in held
               PROVE  f \in 0 .. numBlocksMax - 1
    OBVIOUS
  <2>1. f \in Blocks /\ ~IsFree(f)
    BY <1>2, <1>9 DEF Owners
  <2>2. ~(f >= N)
    BY <1>2, <2>1, UnusedFree
  <2> QED
    BY <1>2, <2>1, <2>2, RingTypesFacts DEF N
<1> QED
  BY <1>7, <1>8, <1>10, <1>11, <1>12

\* TurnToWrite: at most one thread has the turn to write, and it writes the chunk after
\* the last one written, whatever the order in which the threads finish their blocks.
THEOREM WritesTheNextBlock ==
  ASSUME OneThreadUntilTheLast
  PROVE  Spec => []TurnToWrite
<1>1. RInv => TurnToWrite
  BY InOrder DEF TurnToWrite, RInv, IInv, Turn, HasTurn, OneWriter, At
<1> QED
  BY <1>1, RingInvariant, PTL

\* ResourcesExact: every slot of blocks[] and every output buffer has one owner, the
\* semaphore counts the free slots, and the list of free buffers does not run out.
THEOREM NothingHeldTwice ==
  ASSUME OneThreadUntilTheLast
  PROVE  Spec => []ResourcesExact
<1>1. RInv => ResourcesExact
  BY Exact, Ownership DEF ResourcesExact
<1> QED
  BY <1>1, RingInvariant, PTL

--------------------------------------------------------------------------------
(***************************************************************************)
(* A call returns SZ_OK only with every chunk written, and MtCoder implements *)
(* OrderedCoder.                                                            *)
(*                                                                          *)
(* What is left to know is how the end of the input reaches the caller: the  *)
(* reader of the last chunk sets stopReading, and no thread stops working    *)
(* but for stopReading or an error.                                         *)
(***************************************************************************)

\* Reading is over.
Over == stopReading \/ mtRes # OK

\* The thread t has read its block and has it still, or has just written it.
Past == {"passRead", "getBuf", "code", "publish", "write", "advance", "releaseBlock", "takeReady"}
Ended(t) ==
  /\ pc[t] \in {"countFinished", "compare"} => Over
  /\ pc[t] = "passStop" => stopReading
  /\ pc[t] = "read" => readProcessed < chunks /\ readProcessed <= written + N
  /\ pc[t] \in {"getBlock", "startNext"} =>
       /\ loc[t].res = OK => loc[t].finished \/ readProcessed < chunks
       /\ loc[t].finished => readProcessed = chunks \/ mtRes # OK
  /\ pc[t] \in Past /\ (loc[t].finished \/ loc[t].res # OK) => Over
  /\ Takes(t) /\ blocks[loc[t].bi].finished => Over

End ==
  /\ \A t \in Threads : Ended(t)
  /\ \A b \in Blocks : ReadyBlocks[b] /\ blocks[b].finished => Over
  /\ readProcessed <= chunks
  /\ stopReading => readProcessed = chunks \/ mtRes # OK
  /\ ~stopReading /\ (\A t \in Threads : pc[t] \notin ReadingAt) => readProcessed < chunks
  /\ finishedEvent => Over
  /\ readRes # OK => mtRes # OK

\* What the caller has been told.
Outcome ==
  /\ mpc = "start" => readProcessed = 0
  /\ mpc \in {"free", "join"} /\ session <= Len(plan) => mres # OK
  /\ OkMeansComplete

FInv == RInv /\ Outcome /\ (mpc \in {"start", "go", "wait"} => End)

-------------------------------------------------------------------------------
(* The steps of a thread.                                                   *)

\* A thread leaves the caller's variables alone.
LEMMA ThreadsKeepMain ==
  ASSUME NEW t \in Threads, ThreadStep(t)
  PROVE  UNCHANGED main
BY DEF ThreadStep, WaitStart, CountFinished, CompareFinished, WaitRead, PassStop, ReadBlock, ReadFails,
       GetBlock, StartNext, PassRead, GetBuf, Code, CodeFails, Publish, Write, Advance, ReleaseBlock, TakeReady

\* A step of t that neither reads nor ends the reading.
Quiet(t) ==
  /\ Others(t)
  /\ stopReading' = stopReading /\ readProcessed' = readProcessed
  /\ chunks' = chunks /\ numBlocksMax' = numBlocksMax /\ written <= written'
  /\ mtRes # OK => mtRes' # OK
  /\ readRes' # OK => readRes # OK \/ mtRes' # OK
  /\ finishedEvent' => finishedEvent \/ Over
  /\ pc[t] \in ReadingAt => pc'[t] \in ReadingAt
  /\ \A b \in Blocks : blocks'[b] = blocks[b] \/ (blocks'[b].finished => Over)
  /\ \A b \in Blocks : ReadyBlocks'[b] => ReadyBlocks[b] \/ (blocks'[b].finished => Over)

LEMMA EndAside ==
  ASSUME Types, OutputTypes, OutputTypes', End, NEW t \in Threads, Quiet(t), Ended(t)'
  PROVE  End'
<1>1. /\ Over => Over'
      /\ readProcessed \in Nat /\ written \in Nat /\ written' \in Nat /\ N \in Nat /\ N' = N
      /\ \A u \in Threads : loc[u].bi \in Blocks
  BY RingTypesFacts, Facts DEF Over, OutputTypes, N, Quiet
<1>2. ASSUME NEW u \in Threads \ {t}
      PROVE  Ended(u)'
  <2>1. loc'[u] = loc[u] /\ (pc'[u] = pc[u] \/ pc'[u] = "start") /\ Ended(u) /\ loc[u].bi \in Blocks
    BY <1>1 DEF Others, End, Quiet
  <2>2. CASE pc'[u] = "start"
    BY <2>2 DEF Ended, Past, Takes
  <2>3. CASE pc'[u] = pc[u]
    <3>1. (Takes(u) /\ blocks'[loc[u].bi].finished) => Over
      BY <2>1 DEF Ended, Quiet
    <3>2. pc[u] = "read" => readProcessed' < chunks' /\ readProcessed' <= written' + N'
      BY <1>1, <2>1 DEF Ended, Quiet
    <3>3. Takes(u)' <=> Takes(u)
      BY <2>1, <2>3 DEF Takes
    <3> QED
      BY <1>1, <2>1, <2>3, <3>1, <3>2, <3>3 DEF Ended, Quiet
  <2> QED
    BY <2>1, <2>2, <2>3
<1>3. \A b \in Blocks : ReadyBlocks'[b] /\ blocks'[b].finished => Over'
  BY <1>1 DEF End, Quiet
<1>4. (\A u \in Threads : pc'[u] \notin ReadingAt) => \A u \in Threads : pc[u] \notin ReadingAt
  BY DEF Others, ReadingAt, Quiet
<1>5. \A u \in Threads : Ended(u)'
  BY <1>2
<1>6. (finishedEvent' => Over') /\ (readRes' # OK => mtRes' # OK) /\ readProcessed' <= chunks'
  BY <1>1 DEF End, Quiet
<1>7. stopReading' => readProcessed' = chunks' \/ mtRes' # OK
  BY DEF End, Quiet
<1>8. ~stopReading' /\ (\A u \in Threads : pc'[u] \notin ReadingAt) => readProcessed' < chunks'
  BY <1>4 DEF End, Quiet
<1> QED
  BY <1>3, <1>5, <1>6, <1>7, <1>8 DEF End

LEMMA WaitStart_End ==
  ASSUME Types, Created, Turn, Token, OutputTypes, OutputTypes', NEW w \in Nat, NEW n \in Nat, NEW done \in Nat,
         Ring(w, n, done), End, NEW t \in Threads, WaitStart(t)
  PROVE  End'
<1>1. Ended(t) /\ loc[t] \in Locals /\ loc[t].bi \in Blocks /\ loc[t].finished \in BOOLEAN
  BY DEF End, Types, ThreadTypes, Locals
<1>2. Ended(t)'
  BY <1>1, WaitStart_Effects DEF Ended, Past, Takes, Over
<1>3. Quiet(t)
  <2>1. finishedEvent' = finishedEvent /\ readRes' = readRes
    BY DEF WaitStart, finish, read
  <2>2. written <= written'
    <3>1. written' = written
      BY WaitStart_Effects
    <3> QED
      BY <3>1 DEF OutputTypes
  <2> QED
    BY <2>1, <2>2, WaitStart_Effects DEF Quiet, ReadingAt
<1> QED
  BY <1>2, <1>3, EndAside

LEMMA CountFinished_End ==
  ASSUME Types, Created, Turn, Token, OutputTypes, OutputTypes', NEW w \in Nat, NEW n \in Nat, NEW done \in Nat,
         Ring(w, n, done), End, NEW t \in Threads, CountFinished(t)
  PROVE  End'
<1>1. Ended(t) /\ loc[t] \in Locals /\ loc[t].bi \in Blocks /\ loc[t].finished \in BOOLEAN
  BY DEF End, Types, ThreadTypes, Locals
<1>2. Ended(t)'
  BY <1>1, CountFinished_Effects DEF Ended, Past, Takes, Over
<1>3. Quiet(t)
  <2>1. finishedEvent' = finishedEvent /\ readRes' = readRes
    BY DEF CountFinished, finish, read
  <2>2. written <= written'
    <3>1. written' = written
      BY CountFinished_Effects
    <3> QED
      BY <3>1 DEF OutputTypes
  <2> QED
    BY <2>1, <2>2, CountFinished_Effects DEF Quiet, ReadingAt
<1> QED
  BY <1>2, <1>3, EndAside

LEMMA PassStop_End ==
  ASSUME Types, Created, Turn, Token, OutputTypes, OutputTypes', NEW w \in Nat, NEW n \in Nat, NEW done \in Nat,
         Ring(w, n, done), End, NEW t \in Threads, PassStop(t)
  PROVE  End'
<1>1. Ended(t) /\ loc[t] \in Locals /\ loc[t].bi \in Blocks /\ loc[t].finished \in BOOLEAN
  BY DEF End, Types, ThreadTypes, Locals
<1>2. Ended(t)'
  BY <1>1, PassStop_Effects DEF Ended, Past, Takes, Over
<1>3. Quiet(t)
  <2>1. finishedEvent' = finishedEvent /\ readRes' = readRes
    BY DEF PassStop, finish, read
  <2>2. written <= written'
    <3>1. written' = written
      BY PassStop_Effects
    <3> QED
      BY <3>1 DEF OutputTypes
  <2> QED
    BY <2>1, <2>2, PassStop_Effects DEF Quiet, ReadingAt
<1> QED
  BY <1>2, <1>3, EndAside

LEMMA CompareFinished_End ==
  ASSUME Types, Created, Turn, Token, OutputTypes, OutputTypes', NEW w \in Nat, NEW n \in Nat, NEW done \in Nat,
         Ring(w, n, done), End, NEW t \in Threads, CompareFinished(t)
  PROVE  End'
<1>1. Ended(t) /\ loc[t] \in Locals /\ loc[t].bi \in Blocks /\ loc[t].finished \in BOOLEAN
  BY DEF End, Types, ThreadTypes, Locals
<1>2. Ended(t)'
  BY CompareFinished_Effects DEF Ended, Past, Takes
<1>3. Quiet(t)
  <2>1. finishedEvent' => finishedEvent \/ Over
    BY <1>1, CompareFinished_Effects DEF Ended
  <2>2. readRes' = readRes
    BY DEF CompareFinished, read
  <2>3. written <= written'
    BY CompareFinished_Effects DEF OutputTypes
  <2> QED
    BY <2>1, <2>2, <2>3, CompareFinished_Effects DEF Quiet, ReadingAt
<1> QED
  BY <1>2, <1>3, EndAside

LEMMA WaitRead_End ==
  ASSUME Types, Created, Turn, Token, OutputTypes, OutputTypes', NEW w \in Nat, NEW n \in Nat, NEW done \in Nat,
         Ring(w, n, done), End, NEW t \in Threads, WaitRead(t)
  PROVE  End'
<1>1. Ended(t) /\ loc[t] \in Locals /\ loc[t].bi \in Blocks /\ loc[t].finished \in BOOLEAN
  BY DEF End, Types, ThreadTypes, Locals
<1>2. Ended(t)'
  <2>1. CASE stopReading
    BY <2>1, WaitRead_Effects DEF Ended, Past, Takes
  <2>2. CASE ~stopReading /\ mtRes # OK
    <3>1. pc'[t] = "getBlock" /\ loc'[t].res = mtRes /\ mtRes' = mtRes
      BY <2>2, WaitRead_Effects
    <3> QED
      BY <2>2, <3>1 DEF Ended, Past, Takes
  <2>3. CASE ~stopReading /\ mtRes = OK
    <3>1. \A u \in Threads : pc[u] \notin ReadingAt
      BY WaitRead_Effects DEF Token, ReaderAt, ReadingAt
    <3>2. readProcessed < chunks
      BY <2>3, <3>1 DEF End
    <3>3. readProcessed <= written + N
      <4>1. readProcessed = done + n /\ written = LastDone(done) /\ n <= N /\ N \in Nat
        BY <2>3, <3>1, RingTypesFacts DEF Ring, Progress, Slots
      <4>2. LastDone(done) >= done /\ LastDone(done) \in Nat
        BY DEF LastDone
      <4> QED
        BY <4>1, <4>2
    <3>4. /\ pc'[t] = "read" /\ readProcessed' = readProcessed /\ chunks' = chunks
          /\ written' = written /\ numBlocksMax' = numBlocksMax
      BY <2>3, WaitRead_Effects
    <3> QED
      BY <3>2, <3>3, <3>4 DEF Ended, Past, Takes, N
  <2> QED
    BY <2>1, <2>2, <2>3
<1>3. Quiet(t)
  <2>1. finishedEvent' = finishedEvent /\ readRes' = readRes
    BY DEF WaitRead, finish, read
  <2>2. written <= written'
    <3>1. written' = written
      BY WaitRead_Effects
    <3> QED
      BY <3>1 DEF OutputTypes
  <2> QED
    BY <2>1, <2>2, WaitRead_Effects DEF Quiet, ReadingAt
<1> QED
  BY <1>2, <1>3, EndAside

\* The reader of the last chunk knows that it is the last.
LEMMA ReadBlock_End ==
  ASSUME Types, Created, Turn, Token, OutputTypes, OutputTypes', NEW w \in Nat, NEW n \in Nat, NEW done \in Nat,
         Ring(w, n, done), End, NEW t \in Threads, ReadBlock(t)
  PROVE  End'
<1>1. Ended(t) /\ loc[t] \in Locals /\ loc[t].bi \in Blocks /\ loc[t].finished \in BOOLEAN
  BY DEF End, Types, ThreadTypes, Locals
<1>2. readProcessed \in Nat /\ chunks \in Nat /\ readProcessed < chunks /\ readProcessed' = readProcessed + 1
  BY <1>1, ReadBlock_Effects DEF Ended, Types, RingTypes, MainTypes
<1>3. /\ Others(t) /\ stopReading' = stopReading /\ mtRes' = mtRes /\ chunks' = chunks
      /\ blocks' = blocks /\ ReadyBlocks' = ReadyBlocks /\ pc'[t] = "getBlock"
  BY ReadBlock_Effects
<1>4. finishedEvent' = finishedEvent /\ readRes' = readRes
  BY DEF ReadBlock, finish, read
<1>5. Ended(t)'
  <2>1. loc'[t].finished <=> readProcessed' = chunks
    BY <1>1, <1>2 DEF ReadBlock, Types, ThreadTypes, Locals
  <2> QED
    BY <1>2, <1>3, <2>1 DEF Ended, Past, Takes
<1>6. ASSUME NEW u \in Threads \ {t}
      PROVE  Ended(u)'
  <2>1. loc'[u] = loc[u] /\ (pc'[u] = pc[u] \/ pc'[u] = "start") /\ Ended(u)
    BY <1>3 DEF Others, End
  <2>2. pc[u] \notin {"read", "getBlock", "startNext"}
    BY ReadBlock_Effects DEF Token, ReaderAt
  <2>3. CASE pc'[u] = "start"
    BY <2>3 DEF Ended, Past, Takes
  <2>4. CASE pc'[u] = pc[u]
    BY <1>3, <2>1, <2>2, <2>4 DEF Ended, Takes, Over
  <2> QED
    BY <2>1, <2>3, <2>4
<1>7. stopReading => mtRes # OK
  BY <1>2 DEF End
<1> QED
  BY <1>2, <1>3, <1>4, <1>5, <1>6, <1>7 DEF End, Over, ReadingAt

LEMMA ReadFails_End ==
  ASSUME Types, Created, Turn, Token, OutputTypes, OutputTypes', NEW w \in Nat, NEW n \in Nat, NEW done \in Nat,
         Ring(w, n, done), End, NEW t \in Threads, ReadFails(t)
  PROVE  End'
<1>1. Ended(t) /\ loc[t] \in Locals /\ loc[t].bi \in Blocks /\ loc[t].finished \in BOOLEAN
  BY DEF End, Types, ThreadTypes, Locals
<1>2. Ended(t)'
  BY ReadFails_Effects DEF Ended, Past, Takes, Over
<1>3. Quiet(t)
  <2>1. finishedEvent' = finishedEvent
    BY DEF ReadFails, finish
  <2>2. written <= written'
    BY ReadFails_Effects DEF OutputTypes
  <2> QED
    BY <2>1, <2>2, ReadFails_Effects DEF Quiet, ReadingAt
<1> QED
  BY <1>2, <1>3, EndAside

LEMMA GetBlock_End ==
  ASSUME Types, Created, Turn, Token, OutputTypes, OutputTypes', NEW w \in Nat, NEW n \in Nat, NEW done \in Nat,
         Ring(w, n, done), End, NEW t \in Threads, GetBlock(t)
  PROVE  End'
<1>1. Ended(t) /\ loc[t] \in Locals /\ loc[t].bi \in Blocks /\ loc[t].finished \in BOOLEAN
  BY DEF End, Types, ThreadTypes, Locals
<1>2. loc'[t].finished = loc[t].finished
  BY <1>1 DEF GetBlock, Types, ThreadTypes, Locals
<1>3. Ended(t)'
  BY <1>1, <1>2, GetBlock_Effects DEF Ended, Past, Takes, Over
<1>4. Quiet(t)
  <2>1. finishedEvent' = finishedEvent /\ readRes' = readRes
    BY DEF GetBlock, finish, read
  <2>2. written <= written'
    <3>1. written' = written
      BY GetBlock_Effects
    <3> QED
      BY <3>1 DEF OutputTypes
  <2> QED
    BY <2>1, <2>2, GetBlock_Effects DEF Quiet, ReadingAt
<1> QED
  BY <1>3, <1>4, EndAside

\* Who has read the last chunk, or has an error, ends the reading.
LEMMA StartNext_End ==
  ASSUME Types, Created, Turn, Token, OutputTypes, OutputTypes', NEW w \in Nat, NEW n \in Nat, NEW done \in Nat,
         Ring(w, n, done), End, NEW t \in Threads, StartNext(t)
  PROVE  End'
<1>1. Ended(t) /\ loc[t] \in Locals /\ loc[t].bi \in Blocks /\ loc[t].finished \in BOOLEAN
  BY DEF End, Types, ThreadTypes, Locals
<1>2. /\ Others(t) /\ readProcessed' = readProcessed /\ chunks' = chunks
      /\ blocks' = blocks /\ ReadyBlocks' = ReadyBlocks /\ pc[t] = "startNext" /\ pc'[t] = "passRead"
      /\ mtRes # OK => mtRes' # OK
      /\ written' = written /\ numBlocksMax' = numBlocksMax
  BY StartNext_Effects
<1>3. finishedEvent' = finishedEvent /\ readRes' = readRes
  BY DEF StartNext, finish
<1>4. stopReading => stopReading'
  BY DEF StartNext
<1>5. loc[t].res # OK => mtRes # OK
  BY <1>2 DEF Ring, ThreadOK, Buffer, Holds, HoldAt
<1>6. (loc'[t].finished \/ loc'[t].res # OK) => stopReading'
  BY <1>1 DEF StartNext, Types, ThreadTypes, Locals, OK
<1>7. stopReading' => \/ stopReading \/ mtRes' # OK \/ loc[t].finished
  BY <1>5 DEF StartNext, SetError, OK
<1>8. ~stopReading' => ~loc[t].finished /\ loc[t].res = OK
  BY DEF StartNext
<1>9. stopReading' => readProcessed' = chunks' \/ mtRes' # OK
  BY <1>1, <1>2, <1>7 DEF End, Ended
<1>10. ~stopReading' => readProcessed' < chunks'
  BY <1>1, <1>2, <1>8 DEF Ended
<1>11. Ended(t)'
  BY <1>2, <1>6 DEF Ended, Past, Takes, Over
<1>12. ASSUME NEW u \in Threads \ {t}
       PROVE  Ended(u)'
  <2>1. loc'[u] = loc[u] /\ (pc'[u] = pc[u] \/ pc'[u] = "start") /\ Ended(u)
    BY <1>2 DEF Others, End
  <2>2. CASE pc'[u] = "start"
    BY <2>2 DEF Ended, Past, Takes
  <2>3. CASE pc'[u] = pc[u]
    BY <1>2, <1>4, <2>1, <2>3 DEF Ended, Takes, Over, N
  <2> QED
    BY <2>1, <2>2, <2>3
<1>13. \A b \in Blocks : ReadyBlocks'[b] /\ blocks'[b].finished => Over'
  BY <1>2, <1>4 DEF End, Over
<1> QED
  BY <1>2, <1>3, <1>4, <1>9, <1>10, <1>11, <1>12, <1>13 DEF End, Over

LEMMA PassRead_End ==
  ASSUME Types, Created, Turn, Token, OutputTypes, OutputTypes', NEW w \in Nat, NEW n \in Nat, NEW done \in Nat,
         Ring(w, n, done), End, NEW t \in Threads, PassRead(t)
  PROVE  End'
<1>1. Ended(t) /\ loc[t] \in Locals /\ loc[t].bi \in Blocks /\ loc[t].finished \in BOOLEAN
  BY DEF End, Types, ThreadTypes, Locals
<1>2. loc'[t].finished = loc[t].finished
  BY <1>1 DEF PassRead, Types, ThreadTypes, Locals
<1>3. Ended(t)'
  BY <1>1, <1>2, PassRead_Effects DEF Ended, Past, Takes, Over
<1>4. Quiet(t)
  <2>1. finishedEvent' = finishedEvent /\ readRes' = readRes
    BY DEF PassRead, finish, read
  <2>2. written <= written'
    <3>1. written' = written
      BY PassRead_Effects
    <3> QED
      BY <3>1 DEF OutputTypes
  <2> QED
    BY <2>1, <2>2, PassRead_Effects DEF Quiet, ReadingAt
<1> QED
  BY <1>3, <1>4, EndAside

LEMMA GetBuf_End ==
  ASSUME Types, Created, Turn, Token, OutputTypes, OutputTypes', NEW w \in Nat, NEW n \in Nat, NEW done \in Nat,
         Ring(w, n, done), End, NEW t \in Threads, GetBuf(t)
  PROVE  End'
<1>1. Ended(t) /\ loc[t] \in Locals /\ loc[t].bi \in Blocks /\ loc[t].finished \in BOOLEAN
  BY DEF End, Types, ThreadTypes, Locals
<1>2. loc'[t].finished = loc[t].finished
  BY <1>1 DEF GetBuf, Types, ThreadTypes, Locals
<1>3. Ended(t)'
  BY <1>1, <1>2, GetBuf_Effects DEF Ended, Past, Takes, Over
<1>4. Quiet(t)
  <2>1. finishedEvent' = finishedEvent /\ readRes' = readRes
    BY DEF GetBuf, finish, read
  <2>2. written <= written'
    <3>1. written' = written
      BY GetBuf_Effects
    <3> QED
      BY <3>1 DEF OutputTypes
  <2> QED
    BY <2>1, <2>2, GetBuf_Effects DEF Quiet, ReadingAt
<1> QED
  BY <1>3, <1>4, EndAside

LEMMA Code_End ==
  ASSUME Types, Created, Turn, Token, OutputTypes, OutputTypes', NEW w \in Nat, NEW n \in Nat, NEW done \in Nat,
         Ring(w, n, done), End, NEW t \in Threads, Code(t)
  PROVE  End'
<1>1. Ended(t) /\ loc[t] \in Locals /\ loc[t].bi \in Blocks /\ loc[t].finished \in BOOLEAN
  BY DEF End, Types, ThreadTypes, Locals
<1>2. loc'[t].finished = loc[t].finished
  BY <1>1 DEF Code, Types, ThreadTypes, Locals
<1>3. Ended(t)'
  BY <1>1, <1>2, Code_Effects DEF Ended, Past, Takes, Over
<1>4. Quiet(t)
  <2>1. finishedEvent' = finishedEvent /\ readRes' = readRes
    BY DEF Code, finish, read
  <2>2. written <= written'
    <3>1. written' = written
      BY Code_Effects
    <3> QED
      BY <3>1 DEF OutputTypes
  <2> QED
    BY <2>1, <2>2, Code_Effects DEF Quiet, ReadingAt
<1> QED
  BY <1>3, <1>4, EndAside

LEMMA CodeFails_End ==
  ASSUME Types, Created, Turn, Token, OutputTypes, OutputTypes', NEW w \in Nat, NEW n \in Nat, NEW done \in Nat,
         Ring(w, n, done), End, NEW t \in Threads, CodeFails(t)
  PROVE  End'
<1>1. Ended(t) /\ loc[t] \in Locals /\ loc[t].bi \in Blocks /\ loc[t].finished \in BOOLEAN
  BY DEF End, Types, ThreadTypes, Locals
<1>2. loc'[t].finished = loc[t].finished
  BY <1>1 DEF CodeFails, Types, ThreadTypes, Locals
<1>3. Ended(t)'
  BY <1>1, <1>2, CodeFails_Effects DEF Ended, Past, Takes, Over
<1>4. Quiet(t)
  <2>1. finishedEvent' = finishedEvent /\ readRes' = readRes
    BY DEF CodeFails, finish, read
  <2>2. written <= written'
    <3>1. written' = written
      BY CodeFails_Effects
    <3> QED
      BY <3>1 DEF OutputTypes
  <2> QED
    BY <2>1, <2>2, CodeFails_Effects DEF Quiet, ReadingAt
<1> QED
  BY <1>3, <1>4, EndAside

LEMMA Publish_End ==
  ASSUME Types, Created, Turn, Token, OutputTypes, OutputTypes', NEW w \in Nat, NEW n \in Nat, NEW done \in Nat,
         Ring(w, n, done), End, NEW t \in Threads, Publish(t)
  PROVE  End'
<1>1. Ended(t) /\ loc[t] \in Locals /\ loc[t].bi \in Blocks /\ loc[t].finished \in BOOLEAN
  BY DEF End, Types, ThreadTypes, Locals
<1>2. (loc[t].finished => Over) /\ (loc[t].res # OK => Over) /\ (writeRes # OK => mtRes # OK)
  BY <1>1, Publish_Effects DEF Ended, Past, Ring, Progress
<1>3. Ended(t)'
  <2>1. CASE writeIndex = loc[t].bi
    <3>1. loc'[t].finished = loc[t].finished
      BY <1>1, <2>1 DEF Publish, Types, ThreadTypes, Locals
    <3> QED
      BY <1>2, <2>1, <3>1, Publish_Effects DEF Ended, Past, Takes, Over
  <2>2. CASE writeIndex # loc[t].bi
    <3>1. pc'[t] = IF loc[t].res # OK \/ loc[t].finished THEN "countFinished" ELSE "getRead"
      BY <1>1, <2>2 DEF Publish, EndBlock, Goto, Types, ThreadTypes
    <3>2. stopReading' = stopReading /\ mtRes' = mtRes
      BY Publish_Effects
    <3> QED
      BY <1>2, <3>1, <3>2 DEF Ended, Past, Takes, Over
  <2> QED
    BY <2>1, <2>2
<1>4. Quiet(t)
  <2>1. finishedEvent' = finishedEvent /\ readRes' = readRes
    BY DEF Publish, finish, read
  <2>2. /\ Others(t) /\ stopReading' = stopReading /\ readProcessed' = readProcessed /\ chunks' = chunks
        /\ numBlocksMax' = numBlocksMax /\ written' = written /\ mtRes' = mtRes /\ pc[t] = "publish"
    BY Publish_Effects
  <2>3. blocks \in [Blocks -> Block] /\ ReadyBlocks \in [Blocks -> BOOLEAN]
    BY DEF Types, RingTypes
  <2>4. \A b \in Blocks : blocks'[b] = blocks[b] \/ (blocks'[b].finished => Over)
    <3>1. blocks' = [blocks EXCEPT ![loc[t].bi] = [res |-> loc[t].res, bufIndex |-> loc[t].bufIndex,
                                                   finished |-> loc[t].finished]]
      BY Publish_Effects
    <3> QED
      BY <1>2, <2>3, <3>1
  <2>5. \A b \in Blocks : ReadyBlocks'[b] => ReadyBlocks[b] \/ (blocks'[b].finished => Over)
    <3>1. blocks'[loc[t].bi].finished => Over
      <4>1. blocks' = [blocks EXCEPT ![loc[t].bi] = [res |-> loc[t].res, bufIndex |-> loc[t].bufIndex,
                                                     finished |-> loc[t].finished]]
        BY Publish_Effects
      <4> QED
        BY <1>1, <1>2, <2>3, <4>1
    <3>2. ReadyBlocks' = ReadyBlocks \/ ReadyBlocks' = [ReadyBlocks EXCEPT ![loc[t].bi] = TRUE]
      BY Publish_Effects
    <3> QED
      BY <2>3, <3>1, <3>2
  <2> QED
    BY <2>1, <2>2, <2>4, <2>5 DEF Quiet, ReadingAt, OutputTypes
<1> QED
  BY <1>3, <1>4, EndAside

LEMMA Write_End ==
  ASSUME Types, Created, Turn, Token, OutputTypes, OutputTypes', NEW w \in Nat, NEW n \in Nat, NEW done \in Nat,
         Ring(w, n, done), End, NEW t \in Threads, Write(t)
  PROVE  End'
<1>1. Ended(t) /\ loc[t] \in Locals /\ loc[t].bi \in Blocks /\ loc[t].finished \in BOOLEAN
  BY DEF End, Types, ThreadTypes, Locals
<1>2. loc'[t].finished = loc[t].finished
  BY <1>1 DEF Write, Types, ThreadTypes, Locals
<1>3. Ended(t)'
  BY <1>1, <1>2, Write_Effects DEF Ended, Past, Takes, Over
<1>4. Quiet(t)
  <2>1. finishedEvent' = finishedEvent /\ readRes' = readRes
    BY DEF Write, finish, read
  <2>2. written <= written'
    <3>1. CASE written' = written
      BY <3>1 DEF OutputTypes
    <3>2. CASE loc[t].res = OK /\ written' = content[loc[t].bufIndex]
      <4>1. written' = done + 1 /\ pc[t] = "write"
        BY <3>2, Write_Effects DEF Ring, ThreadOK, Chunk
      <4>2. LastDone(done) = done
        BY <4>1 DEF Turn, HasTurn, LastDone
      <4> QED
        BY <4>1, <4>2 DEF Ring, Progress, OutputTypes
    <3> QED
      BY <3>1, <3>2, Write_Effects
  <2>3. /\ Others(t) /\ stopReading' = stopReading /\ readProcessed' = readProcessed /\ chunks' = chunks
        /\ numBlocksMax' = numBlocksMax /\ (mtRes # OK => mtRes' # OK) /\ pc[t] = "write"
        /\ blocks' = blocks /\ ReadyBlocks' = ReadyBlocks
    BY Write_Effects
  <2> QED
    BY <2>1, <2>2, <2>3 DEF Quiet, ReadingAt
<1> QED
  BY <1>3, <1>4, EndAside

\* The block that the writer takes next was among the ready ones.
LEMMA Advance_End ==
  ASSUME Types, Created, Turn, Token, OutputTypes, OutputTypes', NEW w \in Nat, NEW n \in Nat, NEW done \in Nat,
         Ring(w, n, done), End, NEW t \in Threads, Advance(t)
  PROVE  End'
<1>1. Ended(t) /\ loc[t] \in Locals /\ loc[t].bi \in Blocks /\ loc[t].finished \in BOOLEAN
  BY DEF End, Types, ThreadTypes, Locals
<1>2. loc'[t].finished = loc[t].finished /\ loc'[t].isReady = ReadyBlocks[NextBlock(loc[t].bi)]
  BY <1>1 DEF Advance, Types, ThreadTypes, Locals
<1>3. NextBlock(loc[t].bi) \in Blocks
  BY <1>1, NextBlockType DEF Types
<1>4. /\ Others(t) /\ stopReading' = stopReading /\ readProcessed' = readProcessed /\ chunks' = chunks
      /\ numBlocksMax' = numBlocksMax /\ mtRes' = mtRes /\ pc[t] = "advance" /\ pc'[t] = "releaseBlock"
      /\ written' = written /\ blocks' = blocks
      /\ loc'[t].bi = NextBlock(loc[t].bi) /\ loc'[t].res = loc[t].res
  BY Advance_Effects
<1>5. Ended(t)'
  <2>1. loc'[t].isReady /\ blocks[NextBlock(loc[t].bi)].finished => Over
    BY <1>2, <1>3 DEF End
  <2> QED
    BY <1>1, <1>2, <1>4, <2>1 DEF Ended, Past, Takes, Over
<1>6. \A b \in Blocks : ReadyBlocks'[b] => ReadyBlocks[b]
  <2>1. ReadyBlocks' = ReadyBlocks \/ ReadyBlocks' = [ReadyBlocks EXCEPT ![NextBlock(loc[t].bi)] = FALSE]
    BY Advance_Effects
  <2> QED
    BY <2>1 DEF Types, RingTypes
<1>7. Quiet(t)
  <2>1. finishedEvent' = finishedEvent /\ readRes' = readRes
    BY DEF Advance, finish, read
  <2> QED
    BY <1>4, <1>6, <2>1 DEF Quiet, ReadingAt, OutputTypes
<1> QED
  BY <1>5, <1>7, EndAside

LEMMA ReleaseBlock_End ==
  ASSUME Types, Created, Turn, Token, OutputTypes, OutputTypes', NEW w \in Nat, NEW n \in Nat, NEW done \in Nat,
         Ring(w, n, done), End, NEW t \in Threads, ReleaseBlock(t)
  PROVE  End'
<1>1. Ended(t) /\ loc[t] \in Locals /\ loc[t].bi \in Blocks /\ loc[t].finished \in BOOLEAN
  BY DEF End, Types, ThreadTypes, Locals
<1>2. Ended(t)'
  <2>1. CASE loc[t].isReady
    BY <1>1, <2>1, ReleaseBlock_Effects DEF Ended, Past, Takes, Over
  <2>2. CASE ~loc[t].isReady
    <3>1. pc'[t] = IF loc[t].res # OK \/ loc[t].finished THEN "countFinished" ELSE "getRead"
      BY <1>1, <2>2 DEF ReleaseBlock, EndBlock, Goto, Types, ThreadTypes
    <3>2. stopReading' = stopReading /\ mtRes' = mtRes /\ pc[t] = "releaseBlock"
      BY ReleaseBlock_Effects
    <3> QED
      BY <1>1, <3>1, <3>2 DEF Ended, Past, Takes, Over
  <2> QED
    BY <2>1, <2>2
<1>3. Quiet(t)
  <2>1. finishedEvent' = finishedEvent /\ readRes' = readRes
    BY DEF ReleaseBlock, finish, read
  <2>2. written <= written'
    <3>1. written' = written
      BY ReleaseBlock_Effects
    <3> QED
      BY <3>1 DEF OutputTypes
  <2> QED
    BY <2>1, <2>2, ReleaseBlock_Effects DEF Quiet, ReadingAt
<1> QED
  BY <1>2, <1>3, EndAside

LEMMA TakeReady_End ==
  ASSUME Types, Created, Turn, Token, OutputTypes, OutputTypes', NEW w \in Nat, NEW n \in Nat, NEW done \in Nat,
         Ring(w, n, done), End, NEW t \in Threads, TakeReady(t)
  PROVE  End'
<1>1. Ended(t) /\ loc[t] \in Locals /\ loc[t].bi \in Blocks /\ loc[t].finished \in BOOLEAN
  BY DEF End, Types, ThreadTypes, Locals
<1>2. Ended(t)'
  <2>1. loc'[t].finished = blocks[loc[t].bi].finished
    BY <1>1 DEF TakeReady, Types, ThreadTypes, Locals
  <2>2. pc[t] = "takeReady" /\ Takes(t)
    BY TakeReady_Effects DEF Takes
  <2>3. blocks[loc[t].bi].finished => Over
    BY <1>1, <2>2 DEF Ended
  <2>4. blocks[loc[t].bi].res # OK => mtRes # OK
    BY <1>1, <2>2 DEF Ring, BlockOK, Waits
  <2>5. loc[t].res # OK => Over
    BY <1>1, <2>2 DEF Ended, Past
  <2>6. loc'[t].res # OK => Over
    BY <2>4, <2>5, TakeReady_Effects DEF Over
  <2>7. pc'[t] = "write" /\ Over' = Over
    BY TakeReady_Effects DEF Over
  <2> QED
    BY <2>1, <2>3, <2>6, <2>7 DEF Ended, Past, Takes
<1>3. Quiet(t)
  <2>1. finishedEvent' = finishedEvent /\ readRes' = readRes
    BY DEF TakeReady, finish, read
  <2>2. written <= written'
    <3>1. written' = written
      BY TakeReady_Effects
    <3> QED
      BY <3>1 DEF OutputTypes
  <2> QED
    BY <2>1, <2>2, TakeReady_Effects DEF Quiet, ReadingAt
<1> QED
  BY <1>2, <1>3, EndAside

-------------------------------------------------------------------------------
(* The invariant.                                                           *)

\* Inside a call there is a ring.
LEMMA RingThere ==
  ASSUME RInv, mpc # "idle"
  PROVE  \E w, n, done \in Nat : Ring(w, n, done)
<1>1. session \in Nat
  BY PlanTypes DEF RInv, IInv, Types, MainTypes
<1> QED
  BY <1>1 DEF RInv, Calm

LEMMA EndThread ==
  ASSUME RInv, RInv', End, mpc # "idle", NEW t \in Threads, ThreadStep(t)
  PROVE  End'
<1>1. PICK w \in Nat, n \in Nat, done \in Nat : Ring(w, n, done)
  BY RingThere
<1>2. Types /\ Created /\ Turn /\ Token /\ OutputTypes /\ OutputTypes'
  BY DEF RInv, IInv
<1>3. CASE WaitStart(t)
  BY <1>1, <1>2, <1>3, WaitStart_End
<1>4. CASE CountFinished(t)
  BY <1>1, <1>2, <1>4, CountFinished_End
<1>5. CASE CompareFinished(t)
  BY <1>1, <1>2, <1>5, CompareFinished_End
<1>6. CASE WaitRead(t)
  BY <1>1, <1>2, <1>6, WaitRead_End
<1>7. CASE PassStop(t)
  BY <1>1, <1>2, <1>7, PassStop_End
<1>8. CASE ReadBlock(t)
  BY <1>1, <1>2, <1>8, ReadBlock_End
<1>9. CASE ReadFails(t)
  BY <1>1, <1>2, <1>9, ReadFails_End
<1>10. CASE GetBlock(t)
  BY <1>1, <1>2, <1>10, GetBlock_End
<1>11. CASE StartNext(t)
  BY <1>1, <1>2, <1>11, StartNext_End
<1>12. CASE PassRead(t)
  BY <1>1, <1>2, <1>12, PassRead_End
<1>13. CASE GetBuf(t)
  BY <1>1, <1>2, <1>13, GetBuf_End
<1>14. CASE Code(t)
  BY <1>1, <1>2, <1>14, Code_End
<1>15. CASE CodeFails(t)
  BY <1>1, <1>2, <1>15, CodeFails_End
<1>16. CASE Publish(t)
  BY <1>1, <1>2, <1>16, Publish_End
<1>17. CASE Write(t)
  BY <1>1, <1>2, <1>17, Write_End
<1>18. CASE Advance(t)
  BY <1>1, <1>2, <1>18, Advance_End
<1>19. CASE ReleaseBlock(t)
  BY <1>1, <1>2, <1>19, ReleaseBlock_End
<1>20. CASE TakeReady(t)
  BY <1>1, <1>2, <1>20, TakeReady_End
<1> QED
  BY <1>3, <1>4, <1>5, <1>6, <1>7, <1>8, <1>9, <1>10, <1>11, <1>12, <1>13, <1>14, <1>15, <1>16, <1>17, <1>18, <1>19, <1>20 DEF ThreadStep

\* Outside a call, and before its first step, no thread counts or writes.
LEMMA OutsideCall ==
  ASSUME RInv, mpc \notin {"go", "wait"}, NEW t \in Threads, ThreadStep(t)
  PROVE  UNCHANGED <<readProcessed, written, mtRes>>
<1>1. pc[t] \notin Inside
  BY DEF RInv, Calm
<1>2. WaitStart(t) \/ CompareFinished(t)
  BY <1>1 DEF Inside, Labels, ThreadStep, CountFinished, WaitRead, PassStop, ReadBlock, ReadFails,
              GetBlock, StartNext, PassRead, GetBuf, Code, CodeFails, Publish, Write, Advance, ReleaseBlock, TakeReady
<1> QED
  BY <1>2 DEF WaitStart, CompareFinished, read, output

\* The caller is woken when the ring is empty, so that without an error all is written.
LEMMA AllWritten ==
  ASSUME RInv, End, mpc = "wait", finishedEvent, mtRes = OK
  PROVE  written = chunks
<1>1. PICK w \in Nat, n \in Nat, done \in Nat : Ring(w, n, done)
  BY RingThere
<1>2. \A t \in Threads : pc[t] \notin Inside
  BY DEF RInv, IInv, Places, InCall, Working
<1>3. \A t \in Threads : ~Holds(t) /\ ~HasTurn(t) /\ pc[t] \notin ReadingAt /\ pc[t] # "advance"
  BY <1>2 DEF Holds, HoldAt, HasTurn, ReadingAt, Inside, Labels
<1>4. ~ReadyBlocks[w]
  BY <1>1, <1>3 DEF RInv, IInv, Turn, Ring, Slots
<1>5. n = 0
  <2>1. w \in Nat /\ w < N /\ w \in Blocks /\ N \in Nat
    BY <1>1, RingTypesFacts DEF Ring, Slots, RInv, IInv
  <2>2. ~InUse(w, n, w)
    BY <1>1, <1>3, <1>4, <2>1 DEF Ring, Slots
  <2>3. Pos(w, w) = 0
    BY <2>1 DEF Pos
  <2> QED
    BY <2>1, <2>2, <2>3 DEF InUse
<1>6. readProcessed = chunks
  BY DEF End, Over
<1>7. readProcessed = done + n /\ written = LastDone(done) /\ LastDone(done) = done
  BY <1>1, <1>3 DEF Ring, Progress, LastDone
<1> QED
  BY <1>5, <1>6, <1>7

\* A call begins with nothing read, and something to read.
LEMMA BeginEnd ==
  ASSUME RInv, MtCoder_Code
  PROVE  End' /\ chunks' \in Nat \ {0} /\ numBlocksMax' \in Nat
<1>1. Types /\ Rested
  BY DEF RInv, IInv, Places, BeforeLast, MtCoder_Code
<1>2. plan \in Plans /\ session \in Nat /\ session < Len(plan) /\ session' = session + 1
  BY <1>1, PlanTypes DEF Types, MainTypes, MtCoder_Code
<1>3. chunks' \in Nat \ {0} /\ numBlocksMax' \in Nat
  <2>1. session' \in 1 .. Len(plan) /\ Len(plan) \in Nat
    BY <1>2, PlanTypes
  <2>2. plan[session'] \in Calls
    BY <1>2, <2>1, CoderAssumption
  <2>3. MaxBlocks \in Nat
    BY CoderAssumption
  <2> QED
    BY <2>2, <2>3 DEF MtCoder_Code, Calls
<1>4. /\ pc' = pc /\ loc' = loc /\ ReadyBlocks' = [b \in Blocks |-> FALSE] /\ readProcessed' = 0
      /\ stopReading' = FALSE /\ finishedEvent' = FALSE /\ readRes' = OK
  BY DEF MtCoder_Code, ErrorsReset, ReadReset
<1>5. \A t \in Threads : Ended(t)'
  BY <1>1, <1>4 DEF Rested, Ended, Past, Takes
<1>6. End'
  BY <1>3, <1>4, <1>5 DEF End
<1> QED
  BY <1>3, <1>6

\* The caller's other steps leave what the threads know.
LEMMA EndMain ==
  ASSUME RInv, End, StartFirst \/ Go, mpc' \in {"start", "go", "wait"}
  PROVE  End'
<1>1. Types /\ Created
  BY DEF RInv, IInv
<1>2. /\ UNCHANGED <<stopReading, readProcessed, chunks, written, mtRes, readRes, finishedEvent, ReadyBlocks,
                     blocks, numBlocksMax, loc>>
      /\ \A u \in Threads : pc'[u] = pc[u] \/ (pc[u] = "exited" /\ pc'[u] = "start")
  <2>1. CASE StartFirst
    <3>1. pc' = pc \/ (~created[0] /\ pc' = [pc EXCEPT ![0] = "start"])
      BY <2>1 DEF StartFirst
    <3>2. \A u \in Threads : pc'[u] = pc[u] \/ (pc[u] = "exited" /\ pc'[u] = "start")
      BY <1>1, <3>1 DEF Created, Types, ThreadTypes
    <3> QED
      BY <2>1, <3>2 DEF StartFirst, call, read, write, output, finish
  <2>2. CASE Go
    BY <2>2 DEF Go, call, write, output, finish
  <2> QED
    BY <2>1, <2>2
<1>3. \A u \in Threads : Ended(u)'
  <2> SUFFICES ASSUME NEW u \in Threads
               PROVE  Ended(u)'
    OBVIOUS
  <2>1. CASE pc'[u] = pc[u]
    BY <1>2, <2>1 DEF End, Ended, Takes, Over, N
  <2>2. CASE pc'[u] = "start"
    BY <2>2 DEF Ended, Past, Takes
  <2> QED
    BY <1>2, <2>1, <2>2
<1>4. (\A u \in Threads : pc'[u] \notin ReadingAt) => \A u \in Threads : pc[u] \notin ReadingAt
  BY <1>2 DEF ReadingAt
<1> QED
  BY <1>2, <1>3, <1>4 DEF End, Over

LEMMA FInvInit ==
  ASSUME OneThreadUntilTheLast, Init
  PROVE  FInv
<1>1. mpc = "idle" /\ session = 0
  BY DEF Init
<1>2. RInv
  BY RInvInit
<1> QED
  BY <1>1, <1>2 DEF FInv, Outcome, OkMeansComplete

LEMMA FInvStep ==
  ASSUME FInv, [Next]_vars
  PROVE  FInv'
<1>1. RInv /\ Outcome /\ RInv'
  BY RInvStep, RInvStutter DEF FInv
<1>2. CASE UNCHANGED vars
  <2>1. End => End'
    BY <1>2 DEF vars, main, call, read, write, start, finish, output, End, Ended, Takes, Over, N
  <2> QED
    BY <1>1, <1>2, <2>1 DEF FInv, Outcome, OkMeansComplete, vars, main, call, read, output
<1>3. CASE MtCoder_Code
  <2>1. End'
    BY <1>1, <1>3, BeginEnd
  <2>2. Outcome'
    BY <1>3 DEF MtCoder_Code, ReadReset, Outcome, OkMeansComplete
  <2> QED
    BY <1>1, <2>1, <2>2 DEF FInv
<1>4. CASE StartFirst
  <2>1. Outcome'
    BY <1>4 DEF StartFirst, CreateFails, Outcome, OkMeansComplete, OK
  <2>2. mpc = "start"
    BY <1>4 DEF StartFirst
  <2> QED
    BY <1>1, <1>4, <2>1, <2>2, EndMain DEF FInv
<1>5. CASE Go
  BY <1>1, <1>5, EndMain DEF FInv, Go, Outcome, OkMeansComplete
<1>6. CASE WaitFinished
  <2>1. mpc = "wait" /\ mpc' = (IF mres' = OK THEN "idle" ELSE "free") /\ finishedEvent
    BY <1>6 DEF WaitFinished
  <2>2. mres' = OK => mtRes = OK
    BY <1>6 DEF WaitFinished, FirstError
  <2>3. mres' = OK => written = chunks
    BY <1>1, <2>1, <2>2, AllWritten DEF FInv
  <2>4. written' = written /\ chunks' = chunks
    BY <1>6 DEF WaitFinished, output, call
  <2> QED
    BY <1>1, <2>1, <2>3, <2>4 DEF FInv, Outcome, OkMeansComplete
<1>7. CASE Destruct
  <2>1. session' = Len(plan') + 1 /\ Len(plan') \in Nat /\ mpc' = "free"
    BY <1>1, <1>7, PlanTypes DEF Destruct, RInv, IInv, Types, MainTypes
  <2> QED
    BY <1>1, <2>1 DEF FInv, Outcome, OkMeansComplete
<1>8. CASE FreeThread \/ JoinThread
  <2>1. mpc \in {"free", "join"} /\ mpc' \in {"free", "join"} /\ UNCHANGED <<mres, session, plan>>
    BY <1>8 DEF FreeThread, JoinThread, call
  <2> QED
    BY <1>1, <2>1 DEF FInv, Outcome, OkMeansComplete
<1>9. CASE FreeDone
  <2>1. /\ mpc = "free" /\ mpc' = (IF session > Len(plan) THEN "destroyed" ELSE "idle")
        /\ UNCHANGED <<mres, session, plan>>
    BY <1>9 DEF FreeDone, call
  <2>2. session \in Nat /\ Len(plan) \in Nat
    BY <1>1, PlanTypes DEF RInv, IInv, Types, MainTypes
  <2> QED
    BY <1>1, <2>1, <2>2 DEF FInv, Outcome, OkMeansComplete
<1>10. ASSUME NEW t \in Threads, ThreadStep(t)
       PROVE  FInv'
  <2>1. UNCHANGED <<mpc, mres, session, plan, chunks>>
    BY <1>10, ThreadsKeepMain DEF main, call
  <2>2. mpc \notin {"go", "wait"} => UNCHANGED <<readProcessed, written>>
    BY <1>1, <1>10, OutsideCall
  <2>3. Outcome'
    BY <1>1, <2>1, <2>2 DEF Outcome, OkMeansComplete
  <2>4. mpc \in {"start", "go", "wait"} => End'
    BY <1>1, <1>10, EndThread DEF FInv
  <2> QED
    BY <1>1, <2>1, <2>3, <2>4 DEF FInv
<1>11. CASE Destroyed
  BY <1>2, <1>11 DEF Destroyed
<1> QED
  BY <1>2, <1>3, <1>4, <1>5, <1>6, <1>7, <1>8, <1>9, <1>10, <1>11 DEF Next, MainStep

LEMMA FinalInvariant ==
  ASSUME OneThreadUntilTheLast
  PROVE  Spec => []FInv
<1>1. Init => FInv
  BY FInvInit
<1>2. FInv /\ [Next]_vars => FInv'
  BY FInvStep
<1> QED
  BY <1>1, <1>2, PTL DEF Spec

-------------------------------------------------------------------------------
(* The steps of OrderedCoder.                                               *)

Running == mpc \in {"start", "go", "wait"}

LEMMA Stutters ==
  ASSUME Running' = Running, UNCHANGED <<numBlocksMax, chunks, readProcessed, written, mtRes, mres>>
  PROVE  [O!Next]_O!vars
BY DEF O!vars, Running

LEMMA Failing ==
  ASSUME Types', Running, Running' = Running,
         UNCHANGED <<numBlocksMax, chunks, readProcessed, written, mres>>,
         mtRes' = mtRes \/ (mtRes = OK /\ mtRes' # OK)
  PROVE  [O!Next]_O!vars
<1>1. CASE mtRes' = mtRes
  BY <1>1, Stutters
<1>2. CASE mtRes = OK /\ mtRes' # OK
  <2>1. mtRes' \in SResults \ {OK}
    BY <1>2 DEF Types, RingTypes
  <2>2. O!Fail
    BY <1>2, <2>1 DEF O!Fail, Running
  <2> QED
    BY <2>2 DEF O!Next
<1> QED
  BY <1>1, <1>2

\* A thread that reads a block, within the ring.
LEMMA Reading ==
  ASSUME FInv, Running, NEW t \in Threads, ReadBlock(t)
  PROVE  O!Next
<1>1. Types /\ OutputTypes /\ Ended(t)
  BY DEF FInv, Running, End, RInv, IInv
<1>2. pc[t] = "read" /\ readProcessed' = readProcessed + 1
  BY DEF ReadBlock
<1>3. readProcessed < chunks /\ readProcessed - written < numBlocksMax + 1
  <2>1. readProcessed \in Nat /\ written \in Nat /\ N \in Nat
    BY <1>1, Facts, RingTypesFacts
  <2> QED
    BY <1>1, <1>2, <2>1 DEF Ended, N
<1>4. UNCHANGED <<mpc, numBlocksMax, chunks, written, mtRes, mres>>
  BY DEF ReadBlock, main, call, output
<1>5. O!Read
  BY <1>2, <1>3, <1>4 DEF O!Read, Running
<1> QED
  BY <1>5 DEF O!Next

\* A thread that writes the block whose turn it is.
LEMMA Writing ==
  ASSUME FInv, FInv', Running, NEW t \in Threads, Write(t)
  PROVE  [O!Next]_O!vars
<1>1. UNCHANGED <<mpc, mres, numBlocksMax, chunks, readProcessed>> /\ pc[t] = "write"
  BY DEF Write, main, call, read
<1>2. Running' = Running /\ Types' /\ Types
  BY <1>1 DEF Running, FInv, RInv, IInv
<1>3. CASE loc[t].res = OK /\ loc[t].bufIndex # None /\ written' = content[loc[t].bufIndex] /\ mtRes' = mtRes
  <2>1. PICK w \in Nat, n \in Nat, done \in Nat : Ring(w, n, done)
    BY RingThere DEF FInv, Running
  <2>2. written' = done + 1 /\ done + 1 <= readProcessed
    BY <1>1, <1>3, <2>1 DEF Ring, ThreadOK, Chunk
  <2>3. written' > written /\ (mtRes = OK => written' = written + 1)
    BY <1>1, <1>3, InOrder DEF FInv, WritesInOrder, At
  <2>4. written' \in (written + 1) .. readProcessed
    BY <1>2, <2>2, <2>3, Facts DEF FInv, RInv
  <2>5. O!Write
    BY <1>1, <1>3, <2>3, <2>4 DEF O!Write, Running
  <2> QED
    BY <2>5 DEF O!Next
<1>4. CASE written' = written /\ (mtRes' = mtRes \/ (mtRes = OK /\ mtRes' # OK))
  BY <1>1, <1>2, <1>4, Failing
<1> QED
  BY <1>3, <1>4 DEF Write, SetError, OK

\* Every step of MtCoder is a step of OrderedCoder, or one that it does not see.
LEMMA RefinedStep ==
  ASSUME FInv, FInv', [Next]_vars
  PROVE  [O!Next]_O!vars
<1>1. RInv /\ Types /\ Types'
  BY DEF FInv, RInv, IInv
<1>2. CASE UNCHANGED vars
  BY <1>2, Stutters DEF vars, main, call, read, output, Running
<1>3. CASE MtCoder_Code
  <2>1. chunks' \in Nat \ {0} /\ numBlocksMax' \in Nat
    BY <1>1, <1>3, BeginEnd
  <2>2. /\ mpc = "idle" /\ mpc' = "start" /\ readProcessed' = 0 /\ written' = 0 /\ mtRes' = OK
        /\ mres' = mres
    BY <1>3 DEF MtCoder_Code, ReadReset, ErrorsReset
  <2>3. numBlocksMax' + 1 \in Nat \ {0}
    <3>1. \A k \in Nat : k + 1 \in Nat \ {0}
      OBVIOUS
    <3> QED
      BY <2>1, <3>1
  <2>4. O!Begin
    BY <2>1, <2>2, <2>3 DEF O!Begin
  <2> QED
    BY <2>4 DEF O!Next
<1>4. CASE StartFirst
  <2>1. UNCHANGED <<numBlocksMax, chunks, readProcessed, written, mtRes>> /\ mpc = "start"
    BY <1>4 DEF StartFirst, call, read, output
  <2>2. CASE mpc' = "go" /\ mres' = mres
    BY <2>1, <2>2, Stutters DEF Running
  <2>3. CASE mpc' = "idle" /\ mres' = "create"
    <3>1. readProcessed = 0 /\ mres' \in SResults \ {OK}
      BY <2>1, <2>3 DEF FInv, Outcome, SResults, OK
    <3>2. O!ReturnError
      BY <2>1, <2>3, <3>1 DEF O!ReturnError
    <3> QED
      BY <3>2 DEF O!Next
  <2> QED
    BY <1>4, <2>2, <2>3 DEF StartFirst
<1>5. CASE Go
  BY <1>5, Stutters DEF Go, call, output, Running
<1>6. CASE WaitFinished
  <2>1. /\ UNCHANGED <<numBlocksMax, chunks, readProcessed, written, mtRes>>
        /\ mpc = "wait" /\ finishedEvent /\ mres' = FirstError(readRes, mtRes, writeRes)
        /\ mpc' = IF mres' = OK THEN "idle" ELSE "free"
    BY <1>6 DEF WaitFinished, call, read, output
  <2>2. CASE mres' = OK
    <3>1. mtRes = OK
      BY <2>1, <2>2 DEF FirstError
    <3>2. written = chunks
      BY <1>1, <2>1, <3>1, AllWritten DEF FInv
    <3>3. O!ReturnOk
      BY <2>1, <2>2, <3>1, <3>2 DEF O!ReturnOk
    <3> QED
      BY <3>3 DEF O!Next
  <2>3. CASE mres' # OK
    <3>1. (readRes # OK => mtRes # OK) /\ (writeRes # OK => mtRes # OK)
      <4>1. PICK w \in Nat, n \in Nat, done \in Nat : Ring(w, n, done)
        BY <1>1, <2>1, RingThere
      <4> QED
        BY <2>1, <4>1 DEF FInv, End, Ring, Progress
    <3>2. mtRes # OK
      BY <2>1, <2>3, <3>1 DEF FirstError
    <3>3. mres' \in SResults \ {OK}
      BY <1>1, <2>3 DEF Types, MainTypes
    <3>4. O!ReturnError
      BY <2>1, <2>3, <3>2, <3>3 DEF O!ReturnError
    <3> QED
      BY <3>4 DEF O!Next
  <2> QED
    BY <2>2, <2>3
<1>7. CASE Destruct \/ FreeThread \/ JoinThread \/ FreeDone
  <2>1. mpc \in {"idle", "free", "join"} /\ mpc' \in {"idle", "free", "join", "destroyed"}
    BY <1>7 DEF Destruct, FreeThread, JoinThread, FreeDone
  <2>2. UNCHANGED <<numBlocksMax, chunks, readProcessed, written, mtRes, mres>>
    BY <1>7 DEF Destruct, FreeThread, JoinThread, FreeDone, call, read, output
  <2> QED
    BY <2>1, <2>2, Stutters DEF Running
<1>8. ASSUME NEW t \in Threads, ThreadStep(t)
      PROVE  [O!Next]_O!vars
  <2>1. UNCHANGED <<mpc, mres, numBlocksMax, chunks>> /\ Running' = Running
    BY <1>8, ThreadsKeepMain DEF main, call, Running
  <2>2. CASE ~Running
    <3>1. UNCHANGED <<readProcessed, written, mtRes>>
      BY <1>1, <1>8, <2>2, OutsideCall DEF Running
    <3> QED
      BY <2>1, <3>1, Stutters
  <2>3. CASE Running /\ ReadBlock(t)
    BY <2>3, Reading
  <2>4. CASE Running /\ Write(t)
    BY <2>4, Writing
  <2>5. CASE Running /\ ~ReadBlock(t) /\ ~Write(t)
    <3>1. /\ UNCHANGED <<readProcessed, written>>
          /\ mtRes' = mtRes \/ (mtRes = OK /\ mtRes' # OK)
      BY <1>8, <2>5 DEF ThreadStep, WaitStart, CountFinished, CompareFinished, WaitRead, PassStop, ReadFails,
                        GetBlock, StartNext, PassRead, GetBuf, Code, CodeFails, Publish, Advance, ReleaseBlock,
                        TakeReady, SetError, OK, read, output
    <3> QED
      BY <1>1, <2>1, <2>5, <3>1, Failing
  <2> QED
    BY <2>2, <2>3, <2>4, <2>5
<1>9. CASE Destroyed
  BY <1>2, <1>9 DEF Destroyed
<1> QED
  BY <1>2, <1>3, <1>4, <1>5, <1>6, <1>7, <1>8, <1>9 DEF Next, MainStep

-------------------------------------------------------------------------------
(* The types that the invariant does not need.                              *)

Rest ==
  /\ expected \in 0 .. chunks /\ readEvent \in BOOLEAN /\ stopReading \in BOOLEAN
  /\ numStartedThreads \in 0 .. numStartedThreadsLimit
  /\ session = 0 => blocksSemaphore = 0
TInv == RInv /\ Rest

LEMMA RestMain ==
  ASSUME TInv, MainStep
  PROVE  Rest'
<1>1. Types /\ session \in Nat /\ numStartedThreadsLimit \in Nat
  BY PlanTypes, CoderAssumption DEF TInv, RInv, IInv, Types, MainTypes
<1>2. CASE MtCoder_Code
  <2>1. session < Len(plan) /\ session' = session + 1 /\ numStartedThreadsLimit' = plan[session'].numThreads
    BY <1>2 DEF MtCoder_Code
  <2>2. plan \in Plans /\ session' \in 1 .. Len(plan)
    BY <1>1, <2>1, PlanTypes DEF Types, MainTypes
  <2>3. numStartedThreadsLimit' \in 1 .. MaxThreads /\ MaxThreads \in Nat
    BY <2>1, <2>2, PlanTypes, CoderAssumption
  <2>4. 0 \in 0 .. numStartedThreadsLimit'
    <3>1. \A k \in 1 .. MaxThreads : 0 \in 0 .. k
      BY <2>3
    <3> QED
      BY <2>3, <3>1
  <2>5. session' # 0
    BY <1>1, <2>1
  <2> QED
    BY <1>2, <2>4, <2>5 DEF Rest, MtCoder_Code, ReadReset
<1>3. CASE StartFirst
  <2>1. 1 \in 0 .. numStartedThreadsLimit
    BY <1>1, <1>3 DEF Types, MainTypes, StartFirst
  <2> QED
    BY <1>3, <2>1 DEF TInv, Rest, StartFirst, call, read
<1>4. CASE Destruct
  <2>1. session' # 0 /\ UNCHANGED <<expected, chunks, readEvent, stopReading, numStartedThreads, numStartedThreadsLimit>>
    BY <1>1, <1>4 DEF Destruct, read, start
  <2> QED
    BY <2>1 DEF TInv, Rest
<1>5. CASE Go \/ WaitFinished \/ FreeThread \/ JoinThread \/ FreeDone
  BY <1>5 DEF TInv, Rest, Go, WaitFinished, FreeThread, JoinThread, FreeDone, Wake, call, read, start
<1> QED
  BY <1>2, <1>3, <1>4, <1>5 DEF MainStep

LEMMA RestThread ==
  ASSUME TInv, NEW t \in Threads, ThreadStep(t)
  PROVE  Rest'
<1>1. Types /\ Calm /\ loc[t].finished \in BOOLEAN
  BY DEF TInv, RInv, IInv, Types, ThreadTypes, Locals
<1>2. UNCHANGED <<expected, chunks, numStartedThreadsLimit, session>>
  BY ThreadsKeepMain DEF main, call
<1>3. readEvent' \in BOOLEAN
  BY DEF TInv, Rest, ThreadStep, WaitStart, CountFinished, CompareFinished, WaitRead, PassStop, ReadBlock, ReadFails,
         GetBlock, StartNext, PassRead, GetBuf, Code, CodeFails, Publish, Write, Advance, ReleaseBlock, TakeReady,
         read, TakeRead, GiveRead
<1>4. stopReading' \in BOOLEAN
  BY <1>1 DEF TInv, Rest, ThreadStep, WaitStart, CountFinished, CompareFinished, WaitRead, PassStop, ReadBlock,
              ReadFails, GetBlock, StartNext, PassRead, GetBuf, Code, CodeFails, Publish, Write, Advance,
              ReleaseBlock, TakeReady, read
<1>5. numStartedThreads' \in 0 .. numStartedThreadsLimit
  <2>1. CASE StartNext(t)
    <3>1. numStartedThreads' = numStartedThreads
            \/ (numStartedThreads < numStartedThreadsLimit /\ numStartedThreads' = numStartedThreads + 1)
      BY <2>1 DEF StartNext, start, CountStarted
    <3>2. numStartedThreads \in Nat /\ numStartedThreadsLimit \in Nat
      BY <1>1, CoderAssumption DEF Types, ThreadTypes, MainTypes
    <3>3. CASE numStartedThreads' = numStartedThreads
      BY <3>3 DEF TInv, Rest
    <3>4. CASE numStartedThreads < numStartedThreadsLimit /\ numStartedThreads' = numStartedThreads + 1
      BY <3>2, <3>4
    <3> QED
      BY <3>1, <3>3, <3>4
  <2>2. CASE ~StartNext(t)
    BY <2>2 DEF TInv, Rest, ThreadStep, WaitStart, CountFinished, CompareFinished, WaitRead, PassStop, ReadBlock,
                ReadFails, GetBlock, PassRead, GetBuf, Code, CodeFails, Publish, Write, Advance, ReleaseBlock,
                TakeReady, start
  <2> QED
    BY <2>1, <2>2
<1>6. session = 0 => blocksSemaphore' = blocksSemaphore
  <2> SUFFICES ASSUME session = 0
               PROVE  blocksSemaphore' = blocksSemaphore
    OBVIOUS
  <2>1. pc[t] \notin Inside
    BY <1>1 DEF Calm
  <2>2. WaitStart(t) \/ CompareFinished(t)
    BY <2>1 DEF Inside, Labels, ThreadStep, CountFinished, WaitRead, PassStop, ReadBlock, ReadFails,
                GetBlock, StartNext, PassRead, GetBuf, Code, CodeFails, Publish, Write, Advance, ReleaseBlock, TakeReady
  <2> QED
    BY <2>2 DEF WaitStart, CompareFinished
<1> QED
  BY <1>2, <1>3, <1>4, <1>5, <1>6 DEF TInv, Rest

LEMMA TypesImplied ==
  ASSUME TInv
  PROVE  TypeOK
<1>1. Types /\ OutputTypes /\ Rest
  BY DEF TInv, RInv, IInv
<1>2. blocksSemaphore \in 0 .. numBlocksMax
  <2>1. CASE session = 0
    BY <1>1, <2>1, RingTypesFacts DEF Rest, N
  <2>2. CASE session # 0
    <3>1. session > 0
      BY <1>1, <2>2, PlanTypes DEF Types, MainTypes
    <3>2. PICK w \in Nat, n \in Nat, done \in Nat : Ring(w, n, done)
      BY <3>1 DEF TInv, RInv
    <3> QED
      BY <1>1, <3>2, RingTypesFacts, ReleasingFinite DEF Ring, Slots, N
  <2> QED
    BY <2>1, <2>2
<1> QED
  BY <1>1, <1>2 DEF TypeOK, Types, MainTypes, RingTypes, ThreadTypes, OutputTypes, Rest, Block, Locals

-------------------------------------------------------------------------------
(* Results.                                                                 *)

\* OkMeansComplete: MtCoder_Code returns SZ_OK only when every chunk of its input was
\* written, whatever the threads did and whichever of them was the last.
THEOREM OkIsComplete ==
  ASSUME OneThreadUntilTheLast
  PROVE  Spec => []OkMeansComplete
<1>1. FInv => OkMeansComplete
  BY DEF FInv, Outcome
<1> QED
  BY <1>1, FinalInvariant, PTL

\* MtCoder implements OrderedCoder: it reads the chunks in order and at most one more than
\* the ring has slots ahead of the output, writes them in order and each once, succeeds
\* only with all of them written and fails only if an operation failed.
THEOREM Refinement ==
  ASSUME OneThreadUntilTheLast
  PROVE  Spec => ImplementsOrderedCoder
<1>1. Init => O!Init
  BY DEF Init, O!Init
<1>2. FInv /\ FInv' /\ [Next]_vars => [O!Next]_O!vars
  BY RefinedStep
<1> QED
  BY <1>1, <1>2, FinalInvariant, PTL DEF Spec, O!Spec, ImplementsOrderedCoder

\* TypeOK: the variables stay in their types; blocksSemaphore is not released over its
\* maximum and no thread is started over the limit of the call.
THEOREM TypesHold ==
  ASSUME OneThreadUntilTheLast
  PROVE  Spec => []TypeOK
<1>1. Init => TInv
  <2> SUFFICES ASSUME Init
               PROVE  TInv
    OBVIOUS
  <2>1. RInv
    BY RInvInit
  <2>2. /\ expected = 0 /\ chunks = 0 /\ numStartedThreads = 0 /\ numStartedThreadsLimit = 0
        /\ readEvent = FALSE /\ stopReading = FALSE /\ blocksSemaphore = 0
    BY DEF Init
  <2>3. 0 \in 0 .. 0
    OBVIOUS
  <2>4. expected \in 0 .. chunks /\ numStartedThreads \in 0 .. numStartedThreadsLimit
    BY <2>2, <2>3, Zenon
  <2>5. readEvent \in BOOLEAN /\ stopReading \in BOOLEAN
    BY <2>2
  <2> QED
    BY <2>1, <2>2, <2>4, <2>5 DEF TInv, Rest
<1>2. TInv /\ [Next]_vars => TInv'
  <2> SUFFICES ASSUME TInv, [Next]_vars
               PROVE  TInv'
    OBVIOUS
  <2>1. RInv'
    BY RInvStep, RInvStutter DEF TInv
  <2>2. UNCHANGED vars => Rest'
    BY DEF TInv, Rest, vars, main, call, read, start
  <2>3. Rest'
    BY <2>2, RestMain, RestThread DEF Next, Destroyed
  <2> QED
    BY <2>1, <2>3 DEF TInv
<1> QED
  BY <1>1, <1>2, TypesImplied, PTL DEF Spec

===============================================================================
