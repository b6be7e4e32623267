-------------------------- MODULE MatchFinderMtProofs --------------------------
(***************************************************************************)
(* Proofs about MatchFinderMt, for rings of any size, streams of any        *)
(* length, any number of runs and every failure: its type invariant, its    *)
(* four safety properties, and that each of the two links is a BlockQueue.  *)
(*                                                                         *)
(* The two links are the same CMtSync, and IInv says the same of both: what *)
(* is true of a link that runs (RunningLink), of one that exists and does   *)
(* not (QuietLink), and of one that does not exist (AbsentLink).  It speaks *)
(* of the roles of the two threads on the link, PRole and CRole, and not of *)
(* their labels, because the BT thread is on both links: most of its steps  *)
(* leave its role on one of them as it is.  The lemmas X_Link show that a   *)
(* step keeps RunningLink on the link it is on, X_Types that it keeps the   *)
(* types, and X_Lz, X_Bt, X_Hash and X_Inv the rest of IInv.                *)
(***************************************************************************)
EXTENDS MatchFinderMt, TLAPS

-------------------------------------------------------------------------------
(* The invariant.                                                           *)

\* MtSync_GetNextBlock and MtSync_StopWriting of the BT thread.
GetLabels == {"signalStart", "releaseFree", "waitFilled", "lockBuffer", "gotBlock"}
StopLabels == {"stopCall", "setStop", "releaseStop", "waitStopped"}

\* What a thread does on the link it fills: it looks for a free slot, fills it, or has
\* taken the slot that was freed to stop it.
SearchLabels == {"loop", "waitFree", "enterBt", "enterHash", "move", "leaveBt"}
FillLabels(s) == {"fill"} \cup IF s = "btSync" THEN GetLabels \cup {"getMatches"} ELSE {}
EndLabels(s) == {"stopped"} \cup IF s = "btSync" THEN StopLabels ELSE {}
PRoleOf(s, p) ==
  IF p \in SearchLabels THEN "search"
  ELSE IF p \in FillLabels(s) THEN "fill"
  ELSE IF p \in EndLabels(s) THEN "end"
  ELSE p
PRole(s) == PRoleOf(s, pc[Producer(s)])

\* What a thread does on the link it takes blocks from: it has a block inside or outside
\* the critical section, or it is in a call.
InsideLabels(s) == {"gotBlock"} \cup IF s = "btSync" THEN {"encode", "stopCall"} ELSE {"getMatches"}
OutsideLabels(s) ==
  {"lockBuffer", "setStop"}
    \cup IF s = "btSync" THEN {} ELSE {"loop", "waitFree", "fill", "releaseFilled", "stopCall"}
CRoleOf(s, c) ==
  IF c \in InsideLabels(s) THEN "inside"
  ELSE IF c \in OutsideLabels(s) THEN "outside"
  ELSE c
CRole(s) == CRoleOf(s, pc[Consumer(s)])

\* Where the consumer of a link that does not run can be.
ConsumerRests(s) ==
  IF s = "btSync" THEN {"idle", "created", "encode", "finish", "stopCall", "destruct", "join",
                        "close", "destroyed"}
  ELSE {"none", "waitStart", "loop", "waitFree", "fill", "getMatches", "stopCall", "stopped", "done"}

\* The semaphores are as MtSync_Init made them.
Fresh(s) == freeSemaphore[s] = NumBlocks(s) /\ filledSemaphore[s] = 0

Stopping(s) == wasStopped[s] \/ PRole(s) = "end"
Unstarted(s) == PRole(s) = "waitStart" /\ ~wasStopped[s]

\* The events and flags of a running link.
Signals(s) ==
  /\ dtor = "no" /\ ~exit[s]
  /\ PRole(s) \in {"waitStart", "search", "fill", "releaseFilled", "end"}
  /\ CRole(s) \in {"signalStart", "waitFilled", "releaseFree", "inside", "outside",
                   "releaseStop", "waitStopped"}
  /\ csWasEntered[s] <=> CRole(s) = "inside"
  /\ stopWriting[s] <=> CRole(s) \in {"releaseStop", "waitStopped"}
  /\ Stopping(s) => stopWriting[s]
  /\ wasStopped[s] => PRole(s) = "waitStart"
  /\ canStart[s] => Unstarted(s) /\ CRole(s) = "waitFilled"
  /\ CRole(s) = "signalStart" => Unstarted(s)
  /\ Unstarted(s) =>
       Fresh(s) /\ numProcessedBlocks[s] = 1 /\ CRole(s) \in {"signalStart", "waitFilled"}

\* Each slot of a running link is free, filled, being filled, with the consumer or taken
\* to stop.
Slots(s) ==
  /\ freeSemaphore[s] + filledSemaphore[s] + Count(PRole(s) \in {"fill", "releaseFilled"})
       + Count(Stopping(s)) + Count(CRole(s) \notin {"signalStart", "waitFilled", "waitStopped"})
     = NumBlocks(s)
  /\ CRole(s) = "waitStopped" => freeSemaphore[s] > 0 \/ Stopping(s)

\* The blocks from the one that the consumer has, or waits for, to the last one made are in
\* their slots.
Numbers(s) ==
  /\ numProcessedBlocks[s] > 0
  /\ ~Unstarted(s) =>
       blockIndex[s] =
         numProcessedBlocks[s] - Count(CRole(s) \in {"signalStart", "waitFilled", "releaseFree"})
           + filledSemaphore[s] + Count(PRole(s) = "releaseFilled")
InPlace(s) ==
  ~Unstarted(s) =>
    \A k \in numProcessedBlocks[s] - 1 .. blockIndex[s] - 1 :
      buf[s][Slot(s, k)].run = run /\ buf[s][Slot(s, k)].index = k

RunningLink(s) ==
  /\ Signals(s) /\ Slots(s)
  /\ ~stopWriting[s] => Numbers(s) /\ InPlace(s)

\* A link that exists and does not run, and one that does not exist.
QuietLink(s) ==
  /\ pc[Producer(s)] \in {"waitStart", "done"} /\ pc[Consumer(s)] \in ConsumerRests(s)
  /\ pc[Producer(s)] = "done" \/ canStart[s] => dtor # "no"
  /\ ~wasStopped[s] /\ ~csWasEntered[s] /\ (canStart[s] => exit[s])
AbsentLink(s) ==
  /\ pc[Producer(s)] \in {"none", "done"} /\ pc[Consumer(s)] \in ConsumerRests(s)
  /\ dtor = "no" => pc[Producer(s)] = "none" /\ ~canStart[s] /\ ~wasStopped[s]
  /\ ~csWasEntered[s]

LinkInv(s) ==
  /\ Running(s) => RunningLink(s)
  /\ wasCreated[s] /\ needStart[s] => QuietLink(s)
  /\ ~wasCreated[s] => AbsentLink(s)
  /\ csWasInitialized[s] = wasCreated[s]

\* Who is inside the critical sections.
Owners ==
  /\ \A s \in Syncs : cs[s] = Consumer(s) <=> csWasEntered[s]
  /\ cs["btSync"] # "BT" /\ cs["hashSync"] # "LZ"
  /\ cs["btSync"] = "HASH" <=> pc["HASH"] \in {"enterHash", "move", "leaveBt"}
  /\ cs["hashSync"] = "HASH" <=> pc["HASH"] = "move"

\* The HASH thread runs only inside a run of the BT thread, and from fresh semaphores.
Nested ==
  /\ wasCreated["btSync"] => wasCreated["hashSync"]
  /\ Running("hashSync") => Running("btSync")
  /\ Running("btSync") /\ needStart["hashSync"] =>
       Fresh("hashSync") \/ pc["BT"] = "stopped" \/ wasStopped["btSync"]

\* The LZ thread outside the calls on a running link.
MainPlaces ==
  [no |-> ConsumerLabels \cup {"idle", "created", "encode", "finish"},
   release |-> {"stopCall", "destruct"},
   btSync |-> {"stopCall", "destruct", "join", "close"},
   hashSync |-> {"stopCall", "destruct", "join", "close", "destroyed"}]
Main ==
  /\ pc["LZ"] \in MainPlaces[dtor]
  /\ pc["LZ"] \in {"idle", "created", "finish"} => \A s \in Syncs : ~Running(s)
  /\ pc["LZ"] \in {"created", "encode"} => \A s \in Syncs : wasCreated[s]
  /\ pc["LZ"] = "created" => run < MaxRuns
  /\ pc["LZ"] = "encode" /\ needStart["btSync"] => \A s \in Syncs : Fresh(s)
  /\ pc["LZ"] = "close" => pc[Producer(dtor)] \in {"none", "done"}
  /\ dtor = "hashSync" => ~wasCreated["btSync"]
  /\ pc["LZ"] = "destroyed" => \A s \in Syncs : ~wasCreated[s]

IInv == TypeOK /\ LinkInv("btSync") /\ LinkInv("hashSync") /\ Owners /\ Nested /\ Main

-------------------------------------------------------------------------------
(* Arithmetic of the rings, and types.                                      *)

\* Two numbers less than n apart have different remainders.
LEMMA Remainders ==
  ASSUME NEW n \in Nat \ {0}, NEW a \in Nat, NEW b \in Nat, a < b, b < a + n
  PROVE  (a % n) # (b % n)
<1>1. a = n * (a \div n) + (a % n) /\ a \div n \in Int
  BY SMT
<1>2. b = n * (b \div n) + (b % n) /\ b \div n \in Int
  BY SMT
<1>3. a % n \in 0 .. n - 1 /\ b % n \in 0 .. n - 1
  BY SMT
<1> SUFFICES ASSUME (a % n) = (b % n)
             PROVE  FALSE
  OBVIOUS
<1> DEFINE d == (b \div n) - (a \div n)
<1>4. b - a = n * d /\ d \in Int
  BY <1>1, <1>2, <1>3
<1> HIDE DEF d
<1>5. CASE d >= 1
  <2>1. n * d >= n
    BY <1>4, <1>5
  <2> QED
    BY <1>4, <2>1
<1>6. CASE d <= 0
  <2>1. n * d <= 0
    BY <1>4, <1>6
  <2> QED
    BY <1>4, <2>1
<1> QED
  BY <1>4, <1>5, <1>6

LEMMA LinkFacts ==
  ASSUME NEW s \in Syncs
  PROVE  /\ NumBlocks(s) \in Nat \ {0}
         /\ Producer(s) \in Threads /\ Consumer(s) \in Threads /\ Producer(s) # Consumer(s)
BY MtAssumption DEF Syncs, NumBlocks, Producer, Consumer, Threads

\* Blocks less than a ring apart are in different slots.
LEMMA SlotsDiffer ==
  ASSUME NEW s \in Syncs, NEW i \in Nat, NEW j \in Nat, i < j, j < i + NumBlocks(s)
  PROVE  Slot(s, i) # Slot(s, j)
BY LinkFacts, Remainders DEF Slot

LEMMA SlotType ==
  ASSUME NEW s \in Syncs, NEW i \in Int
  PROVE  Slot(s, i) \in 0 .. NumBlocks(s) - 1
<1>1. \A n \in Nat \ {0} : i % n \in 0 .. n - 1
  BY SMT
<1> QED
  BY <1>1, LinkFacts DEF Slot

\* The types of the links and the threads, without the label sets.
LinkTypes ==
  /\ numProcessedBlocks \in [Syncs -> Nat] /\ blockIndex \in [Syncs -> Nat]
  /\ wasCreated \in [Syncs -> BOOLEAN] /\ csWasInitialized \in [Syncs -> BOOLEAN]
  /\ needStart \in [Syncs -> BOOLEAN] /\ exit \in [Syncs -> BOOLEAN]
  /\ stopWriting \in [Syncs -> BOOLEAN] /\ csWasEntered \in [Syncs -> BOOLEAN]
  /\ canStart \in [Syncs -> BOOLEAN] /\ wasStopped \in [Syncs -> BOOLEAN]
  /\ freeSemaphore \in [Syncs -> Nat] /\ filledSemaphore \in [Syncs -> Nat]
  /\ cs \in [Syncs -> Threads \cup {NoThread}]
DataTypes ==
  /\ DOMAIN buf = Syncs
  /\ \A s \in Syncs : buf[s] \in [0 .. NumBlocks(s) - 1 -> Blocks]
  /\ hashLeft \in BOOLEAN /\ failure_BT \in BOOLEAN /\ failure_LZ_BT \in BOOLEAN
ThreadTypes ==
  /\ DOMAIN pc = Threads /\ \A t \in Threads : pc[t] \in Labels[t]
  /\ dtor \in Syncs \cup {"no", "release"} /\ run \in 0 .. MaxRuns /\ length \in Nat

LEMMA Types == TypeOK <=> LinkTypes /\ DataTypes /\ ThreadTypes
BY DEF TypeOK, LinkTypes, DataTypes, ThreadTypes

\* A step that leaves the link s as it is, but may move its threads within their roles.
Aside(s) ==
  /\ numProcessedBlocks'[s] = numProcessedBlocks[s] /\ blockIndex'[s] = blockIndex[s]
  /\ wasCreated'[s] = wasCreated[s] /\ csWasInitialized'[s] = csWasInitialized[s]
  /\ needStart'[s] = needStart[s] /\ exit'[s] = exit[s] /\ stopWriting'[s] = stopWriting[s]
  /\ canStart'[s] = canStart[s] /\ wasStopped'[s] = wasStopped[s]
  /\ freeSemaphore'[s] = freeSemaphore[s] /\ filledSemaphore'[s] = filledSemaphore[s]
  /\ csWasEntered'[s] = csWasEntered[s] /\ buf'[s] = buf[s]

LEMMA RunningAside ==
  ASSUME NEW s \in Syncs, Aside(s), PRole(s)' = PRole(s), CRole(s)' = CRole(s),
         dtor' = dtor, run' = run, RunningLink(s)
  PROVE  RunningLink(s)'
<1>1. Signals(s)' /\ Slots(s)'
  BY DEF Aside, RunningLink, Signals, Slots, Stopping, Unstarted, Fresh
<1>2. ASSUME ~stopWriting'[s]
      PROVE  Numbers(s)' /\ InPlace(s)'
  BY <1>2 DEF Aside, RunningLink, Numbers, InPlace, Stopping, Unstarted, Fresh
<1> QED
  BY <1>1, <1>2 DEF RunningLink

LEMMA LinkAside ==
  ASSUME NEW s \in Syncs, Aside(s), LinkInv(s),
         Running(s) => PRole(s)' = PRole(s) /\ CRole(s)' = CRole(s) /\ dtor' = dtor /\ run' = run,
         ~Running(s) => /\ pc'[Producer(s)] = pc[Producer(s)] /\ pc'[Consumer(s)] \in ConsumerRests(s)
                        /\ dtor' = dtor \/ dtor' # "no"
  PROVE  LinkInv(s)'
<1>1. CASE Running(s)
  BY <1>1, RunningAside DEF LinkInv, Running, Aside
<1>2. CASE ~Running(s)
  BY <1>2 DEF LinkInv, Running, Aside, QuietLink, AbsentLink
<1> QED
  BY <1>1, <1>2

-------------------------------------------------------------------------------
(* A running link: the steps of its consumer.                               *)

LEMMA ConsumerRoles ==
  ASSUME NEW s \in Syncs
  PROVE  /\ \A c \in {"signalStart", "waitFilled", "releaseFree", "releaseStop", "waitStopped"} :
              \A d : CRoleOf(s, d) = c <=> d = c
         /\ CRoleOf(s, "gotBlock") = "inside"
         /\ CRoleOf(s, "lockBuffer") = "outside" /\ CRoleOf(s, "setStop") = "outside"
BY DEF CRoleOf, InsideLabels, OutsideLabels

LEMMA ProducerRoles ==
  ASSUME NEW s \in Syncs
  PROVE  /\ \A c \in {"waitStart", "releaseFilled", "none", "done"} :
              \A d : PRoleOf(s, d) = c <=> d = c
         /\ PRoleOf(s, "stopped") = "end" /\ PRoleOf(s, "fill") = "fill"
         /\ PRoleOf(s, "loop") = "search" /\ PRoleOf(s, "waitFree") = "search"
BY DEF PRoleOf, SearchLabels, FillLabels, EndLabels, GetLabels, StopLabels

\* What the lemmas about a step of a link start from.
ConsumerOf(s) ==
  /\ LinkTypes /\ DOMAIN pc = Threads
  /\ CallSync(Consumer(s)) = s

LEMMA GetFirstBlock_Link ==
  ASSUME NEW s \in Syncs, ConsumerOf(s), QuietLink(s), Fresh(s), dtor = "no",
         GetFirstBlock(Consumer(s)), dtor' = "no"
  PROVE  RunningLink(s)'
<1>1. /\ numProcessedBlocks'[s] = 1 /\ freeSemaphore' = freeSemaphore
      /\ filledSemaphore' = filledSemaphore /\ canStart' = canStart
      /\ ~exit'[s] /\ ~stopWriting'[s] /\ ~wasStopped'[s] /\ csWasEntered' = csWasEntered
      /\ pc'[Producer(s)] = pc[Producer(s)] /\ pc'[Consumer(s)] = "signalStart"
  BY LinkFacts DEF ConsumerOf, LinkTypes, GetFirstBlock, StartCount, StartFlags, Set, Goto,
       semaphores, lock
<1>2. PRole(s)' = "waitStart" /\ CRole(s)' = "signalStart"
  BY <1>1, ProducerRoles, ConsumerRoles DEF QuietLink, PRole, CRole
<1>3. ~canStart[s] /\ ~csWasEntered[s]
  BY DEF QuietLink
<1>4. Unstarted(s)' /\ Stopping(s)' = FALSE /\ Fresh(s)'
  BY <1>1, <1>2 DEF Unstarted, Stopping, Fresh
<1>5. Signals(s)'
  BY <1>1, <1>2, <1>3, <1>4 DEF Signals
<1>6. Slots(s)'
  BY <1>1, <1>2, <1>4, LinkFacts DEF Slots, Fresh, Count
<1> QED
  BY <1>1, <1>4, <1>5, <1>6 DEF RunningLink, Numbers, InPlace

\* The steps of a consumer on a running link.  In each: the new values, the new roles, and
\* the four parts of the invariant.
LEMMA SignalStart_Link ==
  ASSUME NEW s \in Syncs, ConsumerOf(s), RunningLink(s), SignalStart(Consumer(s))
  PROVE  RunningLink(s)'
<1>1. /\ numProcessedBlocks' = numProcessedBlocks /\ blockIndex' = blockIndex /\ buf' = buf
      /\ freeSemaphore' = freeSemaphore /\ filledSemaphore' = filledSemaphore
      /\ exit' = exit /\ stopWriting' = stopWriting /\ wasStopped' = wasStopped
      /\ csWasEntered' = csWasEntered /\ dtor' = dtor /\ run' = run
      /\ pc'[Producer(s)] = pc[Producer(s)]
      /\ pc[Consumer(s)] = "signalStart" /\ pc'[Consumer(s)] = "waitFilled"
  BY LinkFacts DEF ConsumerOf, LinkTypes, SignalStart, Set, Goto, semaphores, lock, data, syncFlags
<1>2. PRole(s)' = PRole(s) /\ CRole(s) = "signalStart" /\ CRole(s)' = "waitFilled"
  BY <1>1, ConsumerRoles DEF PRole, CRole
<1>3. Unstarted(s) /\ Unstarted(s)' /\ Stopping(s)' = Stopping(s) /\ ~stopWriting[s]
  BY <1>1, <1>2 DEF Unstarted, Stopping, RunningLink, Signals
<1>4. Signals(s)'
  BY <1>1, <1>2, <1>3 DEF RunningLink, Signals, Fresh
<1>5. Slots(s)'
  BY <1>1, <1>2, <1>3 DEF RunningLink, Slots, Count
<1> QED
  BY <1>1, <1>3, <1>4, <1>5 DEF RunningLink, Numbers, InPlace

LEMMA FreeBlock_Link ==
  ASSUME NEW s \in Syncs, ConsumerOf(s), RunningLink(s), FreeBlock(Consumer(s)),
         UNCHANGED <<blockIndex, dtor, run, length>>
  PROVE  RunningLink(s)'
<1>1. /\ numProcessedBlocks'[s] = numProcessedBlocks[s] + 1 /\ blockIndex' = blockIndex /\ buf' = buf
      /\ freeSemaphore' = freeSemaphore /\ filledSemaphore' = filledSemaphore
      /\ exit' = exit /\ stopWriting' = stopWriting /\ wasStopped' = wasStopped
      /\ canStart' = canStart /\ csWasEntered[s] /\ ~csWasEntered'[s] /\ dtor' = dtor /\ run' = run
      /\ pc'[Producer(s)] = pc[Producer(s)] /\ pc'[Consumer(s)] = "releaseFree"
  BY LinkFacts DEF ConsumerOf, LinkTypes, FreeBlock, Unlock, Set, Goto, semaphores, lock, data,
       syncFlags, events
<1>2. PRole(s)' = PRole(s) /\ CRole(s) = "inside" /\ CRole(s)' = "releaseFree"
  BY <1>1, ConsumerRoles DEF PRole, CRole, RunningLink, Signals
<1>3. ~Unstarted(s) /\ ~Unstarted(s)' /\ Stopping(s)' = Stopping(s) /\ ~stopWriting[s] /\ ~canStart[s]
  BY <1>1, <1>2 DEF Unstarted, Stopping, RunningLink, Signals
<1>4. Signals(s)'
  BY <1>1, <1>2, <1>3 DEF RunningLink, Signals
<1>5. Slots(s)'
  BY <1>1, <1>2, <1>3 DEF RunningLink, Slots, Count
<1>6. Numbers(s)'
  BY <1>1, <1>2, <1>3 DEF RunningLink, Numbers, Count, ConsumerOf, LinkTypes
<1>7. InPlace(s)'
  BY <1>1, <1>3 DEF RunningLink, Numbers, InPlace, ConsumerOf, LinkTypes
<1> QED
  BY <1>4, <1>5, <1>6, <1>7 DEF RunningLink

LEMMA ReleaseFree_Link ==
  ASSUME NEW s \in Syncs, ConsumerOf(s), RunningLink(s), ReleaseFree(Consumer(s))
  PROVE  RunningLink(s)' /\ freeSemaphore[s] < NumBlocks(s)
<1>1. /\ numProcessedBlocks' = numProcessedBlocks /\ blockIndex' = blockIndex /\ buf' = buf
      /\ freeSemaphore'[s] = IF freeSemaphore[s] < NumBlocks(s) THEN freeSemaphore[s] + 1 ELSE freeSemaphore[s]
      /\ filledSemaphore' = filledSemaphore
      /\ exit' = exit /\ stopWriting' = stopWriting /\ wasStopped' = wasStopped
      /\ canStart' = canStart /\ csWasEntered' = csWasEntered /\ dtor' = dtor /\ run' = run
      /\ pc'[Producer(s)] = pc[Producer(s)]
      /\ pc[Consumer(s)] = "releaseFree" /\ pc'[Consumer(s)] = "waitFilled"
  BY LinkFacts DEF ConsumerOf, LinkTypes, ReleaseFree, Release, Goto, lock, data, syncFlags, events
<1>2. PRole(s)' = PRole(s) /\ CRole(s) = "releaseFree" /\ CRole(s)' = "waitFilled"
  BY <1>1, ConsumerRoles DEF PRole, CRole
<1>3. ~Unstarted(s) /\ ~Unstarted(s)' /\ Stopping(s)' = Stopping(s) /\ ~stopWriting[s] /\ ~canStart[s]
  BY <1>1, <1>2 DEF Unstarted, Stopping, RunningLink, Signals
<1>4. /\ freeSemaphore[s] \in Nat /\ filledSemaphore[s] \in Nat /\ NumBlocks(s) \in Nat
      /\ Count(PRole(s) \in {"fill", "releaseFilled"}) \in Nat /\ Count(Stopping(s)) \in Nat
  BY LinkFacts DEF ConsumerOf, LinkTypes, Count
<1>5. freeSemaphore[s] < NumBlocks(s)
  BY <1>2, <1>4 DEF RunningLink, Slots, Count
<1>6. Signals(s)'
  BY <1>1, <1>2, <1>3 DEF RunningLink, Signals
<1>7. Slots(s)'
  BY <1>1, <1>2, <1>3, <1>4, <1>5 DEF RunningLink, Slots, Count
<1>8. Numbers(s)' /\ InPlace(s)'
  BY <1>1, <1>2, <1>3 DEF RunningLink, Numbers, InPlace, Count
<1> QED
  BY <1>5, <1>6, <1>7, <1>8 DEF RunningLink

LEMMA WaitFilled_Link ==
  ASSUME NEW s \in Syncs, ConsumerOf(s), RunningLink(s), WaitFilled(Consumer(s))
  PROVE  RunningLink(s)'
<1>1. /\ numProcessedBlocks' = numProcessedBlocks /\ blockIndex' = blockIndex /\ buf' = buf
      /\ freeSemaphore' = freeSemaphore
      /\ filledSemaphore[s] > 0 /\ filledSemaphore'[s] = filledSemaphore[s] - 1
      /\ exit' = exit /\ stopWriting' = stopWriting /\ wasStopped' = wasStopped
      /\ canStart' = canStart /\ csWasEntered' = csWasEntered /\ dtor' = dtor /\ run' = run
      /\ pc'[Producer(s)] = pc[Producer(s)]
      /\ pc[Consumer(s)] = "waitFilled" /\ pc'[Consumer(s)] = "lockBuffer"
  BY LinkFacts DEF ConsumerOf, LinkTypes, WaitFilled, Acquire, Goto, lock, data, syncFlags, events
<1>2. PRole(s)' = PRole(s) /\ CRole(s) = "waitFilled" /\ CRole(s)' = "outside"
  BY <1>1, ConsumerRoles DEF PRole, CRole
<1>3. ~Unstarted(s) /\ ~Unstarted(s)' /\ Stopping(s)' = Stopping(s) /\ ~stopWriting[s] /\ ~canStart[s]
  BY <1>1, <1>2 DEF Unstarted, Stopping, RunningLink, Signals, Fresh
<1>4. filledSemaphore[s] \in Nat /\ freeSemaphore[s] \in Nat /\ numProcessedBlocks[s] \in Nat
      /\ blockIndex[s] \in Nat
  BY DEF ConsumerOf, LinkTypes
<1>5. Signals(s)'
  BY <1>1, <1>2, <1>3 DEF RunningLink, Signals
<1>6. Slots(s)'
  BY <1>1, <1>2, <1>3, <1>4 DEF RunningLink, Slots, Count
<1>7. Numbers(s)' /\ InPlace(s)'
  BY <1>1, <1>2, <1>3, <1>4 DEF RunningLink, Numbers, InPlace, Count
<1> QED
  BY <1>5, <1>6, <1>7 DEF RunningLink

\* The consumer enters or leaves its critical section, on its block: LockBuffer, BtFillBlock,
\* and the Unlock of BtFillBlock and of StopWriting.
LEMMA Lock_Link ==
  ASSUME NEW s \in Syncs, ConsumerOf(s), RunningLink(s),
         {CRole(s), CRole(s)'} \subseteq {"inside", "outside"}, csWasEntered'[s] <=> CRole(s)' = "inside",
         PRole(s)' = PRole(s), buf'[s] = buf[s], blockIndex'[s] = blockIndex[s],
         UNCHANGED <<numProcessedBlocks, syncFlags, events, semaphores, dtor, run>>
  PROVE  RunningLink(s)'
<1>1. /\ numProcessedBlocks' = numProcessedBlocks
      /\ freeSemaphore' = freeSemaphore /\ filledSemaphore' = filledSemaphore
      /\ exit' = exit /\ stopWriting' = stopWriting /\ wasStopped' = wasStopped
      /\ canStart' = canStart /\ dtor' = dtor /\ run' = run
  BY DEF semaphores, syncFlags, events
<1>2. ~Unstarted(s) /\ ~Unstarted(s)' /\ Stopping(s)' = Stopping(s) /\ ~stopWriting[s] /\ ~canStart[s]
  BY <1>1 DEF Unstarted, Stopping, RunningLink, Signals
<1>3. Signals(s)'
  BY <1>1, <1>2 DEF RunningLink, Signals
<1>4. Slots(s)'
  BY <1>1, <1>2 DEF RunningLink, Slots, Count
<1>5. Numbers(s)' /\ InPlace(s)'
  BY <1>1, <1>2 DEF RunningLink, Numbers, InPlace, Count
<1> QED
  BY <1>3, <1>4, <1>5 DEF RunningLink

LEMMA SetStop_Link ==
  ASSUME NEW s \in Syncs, ConsumerOf(s), RunningLink(s), SetStop(Consumer(s))
  PROVE  RunningLink(s)'
<1>1. /\ freeSemaphore' = freeSemaphore /\ filledSemaphore' = filledSemaphore
      /\ exit' = exit /\ stopWriting'[s] /\ wasStopped' = wasStopped
      /\ canStart' = canStart /\ csWasEntered' = csWasEntered /\ dtor' = dtor
      /\ pc'[Producer(s)] = pc[Producer(s)]
      /\ pc[Consumer(s)] = "setStop" /\ pc'[Consumer(s)] = "releaseStop"
  BY LinkFacts DEF ConsumerOf, LinkTypes, SetStop, Set, Goto, lock, semaphores, events
<1>2. PRole(s)' = PRole(s) /\ CRole(s) = "outside" /\ CRole(s)' = "releaseStop"
  BY <1>1, ConsumerRoles DEF PRole, CRole
<1>3. ~Unstarted(s) /\ ~Unstarted(s)' /\ Stopping(s)' = Stopping(s) /\ ~stopWriting[s] /\ ~canStart[s]
  BY <1>1, <1>2 DEF Unstarted, Stopping, RunningLink, Signals
<1>4. Signals(s)'
  BY <1>1, <1>2, <1>3 DEF RunningLink, Signals
<1>5. Slots(s)'
  BY <1>1, <1>2, <1>3 DEF RunningLink, Slots, Count
<1> QED
  BY <1>1, <1>4, <1>5 DEF RunningLink

LEMMA ReleaseStop_Link ==
  ASSUME NEW s \in Syncs, ConsumerOf(s), RunningLink(s), ReleaseStop(Consumer(s))
  PROVE  RunningLink(s)' /\ freeSemaphore[s] < NumBlocks(s)
<1>1. /\ freeSemaphore'[s] = IF freeSemaphore[s] < NumBlocks(s) THEN freeSemaphore[s] + 1 ELSE freeSemaphore[s]
      /\ filledSemaphore' = filledSemaphore
      /\ exit' = exit /\ stopWriting' = stopWriting /\ wasStopped' = wasStopped
      /\ canStart' = canStart /\ csWasEntered' = csWasEntered /\ dtor' = dtor
      /\ pc'[Producer(s)] = pc[Producer(s)]
      /\ pc[Consumer(s)] = "releaseStop" /\ pc'[Consumer(s)] = "waitStopped"
  BY LinkFacts DEF ConsumerOf, LinkTypes, ReleaseStop, Release, Goto, lock, syncFlags, events
<1>2. PRole(s)' = PRole(s) /\ CRole(s) = "releaseStop" /\ CRole(s)' = "waitStopped"
  BY <1>1, ConsumerRoles DEF PRole, CRole
<1>3. ~Unstarted(s) /\ ~Unstarted(s)' /\ Stopping(s)' = Stopping(s) /\ stopWriting[s] /\ ~canStart[s]
  BY <1>1, <1>2 DEF Unstarted, Stopping, RunningLink, Signals
<1>4. /\ freeSemaphore[s] \in Nat /\ filledSemaphore[s] \in Nat /\ NumBlocks(s) \in Nat
      /\ Count(PRole(s) \in {"fill", "releaseFilled"}) \in Nat /\ Count(Stopping(s)) \in Nat
  BY LinkFacts DEF ConsumerOf, LinkTypes, Count
<1>5. freeSemaphore[s] < NumBlocks(s)
  BY <1>2, <1>4 DEF RunningLink, Slots, Count
<1>6. Signals(s)'
  BY <1>1, <1>2, <1>3 DEF RunningLink, Signals
<1>7. Slots(s)'
  BY <1>1, <1>2, <1>3, <1>4, <1>5 DEF RunningLink, Slots, Count
<1> QED
  BY <1>1, <1>3, <1>5, <1>6, <1>7 DEF RunningLink

LEMMA WaitStopped_Link ==
  ASSUME NEW s \in Syncs, ConsumerOf(s), RunningLink(s), WaitStopped(Consumer(s)),
         AfterStop(Consumer(s)) \in ConsumerRests(s)
  PROVE  QuietLink(s)' /\ needStart'[s] /\ pc[Producer(s)] = "waitStart" /\ dtor = "no" /\ wasStopped[s]
<1>1. /\ exit' = exit /\ wasStopped[s] /\ ~wasStopped'[s] /\ needStart'[s]
      /\ canStart' = canStart /\ csWasEntered' = csWasEntered /\ dtor' = dtor
      /\ pc'[Producer(s)] = pc[Producer(s)]
      /\ pc[Consumer(s)] = "waitStopped" /\ pc'[Consumer(s)] = AfterStop(Consumer(s))
  BY LinkFacts DEF ConsumerOf, LinkTypes, WaitStopped, TakeStopped, Set, Goto, lock
<1>2. PRole(s) = "waitStart" /\ CRole(s) = "waitStopped"
  BY <1>1, ConsumerRoles DEF CRole, RunningLink, Signals
<1>3. pc[Producer(s)] = "waitStart" /\ ~canStart[s] /\ ~csWasEntered[s]
  BY <1>1, <1>2, ProducerRoles DEF PRole, RunningLink, Signals, Unstarted
<1> QED
  BY <1>1, <1>3 DEF QuietLink, RunningLink, Signals

-------------------------------------------------------------------------------
(* A running link: the steps of its producer.                               *)

ProducerOf(s) == LinkTypes /\ DOMAIN pc = Threads

LEMMA WaitStart_Link ==
  ASSUME NEW s \in Syncs, ProducerOf(s), RunningLink(s), WaitStart(s)
  PROVE  RunningLink(s)'
<1>1. /\ numProcessedBlocks' = numProcessedBlocks /\ blockIndex'[s] = 0 /\ buf' = buf
      /\ freeSemaphore' = freeSemaphore /\ filledSemaphore' = filledSemaphore
      /\ exit' = exit /\ stopWriting' = stopWriting /\ wasStopped' = wasStopped
      /\ canStart[s] /\ ~canStart'[s] /\ csWasEntered' = csWasEntered /\ dtor' = dtor /\ run' = run
      /\ pc'[Consumer(s)] = pc[Consumer(s)]
      /\ pc[Producer(s)] = "waitStart" /\ pc'[Producer(s)] = IF exit[s] THEN "done" ELSE "loop"
  BY LinkFacts DEF ProducerOf, LinkTypes, WaitStart, Set, Goto, lock, data, syncFlags, semaphores
<1>2. /\ CRole(s)' = CRole(s) /\ CRole(s) = "waitFilled"
      /\ PRole(s) = "waitStart" /\ PRole(s)' = "search"
  BY <1>1, ProducerRoles DEF PRole, CRole, RunningLink, Signals
<1>3. Unstarted(s) /\ ~Unstarted(s)' /\ Stopping(s)' = Stopping(s) /\ ~stopWriting[s] /\ Fresh(s)
      /\ numProcessedBlocks[s] = 1 /\ ~wasStopped[s]
  BY <1>1, <1>2 DEF Unstarted, Stopping, RunningLink, Signals
<1>4. Signals(s)'
  BY <1>1, <1>2, <1>3 DEF RunningLink, Signals
<1>5. Slots(s)'
  BY <1>1, <1>2, <1>3 DEF RunningLink, Slots, Count
<1>6. Numbers(s)'
  BY <1>1, <1>2, <1>3 DEF Numbers, Count, Fresh
<1>7. InPlace(s)'
  BY <1>1, <1>3 DEF InPlace
<1> QED
  BY <1>4, <1>5, <1>6, <1>7 DEF RunningLink

LEMMA WaitFree_Link ==
  ASSUME NEW s \in Syncs, ProducerOf(s), RunningLink(s), WaitFree(s)
  PROVE  RunningLink(s)'
<1>1. /\ numProcessedBlocks' = numProcessedBlocks /\ blockIndex' = blockIndex /\ buf' = buf
      /\ freeSemaphore[s] > 0 /\ freeSemaphore'[s] = freeSemaphore[s] - 1
      /\ filledSemaphore' = filledSemaphore
      /\ exit' = exit /\ stopWriting' = stopWriting /\ wasStopped' = wasStopped
      /\ canStart' = canStart /\ csWasEntered' = csWasEntered /\ dtor' = dtor /\ run' = run
      /\ pc'[Consumer(s)] = pc[Consumer(s)]
      /\ pc[Producer(s)] = "waitFree" /\ pc'[Producer(s)] = AfterWait(s)
  BY LinkFacts DEF ProducerOf, LinkTypes, WaitFree, AcquireFree, Acquire, Goto, lock, data, syncFlags,
     events
<1>2. CRole(s)' = CRole(s) /\ PRole(s) = "search"
  BY <1>1, ProducerRoles DEF PRole, CRole
<1>3. PRole(s)' = IF stopWriting[s] THEN "end" ELSE "fill"
  BY <1>1, ProducerRoles DEF PRole, PRoleOf, AfterWait, RunningLink, Signals, SearchLabels, FillLabels,
     EndLabels, GetLabels, StopLabels, Syncs
<1>4. /\ ~Unstarted(s) /\ ~Unstarted(s)' /\ ~wasStopped[s] /\ ~Stopping(s) /\ ~canStart[s]
      /\ Stopping(s)' = stopWriting[s]
  BY <1>1, <1>2, <1>3 DEF Unstarted, Stopping, RunningLink, Signals, ProducerOf, LinkTypes
<1>5. freeSemaphore[s] \in Nat /\ filledSemaphore[s] \in Nat
  BY DEF ProducerOf, LinkTypes
<1>6. Signals(s)'
  BY <1>1, <1>2, <1>3, <1>4 DEF RunningLink, Signals
<1>7. Slots(s)'
  <2>1. CASE stopWriting[s]
    BY <1>1, <1>2, <1>3, <1>4, <1>5, <2>1 DEF RunningLink, Slots, Count
  <2>2. CASE ~stopWriting[s]
    <3>1. CRole(s) # "waitStopped"
      BY <2>2 DEF RunningLink, Signals
    <3> QED
      BY <1>1, <1>2, <1>3, <1>4, <1>5, <2>2, <3>1 DEF RunningLink, Slots, Count
  <2> QED
    BY <2>1, <2>2
<1>8. ~stopWriting[s] => Numbers(s)' /\ InPlace(s)'
  BY <1>1, <1>2, <1>3, <1>4 DEF RunningLink, Numbers, InPlace, Count
<1> QED
  BY <1>1, <1>6, <1>7, <1>8 DEF RunningLink

LEMMA PutBlock_Link ==
  ASSUME NEW s \in Syncs, ProducerOf(s), RunningLink(s), DataTypes, NEW failed \in BOOLEAN,
         PutBlock(s, failed), PRole(s) = "fill", CRole(s)' = CRole(s),
         csWasEntered'[s] = csWasEntered[s],
         UNCHANGED <<numProcessedBlocks, syncFlags, events, semaphores, dtor, run>>
  PROVE  RunningLink(s)'
<1>1. /\ numProcessedBlocks' = numProcessedBlocks /\ blockIndex'[s] = blockIndex[s] + 1
      /\ freeSemaphore' = freeSemaphore /\ filledSemaphore' = filledSemaphore
      /\ exit' = exit /\ stopWriting' = stopWriting /\ wasStopped' = wasStopped
      /\ canStart' = canStart /\ dtor' = dtor /\ run' = run
      /\ pc'[Producer(s)] = "releaseFilled"
      /\ buf'[s] = [buf[s] EXCEPT ![Slot(s, blockIndex[s])] = Block(blockIndex[s], failed)]
  BY LinkFacts DEF ProducerOf, DataTypes, LinkTypes, PutBlock, Goto, syncFlags, events, semaphores
<1>2. PRole(s)' = "releaseFilled"
  BY <1>1, ProducerRoles DEF PRole
<1>3. ~Unstarted(s) /\ ~Unstarted(s)' /\ Stopping(s)' = Stopping(s) /\ ~canStart[s]
  BY <1>1, <1>2 DEF Unstarted, Stopping, RunningLink, Signals
<1>4. /\ freeSemaphore[s] \in Nat /\ filledSemaphore[s] \in Nat /\ numProcessedBlocks[s] \in Nat
      /\ blockIndex[s] \in Nat /\ NumBlocks(s) \in Nat \ {0}
  BY LinkFacts DEF ProducerOf, LinkTypes
<1>5. Signals(s)'
  BY <1>1, <1>2, <1>3 DEF RunningLink, Signals
<1>6. Slots(s)'
  BY <1>1, <1>2, <1>3 DEF RunningLink, Slots, Count
<1>7. ASSUME ~stopWriting[s]
      PROVE  Numbers(s)' /\ InPlace(s)'
  <2>1. Numbers(s)'
    BY <1>1, <1>2, <1>3, <1>4, <1>7 DEF RunningLink, Numbers, Count
  <2> DEFINE a == numProcessedBlocks[s] - 1
             b == blockIndex[s]
  <2>2. a \in Nat /\ b \in Nat
    BY <1>4, <1>7 DEF RunningLink, Numbers
  <2>3. b < a + NumBlocks(s)
    <3>a. ~Stopping(s)
      BY <1>7 DEF RunningLink, Signals
    <3>b. Count(PRole(s) \in {"fill", "releaseFilled"}) = 1 /\ Count(Stopping(s)) = 0
      BY <3>a DEF Count
    <3>1. freeSemaphore[s] + filledSemaphore[s] + 1
            + Count(CRole(s) \notin {"signalStart", "waitFilled", "waitStopped"}) = NumBlocks(s)
      <4>1. Count(CRole(s) \notin {"signalStart", "waitFilled", "waitStopped"}) \in Nat
        BY DEF Count
      <4> QED
        BY <1>4, <3>b, <4>1 DEF RunningLink, Slots
    <3>2. b = numProcessedBlocks[s] + filledSemaphore[s]
                - Count(CRole(s) \in {"signalStart", "waitFilled", "releaseFree"})
      BY <1>3, <1>4, <1>7 DEF RunningLink, Numbers, Count
    <3>3. CRole(s) # "waitStopped" /\ CRole(s) # "releaseStop"
      BY <1>7 DEF RunningLink, Signals
    <3> QED
      BY <1>4, <2>2, <3>1, <3>2, <3>3 DEF Count
  <2>4. Slot(s, b) \in 0 .. NumBlocks(s) - 1
    BY <2>2, SlotType
  <2>5. buf'[s][Slot(s, b)] = Block(b, failed)
    BY <1>1, <2>4 DEF DataTypes
  <2>6. ASSUME NEW k \in a .. b - 1
        PROVE  buf'[s][Slot(s, k)] = buf[s][Slot(s, k)]
    <3>1. k \in Nat /\ k < b /\ b < k + NumBlocks(s)
      BY <1>4, <2>2, <2>3
    <3>2. Slot(s, k) # Slot(s, b) /\ Slot(s, k) \in 0 .. NumBlocks(s) - 1
      BY <3>1, <2>2, SlotsDiffer, SlotType
    <3> QED
      BY <1>1, <3>2 DEF DataTypes
  <2>7. \A k \in a .. b - 1 : buf[s][Slot(s, k)].run = run /\ buf[s][Slot(s, k)].index = k
    BY <1>3, <1>7 DEF RunningLink, InPlace
  <2>8. ASSUME NEW k \in a .. b
        PROVE  buf'[s][Slot(s, k)].run = run /\ buf'[s][Slot(s, k)].index = k
    <3>1. CASE k = b
      BY <2>5, <3>1 DEF Block
    <3>2. CASE k # b
      <4>1. k \in a .. b - 1
        BY <2>2, <3>2
      <4> QED
        BY <2>6, <2>7, <4>1
    <3> QED
      BY <3>1, <3>2
  <2>9. numProcessedBlocks'[s] - 1 = a /\ blockIndex'[s] - 1 = b /\ run' = run
    BY <1>1, <2>2
  <2> QED
    BY <2>1, <2>8, <2>9 DEF InPlace
<1> QED
  BY <1>1, <1>5, <1>6, <1>7 DEF RunningLink

LEMMA ReleaseFilled_Link ==
  ASSUME NEW s \in Syncs, ProducerOf(s), RunningLink(s), ReleaseFilled(s)
  PROVE  RunningLink(s)' /\ filledSemaphore[s] < NumBlocks(s)
<1>1. /\ numProcessedBlocks' = numProcessedBlocks /\ blockIndex' = blockIndex /\ buf' = buf
      /\ freeSemaphore' = freeSemaphore
      /\ filledSemaphore'[s] = IF filledSemaphore[s] < NumBlocks(s) THEN filledSemaphore[s] + 1 ELSE filledSemaphore[s]
      /\ exit' = exit /\ stopWriting' = stopWriting /\ wasStopped' = wasStopped
      /\ canStart' = canStart /\ csWasEntered' = csWasEntered /\ dtor' = dtor /\ run' = run
      /\ pc'[Consumer(s)] = pc[Consumer(s)]
      /\ pc[Producer(s)] = "releaseFilled" /\ pc'[Producer(s)] = "loop"
  BY LinkFacts DEF ProducerOf, LinkTypes, ReleaseFilled, Release, Goto, lock, data, syncFlags, events
<1>2. CRole(s)' = CRole(s) /\ PRole(s) = "releaseFilled" /\ PRole(s)' = "search"
  BY <1>1, ProducerRoles DEF PRole, CRole
<1>3. ~Unstarted(s) /\ ~Unstarted(s)' /\ Stopping(s)' = Stopping(s) /\ ~canStart[s]
  BY <1>1, <1>2 DEF Unstarted, Stopping, RunningLink, Signals
<1>4. /\ freeSemaphore[s] \in Nat /\ filledSemaphore[s] \in Nat /\ numProcessedBlocks[s] \in Nat
      /\ blockIndex[s] \in Nat /\ NumBlocks(s) \in Nat \ {0}
  BY LinkFacts DEF ProducerOf, LinkTypes
<1>5. filledSemaphore[s] < NumBlocks(s)
  BY <1>2, <1>4 DEF RunningLink, Slots, Count
<1>6. Signals(s)'
  BY <1>1, <1>2, <1>3 DEF RunningLink, Signals
<1>7. Slots(s)'
  BY <1>1, <1>2, <1>3, <1>4, <1>5 DEF RunningLink, Slots, Count
<1>8. ~stopWriting[s] => Numbers(s)' /\ InPlace(s)'
  BY <1>1, <1>2, <1>3, <1>4, <1>5 DEF RunningLink, Numbers, InPlace, Count
<1> QED
  BY <1>1, <1>5, <1>6, <1>7, <1>8 DEF RunningLink

LEMMA Stopped_Link ==
  ASSUME NEW s \in Syncs, ProducerOf(s), RunningLink(s), Stopped(s)
  PROVE  RunningLink(s)'
<1>1. /\ freeSemaphore' = freeSemaphore /\ filledSemaphore' = filledSemaphore
      /\ exit' = exit /\ stopWriting' = stopWriting /\ wasStopped'[s]
      /\ canStart' = canStart /\ csWasEntered' = csWasEntered /\ dtor' = dtor
      /\ pc'[Consumer(s)] = pc[Consumer(s)]
      /\ pc[Producer(s)] = "stopped" /\ pc'[Producer(s)] = "waitStart"
  BY LinkFacts DEF ProducerOf, LinkTypes, Stopped, Set, Goto, lock, data, syncFlags, semaphores
<1>2. CRole(s)' = CRole(s) /\ PRole(s) = "end" /\ PRole(s)' = "waitStart"
  BY <1>1, ProducerRoles DEF PRole, CRole
<1>3. /\ ~Unstarted(s) /\ ~Unstarted(s)' /\ Stopping(s) /\ Stopping(s)' /\ ~canStart[s] /\ stopWriting[s]
  BY <1>1, <1>2 DEF Unstarted, Stopping, RunningLink, Signals
<1>4. Signals(s)'
  BY <1>1, <1>2, <1>3 DEF RunningLink, Signals
<1>5. Slots(s)'
  BY <1>1, <1>2, <1>3 DEF RunningLink, Slots, Count
<1> QED
  BY <1>1, <1>3, <1>4, <1>5 DEF RunningLink

-------------------------------------------------------------------------------
(* Types.                                                                   *)

LEMMA GotoType ==
  ASSUME NEW t \in Threads, NEW label \in Labels[t], DOMAIN pc = Threads,
         \A u \in Threads : pc[u] \in Labels[u], Goto(t, label)
  PROVE  DOMAIN pc' = Threads /\ \A u \in Threads : pc'[u] \in Labels[u]
BY DEF Goto

LEMMA PutType ==
  ASSUME NEW s \in Syncs, DataTypes, LinkTypes, NEW failed \in BOOLEAN, run \in 0 .. MaxRuns, PutBlock(s, failed)
  PROVE  /\ DOMAIN buf' = Syncs
         /\ \A r \in Syncs : buf'[r] \in [0 .. NumBlocks(r) - 1 -> Blocks]
<1>1. Block(blockIndex[s], failed) \in Blocks
  BY DEF Block, Blocks, LinkTypes
<1> QED
  BY <1>1 DEF PutBlock, DataTypes

LEMMA CallSyncType == CallSync("LZ") \in Syncs /\ CallSync("BT") \in Syncs
BY DEF CallSync, Syncs

LEMMA AfterStopType == AfterStop("LZ") \in Labels["LZ"] /\ AfterStop("BT") \in Labels["BT"]
BY DEF AfterStop, Labels, ConsumerLabels, ProducerLabels

LEMMA PutTypes ==
  ASSUME NEW s \in Syncs, TypeOK, NEW failed \in BOOLEAN, PutBlock(s, failed)
  PROVE  /\ blockIndex' \in [Syncs -> Nat]
         /\ DOMAIN pc' = Threads /\ \A u \in Threads : pc'[u] \in Labels[u]
         /\ DOMAIN buf' = Syncs
         /\ \A r \in Syncs : buf'[r] \in [0 .. NumBlocks(r) - 1 -> Blocks]
<1>1. LinkTypes /\ DataTypes /\ ThreadTypes
  BY Types
<1>2. DOMAIN buf' = Syncs /\ \A r \in Syncs : buf'[r] \in [0 .. NumBlocks(r) - 1 -> Blocks]
  BY <1>1, PutType DEF ThreadTypes
<1>3. blockIndex' \in [Syncs -> Nat]
  BY <1>1 DEF PutBlock, LinkTypes
<1>4. Goto(Producer(s), "releaseFilled") /\ "releaseFilled" \in Labels[Producer(s)]
  BY LinkFacts DEF PutBlock, Producer, Labels, ProducerLabels
<1>5. DOMAIN pc' = Threads /\ \A u \in Threads : pc'[u] \in Labels[u]
  BY <1>1, <1>4, LinkFacts, GotoType DEF ThreadTypes
<1> QED
  BY <1>2, <1>3, <1>5

LEMMA GetNextBlock_Types ==
  ASSUME NEW t \in {"LZ", "BT"}, TypeOK, GetNextBlock(t)
  PROVE  TypeOK'
<1>1. LinkTypes /\ DataTypes /\ ThreadTypes
  BY Types
<1>2. CASE GetFirstBlock(t)
  <2>1. LinkTypes'
    BY <1>1, <1>2, CallSyncType DEF LinkTypes, GetNextBlock, GetFirstBlock, StartCount, StartFlags,
       Set, syncFlags, events, semaphores, lock, data
  <2>2. DataTypes'
    BY <1>1, <1>2 DEF DataTypes, GetFirstBlock, data
  <2>3. ThreadTypes'
    BY <1>1, <1>2 DEF ThreadTypes, GetNextBlock, GetFirstBlock, Goto, Labels, ConsumerLabels,
       ProducerLabels, Threads, Syncs
  <2> QED
    BY <2>1, <2>2, <2>3 DEF TypeOK, LinkTypes, DataTypes, ThreadTypes
<1>3. CASE FreeBlock(t)
  <2>1. LinkTypes'
    BY <1>1, <1>3, CallSyncType DEF LinkTypes, GetNextBlock, FreeBlock, Unlock, NoThread, Set,
       syncFlags, events, semaphores, lock, data
  <2>2. DataTypes'
    BY <1>1, <1>3 DEF DataTypes, FreeBlock, data
  <2>3. ThreadTypes'
    BY <1>1, <1>3 DEF ThreadTypes, GetNextBlock, FreeBlock, Goto, Labels, ConsumerLabels,
       ProducerLabels, Threads, Syncs
  <2> QED
    BY <2>1, <2>2, <2>3 DEF TypeOK, LinkTypes, DataTypes, ThreadTypes
<1> QED
  BY <1>2, <1>3 DEF GetNextBlock

LEMMA MatchFinderMt_Create_Types ==
  ASSUME TypeOK, Main, MatchFinderMt_Create
  PROVE  TypeOK'
<1>1. LinkTypes /\ DataTypes /\ ThreadTypes
  BY Types
<1>2. LinkTypes'
  BY <1>1, LinkFacts DEF LinkTypes, MatchFinderMt_Create, Set, Syncs, Threads, syncFlags, events,
     semaphores, lock, data
<1>3. DataTypes'
  BY <1>1 DEF DataTypes, MatchFinderMt_Create, syncFlags, events, semaphores, lock, data
<1>4. ThreadTypes'
  BY <1>1 DEF ThreadTypes, MatchFinderMt_Create, Labels, ConsumerLabels, ProducerLabels, Threads,
     Syncs, Goto
<1> QED
  BY <1>2, <1>3, <1>4 DEF TypeOK, LinkTypes, DataTypes, ThreadTypes

LEMMA MatchFinderMt_InitMt_Types ==
  ASSUME TypeOK, Main, MatchFinderMt_InitMt
  PROVE  TypeOK'
<1>1. LinkTypes /\ DataTypes /\ ThreadTypes
  BY Types
<1>2. LinkTypes'
  BY <1>1, LinkFacts DEF LinkTypes, MatchFinderMt_InitMt, SemaphoresInit, Main, Set, Syncs, Threads,
     syncFlags, events, semaphores, lock, data
<1>3. DataTypes'
  BY <1>1 DEF DataTypes, MatchFinderMt_InitMt, SemaphoresInit, Main, syncFlags, events, semaphores,
     lock, data
<1>4. ThreadTypes'
  BY <1>1, MtAssumption DEF ThreadTypes, MatchFinderMt_InitMt, SemaphoresInit, Main, Labels,
     ConsumerLabels, ProducerLabels, Threads, Syncs, Goto
<1> QED
  BY <1>2, <1>3, <1>4 DEF TypeOK, LinkTypes, DataTypes, ThreadTypes

LEMMA InitMtFails_Types ==
  ASSUME TypeOK, Main, InitMtFails
  PROVE  TypeOK'
<1>1. LinkTypes /\ DataTypes /\ ThreadTypes
  BY Types
<1>2. LinkTypes'
  BY <1>1, LinkFacts DEF LinkTypes, InitMtFails, SemaphoresInit, Set, Syncs, Threads, syncFlags,
     events, semaphores, lock, data
<1>3. DataTypes'
  BY <1>1 DEF DataTypes, InitMtFails, SemaphoresInit, syncFlags, events, semaphores, lock, data
<1>4. ThreadTypes'
  BY <1>1 DEF ThreadTypes, InitMtFails, SemaphoresInit, Labels, ConsumerLabels, ProducerLabels,
     Threads, Syncs, Goto
<1> QED
  BY <1>2, <1>3, <1>4 DEF TypeOK, LinkTypes, DataTypes, ThreadTypes

LEMMA GetNextBlock_Bt_Types ==
  ASSUME TypeOK, GetNextBlock_Bt
  PROVE  TypeOK'
BY GetNextBlock_Types DEF GetNextBlock_Bt

LEMMA ReadHeader_Types ==
  ASSUME TypeOK, Main, ReadHeader
  PROVE  TypeOK'
<1>1. LinkTypes /\ DataTypes /\ ThreadTypes
  BY Types
<1>a. buf["btSync"][CurSlot("btSync")].failed \in BOOLEAN
  <2>1. CurSlot("btSync") \in 0 .. NumBlocks("btSync") - 1
    BY <1>1, SlotType DEF CurSlot, LinkTypes, Syncs
  <2> QED
    BY <1>1, <2>1 DEF DataTypes, Blocks, Syncs
<1>2. LinkTypes'
  BY <1>1 DEF LinkTypes, ReadHeader, syncFlags, events, semaphores, lock, data
<1>3. DataTypes'
  BY <1>1, <1>a DEF DataTypes, ReadHeader
<1>4. ThreadTypes'
  BY <1>1 DEF ThreadTypes, ReadHeader, Labels, ConsumerLabels, ProducerLabels, Threads, Syncs, Goto
<1> QED
  BY <1>2, <1>3, <1>4 DEF TypeOK, LinkTypes, DataTypes, ThreadTypes

LEMMA ReleaseStream_Types ==
  ASSUME TypeOK, Main, ReleaseStream
  PROVE  TypeOK'
<1>1. LinkTypes /\ DataTypes /\ ThreadTypes
  BY Types
<1>2. LinkTypes'
  BY <1>1, LinkFacts DEF LinkTypes, ReleaseStream, Set, Syncs, Threads, syncFlags, events, semaphores,
     lock, data
<1>3. DataTypes'
  BY <1>1 DEF DataTypes, ReleaseStream, syncFlags, events, semaphores, lock, data
<1>4. ThreadTypes'
  BY <1>1 DEF ThreadTypes, ReleaseStream, Labels, ConsumerLabels, ProducerLabels, Threads, Syncs, Goto
<1> QED
  BY <1>2, <1>3, <1>4 DEF TypeOK, LinkTypes, DataTypes, ThreadTypes

LEMMA MatchFinderMt_Destruct_Types ==
  ASSUME TypeOK, Main, MatchFinderMt_Destruct
  PROVE  TypeOK'
<1>1. LinkTypes /\ DataTypes /\ ThreadTypes
  BY Types
<1>2. LinkTypes'
  BY <1>1, LinkFacts DEF LinkTypes, MatchFinderMt_Destruct, Set, Syncs, Threads, syncFlags, events,
     semaphores, lock, data
<1>3. DataTypes'
  BY <1>1 DEF DataTypes, MatchFinderMt_Destruct, syncFlags, events, semaphores, lock, data
<1>4. ThreadTypes'
  BY <1>1 DEF ThreadTypes, MatchFinderMt_Destruct, Labels, ConsumerLabels, ProducerLabels, Threads,
     Syncs, Goto
<1> QED
  BY <1>2, <1>3, <1>4 DEF TypeOK, LinkTypes, DataTypes, ThreadTypes

LEMMA Released_Types ==
  ASSUME TypeOK, Main, Released
  PROVE  TypeOK'
<1>1. LinkTypes /\ DataTypes /\ ThreadTypes
  BY Types
<1>2. LinkTypes'
  BY <1>1, LinkFacts DEF LinkTypes, Released, BeginDestruct, Set, Syncs, Threads, syncFlags, events,
     semaphores, lock, data
<1>3. DataTypes'
  BY <1>1 DEF DataTypes, Released, BeginDestruct, syncFlags, events, semaphores, lock, data
<1>4. ThreadTypes'
  BY <1>1 DEF ThreadTypes, Released, BeginDestruct, Labels, ConsumerLabels, ProducerLabels, Threads,
     Syncs, Goto
<1> QED
  BY <1>2, <1>3, <1>4 DEF TypeOK, LinkTypes, DataTypes, ThreadTypes

LEMMA SendExit_Types ==
  ASSUME TypeOK, Main, SendExit
  PROVE  TypeOK'
<1>1. LinkTypes /\ DataTypes /\ ThreadTypes
  BY Types
<1>2. LinkTypes'
  BY <1>1, LinkFacts DEF LinkTypes, SendExit, Set, Syncs, Threads, syncFlags, events, semaphores, lock,
     data
<1>3. DataTypes'
  BY <1>1 DEF DataTypes, SendExit, syncFlags, events, semaphores, lock, data
<1>4. ThreadTypes'
  BY <1>1 DEF ThreadTypes, SendExit, Labels, ConsumerLabels, ProducerLabels, Threads, Syncs, Goto
<1> QED
  BY <1>2, <1>3, <1>4 DEF TypeOK, LinkTypes, DataTypes, ThreadTypes

LEMMA Join_Types ==
  ASSUME TypeOK, Main, Join
  PROVE  TypeOK'
<1>1. LinkTypes /\ DataTypes /\ ThreadTypes
  BY Types
<1>2. LinkTypes'
  BY <1>1, LinkFacts DEF LinkTypes, Join, Set, Syncs, Threads, syncFlags, events, semaphores, lock, data
<1>3. DataTypes'
  BY <1>1 DEF DataTypes, Join, syncFlags, events, semaphores, lock, data
<1>4. ThreadTypes'
  BY <1>1 DEF ThreadTypes, Join, Labels, ConsumerLabels, ProducerLabels, Threads, Syncs, Goto
<1> QED
  BY <1>2, <1>3, <1>4 DEF TypeOK, LinkTypes, DataTypes, ThreadTypes

LEMMA Close_Types ==
  ASSUME TypeOK, Main, Close
  PROVE  TypeOK'
<1>1. LinkTypes /\ DataTypes /\ ThreadTypes
  BY Types
<1>2. LinkTypes'
  BY <1>1, LinkFacts DEF LinkTypes, Close, BeginDestruct, Set, Syncs, Threads, syncFlags, events,
     semaphores, lock, data
<1>3. DataTypes'
  BY <1>1 DEF DataTypes, Close, BeginDestruct, syncFlags, events, semaphores, lock, data
<1>4. ThreadTypes'
  BY <1>1 DEF ThreadTypes, Close, BeginDestruct, Labels, ConsumerLabels, ProducerLabels, Threads,
     Syncs, Goto
<1> QED
  BY <1>2, <1>3, <1>4 DEF TypeOK, LinkTypes, DataTypes, ThreadTypes

LEMMA SignalStart_Types ==
  ASSUME TypeOK, NEW t \in {"LZ", "BT"}, SignalStart(t)
  PROVE  TypeOK'
<1>1. LinkTypes /\ DataTypes /\ ThreadTypes
  BY Types
<1>2. LinkTypes'
  BY <1>1, LinkFacts, CallSyncType DEF LinkTypes, SignalStart, Set, Syncs, Threads, syncFlags, events,
     semaphores, lock, data
<1>3. DataTypes'
  BY <1>1 DEF DataTypes, SignalStart, syncFlags, events, semaphores, lock, data
<1>4. ThreadTypes'
  BY <1>1 DEF ThreadTypes, SignalStart, Labels, ConsumerLabels, ProducerLabels, Threads, Syncs, Goto
<1> QED
  BY <1>2, <1>3, <1>4 DEF TypeOK, LinkTypes, DataTypes, ThreadTypes

LEMMA ReleaseFree_Types ==
  ASSUME TypeOK, NEW t \in {"LZ", "BT"}, ReleaseFree(t)
  PROVE  TypeOK'
<1>1. LinkTypes /\ DataTypes /\ ThreadTypes
  BY Types
<1>2. LinkTypes'
  BY <1>1, LinkFacts, CallSyncType DEF LinkTypes, ReleaseFree, Release, Set, Syncs, Threads, syncFlags,
     events, semaphores, lock, data
<1>3. DataTypes'
  BY <1>1 DEF DataTypes, ReleaseFree, Release, syncFlags, events, semaphores, lock, data
<1>4. ThreadTypes'
  BY <1>1 DEF ThreadTypes, ReleaseFree, Release, Labels, ConsumerLabels, ProducerLabels, Threads,
     Syncs, Goto
<1> QED
  BY <1>2, <1>3, <1>4 DEF TypeOK, LinkTypes, DataTypes, ThreadTypes

LEMMA WaitFilled_Types ==
  ASSUME TypeOK, NEW t \in {"LZ", "BT"}, WaitFilled(t)
  PROVE  TypeOK'
<1>1. LinkTypes /\ DataTypes /\ ThreadTypes
  BY Types
<1>2. LinkTypes'
  BY <1>1, LinkFacts, CallSyncType DEF LinkTypes, WaitFilled, Acquire, Set, Syncs, Threads, syncFlags,
     events, semaphores, lock, data
<1>3. DataTypes'
  BY <1>1 DEF DataTypes, WaitFilled, Acquire, syncFlags, events, semaphores, lock, data
<1>4. ThreadTypes'
  BY <1>1 DEF ThreadTypes, WaitFilled, Acquire, Labels, ConsumerLabels, ProducerLabels, Threads, Syncs,
     Goto
<1> QED
  BY <1>2, <1>3, <1>4 DEF TypeOK, LinkTypes, DataTypes, ThreadTypes

LEMMA LockBuffer_Types ==
  ASSUME TypeOK, NEW t \in {"LZ", "BT"}, LockBuffer(t)
  PROVE  TypeOK'
<1>1. LinkTypes /\ DataTypes /\ ThreadTypes
  BY Types
<1>2. LinkTypes'
  BY <1>1, LinkFacts, CallSyncType DEF LinkTypes, LockBuffer, Lock, NoThread, Set, Syncs, Threads,
     syncFlags, events, semaphores, lock, data
<1>3. DataTypes'
  BY <1>1 DEF DataTypes, LockBuffer, Lock, NoThread, syncFlags, events, semaphores, lock, data
<1>4. ThreadTypes'
  BY <1>1 DEF ThreadTypes, LockBuffer, Lock, NoThread, Labels, ConsumerLabels, ProducerLabels, Threads,
     Syncs, Goto
<1> QED
  BY <1>2, <1>3, <1>4 DEF TypeOK, LinkTypes, DataTypes, ThreadTypes

LEMMA StopWriting_Types ==
  ASSUME TypeOK, NEW t \in {"LZ", "BT"}, StopWriting(t)
  PROVE  TypeOK'
<1>1. LinkTypes /\ DataTypes /\ ThreadTypes
  BY Types
<1>2. LinkTypes'
  BY <1>1, CallSyncType DEF LinkTypes, StopWriting, UnlockForStop, Unlock, NoThread, Set, syncFlags,
     events, semaphores, lock, data
<1>3. DataTypes'
  BY <1>1 DEF DataTypes, StopWriting, data
<1>4. \E label \in Labels[t] : Goto(t, label)
  BY AfterStopType DEF StopWriting, Labels, ConsumerLabels
<1>5. DOMAIN pc' = Threads /\ \A u \in Threads : pc'[u] \in Labels[u]
  BY <1>1, <1>4, GotoType DEF ThreadTypes, Threads
<1>6. ThreadTypes'
  BY <1>1, <1>5 DEF ThreadTypes, StopWriting
<1> QED
  BY <1>2, <1>3, <1>6 DEF TypeOK, LinkTypes, DataTypes, ThreadTypes

LEMMA SetStop_Types ==
  ASSUME TypeOK, NEW t \in {"LZ", "BT"}, SetStop(t)
  PROVE  TypeOK'
<1>1. LinkTypes /\ DataTypes /\ ThreadTypes
  BY Types
<1>2. LinkTypes'
  BY <1>1, LinkFacts, CallSyncType DEF LinkTypes, SetStop, Set, Syncs, Threads, syncFlags, events,
     semaphores, lock, data
<1>3. DataTypes'
  BY <1>1 DEF DataTypes, SetStop, syncFlags, events, semaphores, lock, data
<1>4. ThreadTypes'
  BY <1>1 DEF ThreadTypes, SetStop, Labels, ConsumerLabels, ProducerLabels, Threads, Syncs, Goto
<1> QED
  BY <1>2, <1>3, <1>4 DEF TypeOK, LinkTypes, DataTypes, ThreadTypes

LEMMA ReleaseStop_Types ==
  ASSUME TypeOK, NEW t \in {"LZ", "BT"}, ReleaseStop(t)
  PROVE  TypeOK'
<1>1. LinkTypes /\ DataTypes /\ ThreadTypes
  BY Types
<1>2. LinkTypes'
  BY <1>1, LinkFacts, CallSyncType DEF LinkTypes, ReleaseStop, Release, Set, Syncs, Threads, syncFlags,
     events, semaphores, lock, data
<1>3. DataTypes'
  BY <1>1 DEF DataTypes, ReleaseStop, Release, syncFlags, events, semaphores, lock, data
<1>4. ThreadTypes'
  BY <1>1 DEF ThreadTypes, ReleaseStop, Release, Labels, ConsumerLabels, ProducerLabels, Threads,
     Syncs, Goto
<1> QED
  BY <1>2, <1>3, <1>4 DEF TypeOK, LinkTypes, DataTypes, ThreadTypes

LEMMA WaitStopped_Types ==
  ASSUME TypeOK, NEW t \in {"LZ", "BT"}, WaitStopped(t)
  PROVE  TypeOK'
<1>1. LinkTypes /\ DataTypes /\ ThreadTypes
  BY Types
<1>2. LinkTypes'
  BY <1>1, LinkFacts, CallSyncType DEF LinkTypes, WaitStopped, TakeStopped, AfterStop, Set, Syncs,
     Threads, syncFlags, events, semaphores, lock, data
<1>3. DataTypes'
  BY <1>1 DEF DataTypes, WaitStopped, TakeStopped, AfterStop, syncFlags, events, semaphores, lock, data
<1>4. ThreadTypes'
  BY <1>1, AfterStopType DEF ThreadTypes, WaitStopped, TakeStopped, AfterStop, Labels, ConsumerLabels,
     ProducerLabels, Threads, Syncs, Goto
<1> QED
  BY <1>2, <1>3, <1>4 DEF TypeOK, LinkTypes, DataTypes, ThreadTypes

LEMMA WaitStart_Types ==
  ASSUME TypeOK, NEW s \in Syncs, WaitStart(s)
  PROVE  TypeOK'
<1>1. LinkTypes /\ DataTypes /\ ThreadTypes
  BY Types
<1>2. LinkTypes'
  BY <1>1, LinkFacts DEF LinkTypes, WaitStart, Set, Syncs, Threads, syncFlags, events, semaphores,
     lock, data
<1>3. DataTypes'
  BY <1>1 DEF DataTypes, WaitStart, syncFlags, events, semaphores, lock, data
<1>4. ThreadTypes'
  BY <1>1, LinkFacts DEF ThreadTypes, WaitStart, Labels, ConsumerLabels, ProducerLabels, Threads,
     Syncs, Goto
<1> QED
  BY <1>2, <1>3, <1>4 DEF TypeOK, LinkTypes, DataTypes, ThreadTypes

LEMMA WaitFree_Types ==
  ASSUME TypeOK, NEW s \in Syncs, WaitFree(s)
  PROVE  TypeOK'
<1>1. LinkTypes /\ DataTypes /\ ThreadTypes
  BY Types
<1>2. LinkTypes'
  BY <1>1 DEF LinkTypes, WaitFree, AcquireFree, Acquire, syncFlags, events, semaphores, lock, data
<1>3. DataTypes'
  BY <1>1 DEF DataTypes, WaitFree, data
<1>4. AfterWait(s) \in Labels[Producer(s)] /\ Goto(Producer(s), AfterWait(s))
  BY DEF WaitFree, AfterWait, Producer, Syncs, Labels, ConsumerLabels, ProducerLabels
<1>5. DOMAIN pc' = Threads /\ \A u \in Threads : pc'[u] \in Labels[u]
  BY <1>1, <1>4, LinkFacts, GotoType DEF ThreadTypes
<1>6. ThreadTypes'
  BY <1>1, <1>5 DEF ThreadTypes, WaitFree
<1> QED
  BY <1>2, <1>3, <1>6 DEF TypeOK, LinkTypes, DataTypes, ThreadTypes

LEMMA ReleaseFilled_Types ==
  ASSUME TypeOK, NEW s \in Syncs, ReleaseFilled(s)
  PROVE  TypeOK'
<1>1. LinkTypes /\ DataTypes /\ ThreadTypes
  BY Types
<1>2. LinkTypes'
  BY <1>1, LinkFacts DEF LinkTypes, ReleaseFilled, Release, Set, Syncs, Threads, syncFlags, events,
     semaphores, lock, data
<1>3. DataTypes'
  BY <1>1 DEF DataTypes, ReleaseFilled, Release, syncFlags, events, semaphores, lock, data
<1>4. ThreadTypes'
  BY <1>1, LinkFacts DEF ThreadTypes, ReleaseFilled, Release, Labels, ConsumerLabels, ProducerLabels,
     Threads, Syncs, Goto
<1> QED
  BY <1>2, <1>3, <1>4 DEF TypeOK, LinkTypes, DataTypes, ThreadTypes

LEMMA Stopped_Types ==
  ASSUME TypeOK, NEW s \in Syncs, Stopped(s)
  PROVE  TypeOK'
<1>1. LinkTypes /\ DataTypes /\ ThreadTypes
  BY Types
<1>2. LinkTypes'
  BY <1>1, LinkFacts DEF LinkTypes, Stopped, Set, Syncs, Threads, syncFlags, events, semaphores, lock,
     data
<1>3. DataTypes'
  BY <1>1 DEF DataTypes, Stopped, syncFlags, events, semaphores, lock, data
<1>4. ThreadTypes'
  BY <1>1, LinkFacts DEF ThreadTypes, Stopped, Labels, ConsumerLabels, ProducerLabels, Threads, Syncs,
     Goto
<1> QED
  BY <1>2, <1>3, <1>4 DEF TypeOK, LinkTypes, DataTypes, ThreadTypes

LEMMA BtLoop_Types ==
  ASSUME TypeOK, BtLoop
  PROVE  TypeOK'
<1>1. LinkTypes /\ DataTypes /\ ThreadTypes
  BY Types
<1>2. LinkTypes'
  BY <1>1 DEF LinkTypes, BtLoop, Set, Syncs, Threads, syncFlags, events, semaphores, lock, data
<1>3. DataTypes'
  BY <1>1 DEF DataTypes, BtLoop, syncFlags, events, semaphores, lock, data
<1>4. ThreadTypes'
  BY <1>1 DEF ThreadTypes, BtLoop, Labels, ConsumerLabels, ProducerLabels, Threads, Syncs, Goto
<1> QED
  BY <1>2, <1>3, <1>4 DEF TypeOK, LinkTypes, DataTypes, ThreadTypes

LEMMA BtFillBlock_Types ==
  ASSUME TypeOK, BtFillBlock
  PROVE  TypeOK'
<1>1. LinkTypes /\ DataTypes /\ ThreadTypes
  BY Types
<1>2. LinkTypes'
  <2>1. cs' \in [Syncs -> Threads \cup {NoThread}] /\ csWasEntered' \in [Syncs -> BOOLEAN]
    BY <1>1 DEF LinkTypes, BtFillBlock, LockCurrent, Lock, Set, Syncs, Threads, lock
  <2> QED
    BY <1>1, <2>1 DEF LinkTypes, BtFillBlock, syncFlags, events, semaphores
<1>3. DataTypes'
  BY <1>1 DEF DataTypes, BtFillBlock, LockCurrent, Lock, NoThread, syncFlags, events, semaphores, lock,
     data
<1>4. ThreadTypes'
  BY <1>1 DEF ThreadTypes, BtFillBlock, LockCurrent, Lock, NoThread, Labels, ConsumerLabels,
     ProducerLabels, Threads, Syncs, Goto
<1> QED
  BY <1>2, <1>3, <1>4 DEF TypeOK, LinkTypes, DataTypes, ThreadTypes

LEMMA BtFailed_Types ==
  ASSUME TypeOK, BtFailed
  PROVE  TypeOK'
<1>1. LinkTypes /\ DataTypes /\ ThreadTypes
  BY Types
<1>2. \E failed \in BOOLEAN : PutBlock("btSync", failed)
  BY DEF BtFailed, PutMatches
<1>3. /\ blockIndex' \in [Syncs -> Nat]
      /\ DOMAIN pc' = Threads /\ \A u \in Threads : pc'[u] \in Labels[u]
      /\ DOMAIN buf' = Syncs
      /\ \A r \in Syncs : buf'[r] \in [0 .. NumBlocks(r) - 1 -> Blocks]
  BY <1>2, PutTypes DEF Syncs
<1>4. LinkTypes'
  BY <1>1, <1>3 DEF LinkTypes, BtFailed, PutMatches, Unlock, Set, NoThread, syncFlags, events,
     semaphores, lock, data
<1>5. DataTypes'
  BY <1>1, <1>3 DEF DataTypes, BtFailed, PutMatches, Unlock, syncFlags, events, semaphores, lock, data
<1>6. ThreadTypes'
  BY <1>1, <1>3 DEF ThreadTypes, BtFailed, PutMatches, Unlock
<1> QED
  BY <1>4, <1>5, <1>6 DEF TypeOK, LinkTypes, DataTypes, ThreadTypes

LEMMA GetNextBlock_Hash_Types ==
  ASSUME TypeOK, GetNextBlock_Hash
  PROVE  TypeOK'
BY GetNextBlock_Types DEF GetNextBlock_Hash

LEMMA BtEndOfStream_Types ==
  ASSUME TypeOK, BtEndOfStream
  PROVE  TypeOK'
<1>1. LinkTypes /\ DataTypes /\ ThreadTypes
  BY Types
<1>2. \E failed \in BOOLEAN : PutBlock("btSync", failed)
  BY DEF BtEndOfStream, PutMatches
<1>3. /\ blockIndex' \in [Syncs -> Nat]
      /\ DOMAIN pc' = Threads /\ \A u \in Threads : pc'[u] \in Labels[u]
      /\ DOMAIN buf' = Syncs
      /\ \A r \in Syncs : buf'[r] \in [0 .. NumBlocks(r) - 1 -> Blocks]
  BY <1>2, PutTypes DEF Syncs
<1>4. LinkTypes'
  BY <1>1, <1>3 DEF LinkTypes, BtEndOfStream, PutMatches, Unlock, Set, NoThread, syncFlags, events,
     semaphores, lock, data
<1>5. DataTypes'
  BY <1>1, <1>3 DEF DataTypes, BtEndOfStream, PutMatches, Unlock, syncFlags, events, semaphores, lock,
     data
<1>6. ThreadTypes'
  BY <1>1, <1>3 DEF ThreadTypes, BtEndOfStream, PutMatches, Unlock
<1> QED
  BY <1>4, <1>5, <1>6 DEF TypeOK, LinkTypes, DataTypes, ThreadTypes

LEMMA BtNewHeads_Types ==
  ASSUME TypeOK, BtNewHeads
  PROVE  TypeOK'
<1>1. LinkTypes /\ DataTypes /\ ThreadTypes
  BY Types
<1>2. LinkTypes'
  BY <1>1 DEF LinkTypes, BtNewHeads, Set, Syncs, Threads, syncFlags, events, semaphores, lock, data
<1>3. DataTypes'
  BY <1>1 DEF DataTypes, BtNewHeads, syncFlags, events, semaphores, lock, data
<1>4. ThreadTypes'
  BY <1>1 DEF ThreadTypes, BtNewHeads, Labels, ConsumerLabels, ProducerLabels, Threads, Syncs, Goto
<1> QED
  BY <1>2, <1>3, <1>4 DEF TypeOK, LinkTypes, DataTypes, ThreadTypes

LEMMA BtMatchesFull_Types ==
  ASSUME TypeOK, BtMatchesFull
  PROVE  TypeOK'
<1>1. LinkTypes /\ DataTypes /\ ThreadTypes
  BY Types
<1>2. \E failed \in BOOLEAN : PutBlock("btSync", failed)
  BY DEF BtMatchesFull, PutMatches
<1>3. /\ blockIndex' \in [Syncs -> Nat]
      /\ DOMAIN pc' = Threads /\ \A u \in Threads : pc'[u] \in Labels[u]
      /\ DOMAIN buf' = Syncs
      /\ \A r \in Syncs : buf'[r] \in [0 .. NumBlocks(r) - 1 -> Blocks]
  BY <1>2, PutTypes DEF Syncs
<1>4. LinkTypes'
  BY <1>1, <1>3 DEF LinkTypes, BtMatchesFull, PutMatches, Unlock, Set, NoThread, syncFlags, events,
     semaphores, lock, data
<1>5. DataTypes'
  BY <1>1, <1>3 DEF DataTypes, BtMatchesFull, PutMatches, Unlock, syncFlags, events, semaphores, lock,
     data
<1>6. ThreadTypes'
  BY <1>1, <1>3 DEF ThreadTypes, BtMatchesFull, PutMatches, Unlock
<1> QED
  BY <1>4, <1>5, <1>6 DEF TypeOK, LinkTypes, DataTypes, ThreadTypes

LEMMA BtHeadsUsed_Types ==
  ASSUME TypeOK, BtHeadsUsed
  PROVE  TypeOK'
<1>1. LinkTypes /\ DataTypes /\ ThreadTypes
  BY Types
<1>2. LinkTypes'
  BY <1>1 DEF LinkTypes, BtHeadsUsed, Set, Syncs, Threads, syncFlags, events, semaphores, lock, data
<1>3. DataTypes'
  BY <1>1 DEF DataTypes, BtHeadsUsed, syncFlags, events, semaphores, lock, data
<1>4. ThreadTypes'
  BY <1>1 DEF ThreadTypes, BtHeadsUsed, Labels, ConsumerLabels, ProducerLabels, Threads, Syncs, Goto
<1> QED
  BY <1>2, <1>3, <1>4 DEF TypeOK, LinkTypes, DataTypes, ThreadTypes

LEMMA BtDataFailure_Types ==
  ASSUME TypeOK, BtDataFailure
  PROVE  TypeOK'
<1>1. LinkTypes /\ DataTypes /\ ThreadTypes
  BY Types
<1>2. \E failed \in BOOLEAN : PutBlock("btSync", failed)
  BY DEF BtDataFailure, PutMatches
<1>3. /\ blockIndex' \in [Syncs -> Nat]
      /\ DOMAIN pc' = Threads /\ \A u \in Threads : pc'[u] \in Labels[u]
      /\ DOMAIN buf' = Syncs
      /\ \A r \in Syncs : buf'[r] \in [0 .. NumBlocks(r) - 1 -> Blocks]
  BY <1>2, PutTypes DEF Syncs
<1>4. LinkTypes'
  BY <1>1, <1>3 DEF LinkTypes, BtDataFailure, PutMatches, Unlock, Set, NoThread, syncFlags, events,
     semaphores, lock, data
<1>5. DataTypes'
  BY <1>1, <1>3 DEF DataTypes, BtDataFailure, PutMatches, Unlock, syncFlags, events, semaphores, lock,
     data
<1>6. ThreadTypes'
  BY <1>1, <1>3 DEF ThreadTypes, BtDataFailure, PutMatches, Unlock
<1> QED
  BY <1>4, <1>5, <1>6 DEF TypeOK, LinkTypes, DataTypes, ThreadTypes

LEMMA HashLoop_Types ==
  ASSUME TypeOK, HashLoop
  PROVE  TypeOK'
<1>1. LinkTypes /\ DataTypes /\ ThreadTypes
  BY Types
<1>2. LinkTypes'
  BY <1>1 DEF LinkTypes, HashLoop, Set, Syncs, Threads, syncFlags, events, semaphores, lock, data
<1>3. DataTypes'
  BY <1>1 DEF DataTypes, HashLoop, syncFlags, events, semaphores, lock, data
<1>4. ThreadTypes'
  BY <1>1 DEF ThreadTypes, HashLoop, Labels, ConsumerLabels, ProducerLabels, Threads, Syncs, Goto
<1> QED
  BY <1>2, <1>3, <1>4 DEF TypeOK, LinkTypes, DataTypes, ThreadTypes

LEMMA HashEntersBt_Types ==
  ASSUME TypeOK, HashEntersBt
  PROVE  TypeOK'
<1>1. LinkTypes /\ DataTypes /\ ThreadTypes
  BY Types
<1>2. LinkTypes'
  BY <1>1 DEF LinkTypes, HashEntersBt, EnterBt, Enter, NoThread, Set, Syncs, Threads, syncFlags,
     events, semaphores, lock, data
<1>3. DataTypes'
  BY <1>1 DEF DataTypes, HashEntersBt, EnterBt, Enter, NoThread, syncFlags, events, semaphores, lock,
     data
<1>4. ThreadTypes'
  BY <1>1 DEF ThreadTypes, HashEntersBt, EnterBt, Enter, NoThread, Labels, ConsumerLabels,
     ProducerLabels, Threads, Syncs, Goto
<1> QED
  BY <1>2, <1>3, <1>4 DEF TypeOK, LinkTypes, DataTypes, ThreadTypes

LEMMA HashEntersHash_Types ==
  ASSUME TypeOK, HashEntersHash
  PROVE  TypeOK'
<1>1. LinkTypes /\ DataTypes /\ ThreadTypes
  BY Types
<1>2. LinkTypes'
  BY <1>1 DEF LinkTypes, HashEntersHash, Enter, NoThread, Set, Syncs, Threads, syncFlags, events,
     semaphores, lock, data
<1>3. DataTypes'
  BY <1>1 DEF DataTypes, HashEntersHash, Enter, NoThread, syncFlags, events, semaphores, lock, data
<1>4. ThreadTypes'
  BY <1>1 DEF ThreadTypes, HashEntersHash, Enter, NoThread, Labels, ConsumerLabels, ProducerLabels,
     Threads, Syncs, Goto
<1> QED
  BY <1>2, <1>3, <1>4 DEF TypeOK, LinkTypes, DataTypes, ThreadTypes

LEMMA MoveBlock_Types ==
  ASSUME TypeOK, MoveBlock
  PROVE  TypeOK'
<1>1. LinkTypes /\ DataTypes /\ ThreadTypes
  BY Types
<1>2. LinkTypes'
  BY <1>1 DEF LinkTypes, MoveBlock, Set, Syncs, Threads, syncFlags, events, semaphores, lock, data
<1>3. DataTypes'
  BY <1>1 DEF DataTypes, MoveBlock, syncFlags, events, semaphores, lock, data
<1>4. ThreadTypes'
  BY <1>1 DEF ThreadTypes, MoveBlock, Labels, ConsumerLabels, ProducerLabels, Threads, Syncs, Goto
<1> QED
  BY <1>2, <1>3, <1>4 DEF TypeOK, LinkTypes, DataTypes, ThreadTypes

LEMMA HashLeavesBt_Types ==
  ASSUME TypeOK, HashLeavesBt
  PROVE  TypeOK'
<1>1. LinkTypes /\ DataTypes /\ ThreadTypes
  BY Types
<1>2. LinkTypes'
  BY <1>1 DEF LinkTypes, HashLeavesBt, Set, Syncs, Threads, syncFlags, events, semaphores, lock, data
<1>3. DataTypes'
  BY <1>1 DEF DataTypes, HashLeavesBt, syncFlags, events, semaphores, lock, data
<1>4. ThreadTypes'
  BY <1>1 DEF ThreadTypes, HashLeavesBt, Labels, ConsumerLabels, ProducerLabels, Threads, Syncs, Goto
<1> QED
  BY <1>2, <1>3, <1>4 DEF TypeOK, LinkTypes, DataTypes, ThreadTypes

LEMMA HashFill_Types ==
  ASSUME TypeOK, HashFill
  PROVE  TypeOK'
<1>1. LinkTypes /\ DataTypes /\ ThreadTypes
  BY Types
<1>2. \E failed \in BOOLEAN : PutBlock("hashSync", failed)
  BY DEF HashFill
<1>3. /\ blockIndex' \in [Syncs -> Nat]
      /\ DOMAIN pc' = Threads /\ \A u \in Threads : pc'[u] \in Labels[u]
      /\ DOMAIN buf' = Syncs
      /\ \A r \in Syncs : buf'[r] \in [0 .. NumBlocks(r) - 1 -> Blocks]
  BY <1>2, PutTypes DEF Syncs
<1>4. LinkTypes'
  BY <1>1, <1>3 DEF LinkTypes, HashFill, Set, NoThread, syncFlags, events, semaphores, lock, data
<1>5. DataTypes'
  BY <1>1, <1>3 DEF DataTypes, HashFill, syncFlags, events, semaphores, lock, data
<1>6. ThreadTypes'
  BY <1>1, <1>3 DEF ThreadTypes, HashFill
<1> QED
  BY <1>4, <1>5, <1>6 DEF TypeOK, LinkTypes, DataTypes, ThreadTypes
-------------------------------------------------------------------------------
(* What each part of the invariant needs of a step.                         *)

Links == LinkInv("btSync") /\ LinkInv("hashSync")

\* A thread that works on a link works in a run of it.
LEMMA LzOnBt ==
  ASSUME LinkInv("btSync"),
         pc["LZ"] \notin {"idle", "created", "encode", "finish", "stopCall", "destruct", "join",
                          "close", "destroyed"}
  PROVE  Running("btSync") /\ RunningLink("btSync") /\ dtor = "no"
BY DEF LinkInv, Running, QuietLink, AbsentLink, ConsumerRests, Consumer, RunningLink, Signals

LEMMA BtActive ==
  ASSUME LinkInv("btSync"), pc["BT"] \notin {"none", "waitStart", "done"}
  PROVE  Running("btSync") /\ RunningLink("btSync") /\ dtor = "no"
BY DEF LinkInv, Running, QuietLink, AbsentLink, Producer, RunningLink, Signals

LEMMA BtOnHash ==
  ASSUME LinkInv("hashSync"),
         pc["BT"] \notin {"none", "waitStart", "loop", "waitFree", "fill", "getMatches", "stopCall",
                          "stopped", "done"}
  PROVE  Running("hashSync") /\ RunningLink("hashSync")
BY DEF LinkInv, Running, QuietLink, AbsentLink, ConsumerRests, Consumer, RunningLink, Signals

LEMMA HashActive ==
  ASSUME LinkInv("hashSync"), pc["HASH"] \notin {"none", "waitStart", "done"}
  PROVE  Running("hashSync") /\ RunningLink("hashSync")
BY DEF LinkInv, Running, QuietLink, AbsentLink, Producer

\* A link goes on running.
LEMMA LinkRuns ==
  ASSUME NEW s \in Syncs, LinkInv(s), Running(s), RunningLink(s)', wasCreated'[s] = wasCreated[s],
         needStart'[s] = needStart[s], csWasInitialized'[s] = csWasInitialized[s]
  PROVE  LinkInv(s)' /\ Running(s)'
BY DEF LinkInv, Running

\* Nothing happens on the link s but that its threads go on in their roles.
LEMMA LinkStays ==
  ASSUME NEW s \in Syncs, LinkInv(s), Running(s), Aside(s), PRole(s)' = PRole(s),
         CRole(s)' = CRole(s), dtor' = dtor, run' = run
  PROVE  LinkInv(s)' /\ Running(s)'
BY LinkAside DEF LinkInv, Running, Aside

\* Neither thread of the link s moves.
LEMMA LinkRests ==
  ASSUME NEW s \in Syncs, LinkInv(s), Aside(s), pc'[Producer(s)] = pc[Producer(s)],
         pc'[Consumer(s)] = pc[Consumer(s)], dtor' = dtor, run' = run
  PROVE  LinkInv(s)' /\ Running(s)' = Running(s)
<1>1. PRole(s)' = PRole(s) /\ CRole(s)' = CRole(s)
  BY DEF PRole, CRole
<1>2. ~Running(s) => pc[Consumer(s)] \in ConsumerRests(s)
  BY DEF LinkInv, Running, QuietLink, AbsentLink
<1> QED
  BY <1>1, <1>2, LinkAside DEF Running, Aside

\* In a run of the BT thread only the place of the LZ thread in it matters.
LEMMA MainRunning ==
  ASSUME Nested, dtor = "no", dtor' = dtor, Running("btSync"), Running("btSync")',
         wasCreated' = wasCreated, wasCreated \in [Syncs -> BOOLEAN],
         pc'["LZ"] \in ConsumerLabels \cup {"encode"}
  PROVE  Main'
<1>1. wasCreated["btSync"] /\ wasCreated["hashSync"] /\ ~needStart'["btSync"]
  BY DEF Running, Nested
<1> QED
  BY <1>1 DEF Main, MainPlaces, ConsumerLabels, Syncs

\* Where the LZ thread is in a run.
LEMMA LzInRun ==
  ASSUME TypeOK, RunningLink("btSync")
  PROVE  pc["LZ"] \in ConsumerLabels \cup {"encode"}
BY Types DEF ThreadTypes, Labels, Threads, RunningLink, Signals, CRole, CRoleOf, InsideLabels,
   OutsideLabels, Consumer, ConsumerLabels

LEMMA NestedAside ==
  ASSUME Nested, wasCreated' = wasCreated, needStart' = needStart,
         needStart["hashSync"] =>
           /\ freeSemaphore'["hashSync"] = freeSemaphore["hashSync"]
           /\ filledSemaphore'["hashSync"] = filledSemaphore["hashSync"],
         pc["BT"] = "stopped" \/ wasStopped["btSync"] =>
           pc'["BT"] = "stopped" \/ wasStopped'["btSync"]
  PROVE  Nested'
BY DEF Nested, Running, Fresh

LEMMA OwnersAside ==
  ASSUME Owners, UNCHANGED lock, pc'["HASH"] = pc["HASH"]
  PROVE  Owners'
BY DEF Owners, lock


-------------------------------------------------------------------------------
(* The BT thread takes blocks of the HASH thread.                           *)

LEMMA BtCalls == ASSUME TypeOK PROVE ConsumerOf("hashSync") /\ ProducerOf("hashSync") /\ ProducerOf("btSync")
BY Types DEF ConsumerOf, ProducerOf, ThreadTypes, CallSync, Consumer

LEMMA LzCalls == ASSUME TypeOK, dtor = "no" PROVE ConsumerOf("btSync")
BY Types DEF ConsumerOf, ThreadTypes, CallSync, Consumer

LEMMA SignalStart_Bt ==
  ASSUME IInv, SignalStart("BT")
  PROVE  Links' /\ Owners' /\ Nested' /\ Main'
<1>1. LinkTypes /\ DOMAIN pc = Threads /\ ConsumerOf("hashSync")
  BY BtCalls DEF IInv, ConsumerOf
<1>2. /\ Running("hashSync") /\ RunningLink("hashSync")
      /\ Running("btSync") /\ RunningLink("btSync") /\ dtor = "no"
  BY BtOnHash, BtActive DEF IInv, SignalStart
<1>3. RunningLink("hashSync")'
  BY <1>1, <1>2, SignalStart_Link DEF Syncs, Consumer
<1>4. /\ wasCreated' = wasCreated /\ csWasInitialized' = csWasInitialized /\ needStart' = needStart
      /\ UNCHANGED lock /\ dtor' = dtor /\ run' = run /\ pc'["LZ"] = pc["LZ"] /\ pc'["HASH"] = pc["HASH"]
      /\ pc["BT"] = "signalStart" /\ pc'["BT"] = "waitFilled" /\ wasStopped' = wasStopped
  BY <1>1 DEF SignalStart, Goto, Threads, syncFlags, events
<1>5. Aside("btSync")
  BY <1>1 DEF SignalStart, Aside, LinkTypes, CallSync, Syncs, Set, Goto, syncFlags, events, semaphores,
     lock, data
<1>6. PRole("btSync")' = PRole("btSync") /\ CRole("btSync")' = CRole("btSync")
  BY <1>4 DEF PRole, CRole, PRoleOf, Producer, Consumer, SearchLabels, FillLabels, EndLabels,
     GetLabels, StopLabels
<1>7. Links' /\ Running("btSync")'
  BY <1>2, <1>3, <1>4, <1>5, <1>6, LinkRuns, LinkStays DEF IInv, Links, Syncs
<1>8. Owners'
  BY <1>4, OwnersAside DEF IInv
<1>9. Nested'
  BY <1>2, <1>4, NestedAside DEF IInv, Running
<1>10. Main'
  BY <1>1, <1>2, <1>4, <1>7, LzInRun, MainRunning DEF IInv, LinkTypes
<1> QED
  BY <1>7, <1>8, <1>9, <1>10

LEMMA SignalStart_Lz ==
  ASSUME IInv, SignalStart("LZ")
  PROVE  Links' /\ Owners' /\ Nested' /\ Main'
<1>1. Running("btSync") /\ RunningLink("btSync") /\ dtor = "no"
  BY LzOnBt DEF IInv, SignalStart
<1>2. LinkTypes /\ DOMAIN pc = Threads /\ ConsumerOf("btSync") /\ CallSync("LZ") = "btSync"
  BY <1>1, LzCalls DEF IInv, ConsumerOf, Consumer
<1>3. RunningLink("btSync")'
  BY <1>1, <1>2, SignalStart_Link DEF Syncs, Consumer
<1>4. /\ wasCreated' = wasCreated /\ csWasInitialized' = csWasInitialized /\ needStart' = needStart
      /\ UNCHANGED lock /\ dtor' = dtor /\ run' = run /\ pc'["BT"] = pc["BT"] /\ pc'["HASH"] = pc["HASH"]
      /\ pc'["LZ"] = "waitFilled" /\ wasStopped' = wasStopped
  BY <1>2 DEF SignalStart, Goto, Threads, syncFlags, events
<1>5. Aside("hashSync")
  BY <1>2 DEF SignalStart, Aside, LinkTypes, Syncs, Set, Goto, syncFlags, events, semaphores, lock, data
<1>6. LinkInv("btSync")' /\ Running("btSync")'
  BY <1>1, <1>3, <1>4, LinkRuns DEF IInv, Syncs
<1>7. LinkInv("hashSync")'
  BY <1>4, <1>5, LinkRests DEF IInv, Syncs, Producer, Consumer
<1>8. Owners'
  BY <1>4, OwnersAside DEF IInv
<1>9. Nested'
  BY <1>4, <1>5, NestedAside DEF IInv, Aside
<1>10. Main'
  BY <1>1, <1>2, <1>4, <1>6, MainRunning DEF IInv, LinkTypes, ConsumerLabels
<1> QED
  BY <1>6, <1>7, <1>8, <1>9, <1>10 DEF Links

LEMMA ReleaseFree_Bt ==
  ASSUME IInv, ReleaseFree("BT")
  PROVE  Links' /\ Owners' /\ Nested' /\ Main'
<1>1. LinkTypes /\ DOMAIN pc = Threads /\ ConsumerOf("hashSync")
  BY BtCalls DEF IInv, ConsumerOf
<1>2. /\ Running("hashSync") /\ RunningLink("hashSync")
      /\ Running("btSync") /\ RunningLink("btSync") /\ dtor = "no"
  BY BtOnHash, BtActive DEF IInv, ReleaseFree
<1>3. RunningLink("hashSync")'
  BY <1>1, <1>2, ReleaseFree_Link DEF Syncs, Consumer
<1>4. /\ wasCreated' = wasCreated /\ csWasInitialized' = csWasInitialized /\ needStart' = needStart
      /\ UNCHANGED lock /\ dtor' = dtor /\ run' = run /\ pc'["LZ"] = pc["LZ"] /\ pc'["HASH"] = pc["HASH"]
      /\ pc["BT"] = "releaseFree" /\ pc'["BT"] = "waitFilled" /\ wasStopped' = wasStopped
  BY <1>1 DEF ReleaseFree, Goto, Threads, syncFlags, events
<1>5. Aside("btSync")
  BY <1>1 DEF ReleaseFree, Release, Aside, LinkTypes, CallSync, Syncs, Set, Goto, syncFlags, events,
     semaphores, lock, data
<1>6. PRole("btSync")' = PRole("btSync") /\ CRole("btSync")' = CRole("btSync")
  BY <1>4 DEF PRole, CRole, PRoleOf, Producer, Consumer, SearchLabels, FillLabels, EndLabels,
     GetLabels, StopLabels
<1>7. Links' /\ Running("btSync")'
  BY <1>2, <1>3, <1>4, <1>5, <1>6, LinkRuns, LinkStays DEF IInv, Links, Syncs
<1>8. Owners'
  BY <1>4, OwnersAside DEF IInv
<1>9. Nested'
  BY <1>2, <1>4, NestedAside DEF IInv, Running
<1>10. Main'
  BY <1>1, <1>2, <1>4, <1>7, LzInRun, MainRunning DEF IInv, LinkTypes
<1> QED
  BY <1>7, <1>8, <1>9, <1>10

LEMMA ReleaseFree_Lz ==
  ASSUME IInv, ReleaseFree("LZ")
  PROVE  Links' /\ Owners' /\ Nested' /\ Main'
<1>1. Running("btSync") /\ RunningLink("btSync") /\ dtor = "no"
  BY LzOnBt DEF IInv, ReleaseFree
<1>2. LinkTypes /\ DOMAIN pc = Threads /\ ConsumerOf("btSync") /\ CallSync("LZ") = "btSync"
  BY <1>1, LzCalls DEF IInv, ConsumerOf, Consumer
<1>3. RunningLink("btSync")'
  BY <1>1, <1>2, ReleaseFree_Link DEF Syncs, Consumer
<1>4. /\ wasCreated' = wasCreated /\ csWasInitialized' = csWasInitialized /\ needStart' = needStart
      /\ UNCHANGED lock /\ dtor' = dtor /\ run' = run /\ pc'["BT"] = pc["BT"] /\ pc'["HASH"] = pc["HASH"]
      /\ pc'["LZ"] = "waitFilled" /\ wasStopped' = wasStopped
  BY <1>2 DEF ReleaseFree, Goto, Threads, syncFlags, events
<1>5. Aside("hashSync")
  BY <1>2 DEF ReleaseFree, Release, Aside, LinkTypes, Syncs, Set, Goto, syncFlags, events, semaphores,
     lock, data
<1>6. LinkInv("btSync")' /\ Running("btSync")'
  BY <1>1, <1>3, <1>4, LinkRuns DEF IInv, Syncs
<1>7. LinkInv("hashSync")'
  BY <1>4, <1>5, LinkRests DEF IInv, Syncs, Producer, Consumer
<1>8. Owners'
  BY <1>4, OwnersAside DEF IInv
<1>9. Nested'
  BY <1>4, <1>5, NestedAside DEF IInv, Aside
<1>10. Main'
  BY <1>1, <1>2, <1>4, <1>6, MainRunning DEF IInv, LinkTypes, ConsumerLabels
<1> QED
  BY <1>6, <1>7, <1>8, <1>9, <1>10 DEF Links

LEMMA WaitFilled_Bt ==
  ASSUME IInv, WaitFilled("BT")
  PROVE  Links' /\ Owners' /\ Nested' /\ Main'
<1>1. LinkTypes /\ DOMAIN pc = Threads /\ ConsumerOf("hashSync")
  BY BtCalls DEF IInv, ConsumerOf
<1>2. /\ Running("hashSync") /\ RunningLink("hashSync")
      /\ Running("btSync") /\ RunningLink("btSync") /\ dtor = "no"
  BY BtOnHash, BtActive DEF IInv, WaitFilled
<1>3. RunningLink("hashSync")'
  BY <1>1, <1>2, WaitFilled_Link DEF Syncs, Consumer
<1>4. /\ wasCreated' = wasCreated /\ csWasInitialized' = csWasInitialized /\ needStart' = needStart
      /\ UNCHANGED lock /\ dtor' = dtor /\ run' = run /\ pc'["LZ"] = pc["LZ"] /\ pc'["HASH"] = pc["HASH"]
      /\ pc["BT"] = "waitFilled" /\ pc'["BT"] = "lockBuffer" /\ wasStopped' = wasStopped
  BY <1>1 DEF WaitFilled, Goto, Threads, syncFlags, events
<1>5. Aside("btSync")
  BY <1>1 DEF WaitFilled, Acquire, Aside, LinkTypes, CallSync, Syncs, Set, Goto, syncFlags, events,
     semaphores, lock, data
<1>6. PRole("btSync")' = PRole("btSync") /\ CRole("btSync")' = CRole("btSync")
  BY <1>4 DEF PRole, CRole, PRoleOf, Producer, Consumer, SearchLabels, FillLabels, EndLabels,
     GetLabels, StopLabels
<1>7. Links' /\ Running("btSync")'
  BY <1>2, <1>3, <1>4, <1>5, <1>6, LinkRuns, LinkStays DEF IInv, Links, Syncs
<1>8. Owners'
  BY <1>4, OwnersAside DEF IInv
<1>9. Nested'
  BY <1>2, <1>4, NestedAside DEF IInv, Running
<1>10. Main'
  BY <1>1, <1>2, <1>4, <1>7, LzInRun, MainRunning DEF IInv, LinkTypes
<1> QED
  BY <1>7, <1>8, <1>9, <1>10

LEMMA WaitFilled_Lz ==
  ASSUME IInv, WaitFilled("LZ")
  PROVE  Links' /\ Owners' /\ Nested' /\ Main'
<1>1. Running("btSync") /\ RunningLink("btSync") /\ dtor = "no"
  BY LzOnBt DEF IInv, WaitFilled
<1>2. LinkTypes /\ DOMAIN pc = Threads /\ ConsumerOf("btSync") /\ CallSync("LZ") = "btSync"
  BY <1>1, LzCalls DEF IInv, ConsumerOf, Consumer
<1>3. RunningLink("btSync")'
  BY <1>1, <1>2, WaitFilled_Link DEF Syncs, Consumer
<1>4. /\ wasCreated' = wasCreated /\ csWasInitialized' = csWasInitialized /\ needStart' = needStart
      /\ UNCHANGED lock /\ dtor' = dtor /\ run' = run /\ pc'["BT"] = pc["BT"] /\ pc'["HASH"] = pc["HASH"]
      /\ pc'["LZ"] = "lockBuffer" /\ wasStopped' = wasStopped
  BY <1>2 DEF WaitFilled, Goto, Threads, syncFlags, events
<1>5. Aside("hashSync")
  BY <1>2 DEF WaitFilled, Acquire, Aside, LinkTypes, Syncs, Set, Goto, syncFlags, events, semaphores,
     lock, data
<1>6. LinkInv("btSync")' /\ Running("btSync")'
  BY <1>1, <1>3, <1>4, LinkRuns DEF IInv, Syncs
<1>7. LinkInv("hashSync")'
  BY <1>4, <1>5, LinkRests DEF IInv, Syncs, Producer, Consumer
<1>8. Owners'
  BY <1>4, OwnersAside DEF IInv
<1>9. Nested'
  BY <1>4, <1>5, NestedAside DEF IInv, Aside
<1>10. Main'
  BY <1>1, <1>2, <1>4, <1>6, MainRunning DEF IInv, LinkTypes, ConsumerLabels
<1> QED
  BY <1>6, <1>7, <1>8, <1>9, <1>10 DEF Links

LEMMA SetStop_Bt ==
  ASSUME IInv, SetStop("BT")
  PROVE  Links' /\ Owners' /\ Nested' /\ Main'
<1>1. LinkTypes /\ DOMAIN pc = Threads /\ ConsumerOf("hashSync")
  BY BtCalls DEF IInv, ConsumerOf
<1>2. /\ Running("hashSync") /\ RunningLink("hashSync")
      /\ Running("btSync") /\ RunningLink("btSync") /\ dtor = "no"
  BY BtOnHash, BtActive DEF IInv, SetStop
<1>3. RunningLink("hashSync")'
  BY <1>1, <1>2, SetStop_Link DEF Syncs, Consumer
<1>4. /\ wasCreated' = wasCreated /\ csWasInitialized' = csWasInitialized /\ needStart' = needStart
      /\ UNCHANGED lock /\ dtor' = dtor /\ run' = run /\ pc'["LZ"] = pc["LZ"] /\ pc'["HASH"] = pc["HASH"]
      /\ pc["BT"] = "setStop" /\ pc'["BT"] = "releaseStop" /\ wasStopped' = wasStopped
  BY <1>1 DEF SetStop, Goto, Threads, syncFlags, events
<1>5. Aside("btSync")
  BY <1>1 DEF SetStop, Aside, LinkTypes, CallSync, Syncs, Set, Goto, syncFlags, events, semaphores,
     lock, data
<1>6. PRole("btSync")' = PRole("btSync") /\ CRole("btSync")' = CRole("btSync")
  BY <1>4 DEF PRole, CRole, PRoleOf, Producer, Consumer, SearchLabels, FillLabels, EndLabels,
     GetLabels, StopLabels
<1>7. Links' /\ Running("btSync")'
  BY <1>2, <1>3, <1>4, <1>5, <1>6, LinkRuns, LinkStays DEF IInv, Links, Syncs
<1>8. Owners'
  BY <1>4, OwnersAside DEF IInv
<1>9. Nested'
  BY <1>2, <1>4, NestedAside DEF IInv, Running
<1>10. Main'
  BY <1>1, <1>2, <1>4, <1>7, LzInRun, MainRunning DEF IInv, LinkTypes
<1> QED
  BY <1>7, <1>8, <1>9, <1>10

LEMMA SetStop_Lz ==
  ASSUME IInv, SetStop("LZ")
  PROVE  Links' /\ Owners' /\ Nested' /\ Main'
<1>1. Running("btSync") /\ RunningLink("btSync") /\ dtor = "no"
  BY LzOnBt DEF IInv, SetStop
<1>2. LinkTypes /\ DOMAIN pc = Threads /\ ConsumerOf("btSync") /\ CallSync("LZ") = "btSync"
  BY <1>1, LzCalls DEF IInv, ConsumerOf, Consumer
<1>3. RunningLink("btSync")'
  BY <1>1, <1>2, SetStop_Link DEF Syncs, Consumer
<1>4. /\ wasCreated' = wasCreated /\ csWasInitialized' = csWasInitialized /\ needStart' = needStart
      /\ UNCHANGED lock /\ dtor' = dtor /\ run' = run /\ pc'["BT"] = pc["BT"] /\ pc'["HASH"] = pc["HASH"]
      /\ pc'["LZ"] = "releaseStop" /\ wasStopped' = wasStopped
  BY <1>2 DEF SetStop, Goto, Threads, syncFlags, events
<1>5. Aside("hashSync")
  BY <1>2 DEF SetStop, Aside, LinkTypes, Syncs, Set, Goto, syncFlags, events, semaphores, lock, data
<1>6. LinkInv("btSync")' /\ Running("btSync")'
  BY <1>1, <1>3, <1>4, LinkRuns DEF IInv, Syncs
<1>7. LinkInv("hashSync")'
  BY <1>4, <1>5, LinkRests DEF IInv, Syncs, Producer, Consumer
<1>8. Owners'
  BY <1>4, OwnersAside DEF IInv
<1>9. Nested'
  BY <1>4, <1>5, NestedAside DEF IInv, Aside
<1>10. Main'
  BY <1>1, <1>2, <1>4, <1>6, MainRunning DEF IInv, LinkTypes, ConsumerLabels
<1> QED
  BY <1>6, <1>7, <1>8, <1>9, <1>10 DEF Links

LEMMA ReleaseStop_Bt ==
  ASSUME IInv, ReleaseStop("BT")
  PROVE  Links' /\ Owners' /\ Nested' /\ Main'
<1>1. LinkTypes /\ DOMAIN pc = Threads /\ ConsumerOf("hashSync")
  BY BtCalls DEF IInv, ConsumerOf
<1>2. /\ Running("hashSync") /\ RunningLink("hashSync")
      /\ Running("btSync") /\ RunningLink("btSync") /\ dtor = "no"
  BY BtOnHash, BtActive DEF IInv, ReleaseStop
<1>3. RunningLink("hashSync")'
  BY <1>1, <1>2, ReleaseStop_Link DEF Syncs, Consumer
<1>4. /\ wasCreated' = wasCreated /\ csWasInitialized' = csWasInitialized /\ needStart' = needStart
      /\ UNCHANGED lock /\ dtor' = dtor /\ run' = run /\ pc'["LZ"] = pc["LZ"] /\ pc'["HASH"] = pc["HASH"]
      /\ pc["BT"] = "releaseStop" /\ pc'["BT"] = "waitStopped" /\ wasStopped' = wasStopped
  BY <1>1 DEF ReleaseStop, Goto, Threads, syncFlags, events
<1>5. Aside("btSync")
  BY <1>1 DEF ReleaseStop, Release, Aside, LinkTypes, CallSync, Syncs, Set, Goto, syncFlags, events,
     semaphores, lock, data
<1>6. PRole("btSync")' = PRole("btSync") /\ CRole("btSync")' = CRole("btSync")
  BY <1>4 DEF PRole, CRole, PRoleOf, Producer, Consumer, SearchLabels, FillLabels, EndLabels,
     GetLabels, StopLabels
<1>7. Links' /\ Running("btSync")'
  BY <1>2, <1>3, <1>4, <1>5, <1>6, LinkRuns, LinkStays DEF IInv, Links, Syncs
<1>8. Owners'
  BY <1>4, OwnersAside DEF IInv
<1>9. Nested'
  BY <1>2, <1>4, NestedAside DEF IInv, Running
<1>10. Main'
  BY <1>1, <1>2, <1>4, <1>7, LzInRun, MainRunning DEF IInv, LinkTypes
<1> QED
  BY <1>7, <1>8, <1>9, <1>10

LEMMA ReleaseStop_Lz ==
  ASSUME IInv, ReleaseStop("LZ")
  PROVE  Links' /\ Owners' /\ Nested' /\ Main'
<1>1. Running("btSync") /\ RunningLink("btSync") /\ dtor = "no"
  BY LzOnBt DEF IInv, ReleaseStop
<1>2. LinkTypes /\ DOMAIN pc = Threads /\ ConsumerOf("btSync") /\ CallSync("LZ") = "btSync"
  BY <1>1, LzCalls DEF IInv, ConsumerOf, Consumer
<1>3. RunningLink("btSync")'
  BY <1>1, <1>2, ReleaseStop_Link DEF Syncs, Consumer
<1>4. /\ wasCreated' = wasCreated /\ csWasInitialized' = csWasInitialized /\ needStart' = needStart
      /\ UNCHANGED lock /\ dtor' = dtor /\ run' = run /\ pc'["BT"] = pc["BT"] /\ pc'["HASH"] = pc["HASH"]
      /\ pc'["LZ"] = "waitStopped" /\ wasStopped' = wasStopped
  BY <1>2 DEF ReleaseStop, Goto, Threads, syncFlags, events
<1>5. Aside("hashSync")
  BY <1>2 DEF ReleaseStop, Release, Aside, LinkTypes, Syncs, Set, Goto, syncFlags, events, semaphores,
     lock, data
<1>6. LinkInv("btSync")' /\ Running("btSync")'
  BY <1>1, <1>3, <1>4, LinkRuns DEF IInv, Syncs
<1>7. LinkInv("hashSync")'
  BY <1>4, <1>5, LinkRests DEF IInv, Syncs, Producer, Consumer
<1>8. Owners'
  BY <1>4, OwnersAside DEF IInv
<1>9. Nested'
  BY <1>4, <1>5, NestedAside DEF IInv, Aside
<1>10. Main'
  BY <1>1, <1>2, <1>4, <1>6, MainRunning DEF IInv, LinkTypes, ConsumerLabels
<1> QED
  BY <1>6, <1>7, <1>8, <1>9, <1>10 DEF Links
\* LOCK_BUFFER of a running link: the owner of the critical section.
LEMMA LockOwners ==
  ASSUME NEW s \in Syncs, Owners, cs \in [Syncs -> Threads \cup {NoThread}],
         csWasEntered \in [Syncs -> BOOLEAN], Lock(s, Consumer(s)), pc'["HASH"] = pc["HASH"]
  PROVE  Owners'
<1>1. CASE s = "btSync"
  BY <1>1 DEF Owners, Lock, Set, Syncs, Consumer, NoThread
<1>2. CASE s = "hashSync"
  BY <1>2 DEF Owners, Lock, Set, Syncs, Consumer, NoThread
<1> QED
  BY <1>1, <1>2 DEF Syncs

LEMMA UnlockOwners ==
  ASSUME NEW s \in Syncs, Owners, cs \in [Syncs -> Threads \cup {NoThread}],
         csWasEntered \in [Syncs -> BOOLEAN], Unlock(s), pc'["HASH"] = pc["HASH"]
  PROVE  Owners'
<1>1. CASE s = "btSync"
  BY <1>1 DEF Owners, Unlock, Set, Syncs, Consumer, NoThread
<1>2. CASE s = "hashSync"
  BY <1>2 DEF Owners, Unlock, Set, Syncs, Consumer, NoThread
<1> QED
  BY <1>1, <1>2 DEF Syncs

LEMMA LockBuffer_Bt ==
  ASSUME IInv, LockBuffer("BT")
  PROVE  Links' /\ Owners' /\ Nested' /\ Main'
<1>1. LinkTypes /\ DOMAIN pc = Threads /\ ConsumerOf("hashSync")
  BY BtCalls DEF IInv, ConsumerOf
<1>2. /\ Running("hashSync") /\ RunningLink("hashSync")
      /\ Running("btSync") /\ RunningLink("btSync") /\ dtor = "no"
  BY BtOnHash, BtActive DEF IInv, LockBuffer
<1>3. /\ wasCreated' = wasCreated /\ csWasInitialized' = csWasInitialized /\ needStart' = needStart
      /\ dtor' = dtor /\ run' = run /\ pc'["LZ"] = pc["LZ"] /\ pc'["HASH"] = pc["HASH"]
      /\ pc["BT"] = "lockBuffer" /\ pc'["BT"] = "gotBlock" /\ wasStopped' = wasStopped
      /\ UNCHANGED <<numProcessedBlocks, syncFlags, events, semaphores, blockIndex, dtor, run>>
      /\ buf' = buf /\ Lock("hashSync", "BT")
  BY <1>1 DEF LockBuffer, Goto, Threads, syncFlags, events, data, CallSync
<1>4. Aside("btSync") /\ csWasEntered'["hashSync"]
  BY <1>1, <1>3 DEF Aside, LinkTypes, Syncs, Set, Lock, syncFlags, events, semaphores
<1>5. /\ PRole("btSync")' = PRole("btSync") /\ CRole("btSync")' = CRole("btSync")
      /\ PRole("hashSync")' = PRole("hashSync")
      /\ CRole("hashSync") = "outside" /\ CRole("hashSync")' = "inside"
  BY <1>3, ConsumerRoles DEF PRole, CRole, PRoleOf, Producer, Consumer, SearchLabels, FillLabels,
     EndLabels, GetLabels, StopLabels, Syncs
<1>6. RunningLink("hashSync")'
  BY <1>1, <1>2, <1>3, <1>4, <1>5, Lock_Link DEF Syncs
<1>7. Links' /\ Running("btSync")'
  BY <1>2, <1>3, <1>4, <1>5, <1>6, LinkRuns, LinkStays DEF IInv, Links, Syncs
<1>8. Owners'
  BY <1>1, <1>3, LockOwners DEF IInv, LinkTypes, Consumer, Syncs
<1>9. Nested'
  BY <1>2, <1>3, NestedAside DEF IInv, Running
<1>10. Main'
  BY <1>1, <1>2, <1>3, <1>7, LzInRun, MainRunning DEF IInv, LinkTypes
<1> QED
  BY <1>7, <1>8, <1>9, <1>10

LEMMA LockBuffer_Lz ==
  ASSUME IInv, LockBuffer("LZ")
  PROVE  Links' /\ Owners' /\ Nested' /\ Main'
<1>1. Running("btSync") /\ RunningLink("btSync") /\ dtor = "no"
  BY LzOnBt DEF IInv, LockBuffer
<1>2. LinkTypes /\ DOMAIN pc = Threads /\ ConsumerOf("btSync") /\ CallSync("LZ") = "btSync"
  BY <1>1, LzCalls DEF IInv, ConsumerOf, Consumer
<1>3. /\ wasCreated' = wasCreated /\ csWasInitialized' = csWasInitialized /\ needStart' = needStart
      /\ dtor' = dtor /\ run' = run /\ pc'["BT"] = pc["BT"] /\ pc'["HASH"] = pc["HASH"]
      /\ pc["LZ"] = "lockBuffer" /\ pc'["LZ"] = "gotBlock" /\ wasStopped' = wasStopped
      /\ UNCHANGED <<numProcessedBlocks, syncFlags, events, semaphores, blockIndex, dtor, run>>
      /\ buf' = buf /\ Lock("btSync", "LZ")
  BY <1>2 DEF LockBuffer, Goto, Threads, syncFlags, events, data
<1>4. Aside("hashSync") /\ csWasEntered'["btSync"]
  BY <1>2, <1>3 DEF Aside, LinkTypes, Syncs, Set, Lock, syncFlags, events, semaphores
<1>5. PRole("btSync")' = PRole("btSync") /\ CRole("btSync") = "outside" /\ CRole("btSync")' = "inside"
  BY <1>3, ConsumerRoles DEF PRole, CRole, Producer, Consumer, Syncs
<1>6. RunningLink("btSync")'
  BY <1>1, <1>2, <1>3, <1>4, <1>5, Lock_Link DEF Syncs
<1>7. LinkInv("btSync")' /\ Running("btSync")'
  BY <1>1, <1>3, <1>6, LinkRuns DEF IInv, Syncs
<1>8. LinkInv("hashSync")'
  BY <1>3, <1>4, LinkRests DEF IInv, Syncs, Producer, Consumer
<1>9. Owners'
  BY <1>2, <1>3, LockOwners DEF IInv, LinkTypes, Consumer, Syncs
<1>10. Nested'
  BY <1>3, <1>4, NestedAside DEF IInv, Aside
<1>11. Main'
  BY <1>1, <1>2, <1>3, <1>7, MainRunning DEF IInv, LinkTypes, ConsumerLabels
<1> QED
  BY <1>7, <1>8, <1>9, <1>10, <1>11 DEF Links

\* Nothing to stop, or the consumer leaves its critical section before it stops.
LEMMA StopWriting_Bt ==
  ASSUME IInv, StopWriting("BT")
  PROVE  Links' /\ Owners' /\ Nested' /\ Main'
<1>1. LinkTypes /\ DOMAIN pc = Threads /\ ConsumerOf("hashSync")
  BY BtCalls DEF IInv, ConsumerOf
<1>2. Running("btSync") /\ RunningLink("btSync") /\ dtor = "no" /\ wasCreated["hashSync"]
  BY BtActive DEF IInv, StopWriting, Nested, Running
<1>3. /\ wasCreated' = wasCreated /\ csWasInitialized' = csWasInitialized /\ needStart' = needStart
      /\ dtor' = dtor /\ run' = run /\ pc'["LZ"] = pc["LZ"] /\ pc'["HASH"] = pc["HASH"]
      /\ pc["BT"] = "stopCall" /\ wasStopped' = wasStopped
      /\ UNCHANGED <<numProcessedBlocks, syncFlags, events, semaphores, blockIndex, dtor, run>>
      /\ buf' = buf
  BY <1>1 DEF StopWriting, Goto, Threads, syncFlags, events, data, AfterStop
<1>4. /\ UNCHANGED lock
      /\ \/ ~Running("hashSync") /\ pc'["BT"] = "stopped"
         \/ Running("hashSync") /\ pc'["BT"] = "setStop"
  <2>1. CASE NothingToStop("hashSync")
    BY <1>1, <1>2, <2>1 DEF StopWriting, CallSync, NothingToStop, Running, Goto, Threads, AfterStop
  <2>2. CASE ~NothingToStop("hashSync")
    <3>1. Running("hashSync") /\ pc'["BT"] = "setStop" /\ UnlockForStop("hashSync")
      BY <1>1, <2>2 DEF StopWriting, CallSync, NothingToStop, Running, Goto, Threads
    <3>2. ~csWasEntered["hashSync"]
      BY <1>3, <3>1 DEF IInv, LinkInv, RunningLink, Signals, CRole, CRoleOf, Consumer, InsideLabels,
         OutsideLabels
    <3> QED
      BY <3>1, <3>2 DEF UnlockForStop
  <2> QED
    BY <2>1, <2>2
<1>5. /\ PRole("btSync")' = PRole("btSync") /\ CRole("btSync")' = CRole("btSync")
      /\ PRole("hashSync")' = PRole("hashSync")
      /\ Running("hashSync") => CRole("hashSync")' = CRole("hashSync")
  BY <1>3, <1>4 DEF PRole, CRole, PRoleOf, CRoleOf, Producer, Consumer, SearchLabels, FillLabels,
     EndLabels, GetLabels, StopLabels, InsideLabels, OutsideLabels
<1>6. Aside("btSync") /\ Aside("hashSync")
  BY <1>3, <1>4 DEF Aside, syncFlags, events, semaphores, lock
<1>7. LinkInv("btSync")' /\ Running("btSync")'
  BY <1>2, <1>3, <1>5, <1>6, LinkStays DEF IInv, Syncs
<1>8. LinkInv("hashSync")'
  BY <1>3, <1>4, <1>5, <1>6, LinkAside DEF IInv, Syncs, Consumer, Producer, ConsumerRests
<1>9. Owners'
  BY <1>3, <1>4, OwnersAside DEF IInv
<1>10. Nested'
  BY <1>3, NestedAside DEF IInv, semaphores
<1>11. Main'
  BY <1>1, <1>2, <1>3, <1>7, LzInRun, MainRunning DEF IInv, LinkTypes
<1> QED
  BY <1>7, <1>8, <1>9, <1>10, <1>11 DEF Links

LEMMA WaitStopped_Bt ==
  ASSUME IInv, WaitStopped("BT")
  PROVE  Links' /\ Owners' /\ Nested' /\ Main'
<1>1. LinkTypes /\ DOMAIN pc = Threads /\ ConsumerOf("hashSync")
  BY BtCalls DEF IInv, ConsumerOf
<1>2. /\ Running("hashSync") /\ RunningLink("hashSync")
      /\ Running("btSync") /\ RunningLink("btSync") /\ dtor = "no"
  BY BtOnHash, BtActive DEF IInv, WaitStopped
<1>3. QuietLink("hashSync")' /\ needStart'["hashSync"]
  BY <1>1, <1>2, WaitStopped_Link DEF Syncs, Consumer, AfterStop, ConsumerRests
<1>4. /\ wasCreated' = wasCreated /\ csWasInitialized' = csWasInitialized
      /\ UNCHANGED lock /\ dtor' = dtor /\ run' = run /\ pc'["LZ"] = pc["LZ"] /\ pc'["HASH"] = pc["HASH"]
      /\ pc["BT"] = "waitStopped" /\ pc'["BT"] = "stopped"
  BY <1>1 DEF WaitStopped, Goto, Threads, AfterStop
<1>5. Aside("btSync")
  BY <1>1 DEF WaitStopped, TakeStopped, Aside, LinkTypes, CallSync, Syncs, Set, syncFlags, events,
     semaphores, lock, data
<1>6. PRole("btSync")' = PRole("btSync") /\ CRole("btSync")' = CRole("btSync")
  BY <1>4 DEF PRole, CRole, PRoleOf, Producer, Consumer, SearchLabels, FillLabels, EndLabels,
     GetLabels, StopLabels
<1>7. LinkInv("btSync")' /\ Running("btSync")'
  BY <1>2, <1>4, <1>5, <1>6, LinkStays DEF IInv, Syncs
<1>8. LinkInv("hashSync")' /\ ~Running("hashSync")'
  BY <1>2, <1>3, <1>4 DEF IInv, LinkInv, Running
<1>9. Owners'
  BY <1>4, OwnersAside DEF IInv
<1>10. Nested'
  BY <1>4, <1>7, <1>8 DEF IInv, Nested
<1>11. Main'
  BY <1>1, <1>2, <1>4, <1>7, LzInRun, MainRunning DEF IInv, LinkTypes
<1> QED
  BY <1>7, <1>8, <1>9, <1>10, <1>11 DEF Links

LEMMA WaitStopped_Lz ==
  ASSUME IInv, WaitStopped("LZ")
  PROVE  Links' /\ Owners' /\ Nested' /\ Main'
<1>1. Running("btSync") /\ RunningLink("btSync") /\ dtor = "no"
  BY LzOnBt DEF IInv, WaitStopped
<1>2. LinkTypes /\ DOMAIN pc = Threads /\ ConsumerOf("btSync") /\ CallSync("LZ") = "btSync"
  BY <1>1, LzCalls DEF IInv, ConsumerOf, Consumer
<1>3. QuietLink("btSync")' /\ needStart'["btSync"] /\ pc["BT"] = "waitStart"
  BY <1>1, <1>2, WaitStopped_Link DEF Syncs, Consumer, Producer, AfterStop, ConsumerRests
<1>4. /\ wasCreated' = wasCreated /\ csWasInitialized' = csWasInitialized
      /\ UNCHANGED lock /\ dtor' = dtor /\ run' = run /\ pc'["BT"] = pc["BT"] /\ pc'["HASH"] = pc["HASH"]
      /\ pc'["LZ"] = "idle"
  BY <1>1, <1>2 DEF WaitStopped, Goto, Threads, AfterStop
<1>5. Aside("hashSync")
  BY <1>2 DEF WaitStopped, TakeStopped, Aside, LinkTypes, Syncs, Set, syncFlags, events, semaphores,
     lock, data
<1>6. LinkInv("btSync")' /\ ~Running("btSync")'
  BY <1>1, <1>3, <1>4 DEF IInv, LinkInv, Running
<1>7. ~Running("hashSync")
  BY <1>3 DEF IInv, LinkInv, RunningLink, Signals, CRole, CRoleOf, Consumer, InsideLabels, OutsideLabels
<1>8. LinkInv("hashSync")' /\ ~Running("hashSync")'
  BY <1>4, <1>5, <1>7, LinkRests DEF IInv, Syncs, Producer, Consumer
<1>9. Owners'
  BY <1>4, OwnersAside DEF IInv
<1>10. Nested'
  BY <1>4, <1>6, <1>8 DEF IInv, Nested
<1>11. Main'
  BY <1>1, <1>4, <1>6, <1>8 DEF Main, MainPlaces, Syncs
<1> QED
  BY <1>6, <1>8, <1>9, <1>10, <1>11 DEF Links

\* StopWriting of the LZ thread, also from MatchFinderMt_Destruct.
LEMMA StopWriting_Lz ==
  ASSUME IInv, StopWriting("LZ")
  PROVE  Links' /\ Owners' /\ Nested' /\ Main'
<1>1. LinkTypes /\ DOMAIN pc = Threads
  BY Types DEF IInv, ThreadTypes
<1>2. /\ wasCreated' = wasCreated /\ csWasInitialized' = csWasInitialized /\ needStart' = needStart
      /\ dtor' = dtor /\ run' = run /\ pc'["BT"] = pc["BT"] /\ pc'["HASH"] = pc["HASH"]
      /\ pc["LZ"] = "stopCall" /\ wasStopped' = wasStopped
      /\ UNCHANGED <<numProcessedBlocks, syncFlags, events, semaphores, blockIndex, dtor, run>>
      /\ buf' = buf
  BY <1>1 DEF StopWriting, Goto, Threads, syncFlags, events, data
<1>3. CASE Running("btSync")
  <2>1. RunningLink("btSync") /\ dtor = "no" /\ CallSync("LZ") = "btSync"
    BY <1>3 DEF IInv, LinkInv, RunningLink, Signals, CallSync
  <2>2. ConsumerOf("btSync")
    BY <2>1, LzCalls DEF IInv
  <2>3. CRole("btSync") = "inside" /\ csWasEntered["btSync"]
    BY <1>2, <2>1 DEF RunningLink, Signals, CRole, CRoleOf, InsideLabels, Consumer
  <2>4. pc'["LZ"] = "setStop" /\ Unlock("btSync")
    BY <1>1, <1>3, <2>1, <2>3 DEF StopWriting, NothingToStop, Running, Goto, Threads, UnlockForStop
  <2>5. CRole("btSync")' = "outside" /\ PRole("btSync")' = PRole("btSync")
    BY <1>2, <2>4, ConsumerRoles DEF CRole, PRole, Consumer, Producer, Syncs
  <2>6. Aside("hashSync") /\ ~csWasEntered'["btSync"]
    BY <1>1, <1>2, <2>4 DEF Aside, LinkTypes, Syncs, Set, Unlock, syncFlags, events, semaphores
  <2>7. RunningLink("btSync")'
    BY <1>2, <2>1, <2>2, <2>3, <2>5, <2>6, Lock_Link DEF Syncs
  <2>8. LinkInv("btSync")' /\ Running("btSync")'
    BY <1>2, <1>3, <2>7, LinkRuns DEF IInv, Syncs
  <2>9. LinkInv("hashSync")'
    BY <1>2, <2>6, LinkRests DEF IInv, Syncs, Producer, Consumer
  <2>10. Owners'
    BY <1>1, <1>2, <2>4, UnlockOwners DEF IInv, LinkTypes, Syncs
  <2>11. Nested'
    BY <1>2, <2>6, NestedAside DEF IInv, Aside
  <2>12. Main'
    BY <1>1, <1>2, <1>3, <2>1, <2>4, <2>8, MainRunning DEF IInv, LinkTypes, ConsumerLabels
  <2> QED
    BY <2>8, <2>9, <2>10, <2>11, <2>12 DEF Links
<1>4. CASE ~Running("btSync")
  <2>1. ~Running("hashSync")
    BY <1>4 DEF IInv, Nested
  <2>2. NothingToStop(CallSync("LZ"))
    BY <1>1, <1>4, <2>1 DEF NothingToStop, Running, CallSync, LinkTypes, Syncs
  <2>3. UNCHANGED lock /\ pc'["LZ"] = IF dtor = "no" THEN "idle" ELSE "destruct"
    BY <1>1, <2>2 DEF StopWriting, Goto, Threads, AfterStop
  <2>4. Aside("hashSync") /\ Aside("btSync")
    BY <1>2, <2>3 DEF Aside, syncFlags, events, semaphores, lock
  <2>5. LinkInv("btSync")' /\ ~Running("btSync")'
    BY <1>2, <1>4, <2>3, <2>4, LinkAside DEF IInv, Syncs, Producer, Consumer, ConsumerRests, Running
  <2>6. LinkInv("hashSync")' /\ ~Running("hashSync")'
    BY <1>2, <2>1, <2>4, LinkRests DEF IInv, Syncs, Producer, Consumer
  <2>7. Owners'
    BY <1>2, <2>3, OwnersAside DEF IInv
  <2>8. Nested'
    BY <1>2, <2>4, NestedAside DEF IInv, Aside
  <2>9. dtor \in {"no", "release", "btSync", "hashSync"}
    BY <1>2 DEF IInv, TypeOK, Syncs
  <2>10. Main'
    BY <1>2, <2>3, <2>5, <2>6, <2>9 DEF IInv, Main, MainPlaces, ConsumerLabels, Syncs
  <2> QED
    BY <2>5, <2>6, <2>7, <2>8, <2>10 DEF Links
<1> QED
  BY <1>3, <1>4

LEMMA GetNextBlock_BtInv ==
  ASSUME IInv, GetNextBlock_Hash
  PROVE  Links' /\ Owners' /\ Nested' /\ Main'
<1>1. LinkTypes /\ DOMAIN pc = Threads /\ ConsumerOf("hashSync") /\ CallSync("BT") = "hashSync"
  BY BtCalls DEF IInv, ConsumerOf, CallSync
<1>2. /\ Running("btSync") /\ RunningLink("btSync") /\ dtor = "no"
      /\ wasCreated["hashSync"] /\ ~wasStopped["btSync"] /\ pc["BT"] = "getMatches"
  <2>1. pc["BT"] = "getMatches" /\ Running("btSync") /\ RunningLink("btSync") /\ dtor = "no"
    BY BtActive DEF IInv, GetNextBlock_Hash
  <2>2. ~wasStopped["btSync"]
    BY <2>1 DEF RunningLink, Signals, PRole, PRoleOf, Producer, SearchLabels, FillLabels
  <2> QED
    BY <2>1, <2>2 DEF IInv, Nested, Running
<1>3. /\ wasCreated' = wasCreated /\ csWasInitialized' = csWasInitialized
      /\ dtor' = dtor /\ run' = run /\ pc'["LZ"] = pc["LZ"] /\ pc'["HASH"] = pc["HASH"]
      /\ pc'["BT"] \in {"signalStart", "releaseFree"}
      /\ UNCHANGED <<blockIndex, dtor, run, length>> /\ needStart'["hashSync"] = FALSE
  BY <1>1 DEF GetNextBlock_Hash, GetNextBlock, GetFirstBlock, FreeBlock, StartFlags, Set, LinkTypes,
     Syncs,
     Goto, Threads, syncFlags, events
<1>4. Aside("btSync")
  <2>1. CASE GetFirstBlock("BT")
    BY <1>1, <1>3, <2>1 DEF GetFirstBlock, StartCount, StartFlags, Set, LinkTypes, Syncs, Aside,
       events, semaphores, lock, data
  <2>2. CASE FreeBlock("BT")
    BY <1>1, <1>3, <2>2 DEF FreeBlock, Unlock, Set, LinkTypes, Syncs, Aside, syncFlags, events,
       semaphores, data
  <2> QED
    BY <2>1, <2>2 DEF GetNextBlock_Hash, GetNextBlock
<1>5. PRole("btSync")' = PRole("btSync") /\ CRole("btSync")' = CRole("btSync")
  BY <1>2, <1>3 DEF PRole, CRole, PRoleOf, Producer, Consumer, SearchLabels, FillLabels, EndLabels,
     GetLabels, StopLabels
<1>6. LinkInv("btSync")' /\ Running("btSync")'
  BY <1>2, <1>3, <1>4, <1>5, LinkStays DEF IInv, Syncs
<1>7. RunningLink("hashSync")' /\ Owners'
  <2>1. CASE GetFirstBlock("BT")
    <3>1. needStart["hashSync"] /\ UNCHANGED lock
      BY <1>1, <2>1 DEF GetFirstBlock
    <3>2. QuietLink("hashSync") /\ Fresh("hashSync")
      BY <1>2, <3>1 DEF IInv, LinkInv, Nested
    <3> QED
      BY <1>1, <1>2, <1>3, <2>1, <3>1, <3>2, GetFirstBlock_Link, OwnersAside DEF IInv, Syncs, Consumer
  <2>2. CASE FreeBlock("BT")
    <3>1. RunningLink("hashSync") /\ Unlock("hashSync")
      BY <1>1, <1>2, <2>2 DEF FreeBlock, IInv, LinkInv, Running
    <3> QED
      BY <1>1, <1>3, <2>2, <3>1, FreeBlock_Link, UnlockOwners DEF IInv, LinkTypes, Syncs, Consumer
  <2> QED
    BY <2>1, <2>2 DEF GetNextBlock_Hash, GetNextBlock
<1>8. LinkInv("hashSync")'
  BY <1>2, <1>3, <1>7 DEF IInv, LinkInv, Running
<1>9. Nested'
  BY <1>2, <1>3, <1>6 DEF IInv, Nested
<1>10. Main'
  BY <1>1, <1>2, <1>3, <1>6, LzInRun, MainRunning DEF IInv, LinkTypes
<1> QED
  BY <1>6, <1>7, <1>8, <1>9, <1>10 DEF Links

LEMMA GetNextBlock_LzInv ==
  ASSUME IInv, GetNextBlock_Bt
  PROVE  Links' /\ Owners' /\ Nested' /\ Main'
<1>1. pc["LZ"] = "encode" /\ dtor = "no" /\ wasCreated["btSync"] /\ wasCreated["hashSync"]
  BY DEF GetNextBlock_Bt, IInv, TypeOK, Main, MainPlaces, Syncs
<1>2. LinkTypes /\ DOMAIN pc = Threads /\ ConsumerOf("btSync") /\ CallSync("LZ") = "btSync"
  BY <1>1, LzCalls DEF IInv, ConsumerOf, Consumer
<1>3. /\ wasCreated' = wasCreated /\ csWasInitialized' = csWasInitialized
      /\ dtor' = dtor /\ run' = run /\ pc'["BT"] = pc["BT"] /\ pc'["HASH"] = pc["HASH"]
      /\ pc'["LZ"] \in {"signalStart", "releaseFree"}
      /\ UNCHANGED <<blockIndex, dtor, run, length>> /\ needStart'["btSync"] = FALSE
  BY <1>2 DEF GetNextBlock_Bt, GetNextBlock, GetFirstBlock, FreeBlock, StartFlags, Set, LinkTypes,
     Syncs,
     Goto, Threads, syncFlags, events
<1>4. Aside("hashSync")
  <2>1. CASE GetFirstBlock("LZ")
    BY <1>2, <1>3, <2>1 DEF GetFirstBlock, StartCount, StartFlags, Set, LinkTypes, Syncs, Aside,
       events, semaphores, lock, data
  <2>2. CASE FreeBlock("LZ")
    BY <1>2, <1>3, <2>2 DEF FreeBlock, Unlock, Set, LinkTypes, Syncs, Aside, syncFlags, events,
       semaphores, data
  <2> QED
    BY <2>1, <2>2 DEF GetNextBlock_Bt, GetNextBlock
<1>5. LinkInv("hashSync")' /\ Running("hashSync")' = Running("hashSync")
  BY <1>3, <1>4, LinkRests DEF IInv, Syncs, Producer, Consumer
<1>6. Running("btSync")' /\ ~needStart'["btSync"]
  BY <1>1, <1>3 DEF Running
<1>7. RunningLink("btSync")' /\ Owners' /\ Nested'
  <2>1. CASE GetFirstBlock("LZ")
    <3>1. needStart["btSync"] /\ UNCHANGED <<semaphores, lock>>
      BY <1>2, <2>1 DEF GetFirstBlock
    <3>2. QuietLink("btSync") /\ Fresh("btSync") /\ Fresh("hashSync")
      BY <1>1, <3>1 DEF IInv, LinkInv, Main, Syncs
    <3>3. RunningLink("btSync")' /\ Owners'
      BY <1>1, <1>2, <1>3, <2>1, <3>1, <3>2, GetFirstBlock_Link, OwnersAside DEF IInv, Syncs, Consumer
    <3>4. Fresh("hashSync")'
      BY <3>1, <3>2 DEF Fresh, semaphores
    <3> QED
      BY <1>1, <1>3, <1>6, <3>3, <3>4 DEF IInv, Nested
  <2>2. CASE FreeBlock("LZ")
    <3>1. RunningLink("btSync") /\ Unlock("btSync") /\ needStart' = needStart /\ wasStopped' = wasStopped
      BY <1>1, <1>2, <2>2 DEF FreeBlock, IInv, LinkInv, Running, syncFlags, events
    <3>2. RunningLink("btSync")' /\ Owners'
      BY <1>2, <1>3, <2>2, <3>1, FreeBlock_Link, UnlockOwners DEF IInv, LinkTypes, Syncs, Consumer
    <3> QED
      BY <1>3, <1>4, <3>1, <3>2, NestedAside DEF IInv, Aside
  <2> QED
    BY <2>1, <2>2 DEF GetNextBlock_Bt, GetNextBlock
<1>8. LinkInv("btSync")'
  BY <1>1, <1>3, <1>6, <1>7 DEF IInv, LinkInv, Running
<1>9. Main'
  BY <1>1, <1>2, <1>3, <1>6, <1>7, <1>8, MainRunning DEF IInv, LinkTypes, ConsumerLabels, Main,
     MainPlaces, Syncs
<1> QED
  BY <1>5, <1>7, <1>8, <1>9 DEF Links

-------------------------------------------------------------------------------
(* The steps of the BT thread on its own link.                              *)

\* canStart after MtSync_Destruct ends the thread; in a run it starts a run.
LEMMA WaitStart_Bt ==
  ASSUME IInv, WaitStart("btSync")
  PROVE  Links' /\ Owners' /\ Nested' /\ Main'
<1>1. LinkTypes /\ DOMAIN pc = Threads /\ ProducerOf("btSync")
  BY BtCalls DEF IInv, ProducerOf
<1>2. /\ wasCreated' = wasCreated /\ csWasInitialized' = csWasInitialized /\ needStart' = needStart
      /\ UNCHANGED lock /\ dtor' = dtor /\ run' = run /\ pc'["LZ"] = pc["LZ"] /\ pc'["HASH"] = pc["HASH"]
      /\ pc["BT"] = "waitStart" /\ wasStopped' = wasStopped /\ UNCHANGED semaphores
      /\ pc'["BT"] = IF exit["btSync"] THEN "done" ELSE "loop"
      /\ canStart["btSync"] /\ ~canStart'["btSync"] /\ csWasEntered' = csWasEntered
  BY <1>1 DEF WaitStart, Producer, Goto, Threads, Set, LinkTypes, Syncs, syncFlags, lock
<1>3. Aside("hashSync")
  BY <1>1 DEF WaitStart, Aside, LinkTypes, Syncs, Set, syncFlags, semaphores, lock, data
<1>4. ~Running("hashSync") /\ ~Running("hashSync")' /\ pc'["BT"] \in ConsumerRests("hashSync")
  BY <1>2 DEF IInv, LinkInv, RunningLink, Signals, CRole, CRoleOf, Consumer, InsideLabels,
     OutsideLabels,
     Running, ConsumerRests
<1>5. LinkInv("hashSync")'
  BY <1>2, <1>3, <1>4, LinkAside DEF IInv, Syncs, Producer, Consumer
<1>6. LinkInv("btSync")'
  <2>1. CASE Running("btSync")
    <3>1. RunningLink("btSync")'
      BY <1>1, <2>1, WaitStart_Link DEF IInv, LinkInv, Syncs
    <3> QED
      BY <1>2, <2>1, <3>1, LinkRuns DEF IInv, Syncs
  <2>2. CASE wasCreated["btSync"] /\ needStart["btSync"]
    <3>1. QuietLink("btSync") /\ dtor # "no" /\ pc'["BT"] = "done"
      BY <1>2, <2>2 DEF IInv, LinkInv, QuietLink
    <3>2. QuietLink("btSync")'
      BY <1>2, <3>1 DEF QuietLink, Producer, Consumer
    <3> QED
      BY <1>2, <2>2, <3>2 DEF IInv, LinkInv, Running
  <2>3. CASE ~wasCreated["btSync"]
    BY <1>2, <2>3 DEF IInv, LinkInv, AbsentLink, Producer
  <2> QED
    BY <1>1, <2>1, <2>2, <2>3 DEF Running
<1>7. Owners'
  BY <1>2, OwnersAside DEF IInv
<1>8. Nested'
  BY <1>2, NestedAside DEF IInv, semaphores
<1>9. Main'
  BY <1>2 DEF IInv, Main, Running, Fresh, semaphores, Producer, MainPlaces
<1> QED
  BY <1>5, <1>6, <1>7, <1>8, <1>9 DEF Links

LEMMA WaitStart_Hash ==
  ASSUME IInv, WaitStart("hashSync")
  PROVE  Links' /\ Owners' /\ Nested' /\ Main'
<1>1. LinkTypes /\ DOMAIN pc = Threads /\ ProducerOf("hashSync")
  BY BtCalls DEF IInv, ProducerOf
<1>2. /\ wasCreated' = wasCreated /\ csWasInitialized' = csWasInitialized /\ needStart' = needStart
      /\ UNCHANGED lock /\ dtor' = dtor /\ run' = run /\ pc'["LZ"] = pc["LZ"] /\ pc'["BT"] = pc["BT"]
      /\ pc["HASH"] = "waitStart" /\ wasStopped' = wasStopped /\ UNCHANGED semaphores
      /\ pc'["HASH"] = IF exit["hashSync"] THEN "done" ELSE "loop"
      /\ canStart["hashSync"] /\ ~canStart'["hashSync"] /\ csWasEntered' = csWasEntered
  BY <1>1 DEF WaitStart, Producer, Goto, Threads, Set, LinkTypes, Syncs, syncFlags, lock
<1>3. Aside("btSync")
  BY <1>1 DEF WaitStart, Aside, LinkTypes, Syncs, Set, syncFlags, semaphores, lock, data
<1>4. LinkInv("btSync")'
  BY <1>2, <1>3, LinkRests DEF IInv, Syncs, Producer, Consumer
<1>5. LinkInv("hashSync")'
  <2>1. CASE Running("hashSync")
    <3>1. RunningLink("hashSync")'
      BY <1>1, <2>1, WaitStart_Link DEF IInv, LinkInv, Syncs
    <3> QED
      BY <1>2, <2>1, <3>1, LinkRuns DEF IInv, Syncs
  <2>2. CASE wasCreated["hashSync"] /\ needStart["hashSync"]
    <3>1. QuietLink("hashSync") /\ dtor # "no" /\ pc'["HASH"] = "done"
      BY <1>2, <2>2 DEF IInv, LinkInv, QuietLink
    <3>2. QuietLink("hashSync")'
      BY <1>2, <3>1 DEF QuietLink, Producer, Consumer
    <3> QED
      BY <1>2, <2>2, <3>2 DEF IInv, LinkInv, Running
  <2>3. CASE ~wasCreated["hashSync"]
    BY <1>2, <2>3 DEF IInv, LinkInv, AbsentLink, Producer
  <2> QED
    BY <1>1, <2>1, <2>2, <2>3 DEF Running
<1>6. Owners'
  BY <1>2 DEF IInv, Owners, lock
<1>7. Nested'
  BY <1>2, NestedAside DEF IInv, semaphores
<1>8. Main'
  BY <1>2 DEF IInv, Main, Running, Fresh, semaphores, Producer, MainPlaces
<1> QED
  BY <1>4, <1>5, <1>6, <1>7, <1>8 DEF Links

LEMMA WaitFree_BtInv ==
  ASSUME IInv, WaitFree("btSync")
  PROVE  Links' /\ Owners' /\ Nested' /\ Main'
<1>1. LinkTypes /\ DOMAIN pc = Threads /\ ProducerOf("btSync")
  BY BtCalls DEF IInv, ProducerOf
<1>2. Running("btSync") /\ RunningLink("btSync") /\ dtor = "no" /\ pc["BT"] = "waitFree"
  BY BtActive DEF IInv, WaitFree, Producer
<1>3. RunningLink("btSync")'
  BY <1>1, <1>2, WaitFree_Link DEF Syncs
<1>4. /\ wasCreated' = wasCreated /\ csWasInitialized' = csWasInitialized /\ needStart' = needStart
      /\ UNCHANGED lock /\ dtor' = dtor /\ run' = run /\ pc'["LZ"] = pc["LZ"] /\ pc'["HASH"] = pc["HASH"]
      /\ pc'["BT"] \in {"fill", "stopCall"}
      /\ pc["BT"] = "stopped" \/ wasStopped["btSync"] => wasStopped'["btSync"]
  BY <1>1, <1>2 DEF WaitFree, Producer, Goto, Threads, Set, LinkTypes, Syncs, syncFlags, events,
     AfterWait
<1>5. Aside("hashSync")
  BY <1>1 DEF WaitFree, AcquireFree, Acquire, Aside, LinkTypes, Syncs, Set, syncFlags, events,
     semaphores, lock, data
<1>6. /\ Running("hashSync") => CRole("hashSync")' = CRole("hashSync")
      /\ ~Running("hashSync") => pc'["BT"] \in ConsumerRests("hashSync")
  <2>1. Running("hashSync") => CRole("hashSync") \in {"signalStart", "waitFilled", "releaseFree", "inside", "outside",
                   "releaseStop", "waitStopped"}
    BY DEF IInv, LinkInv, RunningLink, Signals
  <2> QED
    BY <1>2, <1>4, <2>1 DEF CRole, CRoleOf, Consumer, InsideLabels, OutsideLabels, ConsumerRests
<1>7. LinkInv("btSync")' /\ Running("btSync")'
  BY <1>2, <1>3, <1>4, LinkRuns DEF IInv, Syncs
<1>8. LinkInv("hashSync")'
  <2>1. PRole("hashSync")' = PRole("hashSync")
    BY <1>4 DEF PRole, Producer
  <2> QED
    BY <1>4, <1>5, <1>6, <2>1, LinkAside DEF IInv, Syncs, Producer, Consumer
<1>9. Owners'
  BY <1>4, OwnersAside DEF IInv
<1>10. Nested'
  BY <1>4, <1>5, NestedAside DEF IInv, Aside
<1>11. Main'
  BY <1>1, <1>2, <1>4, <1>7, LzInRun, MainRunning DEF IInv, LinkTypes
<1> QED
  BY <1>7, <1>8, <1>9, <1>10, <1>11 DEF Links

LEMMA WaitFree_HashInv ==
  ASSUME IInv, WaitFree("hashSync")
  PROVE  Links' /\ Owners' /\ Nested' /\ Main'
<1>1. LinkTypes /\ DOMAIN pc = Threads /\ ProducerOf("hashSync")
  BY BtCalls DEF IInv, ProducerOf
<1>2. /\ Running("hashSync") /\ RunningLink("hashSync") /\ pc["HASH"] = "waitFree"
      /\ Running("btSync") /\ RunningLink("btSync") /\ dtor = "no"
  BY HashActive DEF IInv, WaitFree, Producer, Nested, LinkInv, RunningLink, Signals
<1>3. RunningLink("hashSync")'
  BY <1>1, <1>2, WaitFree_Link DEF Syncs
<1>4. /\ wasCreated' = wasCreated /\ csWasInitialized' = csWasInitialized /\ needStart' = needStart
      /\ UNCHANGED lock /\ dtor' = dtor /\ run' = run /\ pc'["LZ"] = pc["LZ"] /\ pc'["BT"] = pc["BT"]
      /\ pc'["HASH"] \in {"fill", "stopped"}
  BY <1>1, <1>2 DEF WaitFree, Producer, Goto, Threads, syncFlags, Syncs, AfterWait, RunningLink, Signals
<1>5. Aside("btSync")
  BY <1>1 DEF WaitFree, AcquireFree, Acquire, Aside, LinkTypes, Syncs, Set, syncFlags, events,
     semaphores, lock, data
<1>6. LinkInv("hashSync")' /\ ~needStart["hashSync"]
  BY <1>2, <1>3, <1>4, LinkRuns DEF IInv, Syncs, Running
<1>7. LinkInv("btSync")' /\ Running("btSync")'
  BY <1>2, <1>4, <1>5, LinkRests DEF IInv, Syncs, Producer, Consumer
<1>8. Owners'
  BY <1>2, <1>4 DEF IInv, Owners, lock
<1>9. Nested'
  BY <1>4, <1>5, <1>6, NestedAside DEF IInv, Aside
<1>10. Main'
  BY <1>1, <1>2, <1>4, <1>7, LzInRun, MainRunning DEF IInv, LinkTypes
<1> QED
  BY <1>6, <1>7, <1>8, <1>9, <1>10 DEF Links

LEMMA ReleaseFilled_BtInv ==
  ASSUME IInv, ReleaseFilled("btSync")
  PROVE  Links' /\ Owners' /\ Nested' /\ Main'
<1>1. LinkTypes /\ DOMAIN pc = Threads /\ ProducerOf("btSync")
  BY BtCalls DEF IInv, ProducerOf
<1>2. Running("btSync") /\ RunningLink("btSync") /\ dtor = "no" /\ pc["BT"] = "releaseFilled"
  BY BtActive DEF IInv, ReleaseFilled, Producer
<1>3. RunningLink("btSync")'
  BY <1>1, <1>2, ReleaseFilled_Link DEF Syncs
<1>4. /\ wasCreated' = wasCreated /\ csWasInitialized' = csWasInitialized /\ needStart' = needStart
      /\ UNCHANGED lock /\ dtor' = dtor /\ run' = run /\ pc'["LZ"] = pc["LZ"] /\ pc'["HASH"] = pc["HASH"]
      /\ pc'["BT"] = "loop"
      /\ pc["BT"] = "stopped" \/ wasStopped["btSync"] => wasStopped'["btSync"]
  BY <1>1, <1>2 DEF ReleaseFilled, Producer, Goto, Threads, Set, LinkTypes, Syncs, syncFlags, events
<1>5. Aside("hashSync")
  BY <1>1 DEF ReleaseFilled, Release, Aside, LinkTypes, Syncs, Set, syncFlags, events, semaphores,
     lock, data
<1>6. /\ Running("hashSync") => CRole("hashSync")' = CRole("hashSync")
      /\ ~Running("hashSync") => pc'["BT"] \in ConsumerRests("hashSync")
  <2>1. Running("hashSync") => CRole("hashSync") \in {"signalStart", "waitFilled", "releaseFree", "inside", "outside",
                   "releaseStop", "waitStopped"}
    BY DEF IInv, LinkInv, RunningLink, Signals
  <2> QED
    BY <1>2, <1>4, <2>1 DEF CRole, CRoleOf, Consumer, InsideLabels, OutsideLabels, ConsumerRests
<1>7. LinkInv("btSync")' /\ Running("btSync")'
  BY <1>2, <1>3, <1>4, LinkRuns DEF IInv, Syncs
<1>8. LinkInv("hashSync")'
  <2>1. PRole("hashSync")' = PRole("hashSync")
    BY <1>4 DEF PRole, Producer
  <2> QED
    BY <1>4, <1>5, <1>6, <2>1, LinkAside DEF IInv, Syncs, Producer, Consumer
<1>9. Owners'
  BY <1>4, OwnersAside DEF IInv
<1>10. Nested'
  BY <1>4, <1>5, NestedAside DEF IInv, Aside
<1>11. Main'
  BY <1>1, <1>2, <1>4, <1>7, LzInRun, MainRunning DEF IInv, LinkTypes
<1> QED
  BY <1>7, <1>8, <1>9, <1>10, <1>11 DEF Links

LEMMA ReleaseFilled_HashInv ==
  ASSUME IInv, ReleaseFilled("hashSync")
  PROVE  Links' /\ Owners' /\ Nested' /\ Main'
<1>1. LinkTypes /\ DOMAIN pc = Threads /\ ProducerOf("hashSync")
  BY BtCalls DEF IInv, ProducerOf
<1>2. /\ Running("hashSync") /\ RunningLink("hashSync") /\ pc["HASH"] = "releaseFilled"
      /\ Running("btSync") /\ RunningLink("btSync") /\ dtor = "no"
  BY HashActive DEF IInv, ReleaseFilled, Producer, Nested, LinkInv, RunningLink, Signals
<1>3. RunningLink("hashSync")'
  BY <1>1, <1>2, ReleaseFilled_Link DEF Syncs
<1>4. /\ wasCreated' = wasCreated /\ csWasInitialized' = csWasInitialized /\ needStart' = needStart
      /\ UNCHANGED lock /\ dtor' = dtor /\ run' = run /\ pc'["LZ"] = pc["LZ"] /\ pc'["BT"] = pc["BT"]
      /\ pc'["HASH"] = "loop"
  BY <1>1, <1>2 DEF ReleaseFilled, Producer, Goto, Threads, syncFlags, Syncs
<1>5. Aside("btSync")
  BY <1>1 DEF ReleaseFilled, Release, Aside, LinkTypes, Syncs, Set, syncFlags, events, semaphores,
     lock, data
<1>6. LinkInv("hashSync")' /\ ~needStart["hashSync"]
  BY <1>2, <1>3, <1>4, LinkRuns DEF IInv, Syncs, Running
<1>7. LinkInv("btSync")' /\ Running("btSync")'
  BY <1>2, <1>4, <1>5, LinkRests DEF IInv, Syncs, Producer, Consumer
<1>8. Owners'
  BY <1>2, <1>4 DEF IInv, Owners, lock
<1>9. Nested'
  BY <1>4, <1>5, <1>6, NestedAside DEF IInv, Aside
<1>10. Main'
  BY <1>1, <1>2, <1>4, <1>7, LzInRun, MainRunning DEF IInv, LinkTypes
<1> QED
  BY <1>6, <1>7, <1>8, <1>9, <1>10 DEF Links

LEMMA Stopped_BtInv ==
  ASSUME IInv, Stopped("btSync")
  PROVE  Links' /\ Owners' /\ Nested' /\ Main'
<1>1. LinkTypes /\ DOMAIN pc = Threads /\ ProducerOf("btSync")
  BY BtCalls DEF IInv, ProducerOf
<1>2. Running("btSync") /\ RunningLink("btSync") /\ dtor = "no" /\ pc["BT"] = "stopped"
  BY BtActive DEF IInv, Stopped, Producer
<1>3. RunningLink("btSync")'
  BY <1>1, <1>2, Stopped_Link DEF Syncs
<1>4. /\ wasCreated' = wasCreated /\ csWasInitialized' = csWasInitialized /\ needStart' = needStart
      /\ UNCHANGED lock /\ dtor' = dtor /\ run' = run /\ pc'["LZ"] = pc["LZ"] /\ pc'["HASH"] = pc["HASH"]
      /\ pc'["BT"] = "waitStart"
      /\ pc["BT"] = "stopped" \/ wasStopped["btSync"] => wasStopped'["btSync"]
  BY <1>1, <1>2 DEF Stopped, Producer, Goto, Threads, Set, LinkTypes, Syncs, syncFlags, events
<1>5. Aside("hashSync")
  BY <1>1 DEF Stopped, Aside, LinkTypes, Syncs, Set, syncFlags, events, semaphores, lock, data
<1>6. /\ Running("hashSync") => CRole("hashSync")' = CRole("hashSync")
      /\ ~Running("hashSync") => pc'["BT"] \in ConsumerRests("hashSync")
  <2>1. Running("hashSync") => CRole("hashSync") \in {"signalStart", "waitFilled", "releaseFree", "inside", "outside",
                   "releaseStop", "waitStopped"}
    BY DEF IInv, LinkInv, RunningLink, Signals
  <2> QED
    BY <1>2, <1>4, <2>1 DEF CRole, CRoleOf, Consumer, InsideLabels, OutsideLabels, ConsumerRests
<1>7. LinkInv("btSync")' /\ Running("btSync")'
  BY <1>2, <1>3, <1>4, LinkRuns DEF IInv, Syncs
<1>8. LinkInv("hashSync")'
  <2>1. PRole("hashSync")' = PRole("hashSync")
    BY <1>4 DEF PRole, Producer
  <2> QED
    BY <1>4, <1>5, <1>6, <2>1, LinkAside DEF IInv, Syncs, Producer, Consumer
<1>9. Owners'
  BY <1>4, OwnersAside DEF IInv
<1>10. Nested'
  BY <1>4, <1>5, NestedAside DEF IInv, Aside
<1>11. Main'
  BY <1>1, <1>2, <1>4, <1>7, LzInRun, MainRunning DEF IInv, LinkTypes
<1> QED
  BY <1>7, <1>8, <1>9, <1>10, <1>11 DEF Links

LEMMA Stopped_HashInv ==
  ASSUME IInv, Stopped("hashSync")
  PROVE  Links' /\ Owners' /\ Nested' /\ Main'
<1>1. LinkTypes /\ DOMAIN pc = Threads /\ ProducerOf("hashSync")
  BY BtCalls DEF IInv, ProducerOf
<1>2. /\ Running("hashSync") /\ RunningLink("hashSync") /\ pc["HASH"] = "stopped"
      /\ Running("btSync") /\ RunningLink("btSync") /\ dtor = "no"
  BY HashActive DEF IInv, Stopped, Producer, Nested, LinkInv, RunningLink, Signals
<1>3. RunningLink("hashSync")'
  BY <1>1, <1>2, Stopped_Link DEF Syncs
<1>4. /\ wasCreated' = wasCreated /\ csWasInitialized' = csWasInitialized /\ needStart' = needStart
      /\ UNCHANGED lock /\ dtor' = dtor /\ run' = run /\ pc'["LZ"] = pc["LZ"] /\ pc'["BT"] = pc["BT"]
      /\ pc'["HASH"] = "waitStart"
  BY <1>1, <1>2 DEF Stopped, Producer, Goto, Threads, syncFlags, Syncs
<1>5. Aside("btSync")
  BY <1>1 DEF Stopped, Aside, LinkTypes, Syncs, Set, syncFlags, events, semaphores, lock, data
<1>6. LinkInv("hashSync")' /\ ~needStart["hashSync"]
  BY <1>2, <1>3, <1>4, LinkRuns DEF IInv, Syncs, Running
<1>7. LinkInv("btSync")' /\ Running("btSync")'
  BY <1>2, <1>4, <1>5, LinkRests DEF IInv, Syncs, Producer, Consumer
<1>8. Owners'
  BY <1>2, <1>4 DEF IInv, Owners, lock
<1>9. Nested'
  BY <1>4, <1>5, <1>6, NestedAside DEF IInv, Aside
<1>10. Main'
  BY <1>1, <1>2, <1>4, <1>7, LzInRun, MainRunning DEF IInv, LinkTypes
<1> QED
  BY <1>6, <1>7, <1>8, <1>9, <1>10 DEF Links

LEMMA BtLoop_Inv ==
  ASSUME IInv, BtLoop
  PROVE  Links' /\ Owners' /\ Nested' /\ Main'
<1>1. LinkTypes /\ DOMAIN pc = Threads
  BY BtCalls DEF IInv, ProducerOf
<1>2. /\ Running("btSync") /\ RunningLink("btSync") /\ dtor = "no" /\ pc["BT"] = "loop"
  BY BtActive DEF IInv, BtLoop
<1>3. /\ wasCreated' = wasCreated /\ csWasInitialized' = csWasInitialized /\ needStart' = needStart
      /\ UNCHANGED lock /\ dtor' = dtor /\ run' = run /\ pc'["LZ"] = pc["LZ"] /\ pc'["HASH"] = pc["HASH"]
      /\ pc'["BT"] = "waitFree" /\ wasStopped' = wasStopped
  BY <1>1, <1>2 DEF BtLoop, Goto, Threads, syncFlags, events, RunningLink, Signals
<1>4. Aside("hashSync") /\ Aside("btSync")
  BY DEF BtLoop, Aside, syncFlags, events, semaphores, lock, data
<1>5. /\ Running("hashSync") => CRole("hashSync")' = CRole("hashSync")
      /\ ~Running("hashSync") => pc'["BT"] \in ConsumerRests("hashSync")
  <2>1. Running("hashSync") => CRole("hashSync") \in {"signalStart", "waitFilled", "releaseFree", "inside", "outside",
                   "releaseStop", "waitStopped"}
    BY DEF IInv, LinkInv, RunningLink, Signals
  <2>2. pc["BT"] = "gotBlock" => Running("hashSync")
    BY BtOnHash DEF IInv
  <2> QED
    BY <1>2, <1>3, <2>1, <2>2 DEF CRole, CRoleOf, Consumer, InsideLabels, OutsideLabels, ConsumerRests
<1>6. PRole("btSync")' = PRole("btSync") /\ CRole("btSync")' = CRole("btSync") /\ PRole("hashSync")' = PRole("hashSync")
  BY <1>2, <1>3 DEF PRole, PRoleOf, CRole, Producer, Consumer, SearchLabels, FillLabels, EndLabels,
     GetLabels, StopLabels
<1>7. LinkInv("btSync")' /\ Running("btSync")'
  BY <1>2, <1>3, <1>4, <1>6, LinkStays DEF IInv, Syncs
<1>8. LinkInv("hashSync")'
  BY <1>3, <1>4, <1>5, <1>6, LinkAside DEF IInv, Syncs, Producer, Consumer
<1>9. Owners'
  BY <1>3, OwnersAside DEF IInv
<1>10. Nested'
  BY <1>2, <1>3, <1>4, NestedAside DEF IInv, Aside
<1>11. Main'
  BY <1>1, <1>2, <1>3, <1>7, LzInRun, MainRunning DEF IInv, LinkTypes
<1> QED
  BY <1>7, <1>8, <1>9, <1>10, <1>11 DEF Links

LEMMA BtNewHeads_Inv ==
  ASSUME IInv, BtNewHeads
  PROVE  Links' /\ Owners' /\ Nested' /\ Main'
<1>1. LinkTypes /\ DOMAIN pc = Threads
  BY BtCalls DEF IInv, ProducerOf
<1>2. /\ Running("btSync") /\ RunningLink("btSync") /\ dtor = "no" /\ pc["BT"] = "gotBlock"
  BY BtActive DEF IInv, BtNewHeads
<1>3. /\ wasCreated' = wasCreated /\ csWasInitialized' = csWasInitialized /\ needStart' = needStart
      /\ UNCHANGED lock /\ dtor' = dtor /\ run' = run /\ pc'["LZ"] = pc["LZ"] /\ pc'["HASH"] = pc["HASH"]
      /\ pc'["BT"] = "getMatches" /\ wasStopped' = wasStopped
  BY <1>1, <1>2 DEF BtNewHeads, Goto, Threads, syncFlags, events, RunningLink, Signals
<1>4. Aside("hashSync") /\ Aside("btSync")
  BY DEF BtNewHeads, Aside, syncFlags, events, semaphores, lock, data
<1>5. /\ Running("hashSync") => CRole("hashSync")' = CRole("hashSync")
      /\ ~Running("hashSync") => pc'["BT"] \in ConsumerRests("hashSync")
  <2>1. Running("hashSync") => CRole("hashSync") \in {"signalStart", "waitFilled", "releaseFree", "inside", "outside",
                   "releaseStop", "waitStopped"}
    BY DEF IInv, LinkInv, RunningLink, Signals
  <2>2. pc["BT"] = "gotBlock" => Running("hashSync")
    BY BtOnHash DEF IInv
  <2> QED
    BY <1>2, <1>3, <2>1, <2>2 DEF CRole, CRoleOf, Consumer, InsideLabels, OutsideLabels, ConsumerRests
<1>6. PRole("btSync")' = PRole("btSync") /\ CRole("btSync")' = CRole("btSync") /\ PRole("hashSync")' = PRole("hashSync")
  BY <1>2, <1>3 DEF PRole, PRoleOf, CRole, Producer, Consumer, SearchLabels, FillLabels, EndLabels,
     GetLabels, StopLabels
<1>7. LinkInv("btSync")' /\ Running("btSync")'
  BY <1>2, <1>3, <1>4, <1>6, LinkStays DEF IInv, Syncs
<1>8. LinkInv("hashSync")'
  BY <1>3, <1>4, <1>5, <1>6, LinkAside DEF IInv, Syncs, Producer, Consumer
<1>9. Owners'
  BY <1>3, OwnersAside DEF IInv
<1>10. Nested'
  BY <1>2, <1>3, <1>4, NestedAside DEF IInv, Aside
<1>11. Main'
  BY <1>1, <1>2, <1>3, <1>7, LzInRun, MainRunning DEF IInv, LinkTypes
<1> QED
  BY <1>7, <1>8, <1>9, <1>10, <1>11 DEF Links

LEMMA BtHeadsUsed_Inv ==
  ASSUME IInv, BtHeadsUsed
  PROVE  Links' /\ Owners' /\ Nested' /\ Main'
<1>1. LinkTypes /\ DOMAIN pc = Threads
  BY BtCalls DEF IInv, ProducerOf
<1>2. /\ Running("btSync") /\ RunningLink("btSync") /\ dtor = "no" /\ pc["BT"] = "getMatches"
  BY BtActive DEF IInv, BtHeadsUsed
<1>3. /\ wasCreated' = wasCreated /\ csWasInitialized' = csWasInitialized /\ needStart' = needStart
      /\ UNCHANGED lock /\ dtor' = dtor /\ run' = run /\ pc'["LZ"] = pc["LZ"] /\ pc'["HASH"] = pc["HASH"]
      /\ pc'["BT"] = "getMatches" /\ wasStopped' = wasStopped
  BY <1>1, <1>2 DEF BtHeadsUsed, Goto, Threads, syncFlags, events, RunningLink, Signals
<1>4. Aside("hashSync") /\ Aside("btSync")
  BY DEF BtHeadsUsed, Aside, syncFlags, events, semaphores, lock, data
<1>5. /\ Running("hashSync") => CRole("hashSync")' = CRole("hashSync")
      /\ ~Running("hashSync") => pc'["BT"] \in ConsumerRests("hashSync")
  <2>1. Running("hashSync") => CRole("hashSync") \in {"signalStart", "waitFilled", "releaseFree", "inside", "outside",
                   "releaseStop", "waitStopped"}
    BY DEF IInv, LinkInv, RunningLink, Signals
  <2>2. pc["BT"] = "gotBlock" => Running("hashSync")
    BY BtOnHash DEF IInv
  <2> QED
    BY <1>2, <1>3, <2>1, <2>2 DEF CRole, CRoleOf, Consumer, InsideLabels, OutsideLabels, ConsumerRests
<1>6. PRole("btSync")' = PRole("btSync") /\ CRole("btSync")' = CRole("btSync") /\ PRole("hashSync")' = PRole("hashSync")
  BY <1>2, <1>3 DEF PRole, PRoleOf, CRole, Producer, Consumer, SearchLabels, FillLabels, EndLabels,
     GetLabels, StopLabels
<1>7. LinkInv("btSync")' /\ Running("btSync")'
  BY <1>2, <1>3, <1>4, <1>6, LinkStays DEF IInv, Syncs
<1>8. LinkInv("hashSync")'
  BY <1>3, <1>4, <1>5, <1>6, LinkAside DEF IInv, Syncs, Producer, Consumer
<1>9. Owners'
  BY <1>3, OwnersAside DEF IInv
<1>10. Nested'
  BY <1>2, <1>3, <1>4, NestedAside DEF IInv, Aside
<1>11. Main'
  BY <1>1, <1>2, <1>3, <1>7, LzInRun, MainRunning DEF IInv, LinkTypes
<1> QED
  BY <1>7, <1>8, <1>9, <1>10, <1>11 DEF Links
LEMMA BtFillBlock_Inv ==
  ASSUME IInv, BtFillBlock
  PROVE  Links' /\ Owners' /\ Nested' /\ Main'
<1>1. LinkTypes /\ DOMAIN pc = Threads /\ ConsumerOf("hashSync")
  BY BtCalls DEF IInv, ConsumerOf
<1>2. /\ Running("btSync") /\ RunningLink("btSync") /\ dtor = "no" /\ pc["BT"] = "fill"
      /\ wasCreated["hashSync"]
  BY BtActive DEF IInv, BtFillBlock, Nested, Running
<1>3. /\ wasCreated' = wasCreated /\ csWasInitialized' = csWasInitialized /\ needStart' = needStart
      /\ dtor' = dtor /\ run' = run /\ pc'["LZ"] = pc["LZ"] /\ pc'["HASH"] = pc["HASH"]
      /\ pc'["BT"] = "getMatches" /\ wasStopped' = wasStopped
      /\ UNCHANGED <<numProcessedBlocks, syncFlags, events, semaphores, blockIndex, dtor, run>>
      /\ buf' = buf
  BY <1>1 DEF BtFillBlock, Goto, Threads, syncFlags, events, data
<1>4. PRole("btSync")' = PRole("btSync") /\ CRole("btSync")' = CRole("btSync") /\ PRole("hashSync")' = PRole("hashSync")
  BY <1>2, <1>3 DEF PRole, PRoleOf, CRole, Producer, Consumer, SearchLabels, FillLabels, EndLabels,
     GetLabels, StopLabels
<1>5. Aside("btSync") /\ LinkInv("hashSync")' /\ Owners'
  <2>1. CASE needStart["hashSync"]
    <3>1. UNCHANGED lock /\ ~Running("hashSync")
      BY <2>1 DEF BtFillBlock, LockCurrent, Running
    <3>2. Aside("btSync") /\ Aside("hashSync")
      BY <1>3, <3>1 DEF Aside, syncFlags, events, semaphores, lock
    <3> QED
      BY <1>3, <3>1, <3>2, LinkAside, OwnersAside DEF IInv, Syncs, Producer, Consumer, ConsumerRests
  <2>2. CASE ~needStart["hashSync"]
    <3>1. Lock("hashSync", "BT") /\ Running("hashSync") /\ RunningLink("hashSync")
      BY <1>2, <2>2 DEF BtFillBlock, LockCurrent, Running, IInv, LinkInv
    <3>2. Aside("btSync") /\ csWasEntered'["hashSync"]
      BY <1>1, <1>3, <3>1 DEF Aside, Lock, Set, LinkTypes, Syncs, syncFlags, events, semaphores
    <3>3. CRole("hashSync") = "outside" /\ CRole("hashSync")' = "inside"
      BY <1>2, <1>3 DEF CRole, CRoleOf, Consumer, InsideLabels, OutsideLabels
    <3>4. RunningLink("hashSync")'
      BY <1>1, <1>3, <1>4, <3>1, <3>2, <3>3, Lock_Link DEF Syncs
    <3> QED
      BY <1>1, <1>3, <3>1, <3>2, <3>4, LinkRuns, LockOwners DEF IInv, Syncs, LinkTypes, Consumer
  <2> QED
    BY <2>1, <2>2
<1>6. LinkInv("btSync")' /\ Running("btSync")'
  BY <1>2, <1>3, <1>4, <1>5, LinkStays DEF IInv, Syncs
<1>7. Nested'
  BY <1>2, <1>3, NestedAside DEF IInv, semaphores
<1>8. Main'
  BY <1>1, <1>2, <1>3, <1>6, LzInRun, MainRunning DEF IInv, LinkTypes
<1> QED
  BY <1>5, <1>6, <1>7, <1>8 DEF Links

\* A block of matches is made, and the block of hash heads unlocked.
LEMMA PutMatches_Inv ==
  ASSUME IInv, NEW failed \in BOOLEAN, PutMatches(failed), pc["BT"] \in {"getMatches", "gotBlock"}
  PROVE  Links' /\ Owners' /\ Nested' /\ Main'
<1>1. LinkTypes /\ DataTypes /\ DOMAIN pc = Threads /\ ConsumerOf("hashSync") /\ ProducerOf("btSync")
  BY BtCalls, Types DEF IInv, ConsumerOf
<1>2. Running("btSync") /\ RunningLink("btSync") /\ dtor = "no" /\ Unlock("hashSync")
  BY BtActive DEF IInv, PutMatches
<1>3. Running("hashSync") /\ RunningLink("hashSync")
  BY <1>1, <1>2 DEF IInv, LinkInv, QuietLink, AbsentLink, Unlock, Running, LinkTypes, Syncs
<1>4. /\ wasCreated' = wasCreated /\ csWasInitialized' = csWasInitialized /\ needStart' = needStart
      /\ dtor' = dtor /\ run' = run /\ pc'["LZ"] = pc["LZ"] /\ pc'["HASH"] = pc["HASH"]
      /\ pc'["BT"] = "releaseFilled" /\ wasStopped' = wasStopped
      /\ UNCHANGED <<numProcessedBlocks, syncFlags, events, semaphores, dtor, run>>
      /\ blockIndex'["hashSync"] = blockIndex["hashSync"] /\ buf'["hashSync"] = buf["hashSync"]
      /\ csWasEntered'["btSync"] = csWasEntered["btSync"] /\ ~csWasEntered'["hashSync"]
  BY <1>1 DEF PutMatches, PutBlock, Unlock, Set, Goto, Threads, LinkTypes, DataTypes, Producer, Syncs,
     syncFlags, events
<1>5. /\ PRole("btSync") = "fill" /\ CRole("btSync")' = CRole("btSync") /\ PRole("hashSync")' = PRole("hashSync")
      /\ CRole("hashSync") = "inside" /\ CRole("hashSync")' = "outside"
  BY <1>4 DEF PRole, PRoleOf, CRole, CRoleOf, Producer, Consumer, SearchLabels, FillLabels, EndLabels,
     GetLabels,
     StopLabels, InsideLabels, OutsideLabels
<1>6. RunningLink("btSync")'
  BY <1>1, <1>2, <1>4, <1>5, PutBlock_Link DEF PutMatches, Syncs
<1>7. RunningLink("hashSync")'
  BY <1>1, <1>3, <1>4, <1>5, Lock_Link DEF Syncs
<1>8. Links' /\ Running("btSync")'
  BY <1>2, <1>3, <1>4, <1>6, <1>7, LinkRuns DEF IInv, Links, Syncs
<1>9. Owners'
  BY <1>1, <1>2, <1>4, UnlockOwners DEF IInv, LinkTypes, Syncs
<1>10. Nested'
  BY <1>3, <1>4, NestedAside DEF IInv, semaphores, Running, RunningLink, Signals
<1>11. Main'
  BY <1>1, <1>2, <1>4, <1>8, LzInRun, MainRunning DEF IInv, LinkTypes
<1> QED
  BY <1>8, <1>9, <1>10, <1>11

-------------------------------------------------------------------------------
(* The steps of the HASH thread.                                            *)

\* The HASH thread looks for a free slot, and moves the window before it does.
LEMMA HashSearch_Inv ==
  ASSUME IInv, {pc["HASH"], pc'["HASH"]} \subseteq SearchLabels, Goto("HASH", pc'["HASH"]),
         UNCHANGED <<numProcessedBlocks, syncFlags, events, semaphores, csWasEntered, data, blockIndex,
                     dtor, run, length>>,
         Owners'
  PROVE  Links' /\ Owners' /\ Nested' /\ Main'
<1>1. LinkTypes /\ DOMAIN pc = Threads
  BY BtCalls DEF IInv, ProducerOf
<1>2. /\ Running("hashSync") /\ RunningLink("hashSync")
      /\ Running("btSync") /\ RunningLink("btSync") /\ dtor = "no"
  BY HashActive DEF IInv, SearchLabels, Nested, LinkInv, RunningLink, Signals
<1>3. /\ wasCreated' = wasCreated /\ csWasInitialized' = csWasInitialized /\ needStart' = needStart
      /\ pc'["LZ"] = pc["LZ"] /\ pc'["BT"] = pc["BT"]
  BY <1>1 DEF Goto, Threads, syncFlags
<1>4. Aside("hashSync") /\ Aside("btSync")
  BY DEF Aside, syncFlags, events, semaphores, data
<1>5. /\ PRole("btSync")' = PRole("btSync") /\ CRole("btSync")' = CRole("btSync")
      /\ PRole("hashSync")' = PRole("hashSync") /\ CRole("hashSync")' = CRole("hashSync")
  BY <1>3 DEF PRole, PRoleOf, CRole, Producer, Consumer
<1>6. Links' /\ Running("btSync")'
  BY <1>2, <1>4, <1>5, LinkStays DEF IInv, Links, Syncs
<1>7. Nested'
  BY <1>3, NestedAside DEF IInv, semaphores, events
<1>8. Main'
  BY <1>1, <1>2, <1>3, <1>6, LzInRun, MainRunning DEF IInv, LinkTypes
<1> QED
  BY <1>6, <1>7, <1>8

LEMMA HashSearches ==
  ASSUME IInv, HashLoop \/ HashEntersBt \/ HashEntersHash \/ MoveBlock \/ HashLeavesBt
  PROVE  Links' /\ Owners' /\ Nested' /\ Main'
<1>1. LinkTypes /\ DOMAIN pc = Threads
  BY BtCalls DEF IInv, ProducerOf
<1>2. CASE HashLoop
  <2>1. /\ {pc["HASH"], pc'["HASH"]} \subseteq SearchLabels /\ Goto("HASH", pc'["HASH"])
        /\ pc["HASH"] = "loop" /\ pc'["HASH"] \in {"waitFree", "enterBt"}
    BY <1>1, <1>2 DEF HashLoop, Goto, Threads, SearchLabels
  <2>2. Owners'
    BY <1>2, <2>1 DEF IInv, Owners, HashLoop, lock
  <2> QED
    BY <1>2, <2>1, <2>2, HashSearch_Inv DEF HashLoop, lock
<1>3. CASE HashEntersBt
  <2>1. /\ {pc["HASH"], pc'["HASH"]} \subseteq SearchLabels /\ Goto("HASH", pc'["HASH"])
        /\ pc["HASH"] = "enterBt" /\ pc'["HASH"] = "enterHash"
    BY <1>1, <1>3 DEF HashEntersBt, Goto, Threads, SearchLabels
  <2>2. Owners'
    BY <1>1, <1>3, <2>1 DEF IInv, Owners, HashEntersBt, EnterBt, Enter, Set, LinkTypes, Syncs,
       Consumer, NoThread
  <2> QED
    BY <1>3, <2>1, <2>2, HashSearch_Inv DEF HashEntersBt
<1>4. CASE HashEntersHash
  <2>1. /\ {pc["HASH"], pc'["HASH"]} \subseteq SearchLabels /\ Goto("HASH", pc'["HASH"])
        /\ pc["HASH"] = "enterHash" /\ pc'["HASH"] = "move"
    BY <1>1, <1>4 DEF HashEntersHash, Goto, Threads, SearchLabels
  <2>2. Owners'
    BY <1>1, <1>4, <2>1 DEF IInv, Owners, HashEntersHash, Enter, Set, LinkTypes, Syncs, Consumer,
       NoThread
  <2> QED
    BY <1>4, <2>1, <2>2, HashSearch_Inv DEF HashEntersHash
<1>5. CASE MoveBlock
  <2>1. /\ {pc["HASH"], pc'["HASH"]} \subseteq SearchLabels /\ Goto("HASH", pc'["HASH"])
        /\ pc["HASH"] = "move" /\ pc'["HASH"] = "leaveBt"
    BY <1>1, <1>5 DEF MoveBlock, Goto, Threads, SearchLabels
  <2>2. Owners'
    BY <1>1, <1>5, <2>1 DEF IInv, Owners, MoveBlock, Set, LinkTypes, Syncs, Consumer, NoThread
  <2> QED
    BY <1>5, <2>1, <2>2, HashSearch_Inv DEF MoveBlock
<1>6. CASE HashLeavesBt
  <2>1. /\ {pc["HASH"], pc'["HASH"]} \subseteq SearchLabels /\ Goto("HASH", pc'["HASH"])
        /\ pc["HASH"] = "leaveBt" /\ pc'["HASH"] = "waitFree"
    BY <1>1, <1>6 DEF HashLeavesBt, Goto, Threads, SearchLabels
  <2>2. Owners'
    BY <1>1, <1>6, <2>1 DEF IInv, Owners, HashLeavesBt, Set, LinkTypes, Syncs, Consumer, NoThread
  <2> QED
    BY <1>6, <2>1, <2>2, HashSearch_Inv DEF HashLeavesBt
<1> QED
  BY <1>2, <1>3, <1>4, <1>5, <1>6

LEMMA HashFill_Inv ==
  ASSUME IInv, HashFill
  PROVE  Links' /\ Owners' /\ Nested' /\ Main'
<1>1. LinkTypes /\ DataTypes /\ DOMAIN pc = Threads /\ ProducerOf("hashSync")
  BY BtCalls, Types DEF IInv, ProducerOf
<1>2. /\ Running("hashSync") /\ RunningLink("hashSync") /\ pc["HASH"] = "fill"
      /\ Running("btSync") /\ RunningLink("btSync") /\ dtor = "no"
  BY HashActive DEF IInv, HashFill, Nested, LinkInv, RunningLink, Signals
<1>3. /\ wasCreated' = wasCreated /\ csWasInitialized' = csWasInitialized /\ needStart' = needStart
      /\ dtor' = dtor /\ run' = run /\ pc'["LZ"] = pc["LZ"] /\ pc'["BT"] = pc["BT"]
      /\ pc'["HASH"] = "releaseFilled" /\ wasStopped' = wasStopped
      /\ UNCHANGED <<numProcessedBlocks, syncFlags, events, semaphores, lock, dtor, run>>
      /\ blockIndex'["btSync"] = blockIndex["btSync"] /\ buf'["btSync"] = buf["btSync"]
  BY <1>1 DEF HashFill, PutBlock, Goto, Threads, LinkTypes, DataTypes, Producer, Syncs, syncFlags,
     events
<1>4. PRole("hashSync") = "fill" /\ CRole("hashSync")' = CRole("hashSync")
  BY <1>2, <1>3, ProducerRoles DEF PRole, CRole, Producer, Consumer, Syncs
<1>5. RunningLink("hashSync")'
  BY <1>1, <1>2, <1>3, <1>4, PutBlock_Link DEF HashFill, Syncs, lock
<1>6. LinkInv("hashSync")'
  BY <1>2, <1>3, <1>5, LinkRuns DEF IInv, Syncs
<1>7. Aside("btSync")
  BY <1>3 DEF Aside, syncFlags, events, semaphores, lock
<1>8. LinkInv("btSync")' /\ Running("btSync")'
  BY <1>2, <1>3, <1>7, LinkRests DEF IInv, Syncs, Producer, Consumer
<1>9. Owners'
  BY <1>2, <1>3 DEF IInv, Owners, lock
<1>10. Nested'
  BY <1>2, <1>3, NestedAside DEF IInv, semaphores
<1>11. Main'
  BY <1>1, <1>2, <1>3, <1>8, LzInRun, MainRunning DEF IInv, LinkTypes
<1> QED
  BY <1>6, <1>8, <1>9, <1>10, <1>11 DEF Links


-------------------------------------------------------------------------------
(* The LZ thread outside the calls on a running link.                       *)

\* No link runs while the LZ thread destroys them.
LEMMA NoneRuns ==
  ASSUME IInv, dtor # "no" \/ pc["LZ"] \in {"idle", "created", "finish"}
  PROVE  \A s \in Syncs : ~Running(s)
BY DEF IInv, Main, LinkInv, RunningLink, Signals, Nested, Syncs

\* A link that does not run stays as it is; the LZ thread may tell its producer to end.
LEMMA LinkIdle ==
  ASSUME NEW s \in Syncs, LinkInv(s), ~Running(s),
         wasCreated'[s] = wasCreated[s], needStart'[s] = needStart[s],
         csWasInitialized'[s] = csWasInitialized[s], csWasEntered'[s] = csWasEntered[s],
         wasStopped'[s] = wasStopped[s],
         \/ canStart'[s] = canStart[s] /\ exit'[s] = exit[s]
         \/ exit'[s] /\ dtor' # "no",
         pc'[Producer(s)] = pc[Producer(s)], pc'[Consumer(s)] \in ConsumerRests(s),
         dtor' = dtor \/ dtor' # "no"
  PROVE  LinkInv(s)' /\ ~Running(s)'
BY DEF LinkInv, Running, QuietLink, AbsentLink

\* Both links, in a step of the LZ thread alone.
LEMMA LinksIdle ==
  ASSUME IInv, \A s \in Syncs : ~Running(s), Goto("LZ", pc'["LZ"]),
         pc'["LZ"] \in ConsumerRests("btSync"), dtor' = dtor \/ dtor' # "no",
         \A s \in Syncs :
           /\ wasCreated'[s] = wasCreated[s] /\ needStart'[s] = needStart[s]
           /\ csWasInitialized'[s] = csWasInitialized[s] /\ csWasEntered'[s] = csWasEntered[s]
           /\ wasStopped'[s] = wasStopped[s]
           /\ \/ canStart'[s] = canStart[s] /\ exit'[s] = exit[s]
              \/ exit'[s] /\ dtor' # "no"
  PROVE  /\ Links' /\ Nested' /\ \A s \in Syncs : ~Running(s)'
         /\ pc'["BT"] = pc["BT"] /\ pc'["HASH"] = pc["HASH"]
<1>1. DOMAIN pc = Threads /\ pc'["BT"] = pc["BT"] /\ pc'["HASH"] = pc["HASH"]
  BY DEF IInv, TypeOK, Goto, Threads
<1>2. pc["BT"] \in ConsumerRests("hashSync")
  BY DEF IInv, LinkInv, Running, QuietLink, AbsentLink, Syncs, Consumer
<1>3. LinkInv("btSync")' /\ ~Running("btSync")'
  BY <1>1, LinkIdle DEF IInv, Syncs, Producer, Consumer
<1>4. LinkInv("hashSync")' /\ ~Running("hashSync")'
  BY <1>1, <1>2, LinkIdle DEF IInv, Syncs, Producer, Consumer
<1>5. Nested'
  BY <1>3, <1>4 DEF IInv, Nested, Syncs
<1> QED
  BY <1>1, <1>3, <1>4, <1>5 DEF Links, Syncs

LEMMA MatchFinderMt_Create_Inv ==
  ASSUME IInv, MatchFinderMt_Create
  PROVE  Links' /\ Owners' /\ Nested' /\ Main'
<1>1. pc["LZ"] = "idle" /\ run < MaxRuns /\ dtor = "no" /\ \A s \in Syncs : ~Running(s)
  BY NoneRuns DEF MatchFinderMt_Create, IInv, TypeOK, Main, MainPlaces, Syncs
<1>2. PICK failing \in {"none"} \cup {s \in Syncs : ~wasCreated[s]} :
        LET reached == IF failing = "hashSync" THEN {"hashSync"} ELSE Syncs
            new == {s \in reached : ~wasCreated[s]}
            started == new \ {failing}
        IN /\ wasCreated' = [s \in Syncs |-> wasCreated[s] \/ s \in started]
           /\ csWasInitialized' = wasCreated'
           /\ needStart' = [s \in Syncs |-> needStart[s] \/ s \in new]
           /\ exit' = [s \in Syncs |-> exit[s] \/ s \in new]
           /\ pc' = [t \in Threads |->
                       IF t = "LZ" THEN (IF failing = "none" THEN "created" ELSE "idle")
                       ELSE IF \E s \in started : t = Producer(s) THEN "waitStart"
                       ELSE pc[t]]
  BY DEF MatchFinderMt_Create
<1> DEFINE reached == IF failing = "hashSync" THEN {"hashSync"} ELSE Syncs
           new == {s \in reached : ~wasCreated[s]}
           started == new \ {failing}
<1>3. /\ \A s \in Syncs : /\ wasCreated'[s] = (wasCreated[s] \/ s \in started)
                          /\ csWasInitialized'[s] = wasCreated'[s]
                          /\ needStart'[s] = (needStart[s] \/ s \in new)
                          /\ exit'[s] = (exit[s] \/ s \in new)
                          /\ pc'[Producer(s)] = IF s \in started THEN "waitStart" ELSE pc[Producer(s)]
      /\ pc'["LZ"] = IF failing = "none" THEN "created" ELSE "idle"
  BY <1>2 DEF Threads, Producer, Syncs
<1>4. /\ UNCHANGED <<canStart, wasStopped, csWasEntered, cs>> /\ dtor' = dtor /\ run' = run
      /\ started \subseteq new /\ \A s \in new : ~wasCreated[s]
  BY DEF MatchFinderMt_Create, events, lock
<1>5. \A s \in Syncs : pc'[Consumer(s)] \in ConsumerRests(s)
  <2>1. pc'["LZ"] \in ConsumerRests("btSync")
    BY <1>3 DEF ConsumerRests
  <2>2. pc["BT"] \in ConsumerRests("hashSync")
    BY <1>1 DEF IInv, LinkInv, Running, QuietLink, AbsentLink, Syncs, Consumer
  <2>3. pc'["BT"] \in ConsumerRests("hashSync")
    BY <1>3, <2>2 DEF ConsumerRests, Producer, Syncs
  <2> QED
    BY <2>1, <2>3 DEF Consumer, Syncs
<1>6. \A s \in Syncs : LinkInv(s)' /\ ~Running(s)'
  <2> TAKE s \in Syncs
  <2>1. LinkInv(s) /\ ~Running(s)
    BY <1>1 DEF IInv, Syncs
  <2>2. CASE wasCreated[s]
    <3>1. QuietLink(s) /\ needStart[s]
      BY <2>1, <2>2 DEF LinkInv, Running
    <3>2. s \notin new
      BY <1>4, <2>2
    <3>3. QuietLink(s)' /\ needStart'[s] /\ wasCreated'[s]
      BY <1>3, <1>4, <1>5, <2>2, <3>1, <3>2 DEF QuietLink
    <3> QED
      BY <1>3, <3>3 DEF LinkInv, Running
  <2>3. CASE ~wasCreated[s]
    <3>1. pc[Producer(s)] = "none" /\ ~canStart[s] /\ ~wasStopped[s] /\ ~csWasEntered[s]
      BY <1>1, <2>1, <2>3 DEF LinkInv, AbsentLink
    <3>2. CASE s \in started
      <4>1. QuietLink(s)' /\ needStart'[s] /\ wasCreated'[s]
        BY <1>3, <1>4, <1>5, <3>1, <3>2 DEF QuietLink
      <4> QED
        BY <1>3, <4>1 DEF LinkInv, Running
    <3>3. CASE s \notin started
      <4>1. AbsentLink(s)' /\ ~wasCreated'[s]
        BY <1>3, <1>4, <1>5, <2>3, <3>1, <3>3 DEF AbsentLink
      <4> QED
        BY <1>3, <4>1 DEF LinkInv, Running
    <3> QED
      BY <3>2, <3>3
  <2> QED
    BY <2>2, <2>3
<1>7. Owners'
  <2>1. pc'["HASH"] = pc["HASH"] \/ {pc["HASH"], pc'["HASH"]} \subseteq {"none", "waitStart"}
    BY <1>1, <1>3, <1>4 DEF IInv, LinkInv, AbsentLink, Producer, Syncs
  <2> QED
    BY <1>4, <2>1 DEF IInv, Owners
<1>8. wasCreated'["btSync"] => wasCreated'["hashSync"]
  BY <1>2, <1>3 DEF IInv, Nested, Syncs
<1>9. Nested'
  BY <1>6, <1>8 DEF Nested, Syncs
<1>10. pc'["LZ"] = "created" => \A s \in Syncs : wasCreated'[s]
  <2> SUFFICES ASSUME failing = "none", NEW s \in Syncs
               PROVE  wasCreated'[s]
    BY <1>3
  <2>1. wasCreated[s] \/ s \in started
    BY DEF Syncs
  <2> QED
    BY <1>3, <2>1
<1>11. Main'
  BY <1>1, <1>3, <1>4, <1>6, <1>10 DEF Main, MainPlaces
<1> QED
  BY <1>6, <1>7, <1>9, <1>11 DEF Links, Syncs

LEMMA MatchFinderMt_InitMt_Inv ==
  ASSUME IInv, MatchFinderMt_InitMt
  PROVE  Links' /\ Owners' /\ Nested' /\ Main'
<1>1. /\ pc["LZ"] = "created" /\ dtor = "no" /\ \A s \in Syncs : ~Running(s)
      /\ \A s \in Syncs : wasCreated[s]
  BY NoneRuns DEF MatchFinderMt_InitMt, IInv, TypeOK, Main, MainPlaces, Syncs
<1>2. /\ Goto("LZ", "encode") /\ pc'["LZ"] = "encode" /\ dtor' = dtor
      /\ UNCHANGED <<syncFlags, events, lock>>
      /\ \A s \in Syncs : freeSemaphore'[s] = NumBlocks(s) /\ filledSemaphore'[s] = 0
  BY DEF MatchFinderMt_InitMt, SemaphoresInit, Goto, IInv, TypeOK, Threads
<1>3. /\ Links' /\ Nested' /\ (\A s \in Syncs : ~Running(s)')
      /\ pc'["BT"] = pc["BT"] /\ pc'["HASH"] = pc["HASH"]
  BY <1>1, <1>2, LinksIdle DEF ConsumerRests, syncFlags, events, lock
<1>4. Owners'
  BY <1>2, <1>3, OwnersAside DEF IInv
<1>5. Main'
  BY <1>1, <1>2 DEF Main, MainPlaces, Fresh, syncFlags
<1> QED
  BY <1>3, <1>4, <1>5

LEMMA InitMtFails_Inv ==
  ASSUME IInv, InitMtFails
  PROVE  Links' /\ Owners' /\ Nested' /\ Main'
<1>1. pc["LZ"] = "created" /\ dtor = "no" /\ \A s \in Syncs : ~Running(s)
  BY NoneRuns DEF InitMtFails, IInv, TypeOK, Main, MainPlaces, Syncs
<1>2. /\ Goto("LZ", "finish") /\ pc'["LZ"] = "finish" /\ dtor' = dtor
      /\ UNCHANGED <<syncFlags, events, lock>>
  BY DEF InitMtFails, Goto, IInv, TypeOK, Threads
<1>3. /\ Links' /\ Nested' /\ (\A s \in Syncs : ~Running(s)')
      /\ pc'["BT"] = pc["BT"] /\ pc'["HASH"] = pc["HASH"]
  BY <1>1, <1>2, LinksIdle DEF ConsumerRests, syncFlags, events, lock
<1>4. Owners'
  BY <1>2, <1>3, OwnersAside DEF IInv
<1>5. Main'
  BY <1>1, <1>2, <1>3 DEF Main, MainPlaces
<1> QED
  BY <1>3, <1>4, <1>5

\* The encoder goes on with the block it has, or releases the stream.
LEMMA Encoder_Inv ==
  ASSUME IInv, ReadHeader \/ ReleaseStream
  PROVE  Links' /\ Owners' /\ Nested' /\ Main'
<1>1. LinkTypes /\ DOMAIN pc = Threads
  BY Types DEF IInv, ThreadTypes
<1>2. /\ UNCHANGED <<numProcessedBlocks, syncFlags, events, semaphores, lock, buf, blockIndex, dtor, run>>
      /\ Goto("LZ", pc'["LZ"]) /\ pc'["BT"] = pc["BT"] /\ pc'["HASH"] = pc["HASH"]
      /\ \/ pc["LZ"] = "gotBlock" /\ pc'["LZ"] = "encode"
         \/ pc["LZ"] \in {"encode", "finish"} /\ pc'["LZ"] = "stopCall"
  BY <1>1 DEF ReadHeader, ReleaseStream, Goto, Threads, data
<1>3. dtor = "no"
  BY <1>2 DEF IInv, TypeOK, Main, MainPlaces, Syncs, ConsumerLabels
<1>4. Aside("btSync") /\ Aside("hashSync") /\ dtor' = dtor /\ run' = run
  BY <1>2 DEF Aside, syncFlags, events, semaphores, lock
<1>5. Owners' /\ Nested'
  BY <1>2, OwnersAside, NestedAside DEF IInv, syncFlags, semaphores, events
<1>6. LinkInv("hashSync")'
  BY <1>2, <1>4, LinkRests DEF IInv, Syncs, Producer, Consumer
<1>7. CASE Running("btSync")
  <2>1. PRole("btSync")' = PRole("btSync") /\ CRole("btSync")' = CRole("btSync")
    <3>1. pc["LZ"] # "finish"
      BY <1>7 DEF IInv, LinkInv, RunningLink, Signals, CRole, CRoleOf, Consumer, InsideLabels,
         OutsideLabels
    <3> QED
      BY <1>2, <3>1 DEF PRole, CRole, CRoleOf, Producer, Consumer, InsideLabels
  <2>2. LinkInv("btSync")' /\ Running("btSync")'
    BY <1>4, <1>7, <2>1, LinkStays DEF IInv, Syncs
  <2>3. Main'
    BY <1>1, <1>2, <1>3, <1>7, <2>2, MainRunning DEF IInv, ConsumerLabels, LinkTypes, syncFlags
  <2> QED
    BY <1>5, <1>6, <2>2, <2>3 DEF Links
<1>8. CASE ~Running("btSync")
  <2>1. pc["LZ"] # "gotBlock" /\ pc'["LZ"] = "stopCall"
    BY <1>2, <1>8, LzOnBt DEF IInv
  <2>2. LinkInv("btSync")'
    BY <1>2, <1>4, <1>8, <2>1, LinkAside DEF IInv, Syncs, Producer, Consumer, ConsumerRests
  <2>3. Main'
    BY <1>3, <1>4, <2>1 DEF Main, MainPlaces, ConsumerLabels
  <2> QED
    BY <1>5, <1>6, <2>2, <2>3 DEF Links
<1> QED
  BY <1>7, <1>8

\* MatchFinderMt_Destruct, but for the threads that end and the links that are closed.
LEMMA Destruct_Inv ==
  ASSUME IInv, MatchFinderMt_Destruct \/ Released \/ Join
  PROVE  Links' /\ Owners' /\ Nested' /\ Main'
<1>1. DOMAIN pc = Threads /\ dtor \in {"no", "release", "btSync", "hashSync"} /\ Main
  BY DEF IInv, TypeOK, Syncs
<1>2. \A s \in Syncs : ~Running(s)
  BY <1>1, NoneRuns DEF MatchFinderMt_Destruct, Released, Join, Main, MainPlaces, ConsumerLabels
<1>3. /\ UNCHANGED <<syncFlags, events, lock>> /\ Goto("LZ", pc'["LZ"])
      /\ pc'["LZ"] \in {"stopCall", "close"} /\ (dtor' = dtor \/ dtor' # "no")
  BY <1>1 DEF MatchFinderMt_Destruct, Released, Join, BeginDestruct, Goto, Threads
<1>4. /\ Links' /\ Nested' /\ (\A s \in Syncs : ~Running(s)')
      /\ pc'["BT"] = pc["BT"] /\ pc'["HASH"] = pc["HASH"]
  BY <1>2, <1>3, LinksIdle DEF ConsumerRests, syncFlags, events, lock
<1>5. Owners'
  BY <1>3, <1>4, OwnersAside DEF IInv
<1>6. CASE MatchFinderMt_Destruct
  <2>1. dtor' = "release" /\ pc'["LZ"] = "stopCall"
    BY <1>1, <1>6 DEF MatchFinderMt_Destruct, Goto, Threads
  <2> QED
    BY <1>4, <1>5, <2>1 DEF Main, MainPlaces
<1>7. CASE Released
  <2>1. dtor' = "btSync" /\ pc'["LZ"] = IF wasCreated["btSync"] THEN "stopCall" ELSE "close"
    BY <1>1, <1>7 DEF Released, BeginDestruct, Goto, Threads
  <2>2. ~wasCreated["btSync"] => pc["BT"] \in {"none", "done"}
    BY DEF IInv, LinkInv, AbsentLink, Producer
  <2> QED
    BY <1>3, <1>4, <1>5, <2>1, <2>2 DEF Main, MainPlaces, Producer
<1>8. CASE Join
  <2>1. /\ dtor' = dtor /\ dtor \in Syncs /\ pc'["LZ"] = "close" /\ pc["LZ"] = "join"
        /\ pc[Producer(dtor)] = "done"
    BY <1>1, <1>8 DEF Join, Goto, Threads, Main, MainPlaces, Syncs, ConsumerLabels
  <2>2. pc'[Producer(dtor)] = "done"
    BY <1>4, <2>1 DEF Producer
  <2> QED
    BY <1>1, <1>3, <1>4, <1>5, <2>1, <2>2 DEF Main, MainPlaces, Syncs, syncFlags
<1> QED
  BY <1>6, <1>7, <1>8

LEMMA SendExit_Inv ==
  ASSUME IInv, SendExit
  PROVE  Links' /\ Owners' /\ Nested' /\ Main'
<1>1. LinkTypes /\ DOMAIN pc = Threads /\ dtor \in Syncs /\ dtor # "no"
  BY Types DEF IInv, ThreadTypes, SendExit, Syncs
<1>2. \A s \in Syncs : ~Running(s)
  BY <1>1, NoneRuns
<1>3. /\ UNCHANGED <<wasCreated, csWasInitialized, needStart, wasStopped, lock>> /\ Goto("LZ", pc'["LZ"])
      /\ pc'["LZ"] = "join" /\ dtor' = dtor
      /\ \A s \in Syncs : \/ canStart'[s] = canStart[s] /\ exit'[s] = exit[s]
                          \/ exit'[s]
  BY <1>1 DEF SendExit, Goto, Threads, Set, LinkTypes
<1>4. /\ Links' /\ Nested' /\ (\A s \in Syncs : ~Running(s)')
      /\ pc'["BT"] = pc["BT"] /\ pc'["HASH"] = pc["HASH"]
  BY <1>1, <1>2, <1>3, LinksIdle DEF ConsumerRests, lock
<1>5. Owners'
  BY <1>3, <1>4, OwnersAside DEF IInv
<1>6. Main'
  BY <1>1, <1>3, <1>4 DEF IInv, Main, MainPlaces, Syncs
<1> QED
  BY <1>4, <1>5, <1>6

LEMMA Close_Inv ==
  ASSUME IInv, Close
  PROVE  Links' /\ Owners' /\ Nested' /\ Main'
<1>1. LinkTypes /\ DOMAIN pc = Threads /\ dtor \in Syncs /\ dtor # "no" /\ pc["LZ"] = "close"
  BY Types DEF IInv, ThreadTypes, Close, Main, MainPlaces, ConsumerLabels, Syncs
<1>2. /\ \A s \in Syncs : ~Running(s)
      /\ pc[Producer(dtor)] \in {"none", "done"}
      /\ dtor = "hashSync" => ~wasCreated["btSync"]
  BY <1>1, NoneRuns DEF IInv, Main
<1>3. \A s \in Syncs : /\ pc[Consumer(s)] \in ConsumerRests(s) /\ ~csWasEntered[s]
                       /\ ~wasCreated[s] => pc[Producer(s)] \in {"none", "done"}
  <2> TAKE s \in Syncs
  <2>1. LinkInv(s) /\ ~Running(s)
    BY <1>2 DEF IInv, Syncs
  <2> QED
    BY <2>1 DEF LinkInv, Running, QuietLink, AbsentLink
<1>4. /\ UNCHANGED <<needStart, exit, events, cs>>
      /\ \A s \in Syncs : /\ csWasInitialized'[s] = (csWasInitialized[s] /\ s # dtor)
                          /\ wasCreated'[s] = (wasCreated[s] /\ s # dtor)
                          /\ csWasEntered'[s] = csWasEntered[s]
      /\ csWasEntered' = csWasEntered
      /\ pc'["BT"] = pc["BT"] /\ pc'["HASH"] = pc["HASH"]
      /\ dtor' = "hashSync"
      /\ pc'["LZ"] = IF dtor = "hashSync" THEN "destroyed"
                     ELSE IF wasCreated'["hashSync"] THEN "stopCall" ELSE "close"
  <2>1. /\ UNCHANGED <<needStart, exit, events, cs>>
        /\ \A s \in Syncs : /\ csWasInitialized'[s] = (csWasInitialized[s] /\ s # dtor)
                            /\ wasCreated'[s] = (wasCreated[s] /\ s # dtor)
    BY <1>1 DEF Close, Set, LinkTypes
  <2>2. csWasEntered' = csWasEntered
    BY <1>1, <1>3 DEF Close, Set, LinkTypes
  <2>3. /\ pc'["BT"] = pc["BT"] /\ pc'["HASH"] = pc["HASH"] /\ dtor' = "hashSync"
        /\ pc'["LZ"] = IF dtor = "hashSync" THEN "destroyed"
                       ELSE IF wasCreated["hashSync"] THEN "stopCall" ELSE "close"
    BY <1>1 DEF Close, BeginDestruct, Goto, Threads, Syncs
  <2>4. dtor = "btSync" => wasCreated'["hashSync"] = wasCreated["hashSync"]
    BY <1>1 DEF Close, Set, LinkTypes, Syncs
  <2> QED
    BY <1>1, <2>1, <2>2, <2>3, <2>4 DEF Syncs
<1>5. \A s \in Syncs : pc'[Consumer(s)] \in ConsumerRests(s) /\ pc'[Producer(s)] = pc[Producer(s)]
  BY <1>3, <1>4 DEF Consumer, Producer, ConsumerRests, Syncs
<1>6. \A s \in Syncs : LinkInv(s)' /\ ~Running(s)'
  <2> TAKE s \in Syncs
  <2>1. LinkInv(s) /\ ~Running(s)
    BY <1>2 DEF IInv, Syncs
  <2>2. CASE s = dtor
    <3>1. AbsentLink(s)' /\ ~wasCreated'[s] /\ ~csWasInitialized'[s]
      BY <1>2, <1>3, <1>4, <1>5, <2>2 DEF AbsentLink
    <3> QED
      BY <1>1, <1>4, <3>1 DEF LinkInv, Running
  <2>3. CASE s # dtor
    <3>1. /\ wasCreated'[s] = wasCreated[s] /\ csWasInitialized'[s] = csWasInitialized[s]
          /\ dtor' # "no" /\ wasStopped'[s] = wasStopped[s] /\ canStart'[s] = canStart[s]
      BY <1>1, <1>4, <2>3 DEF LinkTypes, events
    <3> QED
      BY <1>4, <1>5, <2>1, <3>1, LinkIdle
  <2> QED
    BY <2>2, <2>3
<1>7. Owners'
  BY <1>4, OwnersAside DEF IInv, lock
<1>8. Nested'
  BY <1>2, <1>4, <1>6 DEF IInv, Nested, Syncs
<1>9. Main'
  <2>1. ~wasCreated'["btSync"]
    BY <1>1, <1>2, <1>4 DEF Syncs
  <2>2. dtor = "hashSync" => ~wasCreated'["hashSync"]
    BY <1>1, <1>4
  <2>3. ~wasCreated'["hashSync"] => pc'["HASH"] \in {"none", "done"}
    BY <1>2, <1>3, <1>4 DEF Syncs, Producer
  <2> QED
    BY <1>4, <2>1, <2>2, <2>3 DEF Main, MainPlaces, Syncs, Producer
<1> QED
  BY <1>6, <1>7, <1>8, <1>9 DEF Links, Syncs

-------------------------------------------------------------------------------
(* The invariant.                                                           *)

LEMMA InitInv == Init => IInv
<1> SUFFICES ASSUME Init
             PROVE  IInv
  OBVIOUS
<1>1. \A s \in Syncs : Slot(s, 0) \in 0 .. NumBlocks(s) - 1 /\ NumBlocks(s) \in Nat \ {0}
  BY SlotType, LinkFacts
<1>2. NoBlock \in Blocks
  BY MtAssumption DEF NoBlock, Blocks
<1>3. LinkTypes /\ DataTypes
  BY <1>2 DEF Init, LinkTypes, DataTypes
<1>4. ThreadTypes
  BY MtAssumption DEF Init, ThreadTypes, Labels, Threads, ConsumerLabels, ProducerLabels
<1>5. \A s \in Syncs : LinkInv(s) /\ ~Running(s)
  <2> TAKE s \in Syncs
  <2>1. pc[Producer(s)] = "none" /\ pc[Consumer(s)] \in ConsumerRests(s)
    BY DEF Init, Producer, Consumer, ConsumerRests, Syncs, Threads
  <2> QED
    BY <2>1 DEF Init, LinkInv, Running, AbsentLink
<1>6. Owners
  BY DEF Init, Owners, Syncs, Threads, Consumer, NoThread
<1>7. Nested
  BY <1>5 DEF Init, Nested, Syncs
<1>8. Main
  BY <1>5 DEF Init, Main, MainPlaces, Threads, Syncs
<1> QED
  BY <1>3, <1>4, <1>5, <1>6, <1>7, <1>8, Types DEF IInv, Syncs

\* The steps of each thread.
LEMMA LzStepInv ==
  ASSUME IInv, LzStep
  PROVE  IInv'
<1>1. TypeOK /\ Main /\ "LZ" \in {"LZ", "BT"}
  BY DEF IInv
<1>2. CASE ConsumerStep("LZ")
  <2>1. TypeOK'
    BY <1>1, <1>2, SignalStart_Types, ReleaseFree_Types, WaitFilled_Types, LockBuffer_Types,
       StopWriting_Types, SetStop_Types, ReleaseStop_Types, WaitStopped_Types DEF ConsumerStep
  <2>2. Links' /\ Owners' /\ Nested' /\ Main'
    BY <1>2, SignalStart_Lz, ReleaseFree_Lz, WaitFilled_Lz, LockBuffer_Lz, StopWriting_Lz, SetStop_Lz,
       ReleaseStop_Lz, WaitStopped_Lz DEF ConsumerStep
  <2> QED
    BY <2>1, <2>2 DEF IInv, Links
<1>3. CASE ~ConsumerStep("LZ")
  <2>1. TypeOK'
    BY <1>1, <1>3, MatchFinderMt_Create_Types, MatchFinderMt_InitMt_Types, InitMtFails_Types,
       GetNextBlock_Bt_Types, ReadHeader_Types, ReleaseStream_Types, MatchFinderMt_Destruct_Types,
       Released_Types, SendExit_Types, Join_Types, Close_Types DEF LzStep
  <2>2. Links' /\ Owners' /\ Nested' /\ Main'
    BY <1>3, MatchFinderMt_Create_Inv, MatchFinderMt_InitMt_Inv, InitMtFails_Inv, GetNextBlock_LzInv,
       Encoder_Inv, Destruct_Inv, SendExit_Inv, Close_Inv DEF LzStep
  <2> QED
    BY <2>1, <2>2 DEF IInv, Links
<1> QED
  BY <1>2, <1>3

LEMMA BtStepInv ==
  ASSUME IInv, BtStep
  PROVE  IInv'
<1>1. TypeOK /\ Main /\ "BT" \in {"LZ", "BT"} /\ "btSync" \in Syncs
  BY DEF IInv, Syncs
<1>2. CASE ConsumerStep("BT")
  <2>1. TypeOK'
    BY <1>1, <1>2, SignalStart_Types, ReleaseFree_Types, WaitFilled_Types, LockBuffer_Types,
       StopWriting_Types, SetStop_Types, ReleaseStop_Types, WaitStopped_Types DEF ConsumerStep
  <2>2. Links' /\ Owners' /\ Nested' /\ Main'
    BY <1>2, SignalStart_Bt, ReleaseFree_Bt, WaitFilled_Bt, LockBuffer_Bt, StopWriting_Bt, SetStop_Bt,
       ReleaseStop_Bt, WaitStopped_Bt DEF ConsumerStep
  <2> QED
    BY <2>1, <2>2 DEF IInv, Links
<1>3. CASE ProducerStep("btSync")
  <2>1. TypeOK'
    BY <1>1, <1>3, WaitStart_Types, WaitFree_Types, ReleaseFilled_Types, Stopped_Types DEF ProducerStep
  <2>2. Links' /\ Owners' /\ Nested' /\ Main'
    BY <1>3, WaitStart_Bt, WaitFree_BtInv, ReleaseFilled_BtInv, Stopped_BtInv DEF ProducerStep
  <2> QED
    BY <2>1, <2>2 DEF IInv, Links
<1>4. CASE BtFailed \/ BtEndOfStream \/ BtMatchesFull \/ BtDataFailure
  <2>1. TypeOK'
    BY <1>1, <1>4, BtFailed_Types, BtEndOfStream_Types, BtMatchesFull_Types, BtDataFailure_Types
  <2>2. pc["BT"] \in {"getMatches", "gotBlock"} /\ \E failed \in BOOLEAN : PutMatches(failed)
    BY <1>4 DEF BtFailed, BtEndOfStream, BtMatchesFull, BtDataFailure
  <2>3. Links' /\ Owners' /\ Nested' /\ Main'
    BY <2>2, PutMatches_Inv
  <2> QED
    BY <2>1, <2>3 DEF IInv, Links
<1>5. CASE BtLoop \/ BtFillBlock \/ GetNextBlock_Hash \/ BtNewHeads \/ BtHeadsUsed
  <2>1. TypeOK'
    BY <1>1, <1>5, BtLoop_Types, BtFillBlock_Types, GetNextBlock_Hash_Types, BtNewHeads_Types,
       BtHeadsUsed_Types
  <2>2. Links' /\ Owners' /\ Nested' /\ Main'
    BY <1>5, BtLoop_Inv, BtFillBlock_Inv, GetNextBlock_BtInv, BtNewHeads_Inv, BtHeadsUsed_Inv
  <2> QED
    BY <2>1, <2>2 DEF IInv, Links
<1> QED
  BY <1>2, <1>3, <1>4, <1>5 DEF BtStep

LEMMA HashStepInv ==
  ASSUME IInv, HashStep
  PROVE  IInv'
<1>1. TypeOK /\ Main /\ "hashSync" \in Syncs
  BY DEF IInv, Syncs
<1>2. TypeOK'
  BY <1>1, WaitStart_Types, WaitFree_Types, ReleaseFilled_Types, Stopped_Types, HashLoop_Types,
     HashEntersBt_Types, HashEntersHash_Types, MoveBlock_Types, HashLeavesBt_Types, HashFill_Types
     DEF HashStep, ProducerStep
<1>3. Links' /\ Owners' /\ Nested' /\ Main'
  BY WaitStart_Hash, WaitFree_HashInv, ReleaseFilled_HashInv, Stopped_HashInv, HashSearches,
     HashFill_Inv
     DEF HashStep, ProducerStep
<1> QED
  BY <1>2, <1>3 DEF IInv, Links

LEMMA StutterInv ==
  ASSUME IInv, UNCHANGED vars
  PROVE  IInv'
<1>1. /\ UNCHANGED <<numProcessedBlocks, syncFlags, events, semaphores, lock, data>>
      /\ UNCHANGED <<pc, blockIndex, dtor, run, length>>
  BY DEF vars
<1>2. TypeOK'
  BY <1>1 DEF IInv, TypeOK, syncFlags, events, semaphores, lock, data
<1>3. Aside("btSync") /\ Aside("hashSync")
  BY <1>1 DEF Aside, syncFlags, events, semaphores, lock, data
<1>4. Links'
  BY <1>1, <1>3, LinkRests DEF IInv, Links, Syncs
<1>5. Owners' /\ Nested' /\ Main'
  BY <1>1 DEF IInv, Owners, Nested, Main, Running, Fresh, syncFlags, events, semaphores, lock
<1> QED
  BY <1>2, <1>4, <1>5 DEF IInv, Links

LEMMA StepInv ==
  ASSUME IInv, [Next]_vars
  PROVE  IInv'
BY LzStepInv, BtStepInv, HashStepInv, StutterInv DEF Next, Destroyed

\* The invariant holds of every execution.
THEOREM Invariance == Spec => []IInv
<1>1. IInv /\ [Next]_vars => IInv'
  BY StepInv
<1> QED
  BY <1>1, InitInv, PTL DEF Spec

-------------------------------------------------------------------------------
(* What the invariant says of the properties.                               *)

\* The type invariant of the links, the buffers and the threads of MatchFinderMt_*
\* (LzFindMt.c) holds in every state.
THEOREM TypeCorrect == Spec => []TypeOK
<1>1. IInv => TypeOK
  BY DEF IInv
<1> QED
  BY <1>1, Invariance, PTL

\* The block that the consumer of a link has is the next one, in its slot.
LEMMA HeldBlock ==
  ASSUME IInv, NEW s \in Syncs, HasBlock(s), ~stopWriting[s]
  PROVE  /\ buf[s][CurSlot(s)].run = run /\ buf[s][CurSlot(s)].index = numProcessedBlocks[s] - 1
         /\ Filling(s) /\ pc[Producer(s)] # "releaseFilled" => Slot(s, blockIndex[s]) # CurSlot(s)
<1>1. /\ Running(s) /\ Signals(s) /\ Slots(s) /\ Numbers(s) /\ InPlace(s)
      /\ CRole(s) \notin {"signalStart", "waitFilled", "waitStopped", "releaseFree"}
  <2>1. Running(s) /\ RunningLink(s)
    BY DEF HasBlock, IInv, LinkInv, Syncs
  <2>2. CRole(s) \notin {"signalStart", "waitFilled", "releaseFree"}
    BY ConsumerRoles DEF HasBlock, NoBlockYet, Freeing, CRole
  <2> QED
    BY <2>1, <2>2 DEF RunningLink, Signals
<1>2. ~Unstarted(s)
  BY <1>1 DEF Signals
<1>3. /\ numProcessedBlocks[s] \in Nat /\ filledSemaphore[s] \in Nat /\ freeSemaphore[s] \in Nat
      /\ blockIndex[s] \in Nat /\ NumBlocks(s) \in Nat \ {0}
  BY LinkFacts DEF IInv, TypeOK
<1>4. blockIndex[s] = numProcessedBlocks[s] + filledSemaphore[s] + Count(PRole(s) = "releaseFilled")
  BY <1>1, <1>2, <1>3 DEF Numbers, Count
<1>5. numProcessedBlocks[s] > 0 /\ blockIndex[s] >= numProcessedBlocks[s]
  BY <1>1, <1>3, <1>4 DEF Numbers, Count
<1>6. numProcessedBlocks[s] - 1 \in numProcessedBlocks[s] - 1 .. blockIndex[s] - 1
  BY <1>3, <1>5
<1>7. /\ buf[s][CurSlot(s)].run = run
      /\ buf[s][CurSlot(s)].index = numProcessedBlocks[s] - 1
  BY <1>1, <1>2, <1>6 DEF InPlace, CurSlot
<1>8. ASSUME Filling(s), pc[Producer(s)] # "releaseFilled"
      PROVE  Slot(s, blockIndex[s]) # CurSlot(s)
  <2>1. PRole(s) = "fill"
    BY <1>8 DEF Filling, PRole, PRoleOf, SearchLabels, FillLabels, GetLabels, Producer
  <2>2. blockIndex[s] = numProcessedBlocks[s] + filledSemaphore[s]
    BY <1>3, <1>4, <2>1 DEF Count
  <2>3. freeSemaphore[s] + filledSemaphore[s] + 1 + Count(Stopping(s)) + 1 = NumBlocks(s)
    BY <1>1, <2>1 DEF Slots, Count
  <2>4. filledSemaphore[s] + 2 <= NumBlocks(s)
    BY <1>3, <2>3 DEF Count
  <2> DEFINE i == numProcessedBlocks[s] - 1
  <2>5. i \in Nat /\ i < blockIndex[s] /\ blockIndex[s] < i + NumBlocks(s)
    BY <1>3, <1>5, <2>2, <2>4
  <2>6. Slot(s, i) # Slot(s, blockIndex[s])
    BY <1>3, <2>5, SlotsDiffer
  <2> QED
    BY <2>6 DEF CurSlot
<1> QED
  BY <1>7, <1>8

\* While the consumer of a ring has a block, its slot holds the block of this stream that
\* comes next, and the producer does not fill that slot (GET_HASH_BLOCK_OFFSET,
\* GET_BT_BLOCK_OFFSET), whatever the sizes of the rings.
THEOREM BlocksIntact == Spec => []BlockIntact
<1>1. IInv => BlockIntact
  BY HeldBlock DEF BlockIntact
<1> QED
  BY <1>1, Invariance, PTL

\* The slots of a running link that are not free.
LEMMA SlotsUsed ==
  ASSUME IInv, NEW s \in Syncs, Running(s)
  PROVE  /\ CRole(s) \in {"releaseFree", "releaseStop"} => freeSemaphore[s] < NumBlocks(s)
         /\ PRole(s) = "releaseFilled" => filledSemaphore[s] < NumBlocks(s)
         /\ PRole(s) = "releaseFilled" => filledSemaphore[s] + Count(Holding(s)) < NumBlocks(s)
         /\ ~stopWriting[s] =>
              freeSemaphore[s] + filledSemaphore[s] + Count(Filling(s)) + Count(~NoBlockYet(s))
                = NumBlocks(s)
<1>1. Signals(s) /\ Slots(s)
  BY DEF IInv, LinkInv, RunningLink, Syncs
<1>2. filledSemaphore[s] \in Nat /\ freeSemaphore[s] \in Nat /\ NumBlocks(s) \in Nat
  BY LinkFacts DEF IInv, TypeOK
<1> DEFINE f == Count(PRole(s) \in {"fill", "releaseFilled"})
           p == Count(Stopping(s))
           c == Count(CRole(s) \notin {"signalStart", "waitFilled", "waitStopped"})
<1>3. freeSemaphore[s] + filledSemaphore[s] + f + p + c = NumBlocks(s) /\ {f, p, c} \subseteq {0, 1}
  BY <1>1 DEF Slots, Count
<1>4. CRole(s) \in {"releaseFree", "releaseStop"} => c = 1
  BY DEF Count
<1>5. PRole(s) = "releaseFilled" => f = 1
  BY DEF Count
<1>6. Holding(s) <=> CRole(s) \notin {"signalStart", "waitFilled"}
  BY ConsumerRoles DEF Holding, NoBlockYet, CRole
<1>7. Holding(s) => c = 1 \/ freeSemaphore[s] > 0 \/ p = 1
  BY <1>1, <1>6 DEF Slots, Count
<1>8. ASSUME ~stopWriting[s]
      PROVE  p = 0 /\ c = Count(~NoBlockYet(s))
  <2>1. CRole(s) # "waitStopped" /\ ~Stopping(s)
    BY <1>1, <1>8 DEF Signals
  <2>2. NoBlockYet(s) <=> CRole(s) \in {"signalStart", "waitFilled", "waitStopped"}
    BY <2>1, ConsumerRoles DEF NoBlockYet, CRole
  <2> QED
    BY <2>1, <2>2 DEF Count
<1>9. f = Count(Filling(s))
  BY DEF Filling, Count, PRole, PRoleOf, SearchLabels, FillLabels, EndLabels, GetLabels, StopLabels,
     Producer
<1>10. Count(Holding(s)) \in {0, 1} /\ (Count(Holding(s)) = 1 => Holding(s))
  BY DEF Count
<1> HIDE DEF f, p, c
<1> QED
  BY <1>2, <1>3, <1>4, <1>5, <1>7, <1>8, <1>9, <1>10

\* The semaphores of a link count its free and filled slots exactly, and no release in
\* MtSync_GetNextBlock, MtSync_StopWriting or a thread function goes over the maximum of
\* the semaphore, where its failure would be overlooked.
THEOREM SemaphoresCount == Spec => []SemaphoresExact
<1>1. ASSUME IInv
      PROVE  SlotsCounted
  BY <1>1, SlotsUsed DEF SlotsCounted
<1>2. ASSUME IInv
      PROVE  NoReleaseRefused
  <2>1. ASSUME pc["LZ"] \in {"releaseFree", "releaseStop"}
        PROVE  freeSemaphore[CallSync("LZ")] < NumBlocks(CallSync("LZ"))
    <3>1. Running("btSync") /\ CallSync("LZ") = "btSync"
      BY <1>2, <2>1, LzOnBt DEF IInv, CallSync
    <3>2. CRole("btSync") \in {"releaseFree", "releaseStop"}
      BY <2>1, ConsumerRoles DEF CRole, Consumer, Syncs
    <3> QED
      BY <1>2, <3>1, <3>2, SlotsUsed DEF Syncs
  <2>2. ASSUME pc["BT"] \in {"releaseFree", "releaseStop"}
        PROVE  freeSemaphore[CallSync("BT")] < NumBlocks(CallSync("BT"))
    <3>1. Running("hashSync") /\ CallSync("BT") = "hashSync"
      BY <1>2, <2>2, BtOnHash DEF IInv, CallSync
    <3>2. CRole("hashSync") \in {"releaseFree", "releaseStop"}
      BY <2>2, ConsumerRoles DEF CRole, Consumer, Syncs
    <3> QED
      BY <1>2, <3>1, <3>2, SlotsUsed DEF Syncs
  <2>3. ASSUME NEW s \in Syncs, pc[Producer(s)] = "releaseFilled"
        PROVE  filledSemaphore[s] < NumBlocks(s)
    <3>1. Running(s)
      BY <1>2, <2>3, BtActive, HashActive DEF IInv, Producer, Syncs
    <3>2. PRole(s) = "releaseFilled"
      BY <2>3, ProducerRoles DEF PRole
    <3> QED
      BY <1>2, <3>1, <3>2, SlotsUsed
  <2> QED
    BY <2>1, <2>2, <2>3 DEF NoReleaseRefused
<1> QED
  BY <1>1, <1>2, Invariance, PTL DEF SemaphoresExact

\* The critical section of a link that runs, and of one that does not.
LEMMA WhoEntered ==
  ASSUME IInv, NEW s \in Syncs
  PROVE  /\ csWasEntered[s] <=> Running(s) /\ pc[Consumer(s)] \in InsideLabels(s)
         /\ csWasEntered[s] => cs[s] = Consumer(s)
<1>1. LinkInv(s)
  BY DEF IInv, Syncs
<1>2. pc[Consumer(s)] # "inside"
  BY DEF IInv, TypeOK, Consumer, Syncs, Threads, Labels, ConsumerLabels, ProducerLabels
<1>3. Running(s) => (csWasEntered[s] <=> CRole(s) = "inside")
  BY <1>1 DEF LinkInv, RunningLink, Signals
<1>4. CRole(s) = "inside" <=> pc[Consumer(s)] \in InsideLabels(s)
  BY <1>2 DEF CRole, CRoleOf
<1>5. ~Running(s) => ~csWasEntered[s]
  BY <1>1 DEF LinkInv, Running, QuietLink, AbsentLink
<1> QED
  BY <1>3, <1>4, <1>5 DEF IInv, Owners

\* The checks BUFFER_MUST_BE_LOCKED and BUFFER_MUST_BE_UNLOCKED succeed wherever they are
\* made, and the HASH thread moves the window (MatchFinder_MoveBlock) only when neither of
\* the other threads uses a block or a pointer into the window.
THEOREM BuffersLocked == Spec => []UsedUnderLock
<1>1. ASSUME IInv
      PROVE  BufferLocks
  <2>1. pc["LZ"] = "lockBuffer" => ~csWasEntered[CallSync("LZ")]
    <3>1. pc["LZ"] = "lockBuffer" => CallSync("LZ") = "btSync"
      BY <1>1, LzOnBt DEF IInv, CallSync
    <3> QED
      BY <1>1, <3>1, WhoEntered DEF Syncs, Consumer, InsideLabels
  <2>2. pc["BT"] = "lockBuffer" => ~csWasEntered[CallSync("BT")]
    BY <1>1, WhoEntered DEF Syncs, Consumer, InsideLabels, CallSync
  <2>3. pc["LZ"] = "encode" => csWasEntered["btSync"] = ~needStart["btSync"]
    <3>1. pc["LZ"] = "encode" => wasCreated["btSync"]
      BY <1>1 DEF IInv, Main, Syncs
    <3> QED
      BY <1>1, <3>1, WhoEntered DEF Syncs, Consumer, InsideLabels, Running, IInv, TypeOK
  <2>4. pc["BT"] = "fill" => ~csWasEntered["hashSync"]
    BY <1>1, WhoEntered DEF Syncs, Consumer, InsideLabels
  <2>5. pc["BT"] \in {"getMatches", "gotBlock"} => csWasEntered["hashSync"] = ~needStart["hashSync"]
    <3>1. pc["BT"] \in {"getMatches", "gotBlock"} => wasCreated["hashSync"]
      BY <1>1, BtActive DEF IInv, Nested, Running
    <3> QED
      BY <1>1, <3>1, WhoEntered DEF Syncs, Consumer, InsideLabels, Running, IInv, TypeOK
  <2> QED
    BY <1>1, <2>1, <2>2, <2>3, <2>4, <2>5, WhoEntered DEF BufferLocks
<1>2. ASSUME IInv
      PROVE  MoveExclusive
  <2> SUFFICES ASSUME pc["HASH"] = "move"
               PROVE  /\ pc["BT"] \notin {"getMatches", "gotBlock"}
                      /\ pc["LZ"] \notin {"encode", "gotBlock", "idle", "created"}
    BY DEF MoveExclusive
  <2>1. Running("hashSync") /\ Running("btSync")
    BY <1>2, HashActive DEF IInv, Nested
  <2>2. ~csWasEntered["hashSync"] /\ ~csWasEntered["btSync"]
    BY <1>2, WhoEntered DEF IInv, Owners, Syncs, Consumer
  <2>3. pc["BT"] \notin {"getMatches", "gotBlock"}
    BY <1>2, <2>1, <2>2, WhoEntered DEF Syncs, Consumer, InsideLabels
  <2>4. pc["LZ"] \notin {"encode", "gotBlock"}
    BY <1>2, <2>1, <2>2, WhoEntered DEF Syncs, Consumer, InsideLabels
  <2>5. pc["LZ"] \notin {"idle", "created"}
    BY <1>2, <2>1 DEF IInv, Main, Syncs
  <2> QED
    BY <2>3, <2>4, <2>5
<1> QED
  BY <1>1, <1>2, Invariance, PTL DEF UsedUnderLock

\* A link that MtSync_StopWriting has returned for is as MtSync_Init wants it, with its
\* producer at canStart and both events off; and no thread is at a critical section that
\* MtSync_Destruct has deleted, or alive when all is destroyed.
THEOREM StopsCleanly == Spec => []EndsCleanly
<1>1. ASSUME IInv
      PROVE  StoppedIsQuiet
  <2>1. ASSUME NEW s \in Syncs, needStart[s], wasCreated[s]
        PROVE  /\ pc[Producer(s)] \in {"waitStart", "done"}
               /\ ~wasStopped[s] /\ (canStart[s] => exit[s])
               /\ cs[s] # Producer(s) /\ ~csWasEntered[s]
    <3>1. QuietLink(s)
      BY <1>1, <2>1 DEF IInv, LinkInv, Syncs
    <3> QED
      BY <1>1, <3>1 DEF QuietLink, IInv, Owners, Producer, Syncs
  <2>2. needStart["btSync"] /\ wasCreated["btSync"] => needStart["hashSync"]
    BY <1>1 DEF IInv, Nested, Running
  <2>3. ASSUME pc["LZ"] = "created", NEW s \in Syncs
        PROVE  MtSync_InitAccepts(s)
    <3>1. wasCreated[s] /\ needStart[s]
      BY <1>1, <2>3 DEF IInv, Main, Running
    <3> QED
      BY <2>1, <3>1 DEF MtSync_InitAccepts
  <2> QED
    BY <2>1, <2>2, <2>3 DEF StoppedIsQuiet
<1>2. ASSUME IInv
      PROVE  CriticalSectionsAlive
  <2>1. ASSUME pc["HASH"] \in {"enterBt", "enterHash", "move", "leaveBt"}, NEW s \in Syncs
        PROVE  csWasInitialized[s]
    <3>1. wasCreated["hashSync"] /\ wasCreated["btSync"]
      BY <1>2, <2>1, HashActive DEF IInv, Nested, Running
    <3> QED
      BY <1>2, <3>1 DEF IInv, LinkInv, Syncs
  <2>2. pc["LZ"] = "lockBuffer" => csWasInitialized[CallSync("LZ")]
    BY <1>2, LzOnBt DEF IInv, CallSync, LinkInv, Running
  <2>3. pc["BT"] = "lockBuffer" => csWasInitialized[CallSync("BT")]
    BY <1>2, BtOnHash DEF IInv, CallSync, LinkInv, Running
  <2>4. pc["LZ"] = "destroyed" => \A t \in {"BT", "HASH"} : pc[t] \in {"none", "done"}
    BY <1>2 DEF IInv, Main, LinkInv, AbsentLink, Producer, Syncs
  <2> QED
    BY <2>1, <2>2, <2>3, <2>4 DEF CriticalSectionsAlive
<1> QED
  BY <1>1, <1>2, Invariance, PTL DEF EndsCleanly

-------------------------------------------------------------------------------
(* Each link is a queue of blocks (BlockQueue).                             *)

\* The steps of the queue on the link s, and the step that leaves it alone.

QueueStart(s) ==
  /\ ~Running(s) /\ Running(s)'
  /\ Made(s)' = Made(s) /\ Taken(s)' = Taken(s) /\ Holding(s)' = Holding(s)
QueueMake(s) ==
  /\ Running(s) /\ Made(s) - Taken(s) + Count(Holding(s)) < NumBlocks(s)
  /\ Made(s)' = Made(s) + 1
  /\ Running(s)' = Running(s) /\ Taken(s)' = Taken(s) /\ Holding(s)' = Holding(s)
QueueTake(s) ==
  /\ Running(s) /\ ~Holding(s) /\ Taken(s) < Made(s)
  /\ Taken(s)' = Taken(s) + 1 /\ Holding(s)' = TRUE
  /\ Running(s)' = Running(s) /\ Made(s)' = Made(s)
QueueFree(s) ==
  /\ Running(s) /\ Holding(s) /\ Holding(s)' = FALSE
  /\ Running(s)' = Running(s) /\ Made(s)' = Made(s) /\ Taken(s)' = Taken(s)
QueueStop(s) ==
  /\ Running(s)
  /\ Running(s)' = FALSE /\ Made(s)' = 0 /\ Taken(s)' = 0 /\ Holding(s)' = FALSE
QueueSame(s) ==
  /\ Running(s)' = Running(s) /\ Made(s)' = Made(s)
  /\ Taken(s)' = Taken(s) /\ Holding(s)' = Holding(s)
QueueStep(s) ==
  \/ QueueStart(s) \/ QueueMake(s) \/ QueueTake(s) \/ QueueFree(s) \/ QueueStop(s) \/ QueueSame(s)

\* A link that does not run before nor after the step.
LEMMA QueueIdle ==
  ASSUME NEW s \in Syncs, ~Running(s), ~Running(s)'
  PROVE  QueueStep(s)
BY DEF QueueStep, QueueSame, Made, Taken, Holding, Running

\* What the queue of a link depends on, but for the place of the consumer.
Still(s) ==
  /\ numProcessedBlocks'[s] = numProcessedBlocks[s] /\ filledSemaphore'[s] = filledSemaphore[s]
  /\ wasCreated'[s] = wasCreated[s] /\ needStart'[s] = needStart[s]

\* The consumer does not move, or moves while it has a block.
TakingLabels == {"signalStart", "waitFilled", "releaseFree"}
LEMMA QueueStill ==
  ASSUME NEW s \in Syncs, Still(s),
         \/ pc'[Consumer(s)] = pc[Consumer(s)]
         \/ pc[Consumer(s)] \notin TakingLabels /\ pc'[Consumer(s)] \notin TakingLabels
         \/ pc[Consumer(s)] = "signalStart" /\ pc'[Consumer(s)] = "waitFilled"
  PROVE  QueueStep(s)
<1>1. NoBlockYet(s)' = NoBlockYet(s) /\ Freeing(s)' = Freeing(s)
  BY DEF NoBlockYet, Freeing, TakingLabels
<1> QED
  BY <1>1 DEF QueueStep, QueueSame, Still, Running, Made, Taken, Holding

\* The steps of the consumer.
LEMMA ConsumerQueue ==
  ASSUME IInv, NEW s \in Syncs, ConsumerOf(s), Running(s), ConsumerStep(Consumer(s))
  PROVE  QueueStep(s)
<1> DEFINE t == Consumer(s)
<1>1. /\ LinkTypes /\ DOMAIN pc = Threads /\ t \in Threads /\ CallSync(t) = s /\ RunningLink(s)
  BY LinkFacts DEF ConsumerOf, IInv, LinkInv, Syncs
<1>2. CASE SignalStart(t)
  <2>1. Still(s) /\ pc[t] = "signalStart" /\ pc'[t] = "waitFilled"
    BY <1>1, <1>2 DEF SignalStart, Still, Goto, syncFlags, semaphores
  <2> QED
    BY <2>1, QueueStill
<1>3. CASE ReleaseFree(t)
  <2>1. Still(s) /\ pc[t] = "releaseFree" /\ pc'[t] = "waitFilled"
    BY <1>1, <1>3 DEF ReleaseFree, Still, Goto, syncFlags
  <2> QED
    BY <2>1 DEF QueueStep, QueueFree, Still, Running, Made, Taken, Holding, NoBlockYet, Freeing, Count
<1>4. CASE WaitFilled(t)
  <2>1. /\ numProcessedBlocks'[s] = numProcessedBlocks[s] /\ filledSemaphore'[s] = filledSemaphore[s] - 1
        /\ wasCreated'[s] = wasCreated[s] /\ needStart'[s] = needStart[s] /\ filledSemaphore[s] > 0
        /\ pc[t] = "waitFilled" /\ pc'[t] = "lockBuffer"
    BY <1>1, <1>4 DEF WaitFilled, Acquire, Goto, syncFlags, LinkTypes
  <2>2. numProcessedBlocks[s] \in Nat /\ filledSemaphore[s] \in Nat
    BY <1>1 DEF LinkTypes
  <2>3. NoBlockYet(s) /\ ~NoBlockYet(s)' /\ ~Freeing(s)'
    BY <2>1 DEF NoBlockYet, Freeing
  <2>4. Running(s)' /\ ~Holding(s) /\ Holding(s)'
    BY <2>1, <2>3 DEF Running, Holding
  <2>5. Taken(s) = numProcessedBlocks[s] - 1 /\ Taken(s)' = numProcessedBlocks[s]
    BY <2>1, <2>2, <2>3, <2>4 DEF Taken, Count
  <2>6. Made(s) = numProcessedBlocks[s] - 1 + filledSemaphore[s]
    BY <2>5 DEF Made
  <2>7. Made(s)' = numProcessedBlocks[s] + (filledSemaphore[s] - 1)
    BY <2>1, <2>4, <2>5 DEF Made
  <2> QED
    BY <2>1, <2>2, <2>4, <2>5, <2>6, <2>7 DEF QueueStep, QueueTake
<1>5. CASE LockBuffer(t) \/ StopWriting(t) \/ SetStop(t) \/ ReleaseStop(t)
  <2>1. Still(s) /\ pc[t] \notin TakingLabels
    BY <1>1, <1>5 DEF LockBuffer, StopWriting, SetStop, ReleaseStop, Still, TakingLabels, syncFlags,
       semaphores
  <2>2. pc'[t] \in {"gotBlock", "setStop", "releaseStop", "waitStopped", AfterStop(t)}
    BY <1>1, <1>5 DEF LockBuffer, StopWriting, SetStop, ReleaseStop, Goto
  <2>3. AfterStop(t) \notin TakingLabels
    BY DEF AfterStop, TakingLabels
  <2> QED
    BY <2>1, <2>2, <2>3, QueueStill DEF TakingLabels
<1>6. CASE WaitStopped(t)
  <2>1. needStart'[s] /\ ~Running(s)'
    BY <1>1, <1>6 DEF WaitStopped, Set, LinkTypes, Running
  <2> QED
    BY <2>1 DEF QueueStep, QueueStop, Made, Taken, Holding
<1> QED
  BY <1>2, <1>3, <1>4, <1>5, <1>6 DEF ConsumerStep

\* MtSync_GetNextBlock of the consumer: the start, or the return of the block it has.
LEMMA GetNextBlockQueue ==
  ASSUME IInv, NEW s \in Syncs, ConsumerOf(s), GetNextBlock(Consumer(s)), wasCreated[s],
         needStart[s] => Fresh(s), pc[Consumer(s)] \notin TakingLabels
  PROVE  QueueStep(s)
<1> DEFINE t == Consumer(s)
<1>1. /\ LinkTypes /\ DOMAIN pc = Threads /\ t \in Threads /\ CallSync(t) = s
      /\ filledSemaphore' = filledSemaphore /\ wasCreated' = wasCreated
  BY LinkFacts DEF ConsumerOf, GetNextBlock, GetFirstBlock, FreeBlock, semaphores, syncFlags
<1>2. CASE GetFirstBlock(t)
  <2>1. /\ ~Running(s) /\ filledSemaphore[s] = 0 /\ numProcessedBlocks'[s] = 1
        /\ ~needStart'[s] /\ pc'[t] = "signalStart"
    BY <1>1, <1>2 DEF GetFirstBlock, Running, Fresh, StartCount, StartFlags, Set, LinkTypes, Goto
  <2>2. Running(s)' /\ NoBlockYet(s)' /\ filledSemaphore'[s] = 0
    BY <1>1, <2>1 DEF Running, NoBlockYet
  <2>3. Taken(s)' = 0 /\ Made(s)' = 0 /\ ~Holding(s)'
    BY <2>1, <2>2 DEF Taken, Made, Holding, Count
  <2>4. Taken(s) = 0 /\ Made(s) = 0 /\ ~Holding(s)
    BY <2>1 DEF Taken, Made, Holding
  <2>5. Holding(s)' = Holding(s)
    BY <2>3, <2>4 DEF Holding
  <2> QED
    BY <2>1, <2>2, <2>3, <2>4, <2>5 DEF QueueStep, QueueStart
<1>3. CASE FreeBlock(t)
  <2>1. /\ Running(s) /\ numProcessedBlocks'[s] = numProcessedBlocks[s] + 1
        /\ needStart'[s] = needStart[s] /\ pc'[t] = "releaseFree"
    BY <1>1, <1>3 DEF FreeBlock, Running, LinkTypes, Goto, syncFlags
  <2>2. ~NoBlockYet(s) /\ ~Freeing(s) /\ ~NoBlockYet(s)' /\ Freeing(s)'
    BY <2>1 DEF NoBlockYet, Freeing, TakingLabels
  <2>3. Running(s)' /\ Holding(s) /\ Holding(s)'
    BY <1>1, <2>1, <2>2 DEF Running, Holding
  <2>4. Taken(s) = numProcessedBlocks[s] /\ numProcessedBlocks[s] \in Nat
    BY <1>1, <2>1, <2>2 DEF Taken, Count, LinkTypes
  <2>5. Taken(s)' = numProcessedBlocks[s] + 1 - 1
    BY <2>1, <2>2, <2>3, <2>4 DEF Taken, Count
  <2>6. Taken(s)' = Taken(s) /\ Made(s)' = Made(s)
    BY <1>1, <2>1, <2>3, <2>4, <2>5 DEF Made
  <2> QED
    BY <2>1, <2>3, <2>6 DEF QueueStep, QueueSame, Running, Holding
<1> QED
  BY <1>2, <1>3 DEF GetNextBlock

\* The producer releases a filled slot.
LEMMA ReleaseFilledQueue ==
  ASSUME IInv, NEW s \in Syncs, ProducerOf(s), Running(s), ReleaseFilled(s)
  PROVE  QueueStep(s)
<1>1. /\ LinkTypes /\ DOMAIN pc = Threads
      /\ filledSemaphore[s] \in Nat /\ numProcessedBlocks[s] \in Nat /\ NumBlocks(s) \in Nat
  BY LinkFacts DEF ProducerOf, LinkTypes
<1>2. PRole(s) = "releaseFilled"
  BY ProducerRoles DEF ReleaseFilled, PRole
<1>3. filledSemaphore[s] < NumBlocks(s) /\ filledSemaphore[s] + Count(Holding(s)) < NumBlocks(s)
  BY <1>2, SlotsUsed
<1>4. /\ filledSemaphore'[s] = filledSemaphore[s] + 1 /\ numProcessedBlocks' = numProcessedBlocks
      /\ wasCreated' = wasCreated /\ needStart' = needStart
      /\ pc'[Consumer(s)] = pc[Consumer(s)]
  BY <1>1, <1>3, LinkFacts DEF ReleaseFilled, Release, Goto, syncFlags, LinkTypes
<1>5. /\ NoBlockYet(s)' = NoBlockYet(s) /\ Freeing(s)' = Freeing(s) /\ Running(s)' = Running(s)
  BY <1>4 DEF NoBlockYet, Freeing, Running
<1>6. Taken(s)' = Taken(s) /\ Holding(s)' = Holding(s) /\ Taken(s) \in Int
  BY <1>1, <1>4, <1>5 DEF Taken, Holding, Count
<1>7. Made(s) = Taken(s) + filledSemaphore[s]
  BY DEF Made
<1>8. Made(s)' = Taken(s) + (filledSemaphore[s] + 1)
  BY <1>4, <1>5, <1>6 DEF Made
<1>9. Count(Holding(s)) \in {0, 1}
  BY DEF Count
<1> QED
  BY <1>1, <1>3, <1>5, <1>6, <1>7, <1>8, <1>9 DEF QueueStep, QueueMake

\* What a step leaves alone: the queue that its thread is not on.
LEMMA ConsumerElsewhere ==
  ASSUME NEW t \in {"LZ", "BT"}, NEW s \in Syncs, LinkTypes, DOMAIN pc = Threads,
         CallSync(t) \in Syncs, CallSync(t) # s, ConsumerStep(t)
  PROVE  Still(s) /\ \A u \in Threads \ {t} : pc'[u] = pc[u]
<1>1. CASE SignalStart(t) \/ SetStop(t)
  BY <1>1 DEF SignalStart, SetStop, Still, Goto, syncFlags, semaphores
<1>2. CASE ReleaseFree(t) \/ ReleaseStop(t)
  BY <1>2 DEF ReleaseFree, ReleaseStop, Still, Goto, syncFlags
<1>3. CASE WaitFilled(t)
  BY <1>3 DEF WaitFilled, Acquire, LinkTypes, Still, Goto, syncFlags
<1>4. CASE LockBuffer(t) \/ StopWriting(t)
  BY <1>4 DEF LockBuffer, StopWriting, Still, Goto, syncFlags, semaphores
<1>5. CASE WaitStopped(t)
  BY <1>5 DEF WaitStopped, Set, LinkTypes, Still, Goto, semaphores
<1> QED
  BY <1>1, <1>2, <1>3, <1>4, <1>5 DEF ConsumerStep

LEMMA GetNextBlockElsewhere ==
  ASSUME NEW t \in {"LZ", "BT"}, NEW s \in Syncs, LinkTypes, DOMAIN pc = Threads,
         CallSync(t) \in Syncs, CallSync(t) # s, GetNextBlock(t)
  PROVE  Still(s) /\ \A u \in Threads \ {t} : pc'[u] = pc[u]
<1>1. CASE GetFirstBlock(t)
  BY <1>1 DEF GetFirstBlock, StartCount, StartFlags, Set, LinkTypes, Still, Goto, semaphores
<1>2. CASE FreeBlock(t)
  BY <1>2 DEF FreeBlock, LinkTypes, Still, Goto, syncFlags, semaphores
<1> QED
  BY <1>1, <1>2 DEF GetNextBlock

LEMMA ProducerElsewhere ==
  ASSUME NEW s \in Syncs, NEW r \in Syncs, LinkTypes, DOMAIN pc = Threads, ProducerStep(s),
         r # s \/ ~ReleaseFilled(s)
  PROVE  Still(r) /\ \A u \in Threads \ {Producer(s)} : pc'[u] = pc[u]
<1>1. CASE WaitStart(s) \/ Stopped(s)
  BY <1>1 DEF WaitStart, Stopped, Still, Goto, syncFlags, semaphores
<1>2. CASE WaitFree(s)
  BY <1>2 DEF WaitFree, Still, Goto, syncFlags
<1>3. CASE ReleaseFilled(s) /\ r # s
  BY <1>3 DEF ReleaseFilled, Release, LinkTypes, Still, Goto, syncFlags
<1> QED
  BY <1>1, <1>2, <1>3 DEF ProducerStep

\* The other steps of the two threads.
LEMMA BtElsewhere ==
  ASSUME NEW s \in Syncs, LinkTypes, DOMAIN pc = Threads,
         \/ BtLoop \/ BtFillBlock \/ BtFailed \/ BtEndOfStream \/ BtNewHeads \/ BtMatchesFull
         \/ BtHeadsUsed \/ BtDataFailure
  PROVE  /\ Still(s) /\ pc'["LZ"] = pc["LZ"]
         /\ pc["BT"] \notin TakingLabels /\ pc'["BT"] \notin TakingLabels
<1>1. CASE BtLoop \/ BtFillBlock \/ BtNewHeads \/ BtHeadsUsed
  BY <1>1 DEF BtLoop, BtFillBlock, BtNewHeads, BtHeadsUsed, Still, Goto, Threads, TakingLabels,
     syncFlags, semaphores
<1>2. CASE BtFailed \/ BtEndOfStream \/ BtMatchesFull \/ BtDataFailure
  <2>1. pc["BT"] \in {"getMatches", "gotBlock"} /\ \E failed \in BOOLEAN : PutMatches(failed)
    BY <1>2 DEF BtFailed, BtEndOfStream, BtMatchesFull, BtDataFailure
  <2> QED
    BY <2>1 DEF PutMatches, PutBlock, Producer, Still, Goto, Threads, TakingLabels, syncFlags,
       semaphores
<1> QED
  BY <1>1, <1>2

LEMMA HashElsewhere ==
  ASSUME NEW s \in Syncs, LinkTypes, DOMAIN pc = Threads,
         HashLoop \/ HashEntersBt \/ HashEntersHash \/ MoveBlock \/ HashLeavesBt \/ HashFill
  PROVE  Still(s) /\ pc'["LZ"] = pc["LZ"] /\ pc'["BT"] = pc["BT"]
BY DEF HashLoop, HashEntersBt, HashEntersHash, MoveBlock, HashLeavesBt, HashFill, PutBlock, Producer,
   Still, Goto, Threads, syncFlags, semaphores

LEMMA NoneRunsNext ==
  ASSUME IInv', dtor' # "no" \/ pc'["LZ"] \in {"idle", "created", "finish"}
  PROVE  \A s \in Syncs : ~Running(s)'
BY DEF IInv, Main, LinkInv, RunningLink, Signals, Nested, Syncs

\* Where the LZ thread is.
LEMMA LzPlaces ==
  ASSUME IInv
  PROVE  /\ dtor = "no" => pc["LZ"] \notin {"destruct", "join", "close", "destroyed"}
         /\ pc["LZ"] = "encode" => dtor = "no" /\ wasCreated["btSync"]
<1>1. dtor \in {"no", "release", "btSync", "hashSync"} /\ pc["LZ"] \in MainPlaces[dtor]
  BY DEF IInv, TypeOK, Main, Syncs
<1>2. pc["LZ"] = "encode" => wasCreated["btSync"]
  BY DEF IInv, Main, Syncs
<1> QED
  BY <1>1, <1>2 DEF MainPlaces, ConsumerLabels

\* The steps of the LZ thread on a link that does not run.
LEMMA LzIdleQueue ==
  ASSUME IInv, IInv', NEW s \in Syncs,
         \/ MatchFinderMt_Create \/ MatchFinderMt_InitMt \/ InitMtFails \/ MatchFinderMt_Destruct
         \/ Released \/ SendExit \/ Join \/ Close
  PROVE  QueueStep(s)
<1>1. /\ DOMAIN pc = Threads
      /\ dtor = "no" => pc["LZ"] \notin {"destruct", "join", "close", "destroyed"}
  BY LzPlaces DEF IInv, TypeOK
<1>2. ~Running(s)
  <2>1. dtor # "no" \/ pc["LZ"] \in {"idle", "created", "finish"}
    BY <1>1 DEF MatchFinderMt_Create, MatchFinderMt_InitMt, InitMtFails, MatchFinderMt_Destruct,
       Released, SendExit, Join, Close
  <2> QED
    BY <2>1, NoneRuns
<1>3. CASE MatchFinderMt_InitMt
  BY <1>2, <1>3, QueueIdle DEF MatchFinderMt_InitMt, Running, syncFlags
<1>4. CASE MatchFinderMt_Create \/ InitMtFails
  <2>1. pc'["LZ"] \in {"idle", "created", "finish"}
    BY <1>1, <1>4 DEF MatchFinderMt_Create, InitMtFails, Goto, Threads
  <2> QED
    BY <1>2, <2>1, NoneRunsNext, QueueIdle
<1>5. CASE MatchFinderMt_Destruct \/ Released \/ SendExit \/ Join \/ Close
  <2>1. dtor' # "no"
    BY <1>1, <1>5 DEF MatchFinderMt_Destruct, Released, SendExit, Join, Close, BeginDestruct
  <2> QED
    BY <1>2, <2>1, NoneRunsNext, QueueIdle
<1> QED
  BY <1>3, <1>4, <1>5

LEMMA LzQueue ==
  ASSUME IInv, IInv', LzStep, NEW s \in Syncs
  PROVE  QueueStep(s)
<1>1. LinkTypes /\ DOMAIN pc = Threads
  BY Types DEF IInv, ThreadTypes
<1>2. CASE GetNextBlock_Bt
  <2>1. pc["LZ"] = "encode" /\ dtor = "no" /\ wasCreated["btSync"]
    BY <1>2, LzPlaces DEF GetNextBlock_Bt
  <2>2. ConsumerOf("btSync") /\ CallSync("LZ") = "btSync" /\ GetNextBlock("LZ")
    BY <1>2, <2>1, LzCalls DEF IInv, ConsumerOf, Consumer, GetNextBlock_Bt
  <2>3. needStart["btSync"] => Fresh("btSync")
    BY <2>1 DEF IInv, Main, Syncs
  <2>4. QueueStep("btSync")
    BY <2>1, <2>2, <2>3, GetNextBlockQueue DEF Consumer, Syncs, TakingLabels
  <2>5. Still("hashSync") /\ pc'["BT"] = pc["BT"]
    BY <1>1, <2>2, GetNextBlockElsewhere DEF Syncs, Threads
  <2> QED
    BY <2>4, <2>5, QueueStill DEF Syncs, Consumer
<1>3. CASE ReadHeader \/ ReleaseStream
  <2>1. /\ Still(s) /\ pc'["BT"] = pc["BT"]
        /\ pc["LZ"] \notin TakingLabels /\ pc'["LZ"] \notin TakingLabels
    BY <1>1, <1>3 DEF ReadHeader, ReleaseStream, Still, Goto, Threads, TakingLabels, syncFlags,
       semaphores
  <2> QED
    BY <2>1, QueueStill DEF Consumer
<1>4. CASE ConsumerStep("LZ") /\ Running("btSync")
  <2>1. dtor = "no"
    BY <1>4 DEF IInv, LinkInv, RunningLink, Signals
  <2>2. ConsumerOf("btSync") /\ CallSync("LZ") = "btSync"
    BY <2>1, LzCalls DEF IInv, ConsumerOf, Consumer
  <2>3. QueueStep("btSync")
    BY <1>4, <2>2, ConsumerQueue DEF Consumer, Syncs
  <2>4. Still("hashSync") /\ pc'["BT"] = pc["BT"]
    BY <1>1, <1>4, <2>2, ConsumerElsewhere DEF Syncs, Threads
  <2> QED
    BY <2>3, <2>4, QueueStill DEF Syncs, Consumer
<1>5. CASE ConsumerStep("LZ") /\ ~Running("btSync")
  <2>1. ~Running(s)
    BY <1>5 DEF IInv, Nested, Syncs
  <2>2. pc["LZ"] \notin {"signalStart", "releaseFree", "waitFilled", "lockBuffer", "setStop",
                         "releaseStop", "waitStopped"}
    BY <1>5, LzOnBt DEF IInv
  <2>3. StopWriting("LZ")
    BY <1>5, <2>2 DEF ConsumerStep, SignalStart, ReleaseFree, WaitFilled, LockBuffer, SetStop,
       ReleaseStop, WaitStopped
  <2> QED
    BY <2>1, <2>3, QueueIdle DEF StopWriting, Running, syncFlags
<1> QED
  BY <1>2, <1>3, <1>4, <1>5, LzIdleQueue DEF LzStep

LEMMA BtQueueStep ==
  ASSUME IInv, BtStep, NEW s \in Syncs
  PROVE  QueueStep(s)
<1>1. LinkTypes /\ DOMAIN pc = Threads /\ ConsumerOf("hashSync") /\ ProducerOf("btSync") /\ CallSync("BT") = "hashSync"
  BY Types, BtCalls DEF IInv, ThreadTypes, CallSync
<1>2. CASE ConsumerStep("BT")
  <2>1. Still("btSync") /\ pc'["LZ"] = pc["LZ"]
    BY <1>1, <1>2, ConsumerElsewhere DEF Syncs, Threads
  <2>2. CASE Running("hashSync")
    BY <1>1, <1>2, <2>1, <2>2, ConsumerQueue, QueueStill DEF Syncs, Consumer
  <2>3. CASE ~Running("hashSync")
    <3>1. pc["BT"] \notin {"signalStart", "releaseFree", "waitFilled", "lockBuffer", "setStop",
                           "releaseStop", "waitStopped"}
      BY <2>3, BtOnHash DEF IInv
    <3>2. StopWriting("BT")
      BY <1>2, <3>1 DEF ConsumerStep, SignalStart, ReleaseFree, WaitFilled, LockBuffer, SetStop,
         ReleaseStop, WaitStopped
    <3>3. ~Running("hashSync")'
      BY <2>3, <3>2 DEF StopWriting, Running, syncFlags
    <3> QED
      BY <2>1, <2>3, <3>3, QueueIdle, QueueStill DEF Syncs, Consumer
  <2> QED
    BY <2>2, <2>3
<1>3. CASE ProducerStep("btSync")
  <2>1. Still("hashSync") /\ pc["BT"] \notin TakingLabels /\ pc'["BT"] \notin TakingLabels
    <3>1. Still("hashSync")
      BY <1>1, <1>3, ProducerElsewhere DEF Syncs
    <3> QED
      BY <1>1, <1>3, <3>1 DEF ProducerStep, WaitStart, WaitFree, ReleaseFilled, Stopped, AfterWait,
         Producer,
         Goto, Threads, TakingLabels
  <2>2. CASE ReleaseFilled("btSync")
    <3>1. Running("btSync")
      BY <2>2, BtActive DEF IInv, ReleaseFilled, Producer
    <3> QED
      BY <1>1, <2>1, <2>2, <3>1, ReleaseFilledQueue, QueueStill DEF Syncs, Consumer
  <2>3. CASE ~ReleaseFilled("btSync")
    <3>1. Still("btSync") /\ pc'["LZ"] = pc["LZ"]
      BY <1>1, <1>3, <2>3, ProducerElsewhere DEF Syncs, Threads, Producer
    <3> QED
      BY <2>1, <3>1, QueueStill DEF Syncs, Consumer
  <2> QED
    BY <2>2, <2>3
<1>4. CASE GetNextBlock_Hash
  <2>1. /\ Running("btSync") /\ RunningLink("btSync") /\ pc["BT"] = "getMatches" /\ GetNextBlock("BT")
    BY <1>4, BtActive DEF IInv, GetNextBlock_Hash
  <2>2. wasCreated["hashSync"] /\ ~wasStopped["btSync"]
    BY <2>1 DEF IInv, Nested, Running, RunningLink, Signals, PRole, PRoleOf, Producer, SearchLabels,
       FillLabels
  <2>3. needStart["hashSync"] => Fresh("hashSync")
    BY <2>1, <2>2 DEF IInv, Nested
  <2>4. QueueStep("hashSync")
    BY <1>1, <2>1, <2>2, <2>3, GetNextBlockQueue DEF Consumer, Syncs, TakingLabels
  <2>5. Still("btSync") /\ pc'["LZ"] = pc["LZ"]
    BY <1>1, <2>1, GetNextBlockElsewhere DEF Syncs, Threads
  <2> QED
    BY <2>4, <2>5, QueueStill DEF Syncs, Consumer
<1>5. CASE \/ BtLoop \/ BtFillBlock \/ BtFailed \/ BtEndOfStream \/ BtNewHeads \/ BtMatchesFull
           \/ BtHeadsUsed \/ BtDataFailure
  BY <1>1, <1>5, BtElsewhere, QueueStill DEF Consumer
<1> QED
  BY <1>2, <1>3, <1>4, <1>5 DEF BtStep

LEMMA HashQueueStep ==
  ASSUME IInv, HashStep, NEW s \in Syncs
  PROVE  QueueStep(s)
<1>1. LinkTypes /\ DOMAIN pc = Threads /\ ProducerOf("hashSync")
  BY Types, BtCalls DEF IInv, ThreadTypes
<1>2. CASE ProducerStep("hashSync")
  <2>1. \A u \in {"LZ", "BT"} : pc'[u] = pc[u]
    BY <1>1, <1>2 DEF ProducerStep, WaitStart, WaitFree, ReleaseFilled, Stopped, Producer, Goto, Threads
  <2>2. CASE ReleaseFilled("hashSync") /\ s = "hashSync"
    <3>1. Running("hashSync")
      BY <2>2, HashActive DEF IInv, ReleaseFilled, Producer
    <3> QED
      BY <1>1, <2>2, <3>1, ReleaseFilledQueue DEF Syncs
  <2>3. CASE ~(ReleaseFilled("hashSync") /\ s = "hashSync")
    <3>1. Still(s)
      BY <1>1, <1>2, <2>3, ProducerElsewhere DEF Syncs
    <3> QED
      BY <2>1, <3>1, QueueStill DEF Syncs, Consumer
  <2> QED
    BY <2>2, <2>3
<1>3. CASE HashLoop \/ HashEntersBt \/ HashEntersHash \/ MoveBlock \/ HashLeavesBt \/ HashFill
  BY <1>1, <1>3, HashElsewhere, QueueStill DEF Consumer
<1> QED
  BY <1>2, <1>3 DEF HashStep

\* Every step of the program is a step of each queue, or leaves it alone.
LEMMA StepOfQueue ==
  ASSUME IInv, IInv', [Next]_vars, NEW s \in Syncs
  PROVE  QueueStep(s)
<1>1. CASE UNCHANGED vars
  <2>1. Still(s) /\ pc' = pc
    BY <1>1 DEF vars, Still, syncFlags, semaphores
  <2> QED
    BY <2>1, QueueStill
<1> QED
  BY <1>1, LzQueue, BtQueueStep, HashQueueStep DEF Next, Destroyed

\* The steps of QueueStep are those of BlockQueue.
LEMMA BtQueueRefines ==
  ASSUME QueueStep("btSync")
  PROVE  [BtQ!Next]_(BtQ!queue)
<1>1. BtQ!Held = Count(Holding("btSync"))
  BY DEF BtQ!Held, Count
<1>2. QueueStart("btSync") => BtQ!Start
  BY DEF QueueStart, BtQ!Start
<1>3. QueueMake("btSync") => BtQ!Make
  BY <1>1 DEF QueueMake, BtQ!Make
<1>4. QueueTake("btSync") => BtQ!Take
  BY DEF QueueTake, BtQ!Take
<1>5. QueueFree("btSync") => BtQ!Free
  BY DEF QueueFree, BtQ!Free
<1>6. QueueStop("btSync") => BtQ!Stop
  BY DEF QueueStop, BtQ!Stop
<1>7. QueueSame("btSync") => UNCHANGED BtQ!queue
  BY DEF QueueSame, BtQ!queue
<1> QED
  BY <1>2, <1>3, <1>4, <1>5, <1>6, <1>7 DEF QueueStep, BtQ!Next

LEMMA HashQueueRefines ==
  ASSUME QueueStep("hashSync")
  PROVE  [HashQ!Next]_(HashQ!queue)
<1>1. HashQ!Held = Count(Holding("hashSync"))
  BY DEF HashQ!Held, Count
<1>2. QueueStart("hashSync") => HashQ!Start
  BY DEF QueueStart, HashQ!Start
<1>3. QueueMake("hashSync") => HashQ!Make
  BY <1>1 DEF QueueMake, HashQ!Make
<1>4. QueueTake("hashSync") => HashQ!Take
  BY DEF QueueTake, HashQ!Take
<1>5. QueueFree("hashSync") => HashQ!Free
  BY DEF QueueFree, HashQ!Free
<1>6. QueueStop("hashSync") => HashQ!Stop
  BY DEF QueueStop, HashQ!Stop
<1>7. QueueSame("hashSync") => UNCHANGED HashQ!queue
  BY DEF QueueSame, HashQ!queue
<1> QED
  BY <1>2, <1>3, <1>4, <1>5, <1>6, <1>7 DEF QueueStep, HashQ!Next

LEMMA QueueInits == Init => BtQ!Init /\ HashQ!Init
<1> SUFFICES ASSUME Init
             PROVE  BtQ!Init /\ HashQ!Init
  OBVIOUS
<1>1. \A s \in Syncs : ~Running(s)
  BY DEF Init, Running
<1>2. \A s \in Syncs : ~Running(s) /\ Made(s) = 0 /\ Taken(s) = 0 /\ ~Holding(s)
  BY <1>1 DEF Made, Taken, Holding
<1> QED
  BY <1>2 DEF BtQ!Init, HashQ!Init, Syncs

\* Each of the two CMtSync implements a bounded queue of blocks: its consumer gets every
\* block once and in the order they are made, holds one at a time, the producer is never
\* more blocks ahead than the ring has slots, and a stop ends the queue.
THEOREM Refinement == Spec => ImplementsQueues
<1>1. IInv /\ IInv' /\ [Next]_vars => [BtQ!Next]_(BtQ!queue) /\ [HashQ!Next]_(HashQ!queue)
  BY StepOfQueue, BtQueueRefines, HashQueueRefines DEF Syncs
<1> QED
  BY <1>1, QueueInits, Invariance, PTL DEF Spec, ImplementsQueues, BtQueue, HashQueue, BtQ!Spec,
     HashQ!Spec
===============================================================================
