---------------------------- MODULE PosixSyncProofs ----------------------------
(***************************************************************************)
(* Proofs about module PosixSync, for every set of threads, objects, maxima *)
(* and calls: the type invariant, that no wakeup is lost, and that the       *)
(* objects do what module SyncObjects promises.                             *)
(*                                                                          *)
(* The invariant adds to the properties who owns the mutex (MutexOwner) and  *)
(* how far the call of each thread is (CallState).  A lost wakeup would need *)
(* a thread that blocks, or an object that becomes signaled, while another   *)
(* thread is about to broadcast: the mutex keeps these apart.               *)
(***************************************************************************)
EXTENDS PosixSync, TLAPS

\* The owner of the mutex is the thread inside.
MutexOwner == \A t \in Threads : pc[t] \in Inside <=> mutex = t

\* A thread is in a call when it is not idle, and has a result from the moment it is to
\* broadcast or to leave.
CallState ==
  \A t \in Threads :
    /\ pc[t] = "idle" => call[t] = NoCall
    /\ pc[t] # "idle" => call[t] \in Calls
    /\ pc[t] \in {"idle", "enter", "locked", "blocked"} => result[t] = Pending
    /\ pc[t] \in {"broadcast", "leave"} => result[t] # Pending
    /\ pc[t] = "blocked" => call[t].type = "wait"

IInv == TypeOK /\ MutexOwner /\ CallState /\ NoLostWakeup

-------------------------------------------------------------------------------
(* The calls.                                                               *)

LEMMA SignalCall ==
  ASSUME NEW c \in Calls, c.type \in {"set", "reset"}
  PROVE  c.objs[1] \in Signals /\ c.objs[1] \in Objects /\ c.objs[1] \notin Semaphores
<1>1. c \in CallTypes /\ Signals \cap Semaphores = {}
  BY SyncAssumption
<1>2. c \in [type : {"set", "reset"}, objs : {<<o>> : o \in Signals}, n : {0}]
  BY <1>1 DEF CallTypes
<1> QED
  BY <1>1, <1>2 DEF Objects, Signals

LEMMA ReleaseCall ==
  ASSUME NEW c \in Calls, c.type = "release"
  PROVE  c.objs[1] \in Semaphores /\ c.objs[1] \in Objects /\ c.n \in Nat \ {0}
<1>1. c \in CallTypes
  BY SyncAssumption
<1>2. c \in [type : {"release"}, objs : {<<o>> : o \in Semaphores}, n : Nat \ {0}]
  BY <1>1 DEF CallTypes
<1> QED
  BY <1>2 DEF Objects

LEMMA WaitCall ==
  ASSUME NEW c \in Calls, c.type = "wait"
  PROVE  \A i \in DOMAIN c.objs : c.objs[i] \in Objects /\ i \in Nat \ {0}
<1>1. c \in CallTypes
  BY SyncAssumption
<1>2. c \in [type : {"wait"}, objs : Seq(Objects) \ {<<>>}, n : {0}]
  BY <1>1 DEF CallTypes
<1> QED
  BY <1>2

LEMMA Maximum == \A o \in Objects : MaxValue(o) \in Nat \ {0} /\
                   (o \in Semaphores => MaxValue(o) = MaxCount[o]) /\
                   (o \notin Semaphores => MaxValue(o) = 1)
BY SyncAssumption DEF MaxValue

\* What a wait takes leaves no object with more than it had.
LEMMA UpdateLowers ==
  ASSUME value \in [Objects -> Nat], NEW o \in Objects, value[o] > 0
  PROVE  Update(o) \in [Objects -> Nat] /\ \A x \in Objects : Update(o)[x] <= value[x]
BY DEF Update

-------------------------------------------------------------------------------
(* The invariant.                                                           *)

LEMMA InitInv == Init => IInv
<1> SUFFICES ASSUME Init PROVE IInv
  OBVIOUS
<1>1. TypeOK
  <2>1. Values \subseteq Nat
    BY Maximum DEF Values
  <2>2. value \in [Objects -> Nat] /\ \A o \in Objects : value[o] <= MaxValue(o)
    <3>1. \A o \in Objects : value[o] \in Nat
      BY <2>1 DEF Init
    <3> QED
      BY <3>1 DEF Init
  <2>3. /\ mutex \in Threads \cup {NoThread}
        /\ pc \in [Threads -> {"idle", "enter", "blocked"} \cup Inside]
        /\ call \in [Threads -> Calls \cup {NoCall}]
    BY DEF Init
  <2>4. result \in [Threads -> Int]
    BY DEF Init, Pending
  <2> QED
    BY <2>2, <2>3, <2>4 DEF TypeOK
<1>2. MutexOwner
  BY ThreadAssumption DEF Init, MutexOwner, Inside
<1>3. CallState
  BY DEF Init, CallState
<1>4. NoLostWakeup
  BY DEF Init, NoLostWakeup
<1> QED
  BY <1>1, <1>2, <1>3, <1>4 DEF IInv

LEMMA TypeStep ==
  ASSUME IInv, NEW t \in Threads, Begin(t) \/ Run(t) \/ SpuriousWakeup(t)
  PROVE  TypeOK'
<1>0. TypeOK /\ CallState
  BY DEF IInv
<1>1. CASE Begin(t)
  BY <1>0, <1>1 DEF Begin, TypeOK, Goto
<1>2. CASE Enter(t)
  BY <1>0, <1>2 DEF Enter, TypeOK, Goto, Inside
<1>3. CASE Set(t)
  <2>1. Object(t) \in Objects /\ MaxValue(Object(t)) = 1
    BY <1>0, <1>3, SignalCall, Maximum DEF Set, Holds, CallState, Object
  <2> QED
    BY <1>0, <1>3, <2>1 DEF Set, TypeOK, Goto, Returns, Inside
<1>4. CASE Reset(t)
  <2>1. Object(t) \in Objects /\ MaxValue(Object(t)) = 1
    BY <1>0, <1>4, SignalCall, Maximum DEF Reset, Holds, CallState, Object
  <2> QED
    BY <1>0, <1>4, <2>1 DEF Reset, TypeOK, Goto, Returns, Inside
<1>5. CASE Release(t)
  <2>1. /\ Object(t) \in Objects /\ MaxValue(Object(t)) = MaxCount[Object(t)]
        /\ call[t].n \in Nat
    BY <1>0, <1>5, ReleaseCall, Maximum DEF Release, Holds, CallState, Object
  <2>2. NewCount(t) \in Nat /\ NewCount(t) <= MaxValue(Object(t))
    BY <1>0, <1>5, <2>1 DEF Release, Fits, NewCount, TypeOK
  <2>3. value' \in [Objects -> Nat] /\ \A o \in Objects : value'[o] <= MaxValue(o)
    BY <1>0, <1>5, <2>1, <2>2 DEF Release, TypeOK
  <2> QED
    BY <1>0, <1>5, <2>3 DEF Release, TypeOK, Goto, Returns, Inside, AfterRelease
<1>6. CASE ReleaseRefused(t)
  BY <1>0, <1>6 DEF ReleaseRefused, TypeOK, Goto, Returns, Inside, Refused
<1>7. CASE Broadcast(t)
  BY <1>0, <1>7 DEF Broadcast, Woken, TypeOK, Inside
<1>8. CASE WaitTakes(t)
  <2>1. PICK i \in DOMAIN call[t].objs :
          /\ value[call[t].objs[i]] > 0
          /\ value' = Update(call[t].objs[i]) /\ Returns(t, i)
    BY <1>8 DEF WaitTakes
  <2>2. call[t].objs[i] \in Objects /\ i \in Nat
    BY <1>0, <1>8, WaitCall DEF WaitTakes, Holds, CallState
  <2>3. value' \in [Objects -> Nat] /\ \A o \in Objects : value'[o] <= value[o]
    BY <1>0, <2>1, <2>2, UpdateLowers DEF TypeOK
  <2>4. \A o \in Objects : value'[o] <= MaxValue(o)
    BY <1>0, <2>3, Maximum DEF TypeOK
  <2>5. result' \in [Threads -> Int]
    BY <1>0, <2>1, <2>2 DEF Returns, TypeOK
  <2>6. /\ mutex' \in Threads \cup {NoThread}
        /\ pc' \in [Threads -> {"idle", "enter", "blocked"} \cup Inside]
        /\ call' \in [Threads -> Calls \cup {NoCall}]
    BY <1>0, <1>8 DEF WaitTakes, TypeOK, Goto, Inside
  <2> QED
    BY <2>3, <2>4, <2>5, <2>6 DEF TypeOK
<1>9. CASE WaitBlocks(t)
  BY <1>0, <1>9 DEF WaitBlocks, TypeOK, Goto
<1>10. CASE Leave(t)
  BY <1>0, <1>10 DEF Leave, TypeOK, Goto, Returns, Pending
<1>11. CASE SpuriousWakeup(t)
  BY <1>0, <1>11 DEF SpuriousWakeup, TypeOK, Goto
<1> QED
  BY <1>1, <1>2, <1>3, <1>4, <1>5, <1>6, <1>7, <1>8, <1>9, <1>10, <1>11 DEF Run

LEMMA MutexStep ==
  ASSUME IInv, NEW t \in Threads, Begin(t) \/ Run(t) \/ SpuriousWakeup(t)
  PROVE  MutexOwner'
<1>0. TypeOK /\ MutexOwner
  BY DEF IInv
<1>1. CASE Begin(t)
  BY <1>0, <1>1 DEF Begin, Goto, TypeOK, MutexOwner, Inside
<1>2. CASE Enter(t)
  BY <1>0, <1>2, ThreadAssumption DEF Enter, Goto, TypeOK, MutexOwner, Inside
<1>3. CASE Set(t) \/ Reset(t) \/ Release(t) \/ ReleaseRefused(t) \/ WaitTakes(t)
  <2>1. PICK label \in Inside : pc[t] = "locked" /\ Goto(t, label) /\ mutex' = mutex
    BY <1>3 DEF Set, Reset, Release, ReleaseRefused, WaitTakes, Holds, Inside, AfterRelease
  <2> QED
    BY <1>0, <2>1 DEF Goto, TypeOK, MutexOwner, Inside
<1>4. CASE Broadcast(t)
  BY <1>0, <1>4 DEF Broadcast, Woken, TypeOK, MutexOwner, Inside
<1>5. CASE WaitBlocks(t)
  BY <1>0, <1>5, ThreadAssumption DEF WaitBlocks, Holds, Goto, TypeOK, MutexOwner, Inside
<1>6. CASE Leave(t)
  BY <1>0, <1>6, ThreadAssumption DEF Leave, Goto, TypeOK, MutexOwner, Inside
<1>7. CASE SpuriousWakeup(t)
  BY <1>0, <1>7 DEF SpuriousWakeup, Goto, TypeOK, MutexOwner, Inside
<1> QED
  BY <1>1, <1>2, <1>3, <1>4, <1>5, <1>6, <1>7 DEF Run

LEMMA CallStep ==
  ASSUME IInv, NEW t \in Threads, Begin(t) \/ Run(t) \/ SpuriousWakeup(t)
  PROVE  CallState'
<1>0. TypeOK /\ CallState
  BY DEF IInv
<1>1. CASE Begin(t)
  BY <1>0, <1>1 DEF Begin, Goto, TypeOK, CallState
<1>2. CASE Enter(t)
  BY <1>0, <1>2 DEF Enter, Goto, TypeOK, CallState
<1>3. CASE Set(t) \/ Reset(t) \/ Release(t) \/ ReleaseRefused(t) \/ WaitTakes(t)
  <2>1. PICK label \in {"broadcast", "leave"} :
          pc[t] = "locked" /\ Goto(t, label) /\ call' = call
    BY <1>3 DEF Set, Reset, Release, ReleaseRefused, WaitTakes, Holds, AfterRelease
  <2>2. \E r \in Int : r # Pending /\ Returns(t, r)
    <3>1. CASE WaitTakes(t)
      <4>1. PICK i \in DOMAIN call[t].objs : Returns(t, i)
        BY <3>1 DEF WaitTakes
      <4>2. i \in Nat \ {0}
        BY <1>0, <3>1, WaitCall DEF WaitTakes, Holds, CallState
      <4> QED
        BY <4>1, <4>2 DEF Pending
    <3>2. CASE Set(t) \/ Reset(t) \/ Release(t) \/ ReleaseRefused(t)
      BY <3>2 DEF Set, Reset, Release, ReleaseRefused, Pending, Refused
    <3> QED
      BY <1>3, <3>1, <3>2
  <2> QED
    BY <1>0, <2>1, <2>2 DEF Goto, Returns, TypeOK, CallState
<1>4. CASE Broadcast(t)
  BY <1>0, <1>4 DEF Broadcast, Woken, TypeOK, CallState
<1>5. CASE WaitBlocks(t)
  BY <1>0, <1>5 DEF WaitBlocks, Holds, Goto, TypeOK, CallState
<1>6. CASE Leave(t)
  BY <1>0, <1>6 DEF Leave, Goto, Returns, TypeOK, CallState
<1>7. CASE SpuriousWakeup(t)
  BY <1>0, <1>7 DEF SpuriousWakeup, Goto, TypeOK, CallState
<1> QED
  BY <1>1, <1>2, <1>3, <1>4, <1>5, <1>6, <1>7 DEF Run

\* The owner of the mutex, if it is not the one that broadcasts, knows that every
\* blocked thread has nothing to take.
LEMMA NobodyMissed ==
  ASSUME IInv, NEW t \in Threads, pc[t] \in {"locked", "leave"}
  PROVE  \A u \in Threads : pc[u] = "blocked" => ~Signaled(u)
<1>1. \A u \in Threads : pc[u] # "broadcast"
  BY DEF IInv, MutexOwner, Inside
<1> QED
  BY <1>1 DEF IInv, NoLostWakeup

LEMMA WakeupStep ==
  ASSUME IInv, NEW t \in Threads, Begin(t) \/ Run(t) \/ SpuriousWakeup(t)
  PROVE  NoLostWakeup'
<1>0. TypeOK /\ NoLostWakeup /\ CallState
  BY DEF IInv
<1>1. CASE Begin(t) \/ Enter(t) \/ SpuriousWakeup(t)
  <2>1. PICK label \in {"enter", "locked"} : Goto(t, label) /\ pc[t] # "broadcast"
    BY <1>1 DEF Begin, Enter, SpuriousWakeup
  <2>2. /\ value' = value
        /\ \A u \in Threads : u # t => call'[u] = call[u]
    BY <1>0, <1>1 DEF Begin, Enter, SpuriousWakeup, TypeOK
  <2> QED
    BY <1>0, <2>1, <2>2 DEF Goto, TypeOK, NoLostWakeup, Signaled
<1>2. CASE Set(t) \/ Release(t)
  <2>1. pc'[t] = "broadcast"
    BY <1>0, <1>2 DEF Set, Release, AfterRelease, Goto, TypeOK
  <2> QED
    BY <2>1 DEF NoLostWakeup
<1>3. CASE Reset(t) \/ ReleaseRefused(t) \/ WaitTakes(t) \/ WaitBlocks(t) \/ Leave(t)
  <2>1. \A u \in Threads : pc[u] = "blocked" => ~Signaled(u)
    BY <1>3, NobodyMissed DEF Reset, ReleaseRefused, WaitTakes, WaitBlocks, Leave, Holds
  <2>2. \A o \in Objects : value'[o] \in Nat /\ value[o] \in Nat /\ value'[o] <= value[o]
    <3>1. CASE Reset(t)
      BY <1>0, <3>1 DEF Reset, TypeOK
    <3>2. CASE WaitTakes(t)
      <4>1. PICK i \in DOMAIN call[t].objs :
              value[call[t].objs[i]] > 0 /\ value' = Update(call[t].objs[i])
        BY <3>2 DEF WaitTakes
      <4>2. call[t].objs[i] \in Objects
        BY <1>0, <3>2, WaitCall DEF WaitTakes, Holds, CallState
      <4> QED
        BY <1>0, <4>1, <4>2, UpdateLowers DEF TypeOK
    <3>3. CASE ReleaseRefused(t) \/ WaitBlocks(t) \/ Leave(t)
      BY <1>0, <3>3 DEF ReleaseRefused, WaitBlocks, Leave, TypeOK
    <3> QED
      BY <1>3, <3>1, <3>2, <3>3
  <2>3. \A u \in Threads : pc'[u] = "blocked" =>
          call'[u] = call[u] /\ ~Signaled(u) /\ call[u] \in Calls /\ call[u].type = "wait"
    <3>1. CASE WaitBlocks(t)
      BY <1>0, <2>1, <3>1 DEF WaitBlocks, Holds, Goto, TypeOK, CallState
    <3>2. CASE Reset(t) \/ ReleaseRefused(t) \/ WaitTakes(t) \/ Leave(t)
      <4>1. PICK label \in {"leave", "idle"} : Goto(t, label)
        BY <3>2 DEF Reset, ReleaseRefused, WaitTakes, Leave
      <4>2. \A u \in Threads : u # t => call'[u] = call[u]
        BY <1>0, <3>2 DEF Reset, ReleaseRefused, WaitTakes, Leave, TypeOK
      <4> QED
        BY <1>0, <2>1, <4>1, <4>2 DEF Goto, TypeOK, CallState
    <3> QED
      BY <1>3, <3>1, <3>2
  <2>4. \A u \in Threads : pc'[u] = "blocked" => ~Signaled(u)'
    <3> SUFFICES ASSUME NEW u \in Threads, pc'[u] = "blocked",
                        NEW i \in DOMAIN call[u].objs
                 PROVE  ~(value'[call[u].objs[i]] > 0)
      BY <2>3 DEF Signaled
    <3>1. call[u].objs[i] \in Objects
      BY <2>3, WaitCall
    <3>2. ~(value[call[u].objs[i]] > 0)
      BY <2>3 DEF Signaled
    <3> QED
      BY <2>2, <3>1, <3>2
  <2> QED
    BY <2>4 DEF NoLostWakeup
<1>4. CASE Broadcast(t)
  BY <1>0, <1>4 DEF Broadcast, Woken, TypeOK, NoLostWakeup
<1> QED
  BY <1>1, <1>2, <1>3, <1>4 DEF Run

LEMMA NextInv == IInv /\ [Next]_vars => IInv'
<1> SUFFICES ASSUME IInv, [Next]_vars PROVE IInv'
  OBVIOUS
<1>1. CASE UNCHANGED vars
  BY <1>1 DEF vars, IInv, TypeOK, MutexOwner, CallState, NoLostWakeup, Signaled
<1>2. CASE Next
  <2>1. PICK t \in Threads : Begin(t) \/ Run(t) \/ SpuriousWakeup(t)
    BY <1>2 DEF Next
  <2> QED
    BY <2>1, TypeStep, MutexStep, CallStep, WakeupStep DEF IInv
<1> QED
  BY <1>1, <1>2

LEMMA Inductive == Spec => []IInv
<1> QED
  BY InitInv, NextInv, PTL DEF Spec

\* The fields and the program counters keep their types, and no semaphore ever has a
\* count over its maximum.
THEOREM TypeCorrect == Spec => []TypeOK
<1>1. IInv => TypeOK
  BY DEF IInv
<1> QED
  BY <1>1, Inductive, PTL

\* No wakeup is lost: Event_Set and Semaphore_ReleaseN wake every thread that can go on.
THEOREM WakeupsKept == Spec => []NoLostWakeup
<1>1. IInv => NoLostWakeup
  BY DEF IInv
<1> QED
  BY <1>1, Inductive, PTL

-------------------------------------------------------------------------------
(* The refinement.                                                          *)

LEMMA RefinementInit == Init => Objs!Init
BY DEF Init, Objs!Init, Values, Objs!Values, Objects, Objs!Objects, MaxValue,
       Objs!MaxValue, NoCall, Objs!NoCall, Pending, Objs!Pending

LEMMA RefinementStep ==
  ASSUME IInv, NEW t \in Threads, Begin(t) \/ Run(t) \/ SpuriousWakeup(t)
  PROVE  Objs!Step(t) \/ UNCHANGED Objs!sync
<1>0. CallState
  BY DEF IInv
<1> USE DEF Objs!InCall, Objs!Object, Objs!Returns, Objs!Pending, Objs!Refused,
            Holds, Object, Returns, Pending, Refused, CallState
<1>1. CASE Begin(t)
  <2>1. Objs!Begin(t)
    BY <1>0, <1>1 DEF Begin, Objs!Begin, NoCall, Objs!NoCall
  <2> QED
    BY <2>1 DEF Objs!Step
<1>2. CASE Enter(t) \/ Broadcast(t) \/ WaitBlocks(t) \/ SpuriousWakeup(t)
  BY <1>2 DEF Enter, Broadcast, WaitBlocks, SpuriousWakeup, Objs!sync
<1>3. CASE Set(t)
  <2>1. Objs!Set(t)
    BY <1>0, <1>3 DEF Set, Objs!Set
  <2> QED
    BY <2>1 DEF Objs!Step
<1>4. CASE Reset(t)
  <2>1. Objs!Reset(t)
    BY <1>0, <1>4 DEF Reset, Objs!Reset
  <2> QED
    BY <2>1 DEF Objs!Step
<1>5. CASE Release(t)
  <2>1. Objs!Release(t)
    BY <1>0, <1>5 DEF Release, Fits, NewCount, Objs!Release
  <2> QED
    BY <2>1 DEF Objs!Step
<1>6. CASE ReleaseRefused(t)
  <2>1. NewCount(t) > MaxCount[Object(t)]
    <3>1. Object(t) \in Semaphores /\ Object(t) \in Objects /\ call[t].n \in Nat
      BY <1>0, <1>6, ReleaseCall DEF ReleaseRefused
    <3>2. value[Object(t)] \in Nat /\ MaxCount[Object(t)] \in Nat
      BY <3>1, SyncAssumption DEF IInv, TypeOK
    <3> QED
      BY <1>6, <3>1, <3>2 DEF ReleaseRefused, Fits, NewCount
  <2>2. Objs!ReleaseRefused(t)
    BY <1>0, <1>6, <2>1 DEF ReleaseRefused, NewCount, Objs!ReleaseRefused
  <2> QED
    BY <2>2 DEF Objs!Step
<1>7. CASE WaitTakes(t)
  <2>1. Objs!Wait(t)
    BY <1>0, <1>7 DEF WaitTakes, Update, Objs!Wait
  <2> QED
    BY <2>1 DEF Objs!Step
<1>8. CASE Leave(t)
  <2>1. Objs!Return(t)
    BY <1>0, <1>8 DEF Leave, Objs!Return, NoCall, Objs!NoCall
  <2> QED
    BY <2>1 DEF Objs!Step
<1> QED
  BY <1>1, <1>2, <1>3, <1>4, <1>5, <1>6, <1>7, <1>8 DEF Run

\* The objects behave as events and semaphores: every call takes effect in one step.
THEOREM Refinement == Spec => ImplementsSyncObjects
<1>1. IInv /\ [Next]_vars => [Objs!Next]_Objs!sync
  <2> SUFFICES ASSUME IInv, [Next]_vars PROVE [Objs!Next]_Objs!sync
    OBVIOUS
  <2>1. CASE UNCHANGED vars
    BY <2>1 DEF vars, Objs!sync
  <2>2. CASE Next
    <3>1. PICK t \in Threads : Begin(t) \/ Run(t) \/ SpuriousWakeup(t)
      BY <2>2 DEF Next
    <3> QED
      BY <3>1, RefinementStep DEF Objs!Next
  <2> QED
    BY <2>1, <2>2
<1> QED
  BY RefinementInit, Inductive, <1>1, PTL DEF Spec, ImplementsSyncObjects, Objs!Spec
===============================================================================
