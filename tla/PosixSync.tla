------------------------------- MODULE PosixSync -------------------------------
(***************************************************************************)
(* Events, semaphores and the wait for any of several objects, made of a    *)
(* mutex and a condition variable (C/Threads.c and the POSIX part of        *)
(* CPP/Windows/Synchronization.h and .cpp).  The objects of this module     *)
(* share one mutex and one condition variable, as the *_WFMO objects of one *)
(* CSynchro do; an object of C/Threads.c has a mutex and a condition        *)
(* variable of its own, which is the case of a single object and of waits   *)
(* for one object.                                                          *)
(*                                                                         *)
(* A step is a call of pthread_* or the code between two of them.           *)
(***************************************************************************)
EXTENDS Integers, Sequences

CONSTANTS Threads, AutoEvents, ManualEvents, Semaphores, MaxCount, Calls

Objects == AutoEvents \cup ManualEvents \cup Semaphores
Signals == AutoEvents \cup ManualEvents

\* A wait names objects of the group, Set and Reset an event, Release a semaphore;
\* a Release of less than 1 returns EINVAL before anything else.
CallTypes ==
  [type : {"set", "reset"}, objs : {<<o>> : o \in Signals}, n : {0}] \cup
  [type : {"release"}, objs : {<<o>> : o \in Semaphores}, n : Nat \ {0}] \cup
  [type : {"wait"}, objs : Seq(Objects) \ {<<>>}, n : {0}]

ASSUME SyncAssumption ==
  /\ AutoEvents \cap ManualEvents = {} /\ Signals \cap Semaphores = {}
  /\ MaxCount \in [Semaphores -> Nat \ {0}]
  /\ Calls \subseteq CallTypes

VARIABLES
  value,    \* _state of an event as 1 or 0, _count of a semaphore
  mutex,    \* the thread that owns the mutex
  pc,       \* where a thread is in its call
  call,     \* the call a thread is in
  result    \* what the call will return

vars == <<value, mutex, pc, call, result>>

NoThread == "none"
ASSUME ThreadAssumption == NoThread \notin Threads

NoCall == [type |-> "none", objs |-> <<>>, n |-> 0]
Pending == -2
Refused == -1

MaxValue(o) == IF o \in Semaphores THEN MaxCount[o] ELSE 1
Values == UNION {0 .. MaxValue(o) : o \in Objects}

Object(t) == call[t].objs[1]
Goto(t, label) == pc' = [pc EXCEPT ![t] = label]
Returns(t, r) == result' = [result EXCEPT ![t] = r]

\* Event_Create and Semaphore_Create, with any first state they accept.
Init ==
  /\ value \in [Objects -> Values] /\ \A o \in Objects : value[o] <= MaxValue(o)
  /\ mutex = NoThread
  /\ pc = [t \in Threads |-> "idle"]
  /\ call = [t \in Threads |-> NoCall]
  /\ result = [t \in Threads |-> Pending]

Begin(t) ==
  /\ pc[t] = "idle"
  /\ \E c \in Calls : call' = [call EXCEPT ![t] = c]
  /\ Goto(t, "enter")
  /\ UNCHANGED <<value, mutex, result>>

\* pthread_mutex_lock, also the one at the end of pthread_cond_wait.
Enter(t) ==
  /\ pc[t] = "enter" /\ mutex = NoThread
  /\ mutex' = t
  /\ Goto(t, "locked")
  /\ UNCHANGED <<value, call, result>>

Holds(t, type) == pc[t] = "locked" /\ call[t].type = type

Set(t) ==
  /\ Holds(t, "set")
  /\ value' = [value EXCEPT ![Object(t)] = 1]
  /\ Returns(t, 0) /\ Goto(t, "broadcast")
  /\ UNCHANGED <<mutex, call>>

Reset(t) ==
  /\ Holds(t, "reset")
  /\ value' = [value EXCEPT ![Object(t)] = 0]
  /\ Returns(t, 0) /\ Goto(t, "leave")
  /\ UNCHANGED <<mutex, call>>

NewCount(t) == value[Object(t)] + call[t].n

\* Mutant: the waiters are not woken.
Fits(t) == NewCount(t) <= MaxCount[Object(t)]
AfterRelease_Quiet == "leave"
AfterRelease == "broadcast"

Release(t) ==
  /\ Holds(t, "release") /\ Fits(t)
  /\ value' = [value EXCEPT ![Object(t)] = NewCount(t)]
  /\ Returns(t, 0) /\ Goto(t, AfterRelease)
  /\ UNCHANGED <<mutex, call>>

ReleaseRefused(t) ==
  /\ Holds(t, "release") /\ ~Fits(t)
  /\ Returns(t, Refused) /\ Goto(t, "leave")
  /\ UNCHANGED <<value, mutex, call>>

\* pthread_cond_broadcast.  Mutant: pthread_cond_signal.
Woken_One(t) ==
  \/ (\A u \in Threads : pc[u] # "blocked") /\ Goto(t, "leave")
  \/ \E u \in Threads : pc[u] = "blocked" /\ pc' = [pc EXCEPT ![t] = "leave", ![u] = "enter"]
Woken(t) ==
  pc' = [u \in Threads |-> IF u = t THEN "leave"
                           ELSE IF pc[u] = "blocked" THEN "enter" ELSE pc[u]]

Broadcast(t) ==
  /\ pc[t] = "broadcast"
  /\ Woken(t)
  /\ UNCHANGED <<value, mutex, call, result>>

\* IsSignaledAndUpdate, and the ends of the loops of Event_Wait and Semaphore_Wait.
\* Mutant: an auto-reset event stays set.
Update_Keep(o) == IF o \in Signals THEN value ELSE [value EXCEPT ![o] = @ - 1]
Update(o) == IF o \in ManualEvents THEN value ELSE [value EXCEPT ![o] = @ - 1]

Signaled(t) == \E i \in DOMAIN call[t].objs : value[call[t].objs[i]] > 0

\* The loop over the handles stops at the first that is signaled.
WaitTakes(t) ==
  /\ Holds(t, "wait")
  /\ \E i \in DOMAIN call[t].objs :
       /\ value[call[t].objs[i]] > 0
       /\ \A j \in 1 .. i - 1 : value[call[t].objs[j]] = 0
       /\ value' = Update(call[t].objs[i])
       /\ Returns(t, i)
  /\ Goto(t, "leave")
  /\ UNCHANGED <<mutex, call>>

\* pthread_cond_wait gives the mutex back and blocks in one step.
WaitBlocks(t) ==
  /\ Holds(t, "wait") /\ ~Signaled(t)
  /\ mutex' = NoThread
  /\ Goto(t, "blocked")
  /\ UNCHANGED <<value, call, result>>

\* pthread_cond_wait may return without a signal.
SpuriousWakeup(t) ==
  /\ pc[t] = "blocked"
  /\ Goto(t, "enter")
  /\ UNCHANGED <<value, mutex, call, result>>

\* pthread_mutex_unlock, and the return.
Leave(t) ==
  /\ pc[t] = "leave"
  /\ mutex' = NoThread
  /\ call' = [call EXCEPT ![t] = NoCall]
  /\ Returns(t, Pending)
  /\ Goto(t, "idle")
  /\ UNCHANGED value

Run(t) ==
  \/ Enter(t) \/ Set(t) \/ Reset(t) \/ Release(t) \/ ReleaseRefused(t) \/ Broadcast(t)
  \/ WaitTakes(t) \/ WaitBlocks(t) \/ Leave(t)

Next == \E t \in Threads : Begin(t) \/ Run(t) \/ SpuriousWakeup(t)

Spec == Init /\ [][Next]_vars

\* A thread in a call goes on while it can; nobody has to call anything, and nothing is
\* assumed of the order in which a mutex is given to those who wait for it.
FairSpec == Spec /\ \A t \in Threads : WF_vars(Run(t))

-------------------------------------------------------------------------------
(* Properties.                                                              *)

Inside == {"locked", "broadcast", "leave"}

\* Type invariant; in particular no semaphore is over its maximum.
TypeOK ==
  /\ value \in [Objects -> Nat] /\ \A o \in Objects : value[o] <= MaxValue(o)
  /\ mutex \in Threads \cup {NoThread}
  /\ pc \in [Threads -> {"idle", "enter", "blocked"} \cup Inside]
  /\ call \in [Threads -> Calls \cup {NoCall}]
  /\ result \in [Threads -> Int]

\* A thread that is blocked in a wait has nothing to take, unless the broadcast that
\* will wake it is still to come: no wakeup is lost, by one waiter to another either.
NoLostWakeup ==
  \A t \in Threads : pc[t] = "blocked" /\ Signaled(t) =>
    \E u \in Threads : pc[u] = "broadcast"

Objs == INSTANCE SyncObjects

\* The objects behave as events and semaphores do.
ImplementsSyncObjects == Objs!Spec

\* A wait for an object that stays signaled ends, unless others take the mutex over
\* and over again.
NoWaitForever ==
  \A t \in Threads :
    <>[](call[t].type = "wait" /\ result[t] = Pending /\ Signaled(t)) =>
      []<>(mutex \notin {t, NoThread})
===============================================================================
