------------------------------ MODULE SyncObjects ------------------------------
(***************************************************************************)
(* What the events and semaphores of C/Threads.h and                        *)
(* CPP/Windows/Synchronization.h promise to the threads that call them: a   *)
(* call takes effect at once, at some moment between its start and its      *)
(* return, and a wait takes effect when one of its objects is signaled.     *)
(* The other modules of this project use the objects in this form.          *)
(***************************************************************************)
EXTENDS Integers, Sequences

CONSTANTS
  Threads,
  AutoEvents, ManualEvents, Semaphores,  \* the objects, by kind
  MaxCount,    \* the maximum of each semaphore
  Calls        \* the calls the threads make

VARIABLES
  value,       \* 1 or 0 for an event that is set or not, the count of a semaphore
  call,        \* the call each thread is in, or NoCall
  result       \* what a call that took effect returns, or Pending

sync == <<value, call, result>>

Objects == AutoEvents \cup ManualEvents \cup Semaphores
MaxValue(o) == IF o \in Semaphores THEN MaxCount[o] ELSE 1
Values == UNION {0 .. MaxValue(o) : o \in Objects}

NoCall == [type |-> "none", objs |-> <<>>, n |-> 0]
Pending == -2
Refused == -1          \* ERROR_TOO_MANY_POSTS

InCall(t, type) == call[t].type = type /\ result[t] = Pending
Object(t) == call[t].objs[1]

Returns(t, r) == result' = [result EXCEPT ![t] = r] /\ UNCHANGED call

Init ==
  /\ value \in [Objects -> Values] /\ \A o \in Objects : value[o] <= MaxValue(o)
  /\ call = [t \in Threads |-> NoCall]
  /\ result = [t \in Threads |-> Pending]

Begin(t) ==
  /\ call[t] = NoCall
  /\ \E c \in Calls : call' = [call EXCEPT ![t] = c]
  /\ UNCHANGED <<value, result>>

Set(t) ==
  /\ InCall(t, "set")
  /\ value' = [value EXCEPT ![Object(t)] = 1]
  /\ Returns(t, 0)

Reset(t) ==
  /\ InCall(t, "reset")
  /\ value' = [value EXCEPT ![Object(t)] = 0]
  /\ Returns(t, 0)

Release(t) ==
  /\ InCall(t, "release")
  /\ value[Object(t)] + call[t].n <= MaxCount[Object(t)]
  /\ value' = [value EXCEPT ![Object(t)] = @ + call[t].n]
  /\ Returns(t, 0)

ReleaseRefused(t) ==
  /\ InCall(t, "release")
  /\ value[Object(t)] + call[t].n > MaxCount[Object(t)]
  /\ Returns(t, Refused) /\ UNCHANGED value

\* The wait takes the first of its objects that is signaled, and returns its place.
Wait(t) ==
  /\ InCall(t, "wait")
  /\ \E i \in DOMAIN call[t].objs :
       LET o == call[t].objs[i] IN
       /\ value[o] > 0
       /\ \A j \in 1 .. i - 1 : value[call[t].objs[j]] = 0
       /\ value' = IF o \in ManualEvents THEN value ELSE [value EXCEPT ![o] = @ - 1]
       /\ Returns(t, i)

Return(t) ==
  /\ result[t] # Pending
  /\ call' = [call EXCEPT ![t] = NoCall]
  /\ result' = [result EXCEPT ![t] = Pending]
  /\ UNCHANGED value

Step(t) ==
  Begin(t) \/ Set(t) \/ Reset(t) \/ Release(t) \/ ReleaseRefused(t) \/ Wait(t) \/ Return(t)

Next == \E t \in Threads : Step(t)

Spec == Init /\ [][Next]_sync
===============================================================================
