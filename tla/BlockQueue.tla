------------------------------ MODULE BlockQueue ------------------------------
(***************************************************************************)
(* What a CMtSync promises to the threads on its two sides: a queue of      *)
(* numbered blocks in a ring of slots.  The consumer starts the   *)
(* producer, takes the blocks in the order they are made, holds one at a    *)
(* time, and stops the producer whenever it wants.  The slot of the block   *)
(* the consumer holds is not reused before it is freed, and after a stop    *)
(* nothing is made.                                                         *)
(***************************************************************************)
EXTENDS Naturals

CONSTANT Slots          \* slots of the ring

VARIABLES
  running,   \* between the start and the end of the stop
  made,      \* blocks made since the start
  taken,     \* blocks the consumer has taken since the start
  holding    \* the consumer uses the last one it has taken

queue == <<running, made, taken, holding>>

Held == IF holding THEN 1 ELSE 0

Init == ~running /\ made = 0 /\ taken = 0 /\ ~holding

Start ==
  /\ ~running
  /\ running' = TRUE
  /\ UNCHANGED <<made, taken, holding>>

Make ==
  /\ running /\ made - taken + Held < Slots
  /\ made' = made + 1
  /\ UNCHANGED <<running, taken, holding>>

Take ==
  /\ running /\ ~holding /\ taken < made
  /\ taken' = taken + 1 /\ holding' = TRUE
  /\ UNCHANGED <<running, made>>

Free ==
  /\ running /\ holding
  /\ holding' = FALSE
  /\ UNCHANGED <<running, made, taken>>

Stop ==
  /\ running
  /\ running' = FALSE /\ made' = 0 /\ taken' = 0 /\ holding' = FALSE

Next == Start \/ Make \/ Take \/ Free \/ Stop

Spec == Init /\ [][Next]_queue
===============================================================================
