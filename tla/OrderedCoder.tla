----------------------------- MODULE OrderedCoder -----------------------------
(***************************************************************************)
(* What MtCoder_Code promises to the encoder that calls it, without the     *)
(* threads, the ring of blocks and the events that implement it: the input  *)
(* is read chunk by chunk, at most inFlight chunks ahead of the output; the *)
(* output is written in the order of the input; and the result is SZ_OK     *)
(* only if all of it was written, an error only if an operation failed.     *)
(***************************************************************************)
EXTENDS Integers

CONSTANTS
  Lengths,    \* the lengths an input may have
  Errors,     \* the results that are errors
  Ok          \* SZ_OK

VARIABLES
  running,    \* a call is in progress
  inFlight,   \* chunks that it may read and not yet write
  chunks,     \* length of its input
  read,       \* chunks read
  written,    \* the last chunk written
  fault,      \* Ok, or the first error of an operation of this call
  result      \* what the last call returned

vars == <<running, inFlight, chunks, read, written, fault, result>>

Init ==
  /\ ~running /\ inFlight \in Nat
  /\ chunks = 0 /\ read = 0 /\ written = 0
  /\ fault = Ok /\ result = Ok

Begin ==
  /\ ~running
  /\ running' = TRUE
  /\ chunks' \in Lengths /\ inFlight' \in Nat \ {0}
  /\ read' = 0 /\ written' = 0 /\ fault' = Ok
  /\ UNCHANGED result

Read ==
  /\ running
  /\ read < chunks /\ read - written < inFlight
  /\ read' = read + 1
  /\ UNCHANGED <<running, inFlight, chunks, written, fault, result>>

\* In order; a chunk may be passed over only after a fault.
Write ==
  /\ running
  /\ written' \in (written + 1) .. read
  /\ fault = Ok => written' = written + 1
  /\ UNCHANGED <<running, inFlight, chunks, read, fault, result>>

Fail ==
  /\ running
  /\ fault = Ok
  /\ fault' \in Errors
  /\ UNCHANGED <<running, inFlight, chunks, read, written, result>>

ReturnOk ==
  /\ running
  /\ fault = Ok /\ written = chunks
  /\ running' = FALSE
  /\ result' = Ok
  /\ UNCHANGED <<inFlight, chunks, read, written, fault>>

\* After a fault, or when not even the first thread could be started.
ReturnError ==
  /\ running
  /\ fault # Ok \/ read = 0
  /\ running' = FALSE
  /\ result' \in Errors
  /\ UNCHANGED <<inFlight, chunks, read, written, fault>>

Next == Begin \/ Read \/ Write \/ Fail \/ ReturnOk \/ ReturnError

Spec == Init /\ [][Next]_vars
===============================================================================
