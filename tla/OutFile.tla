-------------------------------- MODULE OutFile --------------------------------
(***************************************************************************)
(* What an IOutStream promises: a file that is written at a position, and   *)
(* is on the disk after the final flush, unless a call has failed.          *)
(***************************************************************************)
EXTENDS Integers, Sequences

CONSTANTS Data,    \* the values of a unit, among them the 0 that fills gaps
          MaxSize  \* bound: the size of the file

VARIABLES
  content,  \* the file as its user sees it
  pos,      \* the position of the next write
  state,    \* "open", "failed" or "flushed"
  disk      \* the file on the disk, once it is flushed

vars == <<content, pos, state, disk>>

\* The content `c' with size n.
Resized(c, n) == [i \in 1 .. n |-> IF i <= Len(c) THEN c[i] ELSE 0]

\* The content `c' after a write of `data' at position p.
Overwritten(c, p, data) ==
  [i \in 1 .. (IF p + Len(data) > Len(c) THEN p + Len(data) ELSE Len(c)) |->
     IF p < i /\ i <= p + Len(data) THEN data[i - p]
     ELSE IF i <= Len(c) THEN c[i] ELSE 0]

Init == content = <<>> /\ pos = 0 /\ state = "open" /\ disk = <<>>

Write ==
  /\ state = "open"
  /\ pos' \in pos + 1 .. Len(content')
  /\ LET data == SubSeq(content', pos + 1, pos')
     IN data \in Seq(Data) /\ content' = Overwritten(content, pos, data)
  /\ UNCHANGED <<state, disk>>

Seek == state = "open" /\ pos' \in 0 .. MaxSize /\ UNCHANGED <<content, state, disk>>

SetSize ==
  /\ state = "open"
  /\ content' = Resized(content, Len(content'))
  /\ UNCHANGED <<pos, state, disk>>

Flush == state = "open" /\ state' = "flushed" /\ disk' = content /\ UNCHANGED <<content, pos>>

\* A call fails; nothing is promised of the file any more.
Fail ==
  state = "open" /\ state' = "failed" /\ content' = <<>> /\ pos' = 0 /\ UNCHANGED disk

Next == Write \/ Seek \/ SetSize \/ Flush \/ Fail

Spec == Init /\ [][Next]_vars
===============================================================================
