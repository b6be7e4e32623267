------------------------------- MODULE MCMtCoder -------------------------------
(* The sequences of calls on which MtCoder is checked.                      *)
EXTENDS MtCoder

AllFaults == {"read", "code", "write", "create"}
CallOf(n, numBlocks, length, faults) ==
  [numThreads |-> n, numBlocks |-> numBlocks, chunks |-> length, faults |-> faults]

\* One call with two threads over a ring that wraps; one with three; several with one
\* thread, the last one with more.
MCPlans ==
  {<<CallOf(2, 3, n, AllFaults)>> : n \in {1, 2, 4}} \cup
  {<<CallOf(3, 4, 3, {})>>} \cup
  {<<CallOf(1, 2, m, AllFaults), CallOf(1, 2, n, AllFaults), CallOf(1, 2, k, AllFaults)>> :
     m, n, k \in {1, 3}} \cup
  {<<CallOf(1, 3, 2, AllFaults), CallOf(2, 3, 2, AllFaults)>>}

\* Two calls with two threads: a thread of the first may run into the second.
TwoCalls == {<<CallOf(2, 3, 2, {}), CallOf(2, 3, 2, {})>>}
===============================================================================
