-------------------------------- MODULE MCMtDec --------------------------------
(* The calls on which MtDec is checked.                                     *)
EXTENDS MtDec

\* Blocks shorter and longer than a buffer, ending at its border and inside it; data
\* after the end mark; a block too large.
SoundInputs ==
  {<<"new", "new", "more", "new", "end">>,
   <<"new", "more", "more", "new", "end", "more">>,
   <<"new", "new", "new", "new", "more", "new", "new">>,
   <<"new", "new", "big", "end">>}

\* Damaged and truncated streams.
DamagedInputs ==
  {<<"new", "bad", "new", "more", "end">>,
   <<"new", "more", "more", "new", "bad", "end">>,
   <<"new", "more", "new", "wrong">>,
   <<"new", "more", "new">>}

\* Streams for two calls.
ReuseInputs == {<<"new", "new", "new", "end">>, <<"new", "new", "bad", "new">>}

CallOf(n, units, faults) == [numThreads |-> n, input |-> units, faults |-> faults]

\* One call with three threads; two with two, after any outcome of the first; and a
\* call with one more thread than the one before it.
MCPlans ==
  {<<CallOf(3, i, FaultKinds)>> : i \in SoundInputs \cup DamagedInputs} \cup
  {<<CallOf(2, i, FaultKinds), CallOf(2, j, FaultKinds)>> : i, j \in ReuseInputs} \cup
  {<<CallOf(2, i, {}), CallOf(3, i, {"alloc", "create"})>> : i \in ReuseInputs}
===============================================================================
