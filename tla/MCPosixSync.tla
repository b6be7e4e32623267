------------------------------ MODULE MCPosixSync ------------------------------
(***************************************************************************)
(* PosixSync on an auto-reset event, a manual-reset event and a semaphore of *)
(* maximum 2, with waits for one and for two of them, the semaphore once as  *)
(* the first and once as the second choice.                                 *)
(***************************************************************************)
EXTENDS PosixSync

CONSTANTS auto, manual, sem

MCMaxCount == [s \in {sem} |-> 2]

Event(type, o) == [type |-> type, objs |-> <<o>>, n |-> 0]
ReleaseN(n) == [type |-> "release", objs |-> <<sem>>, n |-> n]
WaitAny(objs) == [type |-> "wait", objs |-> objs, n |-> 0]

MCCalls ==
  {Event("set", auto), Event("set", manual), Event("reset", manual),
   ReleaseN(1), ReleaseN(2),
   WaitAny(<<sem>>), WaitAny(<<auto, sem>>), WaitAny(<<manual, auto>>)}
===============================================================================
