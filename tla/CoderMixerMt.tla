------------------------------ MODULE CoderMixerMt ------------------------------
(***************************************************************************)
(* CMixerMT::Code (CPP/7zip/Archive/Common/CoderMixer2.cpp): the coders of  *)
(* a 7z folder at work at the same time, each in a CVirtThread of its own   *)
(* (CPP/7zip/Common/VirtThread.cpp) but one, the main coder, in the thread  *)
(* that calls Code.  A bond connects two coders with a stream binder, whose *)
(* promise is in module Pipe; here a Write offers one unit.                 *)
(*                                                                          *)
(* A coder works in rounds: it reads a unit from each of its streams, then  *)
(* writes one to each.  What it does with them is its own business; it may  *)
(* end early, fail or throw at any time.                                    *)
(***************************************************************************)
EXTENDS Integers, FiniteSets, FiniteSetsExt

CONSTANTS
  NumCoders,   \* _coders.Size()
  Folders,     \* the sets of bonds a folder may have, from one coder to another
  MainCoders,  \* the coders that SelectMainCoder may choose
  MaxUnits,    \* bound: rounds of a coder that reads no bond
  MaxCalls,    \* bound: calls of Code on one mixer
  OwnErrors,   \* the errors a coder may return because of its own data or streams
  Faults       \* of "create" (of a thread), "throw" (by a coder)

Coders == 1 .. NumCoders
Errors == {"S_FALSE", "E_FAIL", "E_ABORT", "E_OUTOFMEMORY", "E_NOTIMPL"}

\* The bonds are those of a folder: a tree from the unpack stream to the pack streams.
ASSUME MixerAssumption ==
  /\ NumCoders \in Nat \ {0}
  /\ \A bonds \in Folders :
       /\ bonds \subseteq Coders \X Coders /\ Cardinality(bonds) = NumCoders - 1
       /\ \A b \in bonds : b[1] # b[2]
       /\ \/ \A b, d \in bonds : b[1] = d[1] => b = d
          \/ \A b, d \in bonds : b[2] = d[2] => b = d
  /\ MainCoders \subseteq Coders /\ MainCoders # {}
  /\ MaxUnits \in Nat /\ MaxCalls \in Nat
  /\ OwnErrors \subseteq Errors /\ Faults \subseteq {"create", "throw"}

VARIABLES
  bonds,          \* _bi.Bonds
  binder,         \* _streamBinders
  thread,         \* CVirtThread::Thread and where it is
  startEvent, finishedEvent, exit,                 \* the other fields of CVirtThread
  coder,          \* where each coder's Code is, and the streams it has still to use
  Result,         \* CCoderMT::Result
  own,            \* history: the error that the coder itself had in this call
  mixer           \* the thread that calls Code

virt == <<thread, startEvent, finishedEvent, exit>>
vars == <<bonds, binder, virt, coder, Result, own, mixer>>

Sources(c) == {b \in bonds : b[2] = c}
Targets(c) == {b \in bonds : b[1] = c}

Streams(c) == Sources(c) \cup Targets(c)

Idle == [at |-> "idle", todo |-> {}, now |-> {}, unit |-> 0]
Begun(c) == [at |-> "work", todo |-> Streams(c), now |-> {}, unit |-> 0]
Closed == [offered |-> FALSE, readerOpen |-> FALSE, writerOpen |-> FALSE]
Fresh == [offered |-> FALSE, readerOpen |-> TRUE, writerOpen |-> TRUE]

Init ==
  /\ bonds \in Folders
  /\ binder = [b \in bonds |-> Closed]
  /\ thread = [c \in Coders |-> "none"]
  /\ startEvent = [c \in Coders |-> FALSE]
  /\ finishedEvent = [c \in Coders |-> FALSE]
  /\ exit = [c \in Coders |-> FALSE]
  /\ coder = [c \in Coders |-> Idle]
  /\ Result = [c \in Coders |-> "old"]
  /\ own = [c \in Coders |-> "none"]
  /\ mixer = [at |-> "idle", main |-> 1, i |-> 1, calls |-> 0, result |-> "S_OK"]

-------------------------------------------------------------------------------
(* A coder's Code, in the thread that runs it.                              *)

\* Code ends with `result'; CReleaser releases the streams.
End(c, result, cause) ==
  /\ Result' = [Result EXCEPT ![c] = result]
  /\ own' = [own EXCEPT ![c] = cause]
  /\ coder' = [coder EXCEPT ![c] = [Begun(c) EXCEPT !.at = "release"]]

\* The coder begins to read or write the stream b.
Begins(c, at, b) == coder' = [coder EXCEPT ![c].at = at, ![c].now = {b}]

\* It is done with it, in this round.
Used(c) ==
  LET round == coder[c].todo = coder[c].now IN
  coder' = [coder EXCEPT ![c] =
    [Begun(c) EXCEPT !.todo = IF round THEN @ ELSE coder[c].todo \ coder[c].now,
                     !.unit = IF round /\ Sources(c) = {} THEN coder[c].unit + 1
                              ELSE coder[c].unit]]

\* CStreamBinder::Read.
Read(c) ==
  /\ coder[c].at = "work"
  /\ \E b \in coder[c].todo \cap Sources(c) : Begins(c, "read", b)
  /\ UNCHANGED <<bonds, binder, virt, Result, own, mixer>>

\* A unit is read; the Write that offered it may return.
ReadUnit(c) ==
  /\ coder[c].at = "read"
  /\ \E b \in coder[c].now :
       /\ binder[b].offered
       /\ binder' = [binder EXCEPT ![b].offered = FALSE]
  /\ Used(c)
  /\ UNCHANGED <<bonds, virt, Result, own, mixer>>

\* The end of the stream: the coder takes it for the end of the data, or for damage,
\* which is its own if the coder before it has done its work.
ReadEnd(c) ==
  /\ coder[c].at = "read"
  /\ \E b \in coder[c].now :
       /\ ~binder[b].writerOpen /\ ~binder[b].offered
       /\ \/ End(c, "S_OK", "none")
          \/ /\ "S_FALSE" \in OwnErrors
             /\ End(c, "S_FALSE", IF Result[b[1]] = "S_OK" THEN "S_FALSE" ELSE "none")
  /\ UNCHANGED <<bonds, binder, virt, mixer>>

\* CStreamBinder::Write: a unit is offered, and the coder waits.
Write(c) ==
  /\ coder[c].at = "work" /\ coder[c].todo \cap Sources(c) = {}
  /\ Sources(c) = {} => coder[c].unit < MaxUnits
  /\ \E b \in coder[c].todo :
       /\ binder' = [binder EXCEPT ![b].offered = TRUE]
       /\ Begins(c, "write", b)
  /\ UNCHANGED <<bonds, virt, Result, own, mixer>>

WriteReturns(c) ==
  /\ coder[c].at = "write"
  /\ \E b \in coder[c].now : ~binder[b].offered
  /\ Used(c)
  /\ UNCHANGED <<bonds, binder, virt, Result, own, mixer>>

\* The reader has closed the stream: k_My_HRESULT_WritingWasCut.
WriteCut(c) ==
  /\ coder[c].at = "write"
  /\ \E b \in coder[c].now :
       /\ binder[b].offered /\ ~binder[b].readerOpen
       /\ binder' = [binder EXCEPT ![b].offered = FALSE]
  /\ End(c, "cut", "none")
  /\ UNCHANGED <<bonds, virt, mixer>>

\* Only the coders of an encoder have two streams to write to.
Decodes == \A b, d \in bonds : b[1] = d[1] => b = d

\* A decoder has all it needs, or the stream of the user wants no more; a coder
\* without bonds to read from is at the end of its data.
EndEarly(c) ==
  /\ coder[c].at = "work"
  /\ Decodes \/ Sources(c) = {}
  /\ \/ End(c, "S_OK", "none")
     \/ Targets(c) = {} /\ End(c, "cut", "none")
  /\ UNCHANGED <<bonds, binder, virt, mixer>>

Fail(c) ==
  /\ coder[c].at = "work"
  /\ \E e \in OwnErrors : End(c, e, e)
  /\ UNCHANGED <<bonds, binder, virt, mixer>>

\* An exception: Execute turns it into E_FAIL; from the main coder it goes on through
\* CMixerMT::Code to the caller.
Throw(c) ==
  /\ "throw" \in Faults /\ coder[c].at = "work"
  /\ IF thread[c] = "run"
     THEN End(c, "E_FAIL", "E_FAIL") /\ UNCHANGED mixer
     ELSE /\ coder' = [coder EXCEPT ![c] = [Begun(c) EXCEPT !.at = "release"]]
          /\ own' = [own EXCEPT ![c] = "E_FAIL"]
          /\ mixer' = [mixer EXCEPT !.result = "exception"]
          /\ UNCHANGED Result
  /\ UNCHANGED <<bonds, binder, virt>>

\* CCoderMT::Release: the input streams, then the output streams.
Released_Outputs(c) == Targets(c)                      \* mutant: the inputs stay open
Released(c) == Streams(c)
CloseEnd(c, b) ==
  IF b \in Sources(c) THEN [binder[b] EXCEPT !.readerOpen = FALSE]
  ELSE [binder[b] EXCEPT !.writerOpen = FALSE]
Release(c) ==
  /\ coder[c].at = "release"
  /\ LET left == coder[c].todo \cap Released(c) inputs == left \cap Sources(c) IN
     \/ /\ left = {}
        /\ coder' = [coder EXCEPT ![c].at = "done", ![c].todo = {}]
        /\ UNCHANGED binder
     \/ \E b \in IF inputs # {} THEN inputs ELSE left :
          /\ binder' = [binder EXCEPT ![b] = CloseEnd(c, b)]
          /\ coder' = [coder EXCEPT ![c].at = IF left = {b} THEN "done" ELSE @,
                                    ![c].todo = @ \ {b}]
  /\ UNCHANGED <<bonds, virt, Result, own, mixer>>

CoderStep(c) ==
  \/ Read(c) \/ ReadUnit(c) \/ ReadEnd(c) \/ Write(c) \/ WriteReturns(c) \/ WriteCut(c)
  \/ EndEarly(c) \/ Fail(c) \/ Throw(c) \/ Release(c)

-------------------------------------------------------------------------------
(* CoderThread (VirtThread.cpp).                                            *)

TakeStart_Manual(c) == UNCHANGED startEvent            \* mutant: not an auto-reset event
TakeStart(c) == startEvent' = [startEvent EXCEPT ![c] = FALSE]
WaitStart(c) ==
  /\ thread[c] = "wait" /\ startEvent[c]
  /\ TakeStart(c)
  /\ IF exit[c]
     THEN thread' = [thread EXCEPT ![c] = "ended"] /\ UNCHANGED coder
     ELSE /\ thread' = [thread EXCEPT ![c] = "run"]
          /\ coder' = [coder EXCEPT ![c] = Begun(c)]
  /\ UNCHANGED <<bonds, binder, finishedEvent, exit, Result, own, mixer>>

Finish(c) ==
  /\ thread[c] = "run" /\ coder[c].at = "done"
  /\ finishedEvent' = [finishedEvent EXCEPT ![c] = TRUE]
  /\ thread' = [thread EXCEPT ![c] = "wait"]
  /\ coder' = [coder EXCEPT ![c] = Idle]
  /\ UNCHANGED <<bonds, binder, startEvent, exit, Result, own, mixer>>

Thread(c) == WaitStart(c) \/ Finish(c)

-------------------------------------------------------------------------------
(* CMixerMT::Code and its caller.                                           *)

\* The results after which the caller goes on with the next folder.
GoesOn == {"S_OK", "S_FALSE", "E_NOTIMPL"}

\* ReInit2, SelectMainCoder, and Init.  Code does not reset Result: "old" stands for
\* whatever the last call left in it.
BeginCall ==
  /\ mixer.at = "idle" /\ mixer.calls < MaxCalls /\ mixer.result \in GoesOn
  /\ \E c \in MainCoders :
       mixer' = [at |-> "create", main |-> c, i |-> 1, calls |-> mixer.calls + 1,
                 result |-> "none"]
  /\ binder' = [b \in bonds |-> Fresh]
  /\ own' = [c \in Coders |-> "none"]
  /\ Result' = [c \in Coders |-> "old"]
  /\ UNCHANGED <<bonds, virt, coder>>

\* The loops skip the main coder.
At(step) == mixer.at = step /\ mixer.i <= NumCoders
Skip == mixer.i = mixer.main /\ mixer' = [mixer EXCEPT !.i = @ + 1] /\ UNCHANGED virt
LoopEnds(step, next) ==
  /\ mixer.at = step /\ mixer.i > NumCoders
  /\ mixer' = [mixer EXCEPT !.at = next, !.i = 1]

\* CVirtThread::Create.
Create ==
  /\ At("create")
  /\ LET c == mixer.i IN
     \/ Skip
     \/ /\ c # mixer.main
        /\ startEvent' = [startEvent EXCEPT ![c] = FALSE]
        /\ finishedEvent' = [finishedEvent EXCEPT ![c] = FALSE]
        /\ exit' = [exit EXCEPT ![c] = FALSE]
        /\ \/ /\ thread' = [thread EXCEPT ![c] = IF @ = "none" THEN "wait" ELSE @]
              /\ mixer' = [mixer EXCEPT !.i = @ + 1]
           \/ /\ thread[c] = "none" /\ "create" \in Faults
              /\ mixer' = [mixer EXCEPT !.at = "idle", !.result = "not created"]
              /\ UNCHANGED thread
  /\ UNCHANGED <<bonds, binder, coder, Result, own>>

\* CVirtThread::Start.
Start ==
  /\ At("start")
  /\ LET c == mixer.i IN
     \/ Skip
     \/ /\ c # mixer.main
        /\ exit' = [exit EXCEPT ![c] = FALSE]
        /\ startEvent' = [startEvent EXCEPT ![c] = TRUE]
        /\ mixer' = [mixer EXCEPT !.i = @ + 1]
        /\ UNCHANGED <<thread, finishedEvent>>
  /\ UNCHANGED <<bonds, binder, coder, Result, own>>

StartsAll == LoopEnds("create", "start") /\ UNCHANGED <<bonds, binder, virt, coder, Result, own>>

CodeMain ==
  /\ LoopEnds("start", "code")
  /\ coder' = [coder EXCEPT ![mixer.main] = Begun(mixer.main)]
  /\ UNCHANGED <<bonds, binder, virt, Result, own>>

MainEnds ==
  /\ mixer.at = "code" /\ coder[mixer.main].at = "done"
  /\ mixer' = [mixer EXCEPT !.at = IF mixer.result = "exception" THEN "idle" ELSE "wait"]
  /\ coder' = [coder EXCEPT ![mixer.main] = Idle]
  /\ UNCHANGED <<bonds, binder, virt, Result, own>>

\* WaitExecuteFinish.
WaitFinish ==
  /\ At("wait")
  /\ LET c == mixer.i IN
     \/ Skip
     \/ /\ c # mixer.main /\ finishedEvent[c]
        /\ finishedEvent' = [finishedEvent EXCEPT ![c] = FALSE]
        /\ mixer' = [mixer EXCEPT !.i = @ + 1]
        /\ UNCHANGED <<thread, startEvent, exit>>
  /\ UNCHANGED <<bonds, binder, coder, Result, own>>

\* The first Result that is not in `passed', or S_OK.
FirstOther(passed) ==
  LET others == {c \in Coders : Result[c] \notin passed \cup {"S_OK", "cut"}} IN
  IF others = {} THEN "S_OK" ELSE Result[Min(others)]

\* The order of importance of the coders' results.
CodeResult_First == FirstOther({})                     \* mutant: the first error
CodeResult ==
  IF \E c \in Coders : Result[c] = "E_ABORT" THEN "E_ABORT"
  ELSE IF \E c \in Coders : Result[c] = "E_OUTOFMEMORY" THEN "E_OUTOFMEMORY"
  ELSE IF FirstOther({"S_FALSE", "E_FAIL"}) # "S_OK" THEN FirstOther({"S_FALSE", "E_FAIL"})
  ELSE IF \E c \in Coders : Result[c] = "S_FALSE" THEN "S_FALSE"
  ELSE FirstOther({})

Return ==
  /\ mixer.at = "wait" /\ mixer.i > NumCoders
  /\ mixer' = [mixer EXCEPT !.at = "idle", !.result = CodeResult]
  /\ UNCHANGED <<bonds, binder, virt, coder, Result, own>>

\* ~CMixerMT: the last coder first; each ends its thread, then drops its streams.
Destroy ==
  /\ mixer.at = "idle"
  /\ mixer' = [mixer EXCEPT !.at = "destroy", !.i = NumCoders]
  /\ UNCHANGED <<bonds, binder, virt, coder, Result, own>>

\* CVirtThread::WaitThreadFinish.
TellExit ==
  /\ mixer.at = "destroy" /\ mixer.i > 0
  /\ exit' = [exit EXCEPT ![mixer.i] = TRUE]
  /\ startEvent' = [startEvent EXCEPT ![mixer.i] = TRUE]
  /\ mixer' = [mixer EXCEPT !.at = "join"]
  /\ UNCHANGED <<bonds, binder, thread, finishedEvent, coder, Result, own>>

Wait_Close ==
  /\ mixer.at = "join" /\ thread[mixer.i] \in {"none", "ended"}
  /\ binder' = [b \in bonds |-> IF b \in Streams(mixer.i) THEN CloseEnd(mixer.i, b) ELSE binder[b]]
  /\ mixer' = [mixer EXCEPT !.at = "destroy", !.i = @ - 1]
  /\ UNCHANGED <<bonds, virt, coder, Result, own>>

Destroyed == mixer.at = "destroy" /\ mixer.i = 0 /\ UNCHANGED vars

Inside ==
  \/ Create \/ StartsAll \/ Start \/ CodeMain \/ MainEnds \/ WaitFinish \/ Return
  \/ TellExit \/ Wait_Close

Next ==
  \/ BeginCall \/ Destroy \/ Inside \/ Destroyed
  \/ \E c \in Coders : CoderStep(c) \/ Thread(c)

\* Threads run; a call that has begun goes on.  Nothing makes the caller begin one.
Spec ==
  /\ Init /\ [][Next]_vars
  /\ WF_vars(Inside)
  /\ \A c \in Coders : WF_vars(CoderStep(c)) /\ WF_vars(Thread(c))
-------------------------------------------------------------------------------
(* Properties.                                                              *)

TypeOK ==
  /\ bonds \in Folders
  /\ binder \in [bonds -> [offered : BOOLEAN, readerOpen : BOOLEAN, writerOpen : BOOLEAN]]
  /\ thread \in [Coders -> {"none", "wait", "run", "ended"}]
  /\ startEvent \in [Coders -> BOOLEAN] /\ finishedEvent \in [Coders -> BOOLEAN]
  /\ exit \in [Coders -> BOOLEAN]
  /\ \A c \in Coders :
       /\ coder[c].at \in {"idle", "work", "read", "write", "release", "done"}
       /\ coder[c].todo \subseteq Streams(c) /\ coder[c].now \subseteq Streams(c)
       /\ coder[c].unit \in 0 .. MaxUnits
  /\ Result \in [Coders -> {"old", "S_OK", "cut"} \cup Errors]
  /\ own \in [Coders -> {"none"} \cup Errors]
  /\ mixer.result \in {"none", "S_OK", "exception", "not created"} \cup Errors

Caused == {own[c] : c \in Coders} \ {"none"}
Returned == mixer.at = "idle" /\ mixer.calls > 0
              /\ mixer.result \notin {"exception", "not created"}

\* Code returns the error of a coder that failed by itself, never that of a coder that
\* only saw its neighbour's stream end or close; E_FAIL alone says nothing of its cause,
\* and may be hidden by the S_FALSE that follows from it.  E_ABORT goes first.
CauseReported ==
  Returned =>
    /\ mixer.result = "S_OK" <=> Caused = {}
    /\ mixer.result = "S_FALSE" => Caused \cap {"S_FALSE", "E_FAIL"} # {}
    /\ mixer.result \in Errors \ {"S_FALSE"} => mixer.result \in Caused
    /\ "E_ABORT" \in Caused => mixer.result = "E_ABORT"

\* When Code has returned, unless by an exception, no thread is at its coder or about to
\* be, and every stream is released at both ends: the caller may take its streams back,
\* and the next call may use the binders and the events again.  After it could not
\* create a thread, no coder has begun.
ReturnedIsQuiet ==
  mixer.at = "idle" /\ mixer.result # "exception" =>
    /\ \A c \in Coders : coder[c] = Idle /\ thread[c] \in {"none", "wait"}
                           /\ ~startEvent[c] /\ ~finishedEvent[c]
    /\ mixer.result # "not created" => \A b \in bonds : binder[b] = Closed

\* Code and the destructor of the mixer return, whatever the coders do and whichever of
\* them ends first.
CallsReturn ==
  mixer.at # "idle" ~> mixer.at = "idle" \/ (mixer.at = "destroy" /\ mixer.i = 0)
===============================================================================
