----------------------------- MODULE StreamBinder -----------------------------
(***************************************************************************)
(* CStreamBinder (CPP/7zip/Common/StreamBinder.h, .cpp): the pipe through   *)
(* which one coder thread of CMixerMT hands its output to the next one.     *)
(* The buffer belongs to the writer: Write() publishes a pointer to it and  *)
(* blocks until the reader has consumed it or has closed.                   *)
(*                                                                          *)
(* The steps are those between which the other thread can run: each wait,   *)
(* signal and release on a synchronization object is a step, and so is each *)
(* stretch of code between two of them that touches _buf and _bufSize.      *)
(* Bytes are identified by their position in the writer's stream, so that   *)
(* `buf' is the number of stream bytes before the one _buf points to.       *)
(***************************************************************************)
EXTENDS Integers

CONSTANTS
  WriteSizes,   \* the sizes the writer passes to Write() (size 0 is a no-op)
  ReadSizes,    \* the sizes the reader passes to Read() (size 0 is a no-op)
  MaxBytes,     \* bound: length of the writer's stream in one session
  MaxSessions   \* bound: how many times the binder is initialized

ASSUME SizesAssumption ==
  /\ WriteSizes \subseteq Nat \ {0}
  /\ ReadSizes \subseteq Nat \ {0}
  /\ MaxBytes \in Nat
  /\ MaxSessions \in Nat \ {0}

VARIABLES
  canRead,            \* _canRead_Event: auto-reset, TRUE when signaled
  canWrite,           \* _canWrite_Semaphore: its count
  readingWasClosed2,
  waitWrite,
  bufSize,
  buf,
  ProcessedSize,
  wpc,                \* where the writer's thread is
  wSize,              \* argument of the Write() in progress
  accepted,           \* sum of the sizes Write() reported as processed
  cut,                \* Write() has returned k_My_HRESULT_WritingWasCut
  rpc,                \* where the reader's thread is
  rSize,              \* argument of the Read() in progress
  eof,                \* Read() of size > 0 has returned 0 bytes
  session             \* number of Create_ReInit() calls

shared == <<canRead, canWrite, readingWasClosed2, waitWrite, bufSize, buf, ProcessedSize>>
writer == <<wpc, wSize, accepted, cut>>
reader == <<rpc, rSize, eof>>
vars == <<shared, writer, reader, session>>

\* The maximum count given to the semaphore by Create_ReInit().
MaxCount == 3

\* _buf = NULL
Null == -1

\* Semaphore_ReleaseN: a release over the maximum fails and changes nothing;
\* neither caller looks at its result.
Released(count, n) == IF count + n > MaxCount THEN count ELSE count + n

Smaller(a, b) == IF a < b THEN a ELSE b

\* What the semaphore is given when the reader closes: "we must release at least
\* 2 items of Semaphore".
CloseReleases_One == 1       \* mutant: one item
CloseReleases == 2

\* Event_Set and Event_Wait of the auto-reset event _canRead_Event.
EventSet == canRead' = TRUE

EventWait_Manual == canRead /\ UNCHANGED canRead    \* mutant: a manual-reset event
EventWait == canRead /\ canRead' = FALSE

-------------------------------------------------------------------------------
(* The state Create_ReInit() leaves, with two new streams on the binder.    *)

Init ==
  /\ canRead = FALSE
  /\ canWrite = 0
  /\ readingWasClosed2 = FALSE
  /\ waitWrite = TRUE
  /\ bufSize = 0
  /\ buf = Null
  /\ ProcessedSize = 0
  /\ wpc = "idle" /\ wSize = 0 /\ accepted = 0 /\ cut = FALSE
  /\ rpc = "idle" /\ rSize = 0 /\ eof = FALSE
  /\ session = 1

\* Event_Create_or_Reset, and the semaphore initialized with count 0.
SyncReset_KeepCount == canRead' = FALSE /\ UNCHANGED canWrite    \* mutant
SyncReset == canRead' = FALSE /\ canWrite' = 0

\* Mutant: ProcessedSize is not reset.
FieldsReset_KeepProcessed ==
  /\ readingWasClosed2' = FALSE /\ waitWrite' = TRUE
  /\ bufSize' = 0 /\ buf' = Null /\ UNCHANGED ProcessedSize
\* Mutant: _readingWasClosed2 is not reset.
FieldsReset_KeepClosed ==
  /\ UNCHANGED readingWasClosed2 /\ waitWrite' = TRUE
  /\ bufSize' = 0 /\ buf' = Null /\ ProcessedSize' = 0
FieldsReset ==
  /\ readingWasClosed2' = FALSE /\ waitWrite' = TRUE
  /\ bufSize' = 0 /\ buf' = Null /\ ProcessedSize' = 0

\* CMixerMT::ReInit2() before the next Code(): both streams have been released.
Create_ReInit ==
  /\ wpc = "closed" /\ rpc = "closed"
  /\ session < MaxSessions
  /\ session' = session + 1
  /\ SyncReset
  /\ FieldsReset
  /\ wpc' = "idle" /\ wSize' = 0 /\ accepted' = 0 /\ cut' = FALSE
  /\ rpc' = "idle" /\ rSize' = 0 /\ eof' = FALSE

-------------------------------------------------------------------------------
(* The writer: Write() and the release of its stream, CloseWrite().         *)

\* After the reader was found closed, Write() returns at once.
WriteCut ==
  /\ wpc = "idle" /\ readingWasClosed2
  /\ cut' = TRUE
  /\ UNCHANGED <<shared, wpc, wSize, accepted, reader, session>>

WriteCall ==
  /\ wpc = "idle" /\ ~readingWasClosed2
  /\ wSize' \in {n \in WriteSizes : accepted + n <= MaxBytes}
  /\ wpc' = "publish"
  /\ UNCHANGED <<shared, accepted, cut, reader, session>>

WritePublish ==
  /\ wpc = "publish"
  /\ buf' = accepted
  /\ bufSize' = wSize
  /\ wpc' = "signal"
  /\ UNCHANGED <<canRead, canWrite, readingWasClosed2, waitWrite, ProcessedSize,
                 wSize, accepted, cut, reader, session>>

WriteSignal ==
  /\ wpc = "signal"
  /\ EventSet
  /\ wpc' = "wait"
  /\ UNCHANGED <<canWrite, readingWasClosed2, waitWrite, bufSize, buf, ProcessedSize,
                 wSize, accepted, cut, reader, session>>

WriteWait ==
  /\ wpc = "wait"
  /\ canWrite > 0
  /\ canWrite' = canWrite - 1
  /\ wpc' = "collect"
  /\ UNCHANGED <<canRead, readingWasClosed2, waitWrite, bufSize, buf, ProcessedSize,
                 wSize, accepted, cut, reader, session>>

\* size - _bufSize: the part of the buffer that was read.
WasRead_All == wSize                    \* mutant: the size of the whole buffer
WasRead == wSize - bufSize

\* size -= _bufSize: what was read is reported; if nothing was, reading is over.
WriteCollect ==
  /\ wpc = "collect"
  /\ wpc' = "idle"
  /\ \/ /\ wSize # bufSize
        /\ accepted' = accepted + WasRead
        /\ UNCHANGED <<readingWasClosed2, cut>>
     \/ /\ wSize = bufSize
        /\ readingWasClosed2' = TRUE
        /\ cut' = TRUE
        /\ UNCHANGED accepted
  /\ UNCHANGED <<canRead, canWrite, waitWrite, bufSize, buf, ProcessedSize, wSize,
                 reader, session>>

\* The coder has returned and its output stream is released: ~CBinderOutStream.
CloseWriteCall ==
  /\ wpc = "idle"
  /\ wpc' = "closeClear"
  /\ UNCHANGED <<shared, wSize, accepted, cut, reader, session>>

CloseWriteClear ==
  /\ wpc = "closeClear"
  /\ buf' = Null
  /\ bufSize' = 0
  /\ wpc' = "closeSignal"
  /\ UNCHANGED <<canRead, canWrite, readingWasClosed2, waitWrite, ProcessedSize,
                 wSize, accepted, cut, reader, session>>

CloseWriteSignal ==
  /\ wpc = "closeSignal"
  /\ EventSet
  /\ wpc' = "closed"
  /\ UNCHANGED <<canWrite, readingWasClosed2, waitWrite, bufSize, buf, ProcessedSize,
                 wSize, accepted, cut, reader, session>>

-------------------------------------------------------------------------------
(* The reader: Read() and the release of its stream, CloseRead_CallOnce().  *)

ReadCall ==
  /\ rpc = "idle"
  /\ rSize' \in ReadSizes
  /\ rpc' = IF waitWrite THEN "wait" ELSE "copy"
  /\ UNCHANGED <<shared, writer, eof, session>>

ReadWait ==
  /\ rpc = "wait"
  /\ EventWait
  /\ waitWrite' = FALSE
  /\ rpc' = "copy"
  /\ UNCHANGED <<canWrite, readingWasClosed2, bufSize, buf, ProcessedSize,
                 writer, rSize, eof, session>>

\* (_canRead_Event && _bufSize == 0) means that stream is finished.
ReadEnd ==
  /\ rpc = "copy"
  /\ bufSize = 0
  /\ eof' = TRUE
  /\ rpc' = "idle"
  /\ UNCHANGED <<shared, writer, rSize, session>>

CopySize == Smaller(rSize, bufSize)

\* memcpy; the writer is unlocked only when the whole buffer has been read.
ReadCopy ==
  LET size == CopySize IN
  /\ rpc = "copy"
  /\ bufSize # 0
  /\ buf' = buf + size
  /\ ProcessedSize' = ProcessedSize + size
  /\ bufSize' = bufSize - size
  /\ waitWrite' = (size = bufSize)
  /\ rpc' = IF size = bufSize THEN "release" ELSE "idle"
  /\ UNCHANGED <<canRead, canWrite, readingWasClosed2, writer, rSize, eof, session>>

ReadRelease ==
  /\ rpc = "release"
  /\ canWrite' = Released(canWrite, 1)
  /\ rpc' = "idle"
  /\ UNCHANGED <<canRead, readingWasClosed2, waitWrite, bufSize, buf, ProcessedSize,
                 writer, rSize, eof, session>>

\* The coder has returned and its input stream is released: ~CBinderInStream.
CloseRead_CallOnce ==
  /\ rpc = "idle"
  /\ canWrite' = Released(canWrite, CloseReleases)
  /\ rpc' = "closed"
  /\ UNCHANGED <<canRead, readingWasClosed2, waitWrite, bufSize, buf, ProcessedSize,
                 writer, rSize, eof, session>>

-------------------------------------------------------------------------------

WriterStep ==
  \/ WriteCut \/ WriteCall \/ WritePublish \/ WriteSignal \/ WriteWait \/ WriteCollect
  \/ CloseWriteCall \/ CloseWriteClear \/ CloseWriteSignal

ReaderStep ==
  \/ ReadCall \/ ReadWait \/ ReadEnd \/ ReadCopy \/ ReadRelease \/ CloseRead_CallOnce

\* Both streams were released and the binder is not used again.
Finished ==
  /\ wpc = "closed" /\ rpc = "closed" /\ session = MaxSessions
  /\ UNCHANGED vars

Next == WriterStep \/ ReaderStep \/ Create_ReInit \/ Finished

Spec == Init /\ [][Next]_vars

\* Each thread runs: a coder that is not blocked goes on calling its stream or
\* returns, and then CCoderMT::Code() releases the stream.
FairSpec == Spec /\ WF_vars(WriterStep) /\ WF_vars(ReaderStep)

-------------------------------------------------------------------------------
(* Properties.                                                              *)

WriterStates == {"idle", "publish", "signal", "wait", "collect",
                 "closeClear", "closeSignal", "closed"}
ReaderStates == {"idle", "wait", "copy", "release", "closed"}

\* Type invariant of the binder's fields and of its two threads.
TypeOK ==
  /\ canRead \in BOOLEAN
  /\ canWrite \in 0 .. MaxCount
  /\ readingWasClosed2 \in BOOLEAN /\ waitWrite \in BOOLEAN
  /\ bufSize \in Nat /\ buf \in Nat \cup {Null} /\ ProcessedSize \in Nat
  /\ wpc \in WriterStates /\ wSize \in Nat /\ accepted \in Nat /\ cut \in BOOLEAN
  /\ rpc \in ReaderStates /\ rSize \in Nat /\ eof \in BOOLEAN
  /\ session \in 1 .. MaxSessions

\* _buf and _bufSize are plain fields shared by two threads with no lock: the
\* thread about to read or write them never meets the other one there.
NoDataRace ==
  ~ /\ rpc = "copy"
    /\ wpc \in {"publish", "collect", "closeClear"}

\* What memcpy copies is the byte of the writer's stream that follows the last
\* one the reader got: nothing is skipped or read twice, whatever the sizes are
\* and however the stream was cut into Writes.
ReadsNextByte ==
  rpc = "copy" /\ bufSize # 0 => buf = ProcessedSize

\* Between two Writes the writer has been told of exactly the bytes the reader
\* copied, also when the reader closed in the middle of a Write.
AccountingExact ==
  wpc \in {"idle", "publish", "closeClear", "closed"} => accepted = ProcessedSize

\* CloseRead_CallOnce: "we must release at least 2 items of Semaphore" and
\* Create_ReInit: "we need at least 3 items of maxCount": no release of either
\* thread can be refused by the semaphore.
NoReleaseRefused ==
  /\ rpc = "release" => canWrite + 1 <= MaxCount
  /\ rpc = "idle" => canWrite + CloseReleases <= MaxCount

\* The binder is the pipe of module Pipe: Write() reports a part of its data only
\* when the reader has closed, Read() reports the end only after CloseWrite() and
\* when every accepted byte was delivered, and Write() reports the cut only after
\* the reader closed and after the iteration that accounts for its last bytes.
P == INSTANCE Pipe WITH
  accepted   <- accepted,
  offered    <- IF wpc \in {"publish", "signal", "wait", "collect"}
                THEN accepted + wSize ELSE accepted,
  delivered  <- ProcessedSize,
  writerOpen <- wpc # "closed",
  readerOpen <- rpc # "closed",
  eof        <- eof,
  cut        <- cut

ImplementsPipe == P!Spec

\* A Write() in progress returns: the reader consumes the buffer or closes, and
\* neither the event nor the semaphore loses the wakeup.
WriteReturns == (wpc = "wait") ~> (wpc = "idle")

\* A Read() in progress returns: the writer writes or closes.
ReadReturns == (rpc = "wait") ~> (rpc = "idle")

\* No call waits for ever: neither side is left without the wakeup that ends its wait,
\* whichever of them closes, and at whatever moment of the other's call.
CallsReturn == WriteReturns /\ ReadReturns
===============================================================================
