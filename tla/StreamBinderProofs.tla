-------------------------- MODULE StreamBinderProofs --------------------------
(***************************************************************************)
(* Proofs about module StreamBinder, for every set of sizes and every bound: *)
(* the type invariant, the safety invariants its run checks, and that the   *)
(* binder implements the pipe of module Pipe.                               *)
(*                                                                          *)
(* None of the safety invariants is inductive: that the reader never meets  *)
(* the writer in the buffer fields follows from where the one permission to *)
(* use them is.  It passes from the writer to the pending event, to the     *)
(* reader, to the pending semaphore item and back, and ends at the reader   *)
(* when the writer has closed: the five disjuncts of Turn.                  *)
(***************************************************************************)
EXTENDS StreamBinder, TLAPS

Writing == {"publish", "signal", "wait", "collect"}

\* The writer may use the fields; the reader can only be on its way to wait.
WritersTurn ==
  /\ wpc \in {"idle", "publish", "signal", "collect", "closeClear", "closeSignal"}
  /\ ~canRead /\ waitWrite /\ canWrite = 0
  /\ rpc \in {"idle", "wait"}
  /\ wpc = "collect" => bufSize = 0

\* The writer has published its buffer and the event is signaled.
Signaled ==
  /\ wpc = "wait"
  /\ canRead /\ waitWrite /\ canWrite = 0
  /\ rpc \in {"idle", "wait"}
  /\ bufSize = wSize

\* The reader has taken the event and not yet emptied the buffer.
ReadersTurn ==
  /\ wpc = "wait"
  /\ ~canRead /\ ~waitWrite /\ canWrite = 0
  /\ rpc \in {"idle", "copy"}
  /\ bufSize > 0

\* The buffer is empty; the writer is released, or is about to be.
Emptied ==
  /\ wpc = "wait"
  /\ ~canRead /\ waitWrite
  /\ bufSize = 0
  /\ \/ canWrite = 0 /\ rpc = "release"
     \/ canWrite = 1 /\ rpc \in {"idle", "wait"}

\* The writer has closed; the reader sees the end whenever it reads.
Ended ==
  /\ wpc = "closed"
  /\ canWrite = 0
  /\ bufSize = 0
  /\ \/ canRead /\ waitWrite /\ rpc \in {"idle", "wait"}
     \/ ~canRead /\ ~waitWrite /\ rpc \in {"idle", "copy"}

Turn == WritersTurn \/ Signaled \/ ReadersTurn \/ Emptied \/ Ended

\* While the reader is open it holds its place in the handshake, and the writer
\* has not found it closed.
Handshake == rpc # "closed" => Turn /\ ~readingWasClosed2

\* What was read is what was reported plus the consumed part of the Write.
Accounting ==
  /\ wpc \in {"idle", "publish", "closeClear", "closeSignal", "closed"} =>
       accepted = ProcessedSize
  /\ wpc \in {"signal", "wait", "collect"} =>
       bufSize <= wSize /\ ProcessedSize = accepted + (wSize - bufSize)
  /\ wpc \in {"signal", "wait"} => buf = ProcessedSize
  /\ wpc = "signal" => bufSize = wSize
  /\ wpc \in {"closeSignal", "closed"} => bufSize = 0
  /\ wpc \in Writing => wSize > 0
  /\ rpc \in {"wait", "copy"} => rSize > 0

IInv == TypeOK /\ Handshake /\ Accounting

-------------------------------------------------------------------------------

LEMMA InitInv == Init => IInv
<1> SUFFICES ASSUME Init PROVE IInv
  OBVIOUS
<1>0. MaxSessions \in Nat /\ 1 <= MaxSessions
  BY SizesAssumption
<1>1. TypeOK
  <2>1. /\ canRead \in BOOLEAN /\ readingWasClosed2 \in BOOLEAN /\ waitWrite \in BOOLEAN
        /\ cut \in BOOLEAN /\ eof \in BOOLEAN
    BY DEF Init
  <2>2. /\ canWrite \in 0 .. MaxCount /\ session \in 1 .. MaxSessions
        /\ bufSize \in Nat /\ buf \in Nat \cup {Null} /\ ProcessedSize \in Nat
        /\ wSize \in Nat /\ accepted \in Nat /\ rSize \in Nat
    BY <1>0 DEF Init, MaxCount
  <2>3. wpc \in WriterStates /\ rpc \in ReaderStates
    BY DEF Init, WriterStates, ReaderStates
  <2> QED
    BY <2>1, <2>2, <2>3 DEF TypeOK
<1>2. Handshake
  BY DEF Init, Handshake, Turn, WritersTurn
<1>3. Accounting
  BY DEF Init, Accounting, Writing
<1> QED
  BY <1>1, <1>2, <1>3 DEF IInv

LEMMA NextInv == IInv /\ [Next]_vars => IInv'
<1> SUFFICES ASSUME IInv, [Next]_vars PROVE IInv'
  OBVIOUS
<1>0. TypeOK /\ Handshake /\ Accounting
  BY DEF IInv
<1>1. CASE WriteCut
  <2>1. TypeOK'
    BY <1>0, <1>1, SizesAssumption DEF WriteCut, shared, reader, TypeOK, WriterStates, ReaderStates, MaxCount, Null, Accounting
  <2>2. Handshake'
    BY <1>0, <1>1 DEF WriteCut, shared, reader, Handshake, Turn, WritersTurn, Signaled, ReadersTurn, Emptied, Ended, Accounting, Writing, TypeOK,
           WriterStates, ReaderStates
  <2>3. Accounting'
    BY <1>0, <1>1, SizesAssumption DEF WriteCut, shared, reader, Accounting, Writing, Handshake, Turn, WritersTurn, Signaled, ReadersTurn, Emptied, Ended, TypeOK, ReaderStates, WriterStates
  <2> QED
    BY <2>1, <2>2, <2>3 DEF IInv
<1>2. CASE WriteCall
  <2>1. TypeOK'
    BY <1>0, <1>2, SizesAssumption DEF WriteCall, shared, reader, TypeOK, WriterStates, ReaderStates, MaxCount, Null, Accounting
  <2>2. Handshake'
    BY <1>0, <1>2 DEF WriteCall, shared, reader, Handshake, Turn, WritersTurn, Signaled, ReadersTurn, Emptied, Ended, Accounting, Writing, TypeOK,
           WriterStates, ReaderStates
  <2>3. Accounting'
    BY <1>0, <1>2, SizesAssumption DEF WriteCall, shared, reader, Accounting, Writing, Handshake, Turn, WritersTurn, Signaled, ReadersTurn, Emptied, Ended, TypeOK, ReaderStates, WriterStates
  <2> QED
    BY <2>1, <2>2, <2>3 DEF IInv
<1>3. CASE WritePublish
  <2>1. TypeOK'
    BY <1>0, <1>3, SizesAssumption DEF WritePublish, reader, TypeOK, WriterStates, ReaderStates, MaxCount, Null, Accounting
  <2>2. Handshake'
    BY <1>0, <1>3 DEF WritePublish, reader, Handshake, Turn, WritersTurn, Signaled, ReadersTurn, Emptied, Ended, Accounting, Writing, TypeOK,
           WriterStates, ReaderStates
  <2>3. Accounting'
    BY <1>0, <1>3, SizesAssumption DEF WritePublish, reader, Accounting, Writing, Handshake, Turn, WritersTurn, Signaled, ReadersTurn, Emptied, Ended, TypeOK, ReaderStates, WriterStates
  <2> QED
    BY <2>1, <2>2, <2>3 DEF IInv
<1>4. CASE WriteSignal
  <2>1. TypeOK'
    BY <1>0, <1>4, SizesAssumption DEF WriteSignal, EventSet, reader, TypeOK, WriterStates, ReaderStates, MaxCount, Null, Accounting
  <2>2. Handshake'
    BY <1>0, <1>4 DEF WriteSignal, EventSet, reader, Handshake, Turn, WritersTurn, Signaled, ReadersTurn, Emptied, Ended, Accounting, Writing, TypeOK,
           WriterStates, ReaderStates
  <2>3. Accounting'
    BY <1>0, <1>4, SizesAssumption DEF WriteSignal, EventSet, reader, Accounting, Writing, Handshake, Turn, WritersTurn, Signaled, ReadersTurn, Emptied, Ended, TypeOK, ReaderStates, WriterStates
  <2> QED
    BY <2>1, <2>2, <2>3 DEF IInv
<1>5. CASE WriteWait
  <2>1. TypeOK'
    BY <1>0, <1>5, SizesAssumption DEF WriteWait, reader, TypeOK, WriterStates, ReaderStates, MaxCount, Null, Accounting
  <2>2. Handshake'
    BY <1>0, <1>5 DEF WriteWait, reader, Handshake, Turn, WritersTurn, Signaled, ReadersTurn, Emptied, Ended, Accounting, Writing, TypeOK,
           WriterStates, ReaderStates
  <2>3. Accounting'
    BY <1>0, <1>5, SizesAssumption DEF WriteWait, reader, Accounting, Writing, Handshake, Turn, WritersTurn, Signaled, ReadersTurn, Emptied, Ended, TypeOK, ReaderStates, WriterStates
  <2> QED
    BY <2>1, <2>2, <2>3 DEF IInv
<1>6. CASE WriteCollect
  <2>1. TypeOK'
    BY <1>0, <1>6, SizesAssumption DEF WriteCollect, WasRead, reader, TypeOK, WriterStates, ReaderStates, MaxCount, Null, Accounting
  <2>2. Handshake'
    BY <1>0, <1>6 DEF WriteCollect, WasRead, reader, Handshake, Turn, WritersTurn, Signaled, ReadersTurn, Emptied, Ended, Accounting, Writing, TypeOK,
           WriterStates, ReaderStates
  <2>3. Accounting'
    BY <1>0, <1>6, SizesAssumption DEF WriteCollect, WasRead, reader, Accounting, Writing, Handshake, Turn, WritersTurn, Signaled, ReadersTurn, Emptied, Ended, TypeOK, ReaderStates, WriterStates
  <2> QED
    BY <2>1, <2>2, <2>3 DEF IInv
<1>7. CASE CloseWriteCall
  <2>1. TypeOK'
    BY <1>0, <1>7, SizesAssumption DEF CloseWriteCall, shared, reader, TypeOK, WriterStates, ReaderStates, MaxCount, Null, Accounting
  <2>2. Handshake'
    BY <1>0, <1>7 DEF CloseWriteCall, shared, reader, Handshake, Turn, WritersTurn, Signaled, ReadersTurn, Emptied, Ended, Accounting, Writing, TypeOK,
           WriterStates, ReaderStates
  <2>3. Accounting'
    BY <1>0, <1>7, SizesAssumption DEF CloseWriteCall, shared, reader, Accounting, Writing, Handshake, Turn, WritersTurn, Signaled, ReadersTurn, Emptied, Ended, TypeOK, ReaderStates, WriterStates
  <2> QED
    BY <2>1, <2>2, <2>3 DEF IInv
<1>8. CASE CloseWriteClear
  <2>1. TypeOK'
    BY <1>0, <1>8, SizesAssumption DEF CloseWriteClear, reader, TypeOK, WriterStates, ReaderStates, MaxCount, Null, Accounting
  <2>2. Handshake'
    BY <1>0, <1>8 DEF CloseWriteClear, reader, Handshake, Turn, WritersTurn, Signaled, ReadersTurn, Emptied, Ended, Accounting, Writing, TypeOK,
           WriterStates, ReaderStates
  <2>3. Accounting'
    BY <1>0, <1>8, SizesAssumption DEF CloseWriteClear, reader, Accounting, Writing, Handshake, Turn, WritersTurn, Signaled, ReadersTurn, Emptied, Ended, TypeOK, ReaderStates, WriterStates
  <2> QED
    BY <2>1, <2>2, <2>3 DEF IInv
<1>9. CASE CloseWriteSignal
  <2>1. TypeOK'
    BY <1>0, <1>9, SizesAssumption DEF CloseWriteSignal, EventSet, reader, TypeOK, WriterStates, ReaderStates, MaxCount, Null, Accounting
  <2>2. Handshake'
    BY <1>0, <1>9 DEF CloseWriteSignal, EventSet, reader, Handshake, Turn, WritersTurn, Signaled, ReadersTurn, Emptied, Ended, Accounting, Writing, TypeOK,
           WriterStates, ReaderStates
  <2>3. Accounting'
    BY <1>0, <1>9, SizesAssumption DEF CloseWriteSignal, EventSet, reader, Accounting, Writing, Handshake, Turn, WritersTurn, Signaled, ReadersTurn, Emptied, Ended, TypeOK, ReaderStates, WriterStates
  <2> QED
    BY <2>1, <2>2, <2>3 DEF IInv
<1>10. CASE ReadCall
  <2>1. TypeOK'
    BY <1>0, <1>10, SizesAssumption DEF ReadCall, shared, writer, TypeOK, WriterStates, ReaderStates, MaxCount, Null, Accounting
  <2>2. Handshake'
    BY <1>0, <1>10 DEF ReadCall, shared, writer, Handshake, Turn, WritersTurn, Signaled, ReadersTurn, Emptied, Ended, Accounting, Writing, TypeOK,
           WriterStates, ReaderStates
  <2>3. Accounting'
    BY <1>0, <1>10, SizesAssumption DEF ReadCall, shared, writer, Accounting, Writing, Handshake, Turn, WritersTurn, Signaled, ReadersTurn, Emptied, Ended, TypeOK, ReaderStates, WriterStates
  <2> QED
    BY <2>1, <2>2, <2>3 DEF IInv
<1>11. CASE ReadWait
  <2>1. TypeOK'
    BY <1>0, <1>11, SizesAssumption DEF ReadWait, EventWait, writer, TypeOK, WriterStates, ReaderStates, MaxCount, Null, Accounting
  <2>2. Handshake'
    BY <1>0, <1>11 DEF ReadWait, EventWait, writer, Handshake, Turn, WritersTurn, Signaled, ReadersTurn, Emptied, Ended, Accounting, Writing, TypeOK,
           WriterStates, ReaderStates
  <2>3. Accounting'
    BY <1>0, <1>11, SizesAssumption DEF ReadWait, EventWait, writer, Accounting, Writing, Handshake, Turn, WritersTurn, Signaled, ReadersTurn, Emptied, Ended, TypeOK, ReaderStates, WriterStates
  <2> QED
    BY <2>1, <2>2, <2>3 DEF IInv
<1>12. CASE ReadEnd
  <2>1. TypeOK'
    BY <1>0, <1>12, SizesAssumption DEF ReadEnd, shared, writer, TypeOK, WriterStates, ReaderStates, MaxCount, Null, Accounting
  <2>2. Handshake'
    BY <1>0, <1>12 DEF ReadEnd, shared, writer, Handshake, Turn, WritersTurn, Signaled, ReadersTurn, Emptied, Ended, Accounting, Writing, TypeOK,
           WriterStates, ReaderStates
  <2>3. Accounting'
    BY <1>0, <1>12, SizesAssumption DEF ReadEnd, shared, writer, Accounting, Writing, Handshake, Turn, WritersTurn, Signaled, ReadersTurn, Emptied, Ended, TypeOK, ReaderStates, WriterStates
  <2> QED
    BY <2>1, <2>2, <2>3 DEF IInv
<1>13. CASE ReadCopy
  <2>1. TypeOK'
    BY <1>0, <1>13, SizesAssumption DEF ReadCopy, CopySize, Smaller, writer, TypeOK, WriterStates, ReaderStates, MaxCount, Null, Accounting
  <2>2. Handshake'
    <3>1. ReadersTurn /\ rSize > 0 /\ ~readingWasClosed2
      BY <1>0, <1>13 DEF ReadCopy, Handshake, Turn, WritersTurn, Signaled, ReadersTurn,
         Emptied, Ended, Accounting
    <3>2. CASE rSize < bufSize
      BY <1>0, <1>13, <3>1, <3>2 DEF ReadCopy, CopySize, Smaller, writer, TypeOK,
         Handshake, Turn, ReadersTurn
    <3>3. CASE ~(rSize < bufSize)
      <4>1. CopySize = bufSize /\ bufSize - bufSize = 0
        BY <1>0, <3>3 DEF CopySize, Smaller, TypeOK
      <4>2. Emptied'
        BY <1>13, <3>1, <4>1 DEF ReadCopy, writer, ReadersTurn, Emptied
      <4> QED
        BY <1>13, <3>1, <4>2 DEF ReadCopy, Handshake, Turn
    <3> QED
      BY <3>2, <3>3
  <2>3. Accounting'
    BY <1>0, <1>13, SizesAssumption DEF ReadCopy, CopySize, Smaller, writer, Accounting, Writing, Handshake, Turn, WritersTurn, Signaled, ReadersTurn, Emptied, Ended, TypeOK, ReaderStates, WriterStates
  <2> QED
    BY <2>1, <2>2, <2>3 DEF IInv
<1>14. CASE ReadRelease
  <2>1. TypeOK'
    BY <1>0, <1>14, SizesAssumption DEF ReadRelease, Released, MaxCount, writer, TypeOK, WriterStates, ReaderStates, MaxCount, Null, Accounting
  <2>2. Handshake'
    BY <1>0, <1>14 DEF ReadRelease, Released, MaxCount, writer, Handshake, Turn, WritersTurn, Signaled, ReadersTurn, Emptied, Ended, Accounting, Writing, TypeOK,
           WriterStates, ReaderStates
  <2>3. Accounting'
    BY <1>0, <1>14, SizesAssumption DEF ReadRelease, Released, MaxCount, writer, Accounting, Writing, Handshake, Turn, WritersTurn, Signaled, ReadersTurn, Emptied, Ended, TypeOK, ReaderStates, WriterStates
  <2> QED
    BY <2>1, <2>2, <2>3 DEF IInv
<1>15. CASE CloseRead_CallOnce
  <2>1. TypeOK'
    BY <1>0, <1>15, SizesAssumption DEF CloseRead_CallOnce, Released, MaxCount, CloseReleases, writer, TypeOK, WriterStates, ReaderStates, MaxCount, Null, Accounting
  <2>2. Handshake'
    BY <1>0, <1>15 DEF CloseRead_CallOnce, Released, MaxCount, CloseReleases, writer, Handshake, Turn, WritersTurn, Signaled, ReadersTurn, Emptied, Ended, Accounting, Writing, TypeOK,
           WriterStates, ReaderStates
  <2>3. Accounting'
    BY <1>0, <1>15, SizesAssumption DEF CloseRead_CallOnce, Released, MaxCount, CloseReleases, writer, Accounting, Writing, Handshake, Turn, WritersTurn, Signaled, ReadersTurn, Emptied, Ended, TypeOK, ReaderStates, WriterStates
  <2> QED
    BY <2>1, <2>2, <2>3 DEF IInv
<1>16. CASE Create_ReInit
  <2>1. TypeOK'
    <3>1. /\ canRead' \in BOOLEAN /\ readingWasClosed2' \in BOOLEAN /\ waitWrite' \in BOOLEAN
          /\ cut' \in BOOLEAN /\ eof' \in BOOLEAN
      BY <1>16 DEF Create_ReInit, SyncReset, FieldsReset
    <3>2. /\ canWrite' \in 0 .. MaxCount /\ session' \in 1 .. MaxSessions
          /\ bufSize' \in Nat /\ buf' \in Nat \cup {Null} /\ ProcessedSize' \in Nat
          /\ wSize' \in Nat /\ accepted' \in Nat /\ rSize' \in Nat
      BY <1>0, <1>16, SizesAssumption DEF Create_ReInit, SyncReset, FieldsReset, MaxCount, TypeOK
    <3>3. wpc' \in WriterStates /\ rpc' \in ReaderStates
      BY <1>16 DEF Create_ReInit, WriterStates, ReaderStates
    <3> QED
      BY <3>1, <3>2, <3>3 DEF TypeOK
  <2>2. Handshake'
    BY <1>0, <1>16 DEF Create_ReInit, SyncReset, FieldsReset, Null, Handshake, Turn, WritersTurn, Signaled, ReadersTurn, Emptied, Ended, Accounting, Writing, TypeOK,
           WriterStates, ReaderStates
  <2>3. Accounting'
    BY <1>0, <1>16, SizesAssumption DEF Create_ReInit, SyncReset, FieldsReset, Null, Accounting, Writing, Handshake, Turn, WritersTurn, Signaled, ReadersTurn, Emptied, Ended, TypeOK, ReaderStates, WriterStates
  <2> QED
    BY <2>1, <2>2, <2>3 DEF IInv
<1>17. CASE UNCHANGED vars
  BY <1>0, <1>17 DEF vars, shared, writer, reader, IInv, TypeOK, WriterStates, ReaderStates, MaxCount, Null, Handshake, Turn, WritersTurn, Signaled, ReadersTurn, Emptied, Ended, Accounting, Writing
<1> QED
  BY <1>1, <1>2, <1>3, <1>4, <1>5, <1>6, <1>7, <1>8, <1>9, <1>10, <1>11, <1>12, <1>13, <1>14, <1>15, <1>16, <1>17 DEF Next, WriterStep, ReaderStep, Finished

-------------------------------------------------------------------------------

\* The inductive invariant holds in every reachable state.
THEOREM Invariance == Spec => []IInv
BY InitInv, NextInv, PTL DEF Spec

\* CStreamBinder's fields and the two threads keep their types: the semaphore its
\* range, the remaining size never below zero.
THEOREM TypeCorrect == Spec => []TypeOK
BY Invariance, PTL DEF IInv

LEMMA InvSafe == IInv => NoDataRace /\ ReadsNextByte /\ AccountingExact /\ NoReleaseRefused
<1> SUFFICES ASSUME IInv
             PROVE  NoDataRace /\ ReadsNextByte /\ AccountingExact /\ NoReleaseRefused
  OBVIOUS
<1>0. TypeOK /\ Handshake /\ Accounting
  BY DEF IInv
<1>1. NoDataRace
  BY <1>0 DEF NoDataRace, Handshake, Turn, WritersTurn, Signaled,
         ReadersTurn, Emptied, Ended
<1>2. ReadsNextByte
  BY <1>0 DEF ReadsNextByte, Accounting, Handshake, Turn, WritersTurn, Signaled,
         ReadersTurn, Emptied, Ended
<1>3. AccountingExact
  BY <1>0 DEF AccountingExact, Accounting
<1>4. NoReleaseRefused
  BY <1>0 DEF NoReleaseRefused, CloseReleases, MaxCount, TypeOK, Handshake, Turn, WritersTurn, Signaled,
         ReadersTurn, Emptied, Ended
<1> QED
  BY <1>1, <1>2, <1>3, <1>4

\* The reader in Read() and the writer around its wait never use the unprotected
\* fields _buf and _bufSize at the same time.
THEOREM RaceFree == Spec => []NoDataRace
BY Invariance, InvSafe, PTL

\* Read() copies the byte that follows the last one it copied.
THEOREM InOrder == Spec => []ReadsNextByte
BY Invariance, InvSafe, PTL

\* Write() reports exactly the bytes that Read() copied.
THEOREM Accounted == Spec => []AccountingExact
BY Invariance, InvSafe, PTL

\* The maximum count 3 of the semaphore is enough for every Release of a session.
THEOREM ReleasesAccepted == Spec => []NoReleaseRefused
BY Invariance, InvSafe, PTL

-------------------------------------------------------------------------------
(* The binder implements the pipe.                                          *)

LEMMA Grows == ASSUME NEW a \in Nat, NEW n \in Nat, n > 0 PROVE a + n \in Nat /\ a + n > a
OBVIOUS

LEMMA PipeInit == Init => P!Init
BY DEF Init, P!Init

LEMMA PipeStep == IInv /\ [Next]_vars => [P!Next]_P!vars
<1> SUFFICES ASSUME IInv, [Next]_vars PROVE [P!Next]_P!vars
  OBVIOUS
<1>0. TypeOK /\ Handshake /\ Accounting
  BY DEF IInv
<1>3. CASE WritePublish
  BY <1>3 DEF WritePublish, reader, P!vars
<1>4. CASE WriteSignal
  BY <1>4 DEF WriteSignal, reader, P!vars
<1>5. CASE WriteWait
  BY <1>5 DEF WriteWait, reader, P!vars
<1>7. CASE CloseWriteCall
  BY <1>7 DEF CloseWriteCall, shared, reader, P!vars
<1>8. CASE CloseWriteClear
  BY <1>8 DEF CloseWriteClear, reader, P!vars
<1>10. CASE ReadCall
  BY <1>10 DEF ReadCall, shared, writer, P!vars
<1>11. CASE ReadWait
  BY <1>11 DEF ReadWait, writer, P!vars
<1>14. CASE ReadRelease
  BY <1>14 DEF ReadRelease, writer, P!vars
<1>1. CASE WriteCut
  <2>1. rpc = "closed" /\ ProcessedSize = accepted
    BY <1>0, <1>1 DEF WriteCut, Handshake, Accounting
  <2>2. P!Cut
    BY <1>1, <2>1 DEF WriteCut, shared, reader, P!Cut
  <2> QED
    BY <2>2 DEF P!Next
<1>2. CASE WriteCall
  <2>1. wSize' \in Nat /\ wSize' > 0 /\ accepted \in Nat
    BY <1>0, <1>2, SizesAssumption DEF WriteCall, TypeOK
  <2>2. accepted + wSize' \in Nat /\ accepted + wSize' > accepted
    BY <2>1, Grows
  <2>3. /\ wpc = "idle" /\ wpc' = "publish" /\ accepted' = accepted
        /\ UNCHANGED <<ProcessedSize, rpc, eof, cut>>
    BY <1>2 DEF WriteCall, shared, reader
  <2>4. P!Offer
    BY <2>2, <2>3 DEF P!Offer
  <2> QED
    BY <2>4 DEF P!Next
<1>6. CASE WriteCollect
  <2>1. /\ bufSize \in Nat /\ wSize \in Nat /\ accepted \in Nat
        /\ bufSize <= wSize /\ ProcessedSize = accepted + (wSize - bufSize)
        /\ wSize > 0
    BY <1>0, <1>6 DEF WriteCollect, TypeOK, Accounting, Writing
  <2>2. bufSize = 0 \/ rpc = "closed"
    BY <1>0, <1>6 DEF WriteCollect, Handshake, Turn, WritersTurn, Signaled, ReadersTurn,
       Emptied, Ended
  <2>3. CASE wSize # bufSize
    <3>1. P!Accept
      BY <1>6, <2>1, <2>2, <2>3 DEF WriteCollect, WasRead, reader, P!Accept
    <3> QED
      BY <3>1 DEF P!Next
  <2>4. CASE wSize = bufSize
    <3>1. P!Cut
      BY <1>6, <2>1, <2>2, <2>4 DEF WriteCollect, reader, P!Cut
    <3> QED
      BY <3>1 DEF P!Next
  <2> QED
    BY <2>3, <2>4 DEF P!Next
<1>9. CASE CloseWriteSignal
  <2>1. P!CloseWriter
    BY <1>9 DEF CloseWriteSignal, reader, P!CloseWriter
  <2> QED
    BY <2>1 DEF P!Next
<1>12. CASE ReadEnd
  <2>1. wpc = "closed" /\ ProcessedSize = accepted
    BY <1>0, <1>12 DEF ReadEnd, Accounting, Handshake, Turn, WritersTurn, Signaled,
       ReadersTurn, Emptied, Ended
  <2>2. P!Eof
    BY <1>12, <2>1 DEF ReadEnd, shared, writer, P!Eof
  <2> QED
    BY <2>2 DEF P!Next
<1>13. CASE ReadCopy
  <2>1. /\ wpc = "wait" /\ bufSize > 0 /\ rSize > 0
        /\ bufSize \in Nat /\ rSize \in Nat /\ wSize \in Nat /\ accepted \in Nat
        /\ ProcessedSize \in Nat /\ ProcessedSize = accepted + (wSize - bufSize)
    BY <1>0, <1>13 DEF ReadCopy, TypeOK, Accounting, Handshake, Turn, WritersTurn, Signaled,
       ReadersTurn, Emptied, Ended
  <2>2. CopySize \in 1 .. bufSize
    BY <2>1 DEF CopySize, Smaller
  <2>3. ProcessedSize' = ProcessedSize + CopySize
    BY <1>13 DEF ReadCopy
  <2>4. ProcessedSize' \in (ProcessedSize + 1) .. (accepted + wSize)
    BY <2>1, <2>2, <2>3
  <2>5. rpc = "copy" /\ rpc' \in {"release", "idle"}
    BY <1>13 DEF ReadCopy
  <2>6. P!Take
    BY <1>13, <2>1, <2>4, <2>5 DEF ReadCopy, writer, P!Take
  <2> QED
    BY <2>6 DEF P!Next
<1>15. CASE CloseRead_CallOnce
  <2>1. P!CloseReader
    BY <1>15 DEF CloseRead_CallOnce, writer, P!CloseReader
  <2> QED
    BY <2>1 DEF P!Next
<1>16. CASE Create_ReInit
  <2>1. P!Restart
    BY <1>16 DEF Create_ReInit, FieldsReset, P!Restart
  <2> QED
    BY <2>1 DEF P!Next
<1>17. CASE UNCHANGED vars
  BY <1>17 DEF vars, shared, writer, reader, P!vars
<1> QED
  BY <1>1, <1>2, <1>3, <1>4, <1>5, <1>6, <1>7, <1>8, <1>9, <1>10, <1>11, <1>12, <1>13, <1>14, <1>15, <1>16, <1>17 DEF Next, WriterStep, ReaderStep, Finished

\* Every behaviour of the binder is a behaviour of the pipe: nothing is lost or
\* delivered twice, a Write is short or cut only when the reader has closed, and
\* the end is reported only when the writer has closed and all was delivered.
THEOREM Refinement == Spec => ImplementsPipe
<1>1. Spec => P!Init /\ [][P!Next]_P!vars
  BY PipeInit, PipeStep, Invariance, PTL DEF Spec
<1> QED
  BY <1>1 DEF ImplementsPipe, P!Spec
===============================================================================
