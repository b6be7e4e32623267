--------------------------------- MODULE Pipe ---------------------------------
(***************************************************************************)
(* What a CStreamBinder promises the two coders it connects, without the    *)
(* event, the semaphore and the shared buffer fields that implement it.     *)
(*                                                                          *)
(* The writer's stream is the sequence of bytes 1, 2, 3, ...; positions in  *)
(* it are all the data the promise is about.  A Write offers the bytes      *)
(* after `accepted' up to `offered' and the reader takes them in order; the *)
(* Write returns when every offered byte was taken, or, once the reader has *)
(* closed, with the part that was taken.                                    *)
(***************************************************************************)
EXTENDS Naturals

VARIABLES
  accepted,    \* bytes the writer has been told were written
  offered,     \* accepted + the size of the Write in progress (0 if there is none)
  delivered,   \* bytes the reader has received
  writerOpen,  \* the writer has not closed its end
  readerOpen,  \* the reader has not closed its end
  eof,         \* some Read has returned 0 bytes: the reader was told of the end
  cut          \* some Write has returned k_My_HRESULT_WritingWasCut

vars == <<accepted, offered, delivered, writerOpen, readerOpen, eof, cut>>

Init ==
  /\ accepted = 0 /\ offered = 0 /\ delivered = 0
  /\ writerOpen = TRUE /\ readerOpen = TRUE
  /\ eof = FALSE /\ cut = FALSE

\* The writer starts a Write.
Offer ==
  /\ writerOpen
  /\ offered = accepted
  /\ offered' \in Nat /\ offered' > accepted
  /\ UNCHANGED <<accepted, delivered, writerOpen, readerOpen, eof, cut>>

\* A Read returns some of the offered bytes.
Take ==
  /\ readerOpen
  /\ delivered' \in (delivered + 1) .. offered
  /\ UNCHANGED <<accepted, offered, writerOpen, readerOpen, eof, cut>>

\* The Write returns S_OK with the number of bytes that were taken.
Accept ==
  /\ delivered > accepted
  /\ delivered = offered \/ ~readerOpen
  /\ accepted' = delivered
  /\ offered' = delivered
  /\ UNCHANGED <<delivered, writerOpen, readerOpen, eof, cut>>

\* The Write returns k_My_HRESULT_WritingWasCut: nothing of it was taken.
Cut ==
  /\ ~readerOpen
  /\ delivered = accepted
  /\ offered' = accepted
  /\ cut' = TRUE
  /\ UNCHANGED <<accepted, delivered, writerOpen, readerOpen, eof>>

\* A Read returns 0 bytes: only after the writer closed, and with nothing lost.
Eof ==
  /\ readerOpen
  /\ ~writerOpen
  /\ delivered = accepted
  /\ eof' = TRUE
  /\ UNCHANGED <<accepted, offered, delivered, writerOpen, readerOpen, cut>>

CloseWriter ==
  /\ writerOpen
  /\ offered = accepted
  /\ writerOpen' = FALSE
  /\ UNCHANGED <<accepted, offered, delivered, readerOpen, eof, cut>>

CloseReader ==
  /\ readerOpen
  /\ readerOpen' = FALSE
  /\ UNCHANGED <<accepted, offered, delivered, writerOpen, eof, cut>>

\* The pipe is used for another pair of streams once both ends are closed.
Restart ==
  /\ ~writerOpen /\ ~readerOpen
  /\ accepted' = 0 /\ offered' = 0 /\ delivered' = 0
  /\ writerOpen' = TRUE /\ readerOpen' = TRUE
  /\ eof' = FALSE /\ cut' = FALSE

Next ==
  \/ Offer \/ Take \/ Accept \/ Cut \/ Eof
  \/ CloseWriter \/ CloseReader \/ Restart

Spec == Init /\ [][Next]_vars
===============================================================================
