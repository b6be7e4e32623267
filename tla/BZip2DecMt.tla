------------------------------- MODULE BZip2DecMt -------------------------------
(***************************************************************************)
(* NCompress::NBZip2::CDecoder::Code with the scout thread                  *)
(* (CPP/7zip/Compress/BZip2Decoder.h, BZip2Decoder.cpp).                    *)
(*                                                                          *)
(* The decoder starts with one thread.  When a block is large enough and    *)
(* another one follows, a second thread, the scout, parses the input from   *)
(* then on: while the decoder inverts the transform of one block and writes *)
(* it, the scout reads the next one.  They share CBlock, the parser and the *)
(* buffer of counters, and take turns by two events.                        *)
(*                                                                          *)
(* A block is its place in the input, which also stands for its CRC; what   *)
(* is inside a block is only what stops the read, if anything does (damage, *)
(* the end of the input, a read error), and whether its CRC is right.       *)
(***************************************************************************)
EXTENDS Integers, Sequences

CONSTANTS
  Inputs,   \* the inputs: sequences of items
  LaterInputs,  \* bound: the inputs of the calls after the first
  Limits,   \* outSize in blocks; NoLimit: it is NULL
  NoLimit,
  Faults    \* the operations that may fail

\* A block that cannot be read: it is damaged, or the input ends or fails inside it.
BadBlocks == {"broken", "cutBlock", "errorBlock"}
Items == {"sig", "block", "badCrc", "end", "badEnd", "junk", "cut", "error"} \cup BadBlocks
FaultKinds == {"create", "progress", "write"}

ASSUME BZip2DecAssumption ==
  /\ Inputs \subseteq Seq(Items) /\ LaterInputs \subseteq Inputs
  /\ Limits \subseteq Nat \cup {NoLimit}
  /\ Faults \subseteq FaultKinds

None == 0   \* blockSize = 0

VARIABLES
  input, options,
  base,       \* CBase: its state, the place in the input, crc, NeedMoreInput and state2 # 0
  bytes,      \* the block in the counters, as it is read
  tt,         \* the block the decoder has inverted and writes from
  block,      \* CBlock
  DecoderEvent, ScoutEvent, NeedWaitScout,
  scout,      \* where the scout thread is
  at,         \* where Code is
  useMt, wasFinished, crc, nextCrc, nextRes, props,   \* locals of DecodeStreams
  out, fault, result

parser == <<base, bytes>>
locals == <<useMt, wasFinished, crc, nextCrc, nextRes, props>>
call == <<input, options>>
vars == <<call, parser, tt, block, DecoderEvent, ScoutEvent, NeedWaitScout, scout, at, locals,
          out, fault, result>>

Init ==
  /\ input = <<>> /\ options = [all |-> FALSE, limit |-> NoLimit, finish |-> FALSE]
  /\ base = [state |-> "FINISHED", pos |-> 0, crc |-> None, needMore |-> FALSE,
             partly |-> FALSE]
  /\ bytes = None /\ tt = None
  /\ block = [StopScout |-> FALSE, WasFinished |-> FALSE, Crc_Defined |-> FALSE, Crc |-> None,
              NextCrc |-> None, Res |-> "S_OK", blockSize |-> None]
  /\ DecoderEvent = FALSE /\ ScoutEvent = FALSE /\ NeedWaitScout = FALSE
  /\ scout = "none" /\ at = "new"
  /\ useMt = FALSE /\ wasFinished = FALSE /\ crc = None /\ nextCrc = None
  /\ nextRes = "S_OK" /\ props = None
  /\ out = <<>> /\ fault = {} /\ result = "S_OK"

-------------------------------------------------------------------------------
(* The parser: each operator returns the parser after the call, and its     *)
(* result.                                                                  *)

Item(b) == IF b.pos < Len(input) THEN input[b.pos + 1] ELSE "none"
Ends(item) == item \in {"none", "cut"}
ErrorOf(item) == IF item = "error" THEN "E_READ" ELSE "S_FALSE"
Failed(b, item) == [b |-> [b EXCEPT !.needMore = @ \/ Ends(item), !.partly = item = "cut"],
                    res |-> ErrorOf(item)]

\* StartNewStream and ReadStreamSignature.
StartRead(b) ==
  IF Item(b) = "sig"
  THEN [b |-> [b EXCEPT !.state = "BLOCK_SIGNATURE", !.pos = @ + 1], res |-> "S_OK"]
  ELSE Failed([b EXCEPT !.state = "STREAM_SIGNATURE"], Item(b))

ReadBlockSignature(b) ==
  CASE Item(b) \in {"block", "badCrc"} \cup BadBlocks ->
         [b |-> [b EXCEPT !.state = "BLOCK_START", !.crc = b.pos + 1], res |-> "S_OK"]
    [] Item(b) \in {"end", "badEnd"} ->
         [b |-> [b EXCEPT !.state = "FINISHED", !.crc = b.pos + 1, !.pos = @ + 1],
          res |-> IF Item(b) = "end" THEN "S_OK" ELSE "S_FALSE"]
    [] OTHER -> Failed(b, Item(b))

\* What the read of a block meets inside it.
Meets(item) ==
  CASE item = "cutBlock" -> "none" [] item = "errorBlock" -> "error" [] OTHER -> "junk"

\* The block is read into the buffer; its place is the result.
ReadBlock(b) ==
  IF Item(b) \in BadBlocks THEN Failed(b, Meets(Item(b)))
  ELSE [b |-> [b EXCEPT !.state = "BLOCK_SIGNATURE", !.pos = @ + 1], res |-> "S_OK"]

\* The next stream, if there is one: the end of the input before its signature is complete
\* is the end of the streams.
NextStream(b) ==
  LET start == StartRead(b) IN
  IF start.b.needMore
  THEN [b |-> [start.b EXCEPT !.needMore = start.b.partly], res |-> "S_OK", more |-> FALSE]
  ELSE [b |-> start.b, res |-> start.res, more |-> start.res = "S_OK"]

-------------------------------------------------------------------------------
(* CDecoder::RunScout.                                                      *)

ScoutStep == UNCHANGED <<call, tt, ScoutEvent, NeedWaitScout, at, locals, out, fault, result>>

BlockReset(b) ==
  [b EXCEPT !.Res = "S_OK", !.WasFinished = FALSE, !.blockSize = None, !.NextCrc = None,
            !.Crc_Defined = FALSE]

ScoutBegin ==
  /\ scout = "wait" /\ ScoutEvent
  /\ ScoutEvent' = FALSE
  /\ \/ block.StopScout /\ scout' = "ended" /\ UNCHANGED block
     \/ ~block.StopScout /\ scout' = "scan" /\ block' = BlockReset(block)
  /\ UNCHANGED <<call, parser, tt, DecoderEvent, NeedWaitScout, at, locals, out, fault, result>>

ScoutReadSignature ==
  /\ scout = "scan" /\ base.state = "BLOCK_SIGNATURE"
  /\ LET read == ReadBlockSignature(base) IN
     /\ base' = read.b
     /\ IF read.res # "S_OK"
        THEN scout' = "end" /\ block' = [block EXCEPT !.Res = read.res, !.WasFinished = TRUE]
        ELSE /\ UNCHANGED scout
             /\ block' = IF block.blockSize = None
                         THEN [block EXCEPT !.Crc = read.b.crc, !.Crc_Defined = TRUE]
                         ELSE [block EXCEPT !.NextCrc = read.b.crc]
  /\ UNCHANGED <<bytes, DecoderEvent>> /\ ScoutStep

ScoutReadBlock ==
  /\ scout = "scan" /\ base.state = "BLOCK_START" /\ block.blockSize = None
  /\ LET read == ReadBlock(base) IN
     /\ base' = read.b /\ bytes' = base.pos + 1
     /\ IF read.res # "S_OK"
        THEN scout' = "end" /\ block' = [block EXCEPT !.Res = read.res, !.WasFinished = TRUE]
        ELSE UNCHANGED scout /\ block' = [block EXCEPT !.blockSize = base.pos + 1]
  /\ UNCHANGED DecoderEvent /\ ScoutStep

\* The next block begins, and one has been read.
ScoutHasBlock ==
  /\ scout = "scan" /\ base.state = "BLOCK_START" /\ block.blockSize # None
  /\ scout' = "end"
  /\ UNCHANGED <<parser, block, DecoderEvent>> /\ ScoutStep

\* The end of a stream.  After the signature of the next one the scout stops always: it
\* has read something.
ScoutNextStream ==
  /\ scout = "scan" /\ base.state = "FINISHED" /\ scout' = "end"
  /\ \/ /\ ~options.all
        /\ block' = [block EXCEPT !.WasFinished = TRUE] /\ UNCHANGED base
     \/ /\ options.all
        /\ LET next == NextStream(base) IN
           /\ base' = next.b
           /\ block' = [block EXCEPT !.Res = next.res, !.WasFinished = ~next.more]
  /\ UNCHANGED <<bytes, DecoderEvent>> /\ ScoutStep

ScoutDone ==
  /\ scout = "end" /\ scout' = "wait" /\ DecoderEvent' = TRUE
  /\ UNCHANGED <<parser, block>> /\ ScoutStep

RunScout ==
  \/ ScoutBegin \/ ScoutReadSignature \/ ScoutReadBlock \/ ScoutHasBlock \/ ScoutNextStream
  \/ ScoutDone

-------------------------------------------------------------------------------
(* CDecoder::Code and DecodeStreams.                                        *)

Leave(r) == at' = "leave" /\ result' = r
Fails(kind) == kind \in Faults /\ fault' = fault \cup {kind}

Whole == [all |-> TRUE, limit |-> NoLimit, finish |-> TRUE]
BeginCall ==
  /\ at \in {"new", "idle"} /\ at' = "loop"
  /\ IF at = "new"
     THEN input' \in Inputs /\ options' \in [all : BOOLEAN, limit : Limits, finish : BOOLEAN]
     ELSE input' \in LaterInputs /\ options' = Whole
  /\ base' = [base EXCEPT !.pos = 0, !.needMore = FALSE, !.partly = FALSE, !.crc = None,
                          !.state = "STREAM_SIGNATURE"]
  /\ block' = [block EXCEPT !.StopScout = FALSE]
  /\ out' = <<>> /\ fault' = {}
  /\ UNCHANGED <<bytes, tt, DecoderEvent, ScoutEvent, NeedWaitScout, scout, locals, result>>

Unshared == UNCHANGED <<call, tt, block, DecoderEvent, ScoutEvent, NeedWaitScout>>

\* The signature of the first stream.
FirstStream ==
  /\ at = "loop" /\ base.state = "STREAM_SIGNATURE" /\ base.pos = 0
  /\ LET start == StartRead(base) IN
     /\ base' = start.b
     /\ IF start.res = "S_OK" THEN UNCHANGED <<at, result>> ELSE Leave(start.res)
  /\ UNCHANGED <<bytes, scout, locals, out, fault>> /\ Unshared

Begun == at = "loop" /\ ~(base.state = "STREAM_SIGNATURE" /\ base.pos = 0)

ProgressFails ==
  /\ Begun /\ Fails("progress") /\ Leave("progress")
  /\ UNCHANGED <<parser, scout, locals, out>> /\ Unshared

AtEnd == props = None /\ (wasFinished \/ nextRes # "S_OK")
Finish ==
  /\ Begun /\ AtEnd /\ Leave(nextRes)
  /\ UNCHANGED <<parser, scout, locals, out, fault>> /\ Unshared

Parses == ~useMt /\ ~wasFinished /\ base.state = "BLOCK_SIGNATURE"
Loop == Begun /\ ~AtEnd

\* The signature is not one of a block: the end of the stream, or an error.
ParseEnd ==
  /\ Loop /\ Parses
  /\ LET read == ReadBlockSignature(base)
         next == NextStream(read.b)
     IN
     /\ read.b.state # "BLOCK_START"
     /\ nextCrc' = read.b.crc
     /\ IF read.res # "S_OK" \/ ~options.all
        THEN base' = read.b /\ nextRes' = read.res /\ wasFinished' = TRUE
        ELSE base' = next.b /\ nextRes' = next.res /\ wasFinished' = ~next.more
  /\ UNCHANGED <<bytes, scout, at, useMt, crc, props, out, fault, result>> /\ Unshared

\* The scout takes over the input if the block before it is large enough.
ParseBlock ==
  /\ Loop /\ Parses
  /\ LET read == ReadBlockSignature(base) IN
     /\ read.b.state = "BLOCK_START" /\ base' = read.b /\ nextCrc' = read.b.crc
  /\ nextRes' = "S_OK" /\ wasFinished' = FALSE
  /\ \/ UNCHANGED <<useMt, scout, at, fault, result>>
     \/ /\ props # None
        /\ \/ /\ useMt' = TRUE /\ scout' = IF scout = "none" THEN "wait" ELSE scout
              /\ UNCHANGED <<at, fault, result>>
           \/ /\ scout = "none" /\ Fails("create") /\ Leave("create")
              /\ UNCHANGED <<useMt, scout>>
  /\ UNCHANGED <<bytes, crc, props, out>> /\ Unshared

\* With one thread: the block that begins here is read.
ReadNext ==
  /\ Loop /\ ~Parses /\ props = None /\ ~useMt
  /\ crc' = nextCrc
  /\ LET read == IF base.state = "BLOCK_START" THEN ReadBlock(base)
                 ELSE [b |-> base, res |-> "E_FAIL"]
     IN
     /\ base' = read.b /\ bytes' = base.pos + 1
     /\ IF read.res = "S_OK" THEN props' = base.pos + 1 /\ UNCHANGED <<at, result>>
        ELSE Leave(read.res) /\ UNCHANGED props
  /\ UNCHANGED <<scout, useMt, wasFinished, nextCrc, nextRes, out, fault>> /\ Unshared

CrcOf_Next(b, next) == next                 \* mutant: always the one read before
CrcOf(b, next) == IF b.Crc_Defined THEN b.Crc ELSE next

\* With the scout: the block it has read.
TakeBlock ==
  /\ Loop /\ props = None /\ useMt /\ DecoderEvent
  /\ DecoderEvent' = FALSE /\ NeedWaitScout' = FALSE
  /\ props' = block.blockSize
  /\ crc' = CrcOf(block, nextCrc) /\ nextCrc' = block.NextCrc
  /\ wasFinished' = block.WasFinished
  /\ IF block.Res = "S_OK" THEN at' = "invert" /\ UNCHANGED result ELSE Leave(block.Res)
  /\ UNCHANGED <<call, parser, tt, block, ScoutEvent, scout, useMt, nextRes, out, fault>>

DecodeBlock1 ==
  /\ at = "invert" \/ (Loop /\ ~Parses /\ props # None)
  /\ tt' = IF props = None THEN tt ELSE bytes
  /\ at' = IF useMt /\ ~wasFinished THEN "signal" ELSE IF props = None THEN "loop" ELSE "write"
  /\ UNCHANGED <<call, parser, block, DecoderEvent, ScoutEvent, NeedWaitScout, scout, locals,
                 out, fault, result>>

StartScout ==
  /\ at = "signal"
  /\ ScoutEvent' = TRUE /\ NeedWaitScout' = TRUE
  /\ at' = IF props = None THEN "loop" ELSE "write"
  /\ UNCHANGED <<call, parser, tt, block, DecoderEvent, scout, locals, out, fault, result>>

\* The output ends before the block does.
StopAtLimit ==
  /\ at = "write" /\ options.limit = Len(out)
  /\ Leave(IF options.finish THEN "S_FALSE" ELSE nextRes)
  /\ UNCHANGED <<parser, scout, locals, out, fault>> /\ Unshared

DecodeBlock ==
  /\ at = "write" /\ options.limit # Len(out)
  /\ \/ /\ out' = Append(out, tt)
        /\ IF crc # tt \/ input[tt] = "badCrc" THEN Leave("S_FALSE")
           ELSE at' = "loop" /\ UNCHANGED result
        /\ UNCHANGED fault
     \/ Fails("write") /\ Leave("write") /\ UNCHANGED out
  /\ props' = None
  /\ UNCHANGED <<parser, scout, useMt, wasFinished, crc, nextCrc, nextRes>> /\ Unshared

\* ~CWaitScout_Releaser.
WaitScout ==
  /\ at = "leave" /\ at' = "flush"
  /\ \/ ~NeedWaitScout /\ UNCHANGED <<DecoderEvent, NeedWaitScout>>
     \/ /\ NeedWaitScout /\ DecoderEvent
        /\ DecoderEvent' = FALSE /\ NeedWaitScout' = FALSE
  /\ UNCHANGED <<call, parser, tt, block, ScoutEvent, scout, locals, out, fault, result>>

\* What the output buffer holds is written, unless a write has failed.
Flush ==
  /\ at = "flush" /\ at' = "return"
  /\ \/ UNCHANGED <<fault, result>>
     \/ /\ "write" \notin fault /\ Fails("write")
        /\ result' = IF result = "S_OK" THEN "write" ELSE result
  /\ UNCHANGED <<parser, scout, locals, out>> /\ Unshared

NewLocals ==
  /\ useMt' = FALSE /\ wasFinished' = FALSE /\ crc' = None /\ nextCrc' = None
  /\ nextRes' = "S_OK" /\ props' = None

Return ==
  /\ at = "return" /\ at' = "idle" /\ NewLocals
  /\ UNCHANGED <<parser, scout, out, fault, result>> /\ Unshared

\* ~CDecoder.
Destroy ==
  /\ at \in {"new", "idle"} /\ at' = "destroy"
  /\ block' = [block EXCEPT !.StopScout = TRUE]
  /\ ScoutEvent' = (scout # "none")
  /\ UNCHANGED <<call, parser, tt, DecoderEvent, NeedWaitScout, scout, locals, out, fault, result>>

Wait_Close == at = "destroy" /\ scout \in {"none", "ended"} /\ UNCHANGED vars

Inside ==
  \/ FirstStream \/ ProgressFails \/ Finish \/ ParseEnd \/ ParseBlock \/ ReadNext \/ TakeBlock
  \/ DecodeBlock1 \/ StartScout \/ StopAtLimit \/ DecodeBlock \/ WaitScout \/ Flush
  \/ Return

Next == BeginCall \/ Inside \/ RunScout \/ Destroy \/ Wait_Close

\* Both threads run, and a call that has begun goes on.
Spec == Init /\ [][Next]_vars /\ WF_vars(Inside) /\ WF_vars(RunScout)

-------------------------------------------------------------------------------
(* Properties.                                                              *)

Running == at \notin {"new", "idle", "destroy"}

\* The decoder of module BlockDecoder; the result and NeedMoreInput count after the call.
D == INSTANCE BlockDecoder WITH
  Errors   <- FaultKinds,
  running  <- Running,
  result   <- IF Running THEN "S_OK" ELSE result,
  needMore <- ~Running /\ base.needMore

\* With and without the scout the blocks are written in order, each checked with its own
\* CRC and from a buffer the scout does not write into; Code returns S_OK only at the end
\* of a sound input or at the limit, otherwise the error of the item or of the operation
\* that failed, with at most one readable block left out; and it always returns.
ImplementsBlockDecoder == D!Spec /\ (Running ~> ~Running)
===============================================================================
