----------------------------- MODULE BlockDecoder -----------------------------
(***************************************************************************)
(* What the BZip2 decoder promises, without the scout thread: the blocks of *)
(* the input are written in its order, each checked with its own CRC, and   *)
(* the result is S_OK only at the end of a sound input, or at the limit;    *)
(* an error has a cause in the input or in an operation that failed, and    *)
(* leaves out at most the last block that could be read.                    *)
(***************************************************************************)
EXTENDS Integers, Sequences, FiniteSets

CONSTANTS
  Inputs,     \* the inputs: sequences of items
  Limits,     \* the limits of the output, in blocks, and NoLimit
  NoLimit,
  Errors      \* the results that are the failure of an operation

VARIABLES
  running, input,
  options,    \* all: decode all streams; limit; finish: it is an error to stop at the limit
  out,        \* the blocks written, by their places in the input
  fault,      \* the operations that have failed
  result,     \* what the last call returned, and whether its
  needMore    \* input ended too early

vars == <<running, input, options, out, fault, result, needMore>>

Options == [all : BOOLEAN, limit : Limits, finish : BOOLEAN]

Init ==
  /\ ~running /\ input = <<>> /\ options \in Options /\ out = <<>>
  /\ fault = {} /\ result = "S_OK" /\ ~needMore

\* What is expected after the first i items: a stream, a block or the end of the stream,
\* nothing ("end"), or nothing that helps ("stop").
Expected ==
  LET after[i \in 0 .. Len(input)] ==
        IF i = 0 THEN "stream"
        ELSE CASE after[i - 1] = "stream" /\ input[i] = "sig" -> "block"
               [] after[i - 1] = "block" /\ input[i] \in {"block", "badCrc"} -> "block"
               [] after[i - 1] = "block" /\ input[i] = "end" ->
                    IF options.all THEN "stream" ELSE "end"
               [] OTHER -> IF after[i - 1] = "end" THEN "end" ELSE "stop"
  IN after

Blocks ==
  {i \in 1 .. Len(input) : input[i] \in {"block", "badCrc"} /\ Expected[i] = "block"}

\* The item that stops the decoder: the end of the input ("none") also if that comes
\* inside a block, and an error inside a block is one like any other.
Stop ==
  LET stops == {i \in 1 .. Len(input) : Expected[i] = "stop"}
      i == CHOOSE k \in stops : \A j \in stops : k <= j
  IN IF stops = {} THEN "none"
     ELSE IF input[i] \in {"cutBlock", "errorBlock"} /\ i > 1 /\ Expected[i - 1] = "block"
          THEN IF input[i] = "cutBlock" THEN "none" ELSE "error"
          ELSE input[i]

\* After a whole stream the input may end, also within the signature of the next one.
Sound ==
  LET last == Expected[Len(input)] IN
  \/ last = "end"
  \/ last = "stream" /\ input # <<>>
  \/ /\ input # <<>> /\ Stop = "cut" /\ Expected[Len(input) - 1] = "stream"
     /\ Len(input) > 1

Wanted == IF options.limit = NoLimit THEN Cardinality(Blocks)
          ELSE IF options.limit < Cardinality(Blocks) THEN options.limit ELSE Cardinality(Blocks)
BadCrc == \E k \in DOMAIN out : input[out[k]] = "badCrc"
AtLimit == Len(out) = Wanted /\ Wanted < Cardinality(Blocks)

Begin ==
  /\ ~running /\ running'
  /\ input' \in Inputs /\ options' \in Options
  /\ out' = <<>> /\ fault' = {} /\ result' = "S_OK" /\ ~needMore'

Write ==
  /\ running /\ ~BadCrc /\ Len(out) < Wanted
  /\ LET next == CHOOSE i \in Blocks : Cardinality({j \in Blocks : j < i}) = Len(out)
     IN out' = Append(out, next)
  /\ UNCHANGED <<running, input, options, fault, result, needMore>>

Fail ==
  /\ running /\ fault' \in {fault \cup {e} : e \in Errors}
  /\ UNCHANGED <<running, input, options, out, result, needMore>>

ReturnOk ==
  /\ result' = "S_OK" /\ fault = {} /\ ~BadCrc
  /\ \/ Len(out) = Cardinality(Blocks) /\ Sound /\ needMore' = (Stop = "cut")
     \/ AtLimit /\ ~options.finish

\* The input is bad, which may be seen before its last block is written.
ReturnBad ==
  /\ result' \in {"S_FALSE", "E_READ"}
  /\ \/ result' = "S_FALSE" /\ BadCrc
     \/ result' = "S_FALSE" /\ AtLimit /\ options.finish
     \/ /\ ~Sound /\ Len(out) >= Wanted - 1
        /\ (result' = "E_READ") = (Stop = "error")
        /\ needMore' = (Stop \in {"none", "cut"})

ReturnFault == result' \in fault

Return ==
  /\ running /\ ~running'
  /\ ReturnOk \/ ReturnBad \/ ReturnFault
  /\ UNCHANGED <<input, options, out, fault>>

Next == Begin \/ Write \/ Fail \/ Return

Spec == Init /\ [][Next]_vars
===============================================================================
