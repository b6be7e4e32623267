----------------------------- MODULE MCBZip2DecMt -----------------------------
(* The inputs on which BZip2DecMt is checked: every succession of streams   *)
(* and blocks up to a length, followed by any item or by none.              *)
EXTENDS BZip2DecMt

MaxItems == 4

\* After the items a stream, or a block or the end of the stream, may follow.
Good ==
  LET good[n \in 0 .. MaxItems] ==
        IF n = 0 THEN [stream |-> {<<>>}, block |-> {}]
        ELSE LET prev == good[n - 1] IN
             [stream |-> {Append(w, "end") : w \in prev.block},
              block  |-> {Append(w, "sig") : w \in prev.stream} \cup
                         {Append(w, k) : w \in prev.block, k \in {"block", "badCrc"}}]
  IN UNION {good[n].stream \cup good[n].block : n \in 0 .. MaxItems}

\* Longer ones: blocks after the end of a stream, and after a stream without blocks.
MCLaterInputs ==
  {<<"sig", "block", "block", "end", "sig", "block", "block", "end">>,
   <<"sig", "block", "block", "end", "sig", "end", "sig", "block", "end", "cut">>,
   <<"sig", "block", "block", "block", "broken">>,
   <<"sig", "block", "block", "cutBlock">>}

MCInputs == Good \cup {Append(w, k) : w \in Good, k \in Items} \cup MCLaterInputs
===============================================================================
