---------------------------- MODULE MCCoderMixerMt ----------------------------
(***************************************************************************)
(* The folders of the run, as sets of bonds: a chain of the coders, a       *)
(* decoder of several streams (BCJ2), and an encoder into several streams.  *)
(***************************************************************************)
EXTENDS CoderMixerMt

\* Each coder writes what the next one reads.
InLine == {<<c, c + 1>> : c \in Coders \ {NumCoders}}

\* All other coders write streams that the first one reads.
IntoFirst == (Coders \ {1}) \X {1}

\* The first coder writes the streams that all other coders read.
FromFirst == {1} \X (Coders \ {1})

MCFolders == {InLine, IntoFirst, FromFirst}
===============================================================================
