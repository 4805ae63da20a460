------------------------------ MODULE WstkInput ------------------------------
(***************************************************************************)
(* What the pure functions of the library are given: a text that grows by  *)
(* one character at a time, and starts again once it has been read.  part  *)
(* names the component that a behaviour exercises.                         *)
(***************************************************************************)
EXTENDS Integers, SequencesExt

VARIABLES part, input

Grows(Alphabet, longest) ==
  /\ Len(input) < longest
  /\ \E c \in Alphabet : input' = Append(input, c)

Starts(longest) == Len(input) = longest /\ input' = <<>>

Reads(name, Alphabet, longest) ==
  /\ part = name
  /\ Grows(Alphabet, longest) \/ Starts(longest)
  /\ UNCHANGED part
=============================================================================
