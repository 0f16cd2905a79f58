--------------------------- MODULE MCActionChannel ---------------------------
(***************************************************************************)
(* ActionChannel with messages whose fields all hold the same number, so   *)
(* that a mixture of two messages is no message.                           *)
(***************************************************************************)
EXTENDS ActionChannel, Integers

Uniform(n) == [f \in Fields |-> n]
MCMessages == {Uniform(n) : n \in Values \ {0}}
MCInitial == Uniform(0)
=============================================================================
