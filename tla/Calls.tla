------------------------------- MODULE Calls -------------------------------
(***************************************************************************)
(* A C function that changes state and returns a number, as an operator:   *)
(* its value has the state it leaves and the number it returns. And what   *)
(* loops do: one call after the other, members of a list picked out.       *)
(***************************************************************************)
EXTENDS Integers, Sequences, SequencesExt

Out(s, r) == [s |-> s, r |-> r]

\* Op of the value s, which is worked out once
On(s, Op(_)) == CHOOSE out \in {Op(x) : x \in {s}} : TRUE

\* What s becomes after op(_, 1), op(_, 2) ... op(_, n), one after the other
Steps(s, n, op(_, _)) ==
    LET after[i \in 0 .. n] == IF i = 0 THEN s ELSE op(after[i - 1], i) IN after[n]

\* The members of q with Test, in their order
Those(q, Test(_)) == FlattenSeq([i \in DOMAIN q |-> IF Test(q[i]) THEN <<q[i]>> ELSE <<>>])

=============================================================================
