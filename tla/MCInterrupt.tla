---------------------------- MODULE MCInterrupt ----------------------------
(* Interrupt for TLC: the sets that a .cfg cannot write down. *)
EXTENDS Interrupt

MCExceptions == (0..31) \ {17, 21}

\* None, and carry with auxiliary carry: taken as selectors, the null selector
\* and an entry of the descriptor table, both with an outer ring.
MCArithmetic == {0, 17}
=============================================================================
