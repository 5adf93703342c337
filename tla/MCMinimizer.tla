----------------------------- MODULE MCMinimizer -----------------------------
EXTENDS Minimizer

(* Four values: two integers, a float and a boolean.  The originals have   *)
(* zeros in some places; the values 3 (in halves 6) and -2 (-4) simplify,  *)
(* one half (1) and one (2) do not.                                        *)
MCDtype == << "i", "f", "i", "b" >>

MCOriginals ==
  {<< 6, 1, -4, 2 >>, << 6, 0, -4, 0 >>, << 0, -6, 0, 2 >>, << 0, 0, 6, 0 >>, << 0, 0, 0, 0 >>}
=============================================================================
