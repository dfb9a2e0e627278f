----------------------------- MODULE MCSession -----------------------------
(***************************************************************************)
(* Small instances of Session.  Each .cfg picks the frames and the habits  *)
(* of one class of client.                                                 *)
(***************************************************************************)
EXTENDS Session, TLC

CONSTANTS u, s, a, b, n, c, begin, end, txt, bin

\* What simple Queries contain in the runs that send any.
NoTexts == {}
RowTexts == {<<a>>, <<a, b>>, <<n>>}
TxTexts == {<<b>>, <<begin>>, <<end>>, <<c>>}

\* The two shapes are interchangeable.
ShapeSymmetry == Permutations({a, b})

=============================================================================
