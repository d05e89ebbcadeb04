---------------------------- MODULE MCIdiomPasses ----------------------------
(***************************************************************************)
(* Small traces: Ch in both operand orders and in place, Maj, a sigma      *)
(* chain run twice, one its registers are shared across, and one another   *)
(* instruction seems to carry on.                                          *)
(***************************************************************************)
EXTENDS IdiomPasses

Binop(pc, op, d, a, b) == [pc |-> pc, op |-> op, dst |-> d, a |-> a, b |-> b]
ShiftOf(pc, op, d, a, n) == [pc |-> pc, op |-> op, dst |-> d, a |-> a, b |-> a, n |-> n]
EorShifted(pc, d, a, b, k, n) ==
    [pc |-> pc, op |-> "eor_sh", dst |-> d, a |-> a, b |-> b, kind |-> k, n |-> n]
Move(pc, d, a) == Binop(pc, "mov", d, a, a)
SigmaChain == <<ShiftOf(1, "ror", "t", "x", 1), Move(2, "d", "y"),
                EorShifted(3, "t", "t", "x", "ror", 2), EorShifted(4, "d", "t", "x", "lsr", 1)>>
MCPrograms ==
    {<<Binop(1, "eor", "t", "y", "z"), Binop(2, "and", "t", "t", "x"), Binop(3, "eor", "d", "t", "z")>>,
     <<Binop(1, "eor", "t", "y", "z"), Binop(2, "and", "t", "x", "t"), Binop(3, "eor", "d", "y", "t")>>,
     <<Binop(1, "and", "t", "x", "y"), Binop(2, "bic", "u", "z", "x"), Binop(3, "orr", "d", "t", "u")>>,
     <<Binop(1, "and", "u", "y", "z"), Binop(2, "eor", "t", "y", "z"), Move(3, "d", "x"),
       Binop(4, "and", "t", "t", "x"), Binop(5, "eor", "d", "t", "u")>>,
     SigmaChain \o SigmaChain,
     <<ShiftOf(1, "ror", "t", "x", 1), Move(2, "u", "t"),
       EorShifted(3, "u", "u", "x", "ror", 2), EorShifted(4, "d", "u", "x", "lsr", 1)>>,
     <<ShiftOf(1, "ror", "t", "x", 1), EorShifted(2, "u", "t", "x", "lsr", 2),
       EorShifted(3, "t", "t", "x", "ror", 2), EorShifted(4, "d", "t", "x", "lsr", 1)>>}
MCWords == {{0}, {0, 1}}
MCTemplates == {{<<"ror", 1>>, <<"ror", 2>>, <<"lsr", 1>>}}
=============================================================================
