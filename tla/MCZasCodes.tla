---------------------------- MODULE MCZasCodes ----------------------------
(* All pairs of operands, for every mnemonic that has operands. *)
EXTENDS ZasCodes

MCHere == 1000
Numbers == {-2, 0, 2, 7, 8, 56, 200, 300, 4660}
Plain ==
  {Reg(r) : r \in DOMAIN RegCode \cup {"af'"}}
    \cup {Operand("cc", c, 0) : c \in DOMAIN CcCode}
    \cup {Ind(r) : r \in {"a", "c", "bc", "de", "hl", "sp", "af", "ix", "iy"}}
    \cup {Idx("hl", 5), Idx("ix", 5), Idx("ix", 128), Idx("iy", -128), Idx("iy", 127)}
    \cup {Mem(n) : n \in {5, 4660}}
    \cup {Int8(n) : n \in Numbers}
    \cup {Operand("lab", "", MCHere + n) : n \in {-127, -126, 0, 129, 130}}
Two == {m \in DOMAIN Kwd : AtLeast(Kwd[m][1]) = 2} \cup {"inc", "push", "jr", "jp", "call", "mlt"}

MCInstructions ==
  [m : DOMAIN Kwd, a : {Nothing}, b : {Nothing}]
    \cup [m : DOMAIN Kwd, a : Plain, b : {Nothing, Reg("a")}]
    \cup [m : Two, a : Plain, b : Plain]
MCJumps == [m : {"jp"}, a : Plain, b : Plain \cup {Nothing}]

MCCases == {<<"zas", FALSE>>, <<"zas", TRUE>>, <<"zas4", FALSE>>}
MCJumpCases == {<<"zas4", TRUE>>}
=============================================================================
