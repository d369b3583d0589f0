-------------------------------- MODULE MCZc --------------------------------
(* Command lines of the compiler driver for model checking. *)
EXTENDS Zc

Flag(f)   == [o |-> "flag", val |-> f]
Word(o, v) == [o |-> o, val |-> v]
In(f)     == [o |-> "file", val |-> f]

X == File("src", "x", "c")
Y == File("", "y", "as")
W == File("", "w", "c")
Z == File("", "z", "obj")

\* the options of a command line, in every combination that changes what is run
Stops == {<<>>, <<Flag("S")>>, <<Flag("C")>>, <<Flag("1")>>, <<Flag("E")>>,
          <<Flag("1"), Flag("S")>>}
Tunes == {<<>>, <<Flag("O")>>, <<Flag("O"), Flag("ASMLIST")>>}
Outs  == {<<>>, <<Word("CR", "")>>, <<Word("CR", "ref"), Word("CR", "two")>>,
          <<Word("Oname", File("", "out", "com")), Word("Oname", File("", "more", "com"))>>,
          <<Word("L", "m"), Word("A", "")>>}
Inputs == {<<>>, <<In(X)>>, <<In(Y)>>, <<In(X), In(W)>>, <<In(Z), In(X), In(Y)>>}

MCCommands == {st \o tu \o ou \o fi : st \in Stops, tu \in Tunes, ou \in Outs, fi \in Inputs}

\* targets and processors, and what main refuses
TargetCommands ==
  {w \o a \o z \o k \o <<In(Z)>> :
     w \in {<<>>, <<Flag("R")>>},
     a \in {<<>>, <<Word("A", "CPM2")>>, <<Word("A", "UZI"), Word("A", "CPM")>>,
            <<Word("A", "")>>, <<Word("A", "MSX")>>},
     z \in {<<>>, <<Word("Z", "z180")>>, <<Word("Z", "z280")>>},
     k \in {<<>>, <<Flag("K")>>, <<[o |-> "H"]>>}}

Runtime ==
  LET crts == {Crt(targets[i].crt.base) : i \in DOMAIN targets}
      clibs == {Lib(targets[i].clib) : i \in DOMAIN targets} \cup {Lib("m")}
  IN [f \in crts \cup clibs |-> IF f \in crts THEN Content("obj", f) ELSE Content("lib", f)]

With(files, more) ==
  [f \in DOMAIN files \cup DOMAIN more |-> IF f \in DOMAIN more THEN more[f] ELSE files[f]]
Tree == With(Runtime, [f \in {X, Y, W, Z} |->
          Content(CASE f = Z -> "obj" [] f = Y -> "as" [] OTHER -> "c", f)])

\* an object and a program of an earlier run are there, or a source is missing
Old(f) == Content("obj", File("old", f.base, "c"))
MCDisks == {With(Tree, [f \in {Here(X, "obj"), Here(W, "obj")} |-> Old(f)]),
            [f \in DOMAIN Tree \ {W} |-> Tree[f]]}

AllCommands == MCCommands \cup TargetCommands
=============================================================================
