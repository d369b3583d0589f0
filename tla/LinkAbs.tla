------------------------------ MODULE LinkAbs ------------------------------
(***************************************************************************)
(* What a link promises, without records, tables or addresses.  Modules    *)
(* are picked in command line order: every object file, and those modules  *)
(* of a library that define a symbol still open when the library is        *)
(* searched.  A symbol that was defined stays defined.  Then exactly the   *)
(* modules picked are written, in the same order; and the link succeeds    *)
(* only when all of them were, nothing went wrong on the way, and no       *)
(* symbol is left open.                                                    *)
(***************************************************************************)
EXTENDS Integers, Sequences

CONSTANT Syms

VARIABLES
  files,    \* the files of the command line: kind, and dir of each module
  mayLack,  \* open symbols are no error (-i, or a relocatable output)
  open,     \* symbols referred to and not defined
  defined,  \* symbols with a definition
  picked,   \* the modules of the link: <<file, module>>
  written,  \* those whose text has been started
  flawed,   \* an error was reported
  status    \* "picking", "writing", "ok" or "failed"

vars == <<files, mayLack, open, defined, picked, written, flawed, status>>

LastOf(s) == s[Len(s)]
Follows(x, y) == y[1] < x[1] \/ (y[1] = x[1] /\ y[2] < x[2])

Init ==
  /\ open \subseteq Syms /\ defined = {}
  /\ picked = <<>> /\ written = <<>>
  /\ flawed = FALSE /\ status = "picking"

\* an object file is picked as it comes, a library module when it is of use
Pick ==
  /\ status = "picking"
  /\ \E f \in 0..(Len(files) - 1) : \E m \in 0..(Len(files[f + 1].mods) - 1) :
       /\ picked # <<>> => Follows(<<f, m>>, LastOf(picked))
       /\ files[f + 1].kind = "lib" => files[f + 1].mods[m + 1].dir \cap open # {}
       /\ picked' = Append(picked, <<f, m>>)
  /\ UNCHANGED <<files, mayLack, open, defined, written, flawed, status>>

\* a module refers to a symbol that is not known yet
Open(s) ==
  /\ status = "picking" /\ s \notin open \cup defined
  /\ open' = open \cup {s}
  /\ UNCHANGED <<files, mayLack, defined, picked, written, flawed, status>>

\* the module read last, or at the end the linker itself, defines symbols; an
\* error may be reported with it
Define ==
  /\ status = "picking"
  /\ defined \subseteq defined' /\ defined' \subseteq Syms
  /\ open' = open \ defined'
  /\ flawed => flawed'
  /\ UNCHANGED <<files, mayLack, picked, written, status>>

\* all files have been read: with no error, and nothing open, writing may start
StartWriting ==
  /\ status = "picking"
  /\ flawed' = (flawed \/ (open # {} /\ ~mayLack))
  /\ status' = IF flawed' THEN "failed" ELSE "writing"
  /\ UNCHANGED <<files, mayLack, open, defined, picked, written>>

\* the next module is written
Write ==
  /\ status = "writing" /\ Len(written) < Len(picked)
  /\ written' = Append(written, picked[Len(written) + 1])
  /\ UNCHANGED <<files, mayLack, open, defined, picked, flawed, status>>

Report ==
  /\ status = "writing" /\ flawed'
  /\ UNCHANGED <<files, mayLack, open, defined, picked, written, status>>

Succeed ==
  /\ status = "writing" /\ ~flawed /\ written = picked
  /\ status' = "ok"
  /\ UNCHANGED <<files, mayLack, open, defined, picked, written, flawed>>

Fail ==
  /\ status \in {"picking", "writing"}
  /\ status' = "failed"
  /\ UNCHANGED <<files, mayLack, open, defined, picked, written, flawed>>

Next == \/ Pick \/ (\E s \in Syms : Open(s)) \/ Define \/ StartWriting
        \/ Write \/ Report \/ Succeed \/ Fail

Spec == Init /\ [][Next]_vars
=============================================================================
