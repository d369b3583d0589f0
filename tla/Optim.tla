------------------------------- MODULE Optim -------------------------------
(* optim, the peephole optimiser: it reads the code of one function, works  *)
(* on it with two passes in turn until they leave it as it is, and writes   *)
(* it out.  The two passes are in OptimFlow and OptimRegs.                  *)
EXTENDS OptimRegs, OptimMachine

CONSTANTS Functions,    \* functions as the compiler writes them: [code, tab, void]
          Starts        \* states of the machine at the call of a function

VARIABLES source,       \* the function read: its lines and its table of cases
          st,           \* the optimiser's state, see OptimCode
          frame,        \* usesIXorIY
          again,        \* whether a pass over the jumps has changed anything (l5)
          pc,           \* what is done next
          out,          \* the lines written
          work          \* the instructions visited so far, in all passes
vars == <<source, st, frame, again, pc, out, work>>

Visits == 14

----------------------------------------------------------------------------
(* loadFunction: jr becomes jp, the condition of a jump goes to aux; jumps  *)
(* next to temporary labels are short-cut while the lines come in.          *)
IsFwd(i, n) == i.t = "jp" /\ i.l.t = "fwd" /\ i.l.val = n
ToTemp(c, to) ==
  LET n == Last(c).n
      from == SelectLastInSubSeq(c, 1, Len(c) - 1, LAMBDA i : i.t = "tmp" /\ i.n = n)
  IN [k \in 1 .. Len(c) - 1 |-> IF k > from /\ IsFwd(c[k], n) THEN [c[k] EXCEPT !.l = to] ELSE c[k]]
\* The size of the frame, known at the end, takes the place of its name.
SetFrame(o, i) == IF o.t = "const" /\ o.sym = i.aux THEN Const(o.val + i.l.val) ELSE o
LoadLine(c, i) ==
  IF i.t = "tmp" /\ IsFwd(Last(c), i.n) THEN Append(Front(c), i)
  ELSE IF Is(i, "jp", "") /\ i.l.t # "ref" /\ Last(c).t = "tmp" /\ Is(c[Len(c) - 1], "jp", "")
  THEN ToTemp(c, i.l)
  ELSE IF i.t = "equ" THEN [k \in DOMAIN c |-> [c[k] EXCEPT !.l = SetFrame(@, i), !.r = SetFrame(@, i)]]
  ELSE IF i.t = "jr" THEN Append(c, [i EXCEPT !.t = "jp", !.op = "jp"])
  ELSE Append(c, i)
LoadFunction(code) == Append(FoldLeft(LoadLine, <<End>>, code), End)

Fresh0(c) == [c |-> c, g |-> 1, v |-> [r \in DOMAIN RegNo |-> Unknown], d |-> 0, id |-> 0,
              ch |-> FALSE, bad |-> FALSE]
Begin ==
  /\ pc = "read"
  /\ \E L \in {NameTemps(Fresh0(LoadFunction(source.code)))} :
       /\ frame' = UsesIXorIY(L.c)
       /\ st' = [L EXCEPT !.c = CountUses(@, source.tab), !.ch = FALSE, !.g = 1]
  /\ pc' = "flow"
  /\ UNCHANGED <<source, again, out, work>>

----------------------------------------------------------------------------
(* The loop of optimise: passes over the jumps until one changes nothing,   *)
(* passes over the registers likewise, all again if a jump was changed.     *)
AtEnd == st.g > Len(st.c)
Step(L) == [L EXCEPT !.g = @ + 1]
FlowStep == /\ pc = "flow" /\ ~AtEnd /\ ~st.bad
            /\ st' = Step(FlowVisit(st, frame))
            /\ work' = work + 1
            /\ UNCHANGED <<source, frame, again, pc, out>>
FlowEnd == /\ pc = "flow" /\ AtEnd
           /\ again' = (again \/ st.ch)
           /\ pc' = IF st.ch THEN "flow" ELSE "regs"
           /\ st' = [ForgetAll(st) EXCEPT !.g = 1, !.ch = FALSE]
           /\ UNCHANGED <<source, frame, out, work>>
RegsStep == /\ pc = "regs" /\ ~AtEnd /\ ~st.bad
            /\ st' = Step(RegsVisit(st))
            /\ work' = work + 1
            /\ UNCHANGED <<source, frame, again, pc, out>>
\* For comparison: again is not reset before all is done again.
RegsEndAgain == /\ pc = "regs" /\ AtEnd
                /\ pc' = IF st.ch THEN "regs" ELSE IF again THEN "flow" ELSE "write"
                /\ st' = [ForgetAll(st) EXCEPT !.g = 1, !.ch = FALSE]
                /\ UNCHANGED <<source, frame, again, out, work>>
\* hasChanged is false when the second loop ends, so again decides alone.
RegsEnd == /\ pc = "regs" /\ AtEnd
           /\ pc' = IF st.ch THEN "regs" ELSE IF again THEN "flow" ELSE "write"
           /\ again' = (again /\ st.ch)
           /\ st' = [ForgetAll(st) EXCEPT !.g = 1, !.ch = FALSE]
           /\ UNCHANGED <<source, frame, out, work>>

(* sub_404d: the frame is set up by what its size asks for, and a function  *)
(* without one returns on its own.                                          *)
PushHL == Instr("stk", "push", "push", Reg("hl"), Absent)
CallCsv == Instr("call", "call", "", Name("csv"), Absent)
Prologue(f, n) ==
  CASE n = 0 -> IF f THEN <<CallCsv>> ELSE <<>>
    [] n \in {-1, -2} -> <<CallCsv, PushHL>>
    [] n \in {-3, -4} -> <<CallCsv, PushHL, PushHL>>
    [] OTHER -> <<Instr("call", "", "", Name("ncsv"), Absent), Instr("defw", "defw", "", Const(n), Absent)>>
TailCall(c, k) ==
  /\ Is(c[k], "call", "") /\ c[k].l.sym \in Public
  /\ c[k + 1].aux = "" /\ JumpsToCret(c[k + 1])
RECURSIVE Written(_, _, _)
Written(c, k, f) ==
  IF k = Len(c) THEN <<>>
  ELSE IF c[k].t = "inv" THEN Written(c, k + 1, f)
  ELSE IF c[k].t = "call" /\ c[k].l.sym = "ncsv"
  THEN LET n == c[k + 1].l.val IN Prologue(f, n) \o Written(c, k + 2, f \/ n # 0)
  ELSE IF ~f /\ JumpsToCret(c[k]) THEN <<[c[k] EXCEPT !.t = "ret", !.op = ""]>> \o Written(c, k + 1, f)
  ELSE IF ~f /\ TailCall(c, k) THEN <<[c[k] EXCEPT !.t = "jp", !.op = ""]>> \o Written(c, k + 2, f)
  ELSE <<c[k]>> \o Written(c, k + 1, f)
Write == /\ pc = "write"
         /\ out' = Written(st.c, 1, frame)
         /\ pc' = "done"
         /\ UNCHANGED <<source, st, frame, again, work>>
Ended == pc = "done" /\ UNCHANGED vars

Init == /\ source \in Functions
        /\ st = Fresh0(<<>>) /\ frame = FALSE /\ again = FALSE /\ pc = "read" /\ out = <<>> /\ work = 0
Next == Begin \/ FlowStep \/ FlowEnd \/ RegsStep \/ RegsEnd \/ Write \/ Ended
Spec == Init /\ [][Next]_vars

----------------------------------------------------------------------------
\* The list has its two ends, its operands are of kinds that can be printed,
\* and no more is known of a register than what an operand says; the program
\* has not given up (pr_error in removeLabelRef and sub_436e).
TypeOK ==
  /\ pc \in {"read", "flow", "regs", "write", "done"} /\ {frame, again} \subseteq BOOLEAN
  /\ ~st.bad
  /\ pc \in {"flow", "regs"} =>
       /\ st.g \in 1 .. Len(st.c) + 1 /\ st.c[1].t = "inv" /\ Last(st.c).t = "inv"
       /\ \A k \in DOMAIN st.c :
            {st.c[k].l.t, st.c[k].r.t} \subseteq {"none", "reg", "ref", "idx", "addr", "const"}

\* A label is there as long as anything goes to it, a jump, a loop or an
\* entry of a table of cases, and its count covers these uses: a label freed
\* too early would be printed from freed memory (removeLabelRef).
Outside == Public \cup {"cret"}
LabelsKept ==
  pc \in {"flow", "regs", "write"} =>
    /\ \A k \in DOMAIN st.c :
         /\ st.c[k].t \in {"jp", "djnz"} /\ st.c[k].l.t = "const" =>
              st.c[k].l.sym \in Outside \/ Where(st.c, st.c[k].l.sym) # 0
         /\ st.c[k].t = "label" =>
              st.c[k].n >= Uses(st.c, st.c[k].aux) + InTable(source.tab, st.c[k].aux)
    /\ \A k \in DOMAIN source.tab : Where(st.c, source.tab[k]) # 0

\* The function that is written does what the function that was read does:
\* the same calls with the same memory, the same values back, the frame of
\* its caller as it was.  The tests compare what programs print with and
\* without optim; this is for every path of every function.
SameEffect ==
  pc = "done" =>
    \A m \in {[n EXCEPT !.void = source.void] : n \in Starts} :
      SameRun(Run(m, source.code, source.tab), Run(m, out, source.tab))

\* No function is worked on for ever: what one pass makes, no other undoes.
\* An instruction is visited a few times on the average, whatever the order
\* in which the rules come to apply.
Ends == work <= Visits * Len(source.code)
=============================================================================
