------------------------------ MODULE LibrAbs ------------------------------
(***************************************************************************)
(* What the librarian promises, without passes, positions or temporary     *)
(* files.  A library is a sequence of modules.  A run that replaces or     *)
(* deletes modules works out the whole new library, and from then on       *)
(* either installs it or loses the library; before that point it can only  *)
(* give up and leave the library alone.  All other runs leave it alone.    *)
(* Success is reported only for what was done, and a run that deletes,     *)
(* extracts or lists symbols succeeds only when every module asked for was *)
(* there.                                                                  *)
(***************************************************************************)
EXTENDS Integers, Sequences, SequencesExt

CONSTANTS
  Fold,          \* the name without regard to case
  ModuleOf(_, _) \* the module of this name made from an object file

VARIABLES
  mods,    \* the modules of the library; empty while it is rewritten or lost
  next,    \* the modules it will have, while it is rewritten
  files,   \* the object files
  job,     \* the command line
  phase,   \* "idle", "working", "rewriting" or "lost"
  ok       \* the last run reported success

vars == <<mods, next, files, job, phase, ok>>

Same(n, m) == Fold[n] = Fold[m]
Asked(n) == \E i \in DOMAIN job.args : Same(job.args[i], n)
Holds(n) == \E i \in DOMAIN mods : Same(mods[i].name, n)
AllThere == \A i \in DOMAIN job.args : Holds(job.args[i])

\* the argument a module of the library is replaced by: with several of its name, the
\* last; the others are taken for new modules
Meant(i) == /\ Holds(job.args[i])
            /\ \A j \in DOMAIN job.args : j > i => ~Same(job.args[i], job.args[j])

Made(n) == ModuleOf(n, files[n])

Replaced ==
  [i \in DOMAIN mods |-> IF Asked(mods[i].name) THEN Made(mods[i].name) ELSE mods[i]]
    \o LET fresh == SelectSeq([i \in DOMAIN job.args |-> i], LAMBDA i : ~Meant(i))
       IN [k \in DOMAIN fresh |-> Made(job.args[fresh[k]])]

Deleted == SelectSeq(mods, LAMBDA m : ~Asked(m.name))

Init == mods = <<>> /\ next = <<>> /\ phase = "idle"

Begin ==
  /\ phase = "idle" /\ phase' = "working"
  /\ UNCHANGED <<mods, next, files, ok>>

GiveUp ==
  /\ phase = "working" /\ phase' = "idle" /\ ok' = FALSE
  /\ UNCHANGED <<mods, next, job>>
  /\ files' = files \/ job.key = "x"

\* a module is copied to the file of its name
Extract ==
  /\ phase = "working" /\ job.key = "x"
  /\ \E i \in DOMAIN mods :
       files' = [files EXCEPT ![mods[i].name] = mods[i].text]
  /\ UNCHANGED <<mods, next, job, phase, ok>>

Serve ==
  /\ phase = "working" /\ phase' = "idle" /\ ok' = TRUE
  /\ job.key \in {"x", "s"} => AllThere
  /\ job.key = "x" =>
       \A i \in DOMAIN mods : Asked(mods[i].name) \/ job.args = <<>> =>
         \E j \in DOMAIN mods : /\ mods[j].name = mods[i].name
                               /\ files[mods[i].name] = mods[j].text
  /\ job.key \notin {"r", "d"}
  /\ UNCHANGED <<mods, next, files, job>>

Rewrite ==
  /\ phase = "working" /\ phase' = "rewriting"
  /\ \/ job.key = "r" /\ next' = Replaced
     \/ job.key = "d" /\ AllThere /\ next' = Deleted
  /\ mods' = <<>>
  /\ UNCHANGED <<files, job, ok>>

Install ==
  /\ phase = "rewriting" /\ phase' = "idle" /\ ok' = TRUE
  /\ mods' = next /\ next' = <<>>
  /\ UNCHANGED <<files, job>>

Lose ==
  /\ phase \in {"rewriting", "lost"} /\ phase' = "lost"
  /\ mods' = <<>> /\ next' = <<>>

Next == Begin \/ GiveUp \/ Extract \/ Serve \/ Rewrite \/ Install \/ Lose

Spec == Init /\ [][Next]_vars
=============================================================================
