------------------------------- MODULE MCLink -------------------------------
(* Command lines, object files and libraries for model checking Link. *)
EXTENDS Link, SequencesExt

CONSTANTS a, b,               \* symbols
          code, data, ov, loc, \* psects: two global ones, an overlaid and a local one
          cls, cls2,          \* psect classes
          le, be,             \* byte orders
          c1, c2, c3, c4, c5, c6, c7, c8, c9, c10, c11, c12, c13
                              \* symbols that only fill the table

Fillers   == <<c1, c2, c3, c4, c5, c6, c7, c8, c9, c10, c11, c12, c13>>
MCSyms    == {a, b} \cup Range(Fillers)
MCPsects  == {code, data, ov, loc}
MCClasses == {cls, cls2}
MCOrders  == {le, be}

\* Records, in the form zas writes them
Ident(o)        == <<[t |-> "IDENT", order |-> o]>>
Text(p, off, n) == <<[t |-> "TEXT", psect |-> p, off |-> off, len |-> n]>>
Reloc(k, n, off, add) ==
  <<[t |-> "RELOC", kind |-> k, name |-> n, off |-> off, add |-> add]>>
Psect(p, g, o)  == <<[t |-> "PSECT", psect |-> p, glob |-> g, ovr |-> o, abs |-> FALSE]>>
Xpsect(p, c, max, al) ==
  <<[t |-> "XPSECT", psect |-> p, cls |-> c, max |-> max, align |-> al]>>
Addr(s, p, v)   == <<[t |-> "SYM", low |-> "NULL", glob |-> TRUE, name |-> s, psect |-> p, val |-> v]>>
Local(s, p, v)  == <<[t |-> "SYM", low |-> "NULL", glob |-> FALSE, name |-> s, psect |-> p, val |-> v]>>
Common(s, n)    == <<[t |-> "SYM", low |-> "COMM", name |-> s, val |-> n]>>
Ext(s)          == <<[t |-> "SYM", low |-> "EXTERN", name |-> s]>>
Start(p, v)     == <<[t |-> "START", psect |-> p, off |-> v]>>
End             == <<[t |-> "END"]>>

Obj(recs)  == [kind |-> "obj", mods |-> <<[recs |-> recs, dir |-> {}]>>]
Lib(mods)  == [kind |-> "lib", mods |-> mods]
Missed     == [kind |-> "missing", mods |-> <<>>]

\* the directory libr writes: type 0 for the names the module defines
Indexed(recs) ==
  [recs |-> recs,
   dir |-> {recs[r].name : r \in {q \in 1..Len(recs) :
              recs[q].t = "SYM" /\ recs[q].low = "NULL" /\ recs[q].glob}}]

MkJob(files, R, I, ps, force) ==
  [files |-> files, R |-> R, I |-> I, loc |-> ps, force |-> force]

At(p, link, load) == [name |-> p, link |-> link, load |-> load]
After(p)          == At(p, NoAddr, NoAddr)

-----------------------------------------------------------------------------
(* Symbols: every pair of modules that define, refer to or ignore a and b, an
   object file and a library of two, in either order.                        *)

Uses(s, u, p, n) ==
  CASE u = "def" -> Addr(s, p, n)
    [] u = "ref" -> Ext(s)
    [] u = "no"  -> <<>>
RefTo(s, u) == IF u = "ref" THEN Reloc("RNAME", s, 0, 1) ELSE <<>>

\* a module whose text is n bytes of code
SymModule(ua, ub, n) ==
  Text(code, 0, n) \o RefTo(a, ua) \o RefTo(b, ub) \o Psect(code, TRUE, FALSE)
    \o Uses(a, ua, code, 0) \o Uses(b, ub, code, n) \o End

Use == {"def", "ref", "no"}
Modes == {<<FALSE, FALSE, {}>>, <<FALSE, TRUE, {}>>, <<TRUE, FALSE, {}>>,
          <<FALSE, FALSE, {a}>>}

SymbolJobs ==
  {LET o == Obj(SymModule(u[1], u[2], 2))
       l == Lib(<<Indexed(SymModule(u[3], u[4], 3)), Indexed(SymModule(u[5], u[6], 4))>>)
   IN MkJob(IF first THEN <<l, o>> ELSE <<o, l>>, m[1], m[2], <<At(code, 16, NoAddr)>>, m[3]) :
     u \in [1..6 -> Use], first \in BOOLEAN, m \in Modes}

-----------------------------------------------------------------------------
(* Layout: two object files with text in every kind of psect, whose sizes, -p
   items, classes, limits and alignments vary.                               *)

\* n bytes of code, m of the overlaid and of the local psect
Body(n, m) ==
  Text(code, 0, n) \o Text(data, 0, 2) \o Text(ov, 0, m) \o Text(loc, 0, m + 1)
    \o Local(a, loc, 1)
Psects == Psect(code, TRUE, FALSE) \o Psect(data, TRUE, FALSE) \o Psect(ov, TRUE, TRUE)
            \o Psect(loc, FALSE, FALSE)

\* XPSECT records of the first module
Limits == {<<>>,
           Xpsect(data, cls, 0, 4),
           Xpsect(code, cls, 0, 2) \o Xpsect(data, cls, 0, 0),
           Xpsect(data, cls, 3, 4) \o Xpsect(data, cls2, 5, 2),
           Xpsect(loc, NoName, 16, 8)}

Specs == {<<>>,
          <<At(code, 16, NoAddr), After(data), After(ov)>>,
          <<At(code, 16, 32), After(data)>>,
          <<At(code, 16, NoNum), After(cls)>>,
          <<At(cls, 64, NoAddr), After(code)>>,
          <<After(cls)>>,
          <<At(data, 5, NoAddr)>>,
          <<After(ov), At(code, 16, 5), After(code)>>}

LayoutJobs ==
  {MkJob(<<Obj(Ident(le) \o Body(n, m) \o x \o Psects \o Addr(b, code, 1) \o End),
           Obj(Ident(le) \o Body(3, 2) \o Psects \o Start(code, 0)
                 \o Reloc("RNAME", b, 0, 0) \o End)>>, R, FALSE, ps, {}) :
     n \in {0, 3}, m \in {1, 4}, x \in Limits, ps \in Specs, R \in BOOLEAN}

-----------------------------------------------------------------------------
(* Relocation: each kind against each psect and symbol, from two modules. *)

Kinds == {"RPSECT", "RRPSECT", "RSPSECT"}
SymKinds == {"RNAME", "RRNAME", "RSNAME"}
RelocModule(first, k, n, off, add) ==
  Text(code, 0, 4) \o (IF first THEN <<>> ELSE Reloc(k, n, off, add)) \o Text(data, 0, 2)
    \o (IF first THEN Reloc(k, n, off, add) ELSE <<>>)
    \o Psect(code, TRUE, FALSE) \o Psect(data, TRUE, FALSE)
    \o Addr(IF first THEN a ELSE b, code, 2)
    \o (IF first THEN <<>> ELSE Xpsect(data, NoName, 0, 2) \o Start(code, 1)) \o End

Refs3 == (Kinds \X {code, data, Abs}) \cup (SymKinds \X {a, b, <<"H", code>>, <<"B", code>>})

RelocJobs ==
  {MkJob(<<Obj(RelocModule(TRUE, r[1], r[2], off, add)),
           Obj(RelocModule(FALSE, r[1], r[2], off, add))>>, m[1], m[2], m[3], {}) :
     r \in Refs3, off \in {0, 2}, add \in {0, -3},
     m \in {<<TRUE, FALSE, <<>>>>, <<FALSE, FALSE, <<At(code, 16, 32), After(data)>>>>,
            <<FALSE, TRUE, <<At(code, 16, NoAddr), After(data)>>>>}}

-----------------------------------------------------------------------------
(* Edges: every pair of small files, with records that disagree, repeat or are
   missing.                                                                  *)

Body1(recs) == Text(code, 0, 2) \o recs
Edges ==
  {Obj(Ident(o) \o Body1(Psect(code, TRUE, FALSE) \o End)) : o \in MCOrders}
    \cup {Obj(Body1(Psect(code, g, FALSE) \o Addr(a, code, 0) \o End)) : g \in BOOLEAN}
    \cup {Obj(Body1(Common(a, n) \o End)) : n \in {2, 4}}
    \cup {Obj(Body1(Reloc("RSNAME", a, 0, 0) \o Ext(a) \o End)),
          Obj(Body1(Reloc("RNAME", b, 0, 0) \o Psect(code, TRUE, FALSE) \o Addr(b, code, 0)
                \o Start(code, 0) \o End)),
          Obj(Text(data, 0, 2) \o Reloc("RPSECT", code, 0, 0) \o Psect(data, TRUE, FALSE)
                \o Xpsect(data, cls, 1, 0) \o End),
          Obj(Body1(Psect(code, TRUE, FALSE))),
          Lib(<<Indexed(Body1(Addr(a, code, 1) \o Psect(code, TRUE, FALSE) \o End)),
                Indexed(Body1(Addr(b, code, 0) \o Ext(a) \o End))>>),
          Missed}

EdgeJobs ==
  {MkJob(<<f, g>>, m[1], m[2], m[3], m[4]) : f, g \in Edges,
     m \in {<<FALSE, FALSE, <<>>, {}>>, <<TRUE, FALSE, <<>>, {a}>>, <<FALSE, TRUE, <<>>, {a}>>,
            <<FALSE, FALSE, <<At(Abs, 0, NoAddr)>>, {b}>>}}

-----------------------------------------------------------------------------
(* Limits: the same files after n files that each take an entry of psectInfo for
   their local psect and one that takes s slots of the symbol table, so that both
   tables fill up at every place where names are entered.                     *)

LocalFile == Obj(Text(loc, 0, 1) \o Psect(loc, FALSE, FALSE) \o End)
Fill(n, s) ==
  [i \in 1..n |-> LocalFile]
    \o <<Obj(Body1(FlattenSeq([i \in 1..s |-> Ext(Fillers[i])]) \o Psect(code, TRUE, FALSE) \o End))>>
Fills == {<<0, 5>>, <<0, 10>>, <<1, 13>>, <<2, 13>>, <<5, 5>>, <<6, 0>>}

LimitJobs == {MkJob(Fill(x[1], x[2]) \o <<f, g>>, FALSE, TRUE, <<>>, {}) : x \in Fills, f, g \in Edges}

-----------------------------------------------------------------------------
(* Absolute psects: two modules with text and a symbol in a global absolute psect,
   which -p leaves alone, names or puts after another.                        *)

AbsPsect(p) == <<[t |-> "PSECT", psect |-> p, glob |-> TRUE, ovr |-> FALSE, abs |-> TRUE]>>
AbsModule(s, n) ==
  Text(code, 0, 2) \o Reloc("RPSECT", loc, 0, 1) \o Text(loc, 0, n) \o Psect(code, TRUE, FALSE)
    \o AbsPsect(loc) \o Addr(s, loc, 1) \o End

AbsJobs ==
  {MkJob(<<Obj(AbsModule(a, n)), Obj(AbsModule(b, 3))>>, R, FALSE, ps, {}) :
     n \in {1, 4}, R \in BOOLEAN,
     ps \in {<<>>, <<At(code, 16, NoAddr)>>, <<At(loc, 0, NoAddr)>>, <<At(code, 16, NoAddr), After(loc)>>}}

LinkJobs == SymbolJobs \cup LayoutJobs \cup RelocJobs \cup EdgeJobs \cup LimitJobs
              \cup AbsJobs
=============================================================================
