------------------------------- MODULE MCLibr -------------------------------
(* Instances of the librarian for model checking. *)
EXTENDS Libr

CONSTANT NONE

\* "B" names the same module as "b", and another file
MCNames == {"a", "b", "B"}
MCFold  == [n \in MCNames |-> IF n = "B" THEN "b" ELSE n]

Obj(id, syms, size, ident) == [id |-> id, syms |-> syms, size |-> size, ident |-> ident]
O1 == Obj("o1", <<<<"f", "public">>, <<"t", "local">>, <<"g", "extern">>>>, 2, "le")
O2 == Obj("o2", <<<<"g", "common">>>>, 1, "none")
O3 == Obj("o3", <<<<"f", "public">>, <<"h", "public">>, <<"k", "public">>>>, 1, "be")
O4 == Obj("o4", <<>>, 3, "le")
MCObjects == {O1, O2, O3, O4}

Padded(o)  == Append(Contents(o), Byte(o, o.size + 1))
Cut(o)     == Front(Contents(o))

MCDirectories ==
  {[n \in MCNames |-> CASE n = "a" -> Contents(O1) [] n = "B" -> Padded(O2)
                         [] n = "b" -> f] :
     f \in {Contents(O2), Contents(O3), Cut(O4), NONE}}

Lines(keys, args) == {[key |-> k, args |-> a] : k \in keys, a \in args}

UniqueArgs == {<<>>, <<"a">>, <<"b">>, <<"a", "B">>}
MCCommands == Lines({"r", "d", "x", "s"}, UniqueArgs) \cup Lines({"m"}, {<<"b">>})

\* repeated arguments
TwiceCommands == Lines({"r", "d"}, {<<"a", "a">>, <<"a", "b", "a">>})
RunCommands == MCCommands \cup TwiceCommands

RaceCommands == Lines({"r"}, {<<"a">>, <<"a", "b">>, <<"b">>}) \cup Lines({"d", "x", "s"}, {<<"b">>})
RaceDirectories ==
  {[n \in MCNames |-> CASE n = "a" -> f [] n = "B" -> Contents(O2) [] n = "b" -> Contents(O1)] :
     f \in {Contents(O1), Contents(O3)}}

\* longer than what the directory holds, the same and shorter; or gone
RaceVersions == {Contents(O4), Padded(O1) \o <<Byte(O1, 4)>>, Contents(O1), Contents(O2), Cut(O1), NONE}

=============================================================================
