------------------------------- MODULE MCHuff -------------------------------
(* Instances of Huff: bytes of three bits, so eight characters. *)
EXTENDS Huff

A == <<1>>
B == <<2, 1>>
C == <<3>>
Two(a, b) == [n \in {A, B} |-> IF n = A THEN a ELSE b]
One(a) == [n \in {A} |-> a]

\* from no character at all to all eight, with the frequencies of a tree that is a line
Line == <<7, 6, 5, 4, 3, 2, 1, 7, 6, 5, 4, 3, 2, 7, 6, 5, 4, 3, 7, 6, 5, 4, 7, 6, 5, 7, 6, 7>>
MCDisks == {Two(a, b) : a \in {<<>>, <<4, 4, 1>>, <<5, 0>>, <<4, 5, 4>>}, b \in {<<>>, <<1, 1, 2>>}}
MCJobs == {[factor |-> f, files |-> a, disk |-> d] : d \in MCDisks,
             f \in {1, 2, 50}, a \in {<<A>>, <<A, B>>, <<B, C, A>>, <<A, A>>, <<C>>}}
           \cup {[factor |-> 50, files |-> <<A>>, disk |-> One(Line)]}
MCMembers == {{}, {A}, {B, C}}
MCContents == {<<>>, <<7, 1, 1, 1, 1>>}
=============================================================================
