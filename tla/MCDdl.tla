------------------------------- MODULE MCDdl -------------------------------
EXTENDS Ddl

Shape(cols, pk, unique, checks, fks) ==
  [cols |-> cols, pk |-> pk, unique |-> unique, notnull |-> {}, checks |-> checks, fks |-> fks]

MCShapes ==
  {Shape({"a", "b"}, "a", {"b"}, {}, {}),
   Shape({"a", "b"}, NoCol, {}, {{"a", "b"}}, {[col |-> "b", table |-> "t", ref |-> "a"]})}

Plain == CHOOSE s \in MCShapes : s.fks = {}
Child == CHOOSE s \in MCShapes : s.fks # {}
MCStarts == {[t |-> Plain], [t |-> Plain, u |-> Child]}

Def(name, cols, unique, path, pred) == [name |-> name, cols |-> cols, unique |-> unique, path |-> path, pred |-> pred]

MCIndexDefs ==
  {Def("i", {"b"}, FALSE, <<>>, <<>>), Def("i", {"b"}, TRUE, <<>>, <<>>), Def("i", {"b"}, FALSE, <<{}>>, <<>>),
   Def("j", {"a", "b"}, TRUE, <<>>, <<>>), Def("j", {"a"}, FALSE, <<>>, <<{"b"}>>)}

Add(c, dflt, notnull, check) == [op |-> "add", col |-> c, dflt |-> dflt, notnull |-> notnull, check |-> check]
Drop(c) == [op |-> "drop", col |-> c]
Rename(o, n) == [op |-> "rename", old |-> o, new |-> n]
Retable(n) == [op |-> "retable", to |-> n]

\* the single operations, and the pairs in which the second meets what the
\* first has done
Ops ==
  {Add("c", "const", TRUE, {}), Add("c", "const", FALSE, {"a", "c"}), Drop("b"), Drop("c"), Rename("b", "c"), Rename("a", "b")}

\* a column under the name of one that has just gone, a default that only
\* the application evaluates, a rename to itself
Late ==
  {<<Drop("b"), Add("b", "const", FALSE, {"b"})>>, <<Rename("b", "c"), Add("b", "const", FALSE, {"b", "c"})>>,
   <<Drop("b"), Add("c", "clock", FALSE, {})>>, <<Drop("b"), Add("c", "null", TRUE, {})>>, <<Rename("b", "b")>>}

Pairs ==
  {<<Drop("b"), y>> : y \in {Add("c", "const", TRUE, {}), Add("c", "const", FALSE, {"a", "c"}), Rename("a", "b"), Drop("b")}}
    \cup {<<Add("c", "const", TRUE, {}), y>> : y \in {Drop("c"), Rename("b", "c")}}
    \cup {<<Rename("b", "c"), y>> : y \in {Add("c", "const", FALSE, {"a", "c"}), Drop("c"), Rename("a", "b")}}
    \cup {<<Add("c", "const", FALSE, {"a", "c"}), Drop("b")>>}

MCAlters == {<<x>> : x \in Ops} \cup Pairs \cup Late
              \cup {<<Add("c", "none", FALSE, {})>>} \cup {<<Retable("u")>>, <<Retable("v")>>}

\* held: the rows have a field in every column; the CHECKs they violate once
\* filled, and with the value a column had before
RowState(held, fails, old) == [held |-> held, fails |-> fails, old |-> old]
MCRowStates ==
  {RowState(FALSE, {}, {}), RowState(FALSE, {{"a", "c"}}, {}),
   RowState(TRUE, {{"a", "c"}, {"b"}, {"b", "c"}}, {}), RowState(TRUE, {{"b"}}, {{"b"}})}
=============================================================================
