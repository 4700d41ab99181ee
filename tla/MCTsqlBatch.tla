---------------------------- MODULE MCTsqlBatch ----------------------------
(* Small batches: every atom in every construct, constructs in constructs. *)
EXTENDS TsqlBatch

Query == Plain(<<"select", "x", "from", "x">>)
CaseQuery == Plain(<<"select", "case", "x", "else", "x", "end", "nl", "from", "x">>)
InsertSelect == Plain(<<"insert", "x", "nl", "select", "(", "x", ")">>)
UpdateSet == Plain(<<"update", "x", "nl", "set", "x", "=", "@a">>)
WithSelect == Plain(<<"with", "x", "as", "(", "select", "x", ")", "nl", "select", "x">>)
Merge == Plain(<<"merge", "x", "nl", "using", "x", "on", "x">>)
BeginTran == Plain(<<"begin", "tran">>)
DeclareA == S("declare", <<"@a">>, <<>>, <<>>)
DeclareB == S("declare", <<"@b", "(", "@a", ")">>, <<>>, <<>>)
SetA == S("set", <<"@a", "case", "x", "else", "@a", "end">>, <<>>, <<>>)
Assign == S("assign", <<"@a", "x", "from", "x">>, <<>>, <<>>)
PrintA == S("print", <<"@a">>, <<>>, <<>>)
Throw == S("throw", <<"x">>, <<>>, <<>>)
Rethrow == S("throw", <<>>, <<>>, <<>>)
Break == S("break", <<>>, <<>>, <<>>)
Continue == S("continue", <<>>, <<>>, <<>>)

Condition == <<"(", "select", "x", ")", "=", "x">>
If(a, b) == S("if", Condition, a, b)
While(a) == S("while", <<"x", "=", "x">>, a, <<>>)
Try(a, b) == S("try", <<>>, a, b)

Atoms == {Query, CaseQuery, InsertSelect, UpdateSet, BeginTran, DeclareA, DeclareB, SetA, Assign, PrintA, Throw, Rethrow}
TwoPart == {WithSelect, Merge}
Reading == {Query, CaseQuery, InsertSelect, BeginTran, PrintA, Throw}
Nested == {If(<<a>>, <<b>>) : a \in Reading, b \in Atoms} \cup {If(<<a, b>>, <<>>) : a \in {CaseQuery, SetA}, b \in Atoms}
          \cup {While(a) : a \in {<<>>, <<Query>>, <<Query, Break>>, <<If(<<Continue>>, <<>>), Throw>>}}
          \cup {Try(<<a>>, <<b>>) : a \in {Query, Throw}, b \in Atoms}
Loops == {While(<<Try(<<a>>, <<b>>)>>) : a \in {Query, Throw, Break}, b \in {PrintA, Rethrow, Break, Continue}}
Rescues == {Try(<<a>>, <<Try(<<b>>, <<c>>), Rethrow>>) : a \in {Query, Throw}, b \in {Query, Rethrow}, c \in {Query, Rethrow}}
Deep == {If(<<While(<<Try(<<If(<<Break, Query>>, <<Throw>>)>>, <<Continue>>)>>), Query>>, <<While(<<>>)>>)}

MCPrograms == {<<<<a, b>>>> : a \in Atoms, b \in Atoms} \cup {<<<<a>>>> : a \in Atoms}
              \cup {<<<<a, b>>>> : a \in TwoPart, b \in Atoms \cup TwoPart}
              \cup {<<<<DeclareA, If(<<a>>, <<b>>), a>>>> : a, b \in TwoPart}
              \cup {<<<<DeclareA, n, Query>>>> : n \in Nested \cup Loops \cup Rescues \cup Deep}
              \cup {<<<<Query, S("return", <<>>, <<>>, <<>>)>>>>, <<<<DeclareA, BeginTran>>, <<UpdateSet>>>>}
MCStyles == {"lines", "semis"}

=============================================================================
