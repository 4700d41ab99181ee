------------------------------- MODULE MCDml -------------------------------
EXTENDS Dml

T == <<"a", "b", "c">>

R(k, r) == [k |-> k, r |-> r]
NoFks == [t \in {"a", "b", "c"} |-> NoFk]
Cat(fk, auto, trig) == [fk |-> fk, default |-> [t \in {"a", "b", "c"} |-> 1], auto |-> auto, trig |-> trig]
Ref(p, del, upd) == [ref |-> p, del |-> del, upd |-> upd]
Trig(t, before, ev, act, target) ==
  [t |-> t, before |-> before, ev |-> ev, act |-> act, target |-> target]

\* b references a, c references b, or a table references itself
Chain(d, e, u) == [NoFks EXCEPT !["b"] = Ref("a", d, u), !["c"] = Ref("b", e, u)]
Chains == {Chain(d, e, "cascade") : d \in {"none", "cascade", "setnull", "default"}, e \in {"none", "cascade", "setnull"}}
          \cup {Chain("cascade", e, u) : e \in {"none", "cascade", "setnull"}, u \in {"none", "setnull"}}
Loops == {[NoFks EXCEPT !["a"] = Ref("a", d, u)] : d \in {"none", "cascade", "setnull"}, u \in {"cascade", "none"}}

\* a and b reference each other, c references a
Cycles == {[t \in {"a", "b", "c"} |-> CASE t = "a" -> Ref("b", del[1], u) [] t = "b" -> Ref("a", del[2], v)
                                       [] t = "c" -> Ref("a", "cascade", "cascade")] :
             del \in {<<"none", "none">>, <<"cascade", "cascade">>, <<"cascade", "none">>, <<"setnull", "default">>},
             u \in {"none", "cascade"}, v \in {"none", "cascade"}}

\* the ids of a are generated where no other table is tied to it
Simple == {Cat(fk, {}, <<>>) : fk \in Chains \cup Cycles} \cup {Cat(fk, {"a"}, <<>>) : fk \in Loops \cup {NoFks}}

Link == [NoFks EXCEPT !["b"] = Ref("a", "cascade", "cascade")]
Triggered ==
  {Cat(fk, IF act = "ins" THEN {"c"} ELSE {}, <<Trig("b", bf, ev, act, "c")>>) :
     fk \in {Link, NoFks}, bf \in BOOLEAN, ev \in {"insert", "update", "delete"},
     act \in {"ins", "del", "clr", "raise"}}
  \cup {Cat(Link, {}, <<Trig("a", bf, "delete", "del", "b"), Trig("b", bf, "delete", "ins", "c")>>) : bf \in BOOLEAN}
  \cup {Cat(NoFks, {}, <<Trig("a", TRUE, "delete", "del", "a")>>)}
  \cup {Cat(Link, {}, <<Trig("b", bf, "delete", "del", "a")>>) : bf \in BOOLEAN}
  \cup {Cat([Link EXCEPT !["c"] = Ref("b", "none", "none")], {}, <<Trig(t, bf, ev, "ref", "c")>>) :
           t \in {"a", "b"}, bf \in BOOLEAN, ev \in {"insert", "update", "delete"}}

\* two tables whose triggers fire each other
Mutual == {Cat(NoFks, {}, <<Trig("a", TRUE, "delete", "del", "b"), Trig("b", TRUE, "delete", "del", "a")>>)}

\* a's first trigger runs a cascade of its own on c, its second writes b
Nested ==
  {Cat([Link EXCEPT !["c"] = Ref("c", "cascade", "cascade")], {},
       <<Trig("a", bf, "delete", "del", "c"), Trig("a", bf, "delete", "clr", "b")>>) : bf \in BOOLEAN}

MCSchemas == Simple \cup Triggered \cup Mutual \cup Nested

WideSchemas == {Cat(Link, {}, <<>>)}

\* the third table is empty only beside the smaller first one
NarrowStores ==
  {st \in {[t \in {"a", "b", "c"} |-> IF t = "a" THEN x ELSE IF t = "b" THEN y ELSE z] :
     x \in {{R(1, 2), R(2, 1)}, {R(1, 0), R(2, 1), R(3, 2)}},
     y \in {{R(1, 1), R(2, 2)}, {R(1, 0), R(2, 1)}},
     z \in {{}, {R(1, 1)}}} : st["c"] = {} => Cardinality(st["a"]) = 2}

\* one parent with as many children as the pass cap
WideStores ==
  {[t \in {"a", "b", "c"} |-> IF t = "a" THEN {R(1, 0)}
                              ELSE IF t = "b" THEN {R(i, 1) : i \in 1..MaxFkActionPasses} ELSE {}]}
MCSetups == [schema : MCSchemas, db : NarrowStores] \cup [schema : WideSchemas, db : WideStores]

Sel == {{1}, {1, 2}, {2, 3}}
MCStatements ==
  [op : {"delete"}, t : {"a", "b"}, by : {"k"}, in : Sel, probe : BOOLEAN]
  \cup [op : {"update"}, t : {"a", "b"}, by : {"k"}, in : Sel, col : {"k"}, val : {0}, probe : BOOLEAN]
  \cup [op : {"update"}, t : {"a", "b"}, by : {"k"}, in : {{1}, {1, 2}}, col : {"r"}, val : {0, 2}, probe : {FALSE}]
  \cup [op : {"insert"}, t : {"a", "b"}, policy : {"plain", "replace", "ignore"}, col : {"r"},
        rows : {<<R(0, 0)>>, <<R(2, 1), R(3, 2)>>, <<R(3, 1), R(3, 3)>>}]
  \cup [op : {"insert"}, t : {"a", "b"}, policy : {"upsert"}, col : {"r", "k"},
        rows : {<<R(2, 1), R(3, 2)>>, <<R(3, 1), R(3, 2)>>}]
  \cup [op : {"merge"}, t : {"a", "b"}, col : {"r", "k"},
        rows : {<<R(1, 2), R(3, 1)>>, <<R(1, 2), R(1, 1)>>, <<R(0, 1), R(2, 3)>>}]

=============================================================================
