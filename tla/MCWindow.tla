------------------------------ MODULE MCWindow ------------------------------
(* Three and four rows with tied, distant and NULL keys; arguments that    *)
(* are NULL, filtered out, decimal or float, whose sums overflow -4..3 and *)
(* -6..6 and round above 4.                                                *)
EXTENDS Window

Row(part, key, arg, kept) == [part |-> part, key |-> key, arg |-> arg, kept |-> kept]
Args == { <<Num(3), Num(-3), Num(2), Num(3)>>,
          <<Num(2), V("dec", 1), Null, Num(3)>>,
          <<Num(1), Null, Num(3), Num(1)>>,
          <<V("dec", 3), Num(3), V("dec", 3), Num(-3)>>,
          <<V("float", 3), Num(2), Null, V("float", -1)>> }
ThreeKeys == [1..3 -> {Null, Num(1), Num(3)}]
FourKeys == { <<Num(1), Num(1), Num(2), Num(3)>>, <<Null, Num(2), Num(0), Num(2)>> }
Table(ks, as) == [i \in DOMAIN ks |-> Row(1, ks[i], as[i], TRUE)]
ThreeRows == { Table(ks, <<Num(1), Num(2), Num(-3)>>) : ks \in ThreeKeys }
FourRows == { Table(ks, as) : ks \in FourKeys, as \in Args }
OddRows == { Table(<<Num(2), Null, Num(0), Null>>, <<Num(3), Num(-3), Num(2), Num(3)>>),
           <<Row(2, Num(1), Num(3), TRUE), Row(1, Num(1), Num(2), FALSE),
             Row(2, Num(1), Num(2), FALSE), Row(1, Null, Num(1), TRUE)>> }

MCOrders == { [ordered |-> o, asc |-> a, nullsFirst |-> n] :
                <<o, a, n>> \in {<<TRUE, TRUE, TRUE>>, <<TRUE, FALSE, TRUE>>, <<TRUE, TRUE, FALSE>>,
                                 <<FALSE, TRUE, TRUE>>} }

Bound(k, n) == [k |-> k, n |-> n]
Bounds == {Bound(0, 0), Bound(1, 2), Bound(1, 1), Bound(2, 0), Bound(3, 1), Bound(3, 2), Bound(4, 0)}
FrameOf(u, s, e) == <<[unit |-> u, start |-> s, end |-> e]>>
MCFrames ==
  {<<>>, FrameOf("rows", Bound(1, -1), Bound(2, 0))}
    \cup UNION { { FrameOf(u, s, e) : s \in Bounds, e \in {b \in Bounds : b.k > 0} } :
                 u \in {"rows", "groups", "range"} }

Call(fn, distinct, star, n) == [fn |-> fn, distinct |-> distinct, star |-> star, n |-> n]
Sliding == { Call(fn, FALSE, FALSE, 0) : fn \in {"sum", "avg", "min"} }
Aggs == Sliding
          \cup { Call("max", FALSE, FALSE, 0), Call("count", FALSE, TRUE, 0), Call("sum", TRUE, FALSE, 0), Call("concat", FALSE, FALSE, 0),
                 Call("first_value", FALSE, FALSE, 0) }
Scalars == { Call(fn, FALSE, FALSE, 0) : fn \in {"row_number", "rank", "dense_rank"} }
             \cup { Call("ntile", FALSE, FALSE, n) : n \in {0, 2, 3} }
             \cup { Call("lag", FALSE, FALSE, 1), Call("lead", FALSE, FALSE, 2), Call("lag", FALSE, FALSE, -1) }
MCQueries ==
  [rows : FourRows, order : MCOrders, frame : MCFrames, call : Sliding]
    \cup [rows : OddRows \cup { Table(ks, <<Num(2), V("dec", 1), Null, Num(3)>>) : ks \in FourKeys },
          order : MCOrders, frame : MCFrames, call : Aggs]
    \cup [rows : ThreeRows, order : {o \in MCOrders : o.ordered}, frame : MCFrames, call : {Call("sum", FALSE, FALSE, 0)}]
    \cup [rows : FourRows \cup OddRows, order : MCOrders, frame : {<<>>, FrameOf("rows", Bound(1, 1), Bound(2, 0))},
          call : Scalars]
=============================================================================
