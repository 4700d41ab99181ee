------------------------------- MODULE Window -------------------------------
(***************************************************************************)
(* One window call of a SELECT (compute_windows in engine/select.rs, the   *)
(* frame and the aggregates in engine/window.rs): the rows are split into  *)
(* partitions, each is sorted, every row gets a frame of positions, and an *)
(* aggregate slides along them, adding rows at the high edge and taking    *)
(* them out at the low one.  A step handles one row (or one run of peers). *)
(***************************************************************************)
EXTENDS Integers, Sequences, FiniteSets, TLC, SequencesExt, FiniteSetsExt

CONSTANTS Queries,   \* calls [rows, order, frame, call]: rows [part, key, arg, kept],
                     \* order [ordered, asc, nullsFirst], frame <<>> or <<[unit, start, end]>>,
                     \* call [fn, distinct, star, n]
          MaxInt,    \* integers are -MaxInt - 1 .. MaxInt
          MaxExact,  \* floats hold every whole number up to here, above it the even ones
          MaxDec     \* decimals are -MaxDec .. MaxDec

VARIABLES q,       \* the call: rows, order, frame, call
          status,  \* parse -> next -> rows -> ... -> done | refused | failed | panicked
          left,    \* partitions still to do, in order of their first row
          keyed,   \* position -> row of the partition in hand
          bounds,  \* position -> <<lo, hi>>
          pos, pushed, agg,
          vals     \* row -> value

vars == <<q, status, left, keyed, bounds, pos, pushed, agg, vals>>

\* values: an average keeps its sum and divisor, other values divide by one
V(t, v) == [t |-> t, v |-> v, d |-> 1]
Null == V("null", 0)
Num(n) == V("int", n)
Fits(n) == n \in -(MaxInt + 1)..MaxInt
DecFits(n) == n \in -MaxDec..MaxDec

\* a float operation rounds to the nearest float, ties to the multiple of four
Rounded(n) ==
  IF n \in -MaxExact..MaxExact \/ n % 2 = 0 THEN n ELSE IF n % 4 = 1 THEN n - 1 ELSE n + 1

\* a + sign * b.  A Decimal operand makes an exact Decimal, a Float one a
\* rounded Float; a Decimal or an Int out of range makes NULL.
Arith(a, b, sign) ==
  LET n == a.v + sign * b.v
      ts == {a.t, b.t}
  IN  CASE Null \in {a, b} -> Null
        [] Null \notin {a, b} /\ "dec" \in ts -> IF DecFits(n) THEN V("dec", n) ELSE Null
        [] Null \notin {a, b} /\ "dec" \notin ts /\ "float" \in ts ->
             V("float", Rounded(Rounded(a.v) + sign * Rounded(b.v)))
        [] OTHER -> IF Fits(n) THEN Num(n) ELSE Null
add_values(a, b) == Arith(a, b, 1)
sub_values(a, b) == Arith(a, b, -1)

-----------------------------------------------------------------------------
(* The call and its frame.  A bound's rank orders it: UNBOUNDED PRECEDING, *)
(* n PRECEDING, CURRENT ROW, n FOLLOWING, UNBOUNDED FOLLOWING.             *)

Unbounded == 0
Preceding == 1
CurrentRow == 2
Following == 3
UnboundedFollowing == 4

Aggregates == {"count", "sum", "avg", "min", "max", "concat"}
Framed == Aggregates \cup {"first_value", "last_value"}
IsAgg == q.call.fn \in Aggregates
Frame == q.frame[1]
HasOffset(b) == b.k \in {Preceding, Following}

LegalOffset(b) == HasOffset(b) => b.n >= 0

Misplaced(f) ==
  \/ f.start.k > f.end.k
  \/ f.start.k = Preceding /\ f.end.k = Preceding /\ f.start.n < f.end.n
  \/ f.start.k = Following /\ f.end.k = Following /\ f.start.n > f.end.n

Parses(f) ==
  /\ LegalOffset(f.start) /\ LegalOffset(f.end)
  /\ ~ Misplaced(f)
  /\ f.unit = "range" /\ (HasOffset(f.start) \/ HasOffset(f.end)) => q.order.ordered

\* the frame is parsed first; what the function accepts shows in a partition
Refused ==
  \/ q.frame # <<>> /\ ~ Parses(Frame)
  \/ q.rows # <<>> /\ q.frame # <<>> /\ q.call.fn \notin Framed
  \/ q.rows # <<>> /\ q.call.fn = "ntile" /\ q.call.n < 1
  \/ q.rows # <<>> /\ q.call.fn \in {"lag", "lead"} /\ q.call.n < 0

-----------------------------------------------------------------------------
(* A partition: its rows in the order of the call, peers side by side.     *)

\* cmp_maybe_null as -1, 0 or 1
Sign(n) == IF n < 0 THEN -1 ELSE IF n > 0 THEN 1 ELSE 0
Cmp(a, b) ==
  LET low == IF q.order.nullsFirst THEN -1 ELSE 1
  IN IF a = Null /\ b = Null THEN 0
     ELSE IF a = Null THEN low
     ELSE IF b = Null THEN -low
     ELSE Sign(a.v - b.v)
\* the same comparison in the direction of the ORDER BY
Directed(c) == IF q.order.asc THEN c ELSE -c
Before(i, j) == q.order.ordered /\ Directed(Cmp(q.rows[i].key, q.rows[j].key)) < 0

Members(part) == {i \in DOMAIN q.rows : q.rows[i].part = part}
\* a stable sort: behind the rows before it and its earlier peers
Sorted(part) ==
  LET rank(i) == Cardinality({j \in Members(part) : Before(j, i) \/ (~ Before(i, j) /\ j < i)})
  IN [p \in 0..Cardinality(Members(part)) - 1 |-> CHOOSE i \in Members(part) : rank(i) = p]
Partitions ==
  LET firsts == {i \in DOMAIN q.rows : \A j \in 1..i - 1 : q.rows[j].part # q.rows[i].part}
  IN [k \in 1..Cardinality(firsts) |->
        q.rows[CHOOSE i \in firsts : Cardinality({j \in firsts : j < i}) = k - 1].part]

Size(ks) == Cardinality(DOMAIN ks)
KeyAt(ks, p) == q.rows[ks[p]].key
Peer(ks, a, b) == ~ q.order.ordered \/ Cmp(KeyAt(ks, a), KeyAt(ks, b)) = 0
RunStart(ks, p) == Min({a \in 0..p : Peer(ks, a, p)})
RunEnd(ks, p) == Max({b \in p..Size(ks) - 1 : Peer(ks, p, b)})

\* the peer groups; an unordered partition counts every row as a group of its own
GroupSpans(ks) ==
  LET starts == IF q.order.ordered THEN {RunStart(ks, p) : p \in DOMAIN ks} ELSE DOMAIN ks
  IN [g \in 0..Cardinality(starts) - 1 |->
        LET s == CHOOSE s \in starts : Cardinality({t \in starts : t < s}) = g
        IN <<s, IF q.order.ordered THEN RunEnd(ks, s) ELSE s>>]
GroupOf(spans, p) == CHOOSE g \in DOMAIN spans : p \in spans[g][1]..spans[g][2]

-----------------------------------------------------------------------------
(* frame_bounds                                                            *)

Back(p, k) == IF k > p THEN 0 ELSE p - k

RowsBounds(f, n, p) ==
  << CASE f.start.k = Unbounded -> 0
       [] f.start.k = Preceding -> Back(p, f.start.n)
       [] f.start.k = CurrentRow -> p
       [] f.start.k = Following -> p + Min({f.start.n, n})
       [] OTHER -> n,
     CASE f.end.k = Unbounded -> 0
       [] f.end.k = Preceding -> Back(p, f.end.n)
       [] f.end.k = CurrentRow -> p
       [] f.end.k = Following -> Min({p + f.end.n, n - 1})
       [] OTHER -> n - 1 >>

GroupAt(b, g, last) ==
  CASE b.k = Unbounded -> 0
    [] b.k = Preceding -> Back(g, b.n)
    [] b.k = CurrentRow -> g
    [] b.k = Following -> Min({g + b.n, last})
    [] OTHER -> last

GroupsBounds(f, spans, p) ==
  LET g == GroupOf(spans, p)
      last == Cardinality(DOMAIN spans) - 1
  IN <<spans[GroupAt(f.start, g, last)][1], spans[GroupAt(f.end, g, last)][2]>>

\* the key moved by an offset, none when it leaves the integers
ShiftKey(key, n, up) ==
  LET v == IF up THEN key.v + n ELSE key.v - n IN IF Fits(v) THEN <<Num(v)>> ELSE <<>>

\* PRECEDING is towards the front of the sort, whatever its direction
BoundValueUnturned(b, key) ==
  CASE b.k \in {Unbounded, UnboundedFollowing} -> <<>>
    [] b.k = CurrentRow -> <<key>>
    [] b.k = Preceding -> ShiftKey(key, b.n, FALSE)
    [] OTHER -> ShiftKey(key, b.n, TRUE)
BoundValue(b, key) ==
  CASE b.k \in {Unbounded, UnboundedFollowing} -> <<>>
    [] b.k = CurrentRow -> <<key>>
    [] b.k = Preceding -> ShiftKey(key, b.n, ~ q.order.asc)
    [] OTHER -> ShiftKey(key, b.n, q.order.asc)

\* binary search for the first key at the target, or past it
KeySearch(ks, target, past) ==
  LET found(p) == Directed(Cmp(KeyAt(ks, p), target)) >= (IF past THEN 1 ELSE 0)
      at[r \in (0..Size(ks)) \X (0..Size(ks))] ==
        LET mid == r[1] + (r[2] - r[1]) \div 2
        IN IF r[1] >= r[2] THEN r[1]
           ELSE IF found(mid) THEN at[<<r[1], mid>>] ELSE at[<<mid + 1, r[2]>>]
  IN at[<<0, Size(ks)>>]

RangeBounds(f, ks, p) ==
  LET n == Size(ks)
      key == KeyAt(ks, p)
      from == BoundValue(f.start, key)
      to == BoundValue(f.end, key)
      lo == IF from = <<>> THEN 0 ELSE KeySearch(ks, from[1], FALSE)
      hi == IF to = <<>> THEN n - 1 ELSE KeySearch(ks, to[1], TRUE)
  IN IF ~ q.order.ordered THEN <<0, n - 1>>
     ELSE IF key = Null THEN <<KeySearch(ks, key, FALSE), Back(KeySearch(ks, key, TRUE), 1)>>
     ELSE IF hi = 0 THEN <<Max({lo, 1}), 0>> ELSE <<lo, hi - 1>>

\* no frame: up to the current row's last peer
FrameBounds(ks) ==
  [p \in DOMAIN ks |->
     IF q.frame = <<>> THEN <<0, RunEnd(ks, p)>>
     ELSE CASE Frame.unit = "rows" -> RowsBounds(Frame, Size(ks), p)
            [] Frame.unit = "groups" -> GroupsBounds(Frame, GroupSpans(ks), p)
            [] OTHER -> RangeBounds(Frame, ks, p)]

-----------------------------------------------------------------------------
(* The aggregates.  arg is <<>> when FILTER drops the row.  `failed`: the  *)
(* Decimal sum of an AVG has overflowed; `rounded` records, for the        *)
(* properties, that a float operation was not exact.                       *)

NewAgg == [kept |-> 0, nonnull |-> 0, seen |-> {}, sum |-> <<>>,
           decMode |-> FALSE, avgVals |-> <<>>, avgDec |-> 0, avgFloat |-> 0,
           best |-> <<>>, concat |-> <<>>,
           extreme |-> <<>>, window |-> <<>>, degraded |-> FALSE,
           failed |-> FALSE, rounded |-> FALSE]

Arg(i) == IF q.rows[i].kept THEN <<q.rows[i].arg>> ELSE <<>>
Missing(arg) == arg = <<>> \/ arg = <<Null>>

AddSum(a, v) ==
  LET was == IF a.sum = <<>> THEN Num(0) ELSE a.sum[1]
      next == add_values(was, v)
  IN  [a EXCEPT !.sum = <<next>>, !.rounded = @ \/ (next.t = "float" /\ next.v # was.v + v.v)]

AddDec(a, v) == [a EXCEPT !.avgDec = @ + v.v, !.failed = @ \/ ~DecFits(a.avgDec + v.v)]

\* avg_f64 moves to n, which is exact only when it is the true sum
Refloat(a, n, true) == [a EXCEPT !.avgFloat = n, !.rounded = @ \/ n # true]

\* the first Decimal takes the floats collected so far over into an exact sum
AddAvg(a, v) ==
  IF a.decMode THEN AddDec(a, v)
  ELSE IF v.t = "dec"
       THEN AddDec(FoldLeft(AddDec, [a EXCEPT !.decMode = TRUE, !.avgVals = <<>>, !.avgDec = 0], a.avgVals), v)
       ELSE Refloat([a EXCEPT !.avgVals = Append(@, v)],
                    Rounded(a.avgFloat + Rounded(v.v)), a.avgFloat + v.v)

\* v is ahead of w as a minimum, or as a maximum
Better(v, w) == IF q.call.fn = "min" THEN v.v < w.v ELSE v.v > w.v

AvgValue(a) ==
  IF a.nonnull = 0 THEN Null
  ELSE IF a.decMode THEN [t |-> "dec", v |-> a.avgDec, d |-> a.nonnull]
  ELSE [t |-> "float", v |-> a.avgFloat, d |-> a.nonnull]

\* RunningAgg::push_row
PushRow(a, kept, arg) ==
  LET b == IF kept THEN [a EXCEPT !.kept = @ + 1] ELSE a
      v == arg[1]
      c == [b EXCEPT !.nonnull = @ + 1, !.seen = IF q.call.distinct THEN @ \cup {v} ELSE @]
      fn == q.call.fn
  IN IF Missing(arg) THEN b
     ELSE IF q.call.distinct /\ v \in b.seen THEN b
     ELSE CASE fn = "count" -> c
            [] fn = "sum" -> AddSum(c, v)
            [] fn = "avg" -> AddAvg(c, v)
            [] fn = "concat" -> [c EXCEPT !.concat = Append(@, v)]
            [] OTHER -> IF c.best # <<>> /\ ~ Better(v, c.best[1]) THEN c
                        ELSE [c EXCEPT !.best = <<v>>]

Snapshot(a) ==
  LET fn == q.call.fn
  IN CASE fn = "count" -> Num(IF q.call.star THEN a.kept ELSE a.nonnull)
       [] fn = "sum" -> IF a.sum = <<>> THEN Null ELSE a.sum[1]
       [] fn = "avg" -> AvgValue(a)
       [] fn = "concat" -> IF a.concat = <<>> THEN Null ELSE V("text", a.concat)
       [] OTHER -> IF a.best = <<>> THEN Null ELSE a.best[1]

\* RunningAgg over the positions lo..hi
PushTo(a, ks, from, to) ==
  FoldLeft(LAMBDA b, p : PushRow(b, q.rows[ks[p]].kept, Arg(ks[p])), a,
           [k \in 1..(to - from + 1) |-> from + k - 1])
Fresh(ks, lo, hi) == PushTo(NewAgg, ks, lo, hi)

\* SlidingFrameAgg::push
Push(a, p, kept, arg) ==
  LET b == [a EXCEPT !.window = Append(@, [pos |-> p, kept |-> kept, arg |-> arg]),
                     !.kept = IF kept THEN @ + 1 ELSE @]
      v == arg[1]
      c == [b EXCEPT !.nonnull = @ + 1]
      fn == q.call.fn
  IN IF Missing(arg) THEN b
     ELSE CASE fn \in {"min", "max"} ->
                 [b EXCEPT !.extreme = Append(SelectSeq(@, LAMBDA e : ~ Better(v, e.v)),
                                              [pos |-> p, v |-> v])]
            [] fn = "sum" -> AddSum(c, v)
            [] fn = "avg" -> AddAvg(c, v)
            [] OTHER -> c

DropSum(a, v) ==
  LET next == IF a.sum = <<>> THEN Null ELSE sub_values(a.sum[1], v)
  IN [a EXCEPT !.sum = <<next>>, !.degraded = @ \/ next = Null,
               !.rounded = @ \/ (next.t = "float" /\ next.v # a.sum[1].v - v.v)]

DropAvg(a, v) ==
  IF a.decMode /\ DecFits(a.avgDec - v.v) THEN [a EXCEPT !.avgDec = @ - v.v]
  ELSE IF a.decMode \/ v.t = "dec" \/ a.avgVals = <<>> THEN [a EXCEPT !.degraded = TRUE]
  ELSE LET x == Head(a.avgVals).v
       IN  Refloat([a EXCEPT !.avgVals = Tail(@)], Rounded(a.avgFloat - Rounded(x)), a.avgFloat - x)

\* the extreme leaves with the row that held it
ExtremeStays(extreme, p) == extreme
ExtremeWithout(extreme, p) == IF extreme # <<>> /\ Head(extreme).pos = p THEN Tail(extreme) ELSE extreme

Pop(a) ==
  LET w == Head(a.window)
      b == [a EXCEPT !.window = Tail(@)]
      c == [b EXCEPT !.kept = IF w.kept THEN @ - 1 ELSE @]
      d == [c EXCEPT !.nonnull = @ - 1]
      fn == q.call.fn
  IN IF fn \in {"min", "max"}
     THEN [b EXCEPT !.extreme = ExtremeWithout(@, w.pos)]
     ELSE IF Missing(w.arg) THEN c
     ELSE CASE fn = "sum" -> DropSum(d, w.arg[1])
            [] fn = "avg" -> DropAvg(d, w.arg[1])
            [] OTHER -> d

PopTo(a, lo) ==
  LET out == Cardinality({k \in DOMAIN a.window : a.window[k].pos < lo})
  IN FoldLeft(LAMBDA b, k : Pop(b), a, [k \in 1..out |-> k])

Value(a) ==
  IF q.call.fn \in {"min", "max"} THEN IF a.extreme = <<>> THEN Null ELSE Head(a.extreme).v
  ELSE Snapshot(a)

-----------------------------------------------------------------------------
Init ==
  /\ q \in Queries
  /\ status = "parse"
  /\ left = <<>> /\ keyed = <<>> /\ bounds = <<>>
  /\ pos = 0 /\ pushed = 0 /\ agg = NewAgg
  /\ vals = [i \in DOMAIN q.rows |-> Null]

Parse ==
  /\ status = "parse"
  /\ status' = IF Refused THEN "refused" ELSE "next"
  /\ left' = Partitions
  /\ UNCHANGED <<q, keyed, bounds, pos, pushed, agg, vals>>

Partition ==
  /\ status = "next" /\ left # <<>>
  /\ keyed' = Sorted(Head(left))
  /\ bounds' = FrameBounds(keyed')
  /\ left' = Tail(left)
  /\ status' = "rows"
  /\ pos' = 0 /\ pushed' = 0 /\ agg' = NewAgg
  /\ UNCHANGED <<q, vals>>

\* the partition's next rows get their values, and the last one ends it
Assign(new, upto) ==
  /\ vals' = [i \in DOMAIN vals |-> IF \E p \in pos..upto : keyed[p] = i THEN new[i] ELSE vals[i]]
  /\ pos' = upto + 1
  /\ status' = IF upto + 1 = Size(keyed) THEN "next" ELSE "rows"
  /\ UNCHANGED <<q, left, keyed, bounds>>
Same(v) == [i \in DOMAIN vals |-> v]
Abort(why) == status' = why /\ UNCHANGED <<q, left, keyed, bounds, pos, vals>>
\* the rows up to upto get the value of aggregate a, unless it has failed
Give(a, v, upto) == IF a.failed THEN Abort("failed") ELSE Assign(Same(v), upto)

InRows == status = "rows"
Invertible == q.call.fn # "concat" /\ ~ q.call.distinct

\* no frame: the running aggregate takes in one run of peers
RunningStep ==
  /\ InRows /\ IsAgg /\ q.frame = <<>>
  /\ LET end == RunEnd(keyed, pos)
     IN /\ agg' = PushTo(agg, keyed, pushed, end)
        /\ pushed' = end + 1
        /\ Give(agg', Snapshot(agg'), end)

\* one row of the sliding aggregate; an empty frame, or one the window cannot
\* be taken back to, is folded afresh
SlideStep ==
  /\ InRows /\ IsAgg /\ q.frame # <<>> /\ Invertible
  /\ LET lo == bounds[pos][1]
         hi == bounds[pos][2]
         fresh == hi < lo \/ agg.degraded
         pushing == [k \in 1..(hi - pushed + 1) |-> pushed + k - 1]
         full == FoldLeft(LAMBDA a, p : Push(a, p, q.rows[keyed[p]].kept, Arg(keyed[p])), agg, pushing)
     IN /\ agg' = IF fresh THEN agg ELSE PopTo(full, lo)
        /\ pushed' = IF fresh \/ hi < pushed THEN pushed ELSE hi + 1
        /\ IF agg'.failed \/ ~ (fresh \/ agg'.degraded) THEN Give(agg', Value(agg'), pos)
           ELSE LET run == Fresh(keyed, lo, hi) IN Give(run, Snapshot(run), pos)

FoldStep ==
  /\ InRows /\ IsAgg /\ q.frame # <<>> /\ ~ Invertible
  /\ LET run == Fresh(keyed, bounds[pos][1], bounds[pos][2]) IN Give(run, Snapshot(run), pos)
  /\ UNCHANGED <<pushed, agg>>

RankValue(p, first, dense) ==
  Num(1 + CASE q.call.fn = "row_number" -> p [] q.call.fn = "rank" -> first [] OTHER -> dense)

\* one run of peers; pushed counts the runs before it
RankStep ==
  /\ InRows /\ q.call.fn \in {"row_number", "rank", "dense_rank"}
  /\ LET end == RunEnd(keyed, pos)
         at(i) == CHOOSE p \in DOMAIN keyed : keyed[p] = i
     IN Assign([i \in DOMAIN vals |->
                  IF \E p \in pos..end : keyed[p] = i THEN RankValue(at(i), pos, pushed) ELSE Null], end)
  /\ pushed' = pushed + 1
  /\ UNCHANGED agg

Bucket(p, n, buckets) ==
  LET each == n \div buckets
      wide == n % buckets
  IN IF each = 0 THEN p
     ELSE IF p < wide * (each + 1) THEN p \div (each + 1)
     ELSE wide + (p - wide * (each + 1)) \div each

NtileStep ==
  /\ InRows /\ q.call.fn = "ntile"
  /\ Assign(Same(Num(1 + Bucket(pos, Size(keyed), q.call.n))), pos)
  /\ UNCHANGED <<pushed, agg>>

OffsetStep ==
  /\ InRows /\ q.call.fn \in {"lag", "lead"}
  /\ LET target == IF q.call.fn = "lag" THEN pos - q.call.n ELSE pos + q.call.n
     IN Assign(Same(IF target \in DOMAIN keyed THEN q.rows[keyed[target]].arg ELSE Null), pos)
  /\ UNCHANGED <<pushed, agg>>

\* the frame's edge is indexed without asking whether the frame has a row
EdgeStep ==
  /\ InRows /\ q.call.fn \in {"first_value", "last_value"}
  /\ LET target == bounds[pos][IF q.call.fn = "first_value" THEN 1 ELSE 2]
     IN IF target \in DOMAIN keyed
        THEN Assign(Same(q.rows[keyed[target]].arg), pos)
        ELSE Abort("panicked")
  /\ UNCHANGED <<pushed, agg>>

Done ==
  /\ status = "next" /\ left = <<>>
  /\ status' = "done"
  /\ UNCHANGED <<q, left, keyed, bounds, pos, pushed, agg, vals>>

Next ==
  \/ Parse \/ Partition
  \/ RunningStep \/ SlideStep \/ FoldStep
  \/ RankStep \/ NtileStep \/ OffsetStep \/ EdgeStep
  \/ Done

Spec == Init /\ [][Next]_vars

-----------------------------------------------------------------------------
(* The frame as the reference manual gives it: the rows of the partition   *)
(* whose distance from the current one lies between the two bounds.        *)

Reached(b, d) ==
  CASE b.k = Unbounded -> TRUE
    [] b.k = Preceding -> d >= - b.n
    [] b.k = CurrentRow -> d >= 0
    [] b.k = Following -> d >= b.n
    [] OTHER -> FALSE
Within(b, d) ==
  CASE b.k = Unbounded -> FALSE
    [] b.k = Preceding -> d <= - b.n
    [] b.k = CurrentRow -> d <= 0
    [] b.k = Following -> d <= b.n
    [] OTHER -> TRUE

\* rows by position, groups by peer group, a range by the key's value; a NULL
\* key has its peers for a frame, and is in a frame open on its side
InFrame(r, p) ==
  LET spans == GroupSpans(keyed)
      kr == KeyAt(keyed, r)
      kp == KeyAt(keyed, p)
      d == CASE Frame.unit = "rows" -> r - p
             [] Frame.unit = "groups" -> GroupOf(spans, r) - GroupOf(spans, p)
             [] OTHER -> Directed(kr.v - kp.v)
  IN IF Frame.unit # "range" \/ (kr # Null /\ kp # Null) THEN Reached(Frame.start, d) /\ Within(Frame.end, d)
     ELSE IF kp = Null THEN kr = Null
     ELSE IF r < p THEN Frame.start.k = Unbounded ELSE Frame.end.k = UnboundedFollowing

FrameRows(p) ==
  IF q.frame = <<>> THEN 0..RunEnd(keyed, p)
  ELSE IF Frame.unit = "range" /\ ~ q.order.ordered THEN DOMAIN keyed
  ELSE {r \in DOMAIN keyed : InFrame(r, p)}

Overflows(b, p) == Frame.unit = "range" /\ HasOffset(b) /\ KeyAt(keyed, p) # Null /\ BoundValue(b, KeyAt(keyed, p)) = <<>>

\* the frame stays inside the partition: its two bounds name positions, groups
\* or values that exist there, none of them the open end of a RANGE
Inside(p) ==
  \/ q.frame = <<>>
  \/ /\ Frame.unit = "rows"
     /\ Frame.end.k = Preceding => Frame.end.n <= p
     /\ Frame.start.k # UnboundedFollowing /\ Frame.end.k # Unbounded
  \/ /\ Frame.unit = "groups"
     /\ LET spans == GroupSpans(keyed)
            g == GroupOf(spans, p)
        IN /\ Frame.end.k = Preceding => Frame.end.n <= g
           /\ Frame.start.k = Following => g + Frame.start.n \in DOMAIN spans
           /\ Frame.start.k # UnboundedFollowing /\ Frame.end.k # Unbounded
  \/ /\ Frame.unit = "range"
     /\ Frame.end.k \notin {Unbounded, UnboundedFollowing}
     /\ ~ Overflows(Frame.start, p) /\ ~ Overflows(Frame.end, p)

\* Every row's bounds [lo, hi] are exactly the rows of the frame the manual
\* describes, for ROWS, GROUPS and RANGE, ascending and descending, NULL keys on
\* either side, wherever the bounds stay inside the partition: the binary search
\* of window_key_search, the turned offsets of a descending key and the peer
\* groups agree with a scan of the partition.
FramesMatch ==
  status = "rows" => \A p \in DOMAIN bounds : Inside(p) => bounds[p][1]..bounds[p][2] = FrameRows(p)

\* docs/sql-reference.md: a bound beyond the partition's end makes an empty
\* frame, and every bound of the grammar means what it says.
FramesExact ==
  status = "rows" => \A p \in DOMAIN bounds : bounds[p][1]..bounds[p][2] = FrameRows(p)

Monotone == \A p \in DOMAIN bounds : p + 1 \in DOMAIN bounds =>
              bounds[p][1] <= bounds[p + 1][1] /\ bounds[p][2] <= bounds[p + 1][2]

\* the non-NULL arguments FILTER keeps at the positions lo..hi, in order
ArgsIn(lo, hi) ==
  LET all == [k \in 1..(hi - lo + 1) |-> Arg(keyed[lo + k - 1])]
      some == SelectSeq(all, LAMBDA a : ~ Missing(a))
  IN [k \in DOMAIN some |-> some[k][1]]

SumOf(s) == FoldLeft(LAMBDA n, v : n + v.v, 0, s)
\* some sum of a prefix of the frame leaves the integers, or the decimals
Overruns(s) == \E k \in DOMAIN s : ~ Fits(SumOf(SubSeq(s, 1, k))) \/ ~ DecFits(SumOf(SubSeq(s, 1, k)))
\* a float operation was inexact, in the aggregate carried along or in a fresh one
LostDigits(lo, hi) == agg.rounded \/ Fresh(keyed, lo, hi).rounded

\* what an aggregate over lo..hi is, from the set of its rows.  SUM may be NULL
\* only where adding up the frame from its first row overflows, and once values
\* have left the frame it is 0 where none remain (a fresh fold gives NULL).  SUM
\* and AVG say nothing once a float operation has rounded: a value taken out
\* again does not bring back the digits it displaced.
Meaning(v, lo, hi) ==
  LET s == ArgsIn(lo, hi)
      values == {s[k].v : k \in DOMAIN s}
      fn == q.call.fn
  IN CASE fn = "count" ->
            v.v = IF q.call.star THEN Cardinality({p \in lo..hi : q.rows[keyed[p]].kept})
                  ELSE IF q.call.distinct THEN Cardinality(Range(s)) ELSE Len(s)
       [] fn = "sum" -> CASE s = <<>> -> v = Null \/ (v.v = 0 /\ ArgsIn(0, lo - 1) # <<>>) \/ LostDigits(lo, hi)
                          [] s # <<>> /\ v = Null -> Overruns(s)
                          [] OTHER -> \/ v.v = IF q.call.distinct THEN MapThenSumSet(LAMBDA x : x.v, Range(s)) ELSE SumOf(s)
                                      \/ LostDigits(lo, hi)
       [] fn = "avg" -> IF s = <<>> THEN v = Null
                        ELSE /\ v.t \in {"float", "dec"}
                             /\ v.v * Len(s) = SumOf(s) * v.d \/ LostDigits(lo, hi)
       [] fn = "min" -> IF s = <<>> THEN v = Null ELSE v # Null /\ v.v = Min(values)
       [] fn = "max" -> IF s = <<>> THEN v = Null ELSE v # Null /\ v.v = Max(values)
       [] OTHER -> IF s = <<>> THEN v = Null ELSE v = V("text", s)

Ahead(p) == {r \in DOMAIN keyed : Before(keyed[r], keyed[p])}
Tile(b) == {r \in 0..pos - 1 : vals[keyed[r]] = Num(b)}

RankMeaning(p, v) ==
  CASE q.call.fn = "row_number" -> v = Num(p + 1)
    [] q.call.fn = "rank" -> v = Num(Cardinality(Ahead(p)) + 1)
    [] OTHER -> v = Num(Cardinality({KeyAt(keyed, r) : r \in Ahead(p)}) + 1)

\* NTILE: buckets in order, the wide ones first, sizes a row apart at most
TilesMean ==
  LET tiles == 1..Min({q.call.n, Size(keyed)})
  IN pos = Size(keyed) =>
       /\ \A b \in tiles : Tile(b) # {}
       /\ \A b, c \in tiles : b < c =>
            /\ \A x \in Tile(b), y \in Tile(c) : x < y
            /\ Cardinality(Tile(b)) - Cardinality(Tile(c)) \in {0, 1}

\* Every value computed for a row so far is the one its frame or its place in
\* the partition gives: the sliding aggregates of compute_windows, with their
\* retractions, monotone deque, switch to Decimal and refolding after an overflow,
\* have the Meaning of the rows in [lo, hi]; ranks, buckets, LAG and LEAD are
\* those of the sorted partition.  Frames whose bounds ran back (a RANGE offset
\* beyond the integers) are left out.
ValuesExact ==
  (status \in {"rows", "next"} /\ pos > 0) =>
    /\ \A p \in 0..pos - 1 :
         LET v == vals[keyed[p]]
         IN /\ IsAgg /\ (q.frame = <<>> \/ Monotone) => Meaning(v, bounds[p][1], bounds[p][2])
            /\ q.call.fn \in {"row_number", "rank", "dense_rank"} => RankMeaning(p, v)
            /\ q.call.fn = "lag" => v = IF p < q.call.n THEN Null ELSE q.rows[keyed[p - q.call.n]].arg
            /\ q.call.fn = "lead" => v = IF p + q.call.n >= Size(keyed) THEN Null
                                         ELSE q.rows[keyed[p + q.call.n]].arg
    /\ q.call.fn = "ntile" => TilesMean
=============================================================================
