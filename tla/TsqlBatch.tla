----------------------------- MODULE TsqlBatch -----------------------------
(***************************************************************************)
(* T-SQL batches (tsql_batch.rs, with the splitters of stmt.rs): a text is *)
(* cut at GO lines and at semicolons, parsed into statements, and run one  *)
(* statement at a time against an executor that may fail.                  *)
(*                                                                         *)
(* A text is a sequence of tokens; a literal, a quoted name or an operand  *)
(* is one token.  "nl" is a line break; comments and blanks are left out.  *)
(* A name that merely ends in a keyword is two tokens, the first one in    *)
(* Glued: the scanners walk bytes, so they do come upon the tail of a name.*)
(***************************************************************************)
EXTENDS Integers, Sequences, FiniteSets, SequencesExt, FiniteSetsExt

CONSTANTS Programs,   \* the batches explored: sequences of statements per GO segment
          Styles,     \* how they are written down
          Budget,     \* MAX_BATCH_STATEMENTS
          MaxDepth    \* MAX_BLOCK_DEPTH

VARIABLES prog,     \* the program the text was written from
          style,    \* and how
          segments, \* the GO segments still to run, each a sequence of parsed chunks
          stack,    \* control: sequences, loops, TRY and CATCH blocks entered
          mode,     \* running, raising an error, leaving a loop, or done
          budget,   \* statements the batch may still execute
          session   \* TsqlSession: variables, error context, @@ERROR

vars == <<prog, style, segments, stack, mode, budget, session>>

\* a statement: kind, its text or condition, and the statements it governs
S(k, t, a, b) == [k |-> k, t |-> t, a |-> a, b |-> b]
Plain(t) == S("plain", t, <<>>, <<>>)

Glued == {"or~"}
Variables == {"@a", "@b"}
Starters == {"select", "insert", "with", "update", "delete", "merge", "declare", "set", "if", "else", "while", "begin", "print",
             "create", "drop", "break", "continue", "go", "commit", "rollback", "waitfor", "return", "throw", "raiserror"}
ClauseStarters == {"from", "where", "order", "union"}
Continuing == {",", "(", "=", "+"}

-----------------------------------------------------------------------------
\* at_word_start, for a position of the text
WordStart(t, i) == i = 1 \/ t[i - 1] \notin Glued
Is(t, i, words) == i <= Len(t) /\ t[i] \in words /\ WordStart(t, i)

\* skip_trivia
Trivia(t, i) == Min({j \in i..(Len(t) + 1) : j = Len(t) + 1 \/ t[j] \notin {"nl", ";"}})
Blank(t, i) == Min({j \in i..(Len(t) + 1) : j = Len(t) + 1 \/ t[j] # "nl"})

\* parentheses open before a position of the text read from `from`
Open(t, from, i) == Cardinality({j \in from..(i - 1) : t[j] = "("}) - Cardinality({j \in from..(i - 1) : t[j] = ")"})

\* the positions behind `from` that lie inside a CASE expression begun there (skip_case_expr)
CaseEnd(t, i) ==
  LET nesting(j) == Cardinality({n \in i..j : Is(t, n, {"case"})}) - Cardinality({n \in i..j : Is(t, n, {"end"})})
      ends == {j \in i..Len(t) : Is(t, j, {"end"}) /\ nesting(j) = 0}
  IN IF ends = {} THEN Len(t) + 1 ELSE Min(ends) + 1
InCase(t, from, i) == \E j \in from..(i - 1) : Is(t, j, {"case"}) /\ Open(t, from, j) = 0 /\ i < CaseEnd(t, j)

\* newline_cut_allowed: the statement begun at `from` may end here.  A statement
\* that starts with a word of Needs goes on until one of the words it needs was
\* read outside parentheses.
Punctuation == {",", "(", ")", "=", "+", "nl"}
Needs == [insert |-> {"select", "values", "exec"}, update |-> {"set"}, merge |-> {"using"},
          with |-> {"select", "insert", "update", "delete", "merge"}]
CutAllowed(t, from, i) ==
  LET before == SelectSeq(SubSeq(t, from, i - 1), LAMBDA x : x # "nl")
      words == SelectSeq(before, LAMBDA x : x \notin Punctuation)
      top == {t[j] : j \in {j \in from..(i - 1) : Open(t, from, j) = 0}}
  IN /\ before # <<>> => Last(before) \notin Continuing
     /\ words # <<>> => /\ Head(words) \in DOMAIN Needs => Needs[Head(words)] \cap top # {}
                       /\ Last(words) \notin {"union", "except", "intersect", "all"}

Boundary(t, from, i) == t[i] = "nl" /\ Is(t, Blank(t, i), Starters) /\ CutAllowed(t, from, i)

(***************************************************************************)
(* read_plain: up to a semicolon, an ELSE, or a line break before a word   *)
(* that starts a statement, outside parentheses and CASE.  The ELSE need   *)
(* not be the start of a word.                                             *)
(***************************************************************************)
StopsPlain(t, from, i) ==
  /\ Open(t, from, i) = 0 /\ ~InCase(t, from, i)
  /\ t[i] \in {";", "else"} \/ Boundary(t, from, i)
PlainEnd(t, from) == Min({i \in from..(Len(t) + 1) : i > Len(t) \/ StopsPlain(t, from, i)})

Trimmed(t, a, b) == LET s == SubSeq(t, a, b - 1)
                        inner == {i \in DOMAIN s : s[i] # "nl"}
                    IN IF inner = {} THEN <<>> ELSE SubSeq(s, Min(inner), Max(inner))
ReadPlain(t, from) ==
  LET e == PlainEnd(t, from)
  IN [text |-> Trimmed(t, from, e), i |-> IF e <= Len(t) /\ t[e] = ";" THEN e + 1 ELSE e]

\* read_assign_expr and read_declare_type
AssignEnd(t, from) ==
  Min({i \in from..(Len(t) + 1) :
         i > Len(t) \/ (/\ Open(t, from, i) = 0 /\ ~InCase(t, from, i)
                        /\ t[i] \in {",", ";"} \/ Is(t, i, ClauseStarters) \/ Boundary(t, from, i))})
TypeEnd(t, from) ==
  Min({i \in from..(Len(t) + 1) :
         i > Len(t) \/ (Open(t, from, i) = 0 /\ (t[i] \in {"=", ",", ";"} \/ Boundary(t, from, i)))})

\* read_condition: up to the first word that starts a statement
ConditionEndAnywhere(t, from) == Min({i \in from..(Len(t) + 1) : i > Len(t) \/ Is(t, i, Starters)})
ConditionEnd(t, from) ==
  Min({i \in from..(Len(t) + 1) :
         i > Len(t) \/ (Open(t, from, i) = 0 /\ ~InCase(t, from, i) /\ Is(t, i, Starters))})

\* the END of the block whose body begins at `from`: BEGIN TRAN opens none, CASE has its own
OpensBlock(t, i) == Is(t, i, {"begin"}) /\ ~Is(t, Blank(t, i + 1), {"tran"})
BlockEnds(t, from, depth) ==
  {i \in from..Len(t) :
     /\ Is(t, i, {"end"}) /\ ~\E j \in from..(i - 1) : Is(t, j, {"case"}) /\ i < CaseEnd(t, j)
     /\ depth = Cardinality({j \in from..i : Is(t, j, {"end"}) /\ ~\E n \in from..(j - 1) : Is(t, n, {"case"}) /\ j < CaseEnd(t, n)})
                - Cardinality({j \in from..i : OpensBlock(t, j)})}
\* begin_opens_block: there is an END for this BEGIN
BeginOpensBlock(t, i) == OpensBlock(t, i) /\ BlockEnds(t, i, 0) # {}
AfterBegin(t, i, word) == Is(t, Blank(t, i + 1), {word})

Ok(stmts, i) == [ok |-> TRUE, stmts |-> stmts, i |-> i]
Failed == [ok |-> FALSE, stmts |-> <<>>, i |-> 0]

(***************************************************************************)
(* The parser is recursive: Parse, below, is the function of a part of the *)
(* grammar, a text, a position and a nesting depth that ties it together.  *)
(***************************************************************************)
\* parse_block: the body up to the matching END, parsed as a text of its own
ParseBlock(parse, t, from, depth) ==
  LET ends == BlockEnds(t, from, 1)
      body == parse["stmts", SubSeq(t, from, Min(ends) - 1), 1, depth + 1]
  IN IF ends = {} \/ ~body.ok THEN Failed ELSE Ok(body.stmts, Min(ends) + 1)

\* parse_governed: a block, or one statement
Governed(parse, t, i0, depth) ==
  LET i == Trivia(t, i0)
  IN IF depth > MaxDepth THEN Failed
     ELSE IF BeginOpensBlock(t, i) /\ ~AfterBegin(t, i, "try") /\ ~AfterBegin(t, i, "catch")
          THEN parse["block", t, i + 1, depth]
     ELSE parse["one", t, i, depth + 1]

ParseIf(parse, t, i, depth) ==
  LET c == ConditionEnd(t, i)
      then == parse["governed", t, c, depth]
      e == Trivia(t, then.i)
      other == parse["governed", t, e + 1, depth]
      cond == Trimmed(t, i, c)
  IN IF cond = <<>> \/ ~then.ok THEN Failed
     ELSE IF ~Is(t, e, {"else"}) THEN Ok(<<S("if", cond, then.stmts, <<>>)>>, then.i)
     ELSE IF ~other.ok THEN Failed
     ELSE Ok(<<S("if", cond, then.stmts, other.stmts)>>, other.i)

ParseWhile(parse, t, i, depth) ==
  LET c == ConditionEnd(t, i)
      body == parse["governed", t, c, depth]
      cond == Trimmed(t, i, c)
  IN IF cond = <<>> \/ ~body.ok THEN Failed ELSE Ok(<<S("while", cond, body.stmts, <<>>)>>, body.i)

\* BEGIN TRY .. END TRY BEGIN CATCH .. END CATCH
ParseTry(parse, t, i, depth) ==
  LET Past(j, word) == IF Is(t, Trivia(t, j), {word}) THEN Trivia(t, j) + 1 ELSE j
      try == parse["block", t, Blank(t, i + 1) + 1, depth]
      c == Trivia(t, Past(try.i, "try"))
      catch == parse["block", t, Blank(t, c + 1) + 1, depth]
  IN IF ~try.ok \/ ~Is(t, c, {"begin"}) \/ ~AfterBegin(t, c, "catch") \/ ~catch.ok THEN Failed
     ELSE Ok(<<S("try", <<>>, try.stmts, catch.stmts)>>, Past(catch.i, "catch"))

\* DECLARE @a type [= init], one name here
ParseDeclare(t, i0) ==
  LET i == Trivia(t, i0)
      e == TypeEnd(t, i + 1)
      a == AssignEnd(t, e + 1)
  IN IF i > Len(t) \/ t[i] \notin Variables THEN Failed
     ELSE IF e <= Len(t) /\ t[e] = "=" THEN Ok(<<S("declare", <<t[i]>> \o Trimmed(t, e + 1, a), <<>>, <<>>)>>, Trivia(t, a))
     ELSE Ok(<<S("declare", <<t[i]>>, <<>>, <<>>)>>, Trivia(t, e))

ParseSet(t, i) ==
  LET a == AssignEnd(t, i + 2)
      expr == Trimmed(t, i + 2, a)
  IN IF i + 1 > Len(t) \/ t[i + 1] # "=" \/ expr = <<>> THEN Failed ELSE Ok(<<S("set", <<t[i]>> \o expr, <<>>, <<>>)>>, a)

\* SELECT @a = expr [tail]
ParseSelectAssign(t, i) ==
  LET a == AssignEnd(t, i + 2)
      tail == ReadPlain(t, a)
  IN IF Trimmed(t, i + 2, a) = <<>> THEN Failed
     ELSE Ok(<<S("assign", <<t[i]>> \o Trimmed(t, i + 2, a) \o tail.text, <<>>, <<>>)>>, tail.i)

ParseOne(parse, t, i, depth) ==
  LET Read(k) == LET r == ReadPlain(t, i + 1) IN Ok(<<S(k, r.text, <<>>, <<>>)>>, r.i)
      next == Trivia(t, i + 1)
      p == ReadPlain(t, i)
  IN CASE Is(t, i, {"declare"}) -> ParseDeclare(t, i + 1)
       [] Is(t, i, {"set"}) /\ next <= Len(t) /\ t[next] \in Variables -> ParseSet(t, next)
       [] Is(t, i, {"print"}) -> Read("print")
       [] Is(t, i, {"if"}) -> ParseIf(parse, t, i + 1, depth)
       [] Is(t, i, {"while"}) -> ParseWhile(parse, t, i + 1, depth)
       [] Is(t, i, {"begin"}) /\ AfterBegin(t, i, "try") -> ParseTry(parse, t, i, depth)
       [] Is(t, i, {"begin"}) /\ ~AfterBegin(t, i, "try") /\ BeginOpensBlock(t, i) -> parse["block", t, i + 1, depth]
       [] Is(t, i, {"break"}) -> Ok(<<S("break", <<>>, <<>>, <<>>)>>, i + 1)
       [] Is(t, i, {"continue"}) -> Ok(<<S("continue", <<>>, <<>>, <<>>)>>, i + 1)
       [] Is(t, i, {"return", "waitfor"}) -> Failed
       [] Is(t, i, {"throw"}) -> Read("throw")
       [] Is(t, i, {"select"}) /\ next < Len(t) /\ t[next] \in Variables /\ t[next + 1] = "=" -> ParseSelectAssign(t, next)
       [] OTHER -> IF p.i = i THEN Failed ELSE Ok(<<Plain(p.text)>>, p.i)

ParseStmts(parse, t, depth) ==
  LET upto[n \in 0..Len(t)] ==
        IF n = 0 THEN [ok |-> depth <= MaxDepth, stmts |-> <<>>, i |-> Trivia(t, 1)]
        ELSE LET r == upto[n - 1]
                 one == parse["one", t, r.i, depth]
             IN IF ~r.ok \/ r.i > Len(t) THEN r
                ELSE [ok |-> one.ok, stmts |-> r.stmts \o one.stmts, i |-> IF one.ok THEN Trivia(t, one.i) ELSE r.i]
  IN upto[Len(t)]

Parse[part \in {"stmts", "one", "governed", "block"}, t \in Seq(STRING), i \in Nat, depth \in Nat] ==
  CASE part = "stmts" -> ParseStmts(Parse, t, depth)
    [] part = "one" -> ParseOne(Parse, t, i, depth)
    [] part = "governed" -> Governed(Parse, t, i, depth)
    [] part = "block" -> ParseBlock(Parse, t, i, depth)

-----------------------------------------------------------------------------
\* go_batches: a line that holds nothing but GO ends a segment
GoLines(t) == {i \in DOMAIN t : t[i] = "go" /\ (i = 1 \/ t[i - 1] = "nl") /\ (i = Len(t) \/ t[i + 1] = "nl")}
Pieces(t, cuts) ==
  LET bounds == cuts \cup {0, Len(t) + 1}
      at == [n \in 1..Cardinality(bounds) |-> CHOOSE c \in bounds : Cardinality({d \in bounds : d <= c}) = n]
  IN [n \in 1..(Len(at) - 1) |-> SubSeq(t, at[n] + 1, at[n + 1] - 1)]
GoBatches(t) == Pieces(t, GoLines(t))

\* text_chunks cuts at every semicolon; chunks are joined again while a BEGIN is open
BeginDepth(t) ==
  LET outside == {i \in DOMAIN t : ~\E j \in 1..(i - 1) : Is(t, j, {"case"}) /\ i < CaseEnd(t, j)}
      depth[i \in 0..Len(t)] ==
        IF i = 0 THEN 0
        ELSE IF OpensBlock(t, i) THEN depth[i - 1] + 1
        ELSE IF Is(t, i, {"end"}) /\ i \in outside THEN Max({depth[i - 1] - 1, 0})
        ELSE depth[i - 1]
  IN depth[Len(t)]
JoinsNever(chunk) == FALSE
Joins(chunk) == BeginDepth(chunk) > 0
Chunks(t) ==
  FoldLeft(LAMBDA out, c : IF out # <<>> /\ Joins(Last(out)) THEN Append(Front(out), Last(out) \o <<"nl">> \o c)
                           ELSE Append(out, c),
           <<>>, Pieces(t, {i \in DOMAIN t : t[i] = ";"}))

\* what parse_batch makes of each chunk; parsing reads nothing but the text
Parsed(t) ==
  LET parsed(chunks) == [c \in DOMAIN chunks |-> Parse["stmts", chunks[c], 1, 0]]
      all(batches) == [n \in DOMAIN batches |-> parsed(Chunks(batches[n]))]
  IN all(GoBatches(t))

\* needs_interpretation: anything but one plain statement that names no variable
NeedsInterpretation(t) ==
  LET chunks == SelectSeq(Pieces(t, GoLines(t) \cup {i \in DOMAIN t : t[i] = ";"}), LAMBDA c : Trivia(c, 1) <= Len(c))
      parsed == Parse["stmts", chunks[1], 1, 0]
  IN \/ Len(chunks) # 1 \/ ~parsed.ok \/ Len(parsed.stmts) # 1 \/ parsed.stmts[1].k # "plain"
     \/ \E x \in ToSet(t) : x \in Variables

-----------------------------------------------------------------------------
(***************************************************************************)
(* Writing a program down: a statement per line or a semicolon behind each *)
(* statement; a governed statement alone on the line of its IF, or a block.*)
(***************************************************************************)
Reads(s) == s.k \in {"plain", "print", "throw"}

\* the texts of a list of statements, each on a line of its own or behind a semicolon
Lines(texts, st) == FlattenSeq([n \in DOMAIN texts |-> texts[n] \o (IF st = "semis" THEN <<";", "nl">> ELSE <<"nl">>)])

Type == <<"decimal", "(", "x", ",", "x", ")">>
RECURSIVE Write(_, _)
Write(s, st) ==
  LET texts == [part \in {"a", "b"} |-> [n \in DOMAIN s[part] |-> Write(s[part][n], st)]]
      governed(part) == IF Len(s[part]) = 1 /\ st = "lines" /\ s[part][1].k # "if" THEN texts[part][1]
                        ELSE <<"begin", "nl">> \o Lines(texts[part], st) \o <<"end">>
  IN CASE s.k = "plain" -> s.t
       [] s.k \in {"print", "throw"} -> <<s.k>> \o s.t
       [] s.k = "declare" -> <<"declare", s.t[1]>> \o Type \o (IF Len(s.t) = 1 THEN <<>> ELSE <<"=">> \o Tail(s.t))
       [] s.k \in {"set", "assign"} -> <<IF s.k = "set" THEN "set" ELSE "select", s.t[1], "=">> \o Tail(s.t)
       [] s.k = "if" ->
            <<"if">> \o s.t \o governed("a")
            \o (IF s.b = <<>> THEN <<>>
                ELSE (IF Len(s.a) = 1 /\ Reads(s.a[1]) THEN <<>> ELSE <<"nl">>) \o <<"else">> \o governed("b"))
       [] s.k = "while" -> <<"while">> \o s.t \o <<"nl">> \o governed("a")
       [] s.k = "try" -> <<"begin", "try", "nl">> \o Lines(texts["a"], st) \o <<"end", "try", "nl", "begin", "catch", "nl">>
                         \o Lines(texts["b"], st) \o <<"end", "catch">>
       [] OTHER -> <<s.k>>

\* the segments, a GO line between two of them
Text(p, st) ==
  FlattenSeq([n \in DOMAIN p |-> (IF n = 1 THEN <<>> ELSE <<"go", "nl">>)
                                 \o Lines([m \in DOMAIN p[n] |-> Write(p[n][m], st)], st)])

-----------------------------------------------------------------------------
(* Running: a stack of frames, the top one first.                          *)
Frame(f, stmts, s, depth, saved) == [f |-> f, stmts |-> stmts, s |-> s, depth |-> depth, saved |-> saved]
NoStmt == Plain(<<>>)
Running == [m |-> "run", code |-> 0]
Raising(code) == [m |-> "raise", code |-> code]
Leaving(flow) == [m |-> flow, code |-> 0]
Done(code) == [m |-> "done", code |-> code]

Generic == 50000
Thrown == 50001

Top == stack[1]
Below == Tail(stack)
AtStmt(k) == mode = Running /\ stack # <<>> /\ Top.f = "seq" /\ Top.stmts # <<>> /\ Top.stmts[1].k = k
Stmt == Top.stmts[1]
Advanced == <<[Top EXCEPT !.stmts = Tail(@)]>> \o Below

\* substitute: a variable nobody declared is refused before anything runs
Declared(t) == \A x \in ToSet(t) : x \in Variables => x \in session.vars

\* run_stmt_inner charges the statement, then its handler runs
Charged == budget > 0
Charge == budget' = budget - 1
OverBudget ==
  /\ mode = Running /\ stack # <<>> /\ ~Charged
  /\ Top.f = "while" \/ (Top.f = "seq" /\ Top.stmts # <<>>)
  /\ mode' = Raising(Generic)
  /\ UNCHANGED <<prog, style, segments, stack, budget, session>>

Fail(code, tracked) ==
  /\ mode' = Raising(code)
  /\ session' = IF tracked THEN [session EXCEPT !.lastError = code] ELSE session
  /\ UNCHANGED stack

Quiet == UNCHANGED <<prog, style, segments>>

\* Plain, SELECT-assignment, PRINT: executed by the host, which may refuse
ExecStmt(k) ==
  /\ AtStmt(k) /\ Charged /\ Charge /\ Quiet
  /\ IF ~Declared(Stmt.t) THEN Fail(Generic, FALSE)
     ELSE \/ Fail(Generic, TRUE)
          \/ \E assigned \in {{}} \cup (IF k = "assign" THEN {{Stmt.t[1]}} ELSE {}) :   \* no row, no assignment
               /\ stack' = Advanced /\ mode' = Running
               /\ session' = [session EXCEPT !.lastError = 0, !.vars = @ \cup assigned]

RunPlain == ExecStmt("plain")
RunAssign == ExecStmt("assign")
RunPrint == ExecStmt("print")

\* DECLARE refuses a name declared before, except inside a block
RunDeclare ==
  /\ AtStmt("declare") /\ Charged /\ Charge /\ Quiet
  /\ LET name == Stmt.t[1]
         init == Tail(Stmt.t)
     IN IF (Top.depth = 0 /\ name \in session.vars) \/ ~Declared(init) THEN Fail(Generic, FALSE)
        ELSE \/ init # <<>> /\ Fail(Generic, TRUE)
             \/ /\ stack' = Advanced /\ mode' = Running
                /\ session' = [session EXCEPT !.vars = @ \cup {name}, !.lastError = IF init = <<>> THEN @ ELSE 0]

RunSet ==
  /\ AtStmt("set") /\ Charged /\ Charge /\ Quiet
  /\ IF ~Declared(Tail(Stmt.t)) THEN Fail(Generic, FALSE)
     ELSE \/ Fail(Generic, TRUE)
          \/ /\ stack' = Advanced /\ mode' = Running
             /\ session' = [session EXCEPT !.vars = @ \cup {Stmt.t[1]}, !.lastError = 0]

\* run_stmts enters a block unless it nests too deep
Enter(rest, stmts, depth) ==
  IF depth >= MaxDepth THEN mode' = Raising(Generic) /\ UNCHANGED stack
  ELSE mode' = Running /\ stack' = <<Frame("seq", stmts, NoStmt, depth + 1, <<>>)>> \o rest

RunIf ==
  /\ AtStmt("if") /\ Charged /\ Charge /\ Quiet
  /\ IF ~Declared(Stmt.t) THEN Fail(Generic, FALSE)
     ELSE \/ Fail(Generic, TRUE)
          \/ \E branch \in {Stmt.a, Stmt.b} :
               /\ session' = [session EXCEPT !.lastError = 0]
               /\ Enter(Advanced, branch, Top.depth)

RunWhile ==
  /\ AtStmt("while") /\ Charged /\ Charge /\ Quiet
  /\ stack' = <<Frame("while", <<>>, Stmt, Top.depth, <<>>)>> \o Advanced
  /\ UNCHANGED <<mode, session>>

\* every turn of a loop is charged too, its body may be empty
TurnCharged == budget' = budget - 1
Turn ==
  /\ mode = Running /\ stack # <<>> /\ Top.f = "while" /\ Charged /\ TurnCharged /\ Quiet
  /\ IF ~Declared(Top.s.t) THEN Fail(Generic, FALSE)
     ELSE \/ Fail(Generic, TRUE)
          \/ stack' = Below /\ mode' = Running /\ session' = [session EXCEPT !.lastError = 0]
          \/ session' = [session EXCEPT !.lastError = 0] /\ Enter(stack, Top.s.a, Top.depth)

RunFlow(k) ==
  /\ AtStmt(k) /\ Charged /\ Charge /\ Quiet
  /\ mode' = Leaving(k) /\ UNCHANGED <<stack, session>>

\* THROW with arguments, or a bare one that raises the caught error again
RunThrow ==
  /\ AtStmt("throw") /\ Charged /\ Charge /\ Quiet
  /\ IF ~Declared(Stmt.t) THEN Fail(Generic, FALSE)
     ELSE Fail(IF Stmt.t # <<>> THEN Thrown ELSE IF session.errorCtx = <<>> THEN Generic ELSE session.errorCtx[1], TRUE)

RunTry ==
  /\ AtStmt("try") /\ Charged /\ Charge /\ Quiet
  /\ Enter(<<Frame("try", <<>>, Stmt, Top.depth, session.errorCtx)>> \o Advanced, Stmt.a, Top.depth)
  /\ UNCHANGED session

\* a block ran to its end
EndSeq ==
  /\ mode = Running /\ stack # <<>> /\ Top.f = "seq" /\ Top.stmts = <<>> /\ Len(stack) > 1 /\ Quiet
  /\ stack' = Below
  /\ UNCHANGED <<mode, budget, session>>

EndTry ==
  /\ mode = Running /\ stack # <<>> /\ Top.f \in {"try", "catch"} /\ Quiet
  /\ stack' = Below
  /\ session' = [session EXCEPT !.errorCtx = Top.saved, !.lastError = IF Top.f = "try" THEN 0 ELSE @]
  /\ UNCHANGED <<mode, budget>>

\* an error unwinds to the nearest TRY, whose CATCH runs with it as its context
RaiseThrough ==
  /\ mode.m = "raise" /\ stack # <<>> /\ Quiet
  /\ IF Top.f = "try"
     THEN /\ session' = [session EXCEPT !.errorCtx = <<mode.code>>, !.lastError = mode.code]
          /\ Enter(<<[Top EXCEPT !.f = "catch", !.s = NoStmt, !.stmts = <<>>]>> \o Below, Top.s.b, Top.depth)
     ELSE /\ stack' = Below /\ UNCHANGED mode
          /\ session' = IF Top.f = "catch" THEN [session EXCEPT !.errorCtx = Top.saved] ELSE session
  /\ UNCHANGED budget

\* BREAK and CONTINUE unwind to the nearest loop, through TRY and CATCH
FlowContextKept(f) == IF f.f = "try" THEN [session EXCEPT !.errorCtx = f.saved] ELSE session
FlowContext(f) == IF f.f \in {"try", "catch"} THEN [session EXCEPT !.errorCtx = f.saved] ELSE session
FlowThrough ==
  /\ mode.m \in {"break", "continue"} /\ stack # <<>> /\ Quiet
  /\ session' = FlowContext(Top)
  /\ IF Top.f = "while" THEN mode' = Running /\ stack' = IF mode.m = "break" THEN Below ELSE stack
     ELSE stack' = Below /\ UNCHANGED mode
  /\ UNCHANGED budget

\* a chunk is parsed when the ones before it have run
Between == stack = <<>> \/ (Len(stack) = 1 /\ Top.stmts = <<>>)
NextChunk ==
  /\ mode = Running /\ Between /\ segments # <<>> /\ segments[1] # <<>>
  /\ IF segments[1][1].ok THEN stack' = <<Frame("seq", segments[1][1].stmts, NoStmt, 0, <<>>)>> /\ UNCHANGED mode
     ELSE stack' = <<>> /\ mode' = Raising(Generic)
  /\ segments' = [segments EXCEPT ![1] = Tail(@)]
  /\ UNCHANGED <<prog, style, budget, session>>

\* GO: the variables of the batch are gone
NextSegment ==
  /\ mode = Running /\ Between /\ Len(segments) > 1 /\ segments[1] = <<>>
  /\ segments' = Tail(segments)
  /\ session' = [session EXCEPT !.vars = {}]
  /\ UNCHANGED <<prog, style, stack, mode, budget>>

\* run_batch returns: an error nobody caught, a stray BREAK, or the last result
Finish ==
  /\ \/ mode.m # "run" /\ mode.m # "done" /\ stack = <<>>
     \/ mode = Running /\ Between /\ segments = <<<<>>>>
  /\ mode' = Done(IF mode.m = "run" THEN 0 ELSE IF mode.m = "raise" THEN mode.code ELSE Generic)
  /\ stack' = <<>>
  /\ UNCHANGED <<prog, style, segments, budget, session>>

Init ==
  /\ prog \in Programs /\ style \in Styles
  /\ segments = Parsed(Text(prog, style))
  /\ stack = <<>> /\ mode = Running /\ budget = Budget
  /\ session = [vars |-> {}, errorCtx |-> <<>>, lastError |-> 0]

Step ==
  \/ RunPlain \/ RunAssign \/ RunPrint \/ RunDeclare \/ RunSet \/ RunIf \/ RunWhile \/ Turn
  \/ RunFlow("break") \/ RunFlow("continue") \/ RunThrow \/ RunTry
  \/ EndSeq \/ EndTry \/ RaiseThrough \/ FlowThrough \/ OverBudget \/ NextChunk \/ NextSegment \/ Finish

Stopped == mode.m = "done" /\ UNCHANGED vars

Next == Step \/ Stopped

Spec == Init /\ [][Next]_vars
FairSpec == Spec /\ WF_vars(Step)

-----------------------------------------------------------------------------
(***************************************************************************)
(* However a program is written down - a statement per line or semicolons  *)
(* between them, single governed statements or blocks, CASE expressions,   *)
(* BEGIN TRAN and multi-line statements among them - cutting the text at   *)
(* GO lines and semicolons and parsing the pieces gives the program back,  *)
(* and nothing but a lone plain statement goes around the interpreter.     *)
(* (RETURN is refused when its chunk is parsed.)                           *)
(***************************************************************************)
ParsesBack ==
  budget = Budget /\ stack = <<>> /\ mode = Running /\ session.vars = {} =>
    /\ Len(segments) = Len(prog)
    /\ \A n \in DOMAIN prog : (\A s \in ToSet(prog[n]) : s.k # "return") =>
                             /\ \A c \in DOMAIN segments[n] : segments[n][c].ok
                             /\ FlattenSeq([c \in DOMAIN segments[n] |-> segments[n][c].stmts]) = prog[n]
    /\ NeedsInterpretation(Text(prog, style)) \/ (Len(prog) = 1 /\ Len(prog[1]) = 1 /\ prog[1][1].k = "plain")

(***************************************************************************)
(* ERROR_NUMBER() and a bare THROW see the error of the CATCH block they   *)
(* are in, the innermost one, and nothing outside any: whichever way the   *)
(* block was left - its end, another error, BREAK or CONTINUE.             *)
(***************************************************************************)
ErrorScoped ==
  LET catches == SelectSeq(stack, LAMBDA f : f.f = "catch")
      tries == SelectSeq(stack, LAMBDA f : f.f \in {"try", "catch"})
  IN /\ catches = <<>> => session.errorCtx = <<>>
     /\ catches # <<>> => session.errorCtx # <<>>
     /\ tries # <<>> /\ tries[1].f = "try" => session.errorCtx = tries[1].saved

\* Every batch ends, even one whose endless loop catches its own errors (FairSpec).
BatchEnds == <>(mode.m = "done")
=============================================================================
