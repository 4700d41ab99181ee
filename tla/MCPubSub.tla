------------------------------ MODULE MCPubSub ------------------------------
(***************************************************************************)
(* What a client's connection drives, one component at a time:             *)
(* publish/subscribe (part "pubsub") and a T-SQL batch (part "batch",      *)
(* inputs of MCTsqlBatch).  While a batch runs the registry stays as it    *)
(* began, and while messages flow the batch's variables are Idle.          *)
(***************************************************************************)
EXTENDS PubSub

CONSTANTS c1, x, Programs, Styles

VARIABLES part, prog, style, segments, stack, mode, budget, sqlSession

batchVars == <<prog, style, segments, stack, mode, budget, sqlSession>>

CoverAll == [p \in Pattern |-> Channel]

\* One connection with a channel and the pattern, replacing and dropping its
\* subscriptions; one with a single name, a longer backlog and a TRIM; and two connections
\* at the subscription limits, with the tightest retention and engine errors.
MCLimits ==
    {[conns |-> {c1}, channels |-> Channel, names |-> {x} \cup Pattern, depth |-> 2,
      chunk |-> 2, keeps |-> {3}, perConn |-> 2, total |-> 2, id |-> 2, subs |-> 2, trims |-> 0, errs |-> 0],
     [conns |-> {c1}, channels |-> Channel, names |-> {x}, depth |-> 1, chunk |-> 2,
      keeps |-> {3}, perConn |-> 2, total |-> 2, id |-> 3, subs |-> 1, trims |-> 1, errs |-> 0],
     [conns |-> Conn, channels |-> {x}, names |-> {x}, depth |-> 1, chunk |-> 1,
      keeps |-> {1}, perConn |-> 1, total |-> 1, id |-> 2, subs |-> 2, trims |-> 0, errs |-> 1]}

BatchIn == INSTANCE MCTsqlBatch WITH Programs <- {}, Styles <- {}, Budget <- 9, MaxDepth <- 4, session <- sqlSession
Batch == INSTANCE TsqlBatch WITH Budget <- 9, MaxDepth <- 4, session <- sqlSession
MCPrograms == BatchIn!MCPrograms
MCStyles == BatchIn!MCStyles

Idle == 0
BatchIdle ==
    /\ prog = Idle /\ style = Idle /\ segments = Idle /\ stack = Idle
    /\ mode = Idle /\ budget = Idle /\ sqlSession = Idle

ClientInit ==
    /\ Init
    /\ \/ part = "pubsub" /\ BatchIdle
       \/ part = "batch" /\ Batch!Init /\ limits.id = 3
PubSubStep == part = "pubsub" /\ Next /\ UNCHANGED <<part, batchVars>>
BatchStep == part = "batch" /\ Batch!Next /\ UNCHANGED <<part, vars>>

clientVars == <<part, vars, batchVars>>
ClientSpec ==
    /\ ClientInit /\ [][PubSubStep \/ BatchStep]_clientVars
    /\ \A c \in Conn : WF_clientVars(part = "pubsub" /\ Handler(c) /\ UNCHANGED <<part, batchVars>>)
    /\ WF_clientVars(part = "batch" /\ Batch!Step /\ UNCHANGED <<part, vars>>)

-----------------------------------------------------------------------------
\* However a program is written down, the batch runs the statements it was made
\* of, and the error functions and THROW see the error of the innermost CATCH.
BatchesFaithful == part = "batch" => Batch!ParsesBack /\ Batch!ErrorScoped

\* A subscribe request ends, whatever the client reads, once publishers pause
\* long enough for its replay to catch up; and a batch ends, even one whose endless
\* loop catches its own errors (MAX_BATCH_STATEMENTS).
RequestsEnd ==
    /\ CatchUpEnds
    /\ []<>(part = "batch" => mode.m = "done")
=============================================================================
