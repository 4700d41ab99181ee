------------------------------ MODULE MCEngine ------------------------------
(***************************************************************************)
(* The SQL engine above the storage, one component at a time: part says    *)
(* which one a behaviour runs, the others' variables stay Idle.  INSERT,   *)
(* UPDATE, DELETE and MERGE with foreign keys and triggers (Dml, inputs of *)
(* MCDml); CREATE, ALTER and DROP with failing saves (Ddl, MCDdl); window  *)
(* calls (Window, MCWindow).                                               *)
(***************************************************************************)
EXTENDS Integers, Sequences

CONSTANTS Setups, Statements,                     \* of Dml
          Shapes, IndexDefs, Alters, RowStates, Starts,   \* of Ddl
          Queries                                 \* of Window

VARIABLES part,
          schema, db, cache, agenda, guard, saved, last,          \* Dml
          tables, triggers, grants, disk, tx, res, known,         \* Ddl
          q, status, left, keyed, bounds, pos, pushed, agg, vals, \* Window
          sent                                                    \* Dml and Ddl

dmlVars == <<schema, db, cache, agenda, guard, saved, last>>
ddlVars == <<tables, triggers, grants, disk, tx, res, known>>
windowVars == <<q, status, left, keyed, bounds, pos, pushed, agg, vals>>
vars == <<part, dmlVars, ddlVars, windowVars, sent>>

DmlIn == INSTANCE MCDml WITH Setups <- {}, Statements <- {}, Tables <- <<"a", "b", "c">>, MaxKey <- 33, MaxStmts <- 1
DdlIn == INSTANCE MCDdl
           WITH Shapes <- {}, IndexDefs <- {}, Alters <- {}, RowStates <- {}, Starts <- {},
                Names <- {"t", "u", "v"}, Cols <- {"a", "b", "c"}, Indexes <- {"i", "j"},
                Triggers <- {"g"}, NoCol <- "-", FailAt <- {0, 1, 2}, MaxStmts <- 3
WindowIn == INSTANCE MCWindow WITH Queries <- {}, MaxInt <- 3, MaxExact <- 4, MaxDec <- 6

Dml == INSTANCE Dml WITH Tables <- <<"a", "b", "c">>, MaxKey <- 33, MaxStmts <- 1
Ddl == INSTANCE Ddl
         WITH Names <- {"t", "u", "v"}, Cols <- {"a", "b", "c"}, Indexes <- {"i", "j"},
              Triggers <- {"g"}, NoCol <- "-", FailAt <- {0, 1, 2}, MaxStmts <- 3
Win == INSTANCE Window WITH MaxInt <- 3, MaxExact <- 4, MaxDec <- 6

MCSetups == DmlIn!MCSetups
MCStatements == DmlIn!MCStatements
MCShapes == DdlIn!MCShapes
MCIndexDefs == DdlIn!MCIndexDefs
MCAlters == DdlIn!MCAlters
MCRowStates == DdlIn!MCRowStates
MCStarts == DdlIn!MCStarts
MCQueries == WindowIn!MCQueries

Idle == 0
DmlIdle ==
  /\ schema = Idle /\ db = Idle /\ cache = Idle /\ agenda = Idle
  /\ guard = Idle /\ saved = Idle /\ last = Idle
DdlIdle ==
  /\ tables = Idle /\ triggers = Idle /\ grants = Idle /\ disk = Idle
  /\ tx = Idle /\ res = Idle /\ known = Idle
WindowIdle ==
  /\ q = Idle /\ status = Idle /\ left = Idle /\ keyed = Idle /\ bounds = Idle
  /\ pos = Idle /\ pushed = Idle /\ agg = Idle /\ vals = Idle

Init ==
  \/ part = "dml" /\ Dml!Init /\ DdlIdle /\ WindowIdle
  \/ part = "ddl" /\ Ddl!Init /\ DmlIdle /\ WindowIdle
  \/ part = "window" /\ Win!Init /\ DmlIdle /\ DdlIdle /\ sent = Idle

DmlStep == part = "dml" /\ Dml!Next /\ UNCHANGED <<part, ddlVars, windowVars>>
DdlStep == part = "ddl" /\ Ddl!Next /\ UNCHANGED <<part, dmlVars, windowVars>>
WindowStep == part = "window" /\ Win!Next /\ UNCHANGED <<part, dmlVars, ddlVars, sent>>

Next == DmlStep \/ DdlStep \/ WindowStep
Spec == Init /\ [][Next]_vars

-----------------------------------------------------------------------------
\* Between statements no reference dangles and no key is held twice, in every
\* catalog whose triggers write no table tied to one that a validated UPDATE
\* or DELETE is about to rewrite (Harmless); and a DELETE without triggers
\* removes and rewrites exactly the rows its referential actions mean
\* (plan_referential_actions, check_fks_in).
ReferencesHold == part = "dml" => Dml!RefIntegrity /\ Dml!DeleteMeans

\* No statement writes from rows a trigger body has changed since they were
\* read, unless a body comes back to them by a cascade or a trigger of its own
\* (NoReturn) or a nested cascade has cleared the guard (Lapsed); and the
\* cached next id stays above every id (run_trigger_bodies, the AUTOINCREMENT
\* cache).
NothingStale == part = "dml" => Dml!RewriteFresh /\ Dml!AutoincFresh


\* A DDL statement that fails leaves tables and grants as they were, except an
\* ALTER TABLE that fails at what its validation Overlooked; and the catalog
\* in memory is always the one a restart would load (save_catalog).
AllOrNothing == [][part = "ddl" => Ddl!Atomic /\ Ddl!Loaded']_vars

\* A window call gives every row the frame of the manual, where its bounds stay
\* inside the partition, and the value of that frame or place; a sliding SUM
\* or AVG up to float rounding, a SUM with no value left up to 0 for NULL
\* (compute_windows, frame_bounds, SlidingFrameAgg).
WindowsExact == part = "window" => Win!FramesMatch /\ Win!ValuesExact
=============================================================================
