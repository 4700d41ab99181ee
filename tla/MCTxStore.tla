----------------------------- MODULE MCTxStore -----------------------------
(* The instance of TxStore for TLC: which statements and failures are      *)
(* explored in which commit mode.                                          *)
EXTENDS TxStore, TLC

Setup(async, features, tx, saved, fail) ==
    [async |-> async, features |-> features, maxTx |-> tx, maxSaves |-> saved,
     maxUndo |-> saved + 1, maxFail |-> fail]

\* No failure but a failing ABORT; under async commit nothing that voids
\* deferred commits.
Orderly ==
    {Setup(FALSE, {"tx", "rollback", "save", "guard", "txGuard", "unit", "abortFail"}, 3, 2, 1),
     Setup(TRUE, {"tx", "save", "txGuard", "unit"}, 3, 2, 1)}

\* Failures of the log anywhere; a guarded statement whose restore fails in a
\* transaction only where no ROLLBACK follows.
Failing ==
    LET common == {"tx", "guard", "txGuard", "unit", "guardInUnit", "abortFail",
                   "restoreFail", "fsyncFail"}
    IN  {Setup(FALSE, common \cup {"rollback", "save"}, 2, 1, 2),
         Setup(TRUE, common \cup {"rollback"}, 2, 1, 2),
         Setup(TRUE, common \cup {"txGuardFail"}, 2, 1, 2)}

MCSetups == Orderly \cup Failing
PageSymmetry == Permutations(Page)
=============================================================================
