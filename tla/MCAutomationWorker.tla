------------------------- MODULE MCAutomationWorker -------------------------
(***************************************************************************)
(* Small instances of AutomationWorker for TLC.                            *)
(***************************************************************************)
EXTENDS AutomationWorker, TLC

Step(cond, cont, retries) ==
    [condition |-> cond, continueOnError |-> cont, retryCount |-> retries,
     registered |-> TRUE]

Plain      == Step("ALWAYS", FALSE, 0)
Retried    == Step("ALWAYS", FALSE, 1)
Tolerant   == Step("ALWAYS", TRUE, 0)
IfOk       == Step("ON_SUCCESS", FALSE, 0)
IfFailed   == Step("ON_FAILURE", FALSE, 0)
Unknown    == [Plain EXCEPT !.registered = FALSE]

\* One step is enough for the lock and the breaker.
OneStepPlans == {<<Plain>>}

\* Two steps, so that the total timeout can strike between them.
LeasePlans == {<<Plain, Plain>>}

\* Every branch of the step loop.
LoopPlans ==
    {<<Unknown, Plain>>, <<Retried, IfOk>>, <<Tolerant, IfOk, IfFailed>>,
     <<Tolerant, Plain>>, <<IfFailed, Plain>>}

\* A retry and a condition, for liveness.
ProgressPlans == {<<[Tolerant EXCEPT !.retryCount = 1], IfOk>>}

RunSymmetry == Permutations(Run)
=============================================================================
