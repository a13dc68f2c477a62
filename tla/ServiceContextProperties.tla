----------------------- MODULE ServiceContextProperties -----------------------
(***************************************************************************)
(* What the callers of ExecuteInTransaction may rely on, and what late       *)
(* goroutines can and cannot do to them.                                     *)
(***************************************************************************)
EXTENDS ServiceContext

\* An operation runs in the transaction of its own call and no other, although it
\* asks the context for its repositories.  Only one whose call timed out before it
\* asked may have got others: none, or those of a later call on its context.
OwnTransaction ==
  \A k \in Calls : repository[k] \notin {None, k} =>
    /\ answer[k] = "timeout"
    /\ repository[k] # Pool => Owner[repository[k]] = Owner[k]

\* A caller that is told of an error finds nothing of its operation stored, and
\* neither does one that is told of a timeout, except for an operation that began
\* after its time was over.
StoredMeansToldSo ==
  \A k \in stored : answer[k] = "ok" \/ (answer[k] = "timeout" /\ repository[k] # k)

\* A caller that is told of no error finds its operation stored, if no connection
\* failed and no goroutine was left behind in its context: those are the cases in
\* which the ignored error of COMMIT matters.
ToldSoMeansStored ==
  failures = 0 =>
    \A k \in Calls :
      /\ caller[k] = "done"
      /\ answer[k] = "ok"
      /\ \A j \in Calls : Owner[j] = Owner[k] => answer[j] # "timeout"
      => k \in stored

\* Every call returns, however few connections there are and wherever an operation
\* is stuck between its statements: the timeout gives its connection back.
CallersReturn == \A k \in Calls : caller[k] = "begin" ~> caller[k] = "done"

\* No goroutine is left waiting for somebody to take its result.
GoroutinesEnd ==
  \A k \in Calls : goroutine[k] \in {"nil", "error"} ~> goroutine[k] = "end"

-----------------------------------------------------------------------------
(* The operations this implements.                                           *)

\* What a caller, who knows nothing of transactions, sees of each call: where it is,
\* and what it was told.
Phase(k)   == IF caller[k] \in Inside THEN "running" ELSE caller[k]
Outcome(k) == IF caller[k] = "done" THEN answer[k] ELSE "none"

Phases   == [k \in Calls |-> Phase(k)]
Outcomes == [k \in Calls |-> Outcome(k)]

Operations == INSTANCE AtomicOperations WITH
  phase <- Phases, told <- Outcomes, effects <- stored

\* Operations are atomic for their callers, whatever goroutines, timeouts and lost
\* connections do: each takes effect at one moment between its call and its return,
\* or not at all, or, if its caller was told of a timeout, afterwards.
ImplementsOperations == Operations!OperationsSpec
=============================================================================
