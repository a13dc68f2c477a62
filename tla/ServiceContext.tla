--------------------------- MODULE ServiceContext ---------------------------
(***************************************************************************)
(* ExecuteInTransaction of the service contexts: every operation that        *)
(* writes runs as a goroutine in a transaction its caller began, and which   *)
(* the caller ends when the goroutine answers or the time is over, whichever *)
(* it sees first.  A goroutine that was too late goes on, in a context its   *)
(* caller may be using for the next operation already.                       *)
(*                                                                          *)
(* A request has a context for its one call; the worker of a replica has one *)
(* for all its calls, one after another.  What the operations write is left  *)
(* to ClusterService: here each has a number of statements, and writes by    *)
(* the last of them.  The branch of ExecuteInTransaction for a call that is  *)
(* inside a transaction already is left out: no operation makes such a call, *)
(* and none of the contexts is shared by two callers.                        *)
(***************************************************************************)
EXTENDS Naturals, FiniteSets

CONSTANTS Contexts,    \* the service contexts
          Calls,       \* the calls of ExecuteInTransaction, numbered in their order
          Owner,       \* the context each call is made on
          None, Pool,  \* no repository yet; a repository outside any transaction
          Statements,  \* statements of an operation
          MaxOpen,     \* connections the pool may have open
          MaxFailures  \* bound: connections that are lost or not to be had

ASSUME ContextAssumption ==
  /\ Calls \subseteq Nat
  /\ Owner \in [Calls -> Contexts]
  /\ None \notin Calls /\ Pool \notin Calls /\ None # Pool
  /\ Statements \in Nat \ {0}
  /\ MaxOpen \in Nat \ {0}
  /\ MaxFailures \in Nat

VARIABLES
  caller,                     \* where the caller is in ExecuteInTransaction
  goroutine,                  \* where the goroutine of the call is
  repository,                 \* what its repository sends statements to
  left,                       \* the statements it has still to send
  errorChan,                  \* the channel of the call, with room for one
  answer,                     \* what the caller makes of the call
  inTransaction,              \* of each context
  transactionalRepositories,  \* of each context: the call whose tx it is, or None
  tx,                         \* the transaction of each call
  pending,                    \* the operations written in it, not committed
  stored,                     \* the operations that are in the database for good
  failures

context  == <<inTransaction, transactionalRepositories>>
database == <<tx, pending, stored, failures>>
running  == <<goroutine, repository, left, errorChan>>
vars     == <<caller, running, answer, context, database>>

Inside == {"begin", "flag", "field", "select", "commit", "rollback", "leave"}

TypeOK ==
  /\ caller \in [Calls -> Inside \cup {"idle", "done"}]
  /\ goroutine \in [Calls -> {"none", "flag", "field", "ready", "busy", "nil", "error", "end"}]
  /\ repository \in [Calls -> Calls \cup {None, Pool}]
  /\ \A k \in Calls : goroutine[k] \in {"ready", "busy"} => repository[k] # None
  /\ left \in [Calls -> 0..Statements]
  /\ errorChan \in [Calls -> {"empty", "nil", "error"}]
  /\ answer \in [Calls -> {"none", "ok", "error", "timeout"}]
  /\ inTransaction \in [Contexts -> BOOLEAN]
  /\ transactionalRepositories \in [Contexts -> Calls \cup {None}]
  /\ tx \in [Calls -> {"none", "open", "aborted", "ended"}]
  /\ pending \in [Calls -> SUBSET Calls]
  /\ stored \subseteq Calls
  /\ failures \in 0..MaxFailures

Init ==
  /\ caller = [k \in Calls |-> "idle"]
  /\ goroutine = [k \in Calls |-> "none"]
  /\ repository = [k \in Calls |-> None]
  /\ left = [k \in Calls |-> Statements]
  /\ errorChan = [k \in Calls |-> "empty"]
  /\ answer = [k \in Calls |-> "none"]
  /\ inTransaction = [c \in Contexts |-> FALSE]
  /\ transactionalRepositories = [c \in Contexts |-> None]
  /\ tx = [k \in Calls |-> "none"]
  /\ pending = [k \in Calls |-> {}]
  /\ stored = {}
  /\ failures = 0

\* The caller, or the goroutine, of call k goes on to its next statement.
CallerAt(k, label)    == caller' = [caller EXCEPT ![k] = label]
GoroutineAt(k, label) == goroutine' = [goroutine EXCEPT ![k] = label]

\* A transaction has its connection until it ends, another statement until it
\* is answered.
ConnectionFree ==
  Cardinality({k \in Calls : tx[k] \in {"open", "aborted"}})
    + Cardinality({k \in Calls : goroutine[k] = "busy" /\ repository[k] = Pool}) < MaxOpen

-----------------------------------------------------------------------------
(* The caller. *)

\* The next operation on a context comes after the one before has returned.
Call(k) ==
  /\ caller[k] = "idle"
  /\ \A j \in Calls : Owner[j] = Owner[k] /\ j < k => caller[j] = "done"
  /\ CallerAt(k, "begin")
  /\ UNCHANGED <<running, answer, context, database>>

BeginTransaction(k) ==
  /\ caller[k] = "begin"
  /\ ConnectionFree
  /\ tx' = [tx EXCEPT ![k] = "open"]
  /\ CallerAt(k, "flag")
  /\ UNCHANGED <<running, answer, context, pending, stored, failures>>

BeginFails(k) ==
  /\ caller[k] = "begin"
  /\ failures < MaxFailures
  /\ failures' = failures + 1
  /\ answer' = [answer EXCEPT ![k] = "error"]
  /\ CallerAt(k, "done")
  /\ UNCHANGED <<running, context, tx, pending, stored>>

\* Mutant: the flag is left to the field.
SetInTransaction_Not(k) ==
  /\ caller[k] = "flag"
  /\ CallerAt(k, "field")
  /\ UNCHANGED <<running, answer, context, database>>

SetInTransaction(k) ==
  /\ caller[k] = "flag"
  /\ inTransaction' = [inTransaction EXCEPT ![Owner[k]] = TRUE]
  /\ CallerAt(k, "field")
  /\ UNCHANGED <<running, answer, transactionalRepositories, database>>

\* Mutant: the goroutine starts before the field is set.
StartGoroutine_First(k) ==
  /\ caller[k] = "field"
  /\ GoroutineAt(k, "flag")
  /\ CallerAt(k, "select")
  /\ UNCHANGED <<repository, left, errorChan, answer, context, database>>

\* The repositories are those of the new transaction; the goroutine and the
\* timer start.
StartGoroutine(k) ==
  /\ caller[k] = "field"
  /\ transactionalRepositories' = [transactionalRepositories EXCEPT ![Owner[k]] = k]
  /\ GoroutineAt(k, "flag")
  /\ CallerAt(k, "select")
  /\ UNCHANGED <<repository, left, errorChan, answer, inTransaction, database>>

\* Mutant: an error is for the log only.
ReceiveResult_IgnoresError(k) ==
  /\ caller[k] = "select"
  /\ errorChan[k] # "empty"
  /\ errorChan' = [errorChan EXCEPT ![k] = "empty"]
  /\ answer' = [answer EXCEPT ![k] = "ok"]
  /\ CallerAt(k, "commit")
  /\ UNCHANGED <<goroutine, repository, left, context, database>>

\* select, first case.
ReceiveResult(k) ==
  /\ caller[k] = "select"
  /\ errorChan[k] # "empty"
  /\ errorChan' = [errorChan EXCEPT ![k] = "empty"]
  /\ answer' = [answer EXCEPT ![k] = IF errorChan[k] = "nil" THEN "ok" ELSE "error"]
  /\ CallerAt(k, IF errorChan[k] = "nil" THEN "commit" ELSE "rollback")
  /\ UNCHANGED <<goroutine, repository, left, context, database>>

\* Mutants: what was done in time is kept; the transaction is left as it is.
TimeOut_Commits(k) ==
  /\ caller[k] = "select"
  /\ answer' = [answer EXCEPT ![k] = "timeout"]
  /\ CallerAt(k, "commit")
  /\ UNCHANGED <<running, context, database>>

TimeOut_Returns(k) ==
  /\ caller[k] = "select"
  /\ answer' = [answer EXCEPT ![k] = "timeout"]
  /\ CallerAt(k, "leave")
  /\ UNCHANGED <<running, context, database>>

\* select, second case: the time may be over at any moment, also when a result
\* has come.
TimeOut(k) ==
  /\ caller[k] = "select"
  /\ answer' = [answer EXCEPT ![k] = "timeout"]
  /\ CallerAt(k, "rollback")
  /\ UNCHANGED <<running, context, database>>

\* COMMIT and ROLLBACK wait for a statement on their connection.  Their errors
\* are ignored: a transaction that is aborted by then leaves nothing.
EndTransaction(k) ==
  /\ \A j \in Calls : goroutine[j] = "busy" => repository[j] # k
  /\ tx' = [tx EXCEPT ![k] = "ended"]
  /\ pending' = [pending EXCEPT ![k] = {}]
  /\ CallerAt(k, "leave")
  /\ UNCHANGED <<running, answer, context, failures>>

Commit(k) ==
  /\ caller[k] = "commit"
  /\ stored' = IF tx[k] = "open" THEN stored \cup pending[k] ELSE stored
  /\ EndTransaction(k)

Rollback(k) == caller[k] = "rollback" /\ EndTransaction(k) /\ UNCHANGED stored

\* The deferred endTransaction, and the return.
Leave(k) ==
  /\ caller[k] = "leave"
  /\ inTransaction' = [inTransaction EXCEPT ![Owner[k]] = FALSE]
  /\ CallerAt(k, "done")
  /\ UNCHANGED <<running, answer, transactionalRepositories, database>>

-----------------------------------------------------------------------------
(* The goroutine. *)

\* Repositories() looks at the flag of the context first, ...
ReadFlag(k) ==
  /\ goroutine[k] = "flag"
  /\ \/ /\ inTransaction[Owner[k]]
        /\ GoroutineAt(k, "field")
        /\ UNCHANGED repository
     \/ /\ ~inTransaction[Owner[k]]
        /\ repository' = [repository EXCEPT ![k] = Pool]
        /\ GoroutineAt(k, "ready")
  /\ UNCHANGED <<caller, left, errorChan, answer, context, database>>

\* ... and then reads the other field, whatever is in it by now.
ReadField(k) ==
  /\ goroutine[k] = "field"
  /\ repository' = [repository EXCEPT ![k] = transactionalRepositories[Owner[k]]]
  /\ GoroutineAt(k, "ready")
  /\ UNCHANGED <<caller, left, errorChan, answer, context, database>>

SendStatement(k) ==
  /\ goroutine[k] = "ready"
  /\ repository[k] = Pool => ConnectionFree
  /\ GoroutineAt(k, "busy")
  /\ UNCHANGED <<caller, repository, left, errorChan, answer, context, database>>

\* The answer to a statement: the last one writes, into the transaction or, with
\* a repository outside any, for good.
Succeed(k) ==
  /\ goroutine[k] = "busy"
  /\ repository[k] # Pool => tx[repository[k]] = "open"
  /\ left' = [left EXCEPT ![k] = @ - 1]
  /\ IF left[k] > 1
       THEN GoroutineAt(k, "ready") /\ UNCHANGED <<pending, stored>>
       ELSE /\ GoroutineAt(k, "nil")
            /\ IF repository[k] = Pool
                 THEN stored' = stored \cup {k} /\ UNCHANGED pending
                 ELSE /\ pending' = [pending EXCEPT ![repository[k]] = @ \cup {k}]
                      /\ UNCHANGED stored
  /\ UNCHANGED <<caller, repository, errorChan, answer, context, tx, failures>>

\* A row is missing, a constraint is violated, which aborts the transaction, or
\* there is no transaction any more; a panic of the operation ends like an error.
Refuse(k) ==
  /\ goroutine[k] = "busy"
  /\ GoroutineAt(k, "error")
  /\ \/ UNCHANGED tx
     \/ /\ repository[k] # Pool
        /\ tx[repository[k]] = "open"
        /\ tx' = [tx EXCEPT ![repository[k]] = "aborted"]
  /\ UNCHANGED <<caller, repository, left, errorChan, answer, context, pending, stored, failures>>

\* Mutant: a channel without a buffer.
SendResult_Unbuffered(k) ==
  /\ goroutine[k] \in {"nil", "error"}
  /\ caller[k] = "select"
  /\ errorChan' = [errorChan EXCEPT ![k] = goroutine[k]]
  /\ GoroutineAt(k, "end")
  /\ UNCHANGED <<caller, repository, left, answer, context, database>>

SendResult(k) ==
  /\ goroutine[k] \in {"nil", "error"}
  /\ errorChan[k] = "empty"
  /\ errorChan' = [errorChan EXCEPT ![k] = goroutine[k]]
  /\ GoroutineAt(k, "end")
  /\ UNCHANGED <<caller, repository, left, answer, context, database>>

-----------------------------------------------------------------------------
(* The database. *)

ConnectionLost(k) ==
  /\ tx[k] = "open"
  /\ failures < MaxFailures
  /\ failures' = failures + 1
  /\ tx' = [tx EXCEPT ![k] = "aborted"]
  /\ UNCHANGED <<caller, running, answer, context, pending, stored>>

-----------------------------------------------------------------------------

ExecuteInTransaction(k) ==
  \/ BeginTransaction(k) \/ SetInTransaction(k) \/ StartGoroutine(k)
  \/ ReceiveResult(k) \/ TimeOut(k)
  \/ Commit(k) \/ Rollback(k) \/ Leave(k)

Answer(k) == Succeed(k) \/ Refuse(k)

Next == \E k \in Calls :
  \/ Call(k) \/ ExecuteInTransaction(k) \/ BeginFails(k)
  \/ ReadFlag(k) \/ ReadField(k) \/ SendStatement(k) \/ Answer(k) \/ SendResult(k)
  \/ ConnectionLost(k)

Spec == Init /\ [][Next]_vars

\* Callers go on, the time of a call is over at last, the database answers, and a
\* result that can be sent is sent.  An operation may be stuck between two
\* statements for ever: it is what the timeout is for.
FairSpec ==
  /\ Spec
  /\ \A k \in Calls : /\ WF_vars(ExecuteInTransaction(k))
                      /\ WF_vars(Answer(k))
                      /\ WF_vars(SendResult(k))
=============================================================================
