------------------------ MODULE ServiceContext_proofs ------------------------
(***************************************************************************)
(* Proofs about ServiceContext, for any number of contexts, calls,           *)
(* statements and connections.                                               *)
(***************************************************************************)
EXTENDS ServiceContextProperties, TLAPS

\* While a call is in its transaction its context says so and leads to it, because
\* the calls on one context come one after the other.
Waiting == {"select", "commit", "rollback", "leave"}

ContextOK ==
  /\ \A j, k \in Calls : Owner[j] = Owner[k] /\ j < k /\ caller[k] # "idle" => caller[j] = "done"
  /\ \A k \in Calls : caller[k] \in Waiting \cup {"field"} => inTransaction[Owner[k]]
  /\ \A k \in Calls : caller[k] \in Waiting => transactionalRepositories[Owner[k]] = k
  /\ \A k \in Calls : goroutine[k] # "none" => transactionalRepositories[Owner[k]] # None
  /\ \A c \in Contexts : transactionalRepositories[c] # None
                           => Owner[transactionalRepositories[c]] = c

\* Where caller and goroutine are, seen from each other.
Unfinished == {"flag", "field", "ready", "busy", "nil", "error"}

ControlOK ==
  \A k \in Calls :
    /\ goroutine[k] # "none" => caller[k] \in Waiting \cup {"done"}
    /\ goroutine[k] \in Unfinished => caller[k] = "select" \/ answer[k] = "timeout"
    /\ errorChan[k] # "empty" => goroutine[k] = "end"
    /\ answer[k] # "none" => caller[k] \in {"commit", "rollback", "leave", "done"}
    /\ caller[k] = "commit" => answer[k] = "ok"
    /\ goroutine[k] \notin {"nil", "error", "end"} => left[k] \in 1..Statements

\* What is written was written by operations that are over, through the
\* repositories they still have.
WritesOK ==
  /\ \A t \in Calls : \A k \in pending[t] : repository[k] = t /\ goroutine[k] \in {"nil", "end"}
  /\ \A k \in stored : goroutine[k] \in {"nil", "end"}

IInv == TypeOK /\ ContextOK /\ ControlOK /\ OwnTransaction /\ WritesOK /\ StoredMeansToldSo

USE ContextAssumption

LEMMA InitIInv == Init => IInv
<1> SUFFICES ASSUME Init PROVE IInv
  OBVIOUS
<1>1. TypeOK
  BY DEF Init, TypeOK
<1>2. ContextOK
  BY DEF Init, ContextOK, Waiting
<1>3. ControlOK
  BY DEF Init, ControlOK, Unfinished
<1>4. OwnTransaction /\ WritesOK /\ StoredMeansToldSo
  BY DEF Init, OwnTransaction, WritesOK, StoredMeansToldSo
<1> QED BY <1>1, <1>2, <1>3, <1>4 DEF IInv

\* One lemma per action: a step per conjunct the action can disturb, and one for
\* the others.
LEMMA CallStep ==
  ASSUME IInv, NEW n \in Calls, Call(n)
  PROVE  IInv'
<1> USE DEF Call, CallerAt, running, context, database
<1>1. TypeOK'
  BY DEF IInv, TypeOK, Inside
<1>2. ContextOK'
  BY DEF IInv, TypeOK, ContextOK, ControlOK, Waiting
<1>3. ControlOK'
  BY DEF IInv, TypeOK, ControlOK, Waiting, Unfinished
<1>4. OwnTransaction' /\ WritesOK' /\ StoredMeansToldSo'
  BY DEF IInv, OwnTransaction, WritesOK, StoredMeansToldSo
<1> QED BY <1>1, <1>2, <1>3, <1>4 DEF IInv

LEMMA BeginTransactionStep ==
  ASSUME IInv, NEW n \in Calls, BeginTransaction(n)
  PROVE  IInv'
<1> USE DEF BeginTransaction, CallerAt, running, context, database
<1>1. TypeOK'
  BY DEF IInv, TypeOK, Inside
<1>2. ContextOK'
  BY DEF IInv, TypeOK, ContextOK, ControlOK, Waiting
<1>3. ControlOK'
  BY DEF IInv, TypeOK, ControlOK, Waiting, Unfinished
<1>4. OwnTransaction' /\ WritesOK' /\ StoredMeansToldSo'
  BY DEF IInv, OwnTransaction, WritesOK, StoredMeansToldSo
<1> QED BY <1>1, <1>2, <1>3, <1>4 DEF IInv

LEMMA BeginFailsStep ==
  ASSUME IInv, NEW n \in Calls, BeginFails(n)
  PROVE  IInv'
<1> USE DEF BeginFails, CallerAt, running, context, database
<1>1. TypeOK'
  BY DEF IInv, TypeOK, Inside
<1>2. ContextOK'
  BY DEF IInv, TypeOK, ContextOK, ControlOK, Waiting
<1>3. ControlOK'
  BY DEF IInv, TypeOK, ControlOK, Waiting, Unfinished
<1>4. OwnTransaction'
  BY DEF IInv, TypeOK, ContextOK, ControlOK, OwnTransaction, Waiting, Unfinished
<1>5. StoredMeansToldSo'
  BY DEF IInv, TypeOK, ControlOK, OwnTransaction, WritesOK, StoredMeansToldSo
<1>6. WritesOK'
  BY DEF IInv, WritesOK
<1> QED BY <1>1, <1>2, <1>3, <1>4, <1>5, <1>6 DEF IInv

LEMMA SetInTransactionStep ==
  ASSUME IInv, NEW n \in Calls, SetInTransaction(n)
  PROVE  IInv'
<1> USE DEF SetInTransaction, CallerAt, running, context, database
<1>1. TypeOK'
  BY DEF IInv, TypeOK, Inside
<1>2. ContextOK'
  BY DEF IInv, TypeOK, ContextOK, ControlOK, Waiting
<1>3. ControlOK'
  BY DEF IInv, TypeOK, ControlOK, Waiting, Unfinished
<1>4. OwnTransaction' /\ WritesOK' /\ StoredMeansToldSo'
  BY DEF IInv, OwnTransaction, WritesOK, StoredMeansToldSo
<1> QED BY <1>1, <1>2, <1>3, <1>4 DEF IInv

LEMMA StartGoroutineStep ==
  ASSUME IInv, NEW n \in Calls, StartGoroutine(n)
  PROVE  IInv'
<1> USE DEF StartGoroutine, CallerAt, GoroutineAt, running, context, database
<1>1. TypeOK'
  BY DEF IInv, TypeOK, Inside
<1>2. ContextOK'
  BY DEF IInv, TypeOK, ContextOK, ControlOK, Waiting
<1>3. ControlOK'
  BY DEF IInv, TypeOK, ControlOK, Waiting, Unfinished
<1>4. WritesOK'
  BY DEF IInv, TypeOK, ControlOK, WritesOK, Waiting
<1>5. OwnTransaction' /\ StoredMeansToldSo'
  BY DEF IInv, OwnTransaction, StoredMeansToldSo
<1> QED BY <1>1, <1>2, <1>3, <1>4, <1>5 DEF IInv

LEMMA ReceiveResultStep ==
  ASSUME IInv, NEW n \in Calls, ReceiveResult(n)
  PROVE  IInv'
<1> USE DEF ReceiveResult, CallerAt, running, context, database
<1>1. TypeOK'
  BY DEF IInv, TypeOK, Inside
<1>2. ContextOK'
  BY DEF IInv, TypeOK, ContextOK, ControlOK, Waiting
<1>3. ControlOK'
  BY DEF IInv, TypeOK, ControlOK, Waiting, Unfinished
<1>4. OwnTransaction'
  BY DEF IInv, TypeOK, ContextOK, ControlOK, OwnTransaction, Waiting, Unfinished
<1>5. StoredMeansToldSo'
  BY DEF IInv, TypeOK, ControlOK, OwnTransaction, WritesOK, StoredMeansToldSo
<1>6. WritesOK'
  BY DEF IInv, WritesOK
<1> QED BY <1>1, <1>2, <1>3, <1>4, <1>5, <1>6 DEF IInv

LEMMA TimeOutStep ==
  ASSUME IInv, NEW n \in Calls, TimeOut(n)
  PROVE  IInv'
<1> USE DEF TimeOut, CallerAt, running, context, database
<1>1. TypeOK'
  BY DEF IInv, TypeOK, Inside
<1>2. ContextOK'
  BY DEF IInv, TypeOK, ContextOK, ControlOK, Waiting
<1>3. ControlOK'
  BY DEF IInv, TypeOK, ControlOK, Waiting, Unfinished
<1>4. OwnTransaction'
  BY DEF IInv, TypeOK, ContextOK, ControlOK, OwnTransaction, Waiting, Unfinished
<1>5. StoredMeansToldSo'
  BY DEF IInv, TypeOK, ControlOK, OwnTransaction, WritesOK, StoredMeansToldSo
<1>6. WritesOK'
  BY DEF IInv, WritesOK
<1> QED BY <1>1, <1>2, <1>3, <1>4, <1>5, <1>6 DEF IInv

LEMMA CommitStep ==
  ASSUME IInv, NEW n \in Calls, Commit(n)
  PROVE  IInv'
<1> USE DEF Commit, EndTransaction, CallerAt, running, context, database
<1>1. TypeOK'
  BY DEF IInv, TypeOK, Inside
<1>2. ContextOK'
  BY DEF IInv, TypeOK, ContextOK, ControlOK, Waiting
<1>3. ControlOK'
  BY DEF IInv, TypeOK, ControlOK, Waiting, Unfinished
<1>4. WritesOK'
  BY DEF IInv, TypeOK, ControlOK, WritesOK, Waiting
<1>5. StoredMeansToldSo'
  BY DEF IInv, TypeOK, ControlOK, OwnTransaction, WritesOK, StoredMeansToldSo
<1>6. OwnTransaction'
  BY DEF IInv, OwnTransaction
<1> QED BY <1>1, <1>2, <1>3, <1>4, <1>5, <1>6 DEF IInv

LEMMA RollbackStep ==
  ASSUME IInv, NEW n \in Calls, Rollback(n)
  PROVE  IInv'
<1> USE DEF Rollback, EndTransaction, CallerAt, running, context, database
<1>1. TypeOK'
  BY DEF IInv, TypeOK, Inside
<1>2. ContextOK'
  BY DEF IInv, TypeOK, ContextOK, ControlOK, Waiting
<1>3. ControlOK'
  BY DEF IInv, TypeOK, ControlOK, Waiting, Unfinished
<1>4. WritesOK'
  BY DEF IInv, TypeOK, ControlOK, WritesOK, Waiting
<1>5. OwnTransaction' /\ StoredMeansToldSo'
  BY DEF IInv, OwnTransaction, StoredMeansToldSo
<1> QED BY <1>1, <1>2, <1>3, <1>4, <1>5 DEF IInv

LEMMA LeaveStep ==
  ASSUME IInv, NEW n \in Calls, Leave(n)
  PROVE  IInv'
<1> USE DEF Leave, CallerAt, running, context, database
<1>1. TypeOK'
  BY DEF IInv, TypeOK, Inside
<1>2. ContextOK'
  BY DEF IInv, TypeOK, ContextOK, ControlOK, Waiting
<1>3. ControlOK'
  BY DEF IInv, TypeOK, ControlOK, Waiting, Unfinished
<1>4. OwnTransaction' /\ WritesOK' /\ StoredMeansToldSo'
  BY DEF IInv, OwnTransaction, WritesOK, StoredMeansToldSo
<1> QED BY <1>1, <1>2, <1>3, <1>4 DEF IInv

LEMMA ReadFlagStep ==
  ASSUME IInv, NEW n \in Calls, ReadFlag(n)
  PROVE  IInv'
<1> USE DEF ReadFlag, GoroutineAt, running, context, database
<1>1. TypeOK'
  BY DEF IInv, TypeOK, ContextOK
<1>2. ContextOK'
  BY DEF IInv, TypeOK, ContextOK, ControlOK, Waiting
<1>3. ControlOK'
  BY DEF IInv, TypeOK, ControlOK, Waiting, Unfinished
<1>4. OwnTransaction'
  BY DEF IInv, TypeOK, ContextOK, ControlOK, OwnTransaction, Waiting, Unfinished
<1>5. WritesOK'
  BY DEF IInv, TypeOK, ControlOK, WritesOK, Waiting
<1>6. StoredMeansToldSo'
  BY DEF IInv, TypeOK, ControlOK, OwnTransaction, WritesOK, StoredMeansToldSo
<1> QED BY <1>1, <1>2, <1>3, <1>4, <1>5, <1>6 DEF IInv

LEMMA ReadFieldStep ==
  ASSUME IInv, NEW n \in Calls, ReadField(n)
  PROVE  IInv'
<1> USE DEF ReadField, GoroutineAt, running, context, database
<1>1. TypeOK'
  BY DEF IInv, TypeOK, ContextOK
<1>2. ContextOK'
  BY DEF IInv, TypeOK, ContextOK, ControlOK, Waiting
<1>3. ControlOK'
  BY DEF IInv, TypeOK, ControlOK, Waiting, Unfinished
<1>4. OwnTransaction'
  BY DEF IInv, TypeOK, ContextOK, ControlOK, OwnTransaction, Waiting, Unfinished
<1>5. WritesOK'
  BY DEF IInv, TypeOK, ControlOK, WritesOK, Waiting
<1>6. StoredMeansToldSo'
  BY DEF IInv, TypeOK, ControlOK, OwnTransaction, WritesOK, StoredMeansToldSo
<1> QED BY <1>1, <1>2, <1>3, <1>4, <1>5, <1>6 DEF IInv

LEMMA SendStatementStep ==
  ASSUME IInv, NEW n \in Calls, SendStatement(n)
  PROVE  IInv'
<1> USE DEF SendStatement, GoroutineAt, running, context, database
<1>1. TypeOK'
  BY DEF IInv, TypeOK
<1>2. ContextOK'
  BY DEF IInv, TypeOK, ContextOK, ControlOK, Waiting
<1>3. ControlOK'
  BY DEF IInv, TypeOK, ControlOK, Waiting, Unfinished
<1>4. WritesOK'
  BY DEF IInv, TypeOK, ControlOK, WritesOK, Waiting
<1>5. OwnTransaction' /\ StoredMeansToldSo'
  BY DEF IInv, OwnTransaction, StoredMeansToldSo
<1> QED BY <1>1, <1>2, <1>3, <1>4, <1>5 DEF IInv

LEMMA SucceedStep ==
  ASSUME IInv, NEW n \in Calls, Succeed(n)
  PROVE  IInv'
<1> DEFINE r == repository[n]
<1>1. /\ goroutine[n] = "busy" /\ left[n] \in 1..Statements
      /\ r \in Calls \cup {Pool}
      /\ left' = [left EXCEPT ![n] = @ - 1]
      /\ UNCHANGED <<caller, repository, errorChan, answer, context, tx, failures>>
  BY DEF Succeed, IInv, TypeOK, ControlOK
<1>2. /\ \/ goroutine' = [goroutine EXCEPT ![n] = "ready"] /\ left[n] > 1
         \/ goroutine' = [goroutine EXCEPT ![n] = "nil"] /\ left[n] = 1
      /\ \/ UNCHANGED <<pending, stored>>
         \/ goroutine'[n] = "nil" /\ r = Pool /\ stored' = stored \cup {n} /\ UNCHANGED pending
         \/ /\ goroutine'[n] = "nil" /\ r \in Calls
            /\ pending' = [pending EXCEPT ![r] = @ \cup {n}]
            /\ UNCHANGED stored
  BY <1>1 DEF Succeed, GoroutineAt, IInv, TypeOK
<1> HIDE DEF r
<1>3. n \notin stored /\ \A t \in Calls : n \notin pending[t]
  BY <1>1 DEF IInv, WritesOK
<1>4. TypeOK'
  <2>1. left' \in [Calls -> 0..Statements]
    BY <1>1 DEF IInv, TypeOK
  <2>2. pending' \in [Calls -> SUBSET Calls] /\ stored' \subseteq Calls
    <3>1. CASE UNCHANGED <<pending, stored>>
      BY <3>1 DEF IInv, TypeOK
    <3>2. CASE r = Pool /\ stored' = stored \cup {n} /\ UNCHANGED pending
      BY <3>2 DEF IInv, TypeOK
    <3>3. CASE r \in Calls /\ pending' = [pending EXCEPT ![r] = @ \cup {n}] /\ UNCHANGED stored
      <4>1. pending[r] \cup {n} \in SUBSET Calls
        BY <3>3 DEF IInv, TypeOK
      <4> QED BY <3>3, <4>1 DEF IInv, TypeOK
    <3> QED BY <1>2, <3>1, <3>2, <3>3
  <2>3. /\ goroutine' \in [Calls -> {"none", "flag", "field", "ready", "busy", "nil", "error", "end"}]
        /\ \A k \in Calls : goroutine'[k] \in {"ready", "busy"} => repository'[k] # None
    BY <1>1, <1>2 DEF IInv, TypeOK
  <2> QED BY <1>1, <2>1, <2>2, <2>3 DEF IInv, TypeOK, context
<1>5. ContextOK'
  BY <1>1, <1>2 DEF IInv, TypeOK, ContextOK, ControlOK, Waiting, context
<1>6. ControlOK'
  BY <1>1, <1>2 DEF IInv, TypeOK, ControlOK, Waiting, Unfinished, context
<1>7. OwnTransaction'
  BY <1>1 DEF IInv, OwnTransaction
<1>8. r = Pool => answer[n] = "timeout"
  BY <1>1 DEF IInv, OwnTransaction, r
<1>9. WritesOK'
  <2>1. \A k \in Calls : k # n => goroutine'[k] = goroutine[k]
    BY <1>2 DEF IInv, TypeOK
  <2>2. repository' = repository
    BY <1>1
  <2>3. CASE UNCHANGED <<pending, stored>>
    BY <1>3, <2>1, <2>2, <2>3 DEF IInv, TypeOK, WritesOK
  <2>4. CASE goroutine'[n] = "nil" /\ r = Pool /\ stored' = stored \cup {n} /\ UNCHANGED pending
    BY <1>3, <2>1, <2>2, <2>4 DEF IInv, TypeOK, WritesOK
  <2>5. CASE /\ goroutine'[n] = "nil" /\ r \in Calls
             /\ pending' = [pending EXCEPT ![r] = @ \cup {n}]
             /\ UNCHANGED stored
    <3>1. ASSUME NEW t \in Calls, NEW k \in pending'[t]
          PROVE  k \in pending[t] \/ (k = n /\ t = r)
      BY <2>5 DEF IInv, TypeOK
    <3>2. ASSUME NEW t \in Calls, NEW k \in pending'[t]
          PROVE  repository'[k] = t /\ goroutine'[k] \in {"nil", "end"}
      <4>1. CASE k = n /\ t = r
        BY <2>2, <2>5, <4>1 DEF r
      <4>2. CASE k \in pending[t]
        <5>1. k \in Calls /\ k # n
          BY <1>3, <4>2 DEF IInv, TypeOK
        <5> QED BY <2>1, <2>2, <4>2, <5>1 DEF IInv, WritesOK
      <4> QED BY <3>1, <4>1, <4>2
    <3>3. ASSUME NEW k \in stored' PROVE goroutine'[k] \in {"nil", "end"}
      BY <1>3, <2>1, <2>5 DEF IInv, TypeOK, WritesOK
    <3> QED BY <3>2, <3>3 DEF WritesOK
  <2> QED BY <1>2, <2>3, <2>4, <2>5
<1>10. StoredMeansToldSo'
  BY <1>1, <1>2, <1>8 DEF IInv, StoredMeansToldSo, r
<1> QED BY <1>4, <1>5, <1>6, <1>7, <1>9, <1>10 DEF IInv

LEMMA RefuseStep ==
  ASSUME IInv, NEW n \in Calls, Refuse(n)
  PROVE  IInv'
<1> USE DEF Refuse, GoroutineAt, running, context, database
<1>1. TypeOK'
  BY DEF IInv, TypeOK
<1>2. ContextOK'
  BY DEF IInv, TypeOK, ContextOK, ControlOK, Waiting
<1>3. ControlOK'
  BY DEF IInv, TypeOK, ControlOK, Waiting, Unfinished
<1>4. WritesOK'
  BY DEF IInv, TypeOK, ControlOK, WritesOK, Waiting
<1>5. OwnTransaction' /\ StoredMeansToldSo'
  BY DEF IInv, OwnTransaction, StoredMeansToldSo
<1> QED BY <1>1, <1>2, <1>3, <1>4, <1>5 DEF IInv

LEMMA SendResultStep ==
  ASSUME IInv, NEW n \in Calls, SendResult(n)
  PROVE  IInv'
<1> USE DEF SendResult, GoroutineAt, running, context, database
<1>1. TypeOK'
  BY DEF IInv, TypeOK
<1>2. ContextOK'
  BY DEF IInv, TypeOK, ContextOK, ControlOK, Waiting
<1>3. ControlOK'
  BY DEF IInv, TypeOK, ControlOK, Waiting, Unfinished
<1>4. WritesOK'
  BY DEF IInv, TypeOK, ControlOK, WritesOK, Waiting
<1>5. OwnTransaction' /\ StoredMeansToldSo'
  BY DEF IInv, OwnTransaction, StoredMeansToldSo
<1> QED BY <1>1, <1>2, <1>3, <1>4, <1>5 DEF IInv

LEMMA ConnectionLostStep ==
  ASSUME IInv, NEW n \in Calls, ConnectionLost(n)
  PROVE  IInv'
<1> USE DEF ConnectionLost, running, context, database
<1>1. TypeOK'
  BY DEF IInv, TypeOK
<1>2. ContextOK' /\ ControlOK' /\ OwnTransaction' /\ WritesOK' /\ StoredMeansToldSo'
  BY DEF IInv, ContextOK, ControlOK, OwnTransaction, WritesOK, StoredMeansToldSo
<1> QED BY <1>1, <1>2 DEF IInv

LEMMA NextIInv == IInv /\ [Next]_vars => IInv'
<1> SUFFICES ASSUME IInv, [Next]_vars PROVE IInv'
  OBVIOUS
<1>1. ASSUME NEW n \in Calls, ExecuteInTransaction(n) PROVE IInv'
  BY <1>1, BeginTransactionStep, SetInTransactionStep, StartGoroutineStep, ReceiveResultStep,
     TimeOutStep, CommitStep, RollbackStep, LeaveStep DEF ExecuteInTransaction
<1>2. ASSUME NEW n \in Calls, Answer(n) PROVE IInv'
  BY <1>2, SucceedStep, RefuseStep DEF Answer
<1>3. CASE UNCHANGED vars
  BY <1>3 DEF vars, running, context, database, IInv, TypeOK, ContextOK, ControlOK,
     OwnTransaction, WritesOK, StoredMeansToldSo
<1> QED
  BY <1>1, <1>2, <1>3, CallStep, BeginFailsStep, ReadFlagStep, ReadFieldStep, SendStatementStep,
     SendResultStep, ConnectionLostStep DEF Next

LEMMA AlwaysIInv == Spec => []IInv
  BY InitIInv, NextIInv, PTL DEF Spec

\* Types: the callers, goroutines, channels and transactions have the states the
\* code gives them, and no operation sends a statement before it has a repository.
THEOREM ContextsTyped == Spec => []TypeOK
<1>1. IInv => TypeOK
  BY DEF IInv
<1> QED BY <1>1, AlwaysIInv, PTL

\* However calls, timeouts and late goroutines interleave, an operation that has not
\* timed out sends its statements to the transaction of its own call, though it
\* finds it through the fields of a context that serves one call after another.
THEOREM OperationsKeepToTheirTransaction == Spec => []OwnTransaction
<1>1. IInv => OwnTransaction
  BY DEF IInv
<1> QED BY <1>1, AlwaysIInv, PTL

\* Nothing is stored behind the back of a caller that was told of an error, or of a
\* timeout that came after its operation had begun.
THEOREM RefusedOperationsLeaveNothing == Spec => []StoredMeansToldSo
<1>1. IInv => StoredMeansToldSo
  BY DEF IInv
<1> QED BY <1>1, AlwaysIInv, PTL
-----------------------------------------------------------------------------
(* What callers are told, when no connection fails and no call on their      *)
(* context times out: then nobody aborts a transaction whose operation is    *)
(* still good, and it has what the operation wrote when it is committed.     *)

AnswersOK ==
  \A k \in Calls :
    /\ caller[k] \in {"commit", "rollback", "leave", "done"} => answer[k] # "none"
    /\ caller[k] = "rollback" => answer[k] # "ok"
    /\ answer[k] \in {"ok", "error"} => errorChan[k] = "empty"

InTime(k) == \A j \in Calls : Owner[j] = Owner[k] => answer[j] # "timeout"

Told(k) ==
  /\ caller[k] \in {"flag", "field"} \/ goroutine[k] \in {"flag", "field", "ready", "busy"}
       => tx[k] = "open"
  /\ goroutine[k] = "nil" \/ errorChan[k] = "nil" \/ caller[k] = "commit"
       => tx[k] = "open" /\ k \in pending[k]
  /\ answer[k] = "ok" /\ caller[k] \in {"leave", "done"} => k \in stored

ToldOK == failures = 0 => \A k \in Calls : InTime(k) => Told(k)

LEMMA InTimeMeans ==
  ASSUME IInv, ToldOK, failures = 0, NEW k \in Calls, InTime(k)
  PROVE  /\ Told(k)
         /\ answer[k] # "timeout"
         /\ repository[k] \in {None, k}
         /\ \A j \in Calls : repository[j] = k => j = k
         /\ goroutine[k] \in Unfinished => caller[k] = "select" /\ answer[k] = "none"
<1>1. Told(k) /\ answer[k] # "timeout"
  BY DEF ToldOK, InTime
<1>2. repository[k] \in {None, k}
  BY <1>1 DEF IInv, OwnTransaction
<1>3. ASSUME NEW j \in Calls, repository[j] = k PROVE j = k
  <2>1. j # k => answer[j] = "timeout" /\ Owner[k] = Owner[j]
    BY <1>3 DEF IInv, OwnTransaction, ContextAssumption
  <2> QED BY <2>1 DEF InTime
<1>4. goroutine[k] \in Unfinished => caller[k] = "select" /\ answer[k] = "none"
  BY <1>1 DEF IInv, ControlOK
<1> QED BY <1>1, <1>2, <1>3, <1>4

\* A call that is in time was in time before: answers are final.
LEMMA InTimeBefore ==
  ASSUME IInv, [Next]_vars, failures' = 0, NEW k \in Calls, InTime(k)'
  PROVE  failures = 0 /\ InTime(k)
<1>1. failures = 0
  BY DEF Next, vars, ExecuteInTransaction, Answer, Call, BeginTransaction, BeginFails,
         SetInTransaction, StartGoroutine, ReceiveResult, TimeOut, Commit, Rollback,
         EndTransaction, Leave, ReadFlag, ReadField, SendStatement, Succeed, Refuse, SendResult,
         ConnectionLost, database, IInv, TypeOK
<1>2. ASSUME NEW j \in Calls, answer'[j] # answer[j] PROVE answer[j] = "none"
  <2>1. \E n \in Calls : ReceiveResult(n) \/ TimeOut(n) \/ BeginFails(n)
    BY <1>2 DEF Next, vars, ExecuteInTransaction, Answer, Call, BeginTransaction,
         SetInTransaction, StartGoroutine, Commit, Rollback,
         EndTransaction, Leave, ReadFlag, ReadField, SendStatement, Succeed, Refuse, SendResult,
         ConnectionLost
  <2>2. PICK n \in Calls : /\ answer[n] = "none"
                           /\ \E a \in {"ok", "error", "timeout"} : answer' = [answer EXCEPT ![n] = a]
    BY <2>1 DEF ReceiveResult, TimeOut, BeginFails, IInv, TypeOK, ControlOK
  <2> QED BY <1>2, <2>2 DEF IInv, TypeOK
<1> QED BY <1>1, <1>2 DEF InTime

LEMMA NextAnswersOK == IInv /\ AnswersOK /\ [Next]_vars => AnswersOK'
<1> SUFFICES ASSUME IInv, AnswersOK, [Next]_vars PROVE AnswersOK'
  OBVIOUS
<1> USE DEF IInv, TypeOK, ControlOK, AnswersOK, CallerAt, GoroutineAt
<1>1. ASSUME NEW n \in Calls, Call(n) PROVE AnswersOK'
  BY <1>1 DEF Call, running, context, database, Unfinished
<1>2. ASSUME NEW n \in Calls, BeginTransaction(n) PROVE AnswersOK'
  BY <1>2 DEF BeginTransaction, running, context, database, Unfinished
<1>3. ASSUME NEW n \in Calls, BeginFails(n) PROVE AnswersOK'
  BY <1>3 DEF BeginFails, running, context, database, Unfinished, Waiting
<1>4. ASSUME NEW n \in Calls, SetInTransaction(n) PROVE AnswersOK'
  BY <1>4 DEF SetInTransaction, running, context, database, Unfinished
<1>5. ASSUME NEW n \in Calls, StartGoroutine(n) PROVE AnswersOK'
  BY <1>5 DEF StartGoroutine, running, context, database, Unfinished
<1>6. ASSUME NEW n \in Calls, ReceiveResult(n) PROVE AnswersOK'
  BY <1>6 DEF ReceiveResult, running, context, database, Unfinished
<1>7. ASSUME NEW n \in Calls, TimeOut(n) PROVE AnswersOK'
  BY <1>7 DEF TimeOut, running, context, database, Unfinished
<1>8. ASSUME NEW n \in Calls, Commit(n) PROVE AnswersOK'
  BY <1>8 DEF Commit, EndTransaction, running, context, database, Unfinished
<1>9. ASSUME NEW n \in Calls, Rollback(n) PROVE AnswersOK'
  BY <1>9 DEF Rollback, EndTransaction, running, context, database, Unfinished
<1>10. ASSUME NEW n \in Calls, Leave(n) PROVE AnswersOK'
  BY <1>10 DEF Leave, running, context, database, Unfinished
<1>11. ASSUME NEW n \in Calls, ReadFlag(n) PROVE AnswersOK'
  BY <1>11 DEF ReadFlag, running, context, database, Unfinished
<1>12. ASSUME NEW n \in Calls, ReadField(n) PROVE AnswersOK'
  BY <1>12 DEF ReadField, running, context, database, Unfinished
<1>13. ASSUME NEW n \in Calls, SendStatement(n) PROVE AnswersOK'
  BY <1>13 DEF SendStatement, running, context, database, Unfinished
<1>14. ASSUME NEW n \in Calls, Succeed(n) PROVE AnswersOK'
  BY <1>14 DEF Succeed, running, context, database, Unfinished
<1>15. ASSUME NEW n \in Calls, Refuse(n) PROVE AnswersOK'
  BY <1>15 DEF Refuse, running, context, database, Unfinished
<1>16. ASSUME NEW n \in Calls, SendResult(n) PROVE AnswersOK'
  BY <1>16 DEF SendResult, running, context, database, Unfinished
<1>17. ASSUME NEW n \in Calls, ConnectionLost(n) PROVE AnswersOK'
  BY <1>17 DEF ConnectionLost, running, context, database, Unfinished
<1>18. CASE UNCHANGED vars
  BY <1>18 DEF vars, running
<1> QED
  BY <1>1, <1>2, <1>3, <1>4, <1>5, <1>6, <1>7, <1>8, <1>9, <1>10,
     <1>11, <1>12, <1>13, <1>14, <1>15, <1>16, <1>17, <1>18
  DEF Next, ExecuteInTransaction, Answer

LEMMA NextToldOK == IInv /\ AnswersOK /\ ToldOK /\ [Next]_vars => ToldOK'
<1> SUFFICES ASSUME IInv, AnswersOK, ToldOK, [Next]_vars, failures' = 0,
                    NEW k \in Calls, InTime(k)'
             PROVE  Told(k)'
  BY DEF ToldOK
<1>a. /\ failures = 0 /\ Told(k)
      /\ answer[k] # "timeout"
      /\ repository[k] \in {None, k}
      /\ \A j \in Calls : repository[j] = k => j = k
      /\ goroutine[k] \in Unfinished => caller[k] = "select" /\ answer[k] = "none"
  BY InTimeBefore, InTimeMeans
<1>b. answer'[k] # "timeout"
  BY DEF InTime
<1> USE <1>a, <1>b DEF IInv, TypeOK, ControlOK, AnswersOK, Told, CallerAt, GoroutineAt
<1>1. ASSUME NEW n \in Calls, Call(n) PROVE Told(k)'
  BY <1>1 DEF Call, running, context, database, Unfinished, Waiting
<1>2. ASSUME NEW n \in Calls, BeginTransaction(n) PROVE Told(k)'
  BY <1>2 DEF BeginTransaction, running, context, database, Unfinished, Waiting
<1>3. ASSUME NEW n \in Calls, BeginFails(n) PROVE Told(k)'
  BY <1>3 DEF BeginFails, running, context, database, Unfinished, Waiting
<1>4. ASSUME NEW n \in Calls, SetInTransaction(n) PROVE Told(k)'
  BY <1>4 DEF SetInTransaction, running, context, database, Unfinished, Waiting
<1>5. ASSUME NEW n \in Calls, StartGoroutine(n) PROVE Told(k)'
  BY <1>5 DEF StartGoroutine, running, context, database, Unfinished, Waiting
<1>6. ASSUME NEW n \in Calls, ReceiveResult(n) PROVE Told(k)'
  BY <1>6 DEF ReceiveResult, running, context, database, Unfinished, Waiting
<1>7. ASSUME NEW n \in Calls, TimeOut(n) PROVE Told(k)'
  BY <1>7 DEF TimeOut, running, context, database, Unfinished, Waiting
<1>8. ASSUME NEW n \in Calls, Commit(n) PROVE Told(k)'
  BY <1>8 DEF Commit, EndTransaction, running, context, database, Unfinished, Waiting
<1>9. ASSUME NEW n \in Calls, Rollback(n) PROVE Told(k)'
  BY <1>9 DEF Rollback, EndTransaction, running, context, database, Unfinished, Waiting
<1>10. ASSUME NEW n \in Calls, Leave(n) PROVE Told(k)'
  BY <1>10 DEF Leave, running, context, database, Unfinished, Waiting
<1>11. ASSUME NEW n \in Calls, ReadFlag(n) PROVE Told(k)'
  BY <1>11 DEF ReadFlag, running, context, database, Unfinished, Waiting
<1>12. ASSUME NEW n \in Calls, ReadField(n) PROVE Told(k)'
  BY <1>12 DEF ReadField, running, context, database, Unfinished, Waiting
<1>13. ASSUME NEW n \in Calls, SendStatement(n) PROVE Told(k)'
  BY <1>13 DEF SendStatement, running, context, database, Unfinished, Waiting
<1>14. ASSUME NEW n \in Calls, Succeed(n) PROVE Told(k)'
  BY <1>14 DEF Succeed, running, context, database, Unfinished, Waiting
<1>15. ASSUME NEW n \in Calls, Refuse(n) PROVE Told(k)'
  BY <1>15 DEF Refuse, running, context, database, Unfinished, Waiting
<1>16. ASSUME NEW n \in Calls, SendResult(n) PROVE Told(k)'
  BY <1>16 DEF SendResult, running, context, database, Unfinished, Waiting
<1>17. ASSUME NEW n \in Calls, ConnectionLost(n) PROVE Told(k)'
  BY <1>17 DEF ConnectionLost, running, context, database, Unfinished, Waiting
<1>18. CASE UNCHANGED vars
  BY <1>18 DEF vars, running, database
<1> QED
  BY <1>1, <1>2, <1>3, <1>4, <1>5, <1>6, <1>7, <1>8, <1>9, <1>10,
     <1>11, <1>12, <1>13, <1>14, <1>15, <1>16, <1>17, <1>18
  DEF Next, ExecuteInTransaction, Answer

\* A caller that is told of no error finds its operation stored, unless a connection
\* failed or a call on its context timed out.
THEOREM AcceptedOperationsAreStored == Spec => []ToldSoMeansStored
<1>1. Init => AnswersOK /\ ToldOK
  BY DEF Init, AnswersOK, ToldOK, Told
<1>2. ToldOK => ToldSoMeansStored
  BY DEF ToldOK, Told, InTime, ToldSoMeansStored
<1> QED BY <1>1, <1>2, NextAnswersOK, NextToldOK, AlwaysIInv, PTL DEF Spec

-----------------------------------------------------------------------------
(* Operations are atomic for their callers.                                  *)

\* An operation has a repository of others only after its call is over.
LateOK == \A k \in Calls : repository[k] \notin {None, k} => caller[k] = "done"

\* A result without an error that comes in time stands for what the operation wrote
\* in its transaction.
WrittenOK ==
  \A k \in Calls :
    /\ answer[k] # "timeout"
    /\ goroutine[k] = "nil" \/ errorChan[k] = "nil" \/ caller[k] = "commit"
    => k \in pending[k]

\* What is stored before its caller returns will be told so.
EffectsOK == \A k \in stored : caller[k] = "done" \/ answer[k] = "ok"

AInv == IInv /\ AnswersOK /\ LateOK /\ WrittenOK /\ EffectsOK

LEMMA NextLateOK == IInv /\ LateOK /\ [Next]_vars => LateOK'
<1> SUFFICES ASSUME IInv, LateOK, [Next]_vars, NEW k \in Calls, repository'[k] \notin {None, k}
             PROVE  caller'[k] = "done"
  BY DEF LateOK
<1>1. caller[k] = "done" => caller'[k] = "done"
  BY DEF Next, vars, ExecuteInTransaction, Answer, Call, BeginTransaction, BeginFails,
         SetInTransaction, StartGoroutine, ReceiveResult, TimeOut, Commit, Rollback,
         EndTransaction, Leave, ReadFlag, ReadField, SendStatement, Succeed, Refuse, SendResult,
         ConnectionLost, CallerAt, IInv, TypeOK
<1>2. CASE repository'[k] = repository[k]
  BY <1>1, <1>2 DEF LateOK
<1>3. CASE repository'[k] # repository[k]
  <2>1. ReadFlag(k) \/ ReadField(k)
    BY <1>3 DEF Next, vars, running, ExecuteInTransaction, Answer, Call, BeginTransaction,
         BeginFails, SetInTransaction, StartGoroutine, ReceiveResult, TimeOut, Commit, Rollback,
         EndTransaction, Leave, ReadFlag, ReadField, SendStatement, Succeed, Refuse, SendResult,
         ConnectionLost, IInv, TypeOK
  <2>2. goroutine[k] # "none" /\ caller[k] \in Waiting \cup {"done"}
    BY <2>1 DEF ReadFlag, ReadField, IInv, ControlOK
  <2>3. caller[k] \notin Waiting
    BY <1>3, <2>1 DEF ReadFlag, ReadField, IInv, TypeOK, ContextOK
  <2> QED BY <1>1, <2>2, <2>3
<1> QED BY <1>2, <1>3

LEMMA NextWrittenOK == IInv /\ AnswersOK /\ WrittenOK /\ [Next]_vars => WrittenOK'
<1> SUFFICES ASSUME IInv, AnswersOK, WrittenOK, [Next]_vars PROVE WrittenOK'
  OBVIOUS
<1> USE DEF IInv, TypeOK, ControlOK, AnswersOK, WrittenOK, CallerAt, GoroutineAt, running, context,
            database, Unfinished
<1>1. ASSUME NEW n \in Calls, Call(n) PROVE WrittenOK'
  BY <1>1 DEF Call
<1>2. ASSUME NEW n \in Calls, BeginTransaction(n) PROVE WrittenOK'
  BY <1>2 DEF BeginTransaction
<1>3. ASSUME NEW n \in Calls, BeginFails(n) PROVE WrittenOK'
  BY <1>3 DEF BeginFails
<1>4. ASSUME NEW n \in Calls, SetInTransaction(n) PROVE WrittenOK'
  BY <1>4 DEF SetInTransaction
<1>5. ASSUME NEW n \in Calls, StartGoroutine(n) PROVE WrittenOK'
  BY <1>5 DEF StartGoroutine
<1>6. ASSUME NEW n \in Calls, ReceiveResult(n) PROVE WrittenOK'
  BY <1>6 DEF ReceiveResult
<1>7. ASSUME NEW n \in Calls, TimeOut(n) PROVE WrittenOK'
  BY <1>7 DEF TimeOut
<1>8. ASSUME NEW n \in Calls, Commit(n) PROVE WrittenOK'
  BY <1>8 DEF Commit, EndTransaction
<1>9. ASSUME NEW n \in Calls, Rollback(n) PROVE WrittenOK'
  BY <1>9 DEF Rollback, EndTransaction
<1>10. ASSUME NEW n \in Calls, Leave(n) PROVE WrittenOK'
  BY <1>10 DEF Leave
<1>11. ASSUME NEW n \in Calls, ReadFlag(n) PROVE WrittenOK'
  BY <1>11 DEF ReadFlag
<1>12. ASSUME NEW n \in Calls, ReadField(n) PROVE WrittenOK'
  BY <1>12 DEF ReadField
<1>13. ASSUME NEW n \in Calls, SendStatement(n) PROVE WrittenOK'
  BY <1>13 DEF SendStatement
<1>14. ASSUME NEW n \in Calls, Succeed(n) PROVE WrittenOK'
  BY <1>14 DEF Succeed, OwnTransaction
<1>15. ASSUME NEW n \in Calls, Refuse(n) PROVE WrittenOK'
  BY <1>15 DEF Refuse
<1>16. ASSUME NEW n \in Calls, SendResult(n) PROVE WrittenOK'
  BY <1>16 DEF SendResult
<1>17. ASSUME NEW n \in Calls, ConnectionLost(n) PROVE WrittenOK'
  BY <1>17 DEF ConnectionLost
<1>18. CASE UNCHANGED vars
  BY <1>18 DEF vars
<1> QED
  BY <1>1, <1>2, <1>3, <1>4, <1>5, <1>6, <1>7, <1>8, <1>9, <1>10,
     <1>11, <1>12, <1>13, <1>14, <1>15, <1>16, <1>17, <1>18
  DEF Next, ExecuteInTransaction, Answer

LEMMA NextEffectsOK == IInv /\ LateOK /\ EffectsOK /\ [Next]_vars => EffectsOK'
<1>0. IInv /\ [Next]_vars => stored' \subseteq Calls
  BY NextIInv DEF IInv, TypeOK
<1> SUFFICES ASSUME IInv, LateOK, EffectsOK, [Next]_vars, NEW k \in Calls, k \in stored'
             PROVE  caller'[k] = "done" \/ answer'[k] = "ok"
  BY <1>0 DEF EffectsOK
<1>1. ASSUME caller[k] = "done" \/ answer[k] = "ok" PROVE caller'[k] = "done" \/ answer'[k] = "ok"
  BY <1>1 DEF Next, vars, running, ExecuteInTransaction, Answer, Call, BeginTransaction,
         BeginFails, SetInTransaction, StartGoroutine, ReceiveResult, TimeOut, Commit, Rollback,
         EndTransaction, Leave, ReadFlag, ReadField, SendStatement, Succeed, Refuse, SendResult,
         ConnectionLost, CallerAt, IInv, TypeOK, ControlOK
<1>2. CASE k \in stored
  BY <1>1, <1>2 DEF EffectsOK
<1>3. CASE k \notin stored
  <2>1. \E n \in Calls : Commit(n) \/ Succeed(n)
    BY <1>3 DEF Next, vars, database, ExecuteInTransaction, Answer, Call, BeginTransaction,
         BeginFails, SetInTransaction, StartGoroutine, ReceiveResult, TimeOut, Rollback,
         EndTransaction, Leave, ReadFlag, ReadField, SendStatement, Refuse, SendResult,
         ConnectionLost
  <2>2. PICK n \in Calls : Commit(n) \/ Succeed(n)
    BY <2>1
  <2>3. CASE Commit(n)
    <3>1. k \in pending[n] /\ repository[k] = n
      BY <1>3, <2>3 DEF Commit, IInv, WritesOK
    <3>2. k = n => answer[k] = "ok"
      BY <2>3 DEF Commit, IInv, ControlOK
    <3> QED BY <1>1, <3>1, <3>2, ContextAssumption DEF LateOK
  <2>4. CASE Succeed(n)
    <3>1. k = n /\ repository[k] = Pool
      BY <1>3, <2>4 DEF Succeed
    <3> QED BY <1>1, <3>1, ContextAssumption DEF LateOK
  <2> QED BY <2>2, <2>3, <2>4
<1> QED BY <1>2, <1>3

\* A step of call n inside ExecuteInTransaction, or none, is none for its caller.
LEMMA Inwards ==
  ASSUME IInv, NEW n \in Calls, caller[n] \in Inside,
         \E l \in Inside : caller' = [caller EXCEPT ![n] = l],
         \A k \in Calls : k # n => answer'[k] = answer[k]
  PROVE  UNCHANGED <<Phases, Outcomes>>
<1>1. \A k \in Calls : Phase(k)' = Phase(k) /\ Outcome(k)' = Outcome(k)
  BY DEF Phase, Outcome, Inside, IInv, TypeOK
<1> QED BY <1>1 DEF Phases, Outcomes

\* A call that returns.
LEMMA Returns ==
  ASSUME IInv, IInv', NEW n \in Calls, caller[n] \in Inside,
         caller' = [caller EXCEPT ![n] = "done"],
         \A k \in Calls : k # n => answer'[k] = answer[k],
         answer'[n] # "none", answer[n] \in {"none", answer'[n]}, EffectsOK, UNCHANGED stored
  PROVE  Operations!Return(n)
<1> DEFINE a == answer'[n]
<1>1. /\ \A k \in Calls : k # n => Phase(k)' = Phase(k) /\ Outcome(k)' = Outcome(k)
      /\ Phase(n) = "running" /\ Phase(n)' = "done" /\ Outcome(n)' = a
  BY DEF Phase, Outcome, Inside, IInv, TypeOK
<1>2. /\ Phases[n] = "running"
      /\ Phases' = [Phases EXCEPT ![n] = "done"]
      /\ Outcomes' = [Outcomes EXCEPT ![n] = a]
  BY <1>1, Zenon DEF Phases, Outcomes
<1>3. a \in {"ok", "error", "timeout"}
  BY DEF IInv, TypeOK
<1>4. a # "ok" => n \notin stored
  BY DEF EffectsOK, Inside
<1> QED BY <1>2, <1>3, <1>4 DEF Operations!Return

LEMMA CommitEffect ==
  ASSUME AInv, AInv', NEW n \in Calls, Commit(n)
  PROVE  Operations!TakeEffect(n) \/ UNCHANGED <<Phases, Outcomes, stored>>
<1>1. UNCHANGED <<Phases, Outcomes>>
  BY Inwards DEF Commit, EndTransaction, CallerAt, Inside, AInv
<1>2. CASE tx[n] = "open"
  <2> DEFINE late == pending[n] \ {n}
  <2>1. n \in pending[n] /\ stored' = stored \cup pending[n]
    BY <1>2 DEF Commit, AInv, WrittenOK, IInv, ControlOK
  <2>2. stored' = stored \cup {n} \cup late
    BY <2>1
  <2>3. Phases[n] = "running"
    BY DEF Phases, Phase, Inside, Commit
  <2>4. ASSUME NEW j \in late PROVE j \in Operations!GivenUp(Owner[n])
    <3>1. j \in Calls /\ j # n /\ repository[j] = n
      BY <2>4 DEF AInv, IInv, TypeOK, WritesOK
    <3>2. caller[j] = "done"
      BY <3>1, ContextAssumption DEF AInv, LateOK
    <3>3. answer[j] = "timeout" /\ Owner[j] = Owner[n]
      BY <3>1, ContextAssumption DEF AInv, IInv, OwnTransaction
    <3> QED BY <3>1, <3>2, <3>3 DEF Operations!GivenUp, Phases, Phase, Outcomes, Outcome, Inside
  <2>5. late \in SUBSET Operations!GivenUp(Owner[n])
    BY <2>4
  <2> QED BY <1>1, <2>2, <2>3, <2>5 DEF Operations!TakeEffect
<1>3. CASE tx[n] # "open"
  BY <1>1, <1>3 DEF Commit
<1> QED BY <1>2, <1>3

LEMMA SucceedEffect ==
  ASSUME AInv, NEW n \in Calls, Succeed(n)
  PROVE  Operations!TakeEffectLate(n) \/ UNCHANGED <<Phases, Outcomes, stored>>
<1>1. UNCHANGED <<Phases, Outcomes>>
  BY DEF Succeed, Phases, Phase, Outcomes, Outcome
<1>2. CASE repository[n] = Pool /\ stored' = stored \cup {n}
  <2>1. caller[n] = "done" /\ answer[n] = "timeout"
    BY <1>2, ContextAssumption DEF AInv, LateOK, IInv, OwnTransaction
  <2>2. n \in Operations!GivenUp(Owner[n])
    BY <2>1 DEF Operations!GivenUp, Phases, Phase, Outcomes, Outcome, Inside
  <2> QED BY <1>1, <1>2, <2>2 DEF Operations!TakeEffectLate
<1> QED BY <1>1, <1>2 DEF Succeed

LEMMA CallEffect ==
  ASSUME AInv, NEW n \in Calls, Call(n)
  PROVE  Operations!Begin(n)
<1>1. /\ \A k \in Calls : k # n => Phase(k)' = Phase(k)
      /\ \A k \in Calls : Outcome(k)' = Outcome(k)
      /\ Phase(n) = "idle" /\ Phase(n)' = "running"
  BY DEF Call, CallerAt, Phase, Outcome, Inside, AInv, IInv, TypeOK
<1>2. /\ Phases[n] = "idle"
      /\ Phases' = [Phases EXCEPT ![n] = "running"]
      /\ Outcomes' = Outcomes
  BY <1>1, Zenon DEF Phases, Outcomes
<1>3. ASSUME NEW j \in Calls, Owner[j] = Owner[n] PROVE Phases[j] # "running"
  <2>1. CASE j < n
    BY <1>3, <2>1 DEF Call, Phases, Phase, Inside
  <2>2. CASE n < j
    <3>1. caller[j] = "idle"
      BY <1>3, <2>2 DEF Call, AInv, IInv, ContextOK
    <3> QED BY <3>1 DEF Phases, Phase, Inside
  <2>3. CASE j = n
    BY <1>2, <2>3
  <2> QED BY <2>1, <2>2, <2>3, ContextAssumption
<1> QED BY <1>2, <1>3 DEF Operations!Begin, Call, database

LEMMA StepEffect ==
  ASSUME AInv, AInv', [Next]_vars
  PROVE  [Operations!OperationsNext]_(Operations!operations)
<1> USE DEF Operations!operations
<1>1. CASE UNCHANGED vars
  <2>1. UNCHANGED <<caller, answer, stored>>
    BY <1>1 DEF vars, database
  <2> QED BY <2>1 DEF Phases, Phase, Outcomes, Outcome
<1>2. ASSUME NEW n \in Calls, ReadFlag(n) \/ ReadField(n) \/ SendStatement(n) \/ Refuse(n)
                              \/ SendResult(n) \/ ConnectionLost(n)
      PROVE  UNCHANGED <<Phases, Outcomes, stored>>
  <2>1. UNCHANGED <<caller, answer, stored>>
    BY <1>2 DEF ReadFlag, ReadField, SendStatement, Refuse, SendResult, ConnectionLost, database
  <2> QED BY <2>1 DEF Phases, Phase, Outcomes, Outcome
<1>3. ASSUME NEW n \in Calls, BeginTransaction(n) \/ SetInTransaction(n) \/ StartGoroutine(n)
                              \/ ReceiveResult(n) \/ TimeOut(n) \/ Rollback(n)
      PROVE  UNCHANGED <<Phases, Outcomes, stored>>
  <2>1. /\ caller[n] \in Inside
        /\ \E l \in Inside : caller' = [caller EXCEPT ![n] = l]
        /\ \A k \in Calls : k # n => answer'[k] = answer[k]
        /\ stored' = stored
    BY <1>3 DEF BeginTransaction, SetInTransaction, StartGoroutine, ReceiveResult, TimeOut,
                Rollback, EndTransaction, CallerAt, Inside, database, AInv, IInv, TypeOK
  <2> QED BY <2>1, Inwards DEF AInv
<1>4. ASSUME NEW n \in Calls, BeginFails(n) \/ Leave(n) PROVE Operations!Return(n)
  <2>1. /\ caller[n] \in Inside
        /\ caller' = [caller EXCEPT ![n] = "done"]
        /\ \A k \in Calls : k # n => answer'[k] = answer[k]
        /\ stored' = stored
        /\ answer'[n] # "none" /\ answer[n] \in {"none", answer'[n]}
    BY <1>4 DEF BeginFails, Leave, CallerAt, Inside, database, AInv, IInv, TypeOK, ControlOK, AnswersOK
  <2> QED BY <2>1, Returns DEF AInv
<1>5. ASSUME NEW n \in Calls, Commit(n) \/ Succeed(n) \/ Call(n)
      PROVE  \/ Operations!TakeEffect(n) \/ Operations!TakeEffectLate(n) \/ Operations!Begin(n)
             \/ UNCHANGED <<Phases, Outcomes, stored>>
  BY <1>5, CommitEffect, SucceedEffect, CallEffect
<1> QED
  BY <1>1, <1>2, <1>3, <1>4, <1>5
  DEF Next, ExecuteInTransaction, Answer, Operations!OperationsNext

\* For its callers an operation takes effect at one moment between its call and its
\* return, or not at all, or after it was given up: goroutines, timeouts, lost
\* connections and late operations of the context add nothing to that.
THEOREM OperationsAreAtomic == Spec => ImplementsOperations
<1>1. Init => AnswersOK /\ LateOK /\ WrittenOK /\ EffectsOK
  BY DEF Init, AnswersOK, LateOK, WrittenOK, EffectsOK
<1>2. Init => Operations!OperationsInit
  BY DEF Init, Operations!OperationsInit, Phases, Phase, Outcomes, Outcome, Inside
<1>3. Spec => []AInv
  BY <1>1, AlwaysIInv, NextAnswersOK, NextLateOK, NextWrittenOK, NextEffectsOK, PTL DEF Spec, AInv
<1> QED BY <1>2, <1>3, StepEffect, PTL DEF Spec, ImplementsOperations, Operations!OperationsSpec
=============================================================================
