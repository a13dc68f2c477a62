-------------------------- MODULE AtomicOperations --------------------------
(***************************************************************************)
(* What ExecuteInTransaction promises: operations that take effect at once   *)
(* or not at all, between their call and its return, one after another in a  *)
(* context.  Only an operation that was given up may take effect later, and   *)
(* its caller was told so.  Transactions, goroutines and connections do not   *)
(* appear here.                                                              *)
(***************************************************************************)
CONSTANTS Contexts, Calls,
          Owner        \* the context of each call

VARIABLES phase,       \* of each call: "idle", "running" or "done"
          told,        \* what its caller was told
          effects      \* the calls whose operations took effect

operations == <<phase, told, effects>>

OperationsInit ==
  /\ phase = [k \in Calls |-> "idle"]
  /\ told = [k \in Calls |-> "none"]
  /\ effects = {}

Begin(k) ==
  /\ phase[k] = "idle"
  /\ \A j \in Calls : Owner[j] = Owner[k] => phase[j] # "running"
  /\ phase' = [phase EXCEPT ![k] = "running"]
  /\ UNCHANGED <<told, effects>>

\* Given up before; the caller knows that it is not known what became of it.
GivenUp(c) == {j \in Calls : Owner[j] = c /\ phase[j] = "done" /\ told[j] = "timeout"}

\* A running operation takes effect, and operations of its context that were given
\* up may do so with it.
TakeEffect(k) ==
  /\ phase[k] = "running"
  /\ \E late \in SUBSET GivenUp(Owner[k]) : effects' = effects \cup {k} \cup late
  /\ UNCHANGED <<phase, told>>

\* One that was given up takes effect by itself.
TakeEffectLate(k) ==
  /\ k \in GivenUp(Owner[k])
  /\ effects' = effects \cup {k}
  /\ UNCHANGED <<phase, told>>

\* The caller hears of its operation; one that is told of an error or a timeout has
\* seen no effect.
Return(k) ==
  /\ phase[k] = "running"
  /\ phase' = [phase EXCEPT ![k] = "done"]
  /\ \E a \in {"ok", "error", "timeout"} :
       /\ a # "ok" => k \notin effects
       /\ told' = [told EXCEPT ![k] = a]
  /\ UNCHANGED effects

OperationsNext ==
  \E k \in Calls : Begin(k) \/ TakeEffect(k) \/ TakeEffectLate(k) \/ Return(k)

OperationsSpec == OperationsInit /\ [][OperationsNext]_operations
=============================================================================
