--------------------------- MODULE MCServiceContext ---------------------------
(***************************************************************************)
(* An instance of ServiceContext for TLC: a worker with two calls on its     *)
(* context, one after the other, and a request with a context of its own.    *)
(***************************************************************************)
EXTENDS ServiceContextProperties

CONSTANTS worker, request

MCOwner == <<worker, worker, request>>
=============================================================================
