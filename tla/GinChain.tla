------------------------------- MODULE GinChain -------------------------------
(***************************************************************************)
(* How gin runs the handlers of a request.                                 *)
(*                                                                         *)
(* All calls of Context.Next share one index.  Each increments it and      *)
(* calls handlers while there are any; a handler that returns, whether it  *)
(* called Next or not, goes back into the loop of the innermost open call, *)
(* which increments it again.  So calling Next and returning without it    *)
(* are the same step, the next handler, and only Abort ends a chain early. *)
(* When no handler is left every open call returns; nothing but the log    *)
(* line of middlewareLogger happens there.                                 *)
(***************************************************************************)
EXTENDS Naturals, Sequences

CONSTANT Requests

VARIABLES
    request,    \* what the client sent
    handlers,   \* Context.handlers, set by the router
    index,      \* Context.index, counted from 1
    at,         \* idle, handler: handlers[index] runs, done, or broken
    deferred,   \* whether the recover of middlewareCrash waits on the stack
    replies     \* the bodies rendered, with the status asked for

chainVars == <<request, handlers, index, at, deferred, replies>>

AbortIndex == 63

Runs(r, handler) == at[r] = "handler" /\ handlers[r][index[r]] = handler

GoOnAt(r, i) ==
    /\ index' = [index EXCEPT ![r] = i]
    /\ at' = [at EXCEPT ![r] = IF i > Len(handlers[r]) THEN "done" ELSE "handler"]

GoOn(r) == GoOnAt(r, index[r] + 1)

\* Mutant: the handler replies without Abort.
ReturnOnly(r) == GoOn(r)

AbortAndReturn(r) == GoOnAt(r, AbortIndex + 1)

Render(r, status, body) ==
    replies' = [replies EXCEPT ![r] = Append(@,
        IF request[r].accept
            THEN [status |-> status, body |-> body]
            ELSE [status |-> 406, body |-> "not_acceptable"])]

\* A panic ends every call up to the one with the recover.  That one renders
\* and returns as if nothing had happened: the loop above it goes on.
\* Without a recover net/http ends the connection.
Panic(r) ==
    IF deferred[r]
        THEN /\ Render(r, 500, "internal_server_error")
             /\ deferred' = [deferred EXCEPT ![r] = FALSE]
             /\ GoOn(r)
        ELSE /\ at' = [at EXCEPT ![r] = "broken"]
             /\ UNCHANGED <<index, deferred, replies>>

=============================================================================
