------------------------------ MODULE TowerStack ------------------------------
(***************************************************************************)
(* The tower middleware over an inner service of limited capacity.  A      *)
(* runner keeps one copy of the middleware for each connection and drives  *)
(* the requests of the connection through it: poll_ready, then call.  The  *)
(* inner service hands out at most Limit permits, one to each copy of it   *)
(* that poll_ready found ready, and takes a permit back when that copy is  *)
(* called or dropped; a clone starts without one.  The middleware's call() *)
(* moves a clone into its future, so that its own copy is never called and *)
(* keeps the permit until the connection closes.                           *)
(***************************************************************************)
EXTENDS TowerAdapter

CONSTANTS Conns,    \* the connections
          ConnOf,   \* the connection each request arrives on
          Limit     \* the permits of the inner service

ASSUME StackAssumption == ConnOf \in [Reqs -> Conns] /\ Limit \in Nat \ {0}

VARIABLES
    reserved,   \* the connections whose copy of the inner service holds a permit
    closed,     \* the connections that are gone
    unready     \* history: the requests given to a copy without a permit

stack == <<reserved, closed, unready>>

StackInit ==
    /\ Init
    /\ reserved = {} /\ closed = {} /\ unready = {}

On(c, phases) == {r \in Reqs : ConnOf[r] = c /\ phase[r] \in phases}

\* Wrong: the middleware calls itself ready without asking the inner service.
StackPollReadyAlways(r) ==
    /\ PollReady(r)
    /\ On(ConnOf[r], {"ready"}) = {}
    /\ UNCHANGED stack

\* poll_ready asks the middleware's own copy of the inner service, which is
\* pending until a permit is free unless it holds one already.
StackPollReady(r) ==
    /\ PollReady(r)
    /\ On(ConnOf[r], {"ready"}) = {}
    /\ ConnOf[r] \in reserved \/ Cardinality(reserved) < Limit
    /\ reserved' = reserved \cup {ConnOf[r]}
    /\ UNCHANGED <<closed, unready>>

\* call() clones the inner service; the permit stays with the original.
StackCall(r) == Call(r) /\ UNCHANGED stack

\* The future calls the clone, which was never polled.
StackBodyEnds(r) ==
    /\ BodyEnds(r)
    /\ unready' = IF served'[r] = {} THEN unready ELSE unready \cup {r}
    /\ UNCHANGED <<reserved, closed>>

\* The runner drops its copy of the middleware, and with it the permit.
Close(c) ==
    /\ c \notin closed
    /\ On(c, {"idle", "ready"}) = {}
    /\ closed' = closed \cup {c}
    /\ reserved' = reserved \ {c}
    /\ UNCHANGED <<vars, unready>>

StackStep(r) ==
    \/ StackPollReady(r) \/ StackCall(r) \/ StackBodyEnds(r)
    \/ (FrameArrives(r) \/ InnerAnswers(r)) /\ UNCHANGED stack

StackNext ==
    \/ ClockMoves /\ UNCHANGED stack
    \/ \E r \in Reqs : StackStep(r) \/ (Fault(r) /\ UNCHANGED stack)
    \/ \E c \in Conns : Close(c)

StackSpec == StackInit /\ [][StackNext]_<<vars, stack>>

\* The runtime polls every future that can progress, the client keeps sending
\* its body, and the handler returns; a connection does not stay open for ever
\* without a request.  None of these is the middleware's doing.
FairStackSpec ==
    /\ StackSpec
    /\ \A r \in Reqs : WF_<<vars, stack>>(StackStep(r))
    /\ \A c \in Conns : WF_<<vars, stack>>(Close(c))
-----------------------------------------------------------------------------
(***************************************************************************)
(* Properties: beside these, EveryRequestSettles and ImplementsGate.       *)
(***************************************************************************)

\* Back-pressure passes through the middleware: the callers it has told that
\* it is ready are never more than the inner service has permits for.
BackpressureReachesTheCaller == Cardinality({r \in Reqs : phase[r] = "ready"}) <= Limit

\* "Generic tower adapter: a tower_layer::Layer / tower_service::Service
\* middleware" (module documentation): as in every such middleware, the inner
\* service is called only on a copy that poll_ready found ready.
InnerIsReadyWhenCalled == unready = {}
=============================================================================
