------------------------------- MODULE Client -------------------------------
(***************************************************************************)
(* AppServerClient (codex/client.rs): the calls the bridge makes on one    *)
(* epoch, the router task that turns the app-server's notifications into   *)
(* per-thread projections and subscriber mailboxes, and the control events *)
(* with the requests of the server.                                        *)
(***************************************************************************)
EXTENDS Rpc

CONSTANTS Subs,         \* subscriptions, each to one thread
          RouteCap,     \* CLIENT_PROJECTION_CAPACITY
          SubCap,       \* THREAD_SUBSCRIBER_CAPACITY, CLIENT_SUBSCRIBER_CAPACITY
          DeferCap,     \* THREAD_EVENT_CAPACITY for deferred notifications
          TurnCap,      \* THREAD_TERMINAL_CAPACITY for turns of a projection
          OutcomeCap,   \* THREAD_OUTCOME_CAPACITY
          TerminalCap,  \* THREAD_TERMINAL_CAPACITY for a mailbox
          LossyCap,     \* THREAD_EVENT_CAPACITY for a mailbox
          CommandCap,   \* CLIENT_COMMAND_CAPACITY
          ControlCap    \* CLIENT_CONTROL_CAPACITY

ASSUME ClientAssumption ==
  {RouteCap, SubCap, DeferCap, TurnCap, OutcomeCap, TerminalCap, LossyCap,
   CommandCap, ControlCap} \subseteq Nat \ {0}

VARIABLES
  cmds,      \* the channel of RouterCommands
  ack,       \* the oneshot of every call's router command
  routes,    \* routes of run_router: a ThreadRoute, or NoRoute
  box,       \* the mailboxes
  sub,       \* thread and state of every subscription, and the calls after it
  got,       \* what every subscriber has received
  taken,     \* how many of sent[t] the router has taken from the connection
  skip,      \* how many of them were routed before the subscription
  control,   \* server requests in the control channel or with its consumer
  stop,      \* the client's cancellation token
  router     \* "run", "closing" or "done"

routerVars == <<routes, box, control, router>>
clientVars == <<cmds, ack, routes, box, sub, got, taken, skip, control, stop,
                router>>
vars == <<scene, call, faults, rpcVars, serverVars, clientVars>>

-----------------------------------------------------------------------------
(* Mailboxes. *)

NewBox == [q |-> <<>>, open |-> TRUE]
Closed == [k |-> "closed"]
Invalidated == [k |-> "invalidated"]
ThreadStarted == [k |-> "thread"]
IsLossy(e) == e.k \in {"delta", "usage"}
CountIn(q, P(_)) == Cardinality({i \in DOMAIN q : P(q[i])})

CanPushTerminal(b) ==
  b.open /\ CountIn(b.q, LAMBDA e : ~IsLossy(e)) < TerminalCap

PushTerminal(b, e) == [b EXCEPT !.q = Append(@, e)]

\* push_lossy: a delta joins the delta it follows, and what has no room goes.
PushLossy(b, e) ==
  IF \/ ~b.open
     \/ e.k = "delta" /\ b.q # <<>> /\ Last(b.q) = e
     \/ CountIn(b.q, IsLossy) >= LossyCap
  THEN b
  ELSE [b EXCEPT !.q = Append(@, e)]

Invalidate(b) == [q |-> <<Invalidated>>, open |-> FALSE]

-----------------------------------------------------------------------------
(* The router's state is the record r: its routes, the mailboxes and whether *)
(* the step was a fault that ends the connection.                            *)

NoRoute == [absent |-> TRUE]
NewRoute ==
  [subs |-> {}, pend |-> None, defer |-> FALSE, deferred |-> <<>>,
   known |-> FALSE, invalid |-> FALSE, started |-> {}, active |-> {},
   items |-> {}, usage |-> {}, outcomes |-> <<>>]

\* prune_subscribers: the ones whose mailbox is closed or gone.
Prune(r) ==
  [r EXCEPT !.routes = [t \in Threads |->
     IF r.routes[t] = NoRoute THEN NoRoute
     ELSE [r.routes[t] EXCEPT !.subs = {s \in @ : r.box[s].open}]]]

Quiet(route) ==
  /\ route.subs = {}
  /\ route.pend = None
  /\ ~route.defer
  /\ route.deferred = <<>>

Idle(route) ==
  /\ route # NoRoute
  /\ Quiet(route)
  /\ ~route.known
  /\ {route.started, route.active, route.items, route.usage} = {{}}
  /\ route.outcomes = <<>>

\* route_for_update: the state with a route for thread t, or the same state
\* when there is none to be had.
WithRoute(r0, t) ==
  LET r == Prune(r0)
      there == {u \in Threads : r.routes[u] # NoRoute}
      idle == {u \in there : Idle(r.routes[u])}
  IN  IF t \in there
      THEN r
      ELSE IF Cardinality(there) < RouteCap
      THEN [r EXCEPT !.routes[t] = NewRoute]
      ELSE IF idle = {}
      THEN r
      ELSE LET out1 == CHOOSE u \in idle : TRUE
           IN  [r EXCEPT !.routes[out1] = NoRoute, !.routes[t] = NewRoute]

Usable(r, t) == r.routes[t] # NoRoute /\ ~r.routes[t].invalid

\* dispatch_to_route
DispatchLossy(r, t, e) ==
  [r EXCEPT !.box = [s \in Subs |->
     IF s \in r.routes[t].subs THEN PushLossy(@[s], e) ELSE @[s]]]

\* Mutant of DispatchTerminal: a subscriber without room misses the event.
DispatchTerminalSkips(r, t, e) ==
  [r EXCEPT !.box = [s \in Subs |->
     IF s \in r.routes[t].subs /\ CanPushTerminal(@[s])
     THEN PushTerminal(@[s], e) ELSE @[s]]]

\* dispatch_terminal_to_route: a subscriber without room is told so and leaves.
DispatchTerminal(r, t, e) ==
  LET here == r.routes[t].subs
      fit == {s \in here : CanPushTerminal(r.box[s])}
  IN  [r EXCEPT
         !.routes[t].subs = fit,
         !.box = [s \in Subs |->
           IF s \in fit THEN PushTerminal(@[s], e)
           ELSE IF s \in here /\ @[s].open THEN Invalidate(@[s])
           ELSE @[s]]]

InvalidateRoute(r, t) ==
  [r EXCEPT
     !.routes[t] = [@ EXCEPT !.invalid = TRUE, !.started = {}, !.active = {},
                             !.items = {}, !.usage = {}, !.subs = {}],
     !.box = [s \in Subs |->
       IF s \in r.routes[t].subs THEN Invalidate(@[s]) ELSE @[s]]]

Faulted(r) == [r EXCEPT !.fault = TRUE]

OutcomeOf(route, c) ==
  {i \in DOMAIN route.outcomes : route.outcomes[i].c = c}

RouteThreadStarted(r0, t) ==
  LET r == WithRoute(r0, t) IN
  IF ~Usable(r, t) \/ r.routes[t].known
  THEN r
  ELSE DispatchTerminal([r EXCEPT !.routes[t].known = TRUE], t, ThreadStarted)

RouteTurnStarted(r0, e) ==
  LET r == WithRoute(r0, e.t)
      route == r.routes[e.t]
  IN  IF ~Usable(r, e.t)
      THEN r
      ELSE IF Cardinality(route.started) >= TurnCap /\ e.c \notin route.started
      THEN InvalidateRoute(r, e.t)
      ELSE IF OutcomeOf(route, e.c) # {}
      THEN r
      ELSE LET r1 == [r EXCEPT !.routes[e.t].started = @ \union {e.c},
                               !.routes[e.t].active = @ \union {e.c}]
           IN  IF e.c \in route.started THEN r1
               ELSE DispatchTerminal(r1, e.t, e)

RouteUsage(r0, e) ==
  LET r == WithRoute(r0, e.t)
      route == r.routes[e.t]
  IN  IF ~Usable(r, e.t)
      THEN r
      ELSE IF OutcomeOf(route, e.c) # {}
      THEN DispatchLossy(r, e.t, e)
      ELSE IF e.c \notin route.usage /\ Cardinality(route.usage) >= TurnCap
      THEN InvalidateRoute(r, e.t)
      ELSE DispatchLossy([r EXCEPT !.routes[e.t].usage = @ \union {e.c}], e.t, e)

\* item/completed: a repetition is dropped, a different item under the same id
\* invalidates the thread, and no route at all is a fault.
RouteItemCompleted(r0, e) ==
  LET r == WithRoute(r0, e.t)
      route == r.routes[e.t]
      same == {i \in route.items : i.c = e.c}
  IN  IF ~Usable(r, e.t)
      THEN Faulted(r)
      ELSE IF OutcomeOf(route, e.c) # {}
      THEN r
      ELSE IF \/ same = {} /\ Cardinality(route.items) >= TurnCap
              \/ \E i \in same : i.v # e.v
      THEN InvalidateRoute(r, e.t)
      ELSE IF same # {}
      THEN r
      ELSE DispatchTerminal([r EXCEPT !.routes[e.t].items = @ \union {e}], e.t, e)

RouteTurnCompleted(r0, e) ==
  LET r == WithRoute(r0, e.t)
      route == r.routes[e.t]
      same == OutcomeOf(route, e.c)
      kept == IF Len(route.outcomes) >= OutcomeCap
              THEN Tail(route.outcomes) ELSE route.outcomes
  IN  IF ~Usable(r, e.t)
      THEN Faulted(r)
      ELSE IF same # {}
      THEN IF \E i \in same : route.outcomes[i].v # e.v
           THEN InvalidateRoute(r, e.t) ELSE r
      ELSE DispatchTerminal(
             [r EXCEPT !.routes[e.t] =
                [route EXCEPT !.usage = @ \ {e.c}, !.started = @ \ {e.c},
                              !.active = @ \ {e.c},
                              !.items = {i \in @ : i.c # e.c},
                              !.outcomes = Append(kept, e)]],
             e.t, e)

\* route_notification of a report that is not deferred.  An error report and an
\* item/started are routed like an item and are left out.
RouteNow(r, e) ==
  CASE e.k = "started" -> RouteTurnStarted(r, e)
    [] e.k = "delta" -> IF r.routes[e.t] = NoRoute THEN r
                        ELSE DispatchLossy(r, e.t, e)
    [] e.k = "usage" -> RouteUsage(r, e)
    [] e.k = "item" -> RouteItemCompleted(r, e)
    [] e.k = "completed" -> RouteTurnCompleted(r, e)

\* stop_deferring_notifications: the deferred reports are routed, up to a fault.
StopDeferring(r, t) ==
  IF r.routes[t] = NoRoute
  THEN r
  ELSE FoldLeft(LAMBDA x, e : IF x.fault THEN x ELSE RouteNow(x, e),
                [r EXCEPT !.routes[t].defer = FALSE,
                          !.routes[t].deferred = <<>>],
                r.routes[t].deferred)

\* route_notification: while a turn is being started its thread's reports wait
\* for turn/started or for the answer.
RouteNotification(r, e) ==
  LET route == r.routes[e.t] IN
  IF e.k = "started"
  THEN StopDeferring(RouteTurnStarted(r, e), e.t)
  ELSE IF route # NoRoute /\ route.defer
  THEN IF Len(route.deferred) < DeferCap
       THEN [r EXCEPT !.routes[e.t].deferred = Append(@, e)]
       ELSE LET lagged == InvalidateRoute(r, e.t)
            IN  IF Authoritative(e) THEN Faulted(lagged) ELSE lagged
  ELSE RouteNow(r, e)

FinishTurnStart(r, t, c) ==
  IF r.routes[t] = NoRoute \/ r.routes[t].pend # [k |-> "start", c |-> c]
  THEN r
  ELSE StopDeferring([r EXCEPT !.routes[t].pend = None], t)

-----------------------------------------------------------------------------
(* The router task. *)

State == [routes |-> routes, box |-> box, fault |-> FALSE]

\* What run_router does after a step: a fault ends the connection.
Becomes(r) ==
  /\ routes' = r.routes
  /\ box' = r.box
  /\ router' = IF r.fault THEN "closing" ELSE router

Ack(c, stage, yes) ==
  ack' = [ack EXCEPT ![c] = IF call[c] # stage THEN @
                            ELSE IF yes THEN "yes" ELSE "no"]

Start(c) == [k |-> "start", c |-> c]
Thread(c) == plan[c].thread

\* How many of sent[t] the router has taken and not deferred.
Routed(t) ==
  taken[t] - (IF routes[t] = NoRoute THEN 0
              ELSE Len(SelectSeq(routes[t].deferred, Authoritative)))

\* A client with all its subscribers refuses before it makes a route.
HandleSubscribe(s) ==
  LET t == sub[s].thread
      all == UNION {routes[u].subs : u \in {u \in Threads : routes[u] # NoRoute}}
      r == IF Cardinality(all) < SubCap THEN WithRoute(State, t) ELSE State
      ok == Cardinality(all) < SubCap /\ Usable(r, t)
      first == IF ok /\ r.routes[t].known
               THEN [r EXCEPT !.box[s].q = Append(@, ThreadStarted)] ELSE r
  IN  /\ Becomes(IF ok THEN [first EXCEPT !.routes[t].subs = @ \union {s}] ELSE r)
      /\ sub' = [sub EXCEPT ![s].state = IF ok THEN "on" ELSE "refused",
                            ![s].before = {c \in Callers : call[c] = "idle"}]
      /\ skip' = [skip EXCEPT ![s] = Routed(t)]
      /\ UNCHANGED ack

HandleUnsubscribe(s) ==
  LET t == sub[s].thread IN
  /\ Becomes(IF routes[t] = NoRoute THEN State
             ELSE [State EXCEPT !.routes[t].subs = @ \ {s}])
  /\ UNCHANGED <<sub, skip, ack>>

HandleEnsure(c) ==
  LET r == WithRoute(State, Thread(c)) IN
  /\ Becomes(r)
  /\ Ack(c, "ensuring", Usable(r, Thread(c)))
  /\ UNCHANGED <<sub, skip>>

\* A caller that no longer waits for the acknowledgement has its start undone.
HandleBegin(c) ==
  LET t == Thread(c)
      r == WithRoute(State, t)
      ok == Usable(r, t) /\ r.routes[t].pend = None
      begun == [r EXCEPT !.routes[t].pend = Start(c), !.routes[t].defer = TRUE]
  IN  /\ Becomes(IF ~ok THEN r
                 ELSE IF call[c] # "beginning" THEN FinishTurnStart(begun, t, c)
                 ELSE begun)
      /\ Ack(c, "beginning", ok)
      /\ UNCHANGED <<sub, skip>>

\* Mutant of HandleAbort: the start stays pending.
HandleAbortKeeps(c) == Becomes(State) /\ UNCHANGED <<sub, skip, ack>>

HandleAbort(c) ==
  /\ Becomes(FinishTurnStart(State, Thread(c), c))
  /\ UNCHANGED <<sub, skip, ack>>

HandleObserveTurn(c) ==
  LET r == RouteTurnStarted(State, Note("started", c, 0)) IN
  /\ Becomes(FinishTurnStart(r, Thread(c), c))
  /\ Ack(c, "observing", Usable(r, Thread(c)))
  /\ UNCHANGED <<sub, skip>>

HandleObserveThread(c) ==
  LET r == RouteThreadStarted(State, Thread(c)) IN
  /\ Becomes(r)
  /\ Ack(c, "observing", Usable(r, Thread(c)))
  /\ UNCHANGED <<sub, skip>>

HandleRelease(c) ==
  LET r == Prune(State)
      route == r.routes[Thread(c)]
      ok == route # NoRoute /\ Quiet(route) /\ route.active = {}
  IN  /\ Becomes(IF ok THEN [r EXCEPT !.routes[Thread(c)] = NoRoute] ELSE r)
      /\ Ack(c, "releasing", ok)
      /\ UNCHANGED <<sub, skip>>

HandleRouterCommand ==
  /\ router = "run"
  /\ cmds # <<>>
  /\ cmds' = Tail(cmds)
  /\ LET m == Head(cmds) IN
       \/ m.k = "subscribe" /\ HandleSubscribe(m.s)
       \/ m.k = "unsubscribe" /\ HandleUnsubscribe(m.s)
       \/ m.k = "ensure" /\ HandleEnsure(m.c)
       \/ m.k = "begin" /\ HandleBegin(m.c)
       \/ m.k = "abort" /\ HandleAbort(m.c)
       \/ m.k = "turn" /\ HandleObserveTurn(m.c)
       \/ m.k = "thread" /\ HandleObserveThread(m.c)
       \/ m.k = "release" /\ HandleRelease(m.c)
  /\ UNCHANGED <<scene, call, faults, got, taken, control, stop>>
  /\ UNCHANGED <<rpcVars, serverVars>>

\* The events of the connection.  A request of the server that finds no room in
\* the control channel is dropped, and its lease ends the connection.
RouteEvent ==
  /\ router = "run"
  /\ events # <<>>
  /\ events' = Tail(events)
  /\ LET e == Head(events) IN
       \/ /\ IsNote(e)
          /\ Becomes(RouteNotification(State, e))
          /\ taken' = IF Authoritative(e) THEN [taken EXCEPT ![e.t] = @ + 1]
                      ELSE taken
          /\ UNCHANGED <<control, lease, cancelled>>
       \/ /\ e.k = "drift"
          /\ UNCHANGED <<routerVars, taken, lease, cancelled>>
       \/ /\ e.k = "ask"
          /\ Cardinality(control) < ControlCap
          /\ control' = control \union {e.q}
          /\ UNCHANGED <<routes, box, router, taken, lease, cancelled>>
       \/ /\ e.k = "ask"
          /\ Cardinality(control) >= ControlCap
          /\ lease' = [lease EXCEPT ![e.q] = "resolved"]
          /\ cancelled' = TRUE
          /\ router' = "closing"
          /\ UNCHANGED <<routes, box, control, taken>>
  /\ UNCHANGED <<scene, call, faults, cmds, ack, sub, got, skip, stop>>
  /\ UNCHANGED <<conn, rpcq, pending, reply, out, inbox, held, serverPending>>
  /\ UNCHANGED serverVars

\* The router leaves its loop: on the client's token, or when the connection has
\* ended and its last event is read.
RouterBreaks ==
  /\ router = "run"
  /\ stop \/ (conn = "lost" /\ events = <<>>)
  /\ router' = "closing"
  /\ UNCHANGED <<scene, call, faults, cmds, ack, routes, box, sub, got, taken, skip,
                 control, stop>>
  /\ UNCHANGED <<rpcVars, serverVars>>

\* connection.shutdown()
RouterCancels ==
  /\ router = "closing"
  /\ ~cancelled
  /\ cancelled' = TRUE
  /\ UNCHANGED <<scene, call, faults, conn, rpcq, pending, reply, out, inbox, held,
                 events, serverPending, lease>>
  /\ UNCHANGED <<serverVars, clientVars>>

\* close_subscribers, and the task returns.
RouterEnds ==
  /\ router = "closing"
  /\ conn = "lost"
  /\ router' = "done"
  /\ routes' = [t \in Threads |-> NoRoute]
  /\ box' = [s \in Subs |->
               IF \A t \in Threads : routes[t] = NoRoute \/ s \notin routes[t].subs
               THEN box[s]
               ELSE IF CanPushTerminal(box[s])
               THEN [PushTerminal(box[s], Closed) EXCEPT !.open = FALSE]
               ELSE Invalidate(box[s])]
  /\ cmds' = <<>>
  /\ events' = <<>>
  /\ lease' = [q \in Asks |->
                 IF \E i \in DOMAIN events : events[i] = AskMessage(q)
                 THEN "resolved" ELSE lease[q]]
  /\ UNCHANGED <<scene, call, faults, ack, sub, got, taken, skip, control, stop>>
  /\ UNCHANGED <<conn, cancelled, rpcq, pending, reply, out, inbox, held,
                 serverPending>>
  /\ UNCHANGED serverVars

-----------------------------------------------------------------------------
(* The calls. *)

HasRoom == router # "done" /\ Len(cmds) < CommandCap
SendRouter(m) == cmds' = Append(cmds, m)
Returns(c, verdict) == call' = [call EXCEPT ![c] = verdict]

\* NonIdempotentGuard and PendingTurnStartGuard, dropped while armed: the epoch
\* ends.
FailClosedOn(c, verdict) ==
  /\ Returns(c, verdict)
  /\ stop' = TRUE

InFlightCalls == pending \union {c \in Callers :
                   \E i \in DOMAIN rpcq : rpcq[i] = [k |-> "request", c |-> c]}

\* request_budgeted: refused on a dead connection, queued when there is a permit.
Request(c) ==
  IF conn # "open" \/ cancelled
  THEN /\ IF plan[c].method \in NonIdempotent
          THEN FailClosedOn(c, "uncertain")
          ELSE Returns(c, "failed") /\ UNCHANGED stop
       /\ UNCHANGED rpcq
  ELSE /\ Cardinality(InFlightCalls) < Inflight
       /\ call' = [call EXCEPT ![c] = "calling"]
       /\ rpcq' = Append(rpcq, [k |-> "request", c |-> c])
       /\ UNCHANGED stop

\* A call begins: with a command to the router, or straight with the request.
Call(c) ==
  /\ call[c] = "idle"
  /\ \/ /\ plan[c].method \in NonIdempotent
        /\ HasRoom
        /\ SendRouter([k |-> "ensure", c |-> c])
        /\ call' = [call EXCEPT ![c] = "ensuring"]
        /\ UNCHANGED <<rpcq, stop>>
     \/ /\ plan[c].method = "release"
        /\ HasRoom
        /\ SendRouter([k |-> "release", c |-> c])
        /\ call' = [call EXCEPT ![c] = "releasing"]
        /\ UNCHANGED <<rpcq, stop>>
     \/ /\ plan[c].method = "turn/interrupt"
        /\ Request(c)
        /\ UNCHANGED cmds
     \/ /\ plan[c].method \in NonIdempotent \union {"release"}
        /\ router = "done"
        /\ Returns(c, "notApplied")
        /\ UNCHANGED <<cmds, rpcq, stop>>
  /\ UNCHANGED <<scene, faults, conn, cancelled, pending, reply, out, inbox, held,
                 events, serverPending, lease>>
  /\ UNCHANGED <<ack, routes, box, sub, got, taken, skip, control, router>>
  /\ UNCHANGED serverVars

\* The router has acknowledged: the next command, or the request itself.
Acknowledged(c) ==
  /\ ack[c] = "yes"
  /\ ack' = [ack EXCEPT ![c] = "none"]
  /\ \/ /\ call[c] = "ensuring" /\ plan[c].method = "turn/start"
        /\ HasRoom
        /\ SendRouter([k |-> "begin", c |-> c])
        /\ call' = [call EXCEPT ![c] = "beginning"]
        /\ UNCHANGED <<rpcq, stop>>
     \/ /\ call[c] = "ensuring" /\ plan[c].method = "turn/start"
        /\ router = "done"
        /\ Returns(c, "notApplied")
        /\ UNCHANGED <<cmds, rpcq, stop>>
     \/ /\ \/ call[c] = "ensuring" /\ plan[c].method = "thread/resume"
           \/ call[c] = "beginning"
        /\ Request(c)
        /\ UNCHANGED cmds
     \/ /\ call[c] \in {"observing", "releasing"}
        /\ Returns(c, "ok")
        /\ UNCHANGED <<cmds, rpcq, stop>>
  /\ UNCHANGED <<scene, faults, conn, cancelled, pending, reply, out, inbox, held,
                 events, serverPending, lease>>
  /\ UNCHANGED <<routes, box, sub, got, taken, skip, control, router>>
  /\ UNCHANGED serverVars

\* The router refuses, is gone, or does not answer in time.  Before the request
\* nothing has happened; after it the turn or thread exists but is not tracked.
\* A call dropped after the router's yes and before it is polled again is left out:
\* only the shutdown of its actor drops one.
NotAcknowledged(c) ==
  /\ call[c] \in {"ensuring", "beginning", "observing", "releasing"}
  /\ \/ ack[c] = "no" /\ UNCHANGED faults
     \/ router = "done" /\ ack[c] = "none" /\ UNCHANGED faults
     \/ ack[c] = "none" /\ faults < scene.faults /\ faults' = faults + 1
  /\ IF call[c] = "observing"
     THEN FailClosedOn(c, "untracked")
     ELSE Returns(c, "notApplied") /\ UNCHANGED stop
  /\ UNCHANGED <<scene, rpcVars, serverVars>>
  /\ UNCHANGED <<cmds, ack, routes, box, sub, got, taken, skip, control, router>>

\* The answer has arrived.  A refusal is final; a result is told to the router.
Answered(c) ==
  /\ call[c] = "calling"
  /\ ~cancelled
  /\ \/ /\ reply[c] \in {"error", "tooLarge"}
        /\ Returns(c, IF plan[c].method \in NonIdempotent THEN "notApplied"
                      ELSE "failed")
        /\ IF plan[c].method # "turn/start"
           THEN UNCHANGED <<cmds, stop>>
           ELSE IF HasRoom
           THEN SendRouter([k |-> "abort", c |-> c]) /\ UNCHANGED stop
           ELSE stop' = TRUE /\ UNCHANGED cmds
     \/ /\ reply[c] = "result"
        /\ plan[c].method = "turn/interrupt"
        /\ Returns(c, "ok")
        /\ UNCHANGED <<cmds, stop>>
     \/ /\ reply[c] = "result"
        /\ plan[c].method \in NonIdempotent
        /\ HasRoom
        /\ SendRouter([k |-> IF plan[c].method = "turn/start" THEN "turn"
                             ELSE "thread", c |-> c])
        /\ call' = [call EXCEPT ![c] = "observing"]
        /\ UNCHANGED stop
     \/ /\ reply[c] = "result"
        /\ plan[c].method \in NonIdempotent
        /\ router = "done"
        /\ FailClosedOn(c, "untracked")
        /\ UNCHANGED cmds
  /\ UNCHANGED <<scene, faults, rpcVars, serverVars>>
  /\ UNCHANGED <<ack, routes, box, sub, got, taken, skip, control, router>>

\* Mutant of Unanswered: a timeout is taken for a refusal.
UnansweredIsRefused(c) ==
  /\ call[c] = "calling"
  /\ cancelled \/ reply[c] = "lost" \/ faults < scene.faults
  /\ faults' = scene.faults
  /\ Returns(c, "notApplied")
  /\ UNCHANGED <<scene, rpcVars, serverVars>>
  /\ UNCHANGED <<cmds, ack, routes, box, sub, got, taken, skip, control, stop, router>>

\* No answer: the connection is lost, the deadline has passed, or the answer
\* cannot be decoded.
Unanswered(c) ==
  /\ call[c] = "calling"
  /\ \/ (cancelled \/ reply[c] = "lost") /\ UNCHANGED faults
     \/ ~cancelled /\ faults < scene.faults /\ faults' = faults + 1
  /\ IF plan[c].method \in NonIdempotent
     THEN FailClosedOn(c, "uncertain")
     ELSE Returns(c, "failed") /\ UNCHANGED stop
  /\ UNCHANGED <<scene, rpcVars, serverVars>>
  /\ UNCHANGED <<cmds, ack, routes, box, sub, got, taken, skip, control, router>>

\* AppServerClient::shutdown, called by the supervisor.
Shutdown ==
  /\ ~stop
  /\ faults < scene.faults /\ faults' = faults + 1
  /\ stop' = TRUE
  /\ UNCHANGED <<scene, call, rpcVars, serverVars>>
  /\ UNCHANGED <<cmds, ack, routes, box, sub, got, taken, skip, control, router>>

-----------------------------------------------------------------------------
(* Subscribers and the consumer of the control events. *)

Subscribe(s) ==
  /\ sub[s].state = "none"
  /\ HasRoom
  /\ SendRouter([k |-> "subscribe", s |-> s])
  /\ sub' = [sub EXCEPT ![s].state = "asking"]
  /\ UNCHANGED <<scene, call, faults, rpcVars, serverVars>>
  /\ UNCHANGED <<ack, routes, box, got, taken, skip, control, stop, router>>

Recv(s) ==
  /\ sub[s].state = "on"
  /\ box[s].q # <<>>
  /\ box' = [box EXCEPT ![s].q = Tail(@)]
  /\ got' = [got EXCEPT ![s] = IF IsLossy(Head(box[s].q)) THEN @
                               ELSE Append(@, Head(box[s].q))]
  /\ UNCHANGED <<scene, call, faults, rpcVars, serverVars>>
  /\ UNCHANGED <<cmds, ack, routes, sub, taken, skip, control, stop, router>>

\* Drop for ThreadSubscription: Unsubscribe is sent only if there is room.
Unsubscribe(s) ==
  /\ sub[s].state = "on"
  /\ sub' = [sub EXCEPT ![s].state = "dropped"]
  /\ box' = [box EXCEPT ![s].open = FALSE]
  /\ cmds' = IF HasRoom THEN Append(cmds, [k |-> "unsubscribe", s |-> s]) ELSE cmds
  /\ UNCHANGED <<scene, call, faults, rpcVars, serverVars>>
  /\ UNCHANGED <<ack, routes, got, taken, skip, control, stop, router>>

\* Mutant of Respond: a request that is dropped is forgotten.
RespondForgets(q) ==
  /\ q \in control
  /\ control' = control \ {q}
  /\ lease' = [lease EXCEPT ![q] = "resolved"]
  /\ UNCHANGED <<scene, call, faults, conn, cancelled, rpcq, pending, reply, out, inbox,
                 held, events, serverPending>>
  /\ UNCHANGED <<cmds, ack, routes, box, sub, got, taken, skip, stop, router>>
  /\ UNCHANGED serverVars

\* respond_request hands the lease to the actor before it queues the answer; a
\* request that is dropped instead ends the connection.
Respond(q) ==
  /\ q \in control
  /\ lease[q] = "armed"
  /\ \/ /\ conn = "open" /\ ~cancelled
        /\ lease' = [lease EXCEPT ![q] = "actor"]
        /\ rpcq' = Append(rpcq, [k |-> "respond", q |-> q])
        /\ UNCHANGED cancelled
     \/ /\ lease' = [lease EXCEPT ![q] = "resolved"]
        /\ cancelled' = TRUE
        /\ UNCHANGED rpcq
  /\ control' = control \ {q}
  /\ UNCHANGED <<scene, call, faults, conn, pending, reply, out, inbox, held, events,
                 serverPending>>
  /\ UNCHANGED <<cmds, ack, routes, box, sub, got, taken, skip, stop, router>>
  /\ UNCHANGED serverVars

-----------------------------------------------------------------------------

ClientInit ==
  /\ RpcInit
  /\ cmds = <<>>
  /\ ack = [c \in Callers |-> "none"]
  /\ routes = [t \in Threads |-> NoRoute]
  /\ box = [s \in Subs |-> NewBox]
  /\ sub \in [Subs -> [thread : Threads, state : {"none"}, before : {{}}]]
  /\ got = [s \in Subs |-> <<>>]
  /\ taken = [t \in Threads |-> 0]
  /\ skip = [s \in Subs |-> 0]
  /\ control = {}
  /\ stop = FALSE
  /\ router = "run"

ClientNext ==
  \/ RpcNext /\ UNCHANGED clientVars
  \/ HandleRouterCommand \/ RouteEvent
  \/ RouterBreaks \/ RouterCancels \/ RouterEnds
  \/ \E c \in Callers : \/ Call(c) \/ Acknowledged(c) \/ NotAcknowledged(c)
                         \/ Answered(c) \/ Unanswered(c)
  \/ \E s \in Subs : Subscribe(s) \/ Recv(s) \/ Unsubscribe(s)
  \/ \E q \in Asks : Respond(q)
  \/ Shutdown

Spec == ClientInit /\ [][ClientNext]_vars

-----------------------------------------------------------------------------
(* Properties. *)

TypeOK ==
  /\ scene \in Scenarios
  /\ call \in [Callers -> Stages \union Verdicts]
  /\ conn \in {"open", "lost"}
  /\ pending \subseteq Callers
  /\ serverPending \subseteq Asks
  /\ lease \in [Asks -> {"none", "armed", "actor", "resolved"}]
  /\ router \in {"run", "closing", "done"}
  /\ \A t \in Threads : routes[t] # NoRoute =>
       /\ routes[t].subs \subseteq Subs
       /\ routes[t].active \subseteq routes[t].started
       /\ Len(routes[t].deferred) <= DeferCap
       /\ Len(routes[t].outcomes) <= OutcomeCap
  /\ \A s \in Subs : CountIn(box[s].q, LAMBDA e : ~IsLossy(e)) <= TerminalCap

\* A caller that is told its request was definitely not applied is told the
\* truth: the app-server has not executed it and never will
\* (turn_start_definitely_not_applied, on which the scope actor tells the user that
\* the turn failed, and not that its outcome is unknown).
NotAppliedIsTrue ==
  \A c \in Callers : call[c] = "notApplied" => turn[c] \in {"none", "refused"}

\* After a call whose outcome is unknown nothing more is started on this
\* connection: its guard has cancelled the client.
UncertainEndsEpoch ==
  \A c \in Callers : call[c] \in {"uncertain", "untracked"} => stop

\* What start_turn returns can be acted on, whenever it times out or is dropped:
\* "not applied" is true, and after "unknown" this connection starts nothing more.
OutcomeIsTrue == NotAppliedIsTrue /\ UncertainEndsEpoch

\* A thread holds its reports back only for a start that is under way: no
\* failed, late or refused start leaves the thread waiting for ever.
DeferralIsOwned ==
  \A t \in Threads : routes[t] # NoRoute /\ (routes[t].defer \/ routes[t].pend # None)
    => \/ \E c \in Callers : /\ routes[t].pend = Start(c)
                            /\ \/ call[c] \in {"beginning", "calling", "observing"}
                               \/ \E i \in DOMAIN cmds : cmds[i].k \in {"abort", "turn"}
                                                       /\ cmds[i].c = c
       \/ stop \/ router # "run" \/ conn = "lost"

Delivered(s) == SelectSeq(got[s] \o box[s].q,
                          LAMBDA e : e.k \in {"item", "completed"})
FirstAt(seq, e) == CHOOSE i \in DOMAIN seq : seq[i] = e /\ \A j \in 1..(i-1) : seq[j] # e

\* What a subscription delivers of the reports that must not get lost is a
\* prefix of what the app-server sent for the thread after the subscription,
\* each report once and in the order it was sent: a full mailbox, a deferral,
\* a repetition or the end of the connection may cut the prefix short, but
\* never leave a hole in it.
PrefixDelivered ==
  \A s \in Subs :
    LET t == sub[s].thread
        old == ToSet(SubSeq(sent[t], 1, skip[s]))
        new == SubSeq(sent[t], skip[s] + 1, Len(sent[t]))
        fresh == ToSet(new) \ old
        d == SelectSeq(Delivered(s), LAMBDA e : e \in fresh)
        order == SetToSortSeq(fresh, LAMBDA e, f : FirstAt(new, e) < FirstAt(new, f))
    IN  sub[s].state \in {"on", "dropped"} => IsPrefix(d, order)

\* A turn is reported as started before anything else of it, whatever the order
\* of the answer to turn/start and the notifications, and although turn/started
\* itself may be dropped.
StartedFirst ==
  \A s \in Subs : \A c \in sub[s].before :
    LET all == got[s] \o box[s].q
        alone == \A d \in Callers \ {c} :
                   plan[d].thread = plan[c].thread => turn[d] \in {"none", "refused"}
    IN  alone => \A i \in DOMAIN all :
          all[i].k \in {"item", "completed"} /\ all[i].c = c =>
            \E j \in 1..(i - 1) : all[j].k = "started" /\ all[j].c = c

\* What a subscriber hears of a thread has no hole and begins with the start of the
\* turn (route_notification, dispatch_terminal_to_route, Mailbox).
HeardInOrder == PrefixDelivered /\ StartedFirst

\* A request of the app-server gets at most one answer, and it is answered, with
\* somebody who can answer it, or the connection is ending.
AskedOnce ==
  \A q \in Asks :
    /\ asked[q] <= 1
    /\ lease[q] = "resolved" => asked[q] = 1 \/ cancelled
=============================================================================
