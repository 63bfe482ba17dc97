------------------------------- MODULE Context -------------------------------
(* The context of a socket, with what lives in it.  The parts of a transport *)
(* endpoint - endpoint, session, header exchange, usock, timers - call each  *)
(* other directly, so each function is an operator from the state of all of  *)
(* them to the next; what they raise is queued and handled before the        *)
(* context is left, one event per step.                                      *)
EXTENDS Naturals, Sequences

CONSTANT NULL

\* Everything the context guards, and the worker's queue of tasks: a record
\* with the fields events, tasks, timer, armed, odd and aborted, and those of
\* the endpoint.
VARIABLE m

\* m.odd remembers what the code is not prepared for.
Odd(x, what) == [x EXCEPT !.odd = @ \cup {what}]

Timer == {"TIMER", "RECONNECT_TIMER"}

\* How the operating system answers a call.
Result == {"done", "again", "reset"}

-----------------------------------------------------------------------------
Ev(to, src, type) == [to |-> to, src |-> src, type |-> type]

\* An object has one event for its results (a usock: for its errors), and a
\* queue must not get the same event twice.  Each accepted connection has a usock
\* and a session of its own.
SameEvent(d, e) ==
    /\ d.src = e.src
    /\ d.src \in {"ACCEPTED", "SESSION"} => d.to = e.to
    /\ d.type = e.type
       \/ {d.type, e.type} \subseteq {"OK", "ERROR", "SHUTDOWN", "CLOSE_HANDSHAKE"}

Raise(x, e) ==
    [x EXCEPT !.events = Append(@, e),
              !.aborted = @ \/ \E i \in DOMAIN x.events : SameEvent(x.events[i], e)]

Execute(x, fsm, what) ==
    [x EXCEPT !.tasks = Append(@, <<fsm, what>>),
              !.aborted = @ \/ \E i \in DOMAIN x.tasks : x.tasks[i] = <<fsm, what>>]

Abort(x) == [x EXCEPT !.aborted = TRUE]

\* nn_fsm_isidle: it has stopped, and its owner has been told.
FsmIdle(x, src, state) ==
    /\ state = "IDLE"
    /\ \A i \in DOMAIN x.events :
          ~(x.events[i].src = src /\ x.events[i].type = "STOPPED")

TimerOwner(t) == IF t = "TIMER" THEN "header" ELSE "ep"
TimerIdle(x, t) == FsmIdle(x, t, x.timer[t])

TimerStart(x, t) ==
    IF TimerIdle(x, t) THEN Execute([x EXCEPT !.timer[t] = "ACTIVE"], t, "START")
                       ELSE Abort(x)

TimerStop(x, t) ==
    IF x.timer[t] = "ACTIVE" THEN Execute([x EXCEPT !.timer[t] = "STOPPING"], t, "STOP")
                             ELSE x

\* The worker runs a task of a timer; starting has no effect on a timer that
\* was stopped in the meantime.
TimerTask(x, t, what) ==
    CASE what = "START" /\ x.timer[t] = "ACTIVE" ->
            [x EXCEPT !.armed = @ \cup {t}]
      [] what = "START" /\ x.timer[t] = "STOPPING" -> x
      [] what = "STOP" /\ x.timer[t] = "STOPPING" ->
            Raise([x EXCEPT !.armed = @ \ {t}, !.timer[t] = "IDLE"],
                  Ev(TimerOwner(t), t, "STOPPED"))
      [] OTHER -> Abort(x)

-----------------------------------------------------------------------------
(* Outside of a session, when no event is left to handle, a thread may enter *)
(* the context: the worker with a task, a timeout or an event of the poller, *)
(* or a user.  Inside, the first event is handled.                           *)

Outside == m.events = <<>> /\ ~m.aborted
On(to, src, type) == m.events # <<>> /\ ~m.aborted /\ Head(m.events) = Ev(to, src, type)
OnAny(to) == m.events # <<>> /\ ~m.aborted /\ Head(m.events).to = to
Rest == [m EXCEPT !.events = Tail(@)]

\* Expired timers are taken from the set of timeouts; one that is being stopped
\* ignores it.
Timeout(t) ==
    /\ Outside /\ t \in m.armed
    /\ LET x == [m EXCEPT !.armed = @ \ {t}]
       IN m' = CASE m.timer[t] = "ACTIVE" -> Raise(x, Ev(TimerOwner(t), t, "TIMEOUT"))
                 [] m.timer[t] = "STOPPING" -> x
                 [] OTHER -> Abort(x)
=============================================================================
