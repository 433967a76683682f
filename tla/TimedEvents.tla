----------------------------- MODULE TimedEvents -----------------------------
(***************************************************************************)
(* The timers of the library: TimedEvent, TimedEventImpl and the event     *)
(* thread ResourceEvent (src/src/cpp/rtps/resources).  Client threads      *)
(* change the atomic state of a timer first and tell the event thread in a *)
(* second step, under its mutex; the event thread runs the callbacks with  *)
(* no lock held.  Of a trigger time the model knows whether it is less     *)
(* than 24 h away: such a timer may expire whenever the event thread looks *)
(* at it.                                                                  *)
(***************************************************************************)
EXTENDS Integers, FiniteSets

CONSTANTS
    Timers,
    Clients,            \* threads that use the timers
    TimedRestart,       \* timers restarted with restart_timer(timeout) in
                        \* a HAVE_STRICT_REALTIME build
    Long                \* timers with an interval of 24 h or more

ASSUME TimerAssumption == TimedRestart \cup Long \subseteq Timers

VARIABLES
    registered,         \* timers created and not destroyed
    state,              \* TimedEventImpl::state_
    near,               \* timers with next_trigger_time_ before cancel_time,
                        \* which is 24 h ahead of each pass of the event thread
    pending,            \* pending_timers_
    active,             \* active_timers_
    client,             \* what each client thread is in the middle of
    service,            \* where the event thread is
    todo,               \* active timers its loop has not looked at
    did_something,      \* its pass has triggered a timer
    given_up            \* history variable: timers whose last notify() timed out

eventVars == <<service, todo, did_something>>
vars == <<registered, state, near, pending, active, client, eventVars, given_up>>

StateCode == {"INACTIVE", "READY", "WAITING"}

Orders == {"restart", "cancel", "recreate"}
Idle == [op |-> "idle"]
Doing(op, t) == [op |-> op, timer |-> t]

(* The event thread: before do_timer_actions(), in its trigger loop,       *)
(* inside a callback, after it, and waiting on cv_ (the only place where   *)
(* allow_vector_manipulation_ is true).                                    *)
At(place) == [at |-> place]
InCallback(t) == [at |-> "callback", timer |-> t]

Init ==
    /\ registered = {}
    /\ state = [t \in Timers |-> "INACTIVE"]
    /\ near = {} /\ pending = {} /\ active = {} /\ todo = {}
    /\ client = [c \in Clients |-> Idle]
    /\ service = At("waiting") /\ did_something = FALSE
    /\ given_up = {}

-----------------------------------------------------------------------------
(* The constructor of TimedEvent and register_timer(). *)
RegisterTimer(c, t) ==
    /\ client[c] = Idle /\ t \notin registered
    /\ registered' = registered \cup {t}
    /\ state' = [state EXCEPT ![t] = "INACTIVE"]
    /\ near' = near \ {t} /\ given_up' = given_up \ {t}
    /\ UNCHANGED <<pending, active, client, eventVars>>

(* The one caller of recreate_timer(), WriterProxy::stop(), is by then the *)
(* only user of the timer.                                                 *)
Recreating(t) == \E c \in Clients : client[c] = Doing("recreate", t)

(* restart_timer(): go_ready(), and notify() when it succeeds. *)
RestartTimer(c, t) ==
    /\ client[c] = Idle /\ t \in registered /\ ~Recreating(t)
    /\ state[t] = "INACTIVE"
    /\ state' = [state EXCEPT ![t] = "READY"]
    /\ client' = [client EXCEPT ![c] = Doing("restart", t)]
    /\ UNCHANGED <<registered, near, pending, active, eventVars, given_up>>

(* cancel_timer(): go_cancel(), and notify() when it succeeds. *)
CancelTimer(c, t) ==
    /\ client[c] = Idle /\ t \in registered /\ ~Recreating(t)
    /\ state[t] # "INACTIVE"
    /\ state' = [state EXCEPT ![t] = "INACTIVE"]
    /\ client' = [client EXCEPT ![c] = Doing("cancel", t)]
    /\ UNCHANGED <<registered, near, pending, active, eventVars, given_up>>

(* Mutant: the order is dropped while the event thread is awake. *)
NotifyOnlyWaiting(c, t) ==
    /\ client[c] \in {Doing("restart", t), Doing("cancel", t)}
    /\ pending' = IF service = At("waiting")
                  THEN pending \cup {t} ELSE pending
    /\ client' = [client EXCEPT ![c] = Idle]
    /\ given_up' = given_up \ {t}
    /\ UNCHANGED <<registered, state, near, active, eventVars>>

(* notify() and register_timer_nts(), under mutex_. *)
Notify(c, t) ==
    /\ client[c] \in {Doing("restart", t), Doing("cancel", t)}
    /\ pending' = pending \cup {t}
    /\ client' = [client EXCEPT ![c] = Idle]
    /\ given_up' = given_up \ {t}
    /\ UNCHANGED <<registered, state, near, active, eventVars>>

(* notify(event, timeout) cannot take mutex_ in time. *)
NotifyTimesOut(c, t) ==
    /\ t \in TimedRestart /\ client[c] = Doing("restart", t)
    /\ client' = [client EXCEPT ![c] = Idle]
    /\ given_up' = given_up \cup {t}
    /\ UNCHANGED <<registered, state, near, pending, active, eventVars>>

(* unregister_timer(): a client thread waits until the event thread allows *)
(* manipulation; the event thread itself, in a callback, need not.         *)
MayManipulate == service = At("waiting")

Forget(t) ==
    /\ pending' = pending \ {t}
    /\ active' = active \ {t}

NotInUse(t) == \A c \in Clients, op \in Orders : client[c] # Doing(op, t)

(* Mutant: the destructor does not wait for the event thread. *)
DestroyTimerNoWait(c, t) ==
    /\ client[c] = Idle /\ t \in registered /\ NotInUse(t)
    /\ Forget(t)
    /\ registered' = registered \ {t}
    /\ UNCHANGED <<state, near, client, eventVars, given_up>>

(* The destructor: the owner no longer uses the timer. *)
DestroyTimer(c, t) ==
    /\ client[c] = Idle /\ t \in registered /\ NotInUse(t)
    /\ MayManipulate
    /\ Forget(t)
    /\ registered' = registered \ {t}
    /\ UNCHANGED <<state, near, client, eventVars, given_up>>

(* The destructor called by the callback of another timer: the loop over   *)
(* active_timers_ is abandoned (skip_checking_active_timers_).             *)
DestroyInCallback(t) ==
    /\ \E s \in Timers \ {t} : service = InCallback(s)
    /\ t \in registered /\ NotInUse(t)
    /\ Forget(t)
    /\ registered' = registered \ {t}
    /\ todo' = IF t \in active THEN {} ELSE todo
    /\ UNCHANGED <<state, near, client, service, did_something, given_up>>

(* Mutant: recreate_timer() does not wait for the event thread. *)
RecreateTimerNoWait(c, t) ==
    /\ client[c] = Idle /\ t \in registered /\ NotInUse(t)
    /\ Forget(t)
    /\ client' = [client EXCEPT ![c] = Doing("recreate", t)]
    /\ UNCHANGED <<registered, state, near, eventVars, given_up>>

(* recreate_timer(): unregister_timer(), then go_cancel() and              *)
(* register_timer().                                                       *)
RecreateTimer(c, t) ==
    /\ client[c] = Idle /\ t \in registered /\ NotInUse(t)
    /\ MayManipulate
    /\ Forget(t)
    /\ client' = [client EXCEPT ![c] = Doing("recreate", t)]
    /\ UNCHANGED <<registered, state, near, eventVars, given_up>>

RecreateCancels(c, t) ==
    /\ client[c] = Doing("recreate", t)
    /\ state' = [state EXCEPT ![t] = "INACTIVE"]
    /\ client' = [client EXCEPT ![c] = Idle]
    /\ UNCHANGED <<registered, near, pending, active, eventVars, given_up>>

-----------------------------------------------------------------------------
(* do_timer_actions(): the pending orders, with update() of each. *)
ProcessPending ==
    LET ready == {t \in pending : state[t] = "READY"}
        cancelled == {t \in pending : state[t] = "INACTIVE"}
    IN  /\ service = At("actions")
        /\ state' = [t \in Timers |-> IF t \in ready THEN "WAITING" ELSE state[t]]
        /\ near' = (near \ (ready \cup cancelled)) \cup (ready \ Long)
        /\ active' = (active \cup pending) \ cancelled
        /\ pending' = {}
        /\ todo' = active' /\ did_something' = FALSE
        /\ service' = At("triggering")
        /\ UNCHANGED <<registered, client, given_up>>

(* trigger() of an expired timer: a timer that is still WAITING runs its   *)
(* callback as INACTIVE.                                                   *)
Trigger(t) ==
    /\ service = At("triggering") /\ t \in todo /\ t \in near
    /\ IF state[t] = "WAITING"
       THEN /\ state' = [state EXCEPT ![t] = "INACTIVE"]
            /\ service' = InCallback(t)
            /\ UNCHANGED near
       ELSE near' = near \ {t} /\ UNCHANGED <<state, service>>
    /\ todo' = todo \ {t} /\ did_something' = TRUE
    /\ UNCHANGED <<registered, pending, active, client, given_up>>

(* The callback returns whether to restart; nobody may have restarted the  *)
(* timer meanwhile.                                                        *)
CallbackReturns(t, restart) ==
    /\ service = InCallback(t)
    /\ LET again == restart /\ state[t] = "INACTIVE"
       IN  /\ state' = [state EXCEPT ![t] = IF again THEN "WAITING" ELSE @]
           /\ near' = IF again /\ t \notin Long THEN near \cup {t} ELSE near \ {t}
    /\ service' = At("triggering")
    /\ UNCHANGED <<registered, pending, active, client, todo, did_something, given_up>>

(* Mutant: what has not expired leaves active_timers_. *)
EndTriggeringErasesRest ==
    /\ service = At("triggering")
    /\ active' = IF did_something THEN active \ todo ELSE active
    /\ todo' = {} /\ did_something' = FALSE
    /\ service' = At("done")
    /\ UNCHANGED <<registered, state, near, pending, client, given_up>>

(* The loop meets a timer that has not expired, or the end.  A pass that   *)
(* triggered a timer erases from active_timers_ all that are 24 h or more  *)
(* away: those that stopped, and with them a WAITING timer of Long, which  *)
(* then no pass looks at and go_ready() refuses until it is cancelled.     *)
EndTriggering ==
    /\ service = At("triggering")
    /\ active' = IF did_something THEN active \cap near ELSE active
    /\ todo' = {} /\ did_something' = FALSE
    /\ service' = At("done")
    /\ UNCHANGED <<registered, state, near, pending, client, given_up>>

(* event_service(): wait on cv_ unless there are pending orders. *)
WaitOrContinue ==
    /\ service = At("done")
    /\ service' = IF pending # {} THEN At("actions") ELSE At("waiting")
    /\ UNCHANGED <<registered, state, near, pending, active, client, todo, did_something, given_up>>

WakeUp ==
    /\ service = At("waiting")
    /\ service' = At("actions")
    /\ UNCHANGED <<registered, state, near, pending, active, client, todo, did_something, given_up>>

(* update_current_time(): the trigger time of a long timer, if it has one, *)
(* has come closer.                                                        *)
TimePasses(t) ==
    /\ service = At("actions")
    /\ t \in Long \cap registered /\ t \notin near
    /\ near' = near \cup {t}
    /\ UNCHANGED <<registered, state, pending, active, client, eventVars, given_up>>

Next ==
    \/ \E c \in Clients, t \in Timers :
          \/ RegisterTimer(c, t)
          \/ RestartTimer(c, t)
          \/ CancelTimer(c, t)
          \/ DestroyTimer(c, t)
          \/ RecreateTimer(c, t)
          \/ Notify(c, t)
          \/ NotifyTimesOut(c, t)
          \/ RecreateCancels(c, t)
    \/ \E t \in Timers :
          \/ DestroyInCallback(t)
          \/ Trigger(t)
          \/ TimePasses(t)
          \/ \E restart \in BOOLEAN : CallbackReturns(t, restart)
    \/ ProcessPending \/ EndTriggering \/ WaitOrContinue \/ WakeUp

Spec == Init /\ [][Next]_vars

(* The event thread keeps running, callbacks return, a thread that changed *)
(* the state of a timer goes on to notify, and time passes: a timer that   *)
(* stays in active_timers_ is found expired by some pass.                  *)
Fairness ==
    /\ WF_vars(ProcessPending) /\ WF_vars(EndTriggering)
    /\ WF_vars(WaitOrContinue) /\ WF_vars(WakeUp)
    /\ \A t \in Timers :
          /\ SF_vars(Trigger(t))
          /\ WF_vars(\E restart \in BOOLEAN : CallbackReturns(t, restart))
          /\ \A c \in Clients : WF_vars(Notify(c, t)) /\ WF_vars(RecreateCancels(c, t))

FairSpec == Spec /\ Fairness

-----------------------------------------------------------------------------
(* Every variable has its type; what the trigger loop has still to visit   *)
(* is in the vector it iterates over.                                      *)
TypeOK ==
    /\ registered \subseteq Timers
    /\ state \in [Timers -> StateCode]
    /\ near \subseteq Timers /\ given_up \subseteq TimedRestart /\ did_something \in BOOLEAN
    /\ pending \subseteq Timers /\ active \subseteq Timers /\ todo \subseteq active
    /\ client \in [Clients -> {Idle} \cup
           [op : Orders, timer : Timers]]
    /\ service \in {At(p) : p \in {"actions", "triggering", "done", "waiting"}}
                 \cup {InCallback(t) : t \in Timers}

Ordering(op, t) == \E c \in Clients : client[c] = Doing(op, t)

(* A READY timer has an order pending for the event thread, or its         *)
(* restart_timer() is about to give it.                                    *)
ReadyIsOrdered(t) ==
    state[t] = "READY" => t \in pending \/ Ordering("restart", t) \/ Recreating(t)

(* A WAITING timer is in active_timers_, where no pass erases it before it *)
(* is triggered.                                                           *)
WaitingIsActive(t) ==
    state[t] = "WAITING" => (t \in active /\ t \in near) \/ Recreating(t)

(* No timer is lost: one that go_ready() refuses to schedule again, because *)
(* it is scheduled already, is known to the event thread or about to be,   *)
(* however restarts, cancels, late notifications and callbacks interleave. *)
(* Two kinds are: one whose order was given up by the timed notify() of a  *)
(* strict real-time build, and a WAITING timer with an interval of 24 h or *)
(* more, which do_timer_actions() erases, as EndTriggering says.           *)
NoLostTimer ==
    \A t \in registered :
        /\ t \notin given_up => ReadyIsOrdered(t)
        /\ t \notin Long => WaitingIsActive(t)

(* Once the destructor of a timer has returned, the event thread holds no  *)
(* pointer to it and does not run its callback (unregister_timer() waits   *)
(* for allow_vector_manipulation_).                                        *)
NoUseAfterDestroy ==
    \A t \in Timers \ registered :
        t \notin pending \cup active \cup todo /\ service # InCallback(t)

(* recreate_timer() is a blocking cancel: when it returns no callback of   *)
(* the timer runs and the event thread has forgotten it, which             *)
(* WriterProxy::stop() relies on before it clears the proxy.               *)
RecreateIsBlocking ==
    [][\A c \in Clients, t \in Timers :
          client[c] = Doing("recreate", t) /\ client'[c] = Idle
            => /\ state'[t] = "INACTIVE" /\ service' # InCallback(t)
               /\ t \notin pending' \cup active' \cup todo']_vars

(* do_timer_actions() does not erase the timer before it triggers it: its  *)
(* interval is less than 24 h, or less than 24 h are left of it.           *)
Kept(t) == t \notin Long \/ (state[t] = "WAITING" /\ t \in active \cap near)

(* A scheduled timer runs its callback (INACTIVE meanwhile), is cancelled  *)
(* or is destroyed: no order of restart, cancel and notify of several      *)
(* threads leaves it scheduled for ever.  Not so a timer with an interval  *)
(* of 24 h or more, before the last 24 h of it (see EndTriggering), nor    *)
(* one whose order is given up.                                            *)
ScheduledFires ==
    \A t \in Timers :
        (t \in registered /\ state[t] # "INACTIVE" /\ Kept(t) /\ t \notin given_up)
            ~> (state[t] = "INACTIVE" \/ t \notin registered \/ t \in given_up)

=============================================================================
