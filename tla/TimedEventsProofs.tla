-------------------------- MODULE TimedEventsProofs --------------------------
(***************************************************************************)
(* Proofs about TimedEvents, for any number of timers and client threads.  *)
(***************************************************************************)
EXTENDS TimedEvents, TLAPS

(* A thread only works on timers that exist. *)
UsersKnowTimer ==
    \A c \in Clients, t \in Timers, op \in Orders :
        client[c] = Doing(op, t) => t \in registered

(* recreate_timer() has its timer for itself, and the event thread has     *)
(* forgotten it.                                                           *)
RecreateIsAlone ==
    \A c \in Clients, t \in Timers : client[c] = Doing("recreate", t) =>
        /\ \A d \in Clients \ {c}, op \in Orders : client[d] # Doing(op, t)
        /\ t \notin pending \cup active /\ service # InCallback(t)

(* The loop of the event thread and the callback it runs. *)
ServiceLoop ==
    /\ todo # {} => service \notin {At("actions"), At("done"), At("waiting")}
    /\ \A t \in Timers : service = InCallback(t) => t \in active /\ state[t] # "WAITING"

IInv ==
    /\ TypeOK
    /\ NoUseAfterDestroy
    /\ UsersKnowTimer
    /\ RecreateIsAlone
    /\ ServiceLoop

(* The initial state satisfies the inductive invariant. *)
LEMMA InitIInv == Init => IInv
<1> SUFFICES ASSUME Init PROVE IInv
  BY Zenon
<1>1. did_something \in BOOLEAN /\ near \subseteq Timers /\ given_up \subseteq TimedRestart
  BY Zenon DEF Init
<1>2. /\ registered \subseteq Timers /\ state \in [Timers -> StateCode]
      /\ pending \subseteq Timers /\ active \subseteq Timers /\ todo \subseteq active
      /\ client \in [Clients -> {Idle} \cup [op : Orders, timer : Timers]]
      /\ service \in {At(p) : p \in {"actions", "triggering", "done", "waiting"}}
  BY Zenon DEF Init, StateCode
<1>3. TypeOK
  BY Zenon, <1>1, <1>2 DEF TypeOK
<1>4. UsersKnowTimer /\ RecreateIsAlone
  <2>1. \A c \in Clients, t \in Timers, op \in Orders : client[c] # Doing(op, t)
    BY DEF Init, Idle, Doing
  <2> QED
    BY Zenon, <2>1 DEF UsersKnowTimer, RecreateIsAlone, Orders
<1>5. NoUseAfterDestroy /\ ServiceLoop
  BY DEF Init, NoUseAfterDestroy, ServiceLoop, At, InCallback
<1> QED
  BY Zenon, <1>3, <1>4, <1>5 DEF IInv

(* No action ever leaves a timer of the wrong type, or a pointer of the    *)
(* event thread to a destroyed timer.                                      *)
LEMMA NextIInv == IInv /\ [Next]_vars => IInv'
<1> SUFFICES ASSUME IInv, [Next]_vars PROVE IInv'
  BY Zenon
<1> USE DEF IInv, TypeOK, NoUseAfterDestroy, UsersKnowTimer, RecreateIsAlone,
            ServiceLoop, StateCode, Idle, Doing, At, InCallback, Orders, eventVars
<1>1. ASSUME NEW c \in Clients, NEW t \in Timers, RegisterTimer(c, t) PROVE IInv'
  BY <1>1 DEF RegisterTimer
<1>2. ASSUME NEW c \in Clients, NEW t \in Timers, RestartTimer(c, t) PROVE IInv'
  BY <1>2 DEF RestartTimer, Recreating
<1>3. ASSUME NEW c \in Clients, NEW t \in Timers, CancelTimer(c, t) PROVE IInv'
  BY <1>3 DEF CancelTimer, Recreating
<1>4. ASSUME NEW c \in Clients, NEW t \in Timers, DestroyTimer(c, t) PROVE IInv'
  BY <1>4 DEF DestroyTimer, Forget, NotInUse, MayManipulate
<1>5. ASSUME NEW c \in Clients, NEW t \in Timers, RecreateTimer(c, t) PROVE IInv'
  BY <1>5 DEF RecreateTimer, Forget, NotInUse, MayManipulate
<1>6. ASSUME NEW c \in Clients, NEW t \in Timers, Notify(c, t) PROVE IInv'
  BY <1>6 DEF Notify
<1>7. ASSUME NEW c \in Clients, NEW t \in Timers, NotifyTimesOut(c, t) PROVE IInv'
  BY <1>7 DEF NotifyTimesOut
<1>8. ASSUME NEW c \in Clients, NEW t \in Timers, RecreateCancels(c, t) PROVE IInv'
  BY <1>8 DEF RecreateCancels
<1>9. ASSUME NEW t \in Timers, DestroyInCallback(t) PROVE IInv'
  BY <1>9 DEF DestroyInCallback, Forget, NotInUse
<1>10. ASSUME NEW t \in Timers, Trigger(t) PROVE IInv'
  <2>1. /\ t \in todo /\ service = At("triggering") /\ todo' = todo \ {t}
        /\ UNCHANGED <<registered, pending, active, client>>
        /\ service' \in {service, InCallback(t)}
    BY <1>10, Zenon DEF Trigger
  <2>2. state' \in [Timers -> StateCode]
    BY <1>10 DEF Trigger
  <2>3. near' \subseteq Timers /\ did_something' = TRUE /\ given_up' = given_up
    BY Zenon, <1>10 DEF Trigger
  <2>4. t \in registered /\ t \in active
    BY Zenon, <2>1
  <2>5. TypeOK'
    BY <2>1, <2>2, <2>3
  <2>6. ASSUME NEW s \in Timers, service' = InCallback(s) PROVE s = t
    <3>1. service' # service
      BY Zenon, <2>1, <2>6
    <3> QED
      BY Zenon, <2>1, <2>6, <3>1
  <2>7. NoUseAfterDestroy' /\ UsersKnowTimer'
    BY Zenon, <2>1, <2>4, <2>6
  <2>8. ServiceLoop'
    <3>1. service' = InCallback(t) => state'[t] # "WAITING"
      <4>1. service' = InCallback(t) => service' # service
        BY <2>1
      <4> QED
        BY Zenon, <1>10, <4>1 DEF Trigger
    <3> QED
      BY <2>1, <2>4, <2>6, <3>1
  <2>9. RecreateIsAlone'
    <3> SUFFICES ASSUME NEW c \in Clients, NEW s \in Timers, client[c] = Doing("recreate", s)
                 PROVE  /\ \A d \in Clients \ {c}, op \in Orders : client[d] # Doing(op, s)
                        /\ s \notin pending \cup active /\ service' # InCallback(s)
      BY <2>1
    <3>1. /\ \A d \in Clients \ {c}, op \in Orders : client[d] # Doing(op, s)
          /\ s \notin pending \cup active
      BY Zenon
    <3> QED
      BY Zenon, <2>4, <2>6, <3>1
  <2> QED
    BY Zenon, <2>5, <2>7, <2>8, <2>9
<1>11. ASSUME NEW t \in Timers, NEW restart \in BOOLEAN, CallbackReturns(t, restart)
       PROVE  IInv'
  BY <1>11 DEF CallbackReturns
<1>12. CASE ProcessPending
  <2>1. /\ active' \subseteq active \cup pending /\ pending' = {} /\ todo' = active'
        /\ service' = At("triggering") /\ UNCHANGED <<registered, client>>
    BY Zenon, <1>12 DEF ProcessPending
  <2>2. state' \in [Timers -> StateCode]
    BY Zenon, <1>12 DEF ProcessPending
  <2>3. near' \subseteq Timers /\ did_something' = FALSE /\ given_up' = given_up
    BY <1>12, Zenon DEF ProcessPending
  <2>4. TypeOK'
    BY Zenon, <2>1, <2>2, <2>3
  <2>5. NoUseAfterDestroy' /\ UsersKnowTimer' /\ ServiceLoop'
    BY Zenon, <2>1
  <2>6. RecreateIsAlone'
    BY <2>1
  <2> QED
    BY Zenon, <2>4, <2>5, <2>6
<1>13. CASE EndTriggering
  <2>1. /\ active' \subseteq active /\ todo' = {} /\ service' = At("done")
        /\ did_something' \in BOOLEAN
        /\ UNCHANGED <<registered, state, near, pending, client, given_up>>
    BY Zenon, <1>13 DEF EndTriggering
  <2>2. TypeOK'
    BY Zenon, <2>1
  <2>3. \A t \in Timers : service' # InCallback(t)
    BY <2>1
  <2>4. NoUseAfterDestroy' /\ UsersKnowTimer' /\ RecreateIsAlone' /\ ServiceLoop'
    BY Zenon, <2>1, <2>3
  <2> QED
    BY Zenon, <2>2, <2>4
<1>14. CASE WaitOrContinue
  BY <1>14 DEF WaitOrContinue
<1>15. CASE WakeUp
  BY <1>15 DEF WakeUp
<1>16. CASE UNCHANGED vars
  BY <1>16 DEF vars
<1>17. ASSUME NEW t \in Timers, TimePasses(t) PROVE IInv'
  BY <1>17 DEF TimePasses
<1> HIDE DEF IInv
<1> QED
  BY Zenon, <1>1, <1>2, <1>3, <1>4, <1>5, <1>6, <1>7, <1>8, <1>9, <1>10, <1>11, <1>12,
     <1>13, <1>14, <1>15, <1>16, <1>17 DEF Next

(* The event thread never holds a destroyed timer (unregister_timer()), in *)
(* a build with or without HAVE_STRICT_REALTIME.                           *)
THEOREM TimersSafe == Spec => [](TypeOK /\ NoUseAfterDestroy)
<1>1. IInv => TypeOK /\ NoUseAfterDestroy
  BY Zenon DEF IInv
<1> QED
  BY InitIInv, NextIInv, <1>1, PTL DEF Spec

(* recreate_timer() blocks until no callback of the timer runs, and the    *)
(* event thread has forgotten it when it returns.                          *)
THEOREM RecreateBlocks == Spec => RecreateIsBlocking
<1> DEFINE Blocked(c, t) ==
       client[c] = Doing("recreate", t) /\ client'[c] = Idle
         => /\ state'[t] = "INACTIVE" /\ service' # InCallback(t)
            /\ t \notin pending' \cup active' \cup todo'
<1>1. ASSUME IInv, IInv', [Next]_vars PROVE [\A c \in Clients, t \in Timers : Blocked(c, t)]_vars
  <2> SUFFICES ASSUME NEW c \in Clients, NEW t \in Timers, Next,
                      client[c] = Doing("recreate", t), client'[c] = Idle
               PROVE  /\ state'[t] = "INACTIVE" /\ service' # InCallback(t)
                      /\ t \notin pending' \cup active' \cup todo'
    BY Zenon, <1>1 DEF vars
  <2>1. Doing("recreate", t) # Idle /\ \A op \in Orders \ {"recreate"}, s \in Timers :
            Doing("recreate", t) # Doing(op, s)
    BY Zenon DEF Doing, Idle, Orders
  <2>2. \/ UNCHANGED client \/ RecreateCancels(c, t)
        \/ \E d \in Clients, v \in {Idle} \cup [op : Orders, timer : Timers] :
              d # c /\ client' = [client EXCEPT ![d] = v]
    <3> USE <1>1 DEF IInv, TypeOK, Orders, Doing, Idle
    <3>1. ASSUME NEW d \in Clients, NEW s \in Timers,
                 \/ RegisterTimer(d, s) \/ RestartTimer(d, s) \/ CancelTimer(d, s)
                 \/ DestroyTimer(d, s) \/ RecreateTimer(d, s)
          PROVE  \/ UNCHANGED client
                 \/ d # c /\ \E v \in {Idle} \cup [op : Orders, timer : Timers] :
                                client' = [client EXCEPT ![d] = v]
      BY <3>1 DEF RegisterTimer, RestartTimer, CancelTimer, DestroyTimer, RecreateTimer
    <3>2. ASSUME NEW d \in Clients, NEW s \in Timers,
                 Notify(d, s) \/ NotifyTimesOut(d, s) \/ RecreateCancels(d, s)
          PROVE  \/ RecreateCancels(c, t)
                 \/ d # c /\ client' = [client EXCEPT ![d] = Idle]
      BY <3>2 DEF Notify, NotifyTimesOut, RecreateCancels
    <3>3. ASSUME NEW s \in Timers, NEW restart \in BOOLEAN,
                 DestroyInCallback(s) \/ Trigger(s) \/ CallbackReturns(s, restart) \/ TimePasses(s)
          PROVE  UNCHANGED client
      BY Zenon, <3>3 DEF DestroyInCallback, Trigger, CallbackReturns, TimePasses
    <3>4. ASSUME ProcessPending \/ EndTriggering \/ WaitOrContinue \/ WakeUp
          PROVE  UNCHANGED client
      BY Zenon, <3>4 DEF ProcessPending, EndTriggering, WaitOrContinue, WakeUp
    <3> QED
      BY Zenon, <3>1, <3>2, <3>3, <3>4 DEF Next
  <2>3. RecreateCancels(c, t)
    BY Zenon, <1>1, <2>1, <2>2 DEF IInv, TypeOK
  <2> QED
    BY Zenon, <1>1, <2>3 DEF RecreateCancels, IInv, RecreateIsAlone, TypeOK, eventVars
<1> QED
  BY InitIInv, NextIInv, <1>1, PTL DEF Spec, RecreateIsBlocking

-----------------------------------------------------------------------------
(* No step loses a timer, but those that NoLostTimer names. *)
LEMMA NextNoLostTimer ==
    ASSUME IInv, IInv', NoLostTimer, [Next]_vars
    PROVE  NoLostTimer'
<1> USE DEF NoLostTimer, ReadyIsOrdered, WaitingIsActive, Ordering, Recreating
<1> DEFINE Known(t) == /\ t \notin given_up => ReadyIsOrdered(t)
                       /\ t \notin Long => WaitingIsActive(t)
<1> SUFFICES ASSUME NEW s \in registered' PROVE Known(s)'
  BY Zenon
<1>0. s \in Timers /\ (s \in registered => Known(s))
  BY Zenon DEF IInv, TypeOK
<1>1. ASSUME NEW c \in Clients, NEW t \in Timers, RegisterTimer(c, t) PROVE Known(s)'
  BY Zenon, <1>0, <1>1 DEF RegisterTimer, IInv, TypeOK
<1>2. ASSUME NEW c \in Clients, NEW t \in Timers, RestartTimer(c, t) PROVE Known(s)'
  BY <1>0, <1>2 DEF RestartTimer, IInv, TypeOK, Doing, Idle
<1>3. ASSUME NEW c \in Clients, NEW t \in Timers, CancelTimer(c, t) PROVE Known(s)'
  BY <1>0, <1>3 DEF CancelTimer, IInv, TypeOK, Doing, Idle
<1>4. ASSUME NEW c \in Clients, NEW t \in Timers, DestroyTimer(c, t) PROVE Known(s)'
  BY Zenon, <1>0, <1>4 DEF DestroyTimer, Forget
<1>5. ASSUME NEW c \in Clients, NEW t \in Timers, RecreateTimer(c, t) PROVE Known(s)'
  BY <1>0, <1>5 DEF RecreateTimer, Forget, IInv, TypeOK, Doing, Idle
<1>6. ASSUME NEW c \in Clients, NEW t \in Timers, Notify(c, t) PROVE Known(s)'
  BY <1>0, <1>6 DEF Notify, IInv, TypeOK, Doing, Idle
<1>7. ASSUME NEW c \in Clients, NEW t \in Timers, NotifyTimesOut(c, t) PROVE Known(s)'
  BY <1>0, <1>7 DEF NotifyTimesOut, IInv, TypeOK, Doing, Idle
<1>8. ASSUME NEW c \in Clients, NEW t \in Timers, RecreateCancels(c, t) PROVE Known(s)'
  BY <1>0, <1>8 DEF RecreateCancels, IInv, TypeOK, Doing, Idle
<1>9. ASSUME NEW t \in Timers, DestroyInCallback(t) PROVE Known(s)'
  BY Zenon, <1>0, <1>9 DEF DestroyInCallback, Forget
<1>10. ASSUME NEW t \in Timers, Trigger(t) PROVE Known(s)'
  BY Zenon, <1>0, <1>10 DEF Trigger, IInv, TypeOK
<1>11. ASSUME NEW t \in Timers, NEW restart \in BOOLEAN, CallbackReturns(t, restart)
       PROVE  Known(s)'
  <2>1. UNCHANGED <<registered, pending, active, client, given_up>> /\ t \in active
    BY Zenon, <1>11 DEF CallbackReturns, IInv, ServiceLoop
  <2>2. CASE restart /\ state[t] = "INACTIVE"
    <3>1. /\ state' = [state EXCEPT ![t] = "WAITING"]
          /\ t \notin Long => near' = near \cup {t}
          /\ \A u \in near \ {t} : u \in near'
      BY Zenon, <1>11, <2>2 DEF CallbackReturns
    <3> QED
      BY Zenon, <1>0, <2>1, <3>1 DEF IInv, TypeOK
  <2>3. CASE ~(restart /\ state[t] = "INACTIVE")
    <3>1. state' = state /\ near' = near \ {t}
      BY Zenon, <1>11, <2>3 DEF CallbackReturns, IInv, TypeOK
    <3>2. state[t] # "WAITING"
      BY Zenon, <1>11 DEF CallbackReturns, IInv, ServiceLoop
    <3> QED
      BY Zenon, <1>0, <2>1, <3>1, <3>2 DEF IInv, TypeOK
  <2> QED
    BY Zenon, <2>2, <2>3
<1>12. CASE ProcessPending
  BY Zenon, <1>0, <1>12 DEF ProcessPending, IInv, TypeOK
<1>13. CASE EndTriggering
  BY Zenon, <1>0, <1>13 DEF EndTriggering
<1>14. CASE WaitOrContinue \/ WakeUp \/ UNCHANGED vars
  BY Zenon, <1>0, <1>14 DEF WaitOrContinue, WakeUp, vars
<1>15. ASSUME NEW t \in Timers, TimePasses(t) PROVE Known(s)'
  BY Zenon, <1>0, <1>15 DEF TimePasses
<1> QED
  BY Zenon, <1>1, <1>2, <1>3, <1>4, <1>5, <1>6, <1>7, <1>8, <1>9, <1>10, <1>11, <1>12, <1>13,
     <1>14, <1>15 DEF Next

(* A timer that go_ready() refuses to schedule again is never unknown to   *)
(* the event thread, unless the timed notify() of a HAVE_STRICT_REALTIME   *)
(* build gave up, or its interval is 24 h or more and do_timer_actions()   *)
(* erased it.                                                              *)
THEOREM TimersNotLost == Spec => []NoLostTimer
<1>1. Init => IInv /\ NoLostTimer
  BY Zenon, InitIInv DEF Init, NoLostTimer, ReadyIsOrdered, WaitingIsActive
<1>2. (IInv /\ NoLostTimer) /\ [Next]_vars => (IInv /\ NoLostTimer)'
  BY Zenon, NextIInv, NextNoLostTimer
<1> QED
  BY <1>1, <1>2, PTL DEF Spec

=============================================================================
