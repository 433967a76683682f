---------------------------- MODULE FlowController ----------------------------
(***************************************************************************)
(* A flow controller (rtps/flowcontrol/FlowControllerImpl.hpp): writers    *)
(* queue samples, the asynchronous thread delivers them.  Three kinds of   *)
(* mutexes are involved: mutex_ of the queues, changes_interested_mutex of *)
(* the lists of samples to be queued, and the mutex of each writer.        *)
(* changes_interested_mutex is held within one step only.  The             *)
(* asynchronous thread holds mutex_ from the choice of a sample to its     *)
(* delivery and must not wait for a writer, which holds its own mutex when *)
(* it asks for mutex_.                                                     *)
(*                                                                         *)
(* Each writer has one thread at a time in its mutex.  Samples are pairs   *)
(* of writer and sequence number; all have the same size.                  *)
(***************************************************************************)
EXTENDS Integers, SequencesExt, FiniteSetsExt

CONSTANTS
    Writers,        \* a set of numbers
    Deployments     \* a set of records with the fields:
                    \*   sched        FIFO, ROUND_ROBIN, HIGH_PRIORITY or
                    \*                PRIORITY_WITH_RESERVATION
                    \*   writers      the writers of the controller
                    \*   mode         sync, async or limited
                    \*   priority     of each writer; the lowest number comes first
                    \*   reservation  in bytes, of each writer
                    \*   limit        max_bytes_per_period
                    \*   size         of a sample; overhead: of headers, at most
                    \*   volatile     a delivered sample may be removed at once
                    \*   resends      writers whose samples are asked for again
                    \*   destroys     writers that may be destroyed
                    \*   may_fail     the network may refuse a sample
                    \*   watched      the sample that OwedIsSent is about
                    \*   samples      bound: samples of each writer

ASSUME FlowControllerAssumption ==
    /\ Writers \subseteq Nat \ {0}
    /\ \A d \in Deployments : d.mode = "limited" => d.limit > d.size

VARIABLES
    dep,            \* the deployment, fixed
    order,          \* writers_queue_ of the scheduler: registered writers
    next_writer,    \* next_writer_; 0: none
    queue,          \* queues of the scheduler: new_interested_, old_interested_, new_ones_, old_ones_
    linked,         \* samples with is_linked
    history,        \* samples in the histories of the writers
    count,          \* last sequence number of each writer
    unsent,         \* samples a reader is owed
    th,             \* the thread in each writer's mutex
    as,             \* the asynchronous thread
    force_wait,     \* force_wait_
    processed,      \* get_current_bytes_processed()
    consumed,       \* bytes charged to the reservation of each writer
    being,          \* writer_being_processed_; 0: none
    overtaken       \* history variable: samples of others sent while a writer's are queued

schedVars == <<order, next_writer, consumed, being>>
fcVars == <<dep, schedVars, queue, linked, history, count, unsent, th, as, force_wait, processed,
            overtaken>>

Key(w) ==
    CASE dep.sched = "FIFO" -> 0
      [] dep.sched = "HIGH_PRIORITY" -> dep.priority[w]
      [] OTHER -> w
Keys == {Key(w) : w \in Writers}
Lists == {"new_interested", "old_interested", "new", "old"}

AsyncAt(pc) == [pc |-> pc, c |-> <<0, 0>>, list |-> ""]
ThreadAt(pc) == [pc |-> pc, c |-> <<0, 0>>, list |-> "", then |-> ""]

Init ==
    /\ dep \in Deployments
    /\ order = <<>> /\ next_writer = 0
    /\ queue = [k \in Keys |-> [l \in Lists |-> <<>>]]
    /\ linked = {} /\ history = {} /\ unsent = {}
    /\ count = [w \in Writers |-> 0]
    /\ th = [w \in Writers |-> ThreadAt("unregistered")]
    /\ as = AsyncAt("top")
    /\ force_wait = FALSE /\ processed = 0
    /\ consumed = [w \in Writers |-> 0] /\ being = 0
    /\ overtaken = [w \in Writers |-> 0]

(* mutex_ is held over several steps by the asynchronous thread only. *)
MutexFree == as.pc \notin {"process", "deliver", "done"}
WriterMutexFree(w) == th[w].pc \in {"unregistered", "idle", "unregister", "gone"}
CanEnter(w) == th[w].pc = "idle" /\ ~(as.pc = "deliver" /\ as.c[1] = w)

(* writers_interested_in_remove *)
Interested == {w \in Writers : th[w].pc = "unlink"}

-----------------------------------------------------------------------------
(* The writers *)

(* register_writer() *)
RegisterWriter(w) ==
    /\ th[w].pc = "unregistered" /\ w \in dep.writers /\ MutexFree
    /\ order' = Append(order, w)
    /\ next_writer' = IF next_writer = 0 THEN w ELSE next_writer
    /\ th' = [th EXCEPT ![w] = ThreadAt("idle")]
    /\ UNCHANGED <<dep, consumed, being, queue, linked, history, count, unsent, as, force_wait,
                   processed, overtaken>>

(* unsent_change_added_to_history(), which calls add_new_sample(). *)
AddNewSample(w) ==
    LET c == <<w, count[w] + 1>>
    IN  /\ CanEnter(w) /\ count[w] < dep.samples[w]
        /\ count' = [count EXCEPT ![w] = @ + 1]
        /\ history' = history \cup {c} /\ unsent' = unsent \cup {c}
        /\ th' = [th EXCEPT ![w] = [pc |-> IF dep.mode = "sync" THEN "send" ELSE "enqueue", c |-> c,
                                    list |-> "new_interested", then |-> "idle"]]
        /\ UNCHANGED <<dep, schedVars, queue, linked, as, force_wait, processed, overtaken>>

(* The synchronous add_new_sample_impl() delivers, or stores the sample. *)
SyncDeliver(w) ==
    /\ th[w].pc = "send"
    /\ \/ unsent' = unsent \ {th[w].c} /\ th' = [th EXCEPT ![w] = ThreadAt("idle")]
       \/ unsent' = unsent /\ th' = [th EXCEPT ![w].pc = "enqueue"]
    /\ UNCHANGED <<dep, schedVars, queue, linked, history, count, as, force_wait, processed,
                   overtaken>>

(* A sample is to be sent again: add_old_sample_impl(), which looks at     *)
(* is_linked before it takes changes_interested_mutex.                     *)
AddOldSample(w) ==
    /\ CanEnter(w) /\ w \in dep.resends
    /\ \E c \in history :
          /\ c[1] = w /\ c \notin linked
          /\ unsent' = unsent \cup {c}
          /\ th' = [th EXCEPT ![w] = [pc |-> "enqueue", c |-> c, list |-> "old_interested",
                                      then |-> "idle"]]
    /\ UNCHANGED <<dep, schedVars, queue, linked, history, count, as, force_wait, processed,
                   overtaken>>

(* cv.notify_one() *)
Notify == as' = IF as.pc = "asleep" THEN [as EXCEPT !.pc = "woken"] ELSE as

(* Mutant: the thread is not told. *)
EnqueueSilently(w) ==
    LET c == th[w].c
    IN  /\ th[w].pc = "enqueue"
        /\ IF c \in linked THEN UNCHANGED <<queue, linked>>
           ELSE /\ queue' = [queue EXCEPT ![Key(w)][th[w].list] = Append(@, c)]
                /\ linked' = linked \cup {c}
        /\ th' = [th EXCEPT ![w] = ThreadAt("idle")]
        /\ UNCHANGED <<dep, schedVars, history, count, unsent, as, force_wait, processed, overtaken>>

(* add_change() of the list, and the notification of the thread. *)
Enqueue(w) ==
    LET c == th[w].c
    IN  /\ th[w].pc = "enqueue"
        /\ IF c \in linked THEN UNCHANGED <<queue, linked>>
           ELSE /\ queue' = [queue EXCEPT ![Key(w)][th[w].list] = Append(@, c)]
                /\ linked' = linked \cup {c}
        /\ Notify
        /\ th' = [th EXCEPT ![w] = ThreadAt("idle")]
        /\ UNCHANGED <<dep, schedVars, history, count, unsent, force_wait, processed, overtaken>>

(* change_removed_by_history(): remove_change_impl() of a sample that is   *)
(* linked waits for mutex_.                                                *)
RemoveChange(w) ==
    /\ CanEnter(w)
    /\ \E c \in history :
          /\ c[1] = w
          /\ IF c \in linked
             THEN /\ th' = [th EXCEPT ![w].pc = "unlink", ![w].c = c, ![w].then = "idle"]
                  /\ UNCHANGED <<history, unsent>>
             ELSE /\ history' = history \ {c} /\ unsent' = unsent \ {c}
                  /\ UNCHANGED th
    /\ UNCHANGED <<dep, schedVars, queue, linked, count, as, force_wait, processed, overtaken>>

(* The lists without c. *)
Without(c) == [k \in Keys |-> [l \in Lists |-> Remove(queue[k][l], c)]]

Queued(q, w) == q[Key(w)]["new"] # <<>> \/ q[Key(w)]["old"] # <<>>

(* Mutant: mutex_ is not taken. *)
UnlinkNoMutex(w) ==
    LET c == th[w].c
    IN  /\ th[w].pc = "unlink"
        /\ queue' = IF c \in linked THEN Without(c) ELSE queue
        /\ linked' = linked \ {c}
        /\ IF th[w].then = "idle" THEN history' = history \ {c} /\ unsent' = unsent \ {c}
           ELSE UNCHANGED <<history, unsent>>
        /\ th' = [th EXCEPT ![w] = ThreadAt(@.then)]
        /\ overtaken' = [overtaken EXCEPT ![w] = IF Queued(queue', w) THEN @ ELSE 0]
        /\ UNCHANGED <<dep, schedVars, count, as, force_wait, processed>>

(* remove_change_impl() has mutex_, and is_linked is looked at again. *)
Unlink(w) ==
    LET c == th[w].c
    IN  /\ th[w].pc = "unlink" /\ MutexFree
        /\ queue' = IF c \in linked THEN Without(c) ELSE queue
        /\ linked' = linked \ {c}
        /\ IF th[w].then = "idle" THEN history' = history \ {c} /\ unsent' = unsent \ {c}
           ELSE UNCHANGED <<history, unsent>>
        /\ th' = [th EXCEPT ![w] = ThreadAt(@.then)]
        /\ overtaken' = [overtaken EXCEPT ![w] = IF Queued(queue', w) THEN @ ELSE 0]
        /\ UNCHANGED <<dep, schedVars, count, as, force_wait, processed>>

(* local_actions_on_writer_removed() takes the writer's mutex, ... *)
LocalActionsOnWriterRemoved(w) ==
    /\ CanEnter(w) /\ w \in dep.destroys
    /\ th' = [th EXCEPT ![w] = ThreadAt("clear")]
    /\ unsent' = {c \in unsent : c[1] # w}
    /\ UNCHANGED <<dep, schedVars, queue, linked, history, count, as, force_wait, processed,
                   overtaken>>

(* ... takes the samples from the flow controller, releases them ... *)
ClearHistory(w) ==
    LET mine == {c \in linked : c[1] = w}
    IN  /\ th[w].pc = "clear"
        /\ IF mine # {}
           THEN /\ \E c \in mine :
                      th' = [th EXCEPT ![w].pc = "unlink", ![w].c = c, ![w].then = "clear"]
                /\ UNCHANGED history
           ELSE /\ th' = [th EXCEPT ![w] = ThreadAt("unregister")]
                /\ history' = {c \in history : c[1] # w}
        /\ UNCHANGED <<dep, schedVars, queue, linked, count, unsent, as, force_wait, processed,
                       overtaken>>

(* set_next_writer(): the writer after w, in a circle. *)
After(w) == order[(SelectInSeq(order, LAMBDA x : x = w) % Len(order)) + 1]

(* ... and calls unregister_writer(). *)
UnregisterWriter(w) ==
    /\ th[w].pc = "unregister" /\ MutexFree
    /\ order' = Remove(order, w)
    /\ next_writer' = CASE next_writer # w -> next_writer
                        [] next_writer = w /\ Len(order) > 1 -> After(w)
                        [] OTHER -> 0
    /\ th' = [th EXCEPT ![w] = ThreadAt("gone")]
    /\ UNCHANGED <<dep, consumed, being, queue, linked, history, count, unsent, as, force_wait,
                   processed, overtaken>>

-----------------------------------------------------------------------------
(* The schedulers *)

(* add_interested_changes_to_queue_nts() *)
AddInterested(q) ==
    [k \in Keys |-> [new_interested |-> <<>>, old_interested |-> <<>>,
                     new |-> q[k]["new"] \o q[k]["new_interested"],
                     old |-> q[k]["old"] \o q[k]["old_interested"]]]

NoChange == [c |-> <<0, 0>>, list |-> ""]

(* FlowQueue::get_next_change() *)
Head1(q, k) ==
    CASE q[k]["new"] # <<>> -> [c |-> Head(q[k]["new"]), list |-> "new"]
      [] q[k]["new"] = <<>> /\ q[k]["old"] # <<>> -> [c |-> Head(q[k]["old"]), list |-> "old"]
      [] OTHER -> NoChange

(* The writers in the circular order that starts with next_writer. *)
Turn(w) ==
    LET i(x) == SelectInSeq(order, LAMBDA y : y = x)
    IN  (i(w) - i(next_writer)) % Len(order)

(* The writers by priority, and by registration within a priority. *)
Before(v, w) ==
    \/ dep.priority[v] < dep.priority[w]
    \/ /\ dep.priority[v] = dep.priority[w]
       /\ SelectInSeq(order, LAMBDA x : x = v) < SelectInSeq(order, LAMBDA x : x = w)
Foremost(S) == CHOOSE v \in S : \A w \in S \ {v} : Before(v, w)

HasRoom(w) == dep.reservation[w] > consumed[w] + dep.size

(* get_next_change_nts() of the four schedulers: the sample, and what the  *)
(* scheduler remembers.                                                    *)
Ready(q) == {w \in ToSet(order) : Queued(q, w)}

FifoNext(q) == [head |-> Head1(q, 0), next |-> next_writer, being |-> being]

HighPriorityNext(q) ==
    LET busy == {k \in Keys : Head1(q, k) # NoChange}
    IN  [head |-> IF busy = {} THEN NoChange ELSE Head1(q, Min(busy)),
         next |-> next_writer, being |-> being]

RoundRobinNext(q) ==
    LET rr == CHOOSE w \in Ready(q) : \A v \in Ready(q) : Turn(w) <= Turn(v)
    IN  [head |-> IF Ready(q) = {} THEN NoChange ELSE Head1(q, rr),
         next |-> IF Ready(q) = {} THEN next_writer ELSE rr, being |-> being]

ReservationNext(q) ==
    LET reserved == {w \in Ready(q) : HasRoom(w)}
    IN  [head |-> CASE reserved # {} -> Head1(q, Foremost(reserved))
                    [] reserved = {} /\ Ready(q) # {} -> Head1(q, Foremost(Ready(q)))
                    [] OTHER -> NoChange,
         next |-> next_writer,
         being |-> IF reserved # {} THEN Foremost(reserved) ELSE being]

GetNextChange(q) ==
    CASE dep.sched = "FIFO" -> FifoNext(q)
      [] dep.sched = "HIGH_PRIORITY" -> HighPriorityNext(q)
      [] dep.sched = "ROUND_ROBIN" -> RoundRobinNext(q)
      [] dep.sched = "PRIORITY_WITH_RESERVATION" -> ReservationNext(q)

(* Mutant: the round robin stays at a writer that has samples. *)
WorkDoneStays ==
    /\ next_writer' = next_writer
    /\ consumed' = IF being \in ToSet(order) THEN [consumed EXCEPT ![being] = @ + dep.size]
                   ELSE consumed
    /\ being' = 0

(* work_done() of the schedulers *)
WorkDone ==
    /\ next_writer' = IF dep.sched = "ROUND_ROBIN" THEN After(next_writer) ELSE next_writer
    /\ consumed' = IF being \in ToSet(order) THEN [consumed EXCEPT ![being] = @ + dep.size]
                   ELSE consumed
    /\ being' = 0

-----------------------------------------------------------------------------
(* The asynchronous thread, run() *)

(* Chooses the next sample; without one the thread goes to pc. *)
Choose(q, pc) ==
    LET n == GetNextChange(q)
    IN  /\ as' = [pc |-> IF n.head = NoChange THEN pc ELSE "process",
                  c |-> n.head.c, list |-> n.head.list]
        /\ next_writer' = n.next /\ being' = n.being

(* The condition of the loop that waits. *)
LookForChange ==
    /\ queue' = AddInterested(queue)
    /\ IF force_wait THEN as' = AsyncAt("asleep") /\ UNCHANGED <<next_writer, being>>
       ELSE Choose(queue', "asleep")

(* The outer loop: writers that want to remove a sample go first. *)
TakeTurn ==
    /\ as.pc = "top" /\ Interested = {}
    /\ LookForChange
    /\ UNCHANGED <<dep, order, consumed, linked, history, count, unsent, th, force_wait, processed,
                   overtaken>>

(* wait() ends because a sample was added. *)
Woken ==
    /\ as.pc = "woken"
    /\ LookForChange
    /\ UNCHANGED <<dep, order, consumed, linked, history, count, unsent, th, force_wait, processed,
                   overtaken>>

(* wait() ends because the period has passed: all limits are reset, and    *)
(* then the thread looks again.                                            *)
PeriodEnds ==
    /\ as.pc = "asleep" /\ dep.mode = "limited"
    /\ force_wait' = FALSE /\ processed' = 0
    /\ as' = [as EXCEPT !.pc = "reset"]
    /\ UNCHANGED <<dep, schedVars, queue, linked, history, count, unsent, th, overtaken>>

TriggerBandwidthLimitReset ==
    /\ as.pc = "reset"
    /\ as' = [as EXCEPT !.pc = "woken"]
    /\ consumed' = [w \in Writers |-> 0]
    /\ UNCHANGED <<dep, order, next_writer, being, queue, linked, history, count, unsent, th,
                   force_wait, processed, overtaken>>

(* fast_check_is_there_slot_for_change(): unsigned arithmetic, so the      *)
(* difference is huge when more than the limit was sent.                   *)
FastCheck ==
    dep.mode # "limited" \/ processed > dep.limit \/ dep.limit - processed > dep.size

(* Mutant: lock() instead of try_lock(). *)
GiveUpWithoutRoom ==
    /\ as.pc = "process" /\ ~FastCheck
    /\ force_wait' = TRUE
    /\ as' = AsyncAt("top")
    /\ UNCHANGED <<dep, schedVars, queue, linked, history, count, unsent, th, processed, overtaken>>

(* The sample does not fit, or its writer is busy. *)
GiveUp ==
    LET w == as.c[1]
    IN  /\ as.pc = "process" /\ ~(FastCheck /\ WriterMutexFree(w))
        /\ force_wait' = (force_wait \/ ~FastCheck)
        /\ as' = AsyncAt("top")
        /\ UNCHANGED <<dep, schedVars, queue, linked, history, count, unsent, th, processed,
                       overtaken>>

(* The sample is taken from its list before it is delivered. *)
StartDelivery ==
    LET c == as.c
    IN  /\ as.pc = "process" /\ FastCheck /\ WriterMutexFree(c[1])
        /\ queue' = [queue EXCEPT ![Key(c[1])][as.list] = Tail(@)]
        /\ linked' = linked \ {c}
        /\ as' = [as EXCEPT !.pc = "deliver"]
        /\ UNCHANGED <<dep, schedVars, history, count, unsent, th, force_wait, processed, overtaken>>

(* Mutant: without the test that the limit has been reached. *)
ExceedsLimitWraps ==
    dep.mode = "limited" /\ dep.limit >= processed /\ dep.size > dep.limit - processed

(* data_exceeds_limitation() of the message group *)
ExceedsLimit ==
    dep.mode = "limited" /\ (dep.limit <= processed \/ dep.size > dep.limit - processed)

(* deliver_sample_nts() returns DELIVERED; the writer may have removed the *)
(* sample.  Then the mutex of the writer is released, and work_done().     *)
Delivered ==
    LET w == as.c[1]
    IN  /\ as.pc = "deliver" /\ ~ExceedsLimit
        /\ \E o \in 0..dep.overhead :
              processed' = IF dep.mode = "limited" THEN processed + dep.size + o ELSE 0
        /\ unsent' = unsent \ {as.c}
        /\ \E gone \in {FALSE, dep.volatile} : history' = IF gone THEN history \ {as.c} ELSE history
        /\ WorkDone
        /\ as' = AsyncAt("done")
        /\ overtaken' = [v \in Writers |->
               IF dep.sched = "ROUND_ROBIN" /\ v # w /\ Queued(queue, v) THEN overtaken[v] + 1 ELSE 0]
        /\ UNCHANGED <<dep, order, queue, linked, count, th, force_wait>>

(* With mutex_ still held: the next sample, unless a writer wants to       *)
(* remove one.                                                             *)
NextChange ==
    /\ as.pc = "done"
    /\ IF Interested # {} THEN as' = AsyncAt("top") /\ UNCHANGED <<queue, next_writer, being>>
       ELSE queue' = AddInterested(queue) /\ Choose(queue', "top")
    /\ UNCHANGED <<dep, order, consumed, linked, history, count, unsent, th, force_wait, processed,
                   overtaken>>

(* The sample is put back where it was, and after EXCEEDED_LIMIT the       *)
(* thread waits for the next period.                                       *)
NotDelivered ==
    LET c == as.c
    IN  /\ as.pc = "deliver" /\ (ExceedsLimit \/ dep.may_fail)
        /\ queue' = [queue EXCEPT ![Key(c[1])][as.list] = <<c>> \o @]
        /\ linked' = linked \cup {c}
        /\ force_wait' = (force_wait \/ ExceedsLimit)
        /\ as' = AsyncAt("top")
        /\ UNCHANGED <<dep, schedVars, history, count, unsent, th, processed, overtaken>>

-----------------------------------------------------------------------------
WriterStep(w) ==
    SyncDeliver(w) \/ Enqueue(w) \/ Unlink(w) \/ ClearHistory(w) \/ UnregisterWriter(w)
AsyncStep ==
    \/ TakeTurn \/ Woken \/ PeriodEnds \/ TriggerBandwidthLimitReset
    \/ GiveUp \/ NotDelivered \/ NextChange

Next ==
    \/ \E w \in Writers :
          \/ RegisterWriter(w) \/ AddNewSample(w) \/ AddOldSample(w) \/ RemoveChange(w)
          \/ LocalActionsOnWriterRemoved(w) \/ WriterStep(w)
    \/ AsyncStep \/ StartDelivery \/ Delivered

Spec == Init /\ [][Next]_fcVars

(* The threads go on, an operation that is begun ends, and a writer's      *)
(* mutex and the network are not for ever busy when the thread tries.      *)
FairSpec ==
    /\ Spec
    /\ WF_fcVars(AsyncStep) /\ SF_fcVars(StartDelivery) /\ SF_fcVars(Delivered)
    /\ \A w \in Writers : SF_fcVars(WriterStep(w))

-----------------------------------------------------------------------------
(* A writer is registered once, the position of the round robin is a       *)
(* registered writer or nobody, and the thread has a sample exactly when   *)
(* it processes or delivers one.                                           *)
TypeOK ==
    /\ IsInjective(order) /\ ToSet(order) \subseteq dep.writers
    /\ IF order = <<>> THEN next_writer = 0 ELSE next_writer \in ToSet(order)
    /\ as.pc \in {"process", "deliver"} <=> as.c # <<0, 0>>
    /\ being \in dep.writers \cup {0}

(* is_linked of a sample says that it is in exactly one list, once, in the *)
(* queue of its writer: the lists are intrusive, a second insertion would  *)
(* corrupt them.                                                           *)
LinkedExact ==
    /\ linked = UNION {ToSet(queue[k][l]) : k \in Keys, l \in Lists}
    /\ Cardinality(linked) =
          MapThenSumSet(LAMBDA p : Len(queue[p[1]][p[2]]), Keys \X Lists)
    /\ \A k \in Keys, l \in Lists : \A c \in ToSet(queue[k][l]) : Key(c[1]) = k

(* Samples that were removed are in no list and not in the hands of the    *)
(* asynchronous thread, and a writer leaves nothing behind when it is      *)
(* unregistered: asserted by ~FlowQueue() and unregister_writer().         *)
RemovedIsUnlinked ==
    /\ \A k \in Keys, l \in Lists : \A i \in DOMAIN queue[k][l] : queue[k][l][i] \in history
    /\ as.pc \in {"process", "deliver"} => as.c \in history

(* A sample a reader is owed is in a list, or in the hands of a thread     *)
(* that delivers it or puts it in a list.                                  *)
OwedIsQueued ==
    \A c \in unsent :
        \/ c \in linked
        \/ as.pc = "deliver" /\ as.c = c
        \/ th[c[1]].pc \in {"send", "enqueue"} /\ th[c[1]].c = c

(* Round robin: while a writer has queued samples, each other writer sends *)
(* at most one.                                                            *)
RoundRobinFair ==
    \A w \in Writers : overtaken[w] < Cardinality(dep.writers)

(* The limit of a period is exceeded by the headers of one message at most, *)
(* also when the check of the free bytes wraps around.                     *)
LimitHolds == dep.mode = "limited" => processed <= dep.limit + dep.overhead

(* The asynchronous thread does not sleep while there is a sample it may   *)
(* send.                                                                   *)
NoLostWakeup ==
    as.pc = "asleep" /\ ~force_wait => linked = {}

(* A sample that is owed, looked at for one sample, is sent or removed,    *)
(* with the schedulers that do not starve a writer: though other writers   *)
(* have theirs sent again and again, though the writer holds its mutex     *)
(* whenever the thread tries it first, and though removals go first.       *)
OwedIsSent ==
    []<>(dep.sched \in {"FIFO", "ROUND_ROBIN"} => dep.watched \notin unsent)

(* The intrusive lists hold each linked sample once, and only samples of   *)
(* the histories: a removal leaves no pointer behind.                      *)
ListsExact == TypeOK /\ LinkedExact /\ RemovedIsUnlinked

(* No sample is forgotten: what is owed is in a list or in the hands of a  *)
(* thread, and the asynchronous thread does not sleep over a list.         *)
NothingForgotten == OwedIsQueued /\ NoLostWakeup

=============================================================================
