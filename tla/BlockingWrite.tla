---------------------------- MODULE BlockingWrite ----------------------------
(***************************************************************************)
(* Publishing threads that share one reliable KEEP_ALL DataWriter of a     *)
(* keyed topic and block in write(): DataWriterHistory::prepare_change()   *)
(* waits in StatefulWriter::try_remove_change() for room in the history    *)
(* and in wait_for_acknowledgement() for room in its instance.  Both waits *)
(* share the condition variable may_remove_change_cond_ and release the    *)
(* writer's mutex.  Other threads wait in wait_for_all_acked(), with a     *)
(* mutex, a condition variable and a flag of its own.  The matched readers *)
(* are abstracted to acked, the sequence number up to which all of them    *)
(* have acknowledged.                                                      *)
(***************************************************************************)
EXTENDS Integers, Sequences, FiniteSetsExt

CONSTANTS
    Publishers,             \* threads calling write()
    Keys,                   \* instances of the topic
    Waiters,                \* threads calling wait_for_all_acked()
    MaxSeq,                 \* bound on the samples written
    Deployments             \* a set of records with the fields:
                            \*   publishers, waiters   the threads there are
                            \*   max_samples, max_samples_per_instance
                            \*   may_timeout           the blocking times are finite
                            \*   lifespan              samples expire
                            \*   writes                bound on the samples written

ASSUME BlockingAssumption ==
    /\ MaxSeq \in Nat /\ Keys # {} /\ IsFiniteSet(Keys) /\ IsFiniteSet(Publishers)
    /\ \A d \in Deployments :
          /\ d.publishers \subseteq Publishers /\ d.waiters \subseteq Waiters
          /\ d.max_samples_per_instance \in Nat \ {0} /\ d.writes \in 0 .. MaxSeq
          /\ d.max_samples \in Nat /\ d.max_samples >= Cardinality(Keys) * d.max_samples_per_instance
          /\ d.may_timeout \in BOOLEAN /\ d.lifespan \in BOOLEAN

VARIABLES
    dep,                    \* the deployment, fixed
    history,                \* sequence numbers in m_changes
    last_seq,               \* m_lastCacheChangeSeqNum
    instances,              \* cache_changes of each instance, in order
    acked,                  \* the lowest changes_low_mark of the readers
    next_all_acked,         \* next_all_acked_notify_sequence_
    may_remove,             \* may_remove_change_
    pc,                     \* where each publisher is
    key,                    \* the instance it writes
    seq_to_remove,          \* the sample whose acknowledgement it awaits
    signalled,              \* waiting publishers the condition variable woke
    all_acked,              \* all_acked_
    waiting,                \* threads in wait_for_all_acked()
    told,                   \* those that all_acked_cond_ woke
    acked_since             \* history variable: those since whose call all was acknowledged

ackVars == <<all_acked, waiting, told, acked_since>>
vars == <<dep, history, last_seq, instances, acked, next_all_acked, may_remove,
          pc, key, seq_to_remove, signalled, ackVars>>

Waiting == {"try_remove", "await_ack"}
Unlocked == \A p \in Publishers : pc[p] \in {"idle"} \cup Waiting
IsFull == Cardinality(history) >= dep.max_samples
MinSeq == Min(history)

(* is_acked_by_all(); a removed sample counts as acknowledged. *)
IsAckedByAll(seq) == seq < next_all_acked \/ seq <= acked \/ seq \notin history

Init ==
    /\ dep \in Deployments
    /\ history = {} /\ last_seq = 0
    /\ instances = [k \in Keys |-> <<>>]
    /\ acked = 0 /\ next_all_acked = 1 /\ may_remove = 0
    /\ pc = [p \in Publishers |-> "idle"]
    /\ key = [p \in Publishers |-> CHOOSE k \in Keys : TRUE]
    /\ seq_to_remove = [p \in Publishers |-> 0]
    /\ signalled = {}
    /\ all_acked = FALSE /\ waiting = {} /\ told = {} /\ acked_since = {}

(* No reader has changes: has_changes() once n is acknowledged and h left. *)
AllAcked(h, n) == \A seq \in h : seq <= n

NoteAllAcked == acked_since' = IF AllAcked(history', acked') THEN waiting ELSE acked_since

Goto(p, place) == pc' = [pc EXCEPT ![p] = place]

(* may_remove_change_cond_.notify_one(), by threads that are awake. *)
NotifyOne(awake) ==
    LET asleep == {q \in Publishers : pc[q] \in Waiting} \ (signalled \cup awake)
        woken == signalled \ awake
    IN  IF asleep = {} THEN signalled' = woken
        ELSE \E q \in asleep : signalled' = woken \cup {q}

(* The cache_changes of an instance without their i-th. *)
Erase(cache_changes, i) ==
    [j \in 1..(Len(cache_changes) - 1) |-> cache_changes[IF j < i THEN j ELSE j + 1]]

(* The loop of remove_change_pub() over the instance of the sample. *)
EraseChange(seq) ==
    \E k \in Keys : \E i \in DOMAIN instances[k] :
        instances[k][i] = seq /\ instances' = [instances EXCEPT ![k] = Erase(@, i)]

(* Mutant: the instance keeps the removed sample. *)
RemoveChangeKeepsInstance(seq, awake) ==
    /\ history' = history \ {seq}
    /\ acked' = IF seq = acked + 1 THEN seq ELSE acked
    /\ instances' = instances
    /\ may_remove' = 2
    /\ NotifyOne(awake)
    /\ NoteAllAcked

(* Mutant: nobody is told of the removal. *)
RemoveChangeSilent(seq, awake) ==
    /\ history' = history \ {seq}
    /\ acked' = IF seq = acked + 1 THEN seq ELSE acked
    /\ EraseChange(seq)
    /\ may_remove' = 2
    /\ signalled' = signalled \ awake
    /\ NoteAllAcked

(* remove_change_pub() and change_removed_by_history(), which acknowledges *)
(* the sample if it is the next the readers owe an acknowledgement of.     *)
RemoveChange(seq, awake) ==
    /\ history' = history \ {seq}
    /\ acked' = IF seq = acked + 1 THEN seq ELSE acked
    /\ EraseChange(seq)
    /\ may_remove' = 2
    /\ NotifyOne(awake)
    /\ NoteAllAcked

-----------------------------------------------------------------------------
(* write() takes the mutex of the writer; MaxSeq bounds the calls.         *)
Write(p, k) ==
    /\ Unlocked /\ pc[p] = "idle"
    /\ last_seq + Cardinality({q \in Publishers : pc[q] # "idle"}) < dep.writes
    /\ key' = [key EXCEPT ![p] = k]
    /\ Goto(p, IF IsFull THEN "full" ELSE "room")
    /\ UNCHANGED <<dep, ackVars, history, last_seq, instances, acked, next_all_acked,
                   may_remove, seq_to_remove, signalled>>

(* try_remove_change(): the oldest sample is known to be acknowledged. *)
RemoveAcked(p) ==
    /\ pc[p] = "full" /\ next_all_acked - 1 >= MinSeq
    /\ RemoveChange(MinSeq, {p})
    /\ Goto(p, "room")
    /\ UNCHANGED <<dep, all_acked, waiting, told, last_seq, next_all_acked, key, seq_to_remove>>

(* Mutant: may_remove_change_ still tells of an earlier removal. *)
AwaitRemovalNoReset(p) ==
    /\ pc[p] = "full" /\ next_all_acked - 1 < MinSeq
    /\ Goto(p, IF may_remove > 0 THEN "room" ELSE "try_remove")
    /\ UNCHANGED <<dep, ackVars, history, last_seq, instances, acked, next_all_acked,
                   may_remove, key, seq_to_remove, signalled>>

(* try_remove_change(): wait until may_remove_change_ > 0. *)
AwaitRemoval(p) ==
    /\ pc[p] = "full" /\ next_all_acked - 1 < MinSeq
    /\ may_remove' = 0
    /\ Goto(p, "try_remove")
    /\ UNCHANGED <<dep, ackVars, history, last_seq, instances, acked, next_all_acked, key,
                   seq_to_remove, signalled>>

(* Mutant: whoever is woken removes the oldest sample. *)
EndRemovalWaitAlwaysRemoves(p) ==
    /\ Unlocked /\ pc[p] = "try_remove" /\ (p \in signalled \/ dep.may_timeout)
    /\ may_remove > 0 /\ history # {}
    /\ RemoveChange(MinSeq, {p})
    /\ Goto(p, "room")
    /\ UNCHANGED <<dep, all_acked, waiting, told, last_seq, next_all_acked, key, seq_to_remove>>

(* The wait ends: 1, the oldest sample is acknowledged, remove it; 2, a    *)
(* sample has been removed already.                                        *)
EndRemovalWait(p) ==
    /\ Unlocked /\ pc[p] = "try_remove" /\ (p \in signalled \/ dep.may_timeout)
    /\ \/ may_remove = 1 /\ RemoveChange(MinSeq, {p})
       \/ /\ may_remove = 2
          /\ signalled' = signalled \ {p}
          /\ UNCHANGED <<history, acked, instances, may_remove, acked_since>>
    /\ Goto(p, "room")
    /\ UNCHANGED <<dep, all_acked, waiting, told, last_seq, next_all_acked, key, seq_to_remove>>

(* Woken although its predicate is false, a thread sleeps again. *)
SleepAgain(p) ==
    /\ Unlocked /\ p \in signalled
    /\ \/ pc[p] = "try_remove" /\ may_remove = 0
       \/ pc[p] = "await_ack" /\ ~IsAckedByAll(seq_to_remove[p])
    /\ signalled' = signalled \ {p}
    /\ UNCHANGED <<dep, ackVars, history, last_seq, instances, acked, next_all_acked,
                   may_remove, pc, key, seq_to_remove>>

(* max_blocking_time passes with the predicate false: RETCODE_TIMEOUT. *)
WriteTimesOut(p) ==
    /\ dep.may_timeout /\ Unlocked
    /\ \/ pc[p] = "try_remove" /\ may_remove = 0
       \/ pc[p] = "await_ack" /\ ~IsAckedByAll(seq_to_remove[p])
    /\ Goto(p, "idle")
    /\ signalled' = signalled \ {p}
    /\ UNCHANGED <<dep, ackVars, history, last_seq, instances, acked, next_all_acked,
                   may_remove, key, seq_to_remove>>

(* assert(!m_isHistoryFull), which ends the program when it fails, and the *)
(* look at the instance.                                                   *)
CheckInstance(p) ==
    /\ pc[p] = "retry" \/ (pc[p] = "room" /\ ~IsFull)
    /\ IF Len(instances[key[p]]) < dep.max_samples_per_instance
       THEN Goto(p, "add") /\ UNCHANGED seq_to_remove
       ELSE /\ seq_to_remove' = [seq_to_remove EXCEPT ![p] = Head(instances[key[p]])]
            /\ Goto(p, IF IsAckedByAll(Head(instances[key[p]])) THEN "acked" ELSE "await_ack")
    /\ UNCHANGED <<dep, ackVars, history, last_seq, instances, acked, next_all_acked,
                   may_remove, key, signalled>>

(* wait_for_acknowledgement() returns. *)
EndAckWait(p) ==
    /\ Unlocked /\ pc[p] = "await_ack" /\ (p \in signalled \/ dep.may_timeout)
    /\ IsAckedByAll(seq_to_remove[p])
    /\ Goto(p, "acked")
    /\ signalled' = signalled \ {p}
    /\ UNCHANGED <<dep, ackVars, history, last_seq, instances, acked, next_all_acked,
                   may_remove, key, seq_to_remove>>

(* The acknowledged sample is removed, unless someone did meanwhile. *)
RemoveFromInstance(p) ==
    /\ pc[p] = "acked"
    /\ IF instances[key[p]] # <<>> /\ Head(instances[key[p]]) = seq_to_remove[p]
       THEN RemoveChange(seq_to_remove[p], {p}) /\ Goto(p, "add")
       ELSE /\ Goto(p, "retry")
            /\ UNCHANGED <<history, acked, instances, may_remove, signalled, acked_since>>
    /\ UNCHANGED <<dep, all_acked, waiting, told, last_seq, next_all_acked, key, seq_to_remove>>

(* prepare_and_add_change() *)
AddChange(p) ==
    /\ pc[p] = "add"
    /\ last_seq' = last_seq + 1
    /\ history' = history \cup {last_seq'}
    /\ instances' = [instances EXCEPT ![key[p]] = Append(@, last_seq')]
    /\ Goto(p, "idle")
    /\ UNCHANGED <<dep, ackVars, acked, next_all_acked, may_remove, key, seq_to_remove, signalled>>

(* check_acked_status() after an ACKNACK, or a delivery, that leaves the   *)
(* lowest low mark of the readers at n.  It always notifies: the history   *)
(* has samples, or all are acknowledged.                                   *)
CheckAckedStatus(n) ==
    /\ Unlocked /\ n >= acked /\ n <= last_seq
    /\ acked' = n
    /\ next_all_acked' = IF AllAcked(history, n) THEN last_seq + 1
                         ELSE IF next_all_acked <= n THEN n + 1 ELSE next_all_acked
    /\ may_remove' = IF history # {} /\ n >= MinSeq THEN 1 ELSE may_remove
    /\ NotifyOne({})
    /\ all_acked' = (all_acked \/ AllAcked(history, n))
    /\ told' = IF AllAcked(history, n) THEN waiting ELSE told
    /\ UNCHANGED <<dep, waiting, history, last_seq, instances, pc, key, seq_to_remove>>
    /\ NoteAllAcked

(* Mutant: all_acked_ keeps the value of an earlier acknowledgement. *)
WaitForAllAckedStale(w) ==
    /\ Unlocked /\ w \in dep.waiters \ waiting
    /\ all_acked' = (all_acked \/ AllAcked(history, acked))
    /\ waiting' = IF AllAcked(history, acked) THEN waiting ELSE waiting \cup {w}
    /\ acked_since' = IF AllAcked(history, acked) THEN waiting ELSE acked_since
    /\ UNCHANGED <<dep, history, last_seq, instances, acked, next_all_acked, may_remove, pc, key,
                   seq_to_remove, signalled, told>>

(* wait_for_all_acked() computes all_acked_ anew, and waits unless it is   *)
(* true.                                                                   *)
WaitForAllAcked(w) ==
    /\ Unlocked /\ w \in dep.waiters \ waiting
    /\ all_acked' = AllAcked(history, acked)
    /\ waiting' = IF all_acked' THEN waiting ELSE waiting \cup {w}
    /\ acked_since' = IF all_acked' THEN waiting ELSE acked_since
    /\ UNCHANGED <<dep, history, last_seq, instances, acked, next_all_acked, may_remove, pc, key,
                   seq_to_remove, signalled, told>>

(* The wait ends: wait_for_all_acked() returns true. *)
AllAckedReturns(w) ==
    /\ w \in waiting /\ all_acked /\ (w \in told \/ dep.may_timeout)
    /\ waiting' = waiting \ {w} /\ told' = told \ {w} /\ acked_since' = acked_since \ {w}
    /\ UNCHANGED <<dep, history, last_seq, instances, acked, next_all_acked, may_remove, pc, key,
                   seq_to_remove, signalled, all_acked>>

(* Woken, but another caller has set all_acked_ to false meanwhile; or     *)
(* max_wait passes.                                                        *)
AllAckedNotYet(w) ==
    /\ w \in waiting /\ ~all_acked
    /\ \/ w \in told /\ told' = told \ {w} /\ UNCHANGED <<waiting, acked_since>>
       \/ /\ dep.may_timeout
          /\ waiting' = waiting \ {w} /\ told' = told \ {w} /\ acked_since' = acked_since \ {w}
    /\ UNCHANGED <<dep, history, last_seq, instances, acked, next_all_acked, may_remove, pc, key,
                   seq_to_remove, signalled, all_acked>>

(* One iteration of the loop of lifespan_expired(), which removes the      *)
(* oldest samples; several in a row are several steps.                     *)
LifespanExpired ==
    /\ dep.lifespan /\ Unlocked /\ history # {}
    /\ RemoveChange(MinSeq, {})
    /\ UNCHANGED <<dep, all_acked, waiting, told, last_seq, next_all_acked, pc, key, seq_to_remove>>

Next ==
    \/ \E p \in dep.publishers :
          \/ \E k \in Keys : Write(p, k)
          \/ RemoveAcked(p)
          \/ AwaitRemoval(p)
          \/ EndRemovalWait(p)
          \/ SleepAgain(p)
          \/ WriteTimesOut(p)
          \/ CheckInstance(p)
          \/ EndAckWait(p)
          \/ RemoveFromInstance(p)
          \/ AddChange(p)
    \/ \E n \in 0 .. MaxSeq : CheckAckedStatus(n)
    \/ \E w \in Waiters : WaitForAllAcked(w) \/ AllAckedReturns(w) \/ AllAckedNotYet(w)
    \/ LifespanExpired

Spec == Init /\ [][Next]_vars

(* A thread that holds the mutex goes on, and one that was woken gets it.  *)
PublisherStep(p) ==
    \/ RemoveAcked(p) \/ AwaitRemoval(p) \/ EndRemovalWait(p) \/ SleepAgain(p)
    \/ CheckInstance(p) \/ EndAckWait(p) \/ RemoveFromInstance(p) \/ AddChange(p)

(* max_blocking_time, if finite, passes. *)
WaitEnds(p) == EndRemovalWait(p) \/ EndAckWait(p) \/ WriteTimesOut(p)

(* The periodic heartbeat goes on while a sample is not acknowledged, so   *)
(* ACKNACKs keep coming.                                                   *)
AcknackRepeats == ~AllAcked(history, acked) /\ CheckAckedStatus(acked)

FairSpec ==
    /\ Spec
    /\ WF_vars(AcknackRepeats)
    /\ \A p \in Publishers : SF_vars(PublisherStep(p)) /\ SF_vars(WaitEnds(p))
    /\ \A w \in Waiters : WF_vars(AllAckedReturns(w))

-----------------------------------------------------------------------------
(* Every variable has its type; the writer's mutex has one owner.          *)
TypeOK ==
    /\ history \subseteq 1 .. last_seq /\ last_seq \in 0 .. dep.writes
    /\ Cardinality(history) <= dep.max_samples
    /\ \A k \in Keys : instances[k] \in Seq(history)
    /\ acked \in 0 .. last_seq /\ next_all_acked \in 1 .. last_seq + 1
    /\ may_remove \in 0 .. 2
    /\ \A p, q \in Publishers : p # q =>
          {pc[p], pc[q]} \cap ({"idle"} \cup Waiting) # {}
    /\ signalled \subseteq {p \in Publishers : pc[p] \in Waiting}

(* assert(!m_isHistoryFull) of prepare_change(): a thread that came through *)
(* try_remove_change() finds room in the history.  Two threads only get    *)
(* there at a time if each has a payload, with extra_samples of 2 or more. *)
RoomAfterRemove == \A p \in Publishers : pc[p] = "room" => ~IsFull

(* The same, for a writer with one publishing thread.                      *)
RoomForOne == Cardinality(dep.publishers) = 1 => RoomAfterRemove

(* The cache_changes of the instances and m_changes hold the same samples. *)
InstancesMatchHistory ==
    /\ UNION {Range(instances[k]) : k \in Keys} = history
    /\ \A k, l \in Keys : k # l => Range(instances[k]) \cap Range(instances[l]) = {}

(* KEEP_ALL: a thread that needs room only removes a sample that all the   *)
(* readers acknowledged, whoever else removes or acknowledges samples      *)
(* between its wake-up and its turn to run.  The readers are fixed here    *)
(* and acked only grows; a durable late joiner, which breaks it, is the    *)
(* case of RemovedIsAcked of ReliableRTPS.                                 *)
RemovedIsAcked ==
    [][\A seq \in history \ history' : seq <= acked \/ LifespanExpired]_vars

(* A thread does not wait for ever: wait_for_acknowledgement() "waits till *)
(* a change has been acknowledged", and try_remove_change() until the      *)
(* oldest sample is acknowledged or some sample was removed.               *)
WaitedForHappened(p) ==
    \/ pc[p] = "await_ack" /\ IsAckedByAll(seq_to_remove[p])
    \/ pc[p] = "try_remove" /\ may_remove > 0

WaitEndsInTime == \A p \in Publishers : WaitedForHappened(p) ~> pc[p] \notin Waiting

(* wait_for_all_acked() returns true only if at some time since its call   *)
(* no reader had a sample to acknowledge, though all_acked_ is shared by   *)
(* all callers and is not reset by a write.                                *)
TrueMeansAcked == all_acked => waiting \subseteq acked_since

(* wait_for_all_acked() returns once all is acknowledged, if it has one    *)
(* caller and no sample expires; otherwise its timeout ends the wait.      *)
AllAckedEndsWait ==
    (AllAcked(history, acked) /\ Cardinality(dep.waiters) = 1 /\ ~dep.lifespan) ~> waiting = {}

(* The history, its instances and the threads waiting on it agree, at      *)
(* every point where another thread may get the mutex.                     *)
StateConsistent == TypeOK /\ InstancesMatchHistory

(* Nobody waits for ever for what has happened: neither a publisher in     *)
(* prepare_change() nor a caller of wait_for_all_acked().                  *)
WaitsEnd == WaitEndsInTime /\ AllAckedEndsWait

=============================================================================
