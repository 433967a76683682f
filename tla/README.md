# Verification of Fast DDS

TLA+ models of the parts of Fast DDS whose correctness depends on orders of
events that tests hardly reach: the reliable RTPS protocol and the timers it
runs on, publishers that block, flow controllers, the shared-memory transport,
data sharing, and persistent endpoints that crash.  TLC checks the models on
small instances; TLAPS proves the safety properties of the protocol, of the
timers, of blocking publishers and of persistent endpoints for instances of any
size, and that the protocol implements an abstract reliable delivery.

Paths below are relative to `src/src/cpp/`.

## The system

Fast DDS implements DDS on top of RTPS.  A `DataWriter` puts samples, numbered
from 1, in a `WriterHistory`; its RTPS writer sends them to the readers that
discovery matched; an RTPS reader puts what it receives in a `ReaderHistory`
and notifies the user in order.

| part | state | operations | what is hard |
|---|---|---|---|
| `rtps/writer/StatefulWriter`, `ReaderProxy` | history, per reader a low mark and the status of each sample above it, timers, `next_all_acked_notify_sequence_` | add and remove a sample, deliver, heartbeats, ACKNACKs, match, unmatch | stale and repeated ACKNACKs, removal between request and answer, holes of the history, a send that fails half way |
| `rtps/reader/StatefulReader`, `WriterProxy` | low mark, highest number heard of, numbers received ahead, last number notified | DATA, GAP, HEARTBEAT, two timers, match, unmatch, take | reordering, loss, duplication, a lease that expires and comes back |
| histories (`rtps/history`, `fastdds/*/history`) | samples, instances | admission, replacement, removal | limits: full of samples that cannot be delivered yet |
| `rtps/flowcontrol` | queues of samples, `is_linked`, the asynchronous thread | publish now or later, retry, remove, (un)register a writer | three kinds of mutexes, a thread that must not wait for a writer, limits |
| `rtps/resources` timers | atomic state of each timer, two vectors of the event thread | restart, cancel, recreate, destroy, trigger | all of them at once from several threads and from callbacks |
| `fastdds/publisher` blocking `write()`, `wait_for_all_acked()` | `may_remove_change_`, `all_acked_`, condition variables | wait for room, for one acknowledgement, for all | several waiters with different predicates |
| `rtps/transport/shared_mem` | buffers of a segment, ring of a port | push, pop, recover a buffer, close | lock-free counts, reuse of a buffer in use, missed wake-ups |
| `rtps/DataSharing` | payloads and a ring in shared memory | write, follow the ring, read in place | writer and reader share no lock |
| persistent endpoints, `rtps/persistence` | samples, last number, record of the reader | store, remove, reload | a crash between any two statements |
| discovery (`rtps/builtin`), liveliness, wait sets, other transports | | | see *Not modelled* |

`PROJECT.json` lists all parts, the hazards found in the code with their lines,
and for every definition of a model the lines it stands for.

## Modules

| module | models |
|---|---|
| `WriterProxy` | `WriterProxy.cpp` as functions of a proxy record: what a DATA, GAP or HEARTBEAT does to the marks |
| `ReaderProxy` | `ReaderProxy.cpp` likewise: acknowledgements, requests, removals, the hole before a sample |
| `Wire` | the network: a set of submessages per direction and reader. A message that was sent may be handled never, once or many times, in any order |
| `StatefulWriter` | the writer: one action per handler and timer callback, with its history and flow controller |
| `StatefulReader` | the readers: one action per submessage handler and timer callback, with their histories |
| `ReliableRTPS` | writer, readers and network together, and the properties of the protocol |
| `ReliableRefinement` | how `ReliableRTPS` implements `ReliableDelivery` |
| `ReliableDelivery` | what `ReliableRTPS` promises to users, without proxies, messages and timers |
| `TimedEvents` | `TimedEvent`, `TimedEventImpl`, `ResourceEvent` and the threads that use them |
| `BlockingWrite` | threads blocked in `DataWriterHistory::prepare_change()` and in `wait_for_all_acked()` |
| `FlowController` | `FlowControllerImpl.hpp`: schedulers, queues, the asynchronous thread |
| `SharedMemory` | segments, ports and listeners of the shared-memory transport |
| `DataSharing` | the pool and ring of a writer, the listener and the user of a reader |
| `Persistence` | a persistent writer, a persistent reader and their database |
| `MCReliable`, `MCKeepAllWriters`, `MCTimedEvents`, `MCBlockingWrite`, `MCFlowController`, `MCSharedMemory`, `MCDataSharing`, `MCPersistence` | instances for TLC |
| `TimedEventsProofs`, `BlockingWriteProofs`, `PersistenceProofs` | proofs about `TimedEvents`, `BlockingWrite` and `Persistence` |
| `ProxyLemmas` | what each function of `WriterProxy` and `ReaderProxy` preserves |
| `ReliableInvariant` | the two inductive invariants of `ReliableRTPS`, what they imply, and that the steps of the readers preserve the first |
| `WriterSteps` | that the steps of the writer preserve the first |
| `ProgressSteps` | that all steps preserve the second |
| `ReliableProofs` | the theorems about `ReliableRTPS`, and that it implements `ReliableDelivery` |

### ReliableRTPS

Every handler of the writer runs under the writer's mutex and every handler of a
reader under the reader's, so a handler is one action.  The exception is the
synchronous publication: `unsent_change_added_to_history()` adds the sample,
and the delivery in the same thread is a second action (`sending` holds the
mutex in between), because it may fail.

* A proxy is a record.  `rp[r].changes` maps a sequence number to its status
  (`UNSENT`, `REQUESTED`, `UNDERWAY`, `UNACKNOWLEDGED`) and to whether it was
  ever delivered.  `wp[r]` holds the two marks, the set received ahead, and
  which of the two timers is armed.
* A timer is a Boolean: armed or not.  Time is abstract, an armed timer may
  fire at any moment.  What makes timers themselves correct is in `TimedEvents`.
* `DeliverSample(seq, sent, piggyback, delivered)` is
  `deliver_sample_to_network()` followed by `check_acked_status()`: GAPs of one
  reader and of all, the sample, the piggybacked heartbeat, and a timeout after
  any of them.  `IndividualGapThrows` is the one timeout that escapes from it.
* Matching is one-sided: writer and reader match, unmatch and match again
  independently; messages of an earlier match stay on the wire.
* `join_seq[r]` is a history variable: the numbers up to it are not owed to
  reader r (a VOLATILE reader is owed what is published after the match, a
  durable one what was in the history).  `notified[r]` collects all numbers ever
  notified to the user.
* Payloads, GUIDs, locators and serialisation are left out; a content filter is
  the constant `Irrelevant`.

Properties:

* `NoSilentSkip`: a reader never moves its low mark over a sample it is owed and
  has not notified.
* `AckSound`: what the writer takes as acknowledged was notified.
* `NoStall`: each sample held for a reader has a timer or a queue that moves it
  on.
* `RequestAnswerable`: whatever a reader can ask for and the writer has, the
  writer answers with the sample or a GAP.
* `NoInconsistentAcknack`: the sanity check of `process_acknack()` never fires.
* `InOrderOnce`: notification in order and once, also over lease expirations.
* `FutureSamplesLeaveRoom`: samples ahead of a hole never fill a KEEP_ALL reader
  (with `NoStall`, `NothingStuck` of `MCKeepAllWriters`).
* `KeepAllNoLoss`, `RemovedIsAcked`: a KEEP_ALL writer loses nothing.
* `ImplementsDelivery`: the protocol refines `ReliableDelivery`.  `position` is
  the record of the reader, `confirmed` what the writer holds as acknowledged.
  For KEEP_ALL readers it includes `AckSound`.
* `TypeOK`: types, and that proxies and flow controller point into the history.

### TimedEvents

A client changes the atomic state of a timer and then, in a second step, orders
the event thread under its mutex; the event thread runs callbacks with no lock.
`service` is where the event thread is; `todo` is what its trigger loop has still
to look at, `did_something` whether it triggered a timer.  A timer in
`TimedRestart` is restarted with the timed call, whose order may time out in a
`HAVE_STRICT_REALTIME` build; the history variable `given_up` holds the timers
whose last order did.  Destroying a timer from a callback of another one, from a
client thread, and `recreate_timer()` are separate actions.  The stop of the
thread is not modelled.

Of a trigger time the model keeps whether it is within 24 h (`near`), which is
what `do_timer_actions()` tells apart: after a pass that triggered a timer it
erases from `active_timers_` all that are further away.  This is meant for timers
that stopped, whose trigger time is infinite.  It also hits `WAITING` timers with
an interval of 24 h or more (the constant `Long`); `TimePasses` is the moment
from which such a timer is near.

* `NoLostTimer`: a `READY` timer has an order under way, unless its order was
  given up; a `WAITING` one is in `active_timers_`, unless its interval is 24 h
  or more.
* `ScheduledFires`: a timer that is ordered or waits fires, is cancelled or is
  destroyed.  A long one is covered once it is near, and a timer whose order
  is given up is not.
* `NoUseAfterDestroy`, `RecreateIsBlocking`: destruction and recreation leave the
  event thread with nothing of the old timer.

Fairness: the event thread is scheduled, callbacks return, a thread that changed
a state goes on to order (it holds no lock by then), and a timer that stays in
`active_timers_` is found expired by some pass of the loop (strong fairness, as
passes come and go; time grows and trigger times do not).

### BlockingWrite

`pc` is where each publisher is in `prepare_change()`; `signalled` are the
threads that `notify_one()` woke and that have not run yet; `waiting` are the
callers of `wait_for_all_acked()` and `told` those its `notify_all()` reached.
`acked` stands for all readers: the lowest low mark.
`assert(!m_isHistoryFull)` ends the program: a thread that fails it stays there.

* `RoomForOne`: that assertion, for one publishing thread.
* `RemovedIsAcked`, `StateConsistent`: what makes room is acknowledged, and
  instances and history agree, whoever runs between wake-up and turn.  `acked`
  only grows here; a durable late joiner, which takes it back, is the case of
  `RemovedIsAcked` of `ReliableRTPS`.
* `TrueMeansAcked`: `wait_for_all_acked()` does not return true unless, some time
  since its call, all was acknowledged.
* `WaitsEnd`: what a publisher waits for ends its wait, and
  `wait_for_all_acked()` returns, with one caller and no lifespan.

Fairness: a thread that holds the mutex goes on; one that was woken gets the
mutex some time, and a finite `max_blocking_time` passes (strong); ACKNACKs keep
coming while a sample is not acknowledged, because the periodic heartbeat asks
for them.

### FlowController

`queue` holds the lists of each queue of the scheduler, `linked` the samples
with `is_linked`, `th[w]` the thread in the mutex of writer w and `as` the
asynchronous thread.  `unsent` and `overtaken` are history variables.  A sample
is sent whole, and all samples have one size.

* `ListsExact`: the intrusive lists are not corrupted, and a removed sample is in
  none of them nor in the hands of the thread.
* `NothingForgotten`: no sample is forgotten or slept over.
* `RoundRobinFair`: bounded overtaking.  `LimitHolds`: bytes per period.
* `OwedIsSent`: with FIFO and ROUND_ROBIN, one watched sample is sent or removed
  in the end.  The priority schedulers may starve a writer by design.

Fairness: weak for the asynchronous thread; strong for taking a writer's mutex
and for a send that succeeds (neither is busy whenever it is tried) and for a
writer's thread that wants a mutex which comes and goes.

### SharedMemory

Every compare-and-swap and every critical section of `empty_cv_mutex` is a step.

* `UnicastIsIntact`: no datagram is overwritten under a listener of a unicast
  port.
* `CountsExact`: reference counts of cells, `free_cells` and the free and used
  buffers are exact.  Of the enqueued and processing counts, which listeners
  and recovering senders change on their own, it says that they do not go
  below 0.
* `ListenerResponds`: a listener with something to do is woken and does it, and
  closing it ends its thread.

Fairness: threads run.  Neither a new datagram nor a timed wait is relied on.

### DataSharing

Each access of the reader to shared memory is a step, and so is each store of
the writer that the reader can tell apart, in program order: the model is
sequentially consistent, weaker memory is not covered.  `advance()` stores an
index twice when it goes round the ring, with position `history_size` in between;
both stores are steps, for `notified_end` (`WrapEnd`) and for `notified_begin`
(`WrapBegin`).  A reader that is matched between the latter two starts at that
position and reads `history_` out of bounds: it goes to `undefined`, where nothing
is said of it (see *Observations*).

* `PayloadsExact`, `ReturnedIsIntact`: a payload is not reused while its
  sample is in the writer's history, and what `read()` and `take()` return is
  the sample, though the writer may reuse its payload meanwhile.
* `NothingMissed`: a KEEP_ALL writer overwrites nothing unread, and the listener
  skips nothing of it; no listener sleeps over a notification.  Of the half
  stored indices it covers `notified_end`: only a reader that is being matched
  reads the other one.
* `PendingIsProcessed`: the listener catches up, of a reader that rejects nothing
  (see *Observations*).

Fairness: writer and listener threads run, and the user goes on reading.

### Persistence

A start of the writer has a new GUID and the same persistence GUID.  An SQL
statement is atomic and succeeds; a process may crash before and after each.
HEARTBEAT and GAP of a live writer count as received; DATA stays in flight over
a crash of its sender.

* `DatabaseAgrees`, `NumberNotReused`: the database agrees with the writer, what
  an ACKNACK may acknowledge is on record, and a new start continues above all
  numbers used.
* `RecordNeverFalls`: what is on record stays there, also while proxies of two
  starts of the writer are matched.
* `NotifiedExactlyOnce`: the user is notified in order and once, unless two
  starts of the writer were matched at a time (see *Observations*); what is
  skipped was between record and notification at a crash.
* `StoredIsNotified`: all else that is stored is notified or removed.

Fairness: weak for the steps of both threads (restart included); strong for
matching, receiving and resending, as heartbeats repeat and matches recur.

## Runs

| run | instance | shows |
|---|---|---|
| `keep_last_holes` | 1 durable reader that filters sample 2, 3 samples, history of 3, any removal, failing sends of the publishing thread, 2 heartbeats, 2 ACKNACKs | the protocol with holes of the history and of one reader: all state properties but `NoStall` (see the first observation) |
| `rematch` | 2 samples, both sides unmatch and match, asynchronous publication | stale messages of earlier matches; `InOrderOnce`; the refinement of `ReliableDelivery`; sends do not fail |
| `mixed_readers` | a durable KEEP_ALL reader with a filter, a VOLATILE KEEP_LAST one of depth 1, failing sends of the asynchronous thread | GAPs for one reader, late joiners, replacement; `NoStall` with sends that fail half way |
| `keep_all_writers` | a pull-mode writer of 2 with a reader of depth 1; a VOLATILE writer with failing sends of the publishing thread; 3 samples each | limits on both sides, removal by acknowledgement |
| `timers` | 3 threads, 2 timers, of which one is restarted with timeouts and has an interval of 24 h or more | all timer properties, `ScheduledFires` under fairness (`TypeOK` is proved, see *Proofs*) |
| `publishers` | 1 publisher with a history of 4; 2 publishers with timeouts and lifespan; 1 and 2 callers of `wait_for_all_acked()` | blocked threads find room, remove only acknowledged samples and do not sleep for ever |
| `flow_controller` | FIFO synchronous, ROUND_ROBIN with 3 writers, HIGH_PRIORITY, FIFO with a limit, PRIORITY_WITH_RESERVATION | queues, wake-ups, fairness and limits |
| `shm` | 2 senders to a unicast port; a unicast listener that closes; 2 multicast listeners; a sender to both kinds of port | overflow, recovery of buffers, close |
| `data_sharing` | KEEP_ALL and KEEP_LAST writers, readers that replace or reject, samples that expire in any order; 3 or 4 samples | reuse of payloads against reading in place |
| `persistence` | 3 samples, 1 crash of each side, 2 DATA in flight | recovery |
| `keep_all_late_joiner`, `two_publishers_room` | | disagreements of code and comments, see *Findings* |

The runs of several instances have a variable, fixed by `Init`, that says which
instance a behaviour is of (`dep`, `topo`, `writer`).

Bounds.  Three samples are needed for a hole between two live samples; two
heartbeats and two ACKNACKs per reader for an old one to overtake a new one.  In
`keep_last_holes` and in `mixed_readers` the GAP that a delivery sends to one
reader alone arises with one reader matched; two heartbeats are too few for it
with both, which the theorems cover for KEEP_ALL readers.  `KeepAllNoLoss` runs without a filter, so
with no such GAP.  A bound on the counters
(`MaxHeartbeats`, `MaxAcknacks`) is a bound on distinct messages, not on
deliveries: each may be handled any number of times.  The ring of `data_sharing`
holds two or three payloads, so four samples go round it; the rings of `shm` have one
or two cells and a segment one or two buffers, so both overflow and are reused.
One crash of each side, at every point, gives two incarnations in flight.  The
two publishers of `publishers` write 5 samples: with 6 the run passes as well,
but takes close to five minutes.  Runs take from one to three minutes and
130,000 to 1,510,000 states.  Models that stop when their bounds are used up
have `CHECK_DEADLOCK FALSE`; `TimedEvents` never stops and is checked for
deadlock.

Each property is also run against a mutant of the model, listed in
`PROJECT.json`: a plausible slip in the code that the property detects.

## Findings

* `keep_all_late_joiner`: a KEEP_ALL writer at its limit removes a sample that a
  durable late joiner has not acknowledged.
* `two_publishers_room`: the second of two publishers in `try_remove_change()`
  takes a used-up removal for room and fails `assert(!m_isHistoryFull)`.  Both
  have a payload by then, so it needs `extra_samples` of 2 or more.

### Observations

Met while modelling; no run is kept for them.  The first four are behaviours of
these modules that TLC reaches.

* The timeout of an individual GAP leaves the sample `UNSENT` and in no queue
  (`UnsentIsQueued` of `ReliableRTPS`, a synchronous KEEP_LAST writer whose sends
  fail), where the comment of `add_new_sample_impl()` promises a retry.
* In a `HAVE_STRICT_REALTIME` build a timed `notify()` that gives up leaves the
  timer `READY`, unknown to the event thread and refused by every later restart.
  `NoLostTimer` and `ScheduledFires` leave such a timer out (`given_up`).
* A `WAITING` timer with an interval of 24 h or more is erased from
  `active_timers_` by the next pass that triggers another timer
  (`EndTriggering`).  It does not fire, and `restart_timer()` takes it for
  scheduled until it is cancelled, where `TimedEvent.h` says "Schedules the event
  if there is not a previous scheduling".  `NoLostTimer` and `ScheduledFires`
  leave it out (`Long`, `Kept`).
* A reader that is matched to a data-sharing writer between the two stores of
  `advance(notified_begin)` takes position `history_size` for its start, past the
  end of `history_` (`ReadOffsetOutOfBounds`).
* A multicast datagram may be overwritten under a listener: `UnicastIsIntact` is
  about unicast ports only.
* A payload that a full KEEP_ALL reader rejects counts as read and is not
  returned again: `PendingIsProcessed` leaves such readers out.
* PRIORITY_WITH_RESERVATION may charge bytes to another writer than the one that
  sent.
* A restarted persistent writer that is matched before its predecessor is removed
  may have a sample notified twice: `NotifiedOnce` (in
  `NotifiedExactlyOnce`) leaves out this overlap.
* `wait_for_all_acked()` ends only at its timeout when the last unacknowledged
  sample is removed by its lifespan, or when another caller resets `all_acked_`:
  `AllAckedEndsWait` (in `WaitsEnd`) is about one caller and no lifespan.
* The results of database statements are not looked at by their callers.

## Proofs

`TimedEventsProofs`, for any sets of timers and threads:

* `TimersSafe`: `Spec => [](TypeOK /\ NoUseAfterDestroy)`.  The inductive
  invariant `IInv` adds that a thread only works on timers that exist
  (`UsersKnowTimer`), that a timer being recreated is used by nobody else and
  forgotten by the event thread (`RecreateIsAlone`), and that the loop has
  nothing left to visit outside of its phase (`ServiceLoop`).  The last is what
  makes it safe to destroy a timer while the event thread waits.
* `RecreateBlocks`: `Spec => RecreateIsBlocking`, from the same invariant: only
  `RecreateCancels` ends a recreation.
* `TimersNotLost`: `Spec => []NoLostTimer`, with the two exceptions that
  `NoLostTimer` names: an order that was given up, and `WAITING` timers with an
  interval of 24 h or more.

`ReliableProofs`, for any set of readers, any filter, any QoS constants and any
bounds:

* `TypeCorrect`: `Spec => []TypeOK`;
* `AcknacksConsistent`: `Spec => []NoInconsistentAcknack`;
* `NothingSkipped` and `AcksSound`: `Spec => []NoSilentSkip` and
  `Spec => []AckSound`, if all readers are KEEP_ALL;
* `NotifiedInOrder`: `Spec => InOrderOnce`, if a writer is unmatched by the
  expiration of its lease only, or not at all (any other unmatching erases the
  record of what was notified, on purpose);
* `NothingStalls`: `Spec => []NoStall`, if no send fails or only the thread of
  the flow controller sends.  It is false otherwise, see the first observation
  above;
* `RequestsAnswerable`: `Spec => []RequestAnswerable`, if writers are unmatched by
  lease only, or not at all: an erased record lets a reader ask for what it
  acknowledged in an earlier match, until its first new ACKNACK arrives;
* `KeepAllLosesNothing` and `OnlyAckedRemoved`: `Spec => []KeepAllNoLoss` and
  `Spec => RemovedIsAcked`, if all readers are VOLATILE.  `keep_all_late_joiner`
  is the counterexample with a durable one;
* `ImplementsReliableDelivery`: `Spec => ImplementsDelivery`, if writers are
  unmatched by lease only, or not at all.

They follow from two invariants.  `IInv` (theorem `Invariance`) is about what
messages and marks say.  None of the properties is inductive alone, because each side acts on messages that may be
arbitrarily old.  `IInv` therefore says of every message that was ever sent that
it is *still* true:

* a GAP covers no sample its reader is owed (`ToReaderOK`).  It stays true since
  what a reader is owed only shrinks or grows by a new, higher number;
* a HEARTBEAT starts at or below every sample the writer still has;
* a KEEP_ALL reader notified all it is owed below the base of each of its
  ACKNACKs (`ToWriterOK`).

`ReaderSide` ties the marks of a reader together: low mark, last notified number
and history record are equal while the writer is matched, and what was received
ahead is in the history.  `WriterSide` says that a matched `ReaderProxy` covers
what its reader is owed: a sample is at or below the low mark, and then it was
notified, or it has an entry.  The GAPs of `deliver_sample_to_network()` and of
`requested_changes_set()` are true because they cover numbers without an entry
above the low mark.  A reader that is matched again starts with nothing
acknowledged, or, VOLATILE, is owed nothing of the history: this is the step
that needs the assumption that a VOLATILE writer only has VOLATILE readers
(`WriterAssumption`).  `ProxyLemmas` states what the functions of the proxies
preserve (`Advances`, `Acknowledges`, `SameEntries`), so that each step proof
is about the handler and not about records.

`PInv` (theorem `ProgressInvariance`) is about what moves a sample on, and is
inductive relative to `IInv`.  `Armed` ties the status of each entry of a
`ReaderProxy` to the timer or queue that acts on it: `REQUESTED` to the nack
response, `UNDERWAY` to the nack suppression, `UNACKNOWLEDGED` to the periodic
heartbeat, `UNSENT` to the flow controller or the sending thread.  It also needs
that an ACKNACK of base 0 asks for a heartbeat (`InitialAsks`), or it could set
entries back with no heartbeat armed.  `Recorded` says that no ACKNACK, however
old, is ahead of the record of its reader.  `Accounted` says that a VOLATILE
reader has no entry below `next_all_acked_notify_sequence_`, which
`try_remove_change()` decides by, and that what a KEEP_ALL writer owes was
notified or has an entry, also when it left the history.

For the refinement, `WriterMoves` reduces the steps of the writer to what they do
to samples and to what is owed; `WriterSimulates` and `ReaderSimulates` match
them with `Publish`, `Settle`, `Join` and `Deliver`, or with a stutter.  That
confirmations are true and nothing owed is passed comes from `IInv`.

`BlockingWriteProofs`, for any finite sets of publishers and keys, any callers of
`wait_for_all_acked()`, any limits with
`max_samples >= keys * max_samples_per_instance` and any number of samples:

* `HistoryConsistent`: `Spec => []StateConsistent`;
* `OneFindsRoom`: `Spec => []RoomForOne`;
* `RemovesOnlyAcked`: `Spec => RemovedIsAcked`;
* `TrueIsAcked`: `Spec => []TrueMeansAcked`.

The last is inductive.  The others follow from `BlockingInv`.  That the history
is within `max_samples` does not follow from `assert(!m_isHistoryFull)`: a thread
that waited for an acknowledgement after it adds its sample without another look,
whatever others added meanwhile.  It follows from the instances: every sample is in one place of one
instance (`InstancesOK`), an instance is within its limit and the one that a
thread is about to add to is below (`LimitsOK`), so samples are counted through
the places (`HistoryFits`).  `AcksOK` says that each of the three ways in which a
thread learns of an acknowledgement is true when it acts: what is below
`next_all_acked`, some sample if `may_remove` is 1, and `seq_to_remove` of the
thread.  `RoomOK` adds, for one publisher, that there is room while it waits and
`may_remove` is 2.

`PersistenceProofs`, for any number of samples, crashes and DATA in flight:

* `StorageAgrees`: `Spec => []DatabaseAgrees`;
* `RecordKept`: `Spec => RecordNeverFalls`;
* `NumbersUnique`: `Spec => []NumberNotReused`;
* `ToldOnce`: `Spec => []NotifiedExactlyOnce`, which excludes repetition only
  of behaviours in which no two starts of the writer were matched at a time.

The invariant `PersistenceInv` says at each place of the writer's thread how its
history and last number differ from the database (`WriterOK`), and that the marks
of the reader are on record but the one its thread is about to record
(`ReaderOK`).  A number is not reused because what a reader may have got is at
most `Top`: the last stored number, less the one that is about to be inserted
(`NumbersOK`).  `OrderOK`, while one proxy at a time was matched, and `PassedOK`
say that what is held for the user is above what the user was told, and that what
a proxy has passed was told, is held, was in doubt at a crash, or was removed.

Only model-checked: the liveness properties (TLAPS has no fairness); KEEP_LAST
readers in `NoSilentSkip` and `AckSound` (what replaces a sample is counted with
cardinalities); `FutureSamplesLeaveRoom` for the same reason; and all of
`FlowController`, `SharedMemory` and `DataSharing`.

## Not modelled

In parts that are modelled:

* protocol: fragments (`DATA_FRAG`, `NACK_FRAG`, reassembly), separate sending,
  positive acknowledgements disabled, intraprocess and best-effort endpoints,
  ownership, instances of the reader history;
* the liveness of the whole protocol: `NoStall` says that something is armed for
  each sample, and not that it arrives.  Heartbeats and ACKNACKs are bounded by
  their counters, so fairness would have nothing to act on;
* flow controllers: timeouts of a strict real-time build, fragments, the factory;
* shared memory: the watchdog, a process that dies inside an operation,
  regeneration of a port;
* data sharing: the skip of old samples by a VOLATILE reader, several writers of
  one listener, weak memory;
* persistence: failing statements, stateless endpoints, schema upgrades;
* timers: the stop of the event thread, interval changes, and the mutexes that
  callers hold when they destroy a timer;
* `has_been_fully_delivered()` with local readers;
* the 32-bit wrap of heartbeat counts and the 256-number window of an ACKNACK,
  both far beyond the bounds.

Other parts, each a model of its own: `LivelinessManager` and WLP, participant
and endpoint discovery (their effects, matching and leases at each side, are in
`ReliableRTPS`), the database of the discovery server, `WaitSet`, TCP
negotiation.

Out of scope: serialisation and parsing, type representation, XML profiles,
logging, security plugins, and the SQLite library.
