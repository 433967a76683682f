---------------------------- MODULE SharedMemory ----------------------------
(***************************************************************************)
(* The shared-memory transport of src/src/cpp/rtps/transport/shared_mem:   *)
(* each sender copies a datagram once to a buffer of its segment           *)
(* (SharedMemManager::Segment) and pushes a descriptor of it to the ring   *)
(* of every destination port (SharedMemGlobal::Port over                   *)
(* MultiProducerConsumerRingBuffer), where listeners of other processes    *)
(* pop it.  Every atomic operation and every critical section of a port's  *)
(* empty_cv_mutex is a step of its own.                                    *)
(*                                                                         *)
(* A ring pointer is its 31-bit value plus Cells when the loop flag is     *)
(* set; validity ids are as many as messages, far below their 24 bits.     *)
(***************************************************************************)
EXTENDS Integers, SequencesExt, FiniteSetsExt

CONSTANTS
    Senders, Ports, Listeners,
    Deployments         \* a set of records with the fields:
                        \*   dest       the ports each sender sends to, in order
                        \*   listeners, port   who listens, and where
                        \*   exclusive  the ports opened ReadExclusive (unicast)
                        \*   closed     the listeners that are closed some time
                        \*   cells      port_queue_capacity
                        \*   nodes, bytes      max_allocations and size of a segment
                        \*   sizes      sizes of datagrams
                        \*   messages   bound: datagrams sent

ASSUME SharedMemoryAssumption ==
    \A d \in Deployments :
        /\ {d.cells, d.nodes, d.bytes, d.messages} \subseteq Nat \ {0} /\ d.sizes \subseteq Nat \ {0}
        /\ d.dest \in [Senders -> Seq(Ports)] /\ d.port \in [d.listeners -> Ports]
        /\ d.closed \subseteq d.listeners /\ d.listeners \subseteq Listeners
        /\ \A l, k \in d.listeners : d.port[l] \in d.exclusive => l = k \/ d.port[l] # d.port[k]

VARIABLES
    topo,               \* the deployment, fixed
    \* the segments
    status,             \* BufferNode::status of every node
    content,            \* the datagram in the node's bytes
    node_size,          \* data_size
    free_buffers,       \* per sender
    allocated_buffers,  \* per sender
    sent,               \* number of datagrams so far
    \* the ports
    ring,               \* MultiProducerConsumerRingBuffer
    waiting_count, lock,
    snd,                \* the thread of each sender
    lst                 \* the thread and the ListenerStatus of each listener

segmentVars == <<status, content, node_size, free_buffers, allocated_buffers, sent>>
portVars    == <<ring, waiting_count, lock>>
shmVars     == <<topo, segmentVars, portVars, snd, lst>>

Cells == topo.cells
Nodes == Senders \X (1..topo.nodes)
None == <<>>            \* no descriptor, no buffer
Idle == "idle"

PortOf(l) == topo.port[l]
Exclusive(p) == p \in topo.exclusive
ListenersOf(p) == {l \in topo.listeners : PortOf(l) = p}

-----------------------------------------------------------------------------
(* BufferNode: each operator is one compare-and-swap loop *)

NotReferenced(st) == st.enqueued = 0 /\ st.processing = 0

Invalidated(st) == [validity |-> st.validity + 1, enqueued |-> 0, processing |-> 0]

(* Counts change only while the descriptor is valid. *)
IfValid(st, d, enq, proc) ==
    IF st.validity = d.validity
    THEN [st EXCEPT !.enqueued = @ + enq, !.processing = @ + proc] ELSE st

-----------------------------------------------------------------------------
(* MultiProducerConsumerRingBuffer *)

IncPointer(p) == (p + 1) % (2 * Cells)

InitRing == [write_p |-> 0, free_cells |-> Cells, registered |-> 0,
             cells |-> [i \in 0..(Cells - 1) |-> [ref |-> 0, data |-> None]]]

HeadIndex(l) == lst[l].read_p % Cells

(* Listener::head() finds a cell. *)
HasHead(l) ==
    LET r == ring[PortOf(l)]
    IN  lst[l].read_p # r.write_p /\ r.cells[HeadIndex(l)].ref # 0

IsBufferEmpty(r) == r.free_cells = Cells

(* The cells between a listener and the write pointer.  No push is under   *)
(* way while empty_cv_mutex is held, so all of them are published.         *)
CellsAhead(l) ==
    LET ahead == (ring[PortOf(l)].write_p - lst[l].read_p) % (2 * Cells)
    IN  {(lst[l].read_p + k) % Cells : k \in 0..(ahead - 1)}

(* register_listener() and the pointer a listener starts at. *)
Registered(r) == [r EXCEPT !.registered = @ + 1]

(* Mutant: a listener leaves its cells behind. *)
UnregisteredKeeps(r, ahead) == [r EXCEPT !.registered = @ - 1]

(* unregister_listener(): pops all that is ahead, without looking at it. *)
Unregistered(r, ahead) ==
    [r EXCEPT !.registered = @ - 1,
              !.free_cells = @ + Cardinality({i \in ahead : r.cells[i].ref = 1}),
              !.cells = [i \in DOMAIN r.cells |->
                            IF i \in ahead THEN [r.cells[i] EXCEPT !.ref = @ - 1] ELSE r.cells[i]]]

-----------------------------------------------------------------------------
Init ==
    /\ topo \in Deployments
    /\ status = [n \in Nodes |-> [validity |-> 0, enqueued |-> 0, processing |-> 0]]
    /\ content = [n \in Nodes |-> 0] /\ node_size = [n \in Nodes |-> 0]
    /\ free_buffers = [s \in Senders |-> [i \in 1..topo.nodes |-> <<s, i>>]]
    /\ allocated_buffers = [s \in Senders |-> <<>>] /\ sent = 0
    /\ ring = [p \in Ports |-> InitRing]
    /\ waiting_count = [p \in Ports |-> 0] /\ lock = [p \in Ports |-> FALSE]
    /\ snd = [s \in Senders |-> [pc |-> "idle", pos |-> 0, size |-> 0, held |-> None,
                                 todo |-> <<>>, slot |-> 0, wakes |-> FALSE]]
    /\ lst = [l \in Listeners |-> [pc |-> "off", read_p |-> 0, desc |-> None, freed |-> FALSE,
                                   processing |-> None, posted |-> FALSE, closing |-> "open"]]

-----------------------------------------------------------------------------
(* SharedMemTransport::send(): the datagram is copied to a buffer and the  *)
(* buffer is pushed to each destination.                                   *)
Send(s) ==
    /\ snd[s].pc = "idle" /\ sent < topo.messages /\ topo.dest[s] # <<>>
    /\ \E z \in topo.sizes :
          snd' = [snd EXCEPT ![s].pc = "recover", ![s].pos = 1, ![s].size = z]
    /\ UNCHANGED <<topo, segmentVars, portVars, lst>>

(* Segment::recover_buffers(): two loops over allocated_buffers_. *)
FreeBytes(s) == topo.bytes - SumFunctionOnSet(node_size, ToSet(allocated_buffers[s]))

Recovering(s, pc) == snd[s].pc = pc /\ snd[s].pos <= Len(allocated_buffers[s])

Current(s) == allocated_buffers[s][snd[s].pos]

(* release_buffer() of an invalidated buffer. *)
InvalidateCurrent(s) ==
    /\ status' = [status EXCEPT ![Current(s)] = Invalidated(@)]
    /\ free_buffers' = [free_buffers EXCEPT ![s] = Append(@, Current(s))]
    /\ allocated_buffers' = [allocated_buffers EXCEPT ![s] = RemoveAt(@, snd[s].pos)]

(* Mutant: the oldest buffers are recovered whatever is done with them. *)
InvalidateProcessing(s) == InvalidateCurrent(s) /\ UNCHANGED snd

InvalidateIfNotProcessing(s) ==
    IF status[Current(s)].processing = 0 THEN InvalidateCurrent(s) /\ UNCHANGED snd
    ELSE /\ snd' = [snd EXCEPT ![s].pos = @ + 1]
         /\ UNCHANGED <<status, free_buffers, allocated_buffers>>

(* First loop, enough bytes: is_not_referenced() ... *)
RecoverCheck(s) ==
    /\ Recovering(s, "recover") /\ FreeBytes(s) >= snd[s].size
    /\ snd' = IF NotReferenced(status[Current(s)]) THEN [snd EXCEPT ![s].pc = "invalidate"]
              ELSE [snd EXCEPT ![s].pos = @ + 1]
    /\ UNCHANGED <<topo, segmentVars, portVars, lst>>

(* ... and then invalidate_buffer(), whatever the status is by now. *)
RecoverInvalidate(s) ==
    /\ snd[s].pc = "invalidate"
    /\ InvalidateCurrent(s)
    /\ snd' = [snd EXCEPT ![s].pc = "recover"]
    /\ UNCHANGED <<topo, content, node_size, sent, portVars, lst>>

(* First loop, not enough bytes. *)
RecoverOverflow(s) ==
    /\ Recovering(s, "recover") /\ FreeBytes(s) < snd[s].size
    /\ InvalidateIfNotProcessing(s)
    /\ UNCHANGED <<topo, content, node_size, sent, portVars, lst>>

(* Second loop: enough bytes, but no free node. *)
RecoverSecond(s) ==
    /\ snd[s].pc = "recover" /\ snd[s].pos > Len(allocated_buffers[s])
    /\ snd' = [snd EXCEPT ![s].pc = "second", ![s].pos = 1]
    /\ UNCHANGED <<topo, segmentVars, portVars, lst>>

RecoverNode(s) ==
    /\ Recovering(s, "second") /\ free_buffers[s] = <<>>
    /\ InvalidateIfNotProcessing(s)
    /\ UNCHANGED <<topo, content, node_size, sent, portVars, lst>>

RecoverDone(s) ==
    snd[s].pc = "second" /\ (free_buffers[s] # <<>> \/ snd[s].pos > Len(allocated_buffers[s]))

(* alloc_buffer() throws and the datagram is discarded: not enough bytes,  *)
(* no free node, or (fits = FALSE) the allocator finds no room for it.     *)
AllocFails(s, fits) ==
    /\ RecoverDone(s)
    /\ FreeBytes(s) < snd[s].size \/ free_buffers[s] = <<>> \/ ~fits
    /\ sent' = sent + 1
    /\ snd' = [snd EXCEPT ![s].pc = "idle"]
    /\ UNCHANGED <<topo, status, content, node_size, free_buffers, allocated_buffers,
                   portVars, lst>>

(* The sender processes its own buffer: inc_processing_count(). *)
AllocBuffer(s) ==
    LET n == Last(free_buffers[s])
    IN  /\ RecoverDone(s) /\ FreeBytes(s) >= snd[s].size /\ free_buffers[s] # <<>>
        /\ free_buffers' = [free_buffers EXCEPT ![s] = Front(@)]
        /\ allocated_buffers' = [allocated_buffers EXCEPT ![s] = Append(@, n)]
        /\ node_size' = [node_size EXCEPT ![n] = snd[s].size]
        /\ status' = [status EXCEPT ![n].processing = @ + 1]
        /\ sent' = sent + 1 /\ content' = [content EXCEPT ![n] = sent']
        /\ snd' = [snd EXCEPT ![s].pc = "enqueue", ![s].todo = topo.dest[s],
                      ![s].held = [node |-> n, validity |-> status[n].validity, msg |-> sent']]
        /\ UNCHANGED <<topo, portVars, lst>>

-----------------------------------------------------------------------------
(* SharedMemManager::Port::try_push() to the first port of todo *)

Target(s) == Head(snd[s].todo)

Advance(s, pc) == [snd EXCEPT ![s].pc = pc]

(* The next port, or the destructor of the sender's SharedMemBuffer. *)
NextTarget(s) ==
    [snd EXCEPT ![s].pc = IF Len(snd[s].todo) > 1 THEN "enqueue" ELSE "release", ![s].todo = Tail(@)]

IncEnqueuedCount(s) ==
    /\ snd[s].pc = "enqueue"
    /\ status' = [status EXCEPT ![snd[s].held.node] = IfValid(@, snd[s].held, 1, 0)]
    /\ snd' = Advance(s, "push")
    /\ UNCHANGED <<topo, content, node_size, free_buffers, allocated_buffers, sent, portVars, lst>>

(* SharedMemGlobal::Port::try_push() takes empty_cv_mutex and push()       *)
(* reserves a cell; without listeners or without a free cell nothing is    *)
(* enqueued.                                                               *)
PushReserve(s) ==
    LET p == Target(s)
        r == ring[p]
        enqueues == r.registered > 0 /\ r.free_cells > 0
    IN  /\ snd[s].pc = "push" /\ ~lock[p]
        /\ IF enqueues
           THEN /\ ring' = [ring EXCEPT ![p].write_p = IncPointer(@), ![p].free_cells = @ - 1]
                /\ lock' = [lock EXCEPT ![p] = TRUE]
                /\ snd' = [snd EXCEPT ![s].pc = "publish", ![s].slot = r.write_p % Cells,
                              ![s].wakes = waiting_count[p] > 0 /\
                                           (Exclusive(p) => IsBufferEmpty(r))]
           ELSE /\ snd' = Advance(s, "withdraw")
                /\ UNCHANGED <<ring, lock>>
        /\ UNCHANGED <<topo, segmentVars, waiting_count, lst>>

(* push() fills the cell, and the mutex is released. *)
PushPublish(s) ==
    LET p == Target(s)
    IN  /\ snd[s].pc = "publish"
        /\ ring' = [ring EXCEPT ![p].cells[snd[s].slot] =
                       [ref |-> ring[p].registered, data |-> snd[s].held]]
        /\ lock' = [lock EXCEPT ![p] = FALSE]
        /\ snd' = IF snd[s].wakes THEN Advance(s, "notify") ELSE NextTarget(s)
        /\ UNCHANGED <<topo, segmentVars, waiting_count, lst>>

(* empty_cv.notify_one() (a unicast port has one listener) or notify_all(). *)
PostAll(p) ==
    [l \in Listeners |-> IF l \in ListenersOf(p) /\ lst[l].pc = "asleep"
                         THEN [lst[l] EXCEPT !.posted = TRUE] ELSE lst[l]]

Notify(s) ==
    /\ snd[s].pc = "notify"
    /\ lst' = PostAll(Target(s))
    /\ snd' = NextTarget(s)
    /\ UNCHANGED <<topo, segmentVars, portVars>>

(* The port did not take the descriptor. *)
DecEnqueuedCount(s) ==
    /\ snd[s].pc = "withdraw"
    /\ status' = [status EXCEPT ![snd[s].held.node] = IfValid(@, snd[s].held, -1, 0)]
    /\ snd' = NextTarget(s)
    /\ UNCHANGED <<topo, content, node_size, free_buffers, allocated_buffers, sent, portVars, lst>>

(* The destructor of the sender's SharedMemBuffer. *)
ReleaseBuffer(s) ==
    /\ snd[s].pc = "release"
    /\ status' = [status EXCEPT ![snd[s].held.node] = IfValid(@, snd[s].held, 0, -1)]
    /\ snd' = [snd EXCEPT ![s].pc = "idle", ![s].held = None]
    /\ UNCHANGED <<topo, content, node_size, free_buffers, allocated_buffers, sent, portVars, lst>>

-----------------------------------------------------------------------------
(* SharedMemChannelResource and SharedMemManager::Listener *)

(* Port::create_listener(), then the thread of perform_listen_operation(). *)
CreateListener(l) ==
    LET p == PortOf(l)
    IN  /\ l \in topo.listeners /\ lst[l].pc = "off" /\ lst[l].closing = "open" /\ ~lock[p]
        /\ ring' = [ring EXCEPT ![p] = Registered(@)]
        /\ lst' = [lst EXCEPT ![l].pc = "head", ![l].read_p = ring[p].write_p]
        /\ UNCHANGED <<topo, segmentVars, waiting_count, lock, snd>>

(* Mutant: is_closed is not checked again after wait_pop(). *)
LookAtHeadClosed(l) ==
    /\ lst[l].pc = "head" /\ ~HasHead(l)
    /\ lst' = [lst EXCEPT ![l].pc = "wait"]
    /\ UNCHANGED <<topo, segmentVars, portVars, snd>>

(* pop() finds no cell and is to wait; a closed listener leaves. *)
LookAtHead(l) ==
    /\ lst[l].pc = "head" /\ (lst[l].closing # "open" \/ ~HasHead(l))
    /\ lst' = [lst EXCEPT ![l].pc = IF lst[l].closing # "open" THEN "left" ELSE "wait"]
    /\ UNCHANGED <<topo, segmentVars, portVars, snd>>

(* wait_pop(): its condition is evaluated under empty_cv_mutex. *)
MayProceed(l) == lst[l].closing # "open" \/ HasHead(l)

WaitPop(l) ==
    LET p == PortOf(l)
    IN  /\ lst[l].pc = "wait" /\ ~lock[p]
        /\ IF MayProceed(l)
           THEN lst' = [lst EXCEPT ![l].pc = "head"] /\ UNCHANGED waiting_count
           ELSE /\ lst' = [lst EXCEPT ![l].pc = "asleep", ![l].posted = FALSE]
                /\ waiting_count' = [waiting_count EXCEPT ![p] = @ + 1]
        /\ UNCHANGED <<topo, segmentVars, ring, lock, snd>>

(* The listener wakes up, notified or (notified = FALSE) by its timeout.   *)
WakeUp(l, notified) ==
    LET p == PortOf(l)
    IN  /\ lst[l].pc = "asleep" /\ lst[l].posted = notified /\ ~lock[p]
        /\ IF MayProceed(l)
           THEN /\ lst' = [lst EXCEPT ![l].pc = "head", ![l].posted = FALSE]
                /\ waiting_count' = [waiting_count EXCEPT ![p] = @ - 1]
           ELSE lst' = [lst EXCEPT ![l].posted = FALSE] /\ UNCHANGED waiting_count
        /\ UNCHANGED <<topo, segmentVars, ring, lock, snd>>

(* pop() finds a cell, which stays while this listener has not popped it:  *)
(* its descriptor is read and its counter decreased.                       *)
PopCell(l) ==
    LET p == PortOf(l)
        cell == ring[p].cells[HeadIndex(l)]
    IN  /\ lst[l].pc = "head" /\ lst[l].closing = "open" /\ HasHead(l)
        /\ ring' = [ring EXCEPT ![p].cells[HeadIndex(l)].ref = @ - 1]
        /\ lst' = [lst EXCEPT ![l].pc = IF cell.ref = 1 THEN "free" ELSE "start",
                              ![l].desc = cell.data, ![l].freed = (cell.ref = 1),
                              ![l].read_p = IncPointer(@)]
        /\ UNCHANGED <<topo, segmentVars, waiting_count, lock, snd>>

(* The last listener of the cell frees it. *)
FreeCell(l) ==
    /\ lst[l].pc = "free"
    /\ ring' = [ring EXCEPT ![PortOf(l)].free_cells = @ + 1]
    /\ lst' = [lst EXCEPT ![l].pc = "start"]
    /\ UNCHANGED <<topo, segmentVars, waiting_count, lock, snd>>

(* listener_processing_start() *)
ListenerProcessingStart(l) ==
    /\ lst[l].pc = "start" /\ ~lock[PortOf(l)]
    /\ lst' = [lst EXCEPT ![l].pc = "count", ![l].processing = lst[l].desc]
    /\ UNCHANGED <<topo, segmentVars, portVars, snd>>

(* dec_enqueued_inc_processing_counts() or inc_processing_count(); an      *)
(* invalid descriptor is skipped.                                          *)
CountProcessing(l) ==
    LET d == lst[l].desc
    IN  /\ lst[l].pc = "count"
        /\ status' = [status EXCEPT ![d.node] = IfValid(@, d, IF lst[l].freed THEN -1 ELSE 0, 1)]
        /\ lst' = [lst EXCEPT ![l].pc = IF status[d.node].validity = d.validity
                                        THEN "process" ELSE "head"]
        /\ UNCHANGED <<topo, content, node_size, free_buffers, allocated_buffers, sent,
                       portVars, snd>>

(* OnDataReceived() returned: message.reset() ... *)
MessageReset(l) ==
    LET d == lst[l].desc
    IN  /\ lst[l].pc = "process"
        /\ status' = [status EXCEPT ![d.node] = IfValid(@, d, 0, -1)]
        /\ lst' = [lst EXCEPT ![l].pc = "stop"]
        /\ UNCHANGED <<topo, content, node_size, free_buffers, allocated_buffers, sent,
                       portVars, snd>>

(* ... and stop_processing_buffer(). *)
ListenerProcessingStop(l) ==
    /\ lst[l].pc = "stop" /\ ~lock[PortOf(l)]
    /\ lst' = [lst EXCEPT ![l].pc = "head", ![l].processing = None]
    /\ UNCHANGED <<topo, segmentVars, portVars, snd>>

(* Listener::close() from another thread: close_listener() sets the flag   *)
(* under the mutex ...                                                     *)
CloseListener(l) ==
    /\ l \in topo.closed /\ lst[l].closing = "open" /\ lst[l].pc # "off" /\ ~lock[PortOf(l)]
    /\ lst' = [lst EXCEPT ![l].closing = "closed"]
    /\ UNCHANGED <<topo, segmentVars, portVars, snd>>

(* ... and notifies without it. *)
CloseNotify(l) ==
    /\ lst[l].closing = "closed"
    /\ lst' = [PostAll(PortOf(l)) EXCEPT ![l].closing = "notified"]
    /\ UNCHANGED <<topo, segmentVars, portVars, snd>>

(* ~Listener(), after the thread was joined: Port::unregister_listener(). *)
UnregisterListener(l) ==
    LET p == PortOf(l)
    IN  /\ lst[l].pc = "left" /\ lst[l].closing = "notified" /\ ~lock[p]
        /\ ring' = [ring EXCEPT ![p] = Unregistered(@, CellsAhead(l))]
        /\ lst' = [lst EXCEPT ![l].pc = "off", ![l].processing = None]
        /\ UNCHANGED <<topo, segmentVars, waiting_count, lock, snd>>

-----------------------------------------------------------------------------
SenderStep(s) ==
    \/ RecoverCheck(s) \/ RecoverInvalidate(s) \/ RecoverOverflow(s)
    \/ RecoverSecond(s) \/ RecoverNode(s)
    \/ \E fits \in BOOLEAN : AllocFails(s, fits)
    \/ AllocBuffer(s)
    \/ IncEnqueuedCount(s) \/ PushReserve(s) \/ PushPublish(s) \/ Notify(s)
    \/ DecEnqueuedCount(s) \/ ReleaseBuffer(s)

ListenerStep(l) ==
    \/ LookAtHead(l) \/ WaitPop(l) \/ WakeUp(l, TRUE)
    \/ PopCell(l) \/ FreeCell(l) \/ ListenerProcessingStart(l) \/ CountProcessing(l)
    \/ MessageReset(l) \/ ListenerProcessingStop(l)

CloserStep(l) == CloseNotify(l) \/ UnregisterListener(l)

Next ==
    \/ \E s \in Senders : Send(s) \/ SenderStep(s)
    \/ \E l \in Listeners :
          \/ CreateListener(l) \/ ListenerStep(l) \/ WakeUp(l, FALSE)
          \/ CloseListener(l) \/ CloserStep(l)

Spec == Init /\ [][Next]_shmVars

(* Threads run; neither a new datagram nor a timeout may be relied on.     *)
FairSpec ==
    /\ Spec
    /\ \A s \in Senders : WF_shmVars(SenderStep(s))
    /\ \A l \in Listeners : WF_shmVars(ListenerStep(l)) /\ WF_shmVars(CloserStep(l))

-----------------------------------------------------------------------------
(* Nodes are either free or allocated, and counts are never negative: the  *)
(* fields are unsigned, a decrement of 0 would lock a buffer for ever.     *)
TypeOK ==
    /\ \A n \in Nodes : status[n].validity \in 0..topo.messages /\ status[n].enqueued >= 0
                        /\ status[n].processing >= 0
    /\ \A s \in Senders :
          /\ ToSet(free_buffers[s]) \cup ToSet(allocated_buffers[s]) = {s} \X (1..topo.nodes)
          /\ Len(free_buffers[s]) + Len(allocated_buffers[s]) = topo.nodes
          /\ FreeBytes(s) >= 0
    /\ \A p \in Ports : /\ ring[p].free_cells \in 0..Cells
                        /\ ring[p].registered = Cardinality({l \in ListenersOf(p) : lst[l].pc # "off"})
                        /\ waiting_count[p] = Cardinality({l \in ListenersOf(p) : lst[l].pc = "asleep"})

Intact(d) == content[d.node] = d.msg /\ status[d.node].validity = d.validity

(* No datagram is overwritten under a listener of a unicast port ("When    *)
(* listener processes start processing this buffer increments the          *)
(* processing_count. This way the sender can know whether the buffer is    *)
(* been processed"), also when the buffer went to multicast ports as well. *)
UnicastIsIntact ==
    \A l \in topo.listeners :
        Exclusive(PortOf(l)) /\ lst[l].pc = "process" => Intact(lst[l].desc)

(* The ring never loses or frees a cell early: a cell counts the listeners *)
(* it is still ahead of, as they come, pop and go, and free_cells counts   *)
(* what no listener needs.                                                 *)
CellsExact ==
    \A p \in Ports :
        LET r == ring[p]
            pushing == {s \in Senders : snd[s].pc = "publish" /\ Target(s) = p}
            reserved == {snd[s].slot : s \in pushing}
            live == {l \in ListenersOf(p) : lst[l].pc # "off"}
        IN  /\ \A i \in DOMAIN r.cells \ reserved :
                  r.cells[i].ref = Cardinality({l \in live : i \in CellsAhead(l)})
            /\ r.free_cells + Cardinality({i \in DOMAIN r.cells : r.cells[i].ref > 0})
                 + Cardinality(reserved)
                 + Cardinality({l \in live : lst[l].pc = "free"}) = Cells

(* What is in the ring is popped, and closing a listener ends its thread,  *)
(* which clear() then joins: both without the help of timeouts.            *)
Pending(l) ==
    /\ l \in topo.listeners /\ lst[l].pc # "off"
    /\ lst[l].closing # "open" \/ HasHead(l)

ListenerResponds == \A l \in Listeners : Pending(l) ~> ~Pending(l)

(* Whatever senders, listeners and closers do at a time, the references of *)
(* cells, free_cells and the free and used buffers are exact: no cell or   *)
(* buffer leaks or is freed twice.  Of enqueued_count and processing_count *)
(* it only says that they do not go below 0: a listener that unregisters   *)
(* leaves an enqueued_count behind, which the recovery of the buffer       *)
(* clears.                                                                 *)
CountsExact == TypeOK /\ CellsExact

=============================================================================
