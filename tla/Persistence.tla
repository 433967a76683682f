------------------------------ MODULE Persistence ------------------------------
(***************************************************************************)
(* A persistent writer and a persistent reader (StatefulPersistentWriter,  *)
(* PersistentWriter, StatefulPersistentReader, BaseReader and the          *)
(* SQLite3PersistenceService) whose processes crash and start again.       *)
(*                                                                         *)
(* A writer that starts again has a new GUID and the same persistence      *)
(* GUID: the number of the start stands for the GUID.  The reader keeps a  *)
(* WriterProxy for each GUID and one record for the persistence GUID.  An  *)
(* SQL statement is atomic and durable; between two of them, and between a *)
(* statement and what follows it, a process may crash.                     *)
(*                                                                         *)
(* Of the protocol, modelled in ReliableRTPS, this module has DATA that is *)
(* in flight, also over a crash of its sender, and takes HEARTBEAT and GAP *)
(* submessages of a live writer as received when they are sent.            *)
(***************************************************************************)
EXTENDS Integers, Sequences, FiniteSets, Functions

CONSTANTS
    MaxWrites,          \* bound: samples written over all starts
    WriterCrashes,      \* bound
    ReaderCrashes,      \* bound
    MaxInFlight         \* bound: DATA in flight

ASSUME PersistenceAssumption ==
    {MaxWrites, WriterCrashes, ReaderCrashes, MaxInFlight} \subseteq Nat

Guids == 1..(WriterCrashes + 1)
Numbers == 1..MaxWrites

VARIABLES
    db,         \* writers_states, writers_histories and readers of the database
    \* the process of the writer
    guid,       \* of the writer: the number of its starts
    wpc,        \* where its thread is; "down": crashed
    wseq,       \* the sample its thread works on
    history,    \* m_changes: sequence number -> sample
    last_seq,   \* m_lastCacheChangeSeqNum
    \* the process of the reader
    rpc,        \* where its thread is; "down": crashed
    rguid,      \* the proxy its thread works on
    proxy,      \* WriterProxy of each GUID: matched, low_mark, ahead
    record,     \* history_record of the persistence GUID
    rhist,      \* samples received and not notified: GUID, number, sample
    \* the network
    net,        \* DATA in flight: GUID, number, sample
    \* history variables
    writes,     \* number of samples written
    got,        \* what the user of the reader was notified of
    in_doubt,   \* numbers that were recorded when a crash kept them from the user
    overlapped, \* two proxies of the persistence GUID were matched at a time
    crashes     \* of the reader

writerVars == <<guid, wpc, wseq, history, last_seq>>
readerVars == <<rpc, rguid, proxy, record, rhist>>
ghosts == <<got, in_doubt, overlapped, crashes>>
pVars == <<db, writerVars, readerVars, net, writes, ghosts>>

Unmatched == [matched |-> FALSE, low_mark |-> 0, ahead |-> {}]

Init ==
    /\ db = [last_seq |-> 0, history |-> <<>>, record |-> 0]
    /\ guid = 1 /\ wpc = "idle" /\ wseq = 0 /\ history = <<>> /\ last_seq = 0
    /\ rpc = "idle" /\ rguid = 0 /\ proxy = [g \in Guids |-> Unmatched] /\ record = 0
    /\ rhist = {} /\ net = {}
    /\ writes = 0 /\ got = <<>> /\ in_doubt = {} /\ overlapped = FALSE /\ crashes = 0

-----------------------------------------------------------------------------
(* The writer *)

(* A history with one more sample. *)
With(h, seq, sample) == [s \in DOMAIN h \cup {seq} |-> IF s = seq THEN sample ELSE h[s]]

(* WriterHistory::prepare_and_add_change(), up to the call of              *)
(* unsent_change_added_to_history().                                       *)
AddChange ==
    /\ wpc = "idle" /\ writes < MaxWrites
    /\ writes' = writes + 1
    /\ last_seq' = last_seq + 1
    /\ history' = With(history, last_seq + 1, writes + 1)
    /\ wseq' = last_seq + 1 /\ wpc' = "store_state"
    /\ UNCHANGED <<db, guid, readerVars, net, ghosts>>

(* add_writer_change_to_storage(): INSERT OR REPLACE INTO writers_states, ... *)
UpdateLastSeq ==
    /\ wpc = "store_state" /\ wpc' = "store_change"
    /\ db' = [db EXCEPT !.last_seq = wseq]
    /\ UNCHANGED <<guid, wseq, history, last_seq, readerVars, net, writes, ghosts>>

(* ... then INSERT INTO writers_histories. *)
InsertChange ==
    /\ wpc = "store_change" /\ wpc' = "send"
    /\ db' = [db EXCEPT !.history = With(@, wseq, history[wseq])]
    /\ UNCHANGED <<guid, wseq, history, last_seq, readerVars, net, writes, ghosts>>

(* DATA that is sent may get lost. *)
Sent(s) ==
    net' \in {net} \cup (IF Cardinality(net) < MaxInFlight THEN {net \cup {<<guid, s, history[s]>>}}
                         ELSE {})

(* StatefulWriter::unsent_change_added_to_history() *)
SendChange ==
    /\ wpc = "send" /\ wpc' = "idle" /\ wseq' = 0
    /\ Sent(wseq)
    /\ UNCHANGED <<db, guid, history, last_seq, readerVars, writes, ghosts>>

(* A sample is requested by the reader and sent again. *)
Resend ==
    /\ wpc = "idle" /\ rpc # "down" /\ proxy[guid].matched
    /\ \E s \in DOMAIN history : s > proxy[guid].low_mark /\ s \notin proxy[guid].ahead /\ Sent(s)
    /\ UNCHANGED <<db, writerVars, readerVars, writes, ghosts>>

(* A sample is replaced or expires, which need not be the oldest:          *)
(* StatefulPersistentWriter::change_removed_by_history() deletes it from   *)
(* the database ...                                                        *)
RemoveChange ==
    /\ wpc = "idle" /\ wpc' = "forget"
    /\ wseq' \in DOMAIN history
    /\ db' = [db EXCEPT !.history = Restrict(@, DOMAIN @ \ {wseq'})]
    /\ UNCHANGED <<guid, history, last_seq, readerVars, net, writes, ghosts>>

(* ... and History::remove_change_nts() from the history. *)
ForgetChange ==
    /\ wpc = "forget" /\ wpc' = "idle" /\ wseq' = 0
    /\ history' = Restrict(history, DOMAIN history \ {wseq})
    /\ UNCHANGED <<db, guid, last_seq, readerVars, net, writes, ghosts>>

CrashWriter ==
    /\ wpc # "down" /\ guid <= WriterCrashes
    /\ wpc' = "down" /\ wseq' = 0 /\ history' = <<>> /\ last_seq' = 0
    /\ UNCHANGED <<db, guid, readerVars, net, writes, ghosts>>

(* Mutant: the samples are not loaded. *)
RestartWriterUnloaded ==
    /\ wpc = "down" /\ wpc' = "idle"
    /\ guid' = guid + 1
    /\ history' = <<>> /\ last_seq' = db.last_seq
    /\ UNCHANGED <<db, wseq, readerVars, net, writes, ghosts>>

(* Mutant: numbers continue from the last sample that is stored. *)
RestartWriterAfterHistory ==
    /\ wpc = "down" /\ wpc' = "idle"
    /\ guid' = guid + 1
    /\ history' = db.history
    /\ last_seq' \in {0} \cup DOMAIN db.history /\ \A s \in DOMAIN db.history : s <= last_seq'
    /\ UNCHANGED <<db, wseq, readerVars, net, writes, ghosts>>

(* PersistentWriter() with load_writer_from_storage() *)
RestartWriter ==
    /\ wpc = "down" /\ wpc' = "idle"
    /\ guid' = guid + 1
    /\ history' = db.history /\ last_seq' = db.last_seq
    /\ UNCHANGED <<db, wseq, readerVars, net, writes, ghosts>>

-----------------------------------------------------------------------------
(* The reader *)

(* matched_writer_add_edp() with add_persistence_guid(): the proxy starts  *)
(* at the record of the persistence GUID.                                  *)
MatchedWriterAdd ==
    /\ wpc # "down" /\ rpc = "idle" /\ ~proxy[guid].matched
    /\ proxy' = [proxy EXCEPT ![guid] = [matched |-> TRUE, low_mark |-> record, ahead |-> {}]]
    /\ overlapped' = (overlapped \/ \E g \in Guids \ {guid} : proxy[g].matched)
    /\ UNCHANGED <<db, writerVars, rpc, rguid, record, rhist, net, writes, got, in_doubt,
                   crashes>>

(* matched_writer_remove() when the lease of a process that crashed        *)
(* expires; may_remove_history_record() of a persistent reader is false.   *)
MatchedWriterRemove(g) ==
    /\ rpc = "idle" /\ proxy[g].matched /\ (g # guid \/ wpc = "down")
    /\ proxy' = [proxy EXCEPT ![g] = Unmatched]
    /\ rhist' = {c \in rhist : c[1] = g => c[2] <= record}
    /\ UNCHANGED <<db, writerVars, rpc, rguid, record, net, writes, ghosts>>

(* A WriterProxy that hears of the numbers in S, or that all up to low are *)
(* gone, moves its low mark up to the first number that is missing.        *)
Heard(p, S, low) ==
    LET ahead == {s \in p.ahead \cup S : s > low}
        marks == {m \in {low} \cup ahead : (low + 1)..m \subseteq ahead /\ m + 1 \notin ahead}
    IN  {[p EXCEPT !.low_mark = m, !.ahead = {s \in ahead : s > m}] : m \in marks}

(* NotifyChanges() follows with the reader's mutex held. *)
ThenNotify(g) == rpc' = "record" /\ rguid' = g

(* process_data_msg() *)
ProcessDataMsg(m) ==
    LET p == proxy[m[1]]
    IN  /\ rpc = "idle" /\ m \in net
        /\ net' = net \ {m}
        /\ IF p.matched /\ m[2] > p.low_mark /\ m[2] \notin p.ahead
           THEN /\ \E q \in Heard(p, {m[2]}, p.low_mark) : proxy' = [proxy EXCEPT ![m[1]] = q]
                /\ rhist' = rhist \cup {m}
                /\ ThenNotify(m[1])
           ELSE UNCHANGED <<proxy, rhist, rpc, rguid>>
        /\ UNCHANGED <<db, writerVars, record, writes, ghosts>>

(* A HEARTBEAT of the live writer: process_heartbeat_msg(). *)
ProcessHeartbeatMsg ==
    LET p == proxy[guid]
    IN  /\ wpc = "idle" /\ rpc = "idle" /\ p.matched
        /\ \E first \in DOMAIN history \cup {last_seq + 1} :
              /\ \A s \in DOMAIN history : first <= s
              /\ first > p.low_mark + 1
              /\ \E q \in Heard(p, {}, first - 1) : proxy' = [proxy EXCEPT ![guid] = q]
        /\ ThenNotify(guid)
        /\ UNCHANGED <<db, writerVars, record, rhist, net, writes, ghosts>>

(* A GAP for a number that the live writer does not have: process_gap_msg(). *)
ProcessGapMsg ==
    LET p == proxy[guid]
    IN  /\ wpc = "idle" /\ rpc = "idle" /\ p.matched
        /\ \E s \in (p.low_mark + 1)..last_seq :
              /\ s \notin DOMAIN history \cup p.ahead
              /\ \E q \in Heard(p, {s}, p.low_mark) : proxy' = [proxy EXCEPT ![guid] = q]
        /\ ThenNotify(guid)
        /\ UNCHANGED <<db, writerVars, record, rhist, net, writes, ghosts>>

(* Mutant: the record that is stored is the one before. *)
PersistLastNotifiedLate ==
    /\ rpc = "record" /\ rpc' = "notify"
    /\ record' = IF record < proxy[rguid].low_mark THEN proxy[rguid].low_mark ELSE record
    /\ db' = [db EXCEPT !.record = record]
    /\ UNCHANGED <<writerVars, rguid, proxy, rhist, net, writes, ghosts>>

(* Mutant: the record is not compared. *)
PersistLastNotifiedAlways ==
    LET seq == proxy[rguid].low_mark
    IN  /\ rpc = "record" /\ rpc' = "notify"
        /\ record' = seq /\ db' = [db EXCEPT !.record = seq]
        /\ UNCHANGED <<writerVars, rguid, proxy, rhist, net, writes, ghosts>>

(* update_last_notified() and persist_last_notified_nts() *)
PersistLastNotified ==
    LET seq == proxy[rguid].low_mark
    IN  /\ rpc = "record" /\ rpc' = "notify"
        /\ IF record < seq THEN record' = seq /\ db' = [db EXCEPT !.record = seq]
           ELSE UNCHANGED <<record, db>>
        /\ UNCHANGED <<writerVars, rguid, proxy, rhist, net, writes, ghosts>>

Available == {c \in rhist : c[1] = rguid /\ c[2] <= proxy[rguid].low_mark}

(* The samples of S in the order of their numbers. *)
InOrder(S) ==
    {q \in UNION {[1..n -> S] : n \in 0..MaxWrites} :
        /\ Range(q) = S /\ IsInjective(q)
        /\ \A i, j \in DOMAIN q : i < j => q[i][1] <= q[j][1]}

(* The rest of NotifyChanges(): the listener, in the order of the numbers. *)
NotifyListener ==
    /\ rpc = "notify" /\ rpc' = "idle" /\ rguid' = 0
    /\ \E q \in InOrder({<<c[2], c[3]>> : c \in Available}) : got' = got \o q
    /\ rhist' = rhist \ Available
    /\ UNCHANGED <<db, writerVars, proxy, record, net, writes, in_doubt, overlapped, crashes>>

(* Mutant: without the mutex of the reader. *)
AcknackMarksUnlocked == {proxy[g].low_mark : g \in {h \in Guids : proxy[h].matched}}

(* send_acknack(), which takes the reader's mutex: the marks that the      *)
(* ACKNACK of a proxy may acknowledge now.  It changes nothing here.       *)
AcknackMarks ==
    {proxy[g].low_mark : g \in {h \in Guids : rpc = "idle" /\ proxy[h].matched}}

CrashReader ==
    /\ rpc # "down" /\ crashes < ReaderCrashes
    /\ crashes' = crashes + 1
    /\ in_doubt' = IF rpc = "notify" THEN in_doubt \cup {c[2] : c \in Available} ELSE in_doubt
    /\ rpc' = "down" /\ rguid' = 0 /\ proxy' = [g \in Guids |-> Unmatched] /\ record' = 0
    /\ rhist' = {}
    /\ UNCHANGED <<db, writerVars, net, writes, got, overlapped>>

(* StatefulPersistentReader() with load_reader_from_storage() *)
RestartReader ==
    /\ rpc = "down" /\ rpc' = "idle"
    /\ record' = db.record
    /\ UNCHANGED <<db, writerVars, rguid, proxy, rhist, net, writes, ghosts>>

-----------------------------------------------------------------------------
WriterStep == UpdateLastSeq \/ InsertChange \/ SendChange \/ ForgetChange \/ RestartWriter
ReaderStep ==
    \/ ProcessHeartbeatMsg \/ ProcessGapMsg \/ PersistLastNotified \/ NotifyListener
    \/ RestartReader
Receive == \E m \in net : ProcessDataMsg(m)

Next ==
    \/ WriterStep \/ AddChange \/ Resend \/ RemoveChange \/ CrashWriter
    \/ ReaderStep \/ MatchedWriterAdd \/ \E g \in Guids : MatchedWriterRemove(g)
    \/ Receive \/ CrashReader

Spec == Init /\ [][Next]_pVars

FairSpec ==
    /\ Spec
    /\ WF_pVars(WriterStep) /\ WF_pVars(ReaderStep)
    /\ SF_pVars(MatchedWriterAdd) /\ SF_pVars(Receive)
    /\ SF_pVars(Resend /\ net' # net)

-----------------------------------------------------------------------------
Notified == {got[i][1] : i \in DOMAIN got}

(* Between operations the database has what the writer has. *)
StorageMirrors ==
    wpc = "idle" => db.history = history /\ db.last_seq = last_seq

(* What a reader got or may get, with its number: what is in flight,       *)
(* received, notified or stored.                                           *)
Seen ==
    {<<c[2], c[3]>> : c \in net \cup rhist} \cup Range(got)
        \cup {<<s, db.history[s]>> : s \in DOMAIN db.history}

(* A sequence number is never given to two samples that a reader may get,  *)
(* wherever the writer crashes.                                            *)
NumberNotReused == \A c, d \in Seen : c[1] = d[1] => c[2] = d[2]

(* No reader has a record above what the writer will continue from: it     *)
(* would drop the next samples as old ones.                                *)
RecordIsStored == db.record <= db.last_seq

(* The user is notified in order and at most once, over all crashes of     *)
(* either side, if a writer that starts again is matched after the lease   *)
(* of its predecessor expired.  Nothing is said once two proxies of the    *)
(* persistence GUID were matched at a time: a late DATA of the old one is  *)
(* then notified a second time.                                            *)
NotifiedOnce ==
    ~overlapped => \A i, j \in DOMAIN got : i < j => got[i][1] < got[j][1]

(* What a reader acknowledges is on record: one that starts again does not *)
(* ask for a sample that the writer was free to remove.                    *)
AckedIsRecorded == \A seq \in AcknackMarks : seq <= db.record

(* A sample the writer still has and the record has passed was notified,   *)
(* but for what was between record and notification at a crash.            *)
OnlyInDoubtIsSkipped ==
    \A s \in DOMAIN db.history :
        s <= db.record => s \in Notified \cup in_doubt \/ rpc = "notify"

(* What is stored is notified in the end, or removed, or in doubt: crashes *)
(* do not lose it.                                                         *)
StoredIsNotified ==
    \A s \in Numbers : []<>(s \in DOMAIN db.history => s \in Notified \cup in_doubt)

(* Wherever a process crashes, what it starts again from agrees: history   *)
(* and last number of the writer, record and acknowledgements of the       *)
(* reader.                                                                 *)
DatabaseAgrees == StorageMirrors /\ RecordIsStored /\ AckedIsRecorded

(* The record that is stored never falls, so what was acknowledged stays   *)
(* on record over all crashes.  The proxy of an earlier start that lags    *)
(* behind that of the present one, and notifies after it, does not set it  *)
(* back (update_last_notified()).                                          *)
RecordNeverFalls == [][db'.record >= db.record]_pVars

(* No sample is notified twice, unless two proxies of the persistence GUID *)
(* were matched at a time, and none is passed over but what a crash caught *)
(* between its record and its notification.                                *)
NotifiedExactlyOnce == NotifiedOnce /\ OnlyInDoubtIsSkipped

=============================================================================
