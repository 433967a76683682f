-------------------------------- MODULE Wire --------------------------------
(***************************************************************************)
(* The network between one writer and its remote readers, as the RTPS code *)
(* sees it: a datagram may be lost, delivered twice, or overtaken by a     *)
(* later one.  A submessage that was sent stays in the set and may be      *)
(* handled any number of times, at any time, or never.                     *)
(***************************************************************************)
EXTENDS Integers, FiniteSetsExt

CONSTANTS
    Readers,            \* the remote readers
    Irrelevant,         \* <<reader, number>> pairs the reader's filter drops
    MayUnmatch          \* discovery may unmatch a reader and the writer

ASSUME WireAssumption == Irrelevant \subseteq Readers \X Nat /\ MayUnmatch \in BOOLEAN

VARIABLES
    toReader,           \* submessages sent to each reader
    toWriter            \* submessages sent by each reader to the writer

wireVars == <<toReader, toWriter>>

(* change_is_relevant_for_filter(), the same on both sides. *)
Relevant(r, seq) == <<r, seq>> \notin Irrelevant

Data(seq) == [type |-> "DATA", seq |-> seq]

Gap(seqs) == [type |-> "GAP", seqs |-> seqs]

Heartbeat(first, last, count, final, liveliness) ==
    [type |-> "HEARTBEAT", first |-> first, last |-> last, count |-> count,
     final |-> final, liveliness |-> liveliness]

Acknack(base, seqs, count, final) ==
    [type |-> "ACKNACK", base |-> base, seqs |-> seqs, count |-> count, final |-> final]

ToReaderMessage ==
    [type : {"DATA"}, seq : Nat] \cup
    [type : {"GAP"}, seqs : SUBSET Nat] \cup
    [type : {"HEARTBEAT"}, first : Nat, last : Nat, count : Nat,
     final : BOOLEAN, liveliness : BOOLEAN]

ToWriterMessage ==
    [type : {"ACKNACK"}, base : Nat, seqs : SUBSET Nat, count : Nat, final : BOOLEAN]

WireInit ==
    /\ toReader = [r \in Readers |-> {}]
    /\ toWriter = [r \in Readers |-> {}]

(* msgs[r] are the submessages the writer sends to reader r. *)
SendToReaders(msgs) ==
    /\ toReader' = [r \in Readers |-> toReader[r] \cup msgs[r]]
    /\ UNCHANGED toWriter

SendToWriter(r, m) ==
    /\ toWriter' = [toWriter EXCEPT ![r] = @ \cup {m}]
    /\ UNCHANGED toReader

=============================================================================
