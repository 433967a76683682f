--------------------------- MODULE MCDataSharing ---------------------------
(* Instances of DataSharing for TLC. *)
EXTENDS DataSharing

(* Nothing is lost: the writer waits for acknowledgements, the reader has room. *)
KeepAll == [keep_all |-> TRUE, depth |-> 1, expires |-> FALSE, limit |-> 4, replaces |-> FALSE,
            writes |-> 4]

(* The same with a reader that keeps one sample. *)
KeepAllLast == [KeepAll EXCEPT !.depth = 2, !.limit = 1, !.replaces = TRUE]

(* The writer overtakes the reader by more than a loop of the ring. *)
KeepLast == [KeepAll EXCEPT !.keep_all = FALSE, !.limit = 1, !.replaces = TRUE]

(* Samples expire, in any order. *)
Lifespan == [KeepAllLast EXCEPT !.keep_all = FALSE, !.expires = TRUE, !.writes = 3]
LifespanAll == [Lifespan EXCEPT !.keep_all = TRUE]

(* A reader with KEEP_ALL and room for one sample rejects the others. *)
FullReader == [KeepAll EXCEPT !.limit = 1, !.writes = 3]

AllDeployments == {KeepAll, FullReader, KeepAllLast, KeepLast, Lifespan, LifespanAll}

=============================================================================
