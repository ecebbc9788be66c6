--------------------------- MODULE MCSinkConsumer ---------------------------
(* SinkConsumer for TLC. *)
EXTENDS SinkConsumer

\* All entries in one stream; the last one in another.
OneStream == [e \in Entries |-> 1]
TwoStreams == [e \in Entries |-> IF e = MaxEntries THEN 2 ELSE 1]

=============================================================================
