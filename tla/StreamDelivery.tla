--------------------------- MODULE StreamDelivery ---------------------------
(***************************************************************************)
(* What a Tor stream promises its reader (stream.Stream.Read used as an    *)
(* io.Reader by the SOCKS proxy): the DATA the exit sends on a stream is   *)
(* delivered in order, nothing is delivered that was not sent, and the     *)
(* reader sees io.EOF only after the exit ended the stream and everything  *)
(* it sent has been delivered.  A stream may also stop early with an error *)
(* (stuttering here).  Cells are indistinguishable units, so in-order      *)
(* delivery over an ordered circuit is captured by counts.                 *)
(***************************************************************************)
EXTENDS Naturals

CONSTANTS Streams

VARIABLES
    sent,       \* DATA cells the exit has sent on each stream
    delivered,  \* DATA cells Read has returned on each stream
    finished,   \* the exit has sent RELAY_END on the stream
    eof         \* Read has returned io.EOF on the stream

vars == <<sent, delivered, finished, eof>>

Init ==
    /\ sent = [s \in Streams |-> 0]
    /\ delivered = [s \in Streams |-> 0]
    /\ finished = [s \in Streams |-> FALSE]
    /\ eof = [s \in Streams |-> FALSE]

Send(s) ==
    /\ ~finished[s]
    /\ sent' = [sent EXCEPT ![s] = @ + 1]
    /\ UNCHANGED <<delivered, finished, eof>>

Finish(s) ==
    /\ ~finished[s]
    /\ finished' = [finished EXCEPT ![s] = TRUE]
    /\ UNCHANGED <<sent, delivered, eof>>

Deliver(s) ==
    /\ delivered[s] < sent[s]
    /\ delivered' = [delivered EXCEPT ![s] = @ + 1]
    /\ UNCHANGED <<sent, finished, eof>>

Eof(s) ==
    /\ finished[s] /\ ~eof[s]
    /\ delivered[s] = sent[s]
    /\ eof' = [eof EXCEPT ![s] = TRUE]
    /\ UNCHANGED <<sent, delivered, finished>>

Next == \E s \in Streams : Send(s) \/ Finish(s) \/ Deliver(s) \/ Eof(s)

Spec == Init /\ [][Next]_vars

=============================================================================
