---------------------------- MODULE HSDirSelect ----------------------------
(***************************************************************************)
(* onion.SelectHSDirs: the HSDirs responsible for an onion service's      *)
(* descriptor (rend-spec-v3 2.2.3).  The relays of the hash ring are named *)
(* by their position 0..n-1 after the sort by relay index; the SHA3        *)
(* service index of each replica is abstracted to the position sort.Search *)
(* returns for it (0..n, where n means past the last relay).  The loops    *)
(* are modelled step by step, one iteration of the inner loop per step.    *)
(***************************************************************************)
EXTENDS Integers, Sequences, FiniteSets, SequencesExt

CONSTANTS
    NReplicas,      \* hsdirNReplicas (2)
    Spread,         \* hsdirSpreadFetch (3)
    RingSizes,      \* numbers of HSDir relays in the consensus to try
    VAs             \* consensus valid-after times to try (hours since the epoch)

ASSUME NReplicas \in Nat \ {0} /\ Spread \in Nat \ {0} /\ RingSizes \subseteq Nat
ASSUME VAs \subseteq Nat \ 0..11

Replicas == 1..NReplicas

VARIABLES
    cons,       \* the consensus: valid-after, and which SRVs it carries
    srv,        \* the SRV ResolveOnionService passes in: the day whose
                \* 00:00 vote produced it, NoSrv when there is none
    n,          \* len(ring)
    start,      \* per replica: sort.Search's result for its service index
    pc,         \* "begin","replica","loop","end","done","error"
    replica, count,
    offset,     \* offset, kept modulo n: it is only used as (start+offset)%n
    selected,   \* the selected map, as a set of ring positions
    result      \* the result slice

vars == <<cons, srv, n, start, pc, replica, count, offset, selected, result>>

ConsIn == [va : VAs, cur : BOOLEAN, prev : BOOLEAN]
NoSrv == -1

\* blind.TimePeriod with the default length of 1440 minutes and the
\* rotation offset of 720 (Go's division truncates; valid-after is past
\* the epoch's first 12 hours, where it agrees with \div).
TimePeriod(h) == (h * 60 - 720) \div 1440

\* Mutant: the previous SRV is used until 12:00 inclusive.
GetSRVForClientNoon(c) ==
    LET day == c.va \div 24 IN
    IF c.va % 24 > 12 THEN IF c.cur THEN day ELSE NoSrv
    ELSE IF c.prev THEN day - 1 ELSE IF c.cur THEN day ELSE NoSrv

\* GetSRVForClient: the current SRV (computed at 00:00 of the valid-after
\* day) from 12:00, the previous one before, falling back to the current.
GetSRVForClient(c) ==
    LET day == c.va \div 24 IN
    IF c.va % 24 >= 12 THEN IF c.cur THEN day ELSE NoSrv
    ELSE IF c.prev THEN day - 1 ELSE IF c.cur THEN day ELSE NoSrv

TypeOK ==
    /\ cons \in ConsIn /\ srv \in Int /\ n \in RingSizes
    /\ start \in [Replicas -> 0..n]
    /\ pc \in {"begin", "replica", "loop", "end", "done", "error"}
    /\ replica \in 1..NReplicas + 1
    /\ count \in 0..Spread /\ offset \in 0..n
    /\ selected \subseteq 0..n - 1 /\ result \in Seq(0..n - 1)

\* Any consensus and any blinded key: every ring size, every start position.
Init ==
    /\ cons \in ConsIn /\ srv = NoSrv
    /\ n \in RingSizes
    /\ start \in [Replicas -> 0..n]
    /\ pc = "begin"
    /\ replica = 1 /\ count = 0 /\ offset = 0
    /\ selected = {} /\ result = <<>>

\* ResolveOnionService's GetSRVForClient, then SelectHSDirs' SRV check,
\* building and sorting the ring.
Begin ==
    /\ pc = "begin"
    /\ srv' = GetSRVForClient(cons)
    /\ pc' = IF srv' = NoSrv \/ n = 0 THEN "error" ELSE "replica"
    /\ UNCHANGED <<cons, n, start, replica, count, offset, selected, result>>

\* The head of the replica loop.
ReplicaStart ==
    /\ pc = "replica"
    /\ IF replica <= NReplicas
       THEN /\ pc' = "loop"
            /\ count' = 0 /\ offset' = 0
       ELSE /\ pc' = "end"
            /\ UNCHANGED <<count, offset>>
    /\ UNCHANGED <<cons, srv, n, start, replica, selected, result>>

\* Mutant: the loop runs while count <= Spread.
PickOffByOne ==
    /\ pc = "loop" /\ count <= Spread
    /\ LET pos == (start[replica] + offset) % n IN
       /\ offset' = (offset + 1) % n
       /\ IF pos \in selected
          THEN UNCHANGED <<pc, replica, count, selected, result>>
          ELSE /\ selected' = selected \cup {pos}
               /\ result' = Append(result, pos)
               /\ count' = count + 1
               /\ IF Cardinality(selected') >= n
                  THEN pc' = "replica" /\ replica' = replica + 1
                  ELSE UNCHANGED <<pc, replica>>
    /\ UNCHANGED <<cons, srv, n, start>>

\* Mutant: relays already selected are not skipped.
PickNoSkip ==
    /\ pc = "loop" /\ count < Spread
    /\ LET pos == (start[replica] + offset) % n IN
       /\ offset' = (offset + 1) % n
       /\ selected' = selected \cup {pos}
       /\ result' = Append(result, pos)
       /\ count' = count + 1
       /\ IF Cardinality(selected') >= n
          THEN pc' = "replica" /\ replica' = replica + 1
          ELSE UNCHANGED <<pc, replica>>
    /\ UNCHANGED <<cons, srv, n, start>>

\* One iteration of the inner loop: look at the next ring position; skip
\* a relay already selected; otherwise select it, and leave the loop early
\* once every relay of the ring has been selected.
Pick ==
    /\ pc = "loop" /\ count < Spread
    /\ LET pos == (start[replica] + offset) % n IN
       /\ offset' = (offset + 1) % n
       /\ IF pos \in selected
          THEN UNCHANGED <<pc, replica, count, selected, result>>
          ELSE /\ selected' = selected \cup {pos}
               /\ result' = Append(result, pos)
               /\ count' = count + 1
               /\ IF Cardinality(selected') >= n
                  THEN pc' = "replica" /\ replica' = replica + 1
                  ELSE UNCHANGED <<pc, replica>>
    /\ UNCHANGED <<cons, srv, n, start>>

\* The inner loop ends when Spread relays were taken for this replica.
LoopDone ==
    /\ pc = "loop" /\ count >= Spread
    /\ pc' = "replica" /\ replica' = replica + 1
    /\ UNCHANGED <<cons, srv, n, start, count, offset, selected, result>>

\* After the replicas: an empty result is an error.
End ==
    /\ pc = "end"
    /\ pc' = IF result = <<>> THEN "error" ELSE "done"
    /\ UNCHANGED <<cons, srv, n, start, replica, count, offset, selected, result>>

Next == Begin \/ ReplicaStart \/ Pick \/ LoopDone \/ End

\* SelectHSDirs is straight-line code in one goroutine: it keeps running.
Spec == Init /\ [][Next]_vars /\ WF_vars(Next)

-----------------------------------------------------------------------------
(* Reference: rend-spec-v3 2.2.3, for each replica the first Spread        *)
(* relays of the ring from its start, going round at most once and         *)
(* skipping relays an earlier pick already chose.                          *)

RECURSIVE Walk(_, _, _, _)
Walk(st, o, k, sel) ==
    IF k = 0 \/ o = n THEN <<>>
    ELSE LET p == (st + o) % n IN
         IF p \in sel THEN Walk(st, o + 1, k, sel)
         ELSE <<p>> \o Walk(st, o + 1, k - 1, sel \cup {p})

RECURSIVE RefFrom(_, _)
RefFrom(r, acc) ==
    IF r > NReplicas THEN acc
    ELSE RefFrom(r + 1, acc \o Walk(start[r], 0, Spread, ToSet(acc)))

Responsible == RefFrom(1, <<>>)

\* When SelectHSDirs returns a result, it is exactly the responsible HSDirs
\* of rend-spec-v3, in replica order, without repetition.
SelectsResponsible == pc = "done" => result = Responsible

\* The client searches the ring the service stored its descriptor on: when
\* the consensus carries both SRVs, the SRV ResolveOnionService uses is the
\* one that was current when the time period of valid-after began (a time
\* period starts at 12:00 on the day of the same number), rend-spec-v3
\* 2.2.4.1.  GetSRVForClient decides by the hour and TimePeriod by the
\* minute count; both must name the same day.
SameSrvAsService ==
    (pc \notin {"begin", "error"} /\ cons.cur /\ cons.prev) => srv = TimePeriod(cons.va)

\* SelectHSDirs returns (a result or an error).  It does not for rings of at
\* most 3 HSDirs (hsdir.go:67-80), so no kept run checks it (README).
Terminates == <>(pc \in {"done", "error"})

=============================================================================
