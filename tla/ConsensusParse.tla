--------------------------- MODULE ConsensusParse ---------------------------
(***************************************************************************)
(* main's validateAndParseConsensus on the text FetchConsensus returned:  *)
(* ValidateSignatures over the signed content, ParseConsensus over the     *)
(* whole text, ValidateFreshness, SaveConsensus.  A consensus text is a    *)
(* sequence of lines; each line is a record of the fields the parser       *)
(* reads from it (a time, a relay name, a digest, a set of flags).  A      *)
(* directory-signature line carries the content its signature was made    *)
(* over and the authority key that made it, so RSA verification is        *)
(* "made by a certified key over exactly this content".  Time is in hours; *)
(* 0 is the zero time.                                                     *)
(***************************************************************************)
EXTENDS Integers, Sequences, SequencesExt

CONSTANTS
    Auths,      \* directory authorities, all with genuine key certificates
    Threshold,  \* verified signatures needed (5 in ValidateSignatures)
    Nicks,      \* relays the authorities list
    Evil,       \* a relay of the attacker's
    ConsLife,   \* valid-until minus valid-after (hours)
    MaxTime,    \* hours explored
    MaxTail,    \* lines an attacker appends
    Mitm        \* an on-path attacker answers the plain-HTTP fetch

ASSUME Threshold \in 1..Cardinality(Auths) /\ Mitm \in BOOLEAN

BadTime == -1           \* a time time.Parse rejects
BadInt == -1            \* a Bandwidth= value ParseInt rejects
TimeFields == {"valid-after", "fresh-until", "valid-until"}
SrvFields == {"shared-rand-current-value", "shared-rand-previous-value"}
Useful == {"Running", "Valid", "Guard", "Exit"}
Late == MaxTime + ConsLife + 1

Hdr(f, t) == [k |-> f, v |-> t]
R(n, ok) == [k |-> "r", nick |-> n, ok |-> ok]
M(d) == [k |-> "m", d |-> d]
S(fs) == [k |-> "s", flags |-> fs]
W(b) == [k |-> "w", bw |-> b]
Sig(a, body) == [k |-> "directory-signature", auth |-> a, key |-> a, over |-> body]

\* What the authorities sign at hour h, and the document they serve.
Body(h) ==
    <<Hdr("valid-after", h), Hdr("fresh-until", h + 1),
      Hdr("valid-until", h + ConsLife), Hdr("shared-rand-current-value", h)>>
    \o FlattenSeq([i \in 1..Cardinality(Nicks) |->
                     LET n == SetToSeq(Nicks)[i]
                     IN <<R(n, TRUE), M(n), S(Useful), W(i)>>])
    \o <<[k |-> "bandwidth-weights", ws |-> ("Wgg" :> h)]>>
Doc(h) ==
    Body(h) \o [i \in 1..Cardinality(Auths) |-> Sig(SetToSeq(Auths)[i], Body(h))]

\* Lines an on-path attacker may append after the signatures.
AttackLines ==
    {R(Evil, TRUE), R(Evil, FALSE), M(Evil), S(Useful),
     Hdr("valid-until", Late), Hdr("valid-until", BadTime)}

VARIABLES
    now,    \* the clock
    pc,     \* main: "fetch", "validate", "running", "exit"
    text,   \* the consensus text in hand
    cons,   \* the parsed consensus main goes on with
    cache   \* consensus.json: fresh-until and valid-until

vars == <<now, pc, text, cons, cache>>

----------------------------------------------------------------------------
\* ValidateSignatures: the signed content ends at the first
\* "\ndirectory-signature " line; parseSignatureBlocks yields every
\* signature line of the text.
SignedContent(t) ==
    SubSeq(t, 1, SelectInSeq(t, LAMBDA l : l.k = "directory-signature") - 1)
SignatureBlocks(t) == SelectSeq(t, LAMBDA l : l.k = "directory-signature")

\* Authorities with a signature by their certified key over the content.
Verified(t) ==
    {b.auth : b \in {b \in Range(SignatureBlocks(t)) :
                       b.auth \in Auths /\ b.key = b.auth
                       /\ b.over = SignedContent(t)}}

SignaturesOK(t) ==
    /\ \E i \in 1..Len(t) : t[i].k = "directory-signature"
    /\ Cardinality(Verified(t)) >= Threshold

\* ParseConsensus: one step of the line loop.  st.cur is the relay of the
\* last "r" line (<<>> when there is none or it did not parse).
NewRelay(n) == [nick |-> n, digest |-> "none", flags |-> {}, bw |-> 0]
\* parseFlags sets every flag the "s" line names; parseBandwidth keeps the
\* old value when Bandwidth= does not parse; parseBandwidthWeights merges.
ParseFlags(r, fs) == [r EXCEPT !.flags = @ \cup fs]
ParseBandwidth(r, b) == IF b = BadInt THEN r ELSE [r EXCEPT !.bw = b]
ParseBandwidthWeights(c, ws) == [c EXCEPT !.weights = ws @@ @]
ParseLine(st, l) ==
    IF st.err THEN st
    ELSE CASE l.k \in TimeFields ->
                IF l.v = BadTime THEN [st EXCEPT !.err = TRUE]
                ELSE [st EXCEPT !.c[l.k] = l.v]
           [] l.k \in SrvFields -> [st EXCEPT !.c[l.k] = l.v]
           [] l.k = "r" ->
                [st EXCEPT !.c.relays = @ \o st.cur,
                           !.cur = IF l.ok THEN <<NewRelay(l.nick)>> ELSE <<>>]
           [] l.k = "m" /\ st.cur # <<>> -> [st EXCEPT !.cur[1].digest = l.d]
           [] l.k = "s" /\ st.cur # <<>> -> [st EXCEPT !.cur[1] = ParseFlags(@, l.flags)]
           [] l.k = "w" /\ st.cur # <<>> -> [st EXCEPT !.cur[1] = ParseBandwidth(@, l.bw)]
           [] l.k = "bandwidth-weights" -> [st EXCEPT !.c = ParseBandwidthWeights(@, l.ws)]
           [] OTHER -> st

\* The result is the Consensus, and whether the parse returned an error.
NoConsensus ==
    [f \in TimeFields \cup SrvFields |-> 0] @@ [relays |-> <<>>, weights |-> <<>>]
ParseConsensus(t) ==
    LET st == FoldLeft(ParseLine, [err |-> FALSE, cur |-> <<>>, c |-> NoConsensus], t)
    IN [err |-> st.err, c |-> [st.c EXCEPT !.relays = @ \o st.cur]]

\* ValidateFreshness, with a skew of 5 minutes below the hour granularity.
Fresh(c) ==
    /\ c["valid-after"] # 0 /\ c["valid-until"] # 0
    /\ c["valid-after"] <= now /\ now <= c["valid-until"]

----------------------------------------------------------------------------
Init ==
    /\ now = 1 /\ pc = "fetch" /\ text = <<>> /\ cons = NoConsensus
    /\ cache = [fu |-> 0, vu |-> 0]

Tick ==
    /\ now < MaxTime
    /\ now' = now + 1
    /\ UNCHANGED <<pc, text, cons, cache>>

\* FetchConsensus: the authorities serve the current document; an on-path
\* attacker may serve any document it saw, with lines appended.
FetchConsensus ==
    /\ pc = "fetch"
    /\ \/ text' = Doc(now)
       \/ /\ Mitm
          /\ \E h \in 1..now, tail \in SeqOf(AttackLines, MaxTail) :
                text' = Doc(h) \o tail
    /\ pc' = "validate"
    /\ UNCHANGED <<now, cons, cache>>

\* validateAndParseConsensus; each failure is os.Exit(1).
Validate ==
    /\ pc = "validate"
    /\ LET p == ParseConsensus(text)
           c == p.c
       IN
       IF SignaturesOK(text) /\ ~p.err /\ Fresh(c)
       THEN /\ pc' = "running" /\ cons' = c
            /\ cache' = [fu |-> c["fresh-until"], vu |-> c["valid-until"]]
       ELSE /\ pc' = "exit"
            /\ UNCHANGED <<cons, cache>>
    /\ UNCHANGED <<now, text>>

Next == Tick \/ FetchConsensus \/ Validate

Spec == Init /\ [][Next]_vars

----------------------------------------------------------------------------
\* The consensus main runs with (relays, flags, validity) is the one the
\* authorities signed: ParseConsensus reads nothing that ValidateSignatures
\* did not cover.
UsesSignedContent ==
    pc = "running" => cons = ParseConsensus(SignedContent(text)).c

=============================================================================
