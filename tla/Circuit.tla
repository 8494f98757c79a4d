------------------------------ MODULE Circuit ------------------------------
(***************************************************************************)
(* One Tor circuit as the client (package circuit) and the relays on its  *)
(* path see it.  Each hop has a forward and a backward AES-CTR keystream   *)
(* and a forward and a backward running digest; both ends must consume     *)
(* them in the same order, one step per cell, for the circuit to work.     *)
(*                                                                         *)
(* Data abstraction: a keystream or a running digest is represented by the *)
(* number of cells it has consumed.  A cell records, per hop, the position *)
(* of the keystream that encrypted it and the digest it carries; a relay   *)
(* decrypts it correctly only when its own position is the same.  The      *)
(* relays of the path are modelled as one actor that processes a cell on   *)
(* all of its hops in one step (they are not the code under study).        *)
(***************************************************************************)
EXTENDS Naturals, Sequences, SequencesExt

CONSTANTS
    MaxRelayEarly,  \* circuit.MaxRelayEarly (8 in the code)
    MaxHops,        \* longest circuit a behaviour builds (model bound)
    MaxCells        \* relay cells each side may originate (model bound)

ASSUME MaxRelayEarly \in Nat /\ MaxHops \in Nat \ {0} /\ MaxCells \in Nat

VARIABLES
    cstate,     \* client view: "init","creating","open","extending","destroyed","failed"
    hops,       \* len(c.Hops)
    cf, cb,     \* per hop: forward/backward keystream positions (Hop.kf, Hop.kb)
    df, db,     \* per hop: forward/backward running digests (Hop.df, Hop.db)
    early,      \* c.RelayEarlySent
    rstate,     \* relays' view of the circuit: "none","open","closed"
    rhops,      \* hops the relays have keys for
    rf, rb,     \* relays' forward/backward keystream positions
    rdf, rdb,   \* relays' forward/backward running digests
    earlySeen,  \* RELAY_EARLY cells the relays have received
    toRelay,    \* cells on the link towards the guard, in order (TLS)
    toClient,   \* cells on the link towards the client, in order
    owed,       \* client requests the relays have not yet answered
    sent,       \* relay cells the client has encrypted (bound)
    back        \* cells the relays have originated (bound)

vars == <<cstate, hops, cf, cb, df, db, early, rstate, rhops, rf, rb, rdf,
          rdb, earlySeen, toRelay, toClient, owed, sent, back>>

Hop == 1..MaxHops
Zero == [i \in Hop |-> 0]

\* Advance the keystream of hops 1..n by one cell.
Bump(f, n) == [i \in Hop |-> IF i <= n THEN f[i] + 1 ELSE f[i]]

RelayCmds == {"extend2", "extended2", "other"}

TypeOK ==
    /\ cstate \in {"init", "creating", "open", "extending", "destroyed", "failed"}
    /\ hops \in 0..MaxHops /\ rhops \in 0..MaxHops
    /\ \A f \in {cf, cb, df, db, rf, rb, rdf, rdb} : f \in [Hop -> Nat]
    /\ early \in 0..MaxRelayEarly /\ earlySeen \in Nat
    /\ rstate \in {"none", "open", "closed"}
    /\ toRelay \in Seq([type : {"create2", "destroy"}] \cup
                       [type : {"relay"}, early : BOOLEAN, cmd : RelayCmds,
                        target : Hop, pos : Seq(Nat), dig : Nat])
    /\ toClient \in Seq([type : {"created2", "destroy", "padding"}] \cup
                        [type : {"relay"}, cmd : RelayCmds, origin : Hop,
                         pos : Seq(Nat), dig : Nat])
    /\ owed \in Nat /\ sent \in 0..MaxCells /\ back \in 0..MaxCells

Init ==
    /\ cstate = "init" /\ hops = 0
    /\ cf = Zero /\ cb = Zero /\ df = Zero /\ db = Zero
    /\ early = 0
    /\ rstate = "none" /\ rhops = 0
    /\ rf = Zero /\ rb = Zero /\ rdf = Zero /\ rdb = Zero
    /\ earlySeen = 0
    /\ toRelay = <<>> /\ toClient = <<>>
    /\ owed = 0 /\ sent = 0 /\ back = 0

-----------------------------------------------------------------------------
(* Onion encryption and decryption: encryptRelayLocked and               *)
(* decryptRelayLocked (unnamed/part_006), by their effect on the counters. *)

\* The cell encryptRelayLocked builds: digest of the last hop, then one
\* layer per hop from the last back to the first.
EncryptRelay(cmd, isEarly) ==
    [type |-> "relay", early |-> isEarly, cmd |-> cmd, target |-> hops,
     pos |-> [i \in 1..hops |-> cf[i]], dig |-> df[hops]]

\* Mutant: the running digest is not updated with the cell.
EncryptAdvanceNoDigest ==
    /\ sent < MaxCells
    /\ cf' = Bump(cf, hops)
    /\ UNCHANGED df
    /\ sent' = sent + 1

\* The keystreams and the last hop's forward digest advance with it.
EncryptAdvance ==
    /\ sent < MaxCells
    /\ cf' = Bump(cf, hops)
    /\ df' = [df EXCEPT ![hops] = @ + 1]
    /\ sent' = sent + 1

\* decryptRelayLocked: peel hop 1, 2, ... until a hop recognizes the cell
\* and its digest matches; a hop whose digest does not match has its digest
\* state restored, so only the recognizing hop's digest advances.  An
\* unrecognized cell has consumed one keystream step on every hop.
Recognized(c) ==
    /\ c.origin <= hops
    /\ \A i \in 1..c.origin : cb[i] = c.pos[i]
    /\ db[c.origin] = c.dig

\* Mutant: digests of hops that did not recognize the cell are not restored.
DecryptRelayNoRestore(c) ==
    IF Recognized(c)
    THEN /\ cb' = Bump(cb, c.origin)
         /\ db' = Bump(db, c.origin)
    ELSE /\ cb' = Bump(cb, hops)
         /\ db' = db

DecryptRelay(c) ==
    IF Recognized(c)
    THEN /\ cb' = Bump(cb, c.origin)
         /\ db' = [db EXCEPT ![c.origin] = @ + 1]
    ELSE /\ cb' = Bump(cb, hops)
         /\ db' = db

-----------------------------------------------------------------------------
(* Client operations (package circuit).                                    *)

\* Create: send CREATE2 on the link (circuit id allocation is in Link).
Create ==
    /\ cstate = "init"
    /\ cstate' = "creating"
    /\ toRelay' = Append(toRelay, [type |-> "create2"])
    /\ UNCHANGED <<hops, cf, cb, df, db, early, rstate, rhops, rf, rb, rdf,
                   rdb, earlySeen, toClient, owed, sent, back>>

\* Create, after the write: read the answer; CREATED2 installs hop 1 with
\* fresh keystreams (initHop), anything else fails the call.
CreateRecv ==
    /\ cstate = "creating"
    /\ toClient # <<>>
    /\ IF Head(toClient).type = "created2"
       THEN /\ cstate' = "open"
            /\ hops' = 1
       ELSE /\ cstate' = "failed"
            /\ UNCHANGED hops
    /\ toClient' = Tail(toClient)
    /\ UNCHANGED <<cf, cb, df, db, early, rstate, rhops, rf, rb, rdf, rdb,
                   earlySeen, toRelay, owed, sent, back>>

\* SendRelay: encrypt and write under c.wmu, so atomically.
SendRelay ==
    /\ cstate = "open"
    /\ EncryptAdvance
    /\ toRelay' = Append(toRelay, EncryptRelay("other", FALSE))
    /\ UNCHANGED <<cstate, hops, cb, db, early, rstate, rhops, rf, rb, rdf,
                   rdb, earlySeen, toClient, owed, back>>

\* Mutant: EXTEND2 is sent whatever RelayEarlySent is.
ExtendSendUnbounded ==
    /\ cstate = "open"
    /\ hops < MaxHops
    /\ EncryptAdvance
    /\ early' = early + 1
    /\ toRelay' = Append(toRelay, EncryptRelay("extend2", TRUE))
    /\ cstate' = "extending"
    /\ UNCHANGED <<hops, cb, db, rstate, rhops, rf, rb, rdf, rdb, earlySeen,
                   toClient, owed, back>>

\* Extend, first half (under c.wmu): encrypt the EXTEND2 cell, then check
\* the RELAY_EARLY budget; when it is spent the call returns an error but
\* the encryption has already consumed keystream and digest.
ExtendSend ==
    /\ cstate = "open"
    /\ hops < MaxHops
    /\ EncryptAdvance
    /\ IF early >= MaxRelayEarly
       THEN UNCHANGED <<cstate, early, toRelay>>
       ELSE /\ early' = early + 1
            /\ toRelay' = Append(toRelay, EncryptRelay("extend2", TRUE))
            /\ cstate' = "extending"
    /\ UNCHANGED <<hops, cb, db, rstate, rhops, rf, rb, rdf, rdb, earlySeen,
                   toClient, owed, back>>

\* Extend, second half: ReceiveRelay and check for EXTENDED2; on success the
\* new hop is appended under both locks.
ExtendRecv ==
    /\ cstate = "extending"
    /\ toClient # <<>>
    /\ LET c == Head(toClient) IN
       /\ c.type # "padding"
       /\ IF c.type = "relay"
          THEN /\ DecryptRelay(c)
               /\ IF Recognized(c) /\ c.cmd = "extended2"
                  THEN hops' = hops + 1
                  ELSE UNCHANGED hops
               /\ cstate' = "open"
          ELSE /\ cstate' = "destroyed"
               /\ UNCHANGED <<hops, cb, db>>
    /\ toClient' = Tail(toClient)
    /\ UNCHANGED <<cf, df, early, rstate, rhops, rf, rb, rdf, rdb, earlySeen,
                   toRelay, owed, sent, back>>

\* Mutant: a RELAY cell is returned without being decrypted.
ReceiveRelayNoDecrypt ==
    /\ cstate = "open"
    /\ toClient # <<>>
    /\ Head(toClient).type \in {"relay", "destroy"}
    /\ cstate' = IF Head(toClient).type = "relay" THEN cstate ELSE "destroyed"
    /\ toClient' = Tail(toClient)
    /\ UNCHANGED <<hops, cf, cb, df, db, early, rstate, rhops, rf, rb, rdf,
                   rdb, earlySeen, toRelay, owed, sent, back>>

\* ReceiveRelay called by a user of the circuit: DESTROY ends the circuit,
\* a relay cell is decrypted and returned.
ReceiveRelay ==
    /\ cstate = "open"
    /\ toClient # <<>>
    /\ LET c == Head(toClient) IN
       /\ c.type \in {"relay", "destroy"}
       /\ IF c.type = "relay"
          THEN /\ DecryptRelay(c)
               /\ UNCHANGED cstate
          ELSE /\ cstate' = "destroyed"
               /\ UNCHANGED <<cb, db>>
    /\ toClient' = Tail(toClient)
    /\ UNCHANGED <<hops, cf, df, early, rstate, rhops, rf, rb, rdf, rdb,
                   earlySeen, toRelay, owed, sent, back>>

\* ReceiveRelay's loop drops PADDING cells.
SkipPadding ==
    /\ cstate \in {"open", "extending"}
    /\ toClient # <<>>
    /\ Head(toClient).type = "padding"
    /\ toClient' = Tail(toClient)
    /\ UNCHANGED <<cstate, hops, cf, cb, df, db, early, rstate, rhops, rf, rb,
                   rdf, rdb, earlySeen, toRelay, owed, sent, back>>

\* Destroy: write a DESTROY cell.
Destroy ==
    /\ cstate = "open"
    /\ cstate' = "destroyed"
    /\ toRelay' = Append(toRelay, [type |-> "destroy"])
    /\ UNCHANGED <<hops, cf, cb, df, db, early, rstate, rhops, rf, rb, rdf,
                   rdb, earlySeen, toClient, owed, sent, back>>

-----------------------------------------------------------------------------
(* The relays of the path (environment, as tor-spec says they behave).     *)

Reply(c) == toClient' = Append(toClient, c)

\* The guard answers CREATE2 with CREATED2, or refuses with DESTROY.
RelayCreate ==
    /\ toRelay # <<>> /\ Head(toRelay).type = "create2"
    /\ \/ /\ rstate' = "open" /\ rhops' = 1
          /\ Reply([type |-> "created2"])
       \/ /\ rstate' = "closed" /\ UNCHANGED rhops
          /\ Reply([type |-> "destroy"])
    /\ toRelay' = Tail(toRelay)
    /\ UNCHANGED <<cstate, hops, cf, cb, df, db, early, rf, rb, rdf, rdb,
                   earlySeen, owed, sent, back>>

\* Hops 1..target each remove one layer.  The target recognizes the cell
\* only if every layer was removed at the right keystream position and the
\* digest matches; otherwise the relay tears the circuit down.  A relay also
\* tears it down on more than MaxRelayEarly RELAY_EARLY cells.  EXTEND2 at
\* the last hop adds a hop and is answered with EXTENDED2 (or refused).
RelayRecv ==
    /\ toRelay # <<>> /\ Head(toRelay).type = "relay"
    /\ rstate = "open"
    /\ LET c == Head(toRelay)
           seen == earlySeen + (IF c.early THEN 1 ELSE 0)
           ok == /\ c.target <= rhops
                 /\ \A i \in 1..c.target : rf[i] = c.pos[i]
                 /\ rdf[c.target] = c.dig
                 /\ seen <= MaxRelayEarly
       IN /\ rf' = Bump(rf, c.target)
          /\ earlySeen' = seen
          /\ IF ~ok
             THEN /\ rstate' = "closed"
                  /\ Reply([type |-> "destroy"])
                  /\ UNCHANGED <<rhops, rb, rdf, rdb, owed, back>>
             ELSE /\ rdf' = [rdf EXCEPT ![c.target] = @ + 1]
                  /\ IF c.cmd = "extend2" /\ c.target = rhops /\ rhops < MaxHops
                     THEN \/ /\ rhops' = rhops + 1
                             /\ rb' = Bump(rb, c.target)
                             /\ rdb' = [rdb EXCEPT ![c.target] = @ + 1]
                             /\ Reply([type |-> "relay", cmd |-> "extended2",
                                       origin |-> c.target,
                                       pos |-> [i \in 1..c.target |-> rb[i]],
                                       dig |-> rdb[c.target]])
                             /\ UNCHANGED <<rstate, owed, back>>
                          \/ /\ rstate' = "closed"
                             /\ Reply([type |-> "destroy"])
                             /\ UNCHANGED <<rhops, rb, rdb, owed, back>>
                     ELSE /\ owed' = owed + (IF c.cmd = "other" THEN 1 ELSE 0)
                          /\ UNCHANGED <<rstate, rhops, rb, rdb, toClient, back>>
    /\ toRelay' = Tail(toRelay)
    /\ UNCHANGED <<cstate, hops, cf, cb, df, db, early, sent>>

\* Hop j answers a client request with a relay cell (stream data, a SENDME,
\* ...); hops j..1 add their layers.
RelaySend(j) ==
    /\ rstate = "open" /\ j \in 1..rhops
    /\ owed > 0 /\ back < MaxCells
    /\ owed' = owed - 1
    /\ Reply([type |-> "relay", cmd |-> "other", origin |-> j,
              pos |-> [i \in 1..j |-> rb[i]], dig |-> rdb[j]])
    /\ rb' = Bump(rb, j)
    /\ rdb' = [rdb EXCEPT ![j] = @ + 1]
    /\ back' = back + 1
    /\ UNCHANGED <<cstate, hops, cf, cb, df, db, early, rstate, rhops, rf,
                   rdf, earlySeen, toRelay, sent>>

\* The guard sends a link PADDING cell.
RelayPadding ==
    /\ rstate = "open" /\ back < MaxCells
    /\ Reply([type |-> "padding"])
    /\ back' = back + 1
    /\ UNCHANGED <<cstate, hops, cf, cb, df, db, early, rstate, rhops, rf, rb,
                   rdf, rdb, earlySeen, toRelay, owed, sent>>

\* A DESTROY from the client closes the circuit at the relays; cells that
\* reach a closed circuit are dropped.
RelayDrop ==
    /\ toRelay # <<>>
    /\ \/ Head(toRelay).type = "destroy"
       \/ Head(toRelay).type = "relay" /\ rstate # "open"
    /\ rstate' = "closed"
    /\ toRelay' = Tail(toRelay)
    /\ UNCHANGED <<cstate, hops, cf, cb, df, db, early, rhops, rf, rb, rdf,
                   rdb, earlySeen, toClient, owed, sent, back>>

Next ==
    \/ Create \/ CreateRecv \/ SendRelay \/ ExtendSend \/ ExtendRecv
    \/ ReceiveRelay \/ SkipPadding \/ Destroy
    \/ RelayCreate \/ RelayRecv \/ \E j \in Hop : RelaySend(j)
    \/ RelayPadding \/ RelayDrop

Spec == Init /\ [][Next]_vars

-----------------------------------------------------------------------------
(* Properties.                                                             *)

InFlightTo(i) == Len(SelectSeq(toRelay, LAMBDA c : c.type = "relay" /\ c.target >= i))
InFlightAt(i) == Len(SelectSeq(toRelay, LAMBDA c : c.type = "relay" /\ c.target = i))
InFlightFrom(i) == Len(SelectSeq(toClient, LAMBDA c : c.type = "relay" /\ c.origin >= i))
InFlightOf(i) == Len(SelectSeq(toClient, LAMBDA c : c.type = "relay" /\ c.origin = i))

\* Forward crypto in sync (spec 4.4.4, 5 "hard invariant"): while the relays
\* keep the circuit open, every forward keystream and forward digest the
\* client has advanced (in SendRelay and Extend) is matched by a cell the
\* relays have processed or one still on the link.
ForwardInSync ==
    rstate = "open" =>
        \A i \in 1..hops :
            /\ cf[i] = rf[i] + InFlightTo(i)
            /\ df[i] = rdf[i] + InFlightAt(i)

\* The client is never behind the relays: every forward cell a relay
\* decrypts or recognizes used keystream and digest state the client had
\* already advanced in SendRelay or Extend.  (Ahead is the early-budget
\* desync that ForwardInSync rules out; behind would be a cell the
\* client's crypto never produced.)
ForwardNotBehind ==
    rstate = "open" =>
        \A i \in 1..hops :
            /\ cf[i] >= rf[i] + InFlightTo(i)
            /\ df[i] >= rdf[i] + InFlightAt(i)

\* Backward crypto in sync (spec 4.4.5): the client's backward keystreams
\* and digests (advanced by ReceiveRelay and Extend) never run ahead of or
\* fall behind what the relays produced, whatever the client reads and
\* whichever hop the cells come from.
BackwardInSync ==
    \A i \in 1..hops :
        /\ cb[i] + InFlightFrom(i) = rb[i]
        /\ db[i] + InFlightOf(i) = rdb[i]

\* RELAY_EARLY budget (tor-spec 5.6, spec 4.4.2): the relays never receive
\* more than MaxRelayEarly RELAY_EARLY cells on the circuit.
RelayEarlyBudget == earlySeen <= MaxRelayEarly

=============================================================================
