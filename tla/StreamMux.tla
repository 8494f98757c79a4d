------------------------------ MODULE StreamMux ------------------------------
(***************************************************************************)
(* Streams sharing one circuit (package stream, as the SOCKS proxy uses    *)
(* it): every SOCKS connection opens its stream on the same circuit        *)
(* (runSOCKSProxy's GetCirc), runs stream.Begin, and then two io.Copy      *)
(* goroutines: a writer calling Stream.Write and a reader calling          *)
(* Stream.Read.  Every Begin and Read loop calls Circuit.ReceiveRelay, so  *)
(* whichever of them runs next takes the next cell of the circuit.  The    *)
(* exit relay is the environment and follows tor-spec section 7 and        *)
(* SENDME v1 (prop289).                                                    *)
(*                                                                         *)
(* The circuit itself (Circuit.tla) is taken as correct: cells arrive in   *)
(* order and decrypt.  A payload is one unit; a backward running digest is *)
(* the number of cells it has absorbed.  Window sizes are scaled down:     *)
(* 1000/100 and 500/50 in the code become the constants below.            *)
(***************************************************************************)
EXTENDS Naturals, Sequences, SequencesExt

CONSTANTS
    NStreams,       \* SOCKS connections, stream IDs 1..NStreams
    CircWindow,     \* initCircWindow (1000)
    CircSendMe,     \* circSendMeWindow (100)
    StreamWindow,   \* initStreamWindow (500)
    StreamSendMe,   \* streamSendMeWindow (50)
    ExitData,       \* DATA cells the exit has for each stream (bound)
    ClientData      \* DATA cells each SOCKS client writes (bound)

ASSUME /\ NStreams \in Nat \ {0}
       /\ {CircWindow, CircSendMe, StreamWindow, StreamSendMe} \subseteq Nat \ {0}
       /\ {ExitData, ClientData} \subseteq Nat

Streams == 1..NStreams
CircID == 0                     \* stream ID 0: circuit-level cells

VARIABLES
    \* client, per stream (stream.Stream and the SOCKS goroutines)
    phase,      \* handleConn: "idle","begin" (waiting in Begin),"open","failed"
    rpc,        \* reader goroutine: "idle","read","csendme","ssendme","done"
    wpc,        \* writer goroutine: "idle","write","done"
    cwin, swin, \* Stream.CircWindow, Stream.StreamWindow
    circRecv,   \* Stream.circDataReceived
    strRecv,    \* Stream.streamDataReceived
    eof, closed,\* Stream.eof, Stream.closed
    wrote,      \* DATA cells the writer has sent
    delivered,  \* DATA cells Read has returned
    \* client, circuit
    bdig,       \* backward digest of the last hop (cells decrypted)
    sendmes,    \* digests of the circuit SENDMEs the client sent, in order
    \* exit relay
    ephase,     \* per stream: "none","open","closed"
    esent,      \* per stream: DATA cells sent
    efin,       \* per stream: RELAY_END sent
    pkgCirc, pkgStream,  \* package windows
    delCirc, delStream,  \* deliver windows
    ecount,     \* cells sent towards the client (its digest)
    dataTotal,  \* DATA cells packaged on the circuit
    recorded,   \* digests recorded for expected circuit SENDMEs
    acked,      \* circuit SENDMEs accepted
    edead,      \* "no", or why the exit closed the circuit: "window","digest"
    \* the circuit, both directions, in order
    toExit, toClient

cvars == <<phase, rpc, wpc, cwin, swin, circRecv, strRecv, eof, closed,
           wrote, delivered, bdig, sendmes>>
evars == <<ephase, esent, efin, pkgCirc, pkgStream, delCirc, delStream,
           ecount, dataTotal, recorded, acked, edead>>
vars == <<cvars, evars, toExit, toClient>>

Cmds == {"begin", "connected", "data", "end", "sendme"}
Cell(cmd, sid, dig) == [cmd |-> cmd, sid |-> sid, dig |-> dig]
Destroy == [cmd |-> "destroy", sid |-> CircID, dig |-> 0]

TypeOK ==
    /\ phase \in [Streams -> {"idle", "begin", "open", "failed"}]
    /\ rpc \in [Streams -> {"idle", "read", "csendme", "ssendme", "done"}]
    /\ wpc \in [Streams -> {"idle", "write", "done"}]
    /\ cwin \in [Streams -> Nat] /\ swin \in [Streams -> Nat]
    /\ circRecv \in [Streams -> Nat] /\ strRecv \in [Streams -> Nat]
    /\ eof \in [Streams -> BOOLEAN] /\ closed \in [Streams -> BOOLEAN]
    /\ wrote \in [Streams -> 0..ClientData]
    /\ delivered \in [Streams -> 0..ExitData]
    /\ bdig \in Nat /\ sendmes \in Seq(Nat)
    /\ ephase \in [Streams -> {"none", "open", "closed"}]
    /\ esent \in [Streams -> 0..ExitData] /\ efin \in [Streams -> BOOLEAN]
    /\ edead \in {"no", "window", "digest"}
    /\ toExit \in Seq([cmd : Cmds, sid : Streams \cup {CircID}, dig : Nat])
    /\ toClient \in Seq([cmd : Cmds \cup {"destroy"}, sid : Streams \cup {CircID},
                         dig : Nat])

Init ==
    /\ phase = [s \in Streams |-> "idle"]
    /\ rpc = [s \in Streams |-> "idle"] /\ wpc = [s \in Streams |-> "idle"]
    /\ cwin = [s \in Streams |-> 0] /\ swin = [s \in Streams |-> 0]
    /\ circRecv = [s \in Streams |-> 0] /\ strRecv = [s \in Streams |-> 0]
    /\ eof = [s \in Streams |-> FALSE] /\ closed = [s \in Streams |-> FALSE]
    /\ wrote = [s \in Streams |-> 0] /\ delivered = [s \in Streams |-> 0]
    /\ bdig = 0 /\ sendmes = <<>>
    /\ ephase = [s \in Streams |-> "none"]
    /\ esent = [s \in Streams |-> 0] /\ efin = [s \in Streams |-> FALSE]
    /\ pkgCirc = CircWindow /\ pkgStream = [s \in Streams |-> StreamWindow]
    /\ delCirc = CircWindow /\ delStream = [s \in Streams |-> StreamWindow]
    /\ ecount = 0 /\ dataTotal = 0 /\ recorded = <<>> /\ acked = 0
    /\ edead = "no"
    /\ toExit = <<>> /\ toClient = <<>>

Send(c) == toExit' = Append(toExit, c)
Set(f, s, v) == [f EXCEPT ![s] = v]

-----------------------------------------------------------------------------
(* Client: handleConn, stream.Begin, Stream.Read, Stream.Write, Close.     *)

\* Variables a reader step may change.
rdvars == <<rpc, cwin, swin, circRecv, strRecv, eof, delivered>>

\* handleConn after the SOCKS handshake: stream.Begin sends RELAY_BEGIN.
BeginSend(s) ==
    /\ phase[s] = "idle"
    /\ phase' = Set(phase, s, "begin")
    /\ Send(Cell("begin", s, 0))
    /\ UNCHANGED <<rdvars, wpc, closed, wrote, bdig, sendmes, evars, toClient>>

\* One Circuit.ReceiveRelay call: take the next cell; a relay cell is
\* decrypted, which advances the backward digest.
Receive ==
    /\ toClient # <<>>
    /\ toClient' = Tail(toClient)
    /\ bdig' = IF Head(toClient).cmd = "destroy" THEN bdig ELSE bdig + 1

\* stream.Begin's wait loop: cells of other streams are ignored (dropped);
\* CONNECTED starts both io.Copy goroutines with fresh windows; END, DESTROY
\* or any other command fails the connection.
BeginRecv(s) ==
    /\ phase[s] = "begin"
    /\ Receive
    /\ LET c == Head(toClient) IN
       IF c.cmd # "destroy" /\ c.sid # s
       THEN UNCHANGED <<phase, rpc, wpc, cwin, swin>>
       ELSE IF c.cmd = "connected"
       THEN /\ phase' = Set(phase, s, "open")
            /\ rpc' = Set(rpc, s, "read") /\ wpc' = Set(wpc, s, "write")
            /\ cwin' = Set(cwin, s, CircWindow)
            /\ swin' = Set(swin, s, StreamWindow)
       ELSE /\ phase' = Set(phase, s, "failed")
            /\ UNCHANGED <<rpc, wpc, cwin, swin>>
    /\ UNCHANGED <<circRecv, strRecv, eof, closed, wrote, delivered, sendmes,
                   evars, toExit>>

\* A relay cell is for stream s (Read's streamID != s.ID check).
ForStream(c, s) == c.sid = s

\* Mutant: the circuit SENDME is due one cell late (> instead of >=).
CircSendMeLate(n) == n > CircSendMe

\* handleDataReceived's thresholds.
CircSendMeDue(n) == n >= CircSendMe
StreamSendMeDue(n) == n >= StreamSendMe

\* Read returns a DATA cell to io.Copy, which writes it to the SOCKS client.
Deliver(s) ==
    /\ delivered' = Set(delivered, s, delivered[s] + 1)
    /\ rpc' = Set(rpc, s, "read")

\* Stream.Read's loop, one received cell per step.  (Its default case, an
\* unexpected command on the stream, cannot happen: the exit sends only
\* one CONNECTED per stream and Begin consumes it.)
Read(s) ==
    /\ rpc[s] = "read"
    /\ Receive
    /\ LET c == Head(toClient) IN
       \/ /\ c.cmd = "destroy"                        \* ReceiveRelay error
          /\ rpc' = Set(rpc, s, "done")
          /\ UNCHANGED <<cwin, swin, circRecv, strRecv, eof, delivered>>
       \/ /\ c.cmd = "sendme" /\ c.sid = CircID       \* circuit SENDME
          /\ cwin' = Set(cwin, s, cwin[s] + CircSendMe)
          /\ UNCHANGED <<rpc, swin, circRecv, strRecv, eof, delivered>>
       \/ /\ c.cmd # "destroy" /\ c.sid # CircID /\ ~ForStream(c, s)
          \* another stream's cell: discarded
          /\ UNCHANGED rdvars
       \/ /\ c.cmd = "data" /\ ForStream(c, s)       \* handleDataReceived
          /\ circRecv' = Set(circRecv, s, circRecv[s] + 1)
          /\ strRecv' = Set(strRecv, s, strRecv[s] + 1)
          /\ IF CircSendMeDue(circRecv[s] + 1)
             THEN /\ rpc' = Set(rpc, s, "csendme") /\ UNCHANGED delivered
             ELSE IF StreamSendMeDue(strRecv[s] + 1)
             THEN /\ rpc' = Set(rpc, s, "ssendme") /\ UNCHANGED delivered
             ELSE Deliver(s)
          /\ UNCHANGED <<cwin, swin, eof>>
       \/ /\ c.cmd = "end" /\ ForStream(c, s)        \* io.EOF
          /\ eof' = Set(eof, s, TRUE)
          /\ rpc' = Set(rpc, s, "done")
          /\ UNCHANGED <<cwin, swin, circRecv, strRecv, delivered>>
       \/ /\ c.cmd = "sendme" /\ ForStream(c, s)     \* stream SENDME
          /\ swin' = Set(swin, s, swin[s] + StreamSendMe)
          /\ UNCHANGED <<rpc, cwin, circRecv, strRecv, eof, delivered>>
    /\ UNCHANGED <<phase, wpc, closed, wrote, sendmes, evars, toExit>>

\* handleDataReceived, circuit level: BackwardDigest() takes c.rmu again,
\* after ReceiveRelay released it, and reads the digest as it is now; the
\* SENDME is sent and the stream's own CircWindow credited.
CircSendMeSend(s) ==
    /\ rpc[s] = "csendme"
    /\ Send(Cell("sendme", CircID, bdig))
    /\ sendmes' = Append(sendmes, bdig)
    /\ cwin' = Set(cwin, s, cwin[s] + CircSendMe)
    /\ circRecv' = Set(circRecv, s, 0)
    /\ IF StreamSendMeDue(strRecv[s])
       THEN /\ rpc' = Set(rpc, s, "ssendme") /\ UNCHANGED delivered
       ELSE Deliver(s)
    /\ UNCHANGED <<phase, wpc, swin, strRecv, eof, closed, wrote, bdig,
                   evars, toClient>>

\* Mutant: the stream SENDME is sent but the DATA cell is not returned.
StreamSendMeSendNoData(s) ==
    /\ rpc[s] = "ssendme"
    /\ Send(Cell("sendme", s, bdig))
    /\ swin' = Set(swin, s, swin[s] + StreamSendMe)
    /\ strRecv' = Set(strRecv, s, 0)
    /\ rpc' = Set(rpc, s, "read")
    /\ UNCHANGED <<phase, wpc, cwin, circRecv, eof, closed, wrote, bdig,
                   delivered, sendmes, evars, toClient>>

\* handleDataReceived, stream level: the same for the stream window.
StreamSendMeSend(s) ==
    /\ rpc[s] = "ssendme"
    /\ Send(Cell("sendme", s, bdig))
    /\ swin' = Set(swin, s, swin[s] + StreamSendMe)
    /\ strRecv' = Set(strRecv, s, 0)
    /\ Deliver(s)
    /\ UNCHANGED <<phase, wpc, cwin, circRecv, eof, closed, wrote, bdig,
                   sendmes, evars, toClient>>

\* Mutant: a window of 0 still lets a cell through.
WindowExhaustedOffByOne(cw, sw) == cw < 0 \/ sw < 0

\* Write's check before each chunk.
WindowExhausted(cw, sw) == cw <= 0 \/ sw <= 0

\* Stream.Write, one DATA cell per step: an exhausted window is an error,
\* which ends io.Copy; otherwise the cell is sent and both windows drop.
Write(s) ==
    /\ wpc[s] = "write" /\ wrote[s] < ClientData
    /\ IF WindowExhausted(cwin[s], swin[s])
       THEN /\ wpc' = Set(wpc, s, "done")
            /\ UNCHANGED <<cwin, swin, wrote, toExit>>
       ELSE /\ Send(Cell("data", s, 0))
            /\ cwin' = Set(cwin, s, cwin[s] - 1)
            /\ swin' = Set(swin, s, swin[s] - 1)
            /\ wrote' = Set(wrote, s, wrote[s] + 1)
            /\ UNCHANGED wpc
    /\ UNCHANGED <<phase, rpc, circRecv, strRecv, eof, closed, delivered,
                   bdig, sendmes, evars, toClient>>

\* The SOCKS client closes its side: io.Copy(torStream, conn) returns.
WriterEOF(s) ==
    /\ wpc[s] = "write" /\ wrote[s] = ClientData
    /\ wpc' = Set(wpc, s, "done")
    /\ UNCHANGED <<phase, rdvars, closed, wrote, bdig, sendmes, evars,
                   toExit, toClient>>

\* Both goroutines have returned (wg.Wait): the deferred Close sends END.
Close(s) ==
    /\ rpc[s] = "done" /\ wpc[s] = "done" /\ ~closed[s]
    /\ closed' = Set(closed, s, TRUE)
    /\ Send(Cell("end", s, 0))
    /\ UNCHANGED <<phase, rdvars, wpc, wrote, bdig, sendmes, evars, toClient>>

-----------------------------------------------------------------------------
(* The exit relay (environment, tor-spec 7 and prop289).                   *)

\* Cells sent to the client; relay cells advance the exit's digest.
Reply(cells) ==
    /\ toClient' = toClient \o cells
    /\ ecount' = ecount + Len(SelectSeq(cells, LAMBDA c : c.cmd # "destroy"))

\* RELAY_BEGIN: connect (CONNECTED) or refuse (END).
ExitBegin(c) ==
    /\ c.cmd = "begin"
    /\ \/ /\ ephase' = Set(ephase, c.sid, "open")
          /\ Reply(<<Cell("connected", c.sid, 0)>>)
       \/ /\ ephase' = Set(ephase, c.sid, "closed")
          /\ Reply(<<Cell("end", c.sid, 0)>>)
    /\ UNCHANGED <<esent, efin, pkgCirc, pkgStream, delCirc, delStream,
                   dataTotal, recorded, acked, edead>>

\* RELAY_DATA: both deliver windows drop; one below zero is a protocol
\* violation that closes the circuit.
ExitDataRecv(c) ==
    /\ c.cmd = "data"
    /\ IF delCirc = 0 \/ delStream[c.sid] = 0
       THEN /\ edead' = "window"
            /\ Reply(<<Destroy>>)
            /\ UNCHANGED <<delCirc, delStream>>
       ELSE /\ delCirc' = delCirc - 1
            /\ delStream' = Set(delStream, c.sid, delStream[c.sid] - 1)
            /\ UNCHANGED <<edead, toClient, ecount>>
    /\ UNCHANGED <<ephase, esent, efin, pkgCirc, pkgStream, dataTotal,
                   recorded, acked>>

\* Circuit SENDME v1: its digest must be the one recorded for the next
\* expected SENDME, else the circuit is closed.
ExitCircSendMe(c) ==
    /\ c.cmd = "sendme" /\ c.sid = CircID
    /\ IF acked < Len(recorded) /\ recorded[acked + 1] = c.dig
       THEN /\ pkgCirc' = pkgCirc + CircSendMe
            /\ acked' = acked + 1
            /\ UNCHANGED <<edead, toClient, ecount>>
       ELSE /\ edead' = "digest"
            /\ Reply(<<Destroy>>)
            /\ UNCHANGED <<pkgCirc, acked>>
    /\ UNCHANGED <<ephase, esent, efin, pkgStream, delCirc, delStream,
                   dataTotal, recorded>>

\* Stream SENDME reopens the stream's package window; END closes the stream.
ExitStreamCell(c) ==
    /\ c.sid # CircID
    /\ \/ /\ c.cmd = "sendme"
          /\ pkgStream' = Set(pkgStream, c.sid, pkgStream[c.sid] + StreamSendMe)
          /\ UNCHANGED ephase
       \/ /\ c.cmd = "end"
          /\ ephase' = Set(ephase, c.sid, "closed")
          /\ UNCHANGED pkgStream
    /\ UNCHANGED <<esent, efin, pkgCirc, delCirc, delStream,
                   ecount, dataTotal, recorded, acked, edead, toClient>>

\* The exit handles the next cell of the circuit.
ExitRecv ==
    /\ toExit # <<>> /\ edead = "no"
    /\ LET c == Head(toExit) IN
       \/ ExitBegin(c) \/ ExitDataRecv(c) \/ ExitCircSendMe(c)
       \/ ExitStreamCell(c)
    /\ toExit' = Tail(toExit)
    /\ UNCHANGED cvars

\* Cells reaching a circuit the exit has closed are dropped.
ExitDrop ==
    /\ toExit # <<>> /\ edead # "no"
    /\ toExit' = Tail(toExit)
    /\ UNCHANGED <<cvars, evars, toClient>>

\* The exit packages a DATA cell when both package windows are open; the
\* digest of every CircSendMe-th DATA cell is recorded for the SENDME that
\* must acknowledge it.
ExitSend(s) ==
    /\ edead = "no" /\ ephase[s] = "open" /\ esent[s] < ExitData
    /\ pkgCirc > 0 /\ pkgStream[s] > 0
    /\ Reply(<<Cell("data", s, 0)>>)
    /\ esent' = Set(esent, s, esent[s] + 1)
    /\ pkgCirc' = pkgCirc - 1
    /\ pkgStream' = Set(pkgStream, s, pkgStream[s] - 1)
    /\ dataTotal' = dataTotal + 1
    /\ recorded' = IF (dataTotal + 1) % CircSendMe = 0
                   THEN Append(recorded, ecount + 1) ELSE recorded
    /\ UNCHANGED <<ephase, efin, delCirc, delStream, acked,
                   edead, cvars, toExit>>

\* Once it has delivered a SENDME increment of data to the target, the exit
\* sends a circuit (stream) SENDME and reopens its deliver window.
ExitCircGrant ==
    /\ edead = "no" /\ delCirc <= CircWindow - CircSendMe
    /\ delCirc' = delCirc + CircSendMe
    /\ Reply(<<Cell("sendme", CircID, 0)>>)
    /\ UNCHANGED <<ephase, esent, efin, pkgCirc, pkgStream, delStream,
                   dataTotal, recorded, acked, edead, cvars, toExit>>

ExitStreamGrant(s) ==
    /\ edead = "no" /\ ephase[s] = "open"
    /\ delStream[s] <= StreamWindow - StreamSendMe
    /\ delStream' = Set(delStream, s, delStream[s] + StreamSendMe)
    /\ Reply(<<Cell("sendme", s, 0)>>)
    /\ UNCHANGED <<ephase, esent, efin, pkgCirc, pkgStream, delCirc,
                   dataTotal, recorded, acked, edead, cvars, toExit>>

\* The target closed the connection after all its data: RELAY_END.
ExitEnd(s) ==
    /\ edead = "no" /\ ephase[s] = "open" /\ esent[s] = ExitData /\ ~efin[s]
    /\ Reply(<<Cell("end", s, 0)>>)
    /\ efin' = Set(efin, s, TRUE)
    /\ UNCHANGED <<ephase, esent, pkgCirc, pkgStream, delCirc, delStream,
                   dataTotal, recorded, acked, edead, cvars,
                   toExit>>

Next ==
    \/ \E s \in Streams :
          \/ BeginSend(s) \/ BeginRecv(s) \/ Read(s) \/ CircSendMeSend(s)
          \/ StreamSendMeSend(s) \/ Write(s) \/ WriterEOF(s) \/ Close(s)
          \/ ExitSend(s) \/ ExitStreamGrant(s) \/ ExitEnd(s)
    \/ ExitRecv \/ ExitCircGrant \/ ExitDrop

Spec == Init /\ [][Next]_vars

\* Every goroutine that can run is eventually scheduled (handleConn, the
\* two io.Copy goroutines of each connection), and the exit relay
\* eventually handles each cell and packages the data it has.
Fairness ==
    /\ \A s \in Streams :
          /\ WF_vars(BeginSend(s)) /\ WF_vars(BeginRecv(s)) /\ WF_vars(Read(s))
          /\ WF_vars(CircSendMeSend(s)) /\ WF_vars(StreamSendMeSend(s))
          /\ WF_vars(Write(s)) /\ WF_vars(WriterEOF(s)) /\ WF_vars(Close(s))
          /\ WF_vars(ExitSend(s)) /\ WF_vars(ExitStreamGrant(s))
          /\ WF_vars(ExitEnd(s))
    /\ WF_vars(ExitRecv) /\ WF_vars(ExitCircGrant) /\ WF_vars(ExitDrop)

FairSpec == Spec /\ Fairness

-----------------------------------------------------------------------------
(* Properties.                                                             *)

\* SENDME v1 authentication (prop289, spec 4.6): the circuit SENDMEs the
\* client sends (handleDataReceived, with the digest BackwardDigest reads)
\* carry, in order, exactly the digests the exit recorded for them.
SendmeDigestValid == IsPrefix(sendmes, recorded)

\* Flow control (tor-spec 7.3/7.4, spec 8): the client never sends DATA the
\* exit's deliver windows do not allow, i.e. Stream.Write's CircWindow and
\* StreamWindow never exceed what SENDMEs from the exit granted.
ClientRespectsWindows == edead # "window"

\* Every SOCKS connection that started stream.Begin gets an answer, and
\* once open its reader goroutine (the Read loop) returns: with io.EOF,
\* or with the error of a DESTROY.  Nothing leaves Begin or Read waiting
\* in ReceiveRelay for a cell another loop has taken.  With two streams it
\* fails (stream.go:70, 156-160 drop the other stream's cells); no kept run
\* checks it (README, hazards).
ReadersReturn ==
    \A s \in Streams :
        phase[s] # "idle" ~> (phase[s] = "failed" \/ rpc[s] = "done")

\* The stream layer implements the delivery promise of StreamDelivery.
Delivery == INSTANCE StreamDelivery
    WITH Streams <- Streams, sent <- esent, delivered <- delivered,
         finished <- efin, eof <- eof

\* Every DATA cell the exit sends on a stream is returned by that stream's
\* Read, in order, and Read returns io.EOF only after all of them (despite
\* Begin and Read dropping cells whose stream ID is not their own).
DeliveryRefined == Delivery!Spec

=============================================================================
