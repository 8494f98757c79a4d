----------------------------- MODULE HsSession -----------------------------
(***************************************************************************)
(* onion.ConnectOnionService: one connection attempt to a v3 onion        *)
(* service (spec 4.10).  The client is one goroutine running              *)
(* ResolveOnionService, the ESTABLISH_RENDEZVOUS exchange and the loop of *)
(* tryIntroPoint over the descriptor's introduction points, all on one    *)
(* rendezvous circuit.  The environment is the rendezvous point, the      *)
(* introduction points and the service.  Cryptography is abstracted: the  *)
(* hs-ntor state of the k-th INTRODUCE1 is the number k, and              *)
(* CompleteRendezvous succeeds exactly on the RENDEZVOUS2 that answers    *)
(* the introduction with that state.  The descriptor an HSDir answers    *)
(* with is read by HsDescriptor's parsers; the service writes it, and an   *)
(* attacker who knows the onion address may write one of its own.          *)
(***************************************************************************)
EXTENDS Integers, Sequences, SequencesExt, HsDescriptor

CONSTANTS
    NHSDirs,        \* HSDirs returned by SelectHSDirs
    NIntro,         \* introduction points in the descriptor
    LossyIntro,     \* an intro circuit may fail after its INTRODUCE1 left
    ServiceDrops,   \* the service may ignore an INTRODUCE2 (replay, load)
    ShortAcks,      \* an intro point may answer with an ack under 2 bytes
    Forger          \* someone who knows the address answers a descriptor fetch

ASSUME NHSDirs \in Nat /\ NIntro \in Nat \ {0}
ASSUME LossyIntro \in BOOLEAN /\ ServiceDrops \in BOOLEAN /\ Forger \in BOOLEAN
ASSUME ShortAcks \in BOOLEAN

Intros == 1..NIntro

(* The descriptors.  Intro point k of holder h runs on relay k (the       *)
(* service) or NIntro + k (the attacker), at 10.0.0.r, which the second  *)
(* layout also lists as the IPv4-mapped ::ffff:10.0.0.r, port 9001.  The   *)
(* blinded key and subcredential follow from the address, so whoever      *)
(* knows it computes the same ones.                                        *)
BK == "blinded"
SC == "subcred"
Key(h, role, k) == [t |-> "key", holder |-> h, role |-> role, ip |-> k]
Cert(key) == [t |-> "cert", key |-> key]
Relay(h, k) == IF h = "svc" THEN k ELSE NIntro + k
V4(r) == <<0, 6, 10, 0, 0, r, 35, 41>>
V6(r) == <<1, 18>> \o ZeroBytes(10) \o <<255, 255, 10, 0, 0, r, 35, 41>>
Rsa(r) == <<2, 20>> \o [i \in 1..20 |-> r]
Ed(r) == <<3, 32>> \o [i \in 1..32 |-> r]
\* The link-specifier blocks a service writes: NSPEC, then the specifiers.
LinkSpecs(r, layout) ==
    IF layout = 1 THEN <<3>> \o V4(r) \o Rsa(r) \o Ed(r)
    ELSE <<4>> \o Rsa(r) \o V4(r) \o V6(r) \o Ed(r)
\* Base64 wrapped over two lines (w) or written on one.
Wrapped(x, w) == IF w THEN <<B64(<<x>>), B64(<<Pad>>)>> ELSE <<B64(Enc(x))>>
CertLines(key, w) == <<Ln("certBegin")>> \o Wrapped(Cert(key), w) \o <<Ln("certEnd")>>
\* A MESSAGE block; with w, the END marker shares the last base64 line.
Message(x, w) ==
    <<Ln("beginMsg")>>
    \o IF w THEN <<B64(<<x>>), KV("endMsg", <<Pad>>)>> ELSE <<B64(Enc(x)), KV("endMsg", <<>>)>>
IntroText(h, k, ls, w) ==
    <<KV("introduction-point", Bytes(ls)), KV("onion-key ntor", Key(h, "onion", k)),
      Ln("auth-key")>> \o CertLines(Key(h, "auth", k), w)
    \o <<KV("enc-key ntor", Key(h, "enc", k)), Ln("enc-key-cert")>>
    \o CertLines(Key(h, "enc", k), w)
\* The outer document, the first layer and the second, all of holder h.
Descriptor(h, sd, rev, layout, w) ==
    LET second == <<KV("create2-formats", 2)>>
                   \o FlattenSeq([k \in Intros |-> IntroText(h, k, LinkSpecs(Relay(h, k), layout), w)])
        first == <<KV("desc-auth-type", "x25519"), Ln("auth-client"), Ln("encrypted")>>
                 \o Message(Layer(sd, SC, rev, "hsdir-encrypted-data", second), w)
    IN <<KV("hs-descriptor", 3), KV("descriptor-lifetime", 180),
         Ln("descriptor-signing-key-cert"), KV("revision-counter", rev), Ln("superencrypted")>>
       \o Message(Layer(sd, SC, rev, "hsdir-superencrypted-data", first), w)
       \o <<KV("signature", h)>>
Descriptors(h, rev) ==
    {Descriptor(h, BK, rev, layout, w) : layout \in 1..2, w \in BOOLEAN}
\* What an HSDir may answer: the service's descriptor, one it cannot
\* decrypt (it was made for another address), or a forgery.
Keys == {Zero} \cup {Key(h, r, k) : h \in {"svc", "att"}, r \in {"onion", "auth", "enc"}, k \in Intros}
Certs == {None, ShortCert} \cup {Cert(key) : key \in Keys}

Answers ==
    Descriptors("svc", 1) \cup {Descriptor("svc", "other", 1, 1, FALSE)}
    \cup (IF Forger THEN Descriptors("att", 2) ELSE {})

VARIABLES
    pc,         \* the client's place in ConnectOnionService
    hsdir,      \* index in fetchDescriptorFromHSDirs' loop
    ip,         \* index in the introduction-point loop
    hs,         \* the introduction whose hs-ntor state the client holds
    points,     \* ConnectResult.IntroPoints
    ack,        \* the intro circuit: "none","pending","ok","short","nack","lost"
    rendQ,      \* cells on the rendezvous circuit, towards the client
    rp,         \* rendezvous point: "none","pending","established","spliced"
    splice,     \* the introduction whose RENDEZVOUS1 the point spliced
    inbox,      \* INTRODUCE2s the service has received, not yet handled
    r1          \* RENDEZVOUS1s on their way to the rendezvous point

client == <<pc, hsdir, ip, hs, points>>
env == <<ack, rendQ, rp, splice, inbox, r1>>
vars == <<client, env>>

Established == [type |-> "established", intro |-> 0]
Rend2(k) == [type |-> "rend2", intro |-> k]

TypeOK ==
    /\ pc \in {"resolve", "fetch", "rendBuild", "estWait", "intro",
               "ackWait", "rend2Wait", "begin", "connected", "failed"}
    /\ hsdir \in 1..NHSDirs + 1 /\ ip \in 1..NIntro + 1 /\ hs \in 0..NIntro
    /\ ack \in {"none", "pending", "ok", "short", "nack", "lost"}
    /\ rendQ \in Seq({Established} \cup {Rend2(k) : k \in Intros})
    /\ rp \in {"none", "pending", "established", "spliced"}
    /\ splice \in 0..NIntro
    /\ inbox \subseteq Intros /\ r1 \subseteq Intros
    /\ points \in Seq([ls : Seq(Nat), onionKey : Keys, authKeyCert : Certs,
                       authKey : Keys, encKey : Keys, encKeyCert : Certs])
    /\ Len(points) <= NIntro

Init ==
    /\ pc = "resolve" /\ hsdir = 1 /\ ip = 1 /\ hs = 0
    /\ ack = "none" /\ rendQ = <<>> /\ rp = "none" /\ splice = 0
    /\ inbox = {} /\ r1 = {} /\ points = <<>>

-----------------------------------------------------------------------------
(* The client.                                                             *)

\* ResolveOnionService up to the descriptor fetch: decoding the address,
\* blinding, the SRV and SelectHSDirs may each fail.
Resolve ==
    /\ pc = "resolve"
    /\ pc' \in {"fetch", "failed"}
    /\ UNCHANGED <<hsdir, ip, hs, points, env>>

\* One HSDir of fetchDescriptorFromHSDirs: an error or an empty answer
\* moves on to the next; after the last, failure.  The first descriptor
\* is ResolveOnionService's: ParseDescriptorOuter and
\* DecryptAndParseDescriptor must succeed and yield an intro point.
Fetch ==
    /\ pc = "fetch"
    /\ IF hsdir > NHSDirs
       THEN pc' = "failed" /\ UNCHANGED <<hsdir, points>>
       ELSE \/ hsdir' = hsdir + 1 /\ UNCHANGED <<pc, points>>
            \/ \E t \in Answers :
                 LET o == ParseDescriptorOuter(t)
                     r == IF o.ok THEN DecryptAndParseDescriptor(o.v, BK, SC) ELSE Fail
                 IN /\ points' = IF r.ok THEN r.v ELSE <<>>
                    /\ pc' = IF r.ok /\ r.v # <<>> THEN "rendBuild" ELSE "failed"
                    /\ UNCHANGED hsdir
    /\ UNCHANGED <<ip, hs, env>>

\* Build the rendezvous circuit and send ESTABLISH_RENDEZVOUS.
RendBuild ==
    /\ pc = "rendBuild"
    /\ \/ pc' = "failed" /\ UNCHANGED rp
       \/ pc' = "estWait" /\ rp' = "pending"
    /\ UNCHANGED <<hsdir, ip, hs, points, ack, rendQ, splice, inbox, r1>>

\* Wait for RENDEZVOUS_ESTABLISHED; any other cell is an error.
EstRecv ==
    /\ pc = "estWait" /\ rendQ # <<>>
    /\ pc' = IF Head(rendQ) = Established THEN "intro" ELSE "failed"
    /\ rendQ' = Tail(rendQ)
    /\ UNCHANGED <<hsdir, ip, hs, points, ack, rp, splice, inbox, r1>>

\* tryIntroPoint gets as far as sending INTRODUCE1 for point i.
Introducible(i) ==
    /\ i \in DOMAIN points
    /\ ParseLinkSpecifiers(points[i].ls).ok /\ points[i].encKey # Zero

\* Mutant: the loop bound is off by one.
IntroStartOffByOne ==
    /\ pc = "intro"
    /\ IF ip > Len(points) + 1
       THEN pc' = "failed" /\ UNCHANGED <<ip, hs, ack>>
       ELSE \/ ip' = ip + 1 /\ UNCHANGED <<pc, hs, ack>>
            \/ /\ Introducible(ip)
               /\ pc' = "ackWait" /\ hs' = ip /\ ack' = "pending"
               /\ UNCHANGED ip
    /\ UNCHANGED <<hsdir, points, rendQ, rp, splice, inbox, r1>>

\* The head of the introduction loop: after the last point, "all
\* introduction points failed"; otherwise tryIntroPoint parses the link
\* specifiers, builds an intro circuit (which may fail) and sends
\* INTRODUCE1 with a fresh hs-ntor state (BuildINTRODUCE1 fails on a zero
\* enc-key, whose DH result is all zeros).
IntroStart ==
    /\ pc = "intro"
    /\ IF ip > Len(points)
       THEN pc' = "failed" /\ UNCHANGED <<ip, hs, ack>>
       ELSE \/ ip' = ip + 1 /\ UNCHANGED <<pc, hs, ack>>
            \/ /\ Introducible(ip)
               /\ pc' = "ackWait" /\ hs' = ip /\ ack' = "pending"
               /\ UNCHANGED ip
    /\ UNCHANGED <<hsdir, points, rendQ, rp, splice, inbox, r1>>

\* INTRODUCE_ACK with status 0, or one under 2 bytes (no status is read):
\* wait for RENDEZVOUS2.  A non-zero status or an intro circuit error: the
\* next introduction point.  The deferred
\* close of the intro link ends the intro circuit either way.
AckRecv ==
    /\ pc = "ackWait" /\ ack \in {"ok", "short", "nack", "lost"}
    /\ IF ack \in {"ok", "short"}
       THEN pc' = "rend2Wait" /\ UNCHANGED ip
       ELSE pc' = "intro" /\ ip' = ip + 1
    /\ ack' = "none"
    /\ UNCHANGED <<hsdir, hs, points, rendQ, rp, splice, inbox, r1>>

\* RENDEZVOUS2 on the rendezvous circuit: CompleteRendezvous with the held
\* hs-ntor state succeeds only on the answer to that introduction, and
\* AddHop attaches the service's virtual hop; otherwise the next point.
Rend2Recv ==
    /\ pc = "rend2Wait" /\ rendQ # <<>>
    /\ IF Head(rendQ) = Rend2(hs)
       THEN pc' = "begin" /\ UNCHANGED ip
       ELSE pc' = "intro" /\ ip' = ip + 1
    /\ rendQ' = Tail(rendQ)
    /\ UNCHANGED <<hsdir, hs, points, ack, rp, splice, inbox, r1>>

\* stream.Begin through the virtual hop: CONNECTED, or an error that
\* closes the rendezvous link.
BeginStream ==
    /\ pc = "begin"
    /\ pc' \in {"connected", "failed"}
    /\ UNCHANGED <<hsdir, ip, hs, points, env>>

-----------------------------------------------------------------------------
(* The rendezvous point, the introduction points and the service.          *)

\* ESTABLISH_RENDEZVOUS arrives: the cookie is registered.
RPEstablish ==
    /\ rp = "pending"
    /\ rp' = "established"
    /\ rendQ' = Append(rendQ, Established)
    /\ UNCHANGED <<client, ack, splice, inbox, r1>>

\* The introduction point handles INTRODUCE1: it forwards it as INTRODUCE2
\* and acks, or refuses it; if LossyIntro, the intro circuit may instead
\* break, after forwarding or before; if ShortAcks, it may answer with an
\* INTRODUCE_ACK under 2 bytes without forwarding.
IntroPoint ==
    /\ ack = "pending"
    /\ \/ ack' = "ok" /\ inbox' = inbox \cup {hs}
       \/ ack' = "nack" /\ UNCHANGED inbox
       \/ /\ LossyIntro /\ ack' = "lost"
          /\ inbox' \in {inbox, inbox \cup {hs}}
       \/ ShortAcks /\ ack' = "short" /\ UNCHANGED inbox
    /\ UNCHANGED <<client, rendQ, rp, splice, r1>>

\* Whoever holds the enc-key the INTRODUCE1 was made with (the service, or
\* the attacker for a point of its own) answers with RENDEZVOUS1; its
\* hs-ntor reply is the one the client's state completes with.
ServiceAnswer(k) ==
    /\ k \in inbox
    /\ inbox' = inbox \ {k}
    /\ r1' = r1 \cup {k}
    /\ UNCHANGED <<client, ack, rendQ, rp, splice>>

\* The holder ignores an introduction.
ServiceDrop(k) ==
    /\ ServiceDrops /\ k \in inbox
    /\ inbox' = inbox \ {k}
    /\ UNCHANGED <<client, ack, rendQ, rp, splice, r1>>

\* RENDEZVOUS1 reaches the point: the first one with a registered cookie
\* splices the circuits and sends RENDEZVOUS2; any later one is dropped.
RPSplice(k) ==
    /\ k \in r1
    /\ r1' = r1 \ {k}
    /\ IF rp = "established"
       THEN /\ rp' = "spliced" /\ splice' = k
            /\ rendQ' = Append(rendQ, Rend2(k))
       ELSE UNCHANGED <<rp, splice, rendQ>>
    /\ UNCHANGED <<client, ack, inbox>>

Client == Resolve \/ Fetch \/ RendBuild \/ EstRecv \/ IntroStart
          \/ AckRecv \/ Rend2Recv \/ BeginStream

Next ==
    \/ Client \/ RPEstablish \/ IntroPoint
    \/ \E k \in Intros : ServiceAnswer(k) \/ ServiceDrop(k) \/ RPSplice(k)

\* The client goroutine never blocks while a step is enabled; relays
\* eventually process the cells they receive; the service eventually
\* handles each INTRODUCE2 (answering or, if ServiceDrops, dropping it).
Fairness ==
    /\ WF_vars(Client) /\ WF_vars(RPEstablish) /\ WF_vars(IntroPoint)
    /\ \A k \in Intros : /\ WF_vars(ServiceAnswer(k) \/ ServiceDrop(k))
                         /\ WF_vars(RPSplice(k))

Spec == Init /\ [][Next]_vars /\ Fairness

-----------------------------------------------------------------------------
\* Every INTRODUCE1 the client sends goes to an introduction point of the
\* service's descriptor and carries exactly the keys the service published
\* for it: the address, port and identity tryIntroPoint extends to, the
\* onion key, the auth key and the enc-key, whichever way the descriptor
\* wraps its base64 and orders its link specifiers (an IPv4-mapped IPv6
\* specifier names the same IPv4 address).
IntroducesWithPublishedKeys ==
    pc = "ackWait" =>
        LET p == points[hs]
            s == ParseLinkSpecifiers(p.ls).v
        IN \E k \in Intros :
             /\ s.address = SubSeq(V4(k), 3, 6)
             /\ s.orport = 9001 /\ s.identity = SubSeq(Rsa(k), 3, 22)
             /\ p.onionKey = Key("svc", "onion", k) /\ p.authKey = Key("svc", "auth", k)
             /\ p.encKey = Key("svc", "enc", k)

\* A stream ConnectOnionService returns runs to the onion service whose
\* address the client resolved: the hs-ntor handshake it completed used an
\* enc-key of that service.
ConnectedToService ==
    pc \in {"begin", "connected"} => points[hs].encKey \in {Key("svc", "enc", k) : k \in Intros}

\* ConnectOnionService returns: a stream, or an error (spec 4.10: a
\* WaitingRend that times out moves on or fails).
Terminates == <>(pc \in {"connected", "failed"})

=============================================================================
