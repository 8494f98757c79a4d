---------------------------- MODULE DirBootstrap ----------------------------
(***************************************************************************)
(* The client's directory bootstrap (main: loadOrFetchConsensus,           *)
(* loadOrFetchKeyCerts, validateAndParseConsensus,                         *)
(* populateMicrodescriptors) over the on-disk cache of directory.Cache,    *)
(* run again at every start of the process while the network moves on:    *)
(* the authorities publish a consensus every hour, rotate their signing    *)
(* keys (a new key certificate; the old one stays valid until it           *)
(* expires), and relays rotate their onion keys (a new microdescriptor     *)
(* digest).  Time is in hours; signatures are <<authority, key epoch>>     *)
(* pairs and a microdescriptor digest is <<relay, onion-key epoch>>.       *)
(***************************************************************************)
EXTENDS Integers, FiniteSets

CONSTANTS
    Auths,          \* directory authorities (9 in dirAuthorityFingerprints)
    Threshold,      \* signatures needed (5 in ValidateSignatures)
    Relays,         \* relays listed in the consensus
    ConsLife,       \* valid-until minus valid-after of a consensus (hours)
    CertLife,       \* lifetime of an authority key certificate (hours)
    MaxTime,        \* hours explored
    MaxEpoch,       \* key rotations per authority or relay explored
    NetFails,       \* a fetch from every authority may fail
    Mitm            \* an on-path attacker answers the plain-HTTP fetches

ASSUME Threshold \in 1..Cardinality(Auths) /\ NetFails \in BOOLEAN
ASSUME Mitm \in BOOLEAN

NoCons == [va |-> 0, vu |-> -1]
NoKey == -1

VARIABLES
    now,        \* the clock
    key,        \* per authority: epoch of its current signing key
    certsPub,   \* key certificates the authorities serve
    md,         \* per relay: epoch of its current onion key
    pub,        \* the consensus the authorities currently serve
    cacheCons,  \* consensus.json
    cacheCerts, \* keycerts.json
    mdCache,    \* microdescriptors.json: digest -> onion key
    pc,         \* main: "start","certs","validate","md","up","exit"
    text,       \* the consensus in hand
    certs,      \* the key certificates in hand
    rkey,       \* per relay: the onion key in hand (HasNtorKey = FALSE: NoKey)
    reason      \* why main exited

net == <<now, key, certsPub, md, pub>>
cache == <<cacheCons, cacheCerts, mdCache>>
proc == <<pc, text, certs, rkey, reason>>
vars == <<net, cache, proc>>

Epoch == 0..MaxEpoch
ForgedKey == MaxEpoch + 1       \* a key of the attacker's, for any name
\* A certificate: authority, signing-key epoch, expiry, and the identity key
\* in its dir-identity-key field (an authority's, "none", or the attacker's).
Cert(a, e, exp) == [auth |-> a, epoch |-> e, expires |-> exp, idk |-> a]
IdKeys == Auths \cup {"none", "attacker"}
Consensus(t, k, m) ==
    [va |-> t, vu |-> t + ConsLife, sigs |-> {<<a, k[a]>> : a \in Auths},
     md |-> m]

TypeOK ==
    /\ now \in 0..MaxTime /\ key \in [Auths -> Epoch] /\ md \in [Relays -> Epoch]
    /\ certsPub \subseteq [auth : Auths, epoch : Epoch, expires : Nat, idk : Auths]
    /\ cacheCerts \cup certs \subseteq
          [auth : Auths, epoch : Epoch \cup {ForgedKey}, expires : Nat, idk : IdKeys]
    /\ pc \in {"start", "certs", "validate", "md", "up", "exit"}
    /\ rkey \in [Relays -> Epoch \cup {ForgedKey, NoKey}]
    /\ reason \in {"none", "fetch", "sigs", "fresh"}
    /\ \A d \in mdCache : /\ d.digest \in Relays \X (Epoch \cup {ForgedKey})
                         /\ d.key \in Epoch \cup {ForgedKey}

Init ==
    /\ now = 0 /\ key = [a \in Auths |-> 0] /\ md = [r \in Relays |-> 0]
    /\ certsPub = {Cert(a, 0, CertLife) : a \in Auths}
    /\ pub = Consensus(0, key, md)
    /\ cacheCons = NoCons /\ cacheCerts = {} /\ mdCache = {}
    /\ pc = "start" /\ text = NoCons /\ certs = {}
    /\ rkey = [r \in Relays |-> NoKey] /\ reason = "none"

-----------------------------------------------------------------------------
(* The network.                                                            *)

\* The certificate of an authority's current signing key.
CurrentCert(a) == CHOOSE c \in certsPub : c.auth = a /\ c.epoch = key[a]

\* An hour passes and the authorities publish a new consensus; an
\* authority always rotates its signing key before the certificate of the
\* current one expires, early enough that every consensus it signed stays
\* covered until its valid-until.
Tick ==
    /\ now < MaxTime
    /\ \A a \in Auths : now + 1 + ConsLife <= CurrentCert(a).expires
    /\ now' = now + 1
    /\ pub' = Consensus(now + 1, key, md)
    /\ UNCHANGED <<key, certsPub, md, cache, proc>>

\* An authority starts signing with a new key and publishes its cert.
RotateSigningKey(a) ==
    /\ key[a] < MaxEpoch
    /\ key' = [key EXCEPT ![a] = @ + 1]
    /\ certsPub' = certsPub \cup {Cert(a, key[a] + 1, now + CertLife)}
    /\ UNCHANGED <<now, md, pub, cache, proc>>

\* A relay rotates its onion key: a new microdescriptor.
RotateOnionKey(r) ==
    /\ md[r] < MaxEpoch
    /\ md' = [md EXCEPT ![r] = @ + 1]
    /\ UNCHANGED <<now, key, certsPub, pub, cache, proc>>

-----------------------------------------------------------------------------
(* main.                                                                   *)

\* What an on-path attacker can put in a plain-HTTP answer: a consensus
\* listing its own relays, with a directory-signature line for every
\* authority made by its own key; and, for every authority, a key
\* certificate with the authority's fingerprint and its own signing key,
\* carrying no dir-identity-key or its own identity key.
Forgery ==
    [va |-> now, vu |-> now + ConsLife, sigs |-> {<<a, ForgedKey>> : a \in Auths},
     md |-> [r \in Relays |-> ForgedKey]]
ForgedCerts(idk) ==
    {[Cert(a, ForgedKey, now + CertLife) EXCEPT !.idk = idk] : a \in Auths}

\* FetchConsensus: the body of the first answer over HTTP: the authorities'
\* current consensus, or the attacker's.
FetchConsensus == {pub} \cup (IF Mitm THEN {Forgery} ELSE {})

\* ParseKeyCerts / parseOneKeyCert: a certificate is kept if its
\* fingerprint is a known authority's, verifyIdentityFingerprint passes
\* (it returns nil when the dir-identity-key is missing) and it has not
\* expired.  The dir-key-certification signature is never checked.
VerifyIdentityFingerprint(c) == c.idk \in {c.auth, "none"}
ParseKeyCerts(served) ==
    {c \in served : VerifyIdentityFingerprint(c) /\ now <= c.expires}

\* FetchKeyCerts: the parsed certificates of the first HTTP answer that
\* yields any; an empty result counts as a failure and the next authority
\* is tried.
FetchKeyCerts ==
    {ParseKeyCerts(ans) :
        ans \in {certsPub} \cup (IF Mitm THEN {ForgedCerts(i) : i \in {"none", "attacker"}}
                                        ELSE {})}
        \ {{}}

\* Cache.LoadConsensus: the cached text unless valid-until has passed;
\* otherwise FetchConsensus, and os.Exit if every authority fails.
LoadOrFetchConsensus ==
    /\ pc = "start"
    /\ IF cacheCons # NoCons /\ now <= cacheCons.vu
       THEN text' = cacheCons /\ pc' = "certs" /\ UNCHANGED reason
       ELSE \/ text' \in FetchConsensus /\ pc' = "certs" /\ UNCHANGED reason
            \/ NetFails /\ pc' = "exit" /\ reason' = "fetch"
               /\ UNCHANGED text
    /\ UNCHANGED <<net, cache, certs, rkey>>

\* Cache.LoadKeyCerts keeps the cached certificates that have not expired;
\* only when none is left does FetchKeyCerts run and SaveKeyCerts store
\* what it returns.  If every fetch fails the certificate list is empty:
\* structural validation.
LoadOrFetchKeyCerts ==
    /\ pc = "certs"
    /\ LET cached == {c \in cacheCerts : now <= c.expires}
       IN  IF cached # {}
           THEN certs' = cached /\ UNCHANGED cacheCerts
           ELSE \/ \E got \in FetchKeyCerts :
                      certs' = got /\ cacheCerts' = got
                \/ NetFails /\ certs' = {} /\ UNCHANGED cacheCerts
    /\ pc' = "validate"
    /\ UNCHANGED <<net, cacheCons, mdCache, text, rkey, reason>>

\* ValidateSignatures: the authorities with a signature made by a key whose
\* certificate (same identity and signing-key digest) is in hand.
Verified(t, cs) == {a \in Auths : \E c \in cs : c.auth = a /\ <<a, c.epoch>> \in t.sigs}

\* ValidateSignaturesStructural: the authorities named on signature lines.
Named(t) == {s[1] : s \in t.sigs}

SignaturesOK(t, cs) ==
    IF cs = {} THEN Cardinality(Named(t)) >= Threshold
               ELSE Cardinality(Verified(t, cs)) >= Threshold

\* ValidateFreshness, with the 5-minute skew below the model's unit.
Fresh(t) == t.va <= now /\ now <= t.vu

\* validateAndParseConsensus: signatures, parse, freshness, each fatal;
\* then Cache.SaveConsensus.
Validate ==
    /\ pc = "validate"
    /\ IF ~SignaturesOK(text, certs)
       THEN pc' = "exit" /\ reason' = "sigs" /\ UNCHANGED cacheCons
       ELSE IF ~Fresh(text)
       THEN pc' = "exit" /\ reason' = "fresh" /\ UNCHANGED cacheCons
       ELSE pc' = "md" /\ cacheCons' = text /\ UNCHANGED reason
    /\ UNCHANGED <<net, cacheCerts, mdCache, text, certs, rkey>>

\* Mutant: cached microdescriptors are looked up by relay, not by digest.
LoadMicrodescriptorsByRelay(t) ==
    [r \in Relays |-> IF \E d \in mdCache : d.digest[1] = r
                      THEN (CHOOSE d \in mdCache : d.digest[1] = r).key
                      ELSE NoKey]

\* Cache.LoadMicrodescriptors: the cached entry under the digest the
\* consensus lists for the relay.
LoadMicrodescriptors(t) ==
    [r \in Relays |-> IF \E d \in mdCache : d.digest = <<r, t.md[r]>>
                      THEN (CHOOSE d \in mdCache : d.digest = <<r, t.md[r]>>).key
                      ELSE NoKey]

\* Mutant: relays without an ntor key are written to the cache as well.
SaveMicrodescriptorsUnfiltered(rk, t) ==
    {[digest |-> <<r, t.md[r]>>, key |-> rk[r]] : r \in Relays}

\* Cache.SaveMicrodescriptors: the new cache holds exactly the relays in
\* hand that have an ntor key, under their consensus digests.
SaveMicrodescriptors(rk, t) ==
    {[digest |-> <<r, t.md[r]>>, key |-> rk[r]] :
     r \in {q \in Relays : rk[q] # NoKey}}

\* populateMicrodescriptors: load from the cache; if a relay still has no
\* key, fetchMissingMicrodescriptors calls UpdateRelaysWithMicrodescriptors
\* on the first authority, which asks for every listed digest and matches
\* each answer by its SHA-256 digest.  It returns nil even when every
\* request failed, so the loop never tries a second authority: the fetch
\* either fills every relay or none.  Then SaveMicrodescriptors rewrites
\* the cache from the relays in hand.
Populate ==
    /\ pc = "md"
    /\ LET loaded == LoadMicrodescriptors(text)
           fetched == [r \in Relays |-> IF loaded[r] = NoKey
                                        THEN text.md[r] ELSE loaded[r]]
       IN  /\ \/ rkey' = fetched
              \/ NetFails /\ rkey' = loaded
           /\ mdCache' = SaveMicrodescriptors(rkey', text)
    /\ pc' = "up"
    /\ UNCHANGED <<net, cacheCons, cacheCerts, text, certs, reason>>

\* The process ends (os.Exit, a kill, or the user stopping the proxy) and
\* is started again later; only the cache files survive.
Restart ==
    /\ pc' = "start" /\ text' = NoCons /\ certs' = {}
    /\ rkey' = [r \in Relays |-> NoKey] /\ reason' = "none"
    /\ UNCHANGED <<net, cache>>

Next ==
    \/ Tick \/ \E a \in Auths : RotateSigningKey(a)
    \/ \E r \in Relays : RotateOnionKey(r)
    \/ LoadOrFetchConsensus \/ LoadOrFetchKeyCerts \/ Validate \/ Populate
    \/ Restart

Spec == Init /\ [][Next]_vars

-----------------------------------------------------------------------------
\* Every onion key main hands to path selection is the one of the
\* microdescriptor its consensus lists, across restarts and key rotations:
\* the cache never supplies a key the relay has since replaced.
KeysMatchConsensus ==
    pc = "up" => \A r \in Relays : rkey[r] \in {NoKey, text.md[r]}

\* With the authorities reachable, main never exits for lack of valid
\* signatures on a consensus the authorities published (spec 4.x: the
\* consensus is accepted with at least 5 authority signatures).
NoSpuriousSignatureFailure == ~(pc = "exit" /\ reason = "sigs")

\* Every consensus main goes on with (validated, cached, used for path
\* selection) was published by the authorities: none signed only by keys
\* an on-path attacker made up.
OnlyAuthenticConsensus ==
    pc \in {"md", "up"} => \A s \in text.sigs : s[2] # ForgedKey

=============================================================================
