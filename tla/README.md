# TLA+ models of tor-go

This project holds TLA+ specifications of the tor-go client: a Go client for
the Tor protocol with a SOCKS5 proxy and v3 onion-service support. They are
checked with TLC. Each module is written from the Go source under `src/`.
`PROJECT.json` maps every definition to the lines it models, and lists the
runs, mutants, findings and hazards.

## 1. The system

The parts, bottom-up. Source paths are relative to `src/`.

| Part | Source | What it does | Concurrency / state |
|---|---|---|---|
| cell codec | `cell/io.go`, `unnamed/part_002` | fixed 514-byte and variable-length cells | none |
| link | `unnamed/part_017`, `unnamed/part_018` | TLS connection to the guard, VERSIONS/CERTS/AUTH_CHALLENGE/NETINFO handshake, claimed circuit IDs | `CircIDs` map under a mutex |
| circuit | `unnamed/part_007`, `circuit/extend.go`, `unnamed/part_006` (relay.go) | CREATE2, EXTEND2 over RELAY_EARLY, onion encryption (`encryptRelayLocked`, `decryptRelayLocked`), `SendRelay`, `ReceiveRelay`, `BackwardDigest`, `Destroy` | forward state under `wmu`, backward state under `rmu` |
| stream | `stream/stream.go`, `unnamed/part_001` (flow.go) | `Begin`, `Read`, `Write`, `Close`, SENDME v1 (`handleDataReceived`) | no lock on Stream fields; global atomic stream-ID counter |
| SOCKS server | `unnamed/part_003` | one goroutine per connection; after `Begin`, two `io.Copy` goroutines share one Stream | semaphore of 256 connections |
| main | `directory/consensus_test.go` (holds `cmd/tor-client/main.go`) | builds a 3-hop circuit; **all** SOCKS connections use that one circuit (`GetCirc`) | shared circuit |
| onion client | `onion/connect.go`, `unnamed/part_009`/`part_010` | descriptor fetch, rendezvous circuit, intro-point loop, RENDEZVOUS2, `AddHop` | sequential per connection |
| HS descriptor | `unnamed/part_010` (`ParseDescriptorOuter`), `onion/intropoint.go`, `onion/blind.go` (`DecryptDescriptorLayer`) | outer layer, two encrypted layers, intro-point entries, link specifiers | pure |
| HSDir ring | `onion/hsdir.go` | `SelectHSDirs` hash-ring selection | pure |
| crypto | `ntor/ntor.go`, `onion/blind.go`, `unnamed/part_014`/`part_015` | ntor, hs-ntor, key blinding, SHAKE/AES of the descriptor layers | pure |
| directory | `directory/cache.go`, `directory/consensus.go`, main's bootstrap in `directory/consensus_test.go` | consensus, key-certificate and microdescriptor fetch, on-disk cache, signature and freshness checks | files that survive restarts |
| descriptor, pathselect | `descriptor/descriptor.go`, `pathselect/pathselect_test.go` | microdescriptor parsing, relay selection | none |

How the parts interact. At every start, main loads or fetches the
consensus, the authorities' key certificates and the microdescriptors, from
its cache directory or from the authorities, and validates the consensus.
It then builds a circuit. A circuit rides on a link. Streams ride on a circuit.
The SOCKS server opens one stream per connection on the single circuit that
main built. Every `Stream.Begin` and `Stream.Read` calls
`Circuit.ReceiveRelay`, so all streams of the circuit compete for its cells.
`Stream.Write` and the SENDMEs that `handleDataReceived` sends both call
`Circuit.SendRelay`.

The relays are not part of this code. Each model includes them as an
environment that behaves as tor-spec says.

## 2. Modules

### `Circuit.tla`: one circuit, client and relays

*Data abstraction.* An AES-CTR keystream or a running SHA-1 digest is
represented by the number of cells it has absorbed. A relay cell records two
things: the per-hop keystream positions that encrypted it, and the digest it
carries. A hop decrypts a cell correctly only at the same position.

*State.*

| Variables | Code |
|---|---|
| `cstate`, `hops` | `len(c.Hops)` |
| `cf`, `cb`, `df`, `db` | each hop's `kf`, `kb`, `df`, `db` |
| `early` | `RelayEarlySent` |
| `rstate`, `rhops`, `rf`, `rb`, `rdf`, `rdb`, `earlySeen` | the relays' view of the circuit |
| `toRelay`, `toClient` | the link, in order (TLS) |
| `owed` | requests the relays still have to answer |
| `sent`, `back` | cell bounds |

*Client actions.*

| Action | Code |
|---|---|
| `Create`, `CreateRecv` | `Create` |
| `SendRelay` | encrypt and write under `wmu` |
| `ExtendSend` | `Extend` up to the write: it encrypts **before** the budget check, as the code does |
| `ExtendRecv` | `Extend`'s `ReceiveRelay` and hop append |
| `ReceiveRelay`, `SkipPadding` | the `ReceiveRelay` loop |
| `Destroy` | `Destroy` |

`EncryptRelay`, `EncryptAdvance` and `DecryptRelay` are `encryptRelayLocked`
and `decryptRelayLocked`. `DecryptRelay` includes the snapshot/restore of a
hop's backward digest when `recognized == 0` was a coincidence.

*Relay actions (environment).*
- `RelayCreate`: CREATED2 or DESTROY.
- `RelayRecv`: peels layers and checks the digest and the RELAY_EARLY limit. It tears the circuit down on a mismatch, and extends or refuses an EXTEND2.
- `RelaySend(j)`: hop `j` answers a request.
- `RelayPadding` and `RelayDrop`.

*Properties.*
- `ForwardInSync` (checked by no run; see section 4): every forward keystream step and digest step the client has taken matches a cell that the relays have processed or that is still on the link.
- `ForwardNotBehind`: the weaker half of `ForwardInSync`, which holds even past the RELAY_EARLY budget: the relays never decrypt or check a forward cell with keystream or digest state the client has not already produced.
- `BackwardInSync`: the same as `ForwardInSync` for the backward direction, per hop.
- `RelayEarlyBudget`: the relays never see more than `MaxRelayEarly` RELAY_EARLY cells.
- `TypeOK`.

### `StreamDelivery.tla`: what a stream promises (abstract)

Per stream, it tracks `sent`, `delivered`, `finished` and `eof`. Read
delivers only what was sent, and `io.EOF` comes only after the exit finished
the stream and everything it sent was delivered. An error return is
stuttering.

### `StreamMux.tla`: streams sharing one circuit

*Client actors, per stream.*
- The `handleConn` goroutine: `phase`, covering `BeginSend` and `BeginRecv`.
- The reader goroutine `io.Copy(conn, stream)`: `rpc`, covering `Read`, `CircSendMeSend` and `StreamSendMeSend`.
- The writer goroutine `io.Copy(stream, conn)`: `wpc`, covering `Write` and `WriterEOF`.
- The deferred `Close`.

The Stream fields are variables of the same names: `cwin`/`swin` (CircWindow/StreamWindow), `circRecv`/`strRecv`, `eof` and `closed`.

*Circuit.* `bdig` is the backward digest of the last hop.

*Relaying `handleDataReceived`.* `handleDataReceived` is split where the code
releases `rmu`. `Read` decrypts the cell under `rmu` and counts it.
`CircSendMeSend` and `StreamSendMeSend` then call `BackwardDigest` (taking
`rmu` again), send the SENDME, credit the window and return the data.

*Exit relay (environment).*
- Answers BEGIN.
- Packages DATA within its package windows, recording the digest of every `CircSendMe`-th DATA cell.
- Checks each circuit SENDME against that record (prop289).
- Keeps deliver windows and closes the circuit if one would go negative.
- Sends SENDMEs once it has delivered data (`ExitCircGrant`, `ExitStreamGrant`), then RELAY_END.

*Properties.*
- `TypeOK`: besides the types, no send window ever goes negative. Write checks `CircWindow <= 0 || StreamWindow <= 0` (`WindowExhausted`) before each chunk.
- `SendmeDigestValid`: the client's circuit SENDME digests are a prefix of the exit's recorded ones.
- `ClientRespectsWindows`: the exit never has to close the circuit for window overrun.
- `ReadersReturn` (liveness, under `FairSpec`): every connection that started `Begin` gets an answer, and once it is open its reader goroutine returns, with `io.EOF` or a DESTROY error. It is **not checked by any run**. With one stream no other loop can take a stream's cells, so a pass would say nothing about the hazard it is written for. With two streams TLC finds it violated in 7 steps: stream 1's Begin takes stream 2's CONNECTED, and stream 2 waits in Begin forever. `stream_lost` is the kept counterexample of the same cause.
- `DeliveryRefined`: `StreamDelivery!Spec` under the mapping `sent <- esent`, `delivered <- delivered`, `finished <- efin`, `eof <- eof`.

### `HSDirSelect.tla`: the HSDir hash ring

Models `onion.SelectHSDirs` (`onion/hsdir.go:29-89`). Ring relays are named by their position `0..n-1` after the sort by relay index. The SHA3 service index of each replica is abstracted to the position `sort.Search` returns for it, `0..n`. `Init` chooses every ring size in `RingSizes`, every start pair, and a consensus `cons`: a valid-after hour from `VAs` (hours since the Unix epoch) and whether the current and the previous SRV are present. `srv` is the SRV `ResolveOnionService` passes in (`connect.go:53`), named by the day whose 00:00 vote produced it, or `NoSrv`. `GetSRVForClient` (`hsdir.go:141-160`) and `TimePeriod` (`blind.go:27-33`, period 1440 minutes, offset 720) are operators.

*Actions.*
- `Begin`: `GetSRVForClient`, then the SRV and empty-ring checks.
- `ReplicaStart`: the outer loop head.
- `Pick`: one iteration of the inner loop. It advances `offset`, skips a selected relay, and otherwise selects it and breaks once every relay of the ring is selected.
- `LoopDone`: the inner loop condition `count < hsdirSpreadFetch` fails.
- `End`: the empty-result error.

`offset` is kept modulo `n` because it is only used as `(start+offset) % n`, so an endless loop becomes a finite cycle.

*Reference.* `Responsible` is the selection of rend-spec-v3 2.2.3, written as the RECURSIVE operators `Walk` and `RefFrom`. For each replica, it walks at most once round the ring from the start and takes the first `Spread` relays not yet chosen.

*Properties.*
- `SelectsResponsible`: a returned result equals `Responsible`.
- `SameSrvAsService`: when the consensus carries both SRVs, the SRV chosen by the valid-after hour is the one current when the time period `TimePeriod(valid-after)` began. That is the SRV the service used for the same period (rend-spec-v3 2.2.4.1). `VAs = {35, 36, 47, 48}` puts valid-after at 11:00, 12:00 and 23:00 of day 1 and 00:00 of day 2, which covers both sides of both boundaries. It holds. The mutant that switches only after 12:00 breaks it.
- `Terminates`: the function returns, under weak fairness, which is justified because the function is straight-line code in one goroutine. It is **not checked by any run**: with `RingSizes = {1, 2, 3}` TLC finds it violated (the note after the findings), and on larger rings a pass would hide that.

### `HsDescriptor.tla`: reading a v3 descriptor

Operators, no state, for the parsers the client runs on a fetched
descriptor. A text is a sequence of lines; each line is a record of its
keyword and the value the parser takes from it.

- Base64 is abstracted to a two-symbol encoding, `Enc(x) = <<x, Pad>>`. A writer may wrap it over several lines, and `Decode` succeeds only on the joined text. This is what `extractCert` and the MESSAGE blocks rely on.
- Every decoded value is a record tagged by `t`: a key names its holder and intro point, a certificate the key it certifies, a layer the KDF inputs (SECRET_DATA, subcredential, revision counter, string constant) its MAC was made with. `DecryptDescriptorLayer` succeeds exactly under the same inputs. The length, MAC and KDF checks of `onion/blind.go` are kept; the cipher is not.
- `ParseDescriptorOuter` (`OuterLine`), `ParseFirstLayerPlaintext` (`FirstLine`), `ExtractCert`, `ParseIntroPoints` (`IntroLines`, RECURSIVE, with the code's jump past a certificate and its `current != nil` guards), `DecryptAndParseDescriptor`.
- `ParseLinkSpecifiers` works on real bytes, with Go's 0-based offsets. `SpecLoop` is the specifier loop; `LinkSpec` is the type switch with its length checks; `IPString` is `net.IP.String` for the IPv4-mapped form, which the second layout's IPv6 specifier uses.

### `HsSession.tla`: connecting to an onion service

Models `onion.ConnectOnionService` (`onion/connect.go`): one connection
attempt by one goroutine. Cryptography is abstracted. The hs-ntor state of
the k-th INTRODUCE1 is the number `k`, and `CompleteRendezvous` succeeds
exactly on the RENDEZVOUS2 that answers introduction `k`.

*Client actions.*
- `Resolve`: address decoding, blinding, SRV and `SelectHSDirs`, each of which may fail.
- `Fetch`: one HSDir of `fetchDescriptorFromHSDirs`. A non-empty answer is any text of `Answers`. It is run through `ParseDescriptorOuter` and `DecryptAndParseDescriptor` of `HsDescriptor`, and the intro points are kept in `points`. A failure ends the attempt, as in `ResolveOnionService`. `Answers` holds the service's descriptor (two link-specifier layouts, certificates and MESSAGE blocks on one or on two lines) and one encrypted for another subcredential. If `Forger` is TRUE, it also holds descriptors an attacker who knows the address writes for its own relays and keys.
- `RendBuild`, `EstRecv`: the rendezvous circuit and RENDEZVOUS_ESTABLISHED.
- `IntroStart`, `AckRecv`, `Rend2Recv`: one pass of `tryIntroPoint`, covering the intro circuit, INTRODUCE1, INTRODUCE_ACK and RENDEZVOUS2. A point goes on to INTRODUCE1 only if `Introducible`: its link specifiers parse and its enc-key is not zero, so that `HsNtorClientHandshake` does not reject the all-zero DH result. Every intro point uses the **same** rendezvous circuit and cookie.
- `BeginStream`: `stream.Begin` through the virtual hop.

*Environment actions.*
- `RPEstablish`: the rendezvous point registers the cookie.
- `IntroPoint`: forwards and acks, refuses, or, if `LossyIntro`, breaks the intro circuit before or after forwarding. If `ShortAcks` is set, it may also answer with an INTRODUCE_ACK under 2 bytes without forwarding. `AckRecv` takes that as success, as `connect.go:332` does, because it reads the status only from an ack of 2 bytes or more.
- `ServiceAnswer(k)`, `ServiceDrop(k)`: the holder of the enc-key the introduction was made with (the service, or the attacker) answers an introduction with RENDEZVOUS1, or (if `ServiceDrops`) drops it.
- `RPSplice(k)`: the rendezvous point splices the first RENDEZVOUS1 it gets and drops any later one.

*Properties.*
- `IntroducesWithPublishedKeys`: whenever INTRODUCE1 has been sent, the point the client used has the address, ORPort and RSA identity of one of the service's intro relays, and the service's onion key, auth key and enc-key for it. This is what link-specifier offsets, wrapped certificates and the `onion-key`/`enc-key` switch must get right.
- `ConnectedToService`: once the client reaches Begin, the enc-key it completed hs-ntor with is one the service published. Checked only with `Forger` (finding 7).
- `Terminates`: `ConnectOnionService` returns.

*Fairness.* The client goroutine, the relays and the service each take the steps they can: weak fairness for each of them.

### `DirBootstrap.tla`: the directory bootstrap across restarts

Models main's `loadOrFetchConsensus`, `loadOrFetchKeyCerts`,
`validateAndParseConsensus` and `populateMicrodescriptors`, over the three
files of `directory.Cache`, run again at every restart. Meanwhile the
network moves on.

*Data abstraction.* Time is in hours. A signature is the pair
`<<authority, key epoch>>`. A microdescriptor digest is `<<relay, onion-key
epoch>>`. A consensus is its valid-after, its valid-until, its signatures and
the digest it lists for each relay. The thresholds are scaled: 2 of 3
authorities stand for 5 of 9.

*State.*
- Network: `now`, `key`, `certsPub`, `md`, `pub`.
- Cache files: `cacheCons` (consensus.json), `cacheCerts` (keycerts.json), `mdCache` (microdescriptors.json).
- Process: `pc`, `text`, `certs`, `rkey`, `reason`.

*Client actions.*
- `LoadOrFetchConsensus`: `LoadConsensus`, which honours valid-until, else `FetchConsensus`.
- `LoadOrFetchKeyCerts`: `LoadKeyCerts` drops expired certificates. Only if none is left does `FetchKeyCerts` run, followed by `SaveKeyCerts`. If the fetch fails, the list is empty and validation is structural.
- `Validate`: `ValidateSignatures` (`Verified`, or `Named` when there are no certificates), then `ValidateFreshness`, then `SaveConsensus`. Each check failure is `os.Exit`.
- `Populate`: `LoadMicrodescriptors` by digest, `UpdateRelaysWithMicrodescriptors`, then `SaveMicrodescriptors`. The update asks only the first authority, because it returns nil even when every request failed.
- `Restart`: the process ends; only the files survive.

*Attacker.* With `Mitm`, an on-path attacker on the plain-HTTP directory
connection may answer a fetch instead of the authority. `FetchConsensus`
can then yield `Forgery`: a current consensus whose signatures use the
attacker's key (`ForgedKey`). `FetchKeyCerts` can yield `ForgedCerts(idk)`:
unexpired certificates that bind that key to each authority's fingerprint.
They carry either no identity key or the attacker's. `ParseKeyCerts` keeps
what `parseOneKeyCert` keeps: a known fingerprint, an identity key that is
absent or matches the fingerprint (`VerifyIdentityFingerprint`), and an
unexpired date. Nothing else is checked, so the attacker's certificates
without an identity key are accepted.

*Environment actions.*
- `Tick`: hourly consensus publication.
- `RotateSigningKey(a)`: the authority issues a new certificate. Authorities rotate early enough that every consensus they signed stays covered by its certificate until its valid-until.
- `RotateOnionKey(r)`: the relay publishes a new microdescriptor.

*Properties.*
- `KeysMatchConsensus`: every onion key handed to path selection is the one of the microdescriptor that the consensus in use lists.
- `NoSpuriousSignatureFailure`: with reachable authorities, main never exits for lack of signatures.
- `OnlyAuthenticConsensus`: a consensus main goes on to use (`pc` in `md` or `up`) carries no signature by a key that no authority issued.

### `ConsensusParse.tla`: what validateAndParseConsensus reads

Models main's `validateAndParseConsensus` on the text `FetchConsensus`
returned: `ValidateSignatures`, `ParseConsensus`, `ValidateFreshness`, then
`SaveConsensus`.

*Data abstraction.* A consensus text is a sequence of lines. Each line is a
record of the fields the parser takes from it: a time (`BadTime` when
`time.Parse` fails), an SRV value, a relay name with whether `parseRouterLine`
accepts the line, a digest, a set of flags, a bandwidth, or bandwidth weights.
A `directory-signature` line carries its authority, its key and the content
its signature was made over. RSA verification is therefore "a certified key
signed exactly this content". Time is in hours.

*Operators.*
- `SignedContent`: the lines before the first `directory-signature` line, i.e. the `signedContent` of `ValidateSignatures`.
- `SignatureBlocks`, `Verified`, `SignaturesOK`: `parseSignatureBlocks` and the verification loop.
- `ParseLine`: one iteration of ParseConsensus' loop over lines (`ParseFlags`, `ParseBandwidth`, `ParseBandwidthWeights` and `NewRelay` are `parseFlags`, `parseBandwidth`, `parseBandwidthWeights` and `parseRouterLine`).
- `ParseConsensus`: `FoldLeft` of `ParseLine`, then the final flush of the current relay.
- `Fresh`: `ValidateFreshness`.

*Actions.*
- `FetchConsensus`: the authorities serve `Doc(now)`. With `Mitm`, an on-path attacker may instead serve any earlier document with up to `MaxTail` lines from `AttackLines` appended.
- `Validate`: the whole of `validateAndParseConsensus`. Each failure is `os.Exit(1)`.
- `Tick`.

*Property.* `UsesSignedContent`: the consensus main goes on with equals the parse of the signed content.

## 3. Runs

| Run | Expect | Bounds | What it shows |
|---|---|---|---|
| `circuit_budget` | pass | 4 hops, RELAY_EARLY 2, 4 client and 4 relay cells | building, relay traffic from every hop, padding, refusals and DESTROY; a third EXTEND never sends a third RELAY_EARLY, backward crypto stays in sync, forward crypto is never behind |
| `stream_single` | pass | 1 stream, circuit window 4/+2, stream window 3/+3, 4 cells each way | one stream: windows never go negative, SENDME digests are right, and the stream refines `StreamDelivery` |
| `stream_oversend` | **violation** | 1 stream, stream window 2/+1, 3 client cells | client exceeds the exit's window (finding 1) |
| `stream_lost` | **violation** | 2 streams, 1 exit cell each | a DATA cell is lost to the other stream (finding 2) |
| `hsdir_select_large` | pass | rings of 1-6 HSDirs, all start pairs, 2 replicas, spread 3, valid-after at both sides of 12:00 and 00:00 | result equals the rend-spec selection and the SRV matches the time period; termination is not checked (rings of at most 3 hang) |
| `hs_faulty` | pass | 2 HSDirs, 3 intro points, lossy intro circuits, short acks, a service that drops | INTRODUCE1 always goes to one of the service's intro relays with its published keys, whatever the descriptor layout and wrapping |
| `hs_forged_desc` | **violation** | 2 HSDirs, 3 intro points, reliable intro points, an attacker who knows the address | the client connects to the attacker's rendezvous answer through a forged descriptor (finding 7) |
| `hs_stale_rend2` | **violation** | 2 HSDirs, 3 intro points, lossy intro circuits, a service that answers everything | the client hangs (finding 3) |
| `dir_cache` | pass | 3 authorities, 2 relays, 5 hours, one rotation of each key, failing fetches | restarts never use a replaced onion key |
| `dir_stale_certs` | **violation** | same with 1 relay and a reliable network | main exits on every start after two authorities rotate keys (finding 4) |
| `consensus_tail` | **violation** | 3 authorities, 1 relay, 3 hours, up to 2 appended lines | a signed consensus with an `m` line appended after its signatures is used (finding 6) |
| `dir_forged` | **violation** | 3 authorities, 1 relay, 2 hours, failing fetches, an on-path attacker | a forged consensus passes validation with forged certificates (finding 5) |

*Why these bounds are enough.*
- Circuits: a 3-hop circuit is what main builds. A budget of 2 with 4 hops puts the budget boundary within reach. 3-4 cells per side let each hop send and receive, including cells from hop 2 that hop 1 must not recognise (which exercises the digest restore).
- Onion service: 3 intro points are the fewest at which an early RENDEZVOUS2 can consume the splice and still leave a later introduction waiting; 2 HSDirs cover both the retry and the give-up paths of the descriptor loop. The answers cover both link-specifier orders the spec allows (IPv4 first; or RSA, IPv4, then IPv6 in the IPv4-mapped form, so that `IPString`'s mapped branch decides the address), certificates and MESSAGE blocks wrapped over one and over two lines, and a descriptor that does not decrypt.
- Directory: 5 hours with a consensus life of 1 hour and a certificate life of 4 lets a cached consensus expire, certificates be renewed before they lapse, and every cache file be written, read back stale, and replaced. One rotation per key is enough for a cached entry to be outdated.
- Consensus text: one listed relay is enough, because the open entry is the last relay's. Two appended lines from a set of six (a relay line that parses and one that does not, `m`, `s`, and `valid-until` with a late and with a malformed time) cover every parser branch an attacker reaches after the signatures. Three hours let an expired document be replayed.
- HSDir ring: the code's constants (2 replicas, spread 3) are used unchanged. Rings of 4-6 cover partial overlap between the replicas, full overlap, and the early break on exhaustion. Rings of 1-3 reach the small-ring loop; the run checks safety only, so they are kept.
- Streams: the windows are scaled down but keep the code's structure. The circuit window is larger than the stream window. The circuit increment is larger than or equal to the stream increment. Each run sends enough DATA for each SENDME path (none, stream, circuit, both) to occur. The two-stream behaviours are covered by the violation runs `stream_lost` and `stream_oversend`.

Every passing run's property has a mutant in `PROJECT.json`: a plausible bug in the mapped code that TLC must catch with that run's configuration.

*Fairness.* `Circuit`, `DirBootstrap` and `ConsensusParse` check safety only and assume no fairness. `HSDirSelect` assumes `WF_vars(Next)`: one goroutine runs the function without blocking. `StreamMux`'s `FairSpec` puts weak fairness on each goroutine's steps (the Go scheduler runs every runnable goroutine) and on each step of the exit relay; it is the specification of `ReadersReturn`, which no run checks, and the kept stream runs use `Spec`. `HsSession` puts weak fairness on the client, the relays and the service. All runs use `CHECK_DEADLOCK FALSE`, because each of these systems really stops. A circuit or stream stops after DESTROY or once all bounded data has been exchanged. `SelectHSDirs` stops when it returns.

## 4. Findings

1. **Sending a SENDME credits the sender's own send window** (`unnamed/part_001:47,58`). Write can exceed what the exit granted, and a real exit closes the circuit for a protocol violation.
2. **Cells of other streams are dropped** (`stream/stream.go:156-160` in Read, line 70 in Begin). Main shares one circuit among all SOCKS connections, so concurrent connections lose each other's DATA and END cells.
3. **An early RENDEZVOUS2 hangs the onion-service connection** (`onion/connect.go:244`, `:342`). Every intro point shares one rendezvous circuit and cookie. An intro circuit can break after forwarding; the service's answer to it then arrives while the client waits for a later introduction. The client rejects that answer, the point's only splice is spent, and the client waits with no deadline.
4. **Stale key certificates lock the client out** (`directory/consensus_test.go:395`, `directory/cache.go:187`). Certificates are fetched only when no cached one is unexpired. Once enough authorities rotate their signing keys, every restart fails signature validation until the old certificates expire, although the authorities serve the new ones.
5. **Key certificates are not authenticated** (`directory/cache.go:356-383`, `:406`). `parseOneKeyCert` checks only that the fingerprint is known and the date unexpired. It never checks the certificate's signature, and `verifyIdentityFingerprint` accepts a certificate with no identity key. Directory fetches use plain HTTP, so an on-path attacker can serve its own signing keys under the authorities' fingerprints together with a consensus signed by them. The client validates that consensus, builds circuits from its relays, and caches the certificates for later starts. Blocking every certificate fetch gives the attacker a second route: the structural fallback (`consensus_test.go:402`) accepts the forgery too.
6. **ParseConsensus reads past the signed content** (`directory/consensus.go:213`, `:62`). ValidateSignatures verifies the signatures over the text before the first `directory-signature` line. ParseConsensus parses every line of the text, and the entry of the last relay stays open across the footer and the signatures. Anyone on the plain-HTTP path can append lines after the signatures of a genuine consensus. An `m` line replaces the last relay's microdescriptor digest, so the client fetches and uses the attacker's onion key for that relay. `r` and `s` lines add relays with any flags. A `valid-until` line makes an old consensus pass ValidateFreshness and be cached as valid. This works with genuine key certificates.

7. **Onion-service descriptors are not authenticated** (`onion/connect.go:73`, `unnamed/part_010:185`). `ParseDescriptorOuter` skips the `descriptor-signing-key-cert` and `signature` lines, so nothing checks that the service signed the descriptor (rend-spec-v3 2.4). Both layer keys are derived from the blinded key and the subcredential, which anyone who knows the `.onion` address computes. `FetchDescriptor` uses plain HTTP to the HSDir's DirPort, and main passes it an HTTP client. So an HSDir, or anyone on the path to its DirPort, can serve a descriptor naming its own intro points and enc-key. The client then introduces itself with the attacker's key and reports a connection to the service while it talks to the attacker (`hs_forged_desc`, a trace of 12 states).

Not a run of its own: `SelectHSDirs` never returns when the consensus has at most 3 HSDirs (`onion/hsdir.go:67-80`). The first replica selects every relay. The second replica's loop then skips every position without counting, and the exhaustion break is only reached after a new selection. With `RingSizes = {1, 2, 3}` and `PROPERTY Terminates`, TLC finds it violated. Tor's live network has thousands of HSDirs, so no run of its own is kept, and `hsdir_select_large` does not check `Terminates`.

Not a run of its own: Extend desynchronises the circuit when the RELAY_EARLY budget is spent (`circuit/extend.go:50-58`): the EXTEND2 is encrypted before the budget check, so a refused Extend leaves the client's forward keystreams and digest a cell ahead of the relays. `ForwardInSync` states it, and TLC finds it violated under `Circuit_budget.cfg`'s constants. No run keeps it, because main and the onion-service client extend a circuit at most three times and never spend the budget of 8.

Also not a run of its own: with two streams, circuit SENDMEs are due at a per-stream count and read a digest that is stale once other cells have been decrypted (`unnamed/part_001:36-49`). See the hazards at `part_001:40` and `:42`. With two streams, `ReadersReturn` also fails: one stream's Begin takes the other's CONNECTED.

## 5. Plan

Done: `Circuit`, `StreamDelivery`, `StreamMux` (with liveness), `HSDirSelect`, `HsSession` with `HsDescriptor`, and `DirBootstrap` (with an on-path attacker). Still to do:

1. `LinkHandshake.tla`: the handshake cell sequence, with its padding skip limit of 100 and version negotiation.
2. The cell codec as a bounded encode/decode round-trip operator.

## 6. Not modelled

- **Crypto** (ntor, hs-ntor, blinding, SHAKE/AES of the descriptor layers, SHA-1/AES of relay cells): out of TLC's reach. It is abstracted as keys that match, as position and digest counters, and as layers that decrypt exactly under the KDF inputs they were made with.
- **Descriptor signatures**: the code checks none (finding 7), so there is nothing to model.
- **Byte-level decoding** (base64 itself, time formats, `ParseMicrodescriptor`, `ParseDescriptor`) **and logging**: sequential code with no interleaving; unit tests cover them. `ConsensusParse` models ParseConsensus at the level of the fields each line yields, and `DirBootstrap` uses the values the parsers yield. `NeedsRefresh` has no caller.
- **Circuit-ID claims on a link**: the claim map never shrinks, but every link carries exactly one circuit.
- **The SOCKS5 byte-level handshake and the 256-connection semaphore**: parsing. The semaphore is a plain bound.
- **Path selection**: random weighted choice; a bounded check of its exclusion rules may come later.
