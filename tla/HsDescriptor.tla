---------------------------- MODULE HsDescriptor ----------------------------
(***************************************************************************)
(* The client's reading of a v3 onion-service descriptor:                 *)
(* ParseDescriptorOuter, DecryptDescriptorLayer, parseFirstLayerPlaintext, *)
(* parseIntroPoints with extractCert, and ParseLinkSpecifiers.  A text is  *)
(* a sequence of lines; a line is a record of its keyword and the value    *)
(* the parser reads from it.                                               *)
(*                                                                         *)
(* Base64 is abstracted to an encoding of two symbols, Enc(x) = <<x, Pad>>, *)
(* so that a writer may wrap it across lines and it decodes only once the  *)
(* lines are joined again.  Decoded values are records tagged by t: a      *)
(* 32-byte key names its holder, a certificate the key it certifies, a     *)
(* descriptor layer the KDF inputs its MAC was made with and its plaintext *)
(* (it decrypts exactly under the same inputs).  Link specifiers are kept  *)
(* as bytes, since ParseLinkSpecifiers works on offsets.                   *)
(***************************************************************************)
EXTENDS Integers, Sequences, SequencesExt

Pad == [t |-> "pad"]                \* the second symbol of every encoding
BadB64 == [t |-> "badb64"]          \* text DecodeString rejects
Empty == [t |-> "empty"]            \* the empty byte slice
ShortKey == [t |-> "shortkey"]      \* a key of other than 32 bytes
ShortCert == [t |-> "shortcert"]    \* a certificate under 39 bytes
\* (a certificate of 39 bytes or more is a record tagged "cert")
Zero == [t |-> "zero"]              \* a [32]byte left at its zero value
None == [t |-> "none"]              \* a nil byte slice
Bytes(b) == [t |-> "bytes", b |-> b]
Ok(v) == [ok |-> TRUE, v |-> v]
Fail == [ok |-> FALSE, v |-> None]  \* an error return

Enc(x) == <<x, Pad>>
\* DecodeString of the joined text.
Decode(s) ==
    IF s = <<>> THEN Empty
    ELSE IF Len(s) = 2 /\ s[2] = Pad THEN s[1] ELSE BadB64

Ln(k) == [k |-> k, v |-> <<>>]      \* a line the parsers match whole
KV(k, v) == [k |-> k, v |-> v]      \* "keyword value"
B64(s) == [k |-> "b64", v |-> s]    \* a line of base64 text
\* The characters of a line as base64 sees them: a keyword line is not
\* base64.
Text(l) == IF l.k = "b64" THEN l.v ELSE <<[t |-> "kw", k |-> l.k]>>
\* strings.Join of some lines' text.
Join(t) == FlattenSeq([i \in 1..Len(t) |-> Text(t[i])])

----------------------------------------------------------------------------
\* ParseDescriptorOuter: revision-counter, and the superencrypted blob,
\* decoded at each END MESSAGE line from every MESSAGE line so far (the
\* END line's value is the text before the marker).
OuterLine(st, l) ==
    IF st.err THEN st
    ELSE CASE l.k = "descriptor-lifetime" ->
                IF l.v \in Nat THEN st ELSE [st EXCEPT !.err = TRUE]
           [] l.k = "revision-counter" ->
                IF l.v \in Nat THEN [st EXCEPT !.rev = l.v] ELSE [st EXCEPT !.err = TRUE]
           [] l.k = "beginMsg" -> [st EXCEPT !.in = TRUE]
           [] l.k = "endMsg" ->
                LET frags == IF st.in /\ l.v # <<>> THEN st.frags \o l.v ELSE st.frags
                    blob == Decode(frags)
                IN IF blob = BadB64 THEN [st EXCEPT !.err = TRUE]
                   ELSE [st EXCEPT !.in = FALSE, !.frags = frags, !.sup = blob]
           [] st.in -> [st EXCEPT !.frags = @ \o Text(l)]
           [] OTHER -> st
ParseDescriptorOuter(t) ==
    LET st == FoldLeft(OuterLine, [err |-> FALSE, in |-> FALSE, frags |-> <<>>,
                                   rev |-> 0, sup |-> None], t)
    IN IF st.err \/ st.sup = None THEN Fail ELSE Ok([rev |-> st.rev, sup |-> st.sup])

\* A layer encrypted under SECRET_DATA, subcredential, revision counter and
\* string constant.
Layer(sd, sc, rev, const, pt) == [t |-> "layer", mac |-> <<sd, sc, rev, const>>, pt |-> pt]
\* DecryptDescriptorLayer: too short, MAC mismatch, or the plaintext.
DecryptDescriptorLayer(b, sd, sc, rev, const) ==
    IF b.t # "layer" \/ b.mac # <<sd, sc, rev, const>> THEN Fail ELSE Ok(b.pt)

\* parseFirstLayerPlaintext: every line inside MESSAGE blocks, and the
\* text before an END marker, joined and decoded after the loop.
FirstLine(st, l) ==
    CASE l.k = "beginMsg" -> [st EXCEPT !.in = TRUE]
      [] l.k = "endMsg" ->
           [st EXCEPT !.in = FALSE,
                      !.frags = IF l.v # <<>> /\ st.in THEN @ \o l.v ELSE @]
      [] st.in -> [st EXCEPT !.frags = @ \o Text(l)]
      [] OTHER -> st
ParseFirstLayerPlaintext(t) ==
    LET frags == FoldLeft(FirstLine, [in |-> FALSE, frags |-> <<>>], t).frags
    IN IF frags = <<>> \/ Decode(frags) = BadB64 THEN Fail ELSE Ok(Decode(frags))

----------------------------------------------------------------------------
\* Mutant: only the first line of a wrapped certificate is decoded.
ExtractCertFirstLine(t, s) ==
    LET e == IF s <= Len(t) THEN SelectInSubSeq(t, s + 1, Len(t), LAMBDA l : l.k = "certEnd")
             ELSE 0
    IN CASE s > Len(t) \/ t[s].k # "certBegin" \/ e = 0 -> [c |-> None, e |-> s]
         [] Decode(Text(t[s + 1])) = BadB64 -> [c |-> None, e |-> e]
         [] OTHER -> [c |-> Decode(Text(t[s + 1])), e |-> e]

\* extractCert(lines, s): the decoded certificate between the BEGIN line at
\* s and the next END line, and the index parsing goes on after.
ExtractCert(t, s) ==
    LET e == IF s <= Len(t) THEN SelectInSubSeq(t, s + 1, Len(t), LAMBDA l : l.k = "certEnd")
             ELSE 0
    IN CASE s > Len(t) \/ t[s].k # "certBegin" \/ e = 0 -> [c |-> None, e |-> s]
         [] Decode(Join(SubSeq(t, s + 1, e - 1))) = BadB64 -> [c |-> None, e |-> e]
         [] OTHER -> [c |-> Decode(Join(SubSeq(t, s + 1, e - 1))), e |-> e]

NoPoint == [ls |-> <<>>, onionKey |-> Zero, authKeyCert |-> None,
            authKey |-> Zero, encKey |-> Zero, encKeyCert |-> None]
KeyField == "onion-key ntor" :> "onionKey" @@ "enc-key ntor" :> "encKey"
\* RawStdEncoding, then StdEncoding; then the 32-byte length check.
KeyOK(v) == v \notin {BadB64, ShortKey}

\* parseIntroPoints from line i; st.cur is the point being filled (<<>> for
\* a nil current).
RECURSIVE IntroLines(_, _, _)
IntroLines(t, i, st) ==
    IF i > Len(t) THEN Ok(st.pts \o st.cur)
    ELSE LET l == t[i] IN
    CASE l.k = "introduction-point" ->
           IF l.v = BadB64 THEN Fail
           ELSE IntroLines(t, i + 1, [pts |-> st.pts \o st.cur,
                                      cur |-> <<[NoPoint EXCEPT !.ls = l.v.b]>>])
      [] l.k \in DOMAIN KeyField /\ st.cur # <<>> ->
           IF ~KeyOK(l.v) THEN Fail
           ELSE IntroLines(t, i + 1, [st EXCEPT !.cur[1][KeyField[l.k]] = l.v])
      [] l.k \in {"auth-key", "enc-key-cert"} /\ st.cur # <<>> ->
           LET x == ExtractCert(t, i + 1) IN
           IF x.c = None THEN IntroLines(t, i + 1, st)
           ELSE IF l.k = "enc-key-cert"
           THEN IntroLines(t, x.e + 1, [st EXCEPT !.cur[1].encKeyCert = x.c])
           ELSE IntroLines(t, x.e + 1,
                  [st EXCEPT !.cur[1].authKeyCert = x.c,
                             !.cur[1].authKey = IF x.c.t = "cert" THEN x.c.key ELSE @])
      [] OTHER -> IntroLines(t, i + 1, st)
ParseIntroPoints(t) == IntroLines(t, 1, [pts |-> <<>>, cur |-> <<>>])

\* DecryptAndParseDescriptor on ResolveOnionService's outer layer, with the
\* client's blinded key and subcredential.
DecryptAndParseDescriptor(o, bk, sc) ==
    LET l1 == DecryptDescriptorLayer(o.sup, bk, sc, o.rev, "hsdir-superencrypted-data")
        blob == IF l1.ok THEN ParseFirstLayerPlaintext(l1.v) ELSE Fail
        l2 == IF blob.ok
              THEN DecryptDescriptorLayer(blob.v, bk, sc, o.rev, "hsdir-encrypted-data")
              ELSE Fail
    IN IF l2.ok THEN ParseIntroPoints(l2.v) ELSE Fail

----------------------------------------------------------------------------
\* ParseLinkSpecifiers.  d is the block as bytes (d[1] is NSPEC); off is
\* Go's 0-based offset, so data[off] is d[off + 1].
ZeroBytes(n) == [i \in 1..n |-> 0]
NoSpecs == [address |-> <<>>, orport |-> 0, identity |-> ZeroBytes(20),
            ed25519 |-> ZeroBytes(32), hasEd25519 |-> FALSE]
\* net.IP(b).String(): an IPv4-mapped IPv6 address prints as IPv4.
IPString(b) ==
    IF Len(b) = 16 /\ SubSeq(b, 1, 12) = [i \in 1..10 |-> 0] \o <<255, 255>>
    THEN SubSeq(b, 13, 16) ELSE b
Port(hi, lo) == hi * 256 + lo
\* One specifier of the switch; a wrong length is skipped.
LinkSpec(r, ty, x) ==
    CASE ty = 0 /\ Len(x) = 6 ->
           [r EXCEPT !.address = IPString(SubSeq(x, 1, 4)), !.orport = Port(x[5], x[6])]
      [] ty = 1 /\ Len(x) = 18 ->
           [r EXCEPT !.address = IPString(SubSeq(x, 1, 16)), !.orport = Port(x[17], x[18])]
      [] ty = 2 /\ Len(x) = 20 -> [r EXCEPT !.identity = x]
      [] ty = 3 /\ Len(x) = 32 -> [r EXCEPT !.ed25519 = x, !.hasEd25519 = TRUE]
      [] OTHER -> r
RECURSIVE SpecLoop(_, _, _, _)
SpecLoop(d, i, off, r) ==
    IF i >= d[1] THEN Ok(r)
    ELSE IF off + 2 > Len(d) THEN Fail
    ELSE LET n == d[off + 2] IN
         IF off + 2 + n > Len(d) THEN Fail
         ELSE SpecLoop(d, i + 1, off + 2 + n,
                       LinkSpec(r, d[off + 1], SubSeq(d, off + 3, off + 2 + n)))
ParseLinkSpecifiers(d) ==
    IF Len(d) < 1 THEN Fail
    ELSE LET r == SpecLoop(d, 0, 1, NoSpecs)
         IN IF ~r.ok \/ r.v.address = <<>> THEN Fail ELSE r

====
