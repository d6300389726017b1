----------------------------- MODULE Addressing -----------------------------
(***************************************************************************)
(* How a target's URL is written as an address of the gateway and read     *)
(* back: the codecs of webvpn/codec.go, the helpers of proxy.go and        *)
(* restore.go that choose among them, what rewrite.go writes into a page   *)
(* and what the page's companion, assets/shim.js, writes at run time.      *)
(*                                                                         *)
(* A name is a tuple of tokens, "." , "-" and ":" being tokens of their    *)
(* own, so that what the sub-domain form does to dots and hyphens can be   *)
(* told apart. A path is a tuple of segments, each a tuple of tokens:      *)
(* << >> is no path at all and << << >> >> is "/". An operator that may    *)
(* answer nothing answers a set of at most one value. Queries, fragments   *)
(* and the escaping of characters are left out.                            *)
(***************************************************************************)
EXTENDS Naturals, SequencesExt

CONSTANTS
    Token,       \* what names are made of
    Ports,       \* the port numbers in play, as tokens
    BadPorts,    \* those above 65535, and 0
    MaxLabel,    \* maxLabel, in tokens
    Secure,      \* the browser's leg is TLS
    ServeTLS     \* this process terminates it

ASSUME AddressingAssumption ==
    /\ BadPorts \subseteq Ports
    /\ {"80", "443"} \subseteq Ports
    /\ Ports \cup {".", "-", ":", "p", "s", "#", "http", "https", "ws", "wss"} \subseteq Token
    /\ Ports \cap {"", ".", "-", ":", "p", "s"} = {}
    /\ MaxLabel \in Nat
    /\ Secure \in BOOLEAN /\ ServeTLS \in BOOLEAN

\* A URL, and a codec: its mode and, for HostCodec, its fields.
Name == Seq(Token)
Path == Seq(Name)
URL(scheme, host, port, path) ==
    [scheme |-> scheme, host |-> host, port |-> port, path |-> path]
PlainCodec == [mode |-> "plain"]
WRDCodec == [mode |-> "wrd"]
HostCodec(base, portal, port) ==
    [mode |-> "subdomain", base |-> base, portal |-> portal, port |-> port, tls |-> ServeTLS]

SchemeSupported == {"http", "https", "ws", "wss"}
Address == [scheme : SchemeSupported, host : Name, port : Ports \cup {""}, path : Path]
httpScheme(s) == IF s = "ws" THEN "http" ELSE IF s = "wss" THEN "https" ELSE s
isTLSScheme(s) == s \in {"https", "wss"}
defaultPort(scheme, port) == port = IF isTLSScheme(scheme) THEN "443" ELSE "80"
EncodedPort(u) == IF defaultPort(u.scheme, u.port) THEN "" ELSE u.port
Root == << << >> >>
PathOf(u) == IF u.path = << >> THEN Root ELSE u.path

\* The host and port of a URL as one segment, and back.
HostPort(u) == IF u.port = "" THEN u.host ELSE u.host \o <<":", u.port>>
HasPort(seg) == Len(seg) > 2 /\ seg[Len(seg) - 1] = ":" /\ Last(seg) \in Ports
hostOnly(seg) == IF HasPort(seg) THEN SubSeq(seg, 1, Len(seg) - 2) ELSE seg
\* Variants named "...Bug" are plausible slips of the definition that follows
\* them; nothing uses them but the mutation checks.
portOfBug(seg) == IF HasPort(seg) THEN seg[Len(seg) - 1] ELSE ""
portOf(seg) == IF HasPort(seg) THEN Last(seg) ELSE ""
IPv6(host) == Contains(host, ":")

assemble(scheme, host, port, tail) ==
    IF host = << >> THEN {} ELSE {URL(scheme, host, port, IF tail = << >> THEN Root ELSE tail)}

From(path, i) == SubSeq(path, i, Len(path))

-----------------------------------------------------------------------------
(* plain and wrd: the target in the path *)

PlainPrefix == <<"p">>
Hidden == "#"                      \* a name encrypted by the wrd codec
\* A reference whose host is empty is path-absolute.
PathRef(path) == URL("", << >>, "", path)

PlainMatch(path) == Len(path) > 1 /\ path[1] = PlainPrefix
PlainEncode(u) == {PathRef(<<PlainPrefix, <<u.scheme>>, HostPort(u)>> \o PathOf(u))}
PlainDecode(path) ==
    IF PlainMatch(path) /\ path[2] \in {<<s>> : s \in SchemeSupported} /\ Len(path) > 2
    THEN assemble(path[2][1], hostOnly(path[3]), portOf(path[3]), From(path, 4))
    ELSE {}

WRDScheme(u) == IF EncodedPort(u) = "" THEN <<u.scheme>> ELSE <<u.scheme, "-", u.port>>
WRDMatch(path) ==
    /\ path # << >>
    /\ \E s \in SchemeSupported : path[1] = <<s>> \/ \E n \in Ports : path[1] = <<s, "-", n>>
WRDEncode(u) == {PathRef(<<WRDScheme(u), <<Hidden>> \o u.host>> \o PathOf(u))}
WRDDecode(path) ==
    LET n == IF Len(path[1]) = 3 THEN path[1][3] ELSE ""
    IN  IF WRDMatch(path) /\ Len(path) > 1 /\ Len(path[2]) > 1 /\ path[2][1] = Hidden /\ n \notin BadPorts
        THEN assemble(path[1][1], Tail(path[2]), n, From(path, 3))
        ELSE {}

-----------------------------------------------------------------------------
(* sub-domain: the target in a label of the wildcard domain *)

encodeLabelBug(hostname, port, tls) ==
    FlattenSeq([i \in DOMAIN hostname |-> IF hostname[i] = "." THEN <<"-">> ELSE <<hostname[i]>>])
        \o (IF port = "" THEN << >> ELSE <<"-", "p", port>>)
        \o (IF tls THEN <<"-", "s">> ELSE << >>)
encodeLabel(hostname, port, tls) ==
    FlattenSeq([i \in DOMAIN hostname |->
                   CASE hostname[i] = "-" -> <<"-", "-">>
                     [] hostname[i] = "." -> <<"-">>
                     [] OTHER -> <<hostname[i]>>])
        \o (IF port = "" THEN << >> ELSE <<"-", "p", port>>)
        \o (IF tls THEN <<"-", "s">> ELSE << >>)

\* The marker closes the label and its hyphen is not the second of a pair.
EndsInBug(label, marker) == IsSuffix(marker, label)
EndsIn(label, marker) ==
    LET before == Len(label) - Len(marker)
    IN  IsSuffix(marker, label) /\ (before = 0 \/ label[before] # "-")
Unmarked(label, marker) == SubSeq(label, 1, Len(label) - Len(marker))

\* Pairs of hyphens are hyphens, the others dots: read from the left.
Paired(label) ==
    LET paired[i \in 0..Len(label)] ==    \* the second of a pair closes at i
            i > 1 /\ label[i] = "-" /\ label[i - 1] = "-" /\ ~paired[i - 1]
    IN  {i \in DOMAIN label : paired[i]}
Spelled(label) ==
    LET paired == Paired(label)
    IN  FlattenSeq([i \in DOMAIN label |->
            CASE label[i] # "-" -> <<label[i]>>
              [] i \in paired -> <<"-">>
              [] i + 1 \in paired -> << >>
              [] OTHER -> <<".">>])

decodeLabel(label) ==
    LET tls == EndsIn(label, <<"-", "s">>)
        bare == IF tls THEN Unmarked(label, <<"-", "s">>) ELSE label
        ported == bare # << >> /\ Last(bare) \in Ports /\ EndsIn(bare, <<"-", "p", Last(bare)>>)
    IN  [tls |-> tls,
         port |-> IF ported THEN Last(bare) ELSE "",
         hostname |-> Spelled(IF ported THEN Unmarked(bare, <<"-", "p", Last(bare)>>) ELSE bare)]

Under(host, base) == Len(host) > Len(base) + 1 /\ IsSuffix(<<".">> \o base, host)
\* What hostOnly drops of a host besides its port: the dot of the DNS root.
Rootless(host) == IF host # << >> /\ Last(host) = "." THEN Front(host) ELSE host
isGatewayHost(c, host) ==
    LET h == Rootless(host)
    IN  h \in {c.base, c.portal} \/ Under(h, c.base)
gatewayScheme(c, scheme) ==
    IF scheme \in {"ws", "wss"} THEN (IF c.tls THEN "wss" ELSE "ws")
    ELSE IF c.tls THEN "https" ELSE "http"

HostMatchBug(c, host, path) == ~PlainMatch(path) /\ Under(host, c.base)
HostMatch(c, host, path) == ~PlainMatch(path) /\ host # c.portal /\ Under(host, c.base)

HostEncode(c, u) ==
    LET label == encodeLabel(u.host, EncodedPort(u), isTLSScheme(u.scheme))
        host == label \o <<".">> \o c.base
    IN  IF isGatewayHost(c, u.host) THEN {}
        ELSE IF IPv6(u.host) \/ Len(label) > MaxLabel \/ host = c.portal THEN PlainEncode(u)
        ELSE {URL(gatewayScheme(c, u.scheme), host, c.port, PathOf(u))}

HostDecode(c, host, path) ==
    LET label == SubSeq(host, 1, Len(host) - Len(c.base) - 1)
        d == decodeLabel(label)
    IN  IF host = c.portal \/ ~Under(host, c.base) \/ Contains(label, ".") \/ d.port \in BadPorts
        THEN {}
        ELSE assemble(IF d.tls THEN "https" ELSE "http", d.hostname, d.port, path)

-----------------------------------------------------------------------------
(* Codec: any of the three *)

Match(c, host, path) ==
    CASE c.mode = "plain" -> PlainMatch(path)
      [] c.mode = "wrd" -> WRDMatch(path)
      [] OTHER -> HostMatch(c, host, path)
Encode(c, u) ==
    CASE c.mode = "plain" -> PlainEncode(u)
      [] c.mode = "wrd" -> WRDEncode(u)
      [] OTHER -> HostEncode(c, u)
Decode(c, host, path) ==
    CASE c.mode = "plain" -> PlainDecode(path)
      [] c.mode = "wrd" -> IF path = << >> THEN {} ELSE WRDDecode(path)
      [] OTHER -> HostDecode(c, host, path)

\* Handler.decode: whichever codec claims the address.
decode(c, host, path) == IF PlainMatch(path) THEN PlainDecode(path) ELSE Decode(c, host, path)

\* The codec told how the browser reached the gateway.
codecSecure(c) == IF c.mode = "subdomain" THEN [c EXCEPT !.tls = Secure] ELSE c

\* Where a browser at `at` goes for a reference.
Resolve(ref, at) == IF ref.host = << >> THEN [at EXCEPT !.path = ref.path] ELSE ref

\* One splice of unwrapTarget: a reference to the target's own host, folded
\* into its path anywhere but at the start, gives way to the path it names.
Folded(c, u) ==
    {i \in 2..Len(u.path) :
        \E inner \in decode(c, u.host, From(u.path, i)) : HostPort(inner) = HostPort(u)}
Splice(c, u) ==
    IF Folded(c, u) = {} THEN u
    ELSE LET i == Min(Folded(c, u))
             inner == CHOOSE v \in decode(c, u.host, From(u.path, i)) : TRUE
         IN  [u EXCEPT !.path = SubSeq(u.path, 1, i - 1) \o inner.path]
unwrapTarget(c, u) == Splice(c, Splice(c, Splice(c, Splice(c, u))))

-----------------------------------------------------------------------------
(* What restore.go puts back into parameters *)

addressedToGateway(c, host, browserHost) ==
    host = browserHost \/ (c.mode = "subdomain" /\ isGatewayHost(c, host))

sameShapeAsBug(src, decoded) == decoded
sameShapeAs(src, decoded) ==
    IF decoded.path = Root /\ (src.path = << >> \/ Last(src.path) # << >>)
    THEN [decoded EXCEPT !.path = << >>] ELSE decoded

\* A bare gateway address stands for the page the browser is on.
realAddress(c, u, page, browserHost) ==
    LET exact == IF PlainDecode(u.path) # {} THEN PlainDecode(u.path) ELSE Decode(c, u.host, u.path)
    IN  IF ~addressedToGateway(c, u.host, browserHost) THEN u
        ELSE IF exact # {} THEN sameShapeAs(u, CHOOSE v \in exact : TRUE)
        ELSE [page EXCEPT !.path = u.path]

-----------------------------------------------------------------------------
(* What a page carries: rewrite.go on the server, assets/shim.js in it *)

\* Rewriter.Ref on an absolute address: one that is not encoded stays itself.
Ref(c, u) == IF Encode(codecSecure(c), u) = {} THEN u ELSE CHOOSE r \in Encode(codecSecure(c), u) : TRUE

\* Rewriter.JS on scheme://host: the trailing "/" of the encoding is dropped,
\* what followed the host in the script follows it again.
JS(c, u, at) ==
    LET r == Ref(c, [u EXCEPT !.path = << >>])
    IN  [Resolve(r, at) EXCEPT !.path = (IF r.path = << >> THEN << >> ELSE Front(r.path)) \o u.path]

pathForm(u) == CHOOSE r \in PlainEncode([u EXCEPT !.scheme = httpScheme(u.scheme)]) : TRUE

shimEncode(c, u) ==
    LET label == encodeLabel(u.host, EncodedPort(u), isTLSScheme(u.scheme))
    IN  IF c.mode # "subdomain" \/ IPv6(u.host) \/ Len(label) > MaxLabel THEN pathForm(u)
        ELSE URL(gatewayScheme(codecSecure(c), u.scheme), label \o <<".">> \o c.base, c.port, PathOf(u))

shimGatewayHost(c, host, at) ==
    host = at.host \/ (c.mode = "subdomain" /\ (host = c.base \/ Under(host, c.base)))

isGatewayPath(c, path) ==
    \/ PlainMatch(path) \/ (Len(path) > 1 /\ path[1] = <<"_wv">>)
    \/ c.mode = "wrd" /\ WRDMatch(path) /\ Len(path) > 1 /\ path[2] # << >> /\ path[2][1] = Hidden

\* refBase: what a relative reference is measured from; page is cfg.t.
refBase(page, at) ==
    IF PlainMatch(at.path) /\ Len(at.path) > 2
    THEN CHOOSE v \in PlainDecode(at.path) : TRUE
    ELSE [page EXCEPT !.path = at.path]

\* shim.js rewrite: a reference is a URL, or a path-absolute one.
rewrite(c, ref, page, at) ==
    LET u == Resolve(ref, refBase(page, at))
    IN  IF ref.host = << >> /\ PlainMatch(ref.path) THEN ref
        ELSE IF ~shimGatewayHost(c, u.host, at) THEN shimEncode(c, u)
        ELSE IF c.mode = "subdomain" \/ isGatewayPath(c, u.path) THEN ref
        ELSE shimEncode(c, [page EXCEPT !.path = u.path])
=============================================================================
