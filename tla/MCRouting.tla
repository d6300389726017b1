----------------------------- MODULE MCRouting ------------------------------
(* Small instances of Routing: the three modes and a second wildcard domain, *)
(* and targets that meet every case of the encodings.                        *)
EXTENDS Routing, TLC

CONSTANTS r1, other, NoAnswer

AllTokens == STRING
Dot(h) == h \o <<".", "x">>
GateName == <<"g", ".", "c">>
Login == {<<"login">>}
App == Dot(<<"a">>)
PlainMode == [mode |-> "plain", base |-> << >>, host |-> << >>, port |-> ""]
WRDMode == [PlainMode EXCEPT !.mode = "wrd"]
\* The portal's name: the default, and one that is also a target's label.
InBase == [mode |-> "subdomain", base |-> <<"b", ".", "c">>, host |-> << >>, port |-> ""]
Elsewhere == [InBase EXCEPT !.base = <<"d", ".", "c">>, !.host = <<"a", "-", "x", ".", "d", ".", "c">>, !.port = "9"]

\* Restoration everywhere, nowhere, and for one site.
AllSSOs == {RestoreAll, [RestoreAll EXCEPT !.mode = "off"], [mode |-> "hosts", hosts |-> {App}]}

AllModes == {PlainMode, WRDMode, InBase, Elsewhere}
PathModes == {PlainMode, WRDMode}
Codecs == [s \in AllModes |-> CodecOf(s)]
AllCodecs == {CodecOf(s) : s \in AllModes} \cup {PlainCodec}
PathCodecs == [s \in PathModes |-> CodecOf(s)]

\* Hosts: a dot, hyphens, markers at the end and in the middle, an address, a
\* name too long for a label, one written down to the root, one with a hyphen
\* where no name of the DNS has one, one inside the wildcard domain and the
\* gateway's own.
Hosts == {App, Dot(<<"a", "-", "b">>), <<"s">>, <<"a", ".", "s">>, <<"a", "-", "s">>, <<"p", "9">>,
          <<"a", ".", "p", "9">>, <<"a", "-", "p", "9", ".", "x">>, <<"1", ":", "2">>,
          <<"a", ".", "b", ".", "a", ".", "b", ".", "a">>, <<"a", ".", "x", ".">>,
          <<"a", ".", "-", "b">>, <<"q", ".", "b", ".", "c">>, GateName}
Folder == << <<"u">>, << >> >>
\* Paths: one that begins as the gateway's do, one that holds the address of its
\* own site, and one the gateway answers itself.
Within == << <<"u">>, PlainPrefix, <<"https">>, App, <<"u">> >>
Paths == {<< >>, Root, << <<"index.html">> >>, << <<"u">> >>, Folder, << PlainPrefix, <<"u">> >>, Within,
          << <<"login">> >>}
Targets ==
    {URL(s, h, n, << <<"u">> >>) : s \in {"http", "https", "wss"}, h \in Hosts, n \in {"", "9", "443"}}
        \cup {URL("https", App, "", p) : p \in Paths}

Page == URL("https", App, "", << <<"u">>, <<"v">> >>)
Second == URL("http", Dot(<<"a", "-", "b">>), "9", << <<"v">> >>)
Numbered == URL("http", <<"1", ":", "2">>, "", << <<"v">> >>)
Inner == URL("https", <<"q", ".", "b", ".", "c">>, "", Root)
Warted == URL("http", <<"a", ".", "s">>, "", << <<"u">> >>)
Alike == << <<"http">>, <<Hidden, "e">>, <<"u">> >>
Again == << <<"u">>, <<"http">>, <<Hidden, "a", ".", "s">>, <<"u">> >>
OwnOrigin(p, path) == [kind |-> "origin", url |-> [p EXCEPT !.path = path]]
InScript(u) == [kind |-> "script", url |-> u]
Params(p) == {OwnOrigin(p, path) : path \in {<< >>, Root, << <<"u">> >>}}
                \cup {InScript([Second EXCEPT !.path = path]) : path \in {<< >>, << <<"u">> >>}}

From1(kind, page, want) ==
    {[kind |-> kind, page |-> page, want |-> want, param |-> OwnOrigin(page, << >>),
      referer |-> TRUE, trail |-> {}]}
AllSources ==
    UNION {From1(kind, Page, u) : kind \in {"link", "shim", "again", "folded", "typed"}, u \in Targets}
    \cup UNION {From1(kind, Page, [Page EXCEPT !.path = p]) : kind \in {"relative", "origin"}, p \in Paths \ {<< >>}}
    \cup UNION {From1("own", p, p) : p \in {Page, Second, Numbered}}
    \cup UNION {From1("portal", Page, [Page EXCEPT !.path = p]) : p \in PortalPaths \cup {<< <<"login">> >>}}
    \cup UNION {{[kind |-> kind, page |-> page, want |-> [page EXCEPT !.path = << <<"u">> >>], param |-> given,
                  referer |-> referer, trail |-> trail] :
                    kind \in {"link", "origin"}, referer \in BOOLEAN,
                    trail \in {{}, {Page}, {Second}}, given \in Params(page)} : page \in {Page, Second, Numbered}}
\* The requests that meet an edit: to other sites, to a name inside the wildcard
\* domain and to names no label can hold or say, on a path of the site, on one
\* that begins as an address of wrd does and on one that names its site again.
Moving ==
    UNION {From1(kind, Page, [w EXCEPT !.path = p]) :
              kind \in {"link", "folded"}, w \in {Second, Inner, Numbered, Warted},
              p \in {<< <<"u">> >>, Alike, Again}}
    \cup UNION {From1("origin", p, [p EXCEPT !.path = << <<"u">> >>]) : p \in {Page, Inner}}
Everything == AllSources \cup Moving
=============================================================================
