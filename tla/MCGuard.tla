------------------------------ MODULE MCGuard -------------------------------
(* Small instances of Guard: a name, an IP literal, a name outside the      *)
(* command line's lists, and three addresses, one refused by the baseline.  *)
EXTENDS Guard, TLC

CONSTANTS intranet, literal, site, inner, local, elsewhere

LiteralNames == [h \in {literal} |-> inner]
Lists(modes, hosts) ==
    {p \in [mode : modes, hosts : SUBSET hosts, nets : SUBSET {site, inner}] :
        p.mode = "allowlist" => p.hosts \cup p.nets # {}}
NoList == [mode |-> "off", hosts |-> {}, nets |-> {}]
\* What a list holds is not read while it is off: one such list stands for all.
AllLists == {NoList} \cup Lists({"allowlist", "denylist"}, {intranet})
=============================================================================
