------------------------------- MODULE MCSshGate -------------------------------
(* Small instances of SshGate, times in units and windows of a few of      *)
(* them, after AddrCheck: an address is judged first, and what is left for *)
(* the count rules to judge is one client (step "counting").               *)
EXTENDS SshGate, AddrCheck, TLC

CONSTANTS l1, l2

Rule(t, s, b) == [try |-> t, secs |-> s, ban |-> b]

ThreeMinutes == Rule(1, 2, 2)
TwoRules == (l1 :> <<Rule(1, 4, 3), Rule(0, 1, 1)>>) @@ (l2 :> <<>>)

-----------------------------------------------------------------------------
Nowhere == [f \in Fields |-> {}]
Place(n, p, c, i) == [nation |-> n, province |-> p, city |-> c, isp |-> i]

Places == {NoLoc, Place({"a"}, {"a"}, {"a"}, {"a"}), Place({"a"}, {"b"}, {"a"}, {"b"}),
           Place({"b"}, {"a", "b"}, {"b"}, {"a", "b"}), Place({"a"}, {"a"}, {}, {"a", "local"})}

Row(from, to) == [start |-> from, stop |-> to]
Histories == {<<>>, <<Row(0, 0)>>, <<Row(1, 3), Row(3, 0)>>, <<Row(0, 1), Row(0, 2)>>}

Ask(s, k, rows, tables, fails, counted, cached, api) ==
    [service |-> s, kind |-> k, ipRows |-> rows, tables |-> tables, dbFails |-> fails,
     counted |-> counted, cached |-> cached, api |-> api]

AllAsks ==
    {Ask(s, k, rows, {}, FALSE, counted, NoLoc, NoLoc) :
        s \in {"tcp", "ssh"}, k \in Kinds \ {"public"}, rows \in Histories, counted \in BOOLEAN}
    \cup {Ask(s, "public", rows, {}, fails, FALSE, NoLoc, NoLoc) :
        s \in {"tcp", "ssh"}, rows \in Histories, fails \in BOOLEAN}
    \cup {Ask(s, "public", <<>>, tables, fails, counted, cached, api) :
        s \in {"tcp", "ssh"}, tables \in {{}, {"city"}, {"nation", "isp"}}, fails \in BOOLEAN,
        counted \in BOOLEAN, cached \in {NoLoc, Place({"b"}, {"b"}, {"a"}, {"a"})},
        api \in Places}

RuleFor(exact, vague, ips, banned) ==
    [exact |-> exact, vague |-> vague, ips |-> ips, banned |-> banned]

Everyone(banned) == RuleFor(Nowhere, Nowhere, {TRUE}, banned)
Located(f, banned) == {RuleFor([Nowhere EXCEPT ![f] = {"a"}], Nowhere, {TRUE, FALSE}, banned),
                       RuleFor(Nowhere, [Nowhere EXCEPT ![f] = {"a"}], {TRUE}, banned)}

Lists ==
    {<<>>, <<RuleFor(Nowhere, Nowhere, {FALSE}, TRUE)>>}
    \cup {<<Everyone(b)>> : b \in BOOLEAN}
    \cup UNION {{<<r, Everyone(~b)>> : r \in Located(f, b)} : f \in Fields, b \in BOOLEAN}

Conf(rules, banned, intranet, loopback) ==
    [rules |-> rules, defaultBanned |-> banned,
     allowIntranet |-> intranet, allowLoopback |-> loopback]

AllConfigs ==
    {Conf(rules, TRUE, FALSE, TRUE) : rules \in Lists}
    \cup {Conf(rules, b, i, l) : rules \in {<<>>, <<Everyone(TRUE)>>},
                                 b \in BOOLEAN, i \in BOOLEAN, l \in BOOLEAN}

Edits == {Conf(<<>>, FALSE, TRUE, TRUE), Conf(<<Everyone(TRUE)>>, TRUE, FALSE, FALSE)}

-----------------------------------------------------------------------------
(* The clients that are asked about, and the one left to the count rules.  *)
Counting ==
    /\ ask = NoLoc /\ config = NoLoc /\ loc = NoLoc
    /\ reloaded = FALSE /\ step = "counting" /\ verdict = FALSE

GateInit == Init /\ (AddrInit \/ Counting)

GateNext ==
    \/ step # "counting" /\ AddrNext /\ UNCHANGED vars
    \/ step = "counting" /\ Next /\ UNCHANGED addrVars

GateSpec == GateInit /\ [][GateNext]_<<vars, addrVars>>
=============================================================================
