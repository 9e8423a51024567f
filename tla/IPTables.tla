------------------------------ MODULE IPTables ------------------------------
(***************************************************************************)
(* The iptables check of the networking monitor: ParseIPTablesRule on the  *)
(* segments of a rule, which rejects are expected, and port conflicts; the *)
(* MAC address policy and sysctl.                                          *)
(***************************************************************************)
EXTENDS LogHandlers, SequencesExt

CONSTANTS
    Options,        \* what rules are made of: <<negated, option, values>>
    MaxOptions,     \* options of a rule
    AllowedChains   \* allowedIPTablesChains, <<table, chain>>

VARIABLES
    written,    \* the options of the rule that iptables-save printed
    parsed,     \* what ParseIPTablesRule made of it
    ruleOut,    \* the reasons reported for it
    hybrid      \* the node is a hybrid node
ruleVars == <<written, parsed, ruleOut, hybrid>>

\* The options whose value is kept, and the short name of the field they set.
\* A match set is read and dropped: it is appended to a copy of its match.
Stored(opt) ==
    opt \in {"-A", "-g", "--goto", "-j", "--jump", "-m", "--match", "-i", "--in-interface", "-o", "--out-interface",
             "-s", "--source", "-d", "--destination", "-p", "--protocol", "--sport", "--source-port",
             "--dport", "--destination-port", "--dports", "--name", "--comment", "--mask", "--mark", "--reject-with",
             "--ctstate", "--ctmask", "--nfacct-name", "--nfmask", "--mode", "--probability", "--dst-type", "--src-type",
             "--to-destination", "--to-source", "--set-xmark", "--queue-num", "--state", "--seconds", "--tcp-flags"}
NameOf(opt) ==
    CASE opt = "--goto" -> "-g" [] opt = "--jump" -> "-j" [] opt = "--match" -> "-m" [] opt = "--source" -> "-s"
      [] opt = "--destination" -> "-d" [] opt = "--protocol" -> "-p" [] opt = "--in-interface" -> "-i"
      [] opt = "--out-interface" -> "-o" [] opt = "--source-port" -> "--sport"
      [] opt = "--destination-port" -> "--dport" [] OTHER -> opt

\* How many segments after an option belong to it: none after a flag or an
\* option the parser does not know.
Arity(opt) == IF opt \in {"--tcp-flags", "--match-set"} THEN 2 ELSE IF Stored(opt) THEN 1 ELSE 0

\* A value that the parser does not expect is read as an option, and is none.
ASSUME OptionsAssumption ==
    /\ Options \subseteq BOOLEAN \X (STRING \ {"!"}) \X Seq(STRING)
    /\ \A o \in Options :
          /\ Len(o[3]) >= Arity(o[2])
          /\ \A k \in DOMAIN o[3] : k > Arity(o[2]) => o[3][k] # "!" /\ Arity(o[3][k]) = 0
    /\ MaxOptions \in Nat

\* A rule as segments.
Words(o) == (IF o[1] THEN <<"!">> ELSE <<>>) \o <<o[2]>> \o o[3]
SegmentsUpTo(options) ==
    LET upTo[n \in 0..Len(options)] == IF n = 0 THEN <<>> ELSE upTo[n - 1] \o Words(options[n])
    IN  upTo
Segments(options) == SegmentsUpTo(options)[Len(options)]

Seg(segs, i) == IF i \in DOMAIN segs THEN segs[i] ELSE ""

\* Mutant: the negation of an option extends to the ones after it.
NextInvert_Sticky(opt, invert) == invert \/ opt = "!"
NextInvert(opt, invert) == opt = "!"
\* ParseIPTablesRule: the loop over the segments, with i and invert; the rule
\* is the options met, each with its first value and whether it is negated.
ParseSegment(segs, s, j) ==
    IF j # s.i THEN s
    ELSE [i |-> j + 1 + Arity(segs[j]), invert |-> NextInvert(segs[j], s.invert),
          rule |-> IF Stored(segs[j]) THEN Append(s.rule, <<s.invert, NameOf(segs[j]), Seg(segs, j + 1)>>) ELSE s.rule]
Parse(segs) ==
    LET after[j \in 0..Len(segs)] ==
            IF j = 0 THEN [i |-> 1, invert |-> FALSE, rule |-> <<>>] ELSE ParseSegment(segs, after[j - 1], j)
    IN  after
ParseIPTablesRule(segs) == Parse(segs)[Len(segs)].rule

\* A field of a rule: the last value of its option; "" if there is none.
Field(rule, opt) ==
    LET at == {i \in DOMAIN rule : rule[i][2] = opt}
    IN  IF at = {} THEN "" ELSE rule[Max(at)][3]
Plain(rule, opt) ==
    LET at == {i \in DOMAIN rule : rule[i][2] = opt}
    IN  at # {} /\ ~rule[Max(at)][1]

\* A negated value has "!" before it and equals none of these.
IsReject(rule) ==
    \/ Plain(rule, "-j") /\ Field(rule, "-j") \in {"REJECT", "DROP"}
    \/ Plain(rule, "-g") /\ Field(rule, "-g") \in {"REJECT", "DROP"}
    \/ Field(rule, "--reject-with") # ""
\* Comments are known by the text they contain, also if negated.
IsExpectedRejectRule(rule, table) ==
    LET chain == Field(rule, "-A") comment == Field(rule, "--comment")
    IN  \/ /\ chain = "KUBE-FORWARD" /\ Plain(rule, "--ctstate") /\ Field(rule, "--ctstate") = "INVALID"
           /\ <<FALSE, "-m", "conntrack">> \in {rule[i] : i \in DOMAIN rule}
        \/ chain = "KUBE-FIREWALL" /\ comment \in {"block incoming localnet", "dropping marked packets"}
        \/ chain \in {"KUBE-SERVICES", "KUBE-EXTERNAL-SERVICES"}
           /\ (comment \in {"has no endpoints", "has no local endpoints"} \/ Field(rule, "--reject-with") = "icmp-port-unreachable")
        \/ chain \in {"KUBE-IPVS-FILTER", "KUBE-IPVS-OUT-FILTER", "KUBE-SOURCE-RANGES-FIREWALL", "cali-INPUT"}
        \/ chain = "FORWARD" /\ comment = "Block Node Local Pod access"
        \/ <<table, chain>> \in AllowedChains

\* handleIPTables and checkIPTables for one rule of a table.
PortConflict(rule) ==
    Plain(rule, "--dport") /\ Field(rule, "--dport") = "10250" /\ Plain(rule, "-j") /\ Field(rule, "-j") = "DNAT"
checkIPTables(rule, table) ==
    (IF PortConflict(rule) THEN {Build("PortConflict")} ELSE {})
    \cup (IF ~hybrid /\ IsReject(rule) /\ ~IsExpectedRejectRule(rule, table) THEN {Build("UnexpectedRejectRule")} ELSE {})

Rules == {<<>>} \cup UNION {[1..n -> Options] : n \in 1..MaxOptions}
handleIPTables ==
    /\ written = <<>>
    /\ \E options \in Rules, chain \in {"KUBE-FORWARD", "KUBE-SERVICES", "CUSTOM"}, table \in {"filter", "nat"} :
          LET rule == <<<<FALSE, "-A", <<chain>>>>>> \o options
              got == ParseIPTablesRule(Segments(rule))
          IN  written' = rule /\ parsed' = got /\ ruleOut' = checkIPTables(got, table)
    /\ UNCHANGED hybrid
\* The next poll prints the rules anew.
NextRule == written # <<>> /\ written' = <<>> /\ parsed' = <<>> /\ ruleOut' = {} /\ UNCHANGED hybrid

RuleInit == written = <<>> /\ parsed = <<>> /\ ruleOut = {} /\ hybrid \in BOOLEAN
RuleNext == handleIPTables \/ NextRule

-----------------------------------------------------------------------------
VARIABLE netOut     \* what the last of these polls reported

\* CheckMACAddressPolicy: the last assignment counts; empty is "none".
CheckMACAddressPolicy(policies) == policies = <<>> \/ policies[Len(policies)] \in {"none", ""}
\* handleMACAddressPolicy: link files are checked on Ubuntu with the VPC CNI.
handleMACAddressPolicy(ubuntu, vpcCNI, files) ==
    IF ubuntu /\ vpcCNI /\ \E f \in files : ~CheckMACAddressPolicy(f) THEN {Build("MACAddressPolicyMisconfigured")} ELSE {}
checkNetworkSysctl(ipForward) == IF ipForward # 1 THEN {Build("NetworkSysctl")} ELSE {}

NetPoll ==
    \/ \E ubuntu, vpcCNI \in BOOLEAN, files \in SUBSET {<<>>, <<"persistent", "none">>, <<"none", "persistent">>, <<"">>} :
          netOut' = handleMACAddressPolicy(ubuntu, vpcCNI, files)
    \/ \E ipForward \in {0, 1} : netOut' = checkNetworkSysctl(ipForward)

-----------------------------------------------------------------------------
(* Properties *)

\* Every option of a rule but match sets is read with its value and with its own negation,
\* whatever stands before it, options the parser does not know included
\* (iptables/parser.go, ParseIPTablesRule).
RulesParsed ==
    LET known == {i \in DOMAIN written : Stored(written[i][2])}
        Place(i) == Cardinality({j \in known : j <= i})
    IN  /\ Len(parsed) = Cardinality(known)
        /\ \A i \in known : parsed[Place(i)] = <<written[i][1], NameOf(written[i][2]), written[i][3][1]>>
=============================================================================
