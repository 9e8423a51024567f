--------------------------- MODULE MCHostMonitors ---------------------------
\* Two of each kind, and the shortest windows that tell early from late.
EXTENDS HostMonitors
MCInterfaces == <<"lo", "eth0", "eth1", "docker0">>
\* Options with no, one and two values, a long name, and one unknown to the parser.
MCOptions ==
    {<<FALSE, "-j", <<"DROP">>>>, <<FALSE, "--jump", <<"DNAT">>>>, <<TRUE, "-s", <<"cidr">>>>, <<FALSE, "--dport", <<"10250">>>>,
     <<FALSE, "-m", <<"conntrack">>>>, <<TRUE, "--ctstate", <<"INVALID">>>>, <<FALSE, "--ctstate", <<"INVALID">>>>,
     <<FALSE, "--reject-with", <<"icmp-port-unreachable">>>>, <<FALSE, "--tcp-flags", <<"SYN", "RST">>>>,
     <<TRUE, "--random", <<>>>>, <<FALSE, "--hitcount", <<"3">>>>}
MCSeverityOf == [c \in Checks |-> IF c = "liveness" THEN "Fatal" ELSE "Warning"]
MCAllowed == {<<"filter", "CUSTOM">>}
=============================================================================
