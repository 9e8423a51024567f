-------------------------- MODULE NetworkingMonitor --------------------------
(***************************************************************************)
(* The networking monitor's polls of IPAMD, of the interfaces, and of the  *)
(* IP rules and routes of the pods' addresses.                             *)
(***************************************************************************)
EXTENDS Pacing, LogHandlers

CONSTANTS
    Pods,           \* names of VPC CNI pods
    Consistency,    \* ipamdNotRunningConsistencyDuration, in steps of time
    Containers      \* containers in IPAMD's checkpoint

ASSUME IpamdAssumption == Consistency \in Nat

VARIABLES
    vpcCNIPodID,
    notRunningAge,  \* ipamdNotRunningTime, as an age
    downAge,        \* history: the last poll that found this pod's IPAMD down
    downSilent,     \* history: that poll was not reported
    criIPCache,     \* containers whose address is cached
    ipamdOut        \* the last poll: its reason, and downAge and downSilent before it
ipamdVars == <<vpcCNIPodID, notRunningAge, downAge, downSilent, criIPCache, ipamdOut>>

NoPod == "none"
Quiet == [reason |-> "none", down |-> None, silent |-> FALSE]

\* isVPCCNIInstalled: the pod known so far if its logs are still there.
isVPCCNIInstalled(pods) ==
    IF vpcCNIPodID \in pods THEN {vpcCNIPodID} ELSE IF pods = {} THEN {NoPod} ELSE pods

\* Mutant: the window of the pod before goes on.
NewPod_KeepsWindow(pod) ==
    /\ vpcCNIPodID' = pod /\ downAge' = None /\ downSilent' = FALSE /\ ipamdOut' = Quiet
    /\ UNCHANGED <<notRunningAge, criIPCache>>
NewPod(pod) ==
    /\ vpcCNIPodID' = pod /\ notRunningAge' = None /\ ipamdOut' = Quiet
    /\ downAge' = None /\ downSilent' = FALSE
    /\ UNCHANGED criIPCache

\* checkIPAMD: not running, it is reported from the second time in the window,
\* which polls that find it running do not close.
IpamdDown ==
    LET first == notRunningAge = None \/ notRunningAge > Consistency
    IN  /\ notRunningAge' = IF first THEN 0 ELSE notRunningAge
        /\ ipamdOut' = [reason |-> IF first THEN "none" ELSE "IPAMDNotRunning", down |-> downAge, silent |-> downSilent]
        /\ downAge' = 0 /\ downSilent' = first
        /\ UNCHANGED <<vpcCNIPodID, criIPCache>>
\* checkIPAMD: running, the addresses of the checkpoint are compared with those
\* of the CRI, which answers for some containers, up to the first conflict.
CrossCheck(answers, conflicts, passed) ==
    LET known == criIPCache \cup answers
        hit == conflicts \cap known
    IN  /\ passed \subseteq Containers \ hit /\ (hit = {} => passed = Containers)
        /\ \E first \in IF hit = {} THEN {{}} ELSE {{c} : c \in hit} :
               criIPCache' = criIPCache \cup (answers \cap (passed \cup first))
        /\ ipamdOut' = IF hit = {} THEN Quiet ELSE [Quiet EXCEPT !.reason = "IPAMDInconsistentState"]
        /\ UNCHANGED <<vpcCNIPodID, notRunningAge, downAge, downSilent>>

\* handleIPAMD; on Auto Mode only the cross-check is left of it.
handleIPAMD ==
    \E pods \in SUBSET Pods : \E pod \in isVPCCNIInstalled(pods) :
        \/ /\ pod = NoPod /\ ipamdOut' = Quiet
           /\ UNCHANGED <<vpcCNIPodID, notRunningAge, downAge, downSilent, criIPCache>>
        \/ pod # NoPod /\ pod # vpcCNIPodID /\ NewPod(pod)
        \/ pod # NoPod /\ pod = vpcCNIPodID /\ IpamdDown
        \/ pod # NoPod /\ pod = vpcCNIPodID /\ \E answers, conflicts, passed \in SUBSET Containers : CrossCheck(answers, conflicts, passed)

IpamdTick ==
    /\ notRunningAge' = Aged(notRunningAge, Consistency + 1) /\ downAge' = Aged(downAge, Consistency + 1)
    /\ criIPCache' \in SUBSET criIPCache    \* entries expire
    /\ ipamdOut' = Quiet
    /\ UNCHANGED <<vpcCNIPodID, downSilent>>

IpamdInit ==
    /\ vpcCNIPodID = NoPod /\ notRunningAge = None /\ downAge = None /\ downSilent = FALSE
    /\ criIPCache = {} /\ ipamdOut = Quiet
IpamdNext == handleIPAMD \/ IpamdTick

-----------------------------------------------------------------------------
CONSTANTS
    Interfaces, \* the interfaces in the order of their indices
    Skipped,    \* names that are docker's, dummies or excluded
    CacheTTL    \* interfaceCacheTTL, in steps of time

ASSUME InterfaceAssumption == Interfaces \in Seq(STRING) /\ CacheTTL \in Nat

VARIABLES
    interfaceCache, \* per interface, the flags it lacked and their age
    lastLook,       \* history: the same of the last poll that came to it
    lastPoll,       \* history: the flags all interfaces lacked at the last poll
    pollAge,        \* history: the age of that poll
    quietPolls,     \* history: polls in a row without a report
    interfaceOut    \* the last poll: what was reported, and what lasted
interfaceVars == <<interfaceCache, lastLook, lastPoll, pollAge, quietPolls, interfaceOut>>

Names == {Interfaces[i] : i \in DOMAIN Interfaces}
Faults == {{}, {"InterfaceNotRunning"}, {"InterfaceNotUp", "InterfaceNotRunning"}}
Absent == [lacks |-> {}, age |-> None]
NoReport == [reason |-> "none", name |-> "none", lo |-> TRUE, sustained |-> FALSE, lasting |-> FALSE]

\* interfaceHasConsistentIssue
ConsistentIssues(n, lacks) ==
    IF interfaceCache[n].age = None \/ interfaceCache[n].age > CacheTTL THEN {} ELSE interfaceCache[n].lacks \cap lacks

Cached(n, lacks) == [lacks |-> lacks, age |-> 0]

\* checkInterfaces: interfaces are cached as far as the loop came, which is up
\* to the first one with an issue that it had before.
checkInterfaces(present, lacks) ==
    LET considered == {i \in DOMAIN Interfaces : Interfaces[i] \in present \ Skipped}
        issues(i) == ConsistentIssues(Interfaces[i], lacks[Interfaces[i]])
        hits == {i \in considered : issues(i) # {}}
        hit == Min(hits)
        looked == {Interfaces[i] : i \in {j \in considered : hits = {} \/ j <= hit}}
        reason == IF hits # {}
                  THEN IF "InterfaceNotUp" \in issues(hit) THEN "InterfaceNotUp" ELSE "InterfaceNotRunning"
                  ELSE IF "lo" \in present THEN "none" ELSE "MissingLoopbackInterface"
        looks == [n \in Names |-> IF n \in looked THEN [lacks |-> lacks[n], age |-> 0] ELSE lastLook[n]]
        quiet == IF reason # "none" THEN 0 ELSE IF quietPolls < 2 THEN quietPolls + 1 ELSE 2
    IN  /\ interfaceCache' = [n \in Names |-> IF n \in looked THEN Cached(n, lacks[n]) ELSE interfaceCache[n]]
        /\ interfaceOut' =
              [reason |-> reason, name |-> IF hits = {} THEN "none" ELSE Interfaces[hit], lo |-> "lo" \in present,
               sustained |-> hits # {} /\ reason \in lastLook[Interfaces[hit]].lacks
                                       /\ lastLook[Interfaces[hit]].age \in 0..CacheTTL,
               lasting |-> pollAge \in 0..CacheTTL
                           /\ \E i \in considered : lacks[Interfaces[i]] \cap lastPoll[Interfaces[i]] # {}]
        /\ lastLook' = looks /\ quietPolls' = quiet /\ pollAge' = 0
        /\ lastPoll' = [n \in Names |-> IF n \in present THEN lacks[n] ELSE {}]

InterfaceTick ==
    /\ interfaceCache' = [n \in Names |-> [interfaceCache[n] EXCEPT !.age = Aged(@, CacheTTL + 1)]]
    /\ lastLook' = [n \in Names |-> [lastLook[n] EXCEPT !.age = Aged(@, CacheTTL + 1)]]
    /\ pollAge' = Aged(pollAge, CacheTTL + 1)
    /\ interfaceOut' = NoReport
    /\ UNCHANGED <<lastPoll, quietPolls>>

InterfaceInit ==
    /\ interfaceCache = [n \in Names |-> Absent] /\ lastLook = [n \in Names |-> Absent]
    /\ lastPoll = [n \in Names |-> {}] /\ pollAge = None /\ quietPolls = 0 /\ interfaceOut = NoReport
\* The loopback is there or not; the others may lack flags, and the ones that
\* are passed over lack both.
Sights ==
    {s \in (SUBSET Names) \X [Names -> Faults] : \A n \in Names :
        /\ n \notin s[1] \/ n = "lo" => s[2][n] = {}
        /\ n \in s[1] \cap Skipped => s[2][n] = {"InterfaceNotUp", "InterfaceNotRunning"}}
InterfaceNext == InterfaceTick \/ \E s \in Sights : checkInterfaces(s[1], s[2])

-----------------------------------------------------------------------------
CONSTANTS
    IPs,        \* addresses of pods
    Secondary   \* the ones on secondary ENIs

VARIABLES
    enis,       \* addresses that IPAMD has assigned
    rules,      \* the kernel's rules, <<priority, address>>
    routes,     \* addresses with a route
    defaultRoute, \* the secondary table has a default route
    poll,       \* what handleIPRulesAndRoutes has read so far
    good,       \* history: assigned addresses with rule and route since the poll began
    bad,        \* history: assigned addresses without, and without changes to it
    routesOut
routeVars == <<enis, rules, routes, defaultRoute, poll, good, bad, routesOut>>

Idle == [step |-> "idle", ips |-> {}, rules |-> {}]
NoFinding == [ips |-> {}, table |-> FALSE, good |-> {}, bad |-> {}]
Ruled(ip, rs) == <<512, ip>> \in rs \/ <<1536, ip>> \in rs

\* The three reads of handleIPRulesAndRoutes; without addresses it ends.
ReadEnis ==
    /\ poll.step = "idle"
    /\ poll' = [Idle EXCEPT !.step = "rules", !.ips = enis]
    /\ good' = {ip \in enis : Ruled(ip, rules) /\ ip \in routes}
    /\ bad' = {ip \in enis : ~Ruled(ip, rules)}
    /\ routesOut' = NoFinding
    /\ UNCHANGED <<enis, rules, routes, defaultRoute>>
ReadRules ==
    /\ poll.step = "rules"
    /\ poll' = [poll EXCEPT !.step = "routes", !.rules = rules]
    /\ UNCHANGED <<enis, rules, routes, defaultRoute, good, bad, routesOut>>

\* A read fails, and the poll ends.
ReadFails ==
    /\ poll.step # "idle" /\ poll' = Idle
    /\ UNCHANGED <<enis, rules, routes, defaultRoute, good, bad, routesOut>>

\* Mutant: only rules of pods on the primary ENI are recognized.
MissingRules_Primary(ips, rs) == {ip \in ips : <<512, ip>> \notin rs}
MissingRules(ips, rs) == {ip \in ips : ~Ruled(ip, rs)}
\* checkIPRulesAndRoutes: an address without a rule is not checked for routes;
\* the table of a secondary ENI is known from its rules.
checkIPRulesAndRoutes ==
    /\ poll.step = "routes"
    /\ poll' = Idle
    /\ routesOut' =
          [ips |-> MissingRules(poll.ips, poll.rules) \cup (poll.ips \ routes),
           table |-> poll.ips # {} /\ (\E ip \in IPs : <<1536, ip>> \in poll.rules) /\ ~defaultRoute,
           good |-> good, bad |-> bad]
    /\ good' = {} /\ bad' = {}
    /\ UNCHANGED <<enis, rules, routes, defaultRoute>>

\* The CNI and the kernel, between any two reads (external).
Change(e, rs, rt, d) ==
    /\ enis' = e /\ rules' = rs /\ routes' = rt /\ defaultRoute' = d
    /\ good' = {ip \in good : ip \in e /\ Ruled(ip, rs) /\ ip \in rt}
    /\ bad' = {ip \in bad : ip \in e /\ ~Ruled(ip, rs)}
    /\ routesOut' = NoFinding
    /\ UNCHANGED poll
RouteChange ==
    \/ \E ip \in IPs : Change(enis \cup {ip}, rules, routes, defaultRoute) \/ Change(enis \ {ip}, rules, routes, defaultRoute)
    \/ \E ip \in IPs : Change(enis, rules \cup {<<512, ip>>} \cup {<<1536, x>> : x \in {ip} \cap Secondary}, routes \cup {ip}, defaultRoute)
    \/ \E r \in rules : Change(enis, rules \ {r}, routes, defaultRoute)
    \/ \E ip \in routes : Change(enis, rules, routes \ {ip}, defaultRoute)
    \/ Change(enis, rules, routes, ~defaultRoute)

RouteInit ==
    /\ enis = {} /\ rules = {} /\ routes = {} /\ defaultRoute = TRUE
    /\ poll = Idle /\ good = {} /\ bad = {} /\ routesOut = NoFinding
RouteNext == ReadEnis \/ ReadRules \/ ReadFails \/ checkIPRulesAndRoutes \/ RouteChange

-----------------------------------------------------------------------------
(* Properties *)

\* "max duration between two observations of IPAMDNotRunning to indicate a fatal
\* condition" (networking/monitor.go, handleIPAMD, checkIPAMD): IPAMD is reported
\* as not running only if a poll before found IPAMD of the same pod down, within
\* the window, so that a new pod gets its time to start; and of two such polls,
\* one after the other within the window, one is reported.  Polls in between may
\* have found it running.
IPAMDSeenDownTwice ==
    /\ ipamdOut.reason = "IPAMDNotRunning" => ipamdOut.down \in 0..Consistency
    /\ ipamdOut.silent /\ ipamdOut.down \in 0..Consistency => ipamdOut.reason = "IPAMDNotRunning"

\* An interface that is down or does not run is reported only if the last poll
\* that came to it found the same; a missing loopback by the poll that misses it,
\* which reports it or another fault; and although a poll ends at the first
\* report, a fault that lasts from one poll to the next cannot pass through two
\* silent polls (networking/monitor.go, checkInterfaces).
InterfaceFaultsConfirmed ==
    /\ interfaceOut.reason \in {"InterfaceNotUp", "InterfaceNotRunning"} => interfaceOut.sustained
    /\ interfaceOut.reason = "MissingLoopbackInterface" => ~interfaceOut.lo
    /\ ~interfaceOut.lo => interfaceOut.reason # "none"
    /\ quietPolls = 2 => ~interfaceOut.lasting

\* "only emit a fatal notification if the same issue is seen in adjacent monitor
\* periods" (networking/monitor.go, checkInterfaces).  It does not hold of the
\* missing loopback, which is Fatal after one poll.
FatalOnlyIfAdjacent == interfaceOut.reason # "none" => interfaceOut.sustained

\* Addresses, rules and routes are read one after the other while pods come and
\* go: no address that was complete all the time is reported, and one that had
\* no rule all the time is (networking/monitor.go, handleIPRulesAndRoutes).
RoutesJudgedByState == routesOut.ips \cap routesOut.good = {} /\ routesOut.bad \subseteq routesOut.ips
=============================================================================
