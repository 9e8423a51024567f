----------------------------- MODULE DcgmClient -----------------------------
(***************************************************************************)
(* The DCGM client of the nvidia monitor (nvidia/dcgm/dcgm_client.go): the *)
(* reconcile loop that connects to a host engine which may crash, restart  *)
(* and refuse calls, and sets up what the engine is to watch; and the      *)
(* policy listeners of go-dcgm with the client's forwarders.  The loops    *)
(* that poll the engine between reconciles only read the client's state,   *)
(* and are left out; GpuClassify has what their readings mean.             *)
(***************************************************************************)
EXTENDS GpuClassify

CONSTANTS
    Features,       \* the configured features that need a setup
    GracePeriod,    \* InitializationGracePeriod, in reconcile periods
    Findings,       \* what policy violations may be about
    MaxEngines,     \* how often the host engine is started
    MaxFaults,      \* how many calls to a running engine fail
    MaxConns,       \* how often the client connects
    MaxViolations   \* how many policy violations happen

ASSUME DcgmAssumption ==
    /\ GracePeriod \in Nat \ {0}
    /\ Features \subseteq {"policy", "health", "fields"} /\ Features # {}

VARIABLES
    engine, up,     \* the host engine: how many there have been, and whether one runs
    watches,        \* what this engine has been told to watch
    faults,         \* how many calls have failed without a crash
    initialized,    \* dcgmHelper.initialized
    conn,           \* the connection in use: its number and its engine
    shutdownHandlers,
    sinceShutdown,  \* the age of lastShutdown
    step,           \* where Reconcile is: idle, shutdown, init, or setting up a feature
    due,            \* the reconcile ticker has fired
    listeners,      \* per connection: its listener's context and channel
    callbacks,      \* violations in go-dcgm's static channel
    fired,          \* how many violations there have been
    handled,        \* the violations the monitor has reported, with their conditions
    reported,       \* why Reconcile has just reported DCGMError, if it has
    sinceConnected  \* history: the periods since the client was last connected

engineVars == <<engine, up, watches, faults>>
clientVars == <<initialized, conn, shutdownHandlers, sinceShutdown>>
policyVars == <<listeners, callbacks, fired, handled>>
vars == <<engineVars, clientVars, step, due, policyVars, reported, sinceConnected>>

NoConn == [id |-> 0, engine |-> 0]
NoListener == [ctx |-> "none", chan |-> <<>>]
Older(age) == IF age < GracePeriod THEN age + 1 ELSE age

\* Whatever the order of the configuration, Reconcile sets the features up in this one.
Order == [policy |-> 1, health |-> 2, fields |-> 3]
FirstOf(S) == CHOOSE f \in S : \A g \in S : Order[f] <= Order[g]
Later(f) == {g \in Features : Order[g] > Order[f]}

\* A call reaches the engine the client connected to, or fails; a running
\* engine, too, may fail a call now and then.
Reaches == up /\ conn.engine = engine
CallOK == Reaches /\ UNCHANGED faults
CallFails == IF Reaches THEN faults < MaxFaults /\ faults' = faults + 1 ELSE UNCHANGED faults

-----------------------------------------------------------------------------
(* Reconcile *)

\* Mutant: a client that has been initialized is taken to be connected.
Introspected_Always == initialized /\ UNCHANGED faults
\* The health check of a client that is initialized.
Introspected == initialized /\ CallOK

Return(why) == step' = "idle" /\ reported' = why

ReconcileConnected ==
    /\ step = "idle" /\ due
    /\ Introspected
    /\ due' = FALSE /\ Return({})
    /\ UNCHANGED <<engine, up, watches, clientVars, policyVars, sinceConnected>>

ReconcileDisconnected ==
    /\ step = "idle" /\ due
    /\ IF initialized THEN CallFails ELSE UNCHANGED faults
    /\ due' = FALSE /\ reported' = {}
    /\ step' = IF initialized THEN "shutdown" ELSE "init"
    /\ UNCHANGED <<engine, up, watches, clientVars, policyVars, sinceConnected>>

\* Mutant: the time of the shutdown is not taken.
Stamped_Not == UNCHANGED sinceShutdown
Stamped == sinceShutdown' = 0

\* shutdown runs the handlers: the listener's context is cancelled, the field
\* group is destroyed.  Whether Shutdown succeeds or not, the client is no
\* longer initialized; if not, Reconcile ends here.
shutdown ==
    /\ step = "shutdown"
    /\ listeners' = [i \in DOMAIN listeners |->
           IF "policy" \in shutdownHandlers /\ i = conn.id THEN [listeners[i] EXCEPT !.ctx = "cancelled"] ELSE listeners[i]]
    /\ watches' = IF Reaches /\ "fields" \in shutdownHandlers THEN watches \ {"fields"} ELSE watches
    /\ shutdownHandlers' = {} /\ initialized' = FALSE /\ Stamped
    /\ \/ step' = "init" /\ reported' = {} /\ UNCHANGED faults
       \/ CallFails /\ Return({"shutdown"})
    /\ UNCHANGED <<engine, up, conn, due, callbacks, fired, handled, sinceConnected>>

\* Init connects to the engine that runs, and the client counts as initialized.
ReconcileInit ==
    /\ step = "init" /\ up /\ conn.id < MaxConns
    /\ conn' = [id |-> conn.id + 1, engine |-> engine]
    /\ initialized' = TRUE
    /\ step' = FirstOf(Features) /\ reported' = {}
    /\ UNCHANGED <<engineVars, shutdownHandlers, sinceShutdown, due, policyVars, sinceConnected>>

\* A failure is reported unless the client disconnected a short while ago.
ReconcileInitFails ==
    /\ step = "init"
    /\ IF up THEN faults < MaxFaults /\ faults' = faults + 1 ELSE UNCHANGED faults
    /\ Return(When(sinceShutdown >= GracePeriod, "init"))
    /\ UNCHANGED <<engine, up, watches, clientVars, due, policyVars, sinceConnected>>

\* The features are set up one after the other; setting one up has an undo for
\* shutdown, but for the health systems.  A feature may take several calls (the
\* fields: FieldsInit, FieldGroupCreate, WatchFieldsWithGroup): the engine
\* watches and the client records an undo only with the last, so this is that
\* call, and an error of an earlier one, or a crash between them, is an error
\* of the feature.
SetUp(f) ==
    /\ watches' = watches \cup {f}
    /\ shutdownHandlers' = shutdownHandlers \cup ({f} \ {"health"})
    /\ listeners' = IF f = "policy" THEN [listeners EXCEPT ![conn.id] = [ctx |-> "live", chan |-> <<>>]] ELSE listeners
ReconcileSetup ==
    /\ step \in Features
    /\ CallOK /\ SetUp(step)
    /\ IF Later(step) = {} THEN Return({})
       ELSE step' = FirstOf(Later(step)) /\ reported' = {}
    /\ UNCHANGED <<engine, up, initialized, conn, sinceShutdown, due, callbacks, fired, handled, sinceConnected>>

\* An error ends Reconcile: the client stays initialized, and the features from
\* this one on are left as they are.
ReconcileSetupFails ==
    /\ step \in Features
    /\ CallFails
    /\ Return({"setup"})
    /\ UNCHANGED <<engine, up, watches, clientVars, due, policyVars, sinceConnected>>

Reconcile ==
    \/ ReconcileConnected \/ ReconcileDisconnected \/ shutdown
    \/ ReconcileInit \/ ReconcileInitFails \/ ReconcileSetup \/ ReconcileSetupFails

-----------------------------------------------------------------------------
(* Policy violations *)

\* The engine calls back into go-dcgm (external).
Violation(x) ==
    /\ up /\ "policy" \in watches /\ Reaches /\ fired < MaxViolations
    /\ callbacks' = Append(callbacks, [n |-> fired + 1, finding |-> x])
    /\ fired' = fired + 1
    /\ UNCHANGED <<engineVars, clientVars, step, due, listeners, handled, reported, sinceConnected>>

\* go-dcgm's listener, whose select may still pick an event after its context
\* has ended, and that closes its channel in the end (external).
ListenerTakes(i) ==
    /\ listeners[i].ctx \in {"live", "cancelled"} /\ callbacks # <<>>
    /\ listeners' = [listeners EXCEPT ![i].chan = Append(@, Head(callbacks))]
    /\ callbacks' = Tail(callbacks)
    /\ UNCHANGED <<engineVars, clientVars, step, due, fired, handled, reported, sinceConnected>>
ListenerEnds(i) ==
    /\ listeners[i].ctx = "cancelled"
    /\ listeners' = [listeners EXCEPT ![i].ctx = "closed"]
    /\ watches' = IF conn.id = i /\ Reaches THEN watches \ {"policy"} ELSE watches
    /\ UNCHANGED <<engine, up, faults, clientVars, step, due, callbacks, fired, handled, reported, sinceConnected>>

\* handle: the condition for a finding, a pair of a policy and its value.
handle(x) ==
    CASE x[1] = "Xid" -> ClassifyXid(x[2])
      [] x[1] \in {"NvidiaPowerError", "NvidiaThermalError"} -> When(x[2] # 0, Cond(x[1], 0, ""))
      [] OTHER -> ClassifyPolicy(x[1])

\* Mutant: the forwarder ends with the context of its listener.
Forwards_Live(i) == listeners[i].ctx = "live"
\* The forwarder goes on until the channel is closed and empty.
Forwards(i) == TRUE

\* A forwarder hands its next violation to Policies, which reports it.
Policies(i) ==
    /\ Forwards(i) /\ listeners[i].chan # <<>>
    /\ LET v == Head(listeners[i].chan)
       IN  handled' = handled \cup {[n |-> v.n, conds |-> handle(v.finding)]}
    /\ listeners' = [listeners EXCEPT ![i].chan = Tail(@)]
    /\ UNCHANGED <<engineVars, clientVars, step, due, callbacks, fired, reported, sinceConnected>>

-----------------------------------------------------------------------------
(* The host engine and the clock *)

EngineStarts ==
    /\ ~up /\ engine < MaxEngines
    /\ up' = TRUE /\ engine' = engine + 1
    /\ UNCHANGED <<watches, faults, clientVars, step, due, policyVars, reported, sinceConnected>>
EngineCrashes ==
    /\ up
    /\ up' = FALSE /\ watches' = {}
    /\ UNCHANGED <<engine, faults, clientVars, step, due, policyVars, reported, sinceConnected>>

\* The next tick of the ticker; Reconcile takes less than a period.
Tick ==
    /\ step = "idle" /\ ~due
    /\ due' = TRUE /\ reported' = {}
    /\ sinceShutdown' = Older(sinceShutdown)
    /\ sinceConnected' = IF initialized THEN 0 ELSE Older(sinceConnected)
    /\ UNCHANGED <<engineVars, initialized, conn, shutdownHandlers, step, policyVars>>

-----------------------------------------------------------------------------
NewDCGM ==
    /\ engine = 0 /\ up = FALSE /\ watches = {} /\ faults = 0
    /\ initialized = FALSE /\ conn = NoConn /\ shutdownHandlers = {} /\ sinceShutdown = 0
    /\ step = "idle" /\ due = FALSE
    /\ listeners = [i \in 1..MaxConns |-> NoListener] /\ callbacks = <<>> /\ fired = 0 /\ handled = {}
    /\ reported = {} /\ sinceConnected = 0

DcgmNext ==
    \/ Reconcile
    \/ \E x \in Findings : Violation(x)
    \/ \E i \in 1..MaxConns : ListenerTakes(i) \/ ListenerEnds(i) \/ Policies(i)
    \/ EngineStarts \/ EngineCrashes
    \/ Tick

DcgmSpec == NewDCGM /\ [][DcgmNext]_vars

\* The ticker ticks, the reconcile loop and the forwarders run, the policies
\* loop receives.  Nothing is assumed of the host engine.
FairDcgmSpec ==
    /\ DcgmSpec
    /\ WF_vars(Tick) /\ WF_vars(Reconcile)
    /\ \A i \in 1..MaxConns : WF_vars(Policies(i))

-----------------------------------------------------------------------------
(* Properties *)

\* Failing to connect is an error, which marks the node, only when the client
\* has not been connected for the whole grace period; a host engine that
\* restarts quickly is none (Reconcile: "avoid returning a 'failed to
\* initialize' error if we just disconnected from the DCGM host").
ErrorsAreSustained == "init" \in reported => sinceConnected >= GracePeriod

\* A policy violation that a listener has taken is reported, even if the
\* connection it came over is shut down meanwhile (the proxy channel and the
\* forwarders of Reconcile).
Taken(n) == \E i \in 1..MaxConns : \E k \in DOMAIN listeners[i].chan : listeners[i].chan[k].n = n
ViolationsReported == \A n \in 1..MaxViolations : Taken(n) ~> \E h \in handled : h.n = n

\* A client that can connect does: once the host engine stays up, the client
\* ends up connected to it, whatever happened before (Reconcile).
ConnectionReturns == <>[]up => <>[](initialized /\ Reaches)

\* "Reconcile mends the connection to the DCGM host and initializes any of the
\* required components": once the host engine stays up, it ends up watching
\* all that the client needs.
SetupCompletes == <>[]up => <>[](watches = Features)
=============================================================================
