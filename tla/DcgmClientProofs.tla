-------------------------- MODULE DcgmClientProofs --------------------------
(***************************************************************************)
(* For any grace period, any features and any history of the host engine:  *)
(* a failure to connect is reported only when the client has been without  *)
(* a connection for the whole grace period.                                *)
(***************************************************************************)
EXTENDS DcgmClient, TLAPS

ClientTypeOK ==
    /\ initialized \in BOOLEAN
    /\ step \in {"idle", "shutdown", "init"} \cup Features
    /\ sinceShutdown \in Nat /\ sinceConnected \in Nat

\* Reconcile connects only a client that is not initialized.
ConnectsWhenShut == step = "init" => ~initialized

\* A client that is not initialized was shut down, or made, no earlier than it
\* was last seen connected.
ShutSinceConnected == ~initialized => sinceShutdown <= sinceConnected

DcgmInv == ClientTypeOK /\ ConnectsWhenShut /\ ShutSinceConnected /\ ErrorsAreSustained

\* The features have a first one, which Reconcile sets up next.
LEMMA FirstOfIn ==
    ASSUME NEW S \in SUBSET {"policy", "health", "fields"}, S # {}
    PROVE  FirstOf(S) \in S
  <1>1. \E f \in S : \A g \in S : Order[f] <= Order[g]
    <2>1. CASE "policy" \in S
      BY <2>1 DEF Order
    <2>2. CASE "policy" \notin S /\ "health" \in S
      BY <2>2 DEF Order
    <2>3. CASE "policy" \notin S /\ "health" \notin S
      <3>1. S = {"fields"}
        BY <2>3
      <3> QED BY <3>1 DEF Order
    <2> QED BY <2>1, <2>2, <2>3
  <1> QED BY <1>1 DEF FirstOf

\* A new client counts as shut down when it is made (NewDCGM).
LEMMA NewDCGMHolds == NewDCGM => DcgmInv
  <1> SUFFICES ASSUME NewDCGM PROVE DcgmInv
    OBVIOUS
  <1>1. sinceShutdown = 0 /\ sinceConnected = 0 /\ step = "idle" /\ reported = {}
    BY DEF NewDCGM
  <1>2. initialized \in BOOLEAN
    BY DEF NewDCGM
  <1> QED BY <1>1, <1>2 DEF DcgmInv, ClientTypeOK, ConnectsWhenShut, ShutSinceConnected, ErrorsAreSustained

\* Steps that leave the client and its clocks alone keep what is said of them.
LEMMA StutterKeeps ==
    DcgmInv /\ UNCHANGED <<initialized, sinceShutdown, step, reported, sinceConnected>> => DcgmInv'
  BY DEF DcgmInv, ClientTypeOK, ConnectsWhenShut, ShutSinceConnected, ErrorsAreSustained

\* Every step of Reconcile keeps the invariant.
LEMMA ReconcileKeeps == DcgmInv /\ Reconcile => DcgmInv'
  <1> SUFFICES ASSUME DcgmInv, Reconcile PROVE DcgmInv'
    OBVIOUS
  <1> USE DEF DcgmInv, ClientTypeOK, ConnectsWhenShut, ShutSinceConnected, ErrorsAreSustained
  <1>1. CASE ReconcileConnected
    BY <1>1 DEF ReconcileConnected, Return, clientVars
  <1>2. CASE ReconcileDisconnected
    BY <1>2 DEF ReconcileDisconnected, clientVars
  <1>3. CASE shutdown
    <2>1. initialized' \in BOOLEAN /\ ~initialized'
      BY <1>3 DEF shutdown
    <2>2. sinceShutdown' = 0 /\ sinceConnected' = sinceConnected
      BY <1>3 DEF shutdown, Stamped
    <2>3. step' \in {"init", "idle"} /\ "init" \notin reported'
      BY <1>3 DEF shutdown, Return
    <2> QED BY <2>1, <2>2, <2>3
  <1>4. CASE ReconcileInit
    <2>1. FirstOf(Features) \in Features
      <3>1. Features \in SUBSET {"policy", "health", "fields"} /\ Features # {}
        BY DcgmAssumption
      <3> QED BY <3>1, FirstOfIn
    <2>2. "init" \notin Features
      BY DcgmAssumption
    <2>3. /\ step' \in Features /\ initialized' = TRUE /\ reported' = {}
          /\ UNCHANGED <<sinceShutdown, sinceConnected>>
      BY <1>4, <2>1 DEF ReconcileInit
    <2> QED BY <2>2, <2>3
  <1>5. CASE ReconcileInitFails
    <2>1. /\ step = "init" /\ step' = "idle"
          /\ "init" \in reported' => sinceShutdown >= GracePeriod
          /\ UNCHANGED <<initialized, sinceShutdown, sinceConnected>>
      BY <1>5 DEF ReconcileInitFails, Return, When, clientVars
    <2> QED BY <2>1, DcgmAssumption
  <1>6. CASE ReconcileSetup
    <2>1. /\ reported' = {}
          /\ UNCHANGED <<initialized, sinceShutdown, sinceConnected>>
      BY <1>6 DEF ReconcileSetup, Return
    <2>2. step' \in {"idle"} \cup Features
      <3>1. Later(step) \subseteq Features
        BY DEF Later
      <3>2. CASE Later(step) = {}
        BY <1>6, <3>2 DEF ReconcileSetup, Return
      <3>3. CASE Later(step) # {}
        <4>1. FirstOf(Later(step)) \in Later(step)
          BY <3>1, <3>3, FirstOfIn, DcgmAssumption
        <4> QED BY <1>6, <3>1, <3>3, <4>1 DEF ReconcileSetup
      <3> QED BY <3>2, <3>3
    <2>3. "init" \notin Features
      BY DcgmAssumption
    <2> QED BY <2>1, <2>2, <2>3
  <1>7. CASE ReconcileSetupFails
    BY <1>7 DEF ReconcileSetupFails, Return, clientVars
  <1> QED BY <1>1, <1>2, <1>3, <1>4, <1>5, <1>6, <1>7 DEF Reconcile

\* A tick makes both clocks older, or finds the client connected.
LEMMA TickKeeps == DcgmInv /\ Tick => DcgmInv'
  <1> SUFFICES ASSUME DcgmInv, Tick PROVE DcgmInv'
    OBVIOUS
  <1>1. /\ step = "idle" /\ reported' = {} /\ UNCHANGED <<initialized, step>>
        /\ sinceShutdown' = Older(sinceShutdown)
        /\ sinceConnected' = IF initialized THEN 0 ELSE Older(sinceConnected)
    BY DEF Tick
  <1>2. ASSUME NEW a \in Nat, NEW b \in Nat
        PROVE  Older(a) \in Nat /\ (a <= b => Older(a) <= Older(b))
    BY DcgmAssumption DEF Older
  <1> QED BY <1>1, <1>2 DEF DcgmInv, ClientTypeOK, ConnectsWhenShut, ShutSinceConnected, ErrorsAreSustained

\* Every step keeps it.
LEMMA NextKeeps == DcgmInv /\ [DcgmNext]_vars => DcgmInv'
  <1> SUFFICES ASSUME DcgmInv, [DcgmNext]_vars PROVE DcgmInv'
    OBVIOUS
  <1>1. ASSUME NEW x \in Findings, Violation(x) PROVE DcgmInv'
    BY <1>1, StutterKeeps DEF Violation, clientVars
  <1>2. ASSUME NEW i \in 1..MaxConns, ListenerTakes(i) \/ ListenerEnds(i) \/ Policies(i)
        PROVE  DcgmInv'
    BY <1>2, StutterKeeps DEF ListenerTakes, ListenerEnds, Policies, clientVars
  <1>3. CASE EngineStarts \/ EngineCrashes
    BY <1>3, StutterKeeps DEF EngineStarts, EngineCrashes, clientVars
  <1>4. CASE UNCHANGED vars
    BY <1>4, StutterKeeps DEF vars, clientVars
  <1> QED BY <1>1, <1>2, <1>3, <1>4, ReconcileKeeps, TickKeeps DEF DcgmNext

\* An engine that is back within the grace period is never reported as a
\* failure to connect (dcgm_client.go, Reconcile and shutdown).
THEOREM ConnectionErrorsAreSustained == DcgmSpec => []ErrorsAreSustained
  <1>1. DcgmInv => ErrorsAreSustained
    BY DEF DcgmInv
  <1> QED BY <1>1, NewDCGMHolds, NextKeeps, PTL DEF DcgmSpec
=============================================================================
