------------------------ MODULE MonitorManagerProofs ------------------------
(***************************************************************************)
(* Proofs about the condition pipeline: the node exporter, that it         *)
(* implements NodeHealth, and the monitor manager in front of it.  They    *)
(* hold for every set of condition types, reasons and messages, any        *)
(* monitors, catalogs and polls, and without the bounds of the runs.       *)
(***************************************************************************)
EXTENDS MonitorManager, SequenceTheorems, WellFoundedInduction, TLAPS

(***************************************************************************)
(* A non-empty set of naturals has a least element.                        *)
(***************************************************************************)
LEMMA LeastNatural ==
  ASSUME NEW T, T \subseteq Nat, T # {}
  PROVE  \E x \in T : \A y \in T : x <= y
<1>1. PICK x \in T : \A y \in T : ~(<<y, x>> \in OpToRel(<, Nat))
  BY NatLessThanWellFounded, WFMin
<1>2. \A y \in T : x <= y
  <2> SUFFICES ASSUME NEW y \in T, y < x
               PROVE  FALSE
    OBVIOUS
  <2> DEFINE p == <<y, x>>
  <2>1. p \in Nat \X Nat
    OBVIOUS
  <2>2. p[1] < p[2]
    OBVIOUS
  <2> HIDE DEF p
  <2>3. p \in OpToRel(<, Nat)
    BY <2>1, <2>2, Zenon DEF OpToRel
  <2>4. QED
    BY <1>1, <2>3 DEF p
<1>3. QED
  BY <1>2

(***************************************************************************)
(* rebuildFatalCondition finds a latest entry in every non-empty list      *)
(* whose sequence numbers the report counter bounds.                       *)
(***************************************************************************)
LEMMA LatestExists ==
  ASSUME NEW entries \in Seq(FatalEntry), entries # <<>>, NEW n \in Nat,
         \A j \in DOMAIN entries : entries[j].reported <= n
  PROVE  /\ Latest(entries) \in DOMAIN entries
         /\ \A j \in DOMAIN entries :
              entries[j].reported <= entries[Latest(entries)].reported
<1> DEFINE T == {n - entries[j].reported : j \in DOMAIN entries}
<1>1. \A j \in DOMAIN entries : entries[j].reported \in Nat
  <2>1. \A j \in DOMAIN entries : entries[j] \in FatalEntry
    BY ElementOfSeq, LenProperties
  <2>2. QED
    BY <2>1 DEF FatalEntry
<1>2. T \subseteq Nat
  BY <1>1
<1>3. T # {}
  <2>1. 1 \in DOMAIN entries
    BY EmptySeq, LenProperties
  <2>2. n - entries[1].reported \in T
    BY <2>1
  <2>3. QED
    BY <2>2
<1>4. PICK i \in DOMAIN entries : \A y \in T : n - entries[i].reported <= y
  <2> HIDE DEF T
  <2>1. PICK x \in T : \A y \in T : x <= y
    BY <1>2, <1>3, LeastNatural
  <2>2. QED
    BY <2>1 DEF T
<1>5. \A j \in DOMAIN entries : entries[j].reported <= entries[i].reported
  <2> SUFFICES ASSUME NEW j \in DOMAIN entries
               PROVE  entries[j].reported <= entries[i].reported
    OBVIOUS
  <2>1. n - entries[i].reported <= n - entries[j].reported
    BY <1>4
  <2>2. QED
    BY <2>1, <1>1
<1>6. QED
  BY <1>5 DEF Latest

(***************************************************************************)
(* Typing of the operators on entries.                                     *)
(***************************************************************************)
LEMMA WithoutType ==
  ASSUME NEW s \in Seq(FatalEntry), NEW i \in DOMAIN s
  PROVE  /\ Without(s, i) \in Seq(FatalEntry)
         /\ Len(Without(s, i)) = Len(s) - 1
         /\ DOMAIN Without(s, i) = 1..(Len(s) - 1)
         /\ \A j \in DOMAIN Without(s, i) :
              Without(s, i)[j] = IF j < i THEN s[j] ELSE s[j + 1]
<1> DEFINE n == Len(s) - 1
<1>1. n \in Nat /\ DOMAIN s = 1..(n + 1)
  BY LenProperties
<1>2. \A j \in 1..(n + 1) : s[j] \in FatalEntry
  BY <1>1, ElementOfSeq
<1>3. Without(s, i) \in [1..n -> FatalEntry]
  BY <1>1, <1>2 DEF Without
<1>4. Without(s, i) \in Seq(FatalEntry)
  BY <1>1, <1>3, SeqDef
<1>5. QED
  BY <1>1, <1>3, <1>4, LenProperties DEF Without

\* The aggregated message is a sequence of texts.
LEMMA AggregateType ==
  ASSUME NEW s \in Seq(FatalEntry)
  PROVE  Aggregate(s) \in Seq(Texts)
<1>1. Len(s) \in Nat
  BY LenProperties
<1>2. \A j \in 1..Len(s) : s[j].message \in Texts
  <2>1. \A j \in 1..Len(s) : s[j] \in FatalEntry
    BY ElementOfSeq
  <2>2. QED
    BY <2>1 DEF FatalEntry
<1>3. Aggregate(s) \in [1..Len(s) -> Texts]
  BY <1>1, <1>2 DEF Aggregate, Texts
<1>4. QED
  BY <1>1, <1>3, SeqDef

(***************************************************************************)
(* Entries that Fatal and Resolve may leave: typed, bounded by a report    *)
(* number, and with one entry per reason and per report.                   *)
(***************************************************************************)
GoodEntries(entries, n) ==
  /\ entries \in Seq(FatalEntry)
  /\ \A i \in DOMAIN entries : entries[i].reported <= n
  /\ \A i, j \in DOMAIN entries :
       i # j => /\ entries[i].reason # entries[j].reason
                /\ entries[i].reported # entries[j].reported

ReasonsOf(entries) == {entries[i].reason : i \in DOMAIN entries}

\* The entries of a type are typed, distinct and numbered below the counter.
LEMMA CurrentEntriesGood ==
  ASSUME ExporterTypeOK, EntriesAreDistinct, NEW t \in Types
  PROVE  GoodEntries(fatalEntries[t], reportSeq)
BY DEF ExporterTypeOK, EntriesAreDistinct, GoodEntries

(***************************************************************************)
(* One more report keeps the entries good and adds the reason.             *)
(***************************************************************************)
LEMMA ReportedGood ==
  ASSUME ExporterTypeOK, EntriesAreDistinct,
         NEW t \in Types, NEW r \in Reasons, NEW m \in Texts
  PROVE  /\ GoodEntries(Reported(t, r, m), reportSeq + 1)
         /\ Reported(t, r, m) # <<>>
         /\ ReasonsOf(Reported(t, r, m)) = ReasonsOf(fatalEntries[t]) \cup {r}
<1> DEFINE s == fatalEntries[t]
           e == [reason |-> r, message |-> m, reported |-> reportSeq + 1]
           p == CHOOSE i \in Positions(t, r) : TRUE
<1>1. s \in Seq(FatalEntry) /\ Len(s) \in Nat /\ DOMAIN s = 1..Len(s)
  BY LenProperties DEF ExporterTypeOK
<1>2. \A i \in 1..Len(s) : s[i] \in FatalEntry
  BY <1>1, ElementOfSeq
<1>3. reportSeq \in Nat /\ e \in FatalEntry
  BY DEF ExporterTypeOK, FatalEntry
<1>4. GoodEntries(s, reportSeq)
  BY CurrentEntriesGood
<1>5. CASE HasReason(t, r)
  <2> DEFINE q == [s EXCEPT ![p] = e]
  <2>1. p \in 1..Len(s) /\ s[p].reason = r
    BY <1>1, <1>5 DEF HasReason, Positions
  <2>2. Reported(t, r, m) = q
    BY <1>5 DEF Reported
  <2> HIDE DEF s, p, e
  <2>3. q \in Seq(FatalEntry) /\ DOMAIN q = 1..Len(s)
    BY <1>1, <1>3, <2>1, ExceptSeq
  <2>4. \A i \in 1..Len(s) : q[i] = IF i = p THEN e ELSE s[i]
    BY <1>1, <2>1
  <2>5. e.reason = r /\ e.reported = reportSeq + 1
    BY DEF e
  <2>6. \A i \in 1..Len(s) : s[i].reported \in Nat /\ s[i].reported <= reportSeq
    BY <1>1, <1>2, <1>4 DEF GoodEntries, FatalEntry
  <2>7. \A i \in DOMAIN q : q[i].reported <= reportSeq + 1
    BY <1>3, <2>3, <2>4, <2>5, <2>6
  <2>8. ASSUME NEW i \in DOMAIN q, NEW j \in DOMAIN q, i # j
        PROVE  q[i].reason # q[j].reason /\ q[i].reported # q[j].reported
    <3>1. s[i].reason # s[j].reason /\ s[i].reported # s[j].reported
      BY <1>1, <1>4, <2>3, <2>8 DEF GoodEntries
    <3>2. QED
      BY <1>3, <2>1, <2>3, <2>4, <2>5, <2>6, <2>8, <3>1
  <2>9. ReasonsOf(q) = ReasonsOf(s) \cup {r}
    <3>1. \A i \in 1..Len(s) : q[i].reason = s[i].reason
      BY <2>1, <2>4, <2>5
    <3>2. r \in ReasonsOf(s)
      BY <1>1, <2>1 DEF ReasonsOf
    <3>3. QED
      BY <1>1, <2>3, <3>1, <3>2 DEF ReasonsOf
  <2>10. q # <<>>
    BY <2>1, <2>3
  <2>11. QED
    BY <2>2, <2>3, <2>7, <2>8, <2>9, <2>10 DEF GoodEntries, s
<1>6. CASE ~HasReason(t, r)
  <2> DEFINE q == Append(s, e)
  <2>1. Reported(t, r, m) = q
    BY <1>6 DEF Reported
  <2>2. \A i \in 1..Len(s) : s[i].reason # r
    BY <1>1, <1>6 DEF HasReason, Positions
  <2>5. e.reason = r /\ e.reported = reportSeq + 1
    OBVIOUS
  <2> HIDE DEF s, p, e
  <2>3. q \in Seq(FatalEntry) /\ Len(q) = Len(s) + 1 /\ DOMAIN q = 1..(Len(s) + 1)
    BY <1>1, <1>3, AppendProperties, LenProperties
  <2>4. \A i \in 1..(Len(s) + 1) : q[i] = IF i = Len(s) + 1 THEN e ELSE s[i]
    BY <1>1, <1>3, AppendProperties
  <2>6. \A i \in 1..Len(s) : s[i].reported \in Nat /\ s[i].reported <= reportSeq
    BY <1>1, <1>2, <1>4 DEF GoodEntries, FatalEntry
  <2>7. \A i \in DOMAIN q : q[i].reported <= reportSeq + 1
    BY <1>1, <1>3, <2>3, <2>4, <2>5, <2>6
  <2>8. ASSUME NEW i \in DOMAIN q, NEW j \in DOMAIN q, i # j
        PROVE  q[i].reason # q[j].reason /\ q[i].reported # q[j].reported
    <3>1. CASE i \in 1..Len(s) /\ j \in 1..Len(s)
      BY <1>1, <1>4, <2>3, <2>4, <2>8, <3>1 DEF GoodEntries
    <3>2. CASE i = Len(s) + 1
      BY <1>1, <1>3, <2>2, <2>3, <2>4, <2>5, <2>6, <2>8, <3>2
    <3>3. CASE j = Len(s) + 1
      BY <1>1, <1>3, <2>2, <2>3, <2>4, <2>5, <2>6, <2>8, <3>3
    <3>4. QED
      BY <1>1, <2>3, <3>1, <3>2, <3>3
  <2>9. ReasonsOf(q) = ReasonsOf(s) \cup {r}
    <3>1. \A i \in 1..Len(s) : q[i].reason = s[i].reason
      BY <1>1, <2>4
    <3>2. q[Len(s) + 1].reason = r
      BY <1>1, <2>4, <2>5
    <3>3. QED
      BY <1>1, <2>3, <3>1, <3>2 DEF ReasonsOf
  <2>10. q # <<>>
    BY <1>1, <2>3
  <2>11. QED
    BY <2>1, <2>3, <2>7, <2>8, <2>9, <2>10 DEF GoodEntries, s
<1>7. QED
  BY <1>5, <1>6

(***************************************************************************)
(* Resolving a reason keeps the entries good and removes just that reason. *)
(***************************************************************************)
LEMMA RemainingGood ==
  ASSUME ExporterTypeOK, EntriesAreDistinct,
         NEW t \in Types, NEW r \in Reasons, HasReason(t, r)
  PROVE  /\ GoodEntries(Remaining(t, r), reportSeq)
         /\ ReasonsOf(Remaining(t, r)) = ReasonsOf(fatalEntries[t]) \ {r}
<1> DEFINE s == fatalEntries[t]
           p == CHOOSE i \in Positions(t, r) : TRUE
           q == Without(s, p)
           old(j) == IF j < p THEN j ELSE j + 1
<1>1. s \in Seq(FatalEntry) /\ Len(s) \in Nat /\ DOMAIN s = 1..Len(s)
  BY LenProperties DEF ExporterTypeOK
<1>2. GoodEntries(s, reportSeq)
  BY CurrentEntriesGood
<1>3. p \in 1..Len(s) /\ s[p].reason = r
  BY <1>1 DEF HasReason, Positions
<1>4. Remaining(t, r) = q
  BY DEF Remaining
<1>5. reportSeq \in Nat
  BY DEF ExporterTypeOK
<1> HIDE DEF s, p
<1>6. q \in Seq(FatalEntry) /\ DOMAIN q = 1..(Len(s) - 1)
  BY <1>1, <1>3, WithoutType
<1>7. \A j \in 1..(Len(s) - 1) : /\ q[j] = s[old(j)]
                                 /\ old(j) \in 1..Len(s)
                                 /\ old(j) # p
  BY <1>1, <1>3, WithoutType
<1>8. \A i, j \in 1..(Len(s) - 1) : i # j => old(i) # old(j)
  BY <1>1, <1>3
<1>9. \A i \in 1..Len(s) : i # p => \E j \in 1..(Len(s) - 1) : old(j) = i
  <2> SUFFICES ASSUME NEW i \in 1..Len(s), i # p
               PROVE  \E j \in 1..(Len(s) - 1) : old(j) = i
    OBVIOUS
  <2>1. CASE i < p
    <3>1. i \in 1..(Len(s) - 1) /\ old(i) = i
      BY <1>1, <1>3, <2>1
    <3>2. QED
      BY <3>1
  <2>2. CASE i > p
    <3>1. i - 1 \in 1..(Len(s) - 1) /\ ~(i - 1 < p) /\ (i - 1) + 1 = i
      BY <1>1, <1>3, <2>2
    <3>2. QED
      BY <3>1
  <2>3. QED
    BY <1>1, <1>3, <2>1, <2>2
<1> HIDE DEF q, old
<1>10. GoodEntries(q, reportSeq)
  <2>1. \A i \in DOMAIN q : q[i].reported <= reportSeq
    BY <1>1, <1>2, <1>6, <1>7 DEF GoodEntries
  <2>2. ASSUME NEW i \in DOMAIN q, NEW j \in DOMAIN q, i # j
        PROVE  q[i].reason # q[j].reason /\ q[i].reported # q[j].reported
    BY <1>1, <1>2, <1>6, <1>7, <1>8, <2>2 DEF GoodEntries
  <2>3. QED
    BY <1>6, <2>1, <2>2 DEF GoodEntries
<1>11. ReasonsOf(q) = ReasonsOf(s) \ {r}
  <2>1. ASSUME NEW x \in ReasonsOf(q)
        PROVE  x \in ReasonsOf(s) \ {r}
    <3>1. PICK j \in 1..(Len(s) - 1) : x = q[j].reason
      BY <1>6, <2>1 DEF ReasonsOf
    <3>2. x = s[old(j)].reason /\ old(j) \in 1..Len(s) /\ old(j) # p
      BY <1>7, <3>1
    <3>3. x # r
      BY <1>1, <1>2, <1>3, <3>2 DEF GoodEntries
    <3>4. QED
      BY <1>1, <3>2, <3>3 DEF ReasonsOf
  <2>2. ASSUME NEW x \in ReasonsOf(s) \ {r}
        PROVE  x \in ReasonsOf(q)
    <3>1. PICK i \in 1..Len(s) : x = s[i].reason
      BY <1>1, <2>2 DEF ReasonsOf
    <3>2. i # p
      BY <1>3, <2>2, <3>1
    <3>3. PICK j \in 1..(Len(s) - 1) : old(j) = i
      BY <1>9, <3>2
    <3>4. QED
      BY <1>6, <1>7, <3>1, <3>3 DEF ReasonsOf
  <2>3. QED
    BY <2>1, <2>2
<1>12. QED
  BY <1>4, <1>10, <1>11 DEF s

(***************************************************************************)
(* The rebuilt condition is well formed and names a latest entry.          *)
(***************************************************************************)
LEMMA FatalConditionFacts ==
  ASSUME ExporterTypeOK, NEW t \in Types, NEW entries, NEW n \in Nat,
         GoodEntries(entries, n), entries # <<>>
  PROVE  LET c == FatalCondition(t, entries)
         IN  /\ c \in Condition
             /\ c # Absent
             /\ c.status = "False"
             /\ c.message = Aggregate(entries)
             /\ \E i \in DOMAIN entries :
                  /\ c.reason = entries[i].reason
                  /\ \A j \in DOMAIN entries : entries[j].reported <= entries[i].reported
<1> DEFINE c == FatalCondition(t, entries)
           k == Latest(entries)
<1>1. entries \in Seq(FatalEntry) /\ \A j \in DOMAIN entries : entries[j].reported <= n
  BY DEF GoodEntries
<1>2. /\ k \in DOMAIN entries
      /\ \A j \in DOMAIN entries : entries[j].reported <= entries[k].reported
  BY <1>1, LatestExists
<1>3. entries[k].reason \in Reasons
  <2>1. entries[k] \in FatalEntry
    BY <1>1, <1>2, ElementOfSeq, LenProperties
  <2>2. QED
    BY <2>1 DEF FatalEntry
<1>4. Aggregate(entries) \in Seq(Texts)
  BY <1>1, AggregateType
<1>5. now \in Nat /\ TransitionTime(t, "False") \in Nat
  BY DEF ExporterTypeOK, TransitionTime, MaybeCondition, Condition
<1>6. c = [status |-> "False", reason |-> entries[k].reason, message |-> Aggregate(entries),
           heartbeat |-> now, transition |-> TransitionTime(t, "False")]
  BY DEF FatalCondition, NewCondition
<1> HIDE DEF c, k
<1>7. c \in Condition
  BY <1>3, <1>4, <1>5, <1>6 DEF Condition, Status
<1>8. QED
  BY <1>2, <1>6, <1>7, AbsentAssumption DEF c

\* The Ready condition of a type is a condition with status True.
LEMMA ReadyConditionFacts ==
  ASSUME ExporterTypeOK, NEW t \in Types
  PROVE  LET c == ReadyCondition(t)
         IN  /\ c \in Condition
             /\ c # Absent
             /\ c.status = "True"
             /\ c.reason = ReadyReason(t)
<1>1. now \in Nat /\ TransitionTime(t, "True") \in Nat
  BY DEF ExporterTypeOK, TransitionTime, MaybeCondition, Condition
<1>2. <<>> \in Seq(Texts)
  BY EmptySeq
<1>3. ReadyReason(t) \in ReadyReasons
  BY DEF ReadyReason, ReadyReasons
<1>4. ReadyCondition(t) \in Condition
  BY <1>1, <1>2, <1>3 DEF ReadyCondition, NewCondition, Condition, Status
<1>5. QED
  BY <1>4, AbsentAssumption DEF ReadyCondition, NewCondition

\* initializeManagedConditions gives every configured type its Ready condition.
LEMMA InitialConditions ==
  ASSUME now \in Nat
  PROVE  /\ initializeManagedConditions \in [Types -> MaybeCondition]
         /\ \A t \in Types :
              LET c == initializeManagedConditions[t]
              IN  IF c = Absent THEN t \notin Configured
                  ELSE c.status = "True" /\ c.reason = ReadyReason(t)
<1>1. NewCondition("True", "Ready", <<>>, now) \in Condition
  BY EmptySeq DEF NewCondition, Condition, Status, ReadyReasons
<1>2. QED
  BY <1>1, AbsentAssumption
  DEF initializeManagedConditions, MaybeCondition, ReadyReason, NewCondition

-----------------------------------------------------------------------------
(***************************************************************************)
(* The inductive invariant.  ConditionReflectsEntries alone is not         *)
(* inductive: a resolution can only rebuild the condition because entries  *)
(* are distinct and bounded by the report counter.  CleanIsPublished needs *)
(* to know that the patch in flight was computed from the current local    *)
(* state, which is ReportIsCurrent.                                        *)
(***************************************************************************)
ExporterInv ==
  /\ ExporterTypeOK
  /\ EntriesAreDistinct
  /\ ConditionReflectsEntries
  /\ ReportIsCurrent
  /\ CleanIsPublished

\* The exporter starts with the invariant.
LEMMA InitInv == ExporterInit => ExporterInv
<1> SUFFICES ASSUME ExporterInit PROVE ExporterInv
  OBVIOUS
<1>1. now \in Nat
  BY DEF ExporterInit
<1>2. \A t \in Types : fatalEntries[t] = <<>>
  BY DEF ExporterInit
<1>3. ExporterTypeOK
  <2>1. managedConditions \in [Types -> MaybeCondition]
    BY <1>1, InitialConditions DEF ExporterInit
  <2>2. fatalEntries \in [Types -> Seq(FatalEntry)]
    BY EmptySeq DEF ExporterInit
  <2>3. node \in NodeObject
    BY DEF ExporterInit, NodeObject, MaybeCondition
  <2>4. QED
    BY <2>1, <2>2, <2>3 DEF ExporterInit, ExporterTypeOK
<1>4. EntriesAreDistinct
  BY <1>2, EmptySeq DEF EntriesAreDistinct
<1>5. ConditionReflectsEntries
  BY <1>1, <1>2, InitialConditions DEF ConditionReflectsEntries, ExporterInit
<1>6. ReportIsCurrent /\ CleanIsPublished
  BY DEF ReportIsCurrent, CleanIsPublished, ExporterInit
<1>7. QED
  BY <1>3, <1>4, <1>5, <1>6 DEF ExporterInv

(***************************************************************************)
(* Steps that touch one type's entries: the other types keep their part.   *)
(***************************************************************************)
LEMMA FatalInv ==
  ASSUME ExporterInv, NEW t \in Types, NEW r \in Reasons, NEW m \in Texts,
         Fatal(t, r, m)
  PROVE  ExporterInv'
<1> DEFINE q == Reported(t, r, m)
           c == FatalCondition(t, q)
<1>0. /\ ExporterTypeOK /\ EntriesAreDistinct /\ ConditionReflectsEntries
      /\ reportSeq \in Nat /\ reportSeq' = reportSeq + 1
  BY DEF ExporterInv, ExporterTypeOK, Fatal
<1>1. GoodEntries(q, reportSeq + 1) /\ q # <<>>
  BY <1>0, ReportedGood
<1>2. /\ fatalEntries' = [fatalEntries EXCEPT ![t] = q]
      /\ managedConditions' = [managedConditions EXCEPT ![t] = c]
      /\ UNCHANGED <<reportPhase, oldNode, newNode, node, now, restarts>>
      /\ managedConditionsDirty' = TRUE
      /\ reportPhase = "idle"
  BY DEF Fatal, Unlocked, reportVars
<1> HIDE DEF q, c
<1>3. /\ c \in Condition /\ c # Absent /\ c.status = "False"
      /\ c.message = Aggregate(q)
      /\ \E i \in DOMAIN q :
           /\ c.reason = q[i].reason
           /\ \A j \in DOMAIN q : q[j].reported <= q[i].reported
  BY <1>0, <1>1, FatalConditionFacts DEF c
<1>4. ExporterTypeOK'
  BY <1>0, <1>1, <1>2, <1>3 DEF ExporterTypeOK, MaybeCondition, GoodEntries
<1>5. \A u \in Types : /\ fatalEntries'[u] = IF u = t THEN q ELSE fatalEntries[u]
                       /\ managedConditions'[u] = IF u = t THEN c ELSE managedConditions[u]
  BY <1>0, <1>2 DEF ExporterTypeOK
<1>6. EntriesAreDistinct'
  <2> SUFFICES ASSUME NEW u \in Types
               PROVE  GoodEntries(fatalEntries'[u], reportSeq + 1)
    BY <1>0 DEF EntriesAreDistinct, GoodEntries
  <2>1. CASE u = t
    BY <1>1, <1>5, <2>1
  <2>2. CASE u # t
    <3>1. GoodEntries(fatalEntries[u], reportSeq)
      BY <1>0, CurrentEntriesGood
    <3>2. \A i \in DOMAIN fatalEntries[u] : fatalEntries[u][i].reported \in Nat
      <4>1. \A i \in DOMAIN fatalEntries[u] : fatalEntries[u][i] \in FatalEntry
        BY <3>1, ElementOfSeq, LenProperties DEF GoodEntries
      <4>2. QED
        BY <4>1 DEF FatalEntry
    <3>3. GoodEntries(fatalEntries[u], reportSeq + 1)
      BY <1>0, <3>1, <3>2 DEF GoodEntries
    <3>4. QED
      BY <1>5, <2>2, <3>3
  <2>3. QED
    BY <2>1, <2>2
<1>7. ConditionReflectsEntries'
  BY <1>0, <1>1, <1>3, <1>5 DEF ConditionReflectsEntries
<1>8. ReportIsCurrent' /\ CleanIsPublished'
  BY <1>2 DEF ReportIsCurrent, CleanIsPublished
<1>9. QED
  BY <1>4, <1>6, <1>7, <1>8 DEF ExporterInv

\* Resolve keeps the invariant.
LEMMA ResolveInv ==
  ASSUME ExporterInv, NEW t \in Types, NEW r \in Reasons, Resolve(t, r)
  PROVE  ExporterInv'
<1> DEFINE q == Remaining(t, r)
           c == IF Recovered(t, r) THEN ReadyCondition(t) ELSE FatalCondition(t, q)
<1>0. /\ ExporterTypeOK /\ EntriesAreDistinct /\ ConditionReflectsEntries
      /\ reportSeq \in Nat
  BY DEF ExporterInv, ExporterTypeOK
<1>1. CASE ~HasReason(t, r)
  <2>1. UNCHANGED exporterVars
    BY <1>1 DEF Resolve, exporterVars
  <2>2. QED
    BY <2>1 DEF ExporterInv, exporterVars, localVars, reportVars, ExporterTypeOK,
       EntriesAreDistinct, ConditionReflectsEntries, ReportIsCurrent, CleanIsPublished,
       Upsert
<1>2. CASE HasReason(t, r)
  <2>1. GoodEntries(q, reportSeq)
    BY <1>0, <1>2, RemainingGood
  <2>2. /\ fatalEntries' = [fatalEntries EXCEPT ![t] = q]
        /\ managedConditions' = [managedConditions EXCEPT ![t] = c]
        /\ UNCHANGED <<reportPhase, oldNode, newNode, node, now, restarts, reportSeq>>
        /\ managedConditionsDirty' = TRUE
        /\ reportPhase = "idle"
    BY <1>2 DEF Resolve, Unlocked, reportVars
  <2>3. /\ c \in Condition /\ c # Absent
        /\ q = <<>> => c.status = "True" /\ c.reason = ReadyReason(t)
        /\ q # <<>> =>
             /\ c.status = "False"
             /\ c.message = Aggregate(q)
             /\ \E i \in DOMAIN q :
                  /\ c.reason = q[i].reason
                  /\ \A j \in DOMAIN q : q[j].reported <= q[i].reported
    <3>1. CASE q = <<>>
      <4>1. c = ReadyCondition(t)
        BY <3>1 DEF Recovered
      <4>2. QED
        BY <1>0, <3>1, <4>1, ReadyConditionFacts
    <3>2. CASE q # <<>>
      <4>1. c = FatalCondition(t, q)
        BY <3>2 DEF Recovered
      <4> HIDE DEF q, c
      <4>2. QED
        BY <1>0, <2>1, <3>2, <4>1, FatalConditionFacts
    <3>3. QED
      BY <3>1, <3>2
  <2> HIDE DEF q, c
  <2>4. ExporterTypeOK'
    BY <1>0, <2>1, <2>2, <2>3 DEF ExporterTypeOK, MaybeCondition, GoodEntries
  <2>5. \A u \in Types : /\ fatalEntries'[u] = IF u = t THEN q ELSE fatalEntries[u]
                         /\ managedConditions'[u] = IF u = t THEN c ELSE managedConditions[u]
    BY <1>0, <2>2 DEF ExporterTypeOK
  <2>6. EntriesAreDistinct'
    <3> SUFFICES ASSUME NEW u \in Types
                 PROVE  GoodEntries(fatalEntries'[u], reportSeq)
      BY <2>2 DEF EntriesAreDistinct, GoodEntries
    <3>1. QED
      BY <1>0, <2>1, <2>5, CurrentEntriesGood
  <2>7. ConditionReflectsEntries'
    BY <1>0, <2>3, <2>5 DEF ConditionReflectsEntries, ReadyReason
  <2>8. ReportIsCurrent' /\ CleanIsPublished'
    BY <2>2 DEF ReportIsCurrent, CleanIsPublished
  <2>9. QED
    BY <2>4, <2>6, <2>7, <2>8 DEF ExporterInv
<1>3. QED
  BY <1>1, <1>2

(***************************************************************************)
(* Steps that leave the entries alone keep the three invariants on them    *)
(* when statuses, reasons and messages stay as they are.                   *)
(***************************************************************************)
LEMMA HeartbeatInv ==
  ASSUME ExporterInv, updateHeartbeatTimes
  PROVE  ExporterInv'
<1>0. ExporterTypeOK /\ EntriesAreDistinct /\ ConditionReflectsEntries
  BY DEF ExporterInv
<1>1. /\ UNCHANGED <<fatalEntries, reportSeq, reportPhase, oldNode, newNode, node, now, restarts>>
      /\ managedConditionsDirty' = TRUE
      /\ reportPhase = "idle"
  BY DEF updateHeartbeatTimes, Unlocked, reportVars
<1>2. ASSUME NEW t \in Types
      PROVE  /\ managedConditions'[t] \in MaybeCondition
             /\ managedConditions'[t] = Absent <=> managedConditions[t] = Absent
             /\ managedConditions[t] # Absent =>
                  /\ managedConditions'[t].status = managedConditions[t].status
                  /\ managedConditions'[t].reason = managedConditions[t].reason
                  /\ managedConditions'[t].message = managedConditions[t].message
  <2>1. CASE managedConditions[t] = Absent
    BY <2>1 DEF updateHeartbeatTimes, MaybeCondition
  <2>2. CASE managedConditions[t] # Absent
    <3> DEFINE old == managedConditions[t]
               new == [old EXCEPT !.heartbeat = now]
    <3>1. old \in Condition /\ now \in Nat
      BY <1>0, <2>2 DEF ExporterTypeOK, MaybeCondition
    <3>2. managedConditions'[t] = new
      BY <2>2 DEF updateHeartbeatTimes
    <3> HIDE DEF old
    <3>3. /\ new \in Condition /\ new.status = old.status
          /\ new.reason = old.reason /\ new.message = old.message
      BY <3>1 DEF Condition
    <3>4. QED
      BY <2>2, <3>2, <3>3, AbsentAssumption DEF MaybeCondition, old
  <2>3. QED
    BY <2>1, <2>2
<1>3. managedConditions' \in [Types -> MaybeCondition]
  BY <1>2 DEF updateHeartbeatTimes
<1>4. ExporterTypeOK'
  BY <1>0, <1>1, <1>3 DEF ExporterTypeOK
<1>5. EntriesAreDistinct'
  BY <1>0, <1>1 DEF EntriesAreDistinct
<1>6. ConditionReflectsEntries'
  BY <1>0, <1>1, <1>2 DEF ConditionReflectsEntries
<1>7. ReportIsCurrent' /\ CleanIsPublished'
  BY <1>1 DEF ReportIsCurrent, CleanIsPublished
<1>8. QED
  BY <1>4, <1>5, <1>6, <1>7 DEF ExporterInv

\* What does not touch the entries and conditions keeps their part of the invariant.
LEMMA EntriesPartInv ==
  ASSUME EntriesAreDistinct, ConditionReflectsEntries,
         UNCHANGED <<managedConditions, fatalEntries, reportSeq>>
  PROVE  EntriesAreDistinct' /\ ConditionReflectsEntries'
BY DEF EntriesAreDistinct, ConditionReflectsEntries

\* What a report writes is a Node object.
LEMMA UpsertType ==
  ASSUME ExporterTypeOK, NEW n \in NodeObject
  PROVE  /\ Upsert(n) \in NodeObject
         /\ Upsert(n).foreign = n.foreign
         /\ \A t \in Types : Upsert(n).conditions[t] =
              IF managedConditions[t] # Absent THEN managedConditions[t]
              ELSE n.conditions[t]
BY DEF ExporterTypeOK, NodeObject, Upsert

(***************************************************************************)
(* Whether a patch is empty or carries the whole list, afterwards every    *)
(* managed condition is the local copy, or was removed by another client   *)
(* since the read; an unmanaged one is as the server or the reader had it. *)
(***************************************************************************)
LEMMA PatchFacts ==
  ASSUME ExporterInv, reportPhase = "patch"
  PROVE  /\ MergePatched \in NodeObject
         /\ \A t \in Types :
              /\ managedConditions[t] # Absent =>
                   \/ MergePatched.conditions[t] = managedConditions[t]
                   \/ /\ node.conditions[t] = Absent
                      /\ MergePatched.conditions[t] = Absent
              /\ managedConditions[t] = Absent =>
                   \/ MergePatched.conditions[t] = node.conditions[t]
                   \/ node.conditions[t] = Absent
<1>1. /\ ExporterTypeOK /\ oldNode \in NodeObject /\ node \in NodeObject
      /\ newNode = Upsert(oldNode)
      /\ \A t \in Types : node.conditions[t] \in {oldNode.conditions[t], Absent}
  BY DEF ExporterInv, ReportIsCurrent, ExporterTypeOK
<1>2. /\ newNode \in NodeObject
      /\ \A t \in Types : newNode.conditions[t] =
           IF managedConditions[t] # Absent THEN managedConditions[t]
           ELSE oldNode.conditions[t]
  BY <1>1, UpsertType
<1>3. CASE newNode = oldNode
  <2>1. MergePatched = node
    BY <1>3 DEF MergePatched
  <2>2. QED
    BY <1>1, <1>2, <1>3, <2>1
<1>4. CASE newNode # oldNode
  <2>1. MergePatched = newNode
    BY <1>4 DEF MergePatched
  <2>2. QED
    BY <1>1, <1>2, <2>1
<1>5. QED
  BY <1>3, <1>4

\* The steps of a report keep the invariant.
LEMMA ReportInv ==
  ASSUME ExporterInv, ReportStart \/ ReportGet \/ ReportPatch \/ ReportError
  PROVE  ExporterInv'
<1>0. /\ ExporterTypeOK /\ EntriesAreDistinct /\ ConditionReflectsEntries
      /\ ReportIsCurrent /\ CleanIsPublished
  BY DEF ExporterInv
<1>1. UNCHANGED <<managedConditions, fatalEntries, reportSeq, now, restarts>>
  BY DEF ReportStart, ReportGet, ReportPatch, ReportError, localVars
<1>2. EntriesAreDistinct' /\ ConditionReflectsEntries'
  BY <1>0, <1>1, EntriesPartInv
<1>3. CASE ReportStart
  <2>1. ExporterTypeOK'
    BY <1>0, <1>3 DEF ExporterTypeOK, ReportStart, localVars
  <2>2. ReportIsCurrent' /\ CleanIsPublished'
    BY <1>0, <1>3 DEF ReportIsCurrent, CleanIsPublished, ReportStart, localVars
  <2>3. QED
    BY <1>2, <2>1, <2>2 DEF ExporterInv
<1>4. CASE ReportGet
  <2>1. Upsert(node) \in NodeObject /\ node \in NodeObject
    BY <1>0, UpsertType DEF ExporterTypeOK
  <2>2. ExporterTypeOK'
    BY <1>0, <1>4, <2>1 DEF ExporterTypeOK, ReportGet, localVars
  <2>3. ReportIsCurrent'
    <3>1. Upsert(node)' = Upsert(node)
      BY <1>1, <1>4 DEF ReportGet, Upsert
    <3>2. /\ oldNode' = node /\ newNode' = Upsert(node) /\ node' = node
          /\ managedConditionsDirty' = managedConditionsDirty
          /\ reportPhase = "get"
      BY <1>4 DEF ReportGet, localVars
    <3>3. newNode' = Upsert(oldNode)'
      BY <1>1, <3>2 DEF Upsert
    <3>4. QED
      BY <1>0, <2>1, <3>2, <3>3 DEF ReportIsCurrent
  <2>4. CleanIsPublished'
    BY <1>0, <1>4 DEF CleanIsPublished, ReportGet, localVars
  <2>5. QED
    BY <1>2, <2>2, <2>3, <2>4 DEF ExporterInv
<1>5. CASE ReportPatch
  <2>1. /\ node' = MergePatched /\ managedConditionsDirty' = FALSE
        /\ reportPhase' = "idle" /\ oldNode' = Absent /\ newNode' = Absent
        /\ reportPhase = "patch"
    BY <1>5 DEF ReportPatch, Return
  <2>2. /\ MergePatched \in NodeObject
        /\ \A t \in Types : managedConditions[t] # Absent =>
             MergePatched.conditions[t] \in {managedConditions[t], Absent}
    BY <2>1, PatchFacts
  <2>3. ExporterTypeOK'
    BY <1>0, <1>1, <2>1, <2>2 DEF ExporterTypeOK
  <2>4. ReportIsCurrent' /\ CleanIsPublished'
    BY <1>1, <2>1, <2>2 DEF ReportIsCurrent, CleanIsPublished
  <2>5. QED
    BY <1>2, <2>3, <2>4 DEF ExporterInv
<1>6. CASE ReportError
  <2>1. /\ reportPhase \in {"get", "patch"}
        /\ managedConditionsDirty' = managedConditionsDirty
        /\ reportPhase' = "idle" /\ oldNode' = Absent /\ newNode' = Absent
    BY <1>6 DEF ReportError, Return, localVars
  <2>2. node' \in NodeObject
    <3>1. CASE reportPhase = "get"
      BY <1>0, <1>6, <3>1 DEF ReportError, ExporterTypeOK
    <3>2. CASE reportPhase = "patch"
      <4>1. MergePatched \in NodeObject
        BY <3>2, PatchFacts
      <4>2. QED
        BY <1>0, <1>6, <3>2, <4>1 DEF ReportError, ExporterTypeOK
    <3>3. QED
      BY <2>1, <3>1, <3>2
  <2>3. managedConditionsDirty
    BY <1>0, <2>1 DEF ReportIsCurrent
  <2>4. ExporterTypeOK'
    BY <1>0, <1>1, <2>1, <2>2 DEF ExporterTypeOK
  <2>5. ReportIsCurrent' /\ CleanIsPublished'
    BY <1>0, <2>1, <2>3 DEF ReportIsCurrent, CleanIsPublished, ExporterTypeOK
  <2>6. QED
    BY <1>2, <2>4, <2>5 DEF ExporterInv
<1>7. QED
  BY <1>3, <1>4, <1>5, <1>6

\* Other owners' updates of the Node keep the invariant.
LEMMA EnvironmentInv ==
  ASSUME ExporterInv, Environment
  PROVE  ExporterInv'
<1>0. /\ ExporterTypeOK /\ EntriesAreDistinct /\ ConditionReflectsEntries
      /\ ReportIsCurrent /\ CleanIsPublished
  BY DEF ExporterInv
<1>1. UNCHANGED <<localVars, reportVars, restarts>>
  BY DEF Environment, KubeletUpdate, RemoveCondition, Tick
<1>2. EntriesAreDistinct' /\ ConditionReflectsEntries'
  BY <1>0, <1>1, EntriesPartInv DEF localVars
<1> DEFINE NodeKept ==
      /\ node' \in NodeObject /\ now' \in Nat
      /\ \A t \in Types : node'.conditions[t] \in {node.conditions[t], Absent}
<1>3. NodeKept
  <2>1. node \in NodeObject /\ now \in Nat
    BY <1>0 DEF ExporterTypeOK
  <2>2. ASSUME NEW f \in Foreign, NEW s \in Status, KubeletUpdate(f, s)
        PROVE  NodeKept
    BY <2>1, <2>2 DEF KubeletUpdate, NodeObject
  <2>3. ASSUME NEW t \in Types, RemoveCondition(t)
        PROVE  NodeKept
    BY <2>1, <2>3 DEF RemoveCondition, NodeObject, MaybeCondition
  <2>4. CASE Tick
    BY <2>1, <2>4 DEF Tick
  <2>5. QED
    BY <2>1, <2>2, <2>3, <2>4 DEF Environment
<1>4. ExporterTypeOK'
  BY <1>0, <1>1, <1>3 DEF ExporterTypeOK, localVars, reportVars
<1>5. ReportIsCurrent'
  <2>1. Upsert(oldNode)' = Upsert(oldNode)
    BY <1>1 DEF Upsert, localVars, reportVars
  <2>2. QED
    BY <1>0, <1>1, <1>3, <2>1 DEF ReportIsCurrent, localVars, reportVars
<1>6. CleanIsPublished'
  BY <1>0, <1>1, <1>3 DEF CleanIsPublished, localVars
<1>7. QED
  BY <1>2, <1>4, <1>5, <1>6 DEF ExporterInv

\* A restart of the agent keeps the invariant.
LEMMA RestartInv ==
  ASSUME ExporterInv, Restart
  PROVE  ExporterInv'
<1>0. ExporterTypeOK /\ now \in Nat /\ now' = now
  BY DEF ExporterInv, ExporterTypeOK, Restart
<1>1. /\ managedConditions' = initializeManagedConditions
      /\ fatalEntries' = [t \in Types |-> <<>>] /\ reportSeq' = 0
      /\ managedConditionsDirty' = TRUE /\ reportPhase' = "idle"
      /\ oldNode' = Absent /\ newNode' = Absent /\ restarts' \in Nat
  BY <1>0 DEF Restart, NewNodeExporter, Return, ExporterTypeOK
<1>2. node' \in NodeObject
  <2>1. CASE reportPhase = "patch"
    <3>1. MergePatched \in NodeObject
      BY <2>1, PatchFacts
    <3>2. QED
      BY <1>0, <2>1, <3>1 DEF Restart, ExporterTypeOK
  <2>2. CASE reportPhase # "patch"
    BY <1>0, <2>2 DEF Restart, ExporterTypeOK
  <2>3. QED
    BY <2>1, <2>2
<1>3. managedConditions' \in [Types -> MaybeCondition]
  BY <1>0, <1>1, InitialConditions
<1>4. fatalEntries' \in [Types -> Seq(FatalEntry)]
  BY <1>1, EmptySeq
<1>5. ExporterTypeOK'
  BY <1>0, <1>1, <1>2, <1>3, <1>4 DEF ExporterTypeOK
<1>6. \A t \in Types : fatalEntries'[t] = <<>>
  BY <1>1
<1>7. EntriesAreDistinct'
  BY <1>6, EmptySeq DEF EntriesAreDistinct
<1>8. ConditionReflectsEntries'
  BY <1>0, <1>1, <1>6, InitialConditions DEF ConditionReflectsEntries
<1>9. ReportIsCurrent' /\ CleanIsPublished'
  BY <1>1 DEF ReportIsCurrent, CleanIsPublished
<1>10. QED
  BY <1>5, <1>7, <1>8, <1>9 DEF ExporterInv

\* Every step keeps the invariant.
LEMMA NextInv == ExporterInv /\ [ExporterNext]_exporterVars => ExporterInv'
<1> SUFFICES ASSUME ExporterInv, [ExporterNext]_exporterVars PROVE ExporterInv'
  OBVIOUS
<1>1. CASE Callers
  BY <1>1, FatalInv, ResolveInv DEF Callers
<1>2. CASE RunWithTickers
  BY <1>2, HeartbeatInv, ReportInv DEF RunWithTickers
<1>3. CASE Environment
  BY <1>3, EnvironmentInv
<1>4. CASE Restart
  BY <1>4, RestartInv
<1>5. CASE UNCHANGED exporterVars
  BY <1>5 DEF ExporterInv, exporterVars, localVars, reportVars, ExporterTypeOK,
     EntriesAreDistinct, ConditionReflectsEntries, ReportIsCurrent, CleanIsPublished, Upsert
<1>6. QED
  BY <1>1, <1>2, <1>3, <1>4, <1>5 DEF ExporterNext

(***************************************************************************)
(* The inductive invariant holds in every state of the exporter.           *)
(***************************************************************************)
THEOREM ExporterInvariant == ExporterSpec => []ExporterInv
BY InitInv, NextInv, PTL DEF ExporterSpec

(***************************************************************************)
(* Type correctness of the exporter.                                       *)
(***************************************************************************)
THEOREM ExporterTypeCorrect == ExporterSpec => []ExporterTypeOK
<1>1. ExporterInv => ExporterTypeOK
  BY DEF ExporterInv
<1>2. QED
  BY <1>1, ExporterInvariant, PTL

(***************************************************************************)
(* The local condition is always what the unresolved reasons say (Fatal,   *)
(* Resolve, rebuildFatalCondition), for any number of types and reasons.   *)
(***************************************************************************)
THEOREM ConditionsAreFaithful == ExporterSpec => []ConditionReflectsEntries
<1>1. ExporterInv => ConditionReflectsEntries
  BY DEF ExporterInv
<1>2. QED
  BY <1>1, ExporterInvariant, PTL

(***************************************************************************)
(* The dirty flag never hides an unpublished change                        *)
(* (reportManagedConditions), whatever calls fail and whoever else writes. *)
(***************************************************************************)
THEOREM CleanMeansPublished == ExporterSpec => []CleanIsPublished
<1>1. ExporterInv => CleanIsPublished
  BY DEF ExporterInv
<1>2. QED
  BY <1>1, ExporterInvariant, PTL

-----------------------------------------------------------------------------
(* What readers of the Node see *)

\* The steps that can write the agent's conditions on the Node.
PatchLands == reportPhase = "patch" /\ node' = MergePatched

\* Nothing but a patch that lands and the other owners change the Node.
LEMMA NodeWrites ==
  ASSUME ExporterInv, [ExporterNext]_exporterVars
  PROVE  \/ PatchLands
         \/ UNCHANGED node
         \/ \E f \in Foreign, s \in Status : KubeletUpdate(f, s)
         \/ \E t \in Types : RemoveCondition(t)
<1>1. CASE Callers
  BY <1>1 DEF Callers, Fatal, Resolve
<1>2. CASE RunWithTickers
  BY <1>2 DEF RunWithTickers, updateHeartbeatTimes, ReportStart, ReportGet, ReportPatch,
     ReportError, PatchLands
<1>3. CASE Environment
  BY <1>3 DEF Environment, Tick
<1>4. CASE Restart
  BY <1>4 DEF Restart, PatchLands
<1>5. CASE UNCHANGED exporterVars
  BY <1>5 DEF exporterVars
<1>6. QED
  BY <1>1, <1>2, <1>3, <1>4, <1>5 DEF ExporterNext

(***************************************************************************)
(* No reader sees a condition recover while one of its reasons is          *)
(* unresolved: a patch carries True only for a type without entries.       *)
(***************************************************************************)
THEOREM NoFalseRecovery == ExporterSpec => RecoveryMeansResolved
<1> DEFINE A == \A t \in Types :
              /\ node.conditions[t] # Absent /\ node.conditions[t].status = "False"
              /\ node'.conditions[t] # Absent /\ node'.conditions[t].status = "True"
              => fatalEntries[t] = <<>>
<1>1. ASSUME ExporterInv, [ExporterNext]_exporterVars
      PROVE  A
  <2> SUFFICES ASSUME NEW t \in Types,
                      node.conditions[t] # Absent, node.conditions[t].status = "False",
                      node'.conditions[t] # Absent, node'.conditions[t].status = "True"
               PROVE  fatalEntries[t] = <<>>
    OBVIOUS
  <2>1. CASE PatchLands
    <3>1. /\ managedConditions[t] # Absent =>
               \/ node'.conditions[t] = managedConditions[t]
               \/ node'.conditions[t] = Absent
          /\ managedConditions[t] = Absent =>
               \/ node'.conditions[t] = node.conditions[t]
               \/ node.conditions[t] = Absent
      BY <1>1, <2>1, PatchFacts DEF PatchLands
    <3>2. ConditionReflectsEntries
      BY <1>1 DEF ExporterInv
    <3>3. QED
      BY <3>1, <3>2 DEF ConditionReflectsEntries
  <2>2. CASE UNCHANGED node
    BY <2>2
  <2>3. ASSUME NEW f \in Foreign, NEW s \in Status, KubeletUpdate(f, s)
        PROVE  fatalEntries[t] = <<>>
    BY <1>1, <2>3 DEF KubeletUpdate, ExporterInv, ExporterTypeOK, NodeObject
  <2>4. ASSUME NEW u \in Types, RemoveCondition(u)
        PROVE  fatalEntries[t] = <<>>
    BY <1>1, <2>4 DEF RemoveCondition, ExporterInv, ExporterTypeOK, NodeObject
  <2>5. QED
    BY <1>1, <2>1, <2>2, <2>3, <2>4, NodeWrites
<1>2. ExporterInv /\ [ExporterNext]_exporterVars => [A]_exporterVars
  BY <1>1
<1> HIDE DEF A
<1>3. ExporterSpec => [][A]_exporterVars
  BY <1>2, ExporterInvariant, PTL DEF ExporterSpec
<1>4. QED
  BY <1>3 DEF A, RecoveryMeansResolved

(***************************************************************************)
(* While the agent runs, the transition time of a managed condition moves  *)
(* only together with its status: rebuildFatalCondition, Resolve and       *)
(* updateHeartbeatTimes all carry the old time over.                       *)
(***************************************************************************)
THEOREM TransitionsAreChanges == ExporterSpec => TransitionFollowsStatus
<1> DEFINE Moved(t) ==
              /\ restarts' = restarts
              /\ managedConditions[t] # Absent
              /\ managedConditions'[t].transition # managedConditions[t].transition
              => managedConditions'[t].status # managedConditions[t].status
           A == \A t \in Types : Moved(t)
<1>1. ASSUME ExporterInv, [ExporterNext]_exporterVars
      PROVE  A
  <2>1. /\ managedConditions \in [Types -> MaybeCondition] /\ restarts \in Nat
        /\ now \in Nat
    BY <1>1 DEF ExporterInv, ExporterTypeOK
  <2>2. CASE UNCHANGED managedConditions
    BY <2>2
  <2>3. ASSUME NEW t \in Types, NEW c,
               managedConditions' = [managedConditions EXCEPT ![t] = c],
               c.transition = TransitionTime(t, c.status)
        PROVE  A
    <3> SUFFICES ASSUME NEW u \in Types PROVE Moved(u)
      OBVIOUS
    <3>1. CASE u = t
      BY <2>1, <2>3, <3>1 DEF TransitionTime
    <3>2. CASE u # t
      BY <2>1, <2>3, <3>2
    <3>3. QED
      BY <3>1, <3>2
  <2>4. ASSUME NEW t \in Types, NEW r \in Reasons, NEW m \in Texts, Fatal(t, r, m)
        PROVE  A
    <3> DEFINE c == FatalCondition(t, Reported(t, r, m))
    <3>1. managedConditions' = [managedConditions EXCEPT ![t] = c]
      BY <2>4 DEF Fatal
    <3>2. c.transition = TransitionTime(t, c.status)
      BY DEF FatalCondition, NewCondition
    <3> HIDE DEF c
    <3>3. QED
      BY <2>3, <3>1, <3>2
  <2>5. ASSUME NEW t \in Types, NEW r \in Reasons, Resolve(t, r)
        PROVE  A
    <3> DEFINE c == IF Recovered(t, r) THEN ReadyCondition(t)
                    ELSE FatalCondition(t, Remaining(t, r))
    <3>1. \/ UNCHANGED managedConditions
          \/ managedConditions' = [managedConditions EXCEPT ![t] = c]
      BY <2>5 DEF Resolve, localVars
    <3>2. c.transition = TransitionTime(t, c.status)
      BY DEF FatalCondition, ReadyCondition, NewCondition
    <3> HIDE DEF c, A
    <3>3. QED
      BY <2>2, <2>3, <3>1, <3>2
  <2>6. CASE updateHeartbeatTimes
    <3> SUFFICES ASSUME NEW t \in Types, managedConditions[t] # Absent
                 PROVE  managedConditions'[t].transition = managedConditions[t].transition
      OBVIOUS
    <3>1. managedConditions'[t] = [managedConditions[t] EXCEPT !.heartbeat = now]
      BY <2>6 DEF updateHeartbeatTimes
    <3>2. managedConditions[t] \in Condition
      BY <2>1 DEF MaybeCondition
    <3>3. QED
      BY <3>1, <3>2 DEF Condition
  <2>7. CASE ReportStart \/ ReportGet \/ ReportPatch \/ ReportError \/ Environment
             \/ UNCHANGED exporterVars
    <3>1. UNCHANGED managedConditions
      BY <2>7 DEF ReportStart, ReportGet, ReportPatch, ReportError, Environment, KubeletUpdate,
         RemoveCondition, Tick, exporterVars, localVars
    <3>2. QED
      BY <2>2, <3>1
  <2>8. CASE Restart
    <3>1. restarts' # restarts
      BY <2>1, <2>8 DEF Restart
    <3>2. QED
      BY <3>1
  <2>9. QED
    BY <1>1, <2>4, <2>5, <2>6, <2>7, <2>8 DEF ExporterNext, Callers, RunWithTickers
<1>2. ExporterInv /\ [ExporterNext]_exporterVars => [A]_exporterVars
  BY <1>1
<1> HIDE DEF A
<1>3. ExporterSpec => [][A]_exporterVars
  BY <1>2, ExporterInvariant, PTL DEF ExporterSpec
<1>4. QED
  BY <1>3 DEF A, TransitionFollowsStatus

-----------------------------------------------------------------------------
(* The exporter implements NodeHealth *)

(***************************************************************************)
(* Every step of the exporter, with the lock, the two API calls, failures  *)
(* and restarts, maps to one step of the abstract specification or to a    *)
(* stutter.                                                                *)
(***************************************************************************)

\* The abstract variables, named for the proof.
AbsUnresolved == [t \in Types |-> {fatalEntries[t][i].reason : i \in DOMAIN fatalEntries[t]}]
AbsTracked    == {t \in Types : managedConditions[t] # Absent}
AbsPublished  == [t \in Types |-> PublishedStatus(node.conditions[t])]

\* The unresolved reasons of a type, before and after a step.
LEMMA AbsUnresolvedValue ==
  \A t \in Types : /\ AbsUnresolved[t] = ReasonsOf(fatalEntries[t])
                   /\ AbsUnresolved'[t] = ReasonsOf(fatalEntries'[t])
BY DEF AbsUnresolved, ReasonsOf

(***************************************************************************)
(* A status read off a Node object is one of the published values.         *)
(***************************************************************************)
LEMMA PublishedType ==
  ASSUME NEW n \in NodeObject, NEW t \in Types
  PROVE  /\ PublishedStatus(n.conditions[t]) \in {"True", "False", "Absent"}
         /\ PublishedStatus(n.conditions[t]) = "Absent" <=> n.conditions[t] = Absent
BY DEF NodeObject, MaybeCondition, Condition, Status, PublishedStatus

(***************************************************************************)
(* A managed condition carries the health of its type.                     *)
(***************************************************************************)
LEMMA ManagedHealth ==
  ASSUME ExporterInv, NEW t \in Types, managedConditions[t] # Absent
  PROVE  PublishedStatus(managedConditions[t]) = Health!Health(t)
<1>1. fatalEntries[t] = <<>> <=> ReasonsOf(fatalEntries[t]) = {}
  <2>1. fatalEntries[t] \in Seq(FatalEntry)
    BY DEF ExporterInv, ExporterTypeOK
  <2>2. CASE fatalEntries[t] = <<>>
    BY <2>2, EmptySeq DEF ReasonsOf
  <2>3. CASE fatalEntries[t] # <<>>
    <3>1. 1 \in DOMAIN fatalEntries[t]
      BY <2>1, <2>3, EmptySeq, LenProperties
    <3>2. fatalEntries[t][1].reason \in ReasonsOf(fatalEntries[t])
      BY <3>1 DEF ReasonsOf
    <3>3. QED
      BY <2>3, <3>2
  <2>4. QED
    BY <2>2, <2>3
<1>2. managedConditions[t].status = IF fatalEntries[t] = <<>> THEN "True" ELSE "False"
  BY DEF ExporterInv, ConditionReflectsEntries
<1>3. Health!Health(t) = IF AbsUnresolved[t] = {} THEN "True" ELSE "False"
  BY DEF Health!Health, AbsUnresolved
<1>4. QED
  BY <1>1, <1>2, <1>3, AbsUnresolvedValue DEF PublishedStatus

(***************************************************************************)
(* A patch that reaches the server publishes every tracked type at once.   *)
(***************************************************************************)
LEMMA PatchPublishes ==
  ASSUME ExporterInv, PatchLands
  PROVE  /\ AbsPublished' \in [Types -> {"True", "False", "Absent"}]
         /\ \A t \in Types : Health!PublishedBy(t, AbsPublished'[t])
<1>1. MergePatched \in NodeObject /\ node \in NodeObject
  BY PatchFacts DEF PatchLands, ExporterInv, ExporterTypeOK
<1>2. node' = MergePatched
  BY DEF PatchLands
<1>3. AbsPublished' \in [Types -> {"True", "False", "Absent"}]
  BY <1>1, <1>2, PublishedType DEF AbsPublished
<1>4. ASSUME NEW t \in Types
      PROVE  Health!PublishedBy(t, AbsPublished'[t])
  <2>1. AbsPublished'[t] = PublishedStatus(MergePatched.conditions[t])
    BY <1>2 DEF AbsPublished
  <2>2. AbsPublished[t] = PublishedStatus(node.conditions[t])
    BY DEF AbsPublished
  <2>3. CASE managedConditions[t] # Absent
    <3>1. \/ MergePatched.conditions[t] = managedConditions[t]
          \/ node.conditions[t] = Absent /\ MergePatched.conditions[t] = Absent
      BY <2>3, PatchFacts DEF PatchLands
    <3>2. CASE MergePatched.conditions[t] = managedConditions[t]
      <4>1. AbsPublished'[t] = Health!Health(t) /\ t \in AbsTracked
        BY <2>1, <2>3, <3>2, ManagedHealth DEF AbsTracked
      <4>2. QED
        BY <4>1 DEF Health!PublishedBy, AbsTracked
    <3>3. CASE node.conditions[t] = Absent /\ MergePatched.conditions[t] = Absent
      <4>1. AbsPublished'[t] = "Absent" /\ AbsPublished[t] = "Absent"
        BY <2>1, <2>2, <3>3 DEF PublishedStatus
      <4>2. QED
        BY <4>1 DEF Health!PublishedBy, AbsPublished
    <3>4. QED
      BY <3>1, <3>2, <3>3
  <2>4. CASE managedConditions[t] = Absent
    <3>1. \/ MergePatched.conditions[t] = node.conditions[t]
          \/ node.conditions[t] = Absent
      BY <2>4, PatchFacts DEF PatchLands
    <3>2. /\ t \notin AbsTracked
          /\ AbsPublished'[t] = AbsPublished[t] \/ AbsPublished[t] = "Absent"
      BY <2>1, <2>2, <2>4, <3>1 DEF AbsTracked, PublishedStatus
    <3>3. QED
      BY <3>2 DEF Health!PublishedBy, AbsTracked, AbsPublished
  <2>5. QED
    BY <2>3, <2>4
<1>5. QED
  BY <1>3, <1>4

(***************************************************************************)
(* Fatal raises a reason; Resolve clears one.                              *)
(***************************************************************************)
LEMMA FatalRaises ==
  ASSUME ExporterInv, NEW t \in Types, NEW r \in Reasons, NEW m \in Texts, Fatal(t, r, m)
  PROVE  Health!Raise(t, r)
<1>0. ExporterTypeOK /\ EntriesAreDistinct
  BY DEF ExporterInv
<1>1. ReasonsOf(Reported(t, r, m)) = ReasonsOf(fatalEntries[t]) \cup {r}
  BY <1>0, ReportedGood
<1>2. /\ fatalEntries' = [fatalEntries EXCEPT ![t] = Reported(t, r, m)]
      /\ fatalEntries \in [Types -> Seq(FatalEntry)]
  BY <1>0 DEF Fatal, ExporterTypeOK
<1>3. AbsUnresolved' = [AbsUnresolved EXCEPT ![t] = @ \cup {r}]
  <2>1. \A u \in Types : AbsUnresolved'[u] =
          IF u = t THEN AbsUnresolved[u] \cup {r} ELSE AbsUnresolved[u]
    BY <1>1, <1>2, AbsUnresolvedValue
  <2>2. QED
    BY <2>1 DEF AbsUnresolved
<1>4. AbsTracked' = AbsTracked \cup {t}
  <2>1. managedConditions'[t] # Absent
    <3>1. GoodEntries(Reported(t, r, m), reportSeq + 1) /\ Reported(t, r, m) # <<>>
      BY <1>0, ReportedGood
    <3>2. FatalCondition(t, Reported(t, r, m)) # Absent
      BY <1>0, <3>1, FatalConditionFacts DEF ExporterTypeOK
    <3>3. QED
      BY <1>0, <3>2 DEF Fatal, ExporterTypeOK
  <2>2. \A u \in Types : u # t => managedConditions'[u] = managedConditions[u]
    BY <1>0 DEF Fatal, ExporterTypeOK
  <2>3. QED
    BY <2>1, <2>2 DEF AbsTracked
<1>5. AbsPublished' = AbsPublished
  BY DEF Fatal, AbsPublished
<1>6. QED
  BY <1>3, <1>4, <1>5 DEF Health!Raise, AbsUnresolved, AbsTracked, AbsPublished

\* Resolve is the abstract Clear.
LEMMA ResolveClears ==
  ASSUME ExporterInv, NEW t \in Types, NEW r \in Reasons, Resolve(t, r)
  PROVE  Health!Clear(t, r)
<1>0. ExporterTypeOK /\ EntriesAreDistinct /\ fatalEntries \in [Types -> Seq(FatalEntry)]
  BY DEF ExporterInv, ExporterTypeOK
<1>1. AbsPublished' = AbsPublished
  BY DEF Resolve, AbsPublished
<1>2. CASE ~HasReason(t, r)
  <2>1. fatalEntries' = fatalEntries /\ managedConditions' = managedConditions
    BY <1>2 DEF Resolve, localVars
  <2>2. r \notin ReasonsOf(fatalEntries[t])
    BY <1>2 DEF HasReason, Positions, ReasonsOf
  <2>3. AbsUnresolved' = [AbsUnresolved EXCEPT ![t] = @ \ {r}]
    <3>1. AbsUnresolved' = AbsUnresolved /\ r \notin AbsUnresolved[t]
      BY <2>1, <2>2, AbsUnresolvedValue DEF AbsUnresolved
    <3>2. QED
      BY <3>1 DEF AbsUnresolved
  <2>4. AbsTracked' = AbsTracked
    BY <2>1 DEF AbsTracked
  <2>5. QED
    BY <1>1, <2>3, <2>4 DEF Health!Clear, AbsUnresolved, AbsTracked, AbsPublished
<1>3. CASE HasReason(t, r)
  <2>1. /\ fatalEntries' = [fatalEntries EXCEPT ![t] = Remaining(t, r)]
        /\ managedConditions' =
             [managedConditions EXCEPT
                ![t] = IF Recovered(t, r) THEN ReadyCondition(t)
                       ELSE FatalCondition(t, Remaining(t, r))]
    BY <1>3 DEF Resolve
  <2>2. /\ GoodEntries(Remaining(t, r), reportSeq)
        /\ ReasonsOf(Remaining(t, r)) = ReasonsOf(fatalEntries[t]) \ {r}
    BY <1>0, <1>3, RemainingGood
  <2>3. AbsUnresolved' = [AbsUnresolved EXCEPT ![t] = @ \ {r}]
    <3>1. \A u \in Types : AbsUnresolved'[u] =
            IF u = t THEN AbsUnresolved[u] \ {r} ELSE AbsUnresolved[u]
      BY <1>0, <2>1, <2>2, AbsUnresolvedValue
    <3>2. QED
      BY <3>1 DEF AbsUnresolved
  <2>4. AbsTracked' = AbsTracked
    <3>1. managedConditions[t] # Absent
      <4>1. fatalEntries[t] # <<>>
        BY <1>3, EmptySeq DEF HasReason, Positions
      <4>2. QED
        BY <4>1 DEF ExporterInv, ConditionReflectsEntries
    <3>2. managedConditions'[t] # Absent
      <4>1. CASE Recovered(t, r)
        BY <1>0, <2>1, <4>1, ReadyConditionFacts DEF ExporterTypeOK
      <4>2. CASE ~Recovered(t, r)
        <5>1. Remaining(t, r) # <<>>
          BY <4>2 DEF Recovered
        <5>2. FatalCondition(t, Remaining(t, r)) # Absent
          BY <1>0, <2>2, <5>1, FatalConditionFacts DEF ExporterTypeOK
        <5>3. QED
          BY <1>0, <2>1, <4>2, <5>2 DEF ExporterTypeOK
      <4>3. QED
        BY <4>1, <4>2
    <3>3. \A u \in Types : u # t => managedConditions'[u] = managedConditions[u]
      BY <1>0, <2>1 DEF ExporterTypeOK
    <3>4. QED
      BY <3>1, <3>2, <3>3 DEF AbsTracked
  <2>5. QED
    BY <1>1, <2>3, <2>4 DEF Health!Clear, AbsUnresolved, AbsTracked, AbsPublished
<1>4. QED
  BY <1>2, <1>3

(***************************************************************************)
(* Every step of the exporter is a step of NodeHealth or a stutter.        *)
(***************************************************************************)
LEMMA StepSimulation ==
  ASSUME ExporterInv, ExporterInv', [ExporterNext]_exporterVars
  PROVE  [Health!HealthNext]_(Health!healthVars)
<1> DEFINE MemoryKept == AbsUnresolved' = AbsUnresolved /\ AbsTracked' = AbsTracked
           Goal == [Health!HealthNext]_(Health!healthVars)
<1>1. ASSUME MemoryKept, PatchLands
      PROVE  Goal
  <2>1. Health!PublishNow
    BY <1>1, PatchPublishes
    DEF Health!PublishNow, Health!Publish, Health!Published,
        AbsUnresolved, AbsTracked, AbsPublished
  <2>2. QED
    BY <2>1 DEF Health!HealthNext
<1>2. ASSUME MemoryKept, AbsPublished' = AbsPublished
      PROVE  Goal
  BY <1>2 DEF Health!healthVars, AbsUnresolved, AbsTracked, AbsPublished
<1>3. CASE Callers
  <2>1. ASSUME NEW t \in Types, NEW r \in Reasons, NEW m \in Texts, Fatal(t, r, m)
        PROVE  Goal
    BY <2>1, FatalRaises DEF Health!HealthNext
  <2>2. ASSUME NEW t \in Types, NEW r \in Reasons, Resolve(t, r)
        PROVE  Goal
    BY <2>2, ResolveClears DEF Health!HealthNext
  <2>3. QED
    BY <1>3, <2>1, <2>2 DEF Callers
<1>4. CASE RunWithTickers
  <2>1. MemoryKept
    <3>1. fatalEntries' = fatalEntries
      BY <1>4 DEF RunWithTickers, updateHeartbeatTimes, ReportStart, ReportGet, ReportPatch,
         ReportError, localVars
    <3>2. \A t \in Types : managedConditions'[t] = Absent <=> managedConditions[t] = Absent
      <4>1. CASE updateHeartbeatTimes
        <5> SUFFICES ASSUME NEW t \in Types, managedConditions[t] # Absent
                     PROVE  managedConditions'[t] # Absent
          BY <4>1 DEF updateHeartbeatTimes
        <5>1. managedConditions[t] \in Condition /\ now \in Nat
          BY DEF ExporterInv, ExporterTypeOK, MaybeCondition
        <5>2. managedConditions'[t] = [managedConditions[t] EXCEPT !.heartbeat = now]
          BY <4>1 DEF updateHeartbeatTimes
        <5>3. managedConditions'[t] \in Condition
          BY <5>1, <5>2 DEF Condition
        <5>4. QED
          BY <5>3, AbsentAssumption
      <4>2. CASE ReportStart \/ ReportGet \/ ReportPatch \/ ReportError
        BY <4>2 DEF ReportStart, ReportGet, ReportPatch, ReportError, localVars
      <4>3. QED
        BY <1>4, <4>1, <4>2 DEF RunWithTickers
    <3>3. QED
      BY <3>1, <3>2 DEF AbsUnresolved, AbsTracked
  <2>2. PatchLands \/ UNCHANGED node
    BY <1>4 DEF RunWithTickers, updateHeartbeatTimes, ReportStart, ReportGet, ReportPatch,
       ReportError, PatchLands
  <2>3. QED
    BY <1>1, <1>2, <2>1, <2>2 DEF AbsPublished
<1>5. CASE Environment
  <2>1. MemoryKept
    BY <1>5 DEF Environment, KubeletUpdate, RemoveCondition, Tick, localVars,
       AbsUnresolved, AbsTracked
  <2>2. node \in NodeObject
    BY DEF ExporterInv, ExporterTypeOK
  <2>3. ASSUME NEW f \in Foreign, NEW s \in Status, KubeletUpdate(f, s)
        PROVE  Goal
    <3>1. node'.conditions = node.conditions
      BY <2>2, <2>3 DEF KubeletUpdate, NodeObject
    <3>2. QED
      BY <1>2, <2>1, <3>1 DEF AbsPublished
  <2>4. ASSUME NEW t \in Types, RemoveCondition(t)
        PROVE  Goal
    <3>1. \A u \in Types : node'.conditions[u] = IF u = t THEN Absent ELSE node.conditions[u]
      BY <2>2, <2>4 DEF RemoveCondition, NodeObject
    <3>2. AbsPublished' = [AbsPublished EXCEPT ![t] = "Absent"]
      BY <3>1 DEF AbsPublished, PublishedStatus
    <3>3. Health!Remove(t)
      BY <2>1, <3>2 DEF Health!Remove, AbsUnresolved, AbsTracked, AbsPublished
    <3>4. QED
      BY <3>3 DEF Health!HealthNext
  <2>5. CASE Tick
    BY <1>2, <2>1, <2>5 DEF Tick, AbsPublished
  <2>6. QED
    BY <1>5, <2>3, <2>4, <2>5 DEF Environment
<1>6. CASE Restart
  <2>1. AbsUnresolved' = [t \in Types |-> {}]
    <3>1. \A t \in Types : fatalEntries'[t] = <<>>
      BY <1>6 DEF Restart, NewNodeExporter
    <3>2. QED
      BY <3>1, EmptySeq DEF AbsUnresolved
  <2>2. AbsTracked' = Configured
    <3>1. managedConditions' = initializeManagedConditions /\ now \in Nat
      BY <1>6 DEF Restart, NewNodeExporter, ExporterInv, ExporterTypeOK
    <3>2. NewCondition("True", "Ready", <<>>, now) \in Condition
      BY <3>1, EmptySeq DEF NewCondition, Condition, Status, ReadyReasons
    <3>3. QED
      BY <3>1, <3>2, AbsentAssumption, ConfiguredAssumption
      DEF AbsTracked, initializeManagedConditions
  <2>3. PatchLands \/ UNCHANGED node
    BY <1>6 DEF Restart, PatchLands
  <2>4. Health!Forget
    <3>1. CASE PatchLands
      BY <2>1, <2>2, <3>1, PatchPublishes
      DEF Health!Forget, Health!Publish, Health!Published, AbsUnresolved, AbsTracked, AbsPublished
    <3>2. CASE UNCHANGED node
      BY <2>1, <2>2, <3>2 DEF Health!Forget, AbsUnresolved, AbsTracked
    <3>3. QED
      BY <2>3, <3>1, <3>2
  <2>5. QED
    BY <2>4 DEF Health!HealthNext
<1>7. CASE UNCHANGED exporterVars
  BY <1>2, <1>7 DEF exporterVars, localVars, AbsUnresolved, AbsTracked, AbsPublished
<1>8. QED
  BY <1>3, <1>4, <1>5, <1>6, <1>7 DEF ExporterNext

\* The exporter starts where NodeHealth does.
LEMMA InitSimulation == ExporterInit => Health!HealthInit
<1> SUFFICES ASSUME ExporterInit PROVE Health!HealthInit
  OBVIOUS
<1>1. AbsUnresolved = [t \in Types |-> {}]
  <2>1. \A t \in Types : fatalEntries[t] = <<>>
    BY DEF ExporterInit
  <2>2. QED
    BY <2>1, EmptySeq DEF AbsUnresolved
<1>2. AbsTracked = Configured
  <2>1. managedConditions = initializeManagedConditions /\ now \in Nat
    BY DEF ExporterInit
  <2>2. NewCondition("True", "Ready", <<>>, now) \in Condition
    BY <2>1, EmptySeq DEF NewCondition, Condition, Status, ReadyReasons
  <2>3. QED
    BY <2>1, <2>2, AbsentAssumption, ConfiguredAssumption
    DEF AbsTracked, initializeManagedConditions
<1>3. AbsPublished = [t \in Types |-> "Absent"]
  <2>1. \A t \in Types : node.conditions[t] = Absent
    BY DEF ExporterInit
  <2>2. QED
    BY <2>1 DEF AbsPublished, PublishedStatus
<1>4. QED
  BY <1>1, <1>2, <1>3 DEF Health!HealthInit, AbsUnresolved, AbsTracked, AbsPublished

(***************************************************************************)
(* The exporter implements its promise: the conditions readers of the Node *)
(* see are snapshots of the unresolved reasons, despite batching, failing  *)
(* or lost API calls and restarts (node_exporter.go).                      *)
(***************************************************************************)
THEOREM ExporterImplementsNodeHealth == ExporterSpec => ImplementsNodeHealth
BY InitSimulation, StepSimulation, ExporterInvariant, PTL
DEF ExporterSpec, ImplementsNodeHealth, Health!HealthSpec

-----------------------------------------------------------------------------
(* The manager in front of the exporter *)

(***************************************************************************)
(* What the loop is working on is a condition of a registered monitor.     *)
(***************************************************************************)
LEMMA HandledFacts ==
  ASSUME ManagerTypeOK, loopPhase # "select"
  PROVE  /\ Handled \in MonitorCondition
         /\ Handled.reason \in Reasons /\ Handled.message \in Texts
         /\ HandledType \in Types
         /\ Tail(inbox) \in Seq(Notification)
<1>1. inbox \in Seq(Notification) /\ inbox # <<>>
  BY DEF ManagerTypeOK
<1>2. Head(inbox) \in Notification /\ Tail(inbox) \in Seq(Notification)
  BY <1>1, HeadTailProperties
<1>3. Handled \in MonitorCondition /\ Head(inbox).monitor \in Monitors
  BY <1>2 DEF Handled, Notification
<1>4. Handled.reason \in Reasons /\ Handled.message \in Texts
  BY <1>3 DEF MonitorCondition
<1>5. HandledType \in Types
  BY <1>3, ManagerAssumption DEF HandledType
<1>6. QED
  BY <1>2, <1>3, <1>4, <1>5

-----------------------------------------------------------------------------
(* The manager drives the exporter *)

(***************************************************************************)
(* Every step of the agent is a step of the exporter or leaves it alone:   *)
(* the manager calls Fatal and Resolve with a managed type and a reason of *)
(* the catalog, and nothing else touches the exporter's state.             *)
(***************************************************************************)
LEMMA AgentStepIsExporterStep ==
  ManagerTypeOK /\ [AgentNext]_agentVars => [ExporterNext]_exporterVars
<1> SUFFICES ASSUME ManagerTypeOK, [AgentNext]_agentVars
             PROVE  [ExporterNext]_exporterVars
  OBVIOUS
<1>1. CASE ManagerStep
  <2>1. CASE ExportResolved
    <3>1. HandledType \in Types /\ Handled.reason \in Reasons
      BY <2>1, HandledFacts DEF ExportResolved
    <3>2. Resolve(HandledType, Handled.reason)
      BY <2>1 DEF ExportResolved
    <3>3. QED
      BY <3>1, <3>2 DEF ExporterNext, Callers
  <2>2. CASE ExportFatal
    <3>1. HandledType \in Types /\ Handled.reason \in Reasons /\ Handled.message \in Texts
      BY <2>2, HandledFacts DEF ExportFatal
    <3>2. Fatal(HandledType, Handled.reason, Handled.message)
      BY <2>2 DEF ExportFatal
    <3>3. QED
      BY <3>1, <3>2 DEF ExporterNext, Callers
  <2>3. CASE UNCHANGED exporterVars
    BY <2>3
  <2>4. QED
    BY <1>1, <2>1, <2>2, <2>3 DEF ManagerStep, Notify, NotifySend, NotifyCancel, Receive, Poll,
       ExportDebounced, ExportSend
<1>2. CASE AgentNext /\ ~ManagerStep
  BY <1>2 DEF AgentNext, AgentRestart, ExporterNext
<1>3. CASE UNCHANGED agentVars
  BY <1>3 DEF agentVars
<1>4. QED
  BY <1>1, <1>2, <1>3

-----------------------------------------------------------------------------
(* Types *)

(***************************************************************************)
(* Moving on to the next notification keeps the loop's state typed.        *)
(***************************************************************************)
LEMMA DoneTyped ==
  ASSUME ManagerTypeOK, loopPhase # "select", Done
  PROVE  /\ inbox' \in Seq(Notification)
         /\ loopPhase' \in {"select", "export", "fatal"}
         /\ (loopPhase' = "select") <=> (inbox' = <<>>)
BY HandledFacts DEF Done

(***************************************************************************)
(* Notify, its send and its cancellation keep every variable typed.        *)
(***************************************************************************)
LEMMA NotifyTyped ==
  ASSUME ManagerTypeOK, NEW m \in Monitors,
         \/ \E c \in Catalog[m] : Notify(m, c)
         \/ NotifySend(m)
         \/ NotifyCancel(m)
  PROVE  ManagerTypeOK'
<1>1. UNCHANGED loopVars
  BY DEF Notify, NotifySend, NotifyCancel
<1>2. ASSUME NEW c \in Catalog[m], Notify(m, c) PROVE ManagerTypeOK'
  <2>1. c \in MonitorCondition
    BY ManagerAssumption
  <2>2. QED
    BY <1>1, <1>2, <2>1 DEF Notify, ManagerTypeOK, loopVars
<1>3. CASE NotifySend(m)
  <2> DEFINE n == [monitor |-> m, condition |-> notifying[m]]
  <2>1. notifying[m] \in MonitorCondition
    BY <1>3 DEF NotifySend, ManagerTypeOK
  <2>2. n \in Notification
    BY <2>1 DEF Notification
  <2>3. notifyChan' \in Seq(Notification)
    <3> HIDE DEF n
    <3>1. notifyChan' = Append(notifyChan, n)
      BY <1>3 DEF NotifySend, n
    <3>2. QED
      BY <2>2, <3>1, AppendProperties DEF ManagerTypeOK
  <2>4. heard' \in [Reasons -> Nat]
    <3>1. heard' = Hear(heard, notifying[m]) /\ heard \in [Reasons -> Nat]
      BY <1>3 DEF NotifySend, ManagerTypeOK
    <3>2. QED
      BY <2>1, <3>1 DEF Hear, MonitorCondition
  <2>5. QED
    BY <1>1, <1>3, <2>3, <2>4 DEF NotifySend, ManagerTypeOK, loopVars
<1>4. CASE NotifyCancel(m)
  BY <1>1, <1>4 DEF NotifyCancel, ManagerTypeOK, loopVars
<1>5. QED
  BY <1>2, <1>3, <1>4

(***************************************************************************)
(* The loop's steps keep every variable typed.                             *)
(***************************************************************************)
LEMMA LoopTyped ==
  ASSUME ManagerTypeOK,
         \/ Receive \/ \E s \in Polls : Poll(s)
         \/ ExportResolved \/ ExportDebounced \/ ExportSend \/ ExportFatal
  PROVE  ManagerTypeOK'
<1>1. CASE Receive
  <2>1. /\ notifyChan \in Seq(Notification) /\ notifyChan # <<>>
        /\ inbox' = <<Head(notifyChan)>> /\ notifyChan' = Tail(notifyChan)
    BY <1>1 DEF Receive, ManagerTypeOK
  <2>2. Head(notifyChan) \in Notification /\ notifyChan' \in Seq(Notification)
    BY <2>1, HeadTailProperties
  <2>3. inbox' \in Seq(Notification) /\ inbox' # <<>>
    BY <2>1, <2>2
  <2>4. QED
    BY <1>1, <2>2, <2>3 DEF Receive, ManagerTypeOK
<1>2. ASSUME NEW s \in Polls, Poll(s) PROVE ManagerTypeOK'
  <2>1. s \in Seq(Notification)
    BY ManagerAssumption
  <2>2. Len(s) \in Nat
    BY <2>1, LenProperties
  <2>3. QED
    BY <1>2, <2>1, <2>2 DEF Poll, ManagerTypeOK
<1>3. CASE ExportResolved
  <2>1. Handled.reason \in Reasons /\ HandledType \in Types
    BY <1>3, HandledFacts DEF ExportResolved
  <2>2. conditionCountMap' \in [Reasons -> Nat] /\ gauge' \in [Types -> {0, 1}]
    BY <1>3, <2>1 DEF ExportResolved, ManagerTypeOK
  <2>3. loopPhase # "select" /\ Done /\ UNCHANGED <<notifying, notifyChan, sends, heard>>
    BY <1>3 DEF ExportResolved
  <2>4. QED
    BY <2>2, <2>3, DoneTyped DEF ManagerTypeOK
<1>4. CASE ExportDebounced
  <2>1. Handled.reason \in Reasons
    BY <1>4, HandledFacts DEF ExportDebounced
  <2>2. conditionCountMap' \in [Reasons -> Nat]
    BY <1>4, <2>1 DEF ExportDebounced, ManagerTypeOK
  <2>3. /\ loopPhase # "select" /\ Done
        /\ UNCHANGED <<gauge, notifying, notifyChan, sends, heard>>
    BY <1>4 DEF ExportDebounced
  <2>4. QED
    BY <2>2, <2>3, DoneTyped DEF ManagerTypeOK
<1>5. CASE ExportSend
  <2>1. Handled.reason \in Reasons /\ HandledType \in Types
    BY <1>5, HandledFacts DEF ExportSend
  <2>2. /\ conditionCountMap' \in [Reasons -> Nat] /\ loopPhase = "export"
        /\ UNCHANGED <<notifying, notifyChan, sends, heard>>
    BY <1>5, <2>1 DEF ExportSend, ManagerTypeOK
  <2>3. gauge' \in [Types -> {0, 1}]
    BY <1>5, <2>1 DEF ExportSend, ManagerTypeOK
  <2>4. CASE Done
    BY <2>2, <2>3, <2>4, DoneTyped DEF ManagerTypeOK
  <2>5. CASE loopPhase' = "fatal" /\ UNCHANGED inbox
    BY <2>2, <2>3, <2>5 DEF ManagerTypeOK
  <2>6. QED
    BY <1>5, <2>4, <2>5 DEF ExportSend
<1>6. CASE ExportFatal
  <2>1. /\ loopPhase # "select" /\ Done
        /\ UNCHANGED <<conditionCountMap, gauge, notifying, notifyChan, sends, heard>>
    BY <1>6 DEF ExportFatal
  <2>2. QED
    BY <2>1, DoneTyped DEF ManagerTypeOK
<1>7. QED
  BY <1>1, <1>2, <1>3, <1>4, <1>5, <1>6

(***************************************************************************)
(* A fresh manager is typed, whether at the start or after a restart.      *)
(***************************************************************************)
LEMMA FreshTyped ==
  /\ AgentInit => ManagerTypeOK
  /\ ManagerTypeOK /\ AgentRestart => ManagerTypeOK'
<1>1. <<>> \in Seq(Notification)
  BY EmptySeq
<1>2. AgentInit => ManagerTypeOK
  BY <1>1 DEF AgentInit, ManagerTypeOK
<1>3. ManagerTypeOK /\ AgentRestart => ManagerTypeOK'
  BY <1>1 DEF AgentRestart, ManagerTypeOK
<1>4. QED
  BY <1>2, <1>3

\* Every step of the agent keeps the manager's state typed.
LEMMA ManagerTypeStep == ManagerTypeOK /\ [AgentNext]_agentVars => ManagerTypeOK'
<1> SUFFICES ASSUME ManagerTypeOK, [AgentNext]_agentVars PROVE ManagerTypeOK'
  OBVIOUS
<1>1. UNCHANGED managerVars => ManagerTypeOK'
  BY DEF managerVars, loopVars, ManagerTypeOK
<1>2. QED
  BY <1>1, NotifyTyped, LoopTyped, FreshTyped DEF AgentNext, ManagerStep, agentVars

-----------------------------------------------------------------------------
(* The gauge *)

(***************************************************************************)
(* The gauge is inductive only together with the types of the loop and the *)
(* exporter's own invariant: Resolve reports a recovery exactly when it    *)
(* leaves no entry, and Fatal always leaves one.                           *)
(***************************************************************************)
AgentInv == ExporterInv /\ ManagerTypeOK /\ GaugeFollowsEntries

(***************************************************************************)
(* The exporter's entries change only under Fatal, Resolve and a restart.  *)
(***************************************************************************)
LEMMA EntriesKept ==
  ASSUME RunWithTickers \/ Environment
  PROVE  UNCHANGED fatalEntries
BY DEF RunWithTickers, updateHeartbeatTimes, ReportStart, ReportGet, ReportPatch, ReportError,
   Environment, KubeletUpdate, RemoveCondition, Tick, localVars

(***************************************************************************)
(* A resolution lowers the gauge exactly when it empties the type.         *)
(***************************************************************************)
LEMMA ResolvedGauge == AgentInv /\ ExportResolved => GaugeFollowsEntries'
<1> SUFFICES ASSUME AgentInv, ExportResolved, NEW t \in Types
             PROVE  gauge'[t] = 1 <=> \/ fatalEntries'[t] # <<>>
                                      \/ loopPhase' = "fatal" /\ HandledType' = t
  BY DEF GaugeFollowsEntries
<1> DEFINE u == HandledType
           r == Handled.reason
<1>1. u \in Types /\ loopPhase = "export" /\ loopPhase' # "fatal"
  BY HandledFacts DEF ExportResolved, AgentInv, Done
<1>2. /\ gauge \in [Types -> {0, 1}]
      /\ fatalEntries \in [Types -> Seq(FatalEntry)]
  BY DEF AgentInv, ManagerTypeOK, ExporterInv, ExporterTypeOK
<1>3. gauge' = IF Recovered(u, r) THEN [gauge EXCEPT ![u] = 0] ELSE gauge
  BY DEF ExportResolved
<1>4. fatalEntries' = [fatalEntries EXCEPT ![u] = Remaining(u, r)]
  <2>1. Resolve(u, r)
    BY DEF ExportResolved
  <2>2. CASE HasReason(u, r)
    BY <2>1, <2>2 DEF Resolve
  <2>3. CASE ~HasReason(u, r)
    BY <1>1, <1>2, <2>1, <2>3 DEF Resolve, Remaining, localVars
  <2>4. QED
    BY <2>2, <2>3
<1> HIDE DEF u, r
<1>5. gauge[t] = 1 <=> fatalEntries[t] # <<>>
  BY <1>1 DEF AgentInv, GaugeFollowsEntries
<1>6. gauge[u] = 1 <=> fatalEntries[u] # <<>>
  BY <1>1 DEF AgentInv, GaugeFollowsEntries
<1>7. Remaining(u, r) # <<>> => fatalEntries[u] # <<>>
  <2> SUFFICES ASSUME fatalEntries[u] = <<>> PROVE Remaining(u, r) = <<>>
    OBVIOUS
  <2>1. ~HasReason(u, r)
    BY DEF HasReason, Positions
  <2>2. QED
    BY <2>1 DEF Remaining
<1>8. CASE t = u
  BY <1>1, <1>2, <1>3, <1>4, <1>6, <1>7, <1>8 DEF Recovered
<1>9. CASE t # u
  BY <1>1, <1>2, <1>3, <1>4, <1>5, <1>9
<1>10. QED
  BY <1>8, <1>9

(***************************************************************************)
(* A fatal condition raises the gauge before it waits for the exporter,    *)
(* and entering the exporter leaves an entry that keeps it raised.         *)
(***************************************************************************)
LEMMA SentGauge == AgentInv /\ (ExportSend \/ ExportFatal) => GaugeFollowsEntries'
<1> SUFFICES ASSUME AgentInv, ExportSend \/ ExportFatal, NEW t \in Types
             PROVE  gauge'[t] = 1 <=> \/ fatalEntries'[t] # <<>>
                                      \/ loopPhase' = "fatal" /\ HandledType' = t
  BY DEF GaugeFollowsEntries
<1>1. /\ HandledType \in Types /\ Handled.reason \in Reasons /\ Handled.message \in Texts
  BY HandledFacts DEF ExportSend, ExportFatal, AgentInv
<1>2. /\ gauge \in [Types -> {0, 1}]
      /\ fatalEntries \in [Types -> Seq(FatalEntry)]
      /\ ExporterTypeOK /\ EntriesAreDistinct
  BY DEF AgentInv, ManagerTypeOK, ExporterInv, ExporterTypeOK
<1>3. gauge[t] = 1 <=> \/ fatalEntries[t] # <<>>
                       \/ loopPhase = "fatal" /\ HandledType = t
  BY DEF AgentInv, GaugeFollowsEntries
<1>4. CASE ExportSend
  <2>1. UNCHANGED fatalEntries /\ loopPhase = "export"
    BY <1>4 DEF ExportSend, exporterVars, localVars
  <2>2. CASE Done /\ UNCHANGED gauge
    BY <1>3, <2>1, <2>2 DEF Done
  <2>3. CASE gauge' = [gauge EXCEPT ![HandledType] = 1] /\ loopPhase' = "fatal" /\ UNCHANGED inbox
    <3>1. HandledType' = HandledType
      BY <2>3 DEF HandledType
    <3>2. QED
      BY <1>1, <1>2, <1>3, <2>1, <2>3, <3>1
  <2>4. QED
    BY <1>4, <2>2, <2>3 DEF ExportSend
<1>5. CASE ExportFatal
  <2> DEFINE u == HandledType
             q == Reported(HandledType, Handled.reason, Handled.message)
  <2>1. /\ fatalEntries' = [fatalEntries EXCEPT ![u] = q] /\ loopPhase = "fatal"
        /\ loopPhase' # "fatal" /\ UNCHANGED gauge
    BY <1>5 DEF ExportFatal, Fatal, Done
  <2>2. q # <<>>
    BY <1>1, <1>2, ReportedGood
  <2> HIDE DEF q
  <2>3. QED
    BY <1>1, <1>2, <1>3, <2>1, <2>2
<1>6. QED
  BY <1>4, <1>5

(***************************************************************************)
(* Every other step leaves both the gauge and the entries alone, or, on a  *)
(* restart, clears both.                                                   *)
(***************************************************************************)
LEMMA GaugeStep == AgentInv /\ [AgentNext]_agentVars => GaugeFollowsEntries'
<1> SUFFICES ASSUME AgentInv, [AgentNext]_agentVars PROVE GaugeFollowsEntries'
  OBVIOUS
<1>1. CASE ExportResolved
  BY <1>1, ResolvedGauge
<1>2. CASE ExportSend \/ ExportFatal
  BY <1>2, SentGauge
<1>3. CASE AgentRestart
  BY <1>3 DEF AgentRestart, Restart, NewNodeExporter, GaugeFollowsEntries
<1>4. ASSUME UNCHANGED <<fatalEntries, gauge>>,
             \/ UNCHANGED <<loopPhase, inbox>>
             \/ loopPhase \in {"select", "export"} /\ loopPhase' \in {"select", "export"}
      PROVE  GaugeFollowsEntries'
  BY <1>4 DEF AgentInv, GaugeFollowsEntries, HandledType
<1>5. CASE \/ \E m \in Monitors : \/ \E c \in Catalog[m] : Notify(m, c)
                                 \/ NotifySend(m)
                                 \/ NotifyCancel(m)
           \/ UNCHANGED agentVars
  BY <1>4, <1>5 DEF Notify, NotifySend, NotifyCancel, agentVars, managerVars, exporterVars,
     localVars, loopVars
<1>6. CASE Receive \/ (\E s \in Polls : Poll(s)) \/ ExportDebounced
  BY <1>4, <1>6 DEF Receive, Poll, ExportDebounced, Done, exporterVars, localVars
<1>7. CASE (RunWithTickers \/ Environment) /\ UNCHANGED managerVars
  BY <1>4, <1>7, EntriesKept DEF managerVars, loopVars
<1>8. QED
  BY <1>1, <1>2, <1>3, <1>5, <1>6, <1>7 DEF AgentNext, ManagerStep

\* The agent starts with the invariant.
LEMMA AgentInitInv == AgentInit => AgentInv
<1> SUFFICES ASSUME AgentInit PROVE AgentInv
  OBVIOUS
<1>1. ExporterInv /\ ManagerTypeOK
  BY InitInv, FreshTyped DEF AgentInit
<1>2. \A t \in Types : fatalEntries[t] = <<>>
  BY DEF AgentInit, ExporterInit
<1>3. \A t \in Types : gauge[t] # 1
  <2>1. gauge = [t \in Types |-> 0]
    BY DEF AgentInit
  <2>2. 0 # 1
    OBVIOUS
  <2>3. QED
    BY <2>1, <2>2, Zenon
<1>4. GaugeFollowsEntries
  BY <1>2, <1>3, Zenon DEF GaugeFollowsEntries, AgentInit
<1>5. QED
  BY <1>1, <1>4 DEF AgentInv

\* Every step of the agent keeps the invariant.
LEMMA AgentInvStep == AgentInv /\ [AgentNext]_agentVars => AgentInv'
<1> SUFFICES ASSUME AgentInv, [AgentNext]_agentVars PROVE AgentInv'
  OBVIOUS
<1>1. ExporterInv'
  BY AgentStepIsExporterStep, NextInv DEF AgentInv
<1>2. QED
  BY <1>1, ManagerTypeStep, GaugeStep DEF AgentInv

(***************************************************************************)
(* The inductive invariant of the manager and the exporter together.       *)
(***************************************************************************)
THEOREM AgentInvariant == AgentSpec => []AgentInv
BY AgentInitInv, AgentInvStep, PTL DEF AgentSpec

(***************************************************************************)
(* The gauge of a type is raised exactly while a fatal reason of the type  *)
(* is unresolved or on its way into the exporter (SendCondition and        *)
(* exportCondition), however notifications, polls and reports interleave.  *)
(***************************************************************************)
THEOREM GaugeIsExact == AgentSpec => []GaugeFollowsEntries
<1>1. AgentInv => GaugeFollowsEntries
  BY DEF AgentInv
<1>2. QED
  BY <1>1, AgentInvariant, PTL

(***************************************************************************)
(* The agent implements the exporter's specification: debouncing, queueing *)
(* and waiting for the lock are stuttering steps of it.                    *)
(***************************************************************************)
THEOREM AgentImplementsExporter == AgentSpec => ExporterSpec
<1>1. AgentInit => ExporterInit
  BY DEF AgentInit
<1>2. AgentInv => ManagerTypeOK
  BY DEF AgentInv
<1>3. QED
  BY <1>1, <1>2, AgentInvariant, AgentStepIsExporterStep, PTL DEF AgentSpec, ExporterSpec

(***************************************************************************)
(* What was proved of the exporter therefore holds in the running agent:   *)
(* the local conditions are what the unresolved reasons say, a clean copy  *)
(* is the published one, no reader sees a false recovery, and transition   *)
(* times move with the status only.                                        *)
(***************************************************************************)
THEOREM AgentConditionsFaithful ==
  AgentSpec => /\ []ConditionReflectsEntries /\ []CleanIsPublished
               /\ RecoveryMeansResolved /\ TransitionFollowsStatus
BY AgentImplementsExporter, ConditionsAreFaithful, CleanMeansPublished, NoFalseRecovery,
   TransitionsAreChanges, PTL

(***************************************************************************)
(* The whole agent keeps the promise NodeHealth: whatever monitors notify, *)
(* in which order and how often, and however polls, debounces, reports and *)
(* restarts interleave, readers of the Node see snapshots of the           *)
(* unresolved reasons.                                                     *)
(***************************************************************************)
THEOREM AgentImplementsNodeHealth == AgentSpec => ImplementsNodeHealth
  BY AgentImplementsExporter, ExporterImplementsNodeHealth

-----------------------------------------------------------------------------
(* Verdicts *)

\* Where a notification comes from: a call of Notify, or a poll.
Listed(e) == e.condition \in Catalog[e.monitor]
Polled(e) == \E s \in Polls : \E j \in DOMAIN s : e = s[j]

SourcesKnown ==
  /\ \A n \in Monitors : notifying[n] # Absent => notifying[n] \in Catalog[n]
  /\ \A i \in DOMAIN notifyChan : Listed(notifyChan[i])
  /\ \/ Len(inbox) <= 1 /\ \A i \in DOMAIN inbox : Listed(inbox[i])
     \/ \A i \in DOMAIN inbox : Polled(inbox[i])
  /\ loopPhase = "fatal" => Handled.severity = "Fatal" /\ ~Resolution(Handled)

\* The occurrences of reason r since its last resolution, after condition d.
Tally(p, d, r) ==
  IF d.reason = r /\ d.severity = "Fatal" THEN IF d.resolved THEN 0 ELSE p + 1 ELSE p

\* The exporter's verdict after p occurrences: the reason is held if they were
\* more than the minimum, and if not they are what the debounce has counted.
Decided(m, c, p) ==
  IF c.reason \in Unresolved(TypeOf[m])
  THEN p > c.min
  ELSE p <= c.min /\ (c.min > 0 => conditionCountMap[c.reason] = p)

\* p occurrences once the loop has worked off what it took.
Worked(m, c, p) ==
  \/ loopPhase = "select" /\ Decided(m, c, p)
  \/ loopPhase = "export" /\ \E q \in Nat : Decided(m, c, q) /\ p = Tally(q, Handled, c.reason)
  \/ loopPhase = "fatal" /\ IF Handled.reason = c.reason THEN p > c.min ELSE Decided(m, c, p)

(***************************************************************************)
(* Between the verdict and what was heard lies what is queued: k counts    *)
(* the occurrences up to each position of the channel.                     *)
(***************************************************************************)
Trace(c, k, q) ==
  \A i \in 1..Len(q) : k[i] = Tally(k[i - 1], q[i].condition, c.reason)
Traced(m, c) ==
  \E k \in [0..Len(notifyChan) -> Nat] :
    /\ Worked(m, c, k[0])
    /\ Trace(c, k, notifyChan)
    /\ k[Len(notifyChan)] = heard[c.reason]

VerdictInv ==
  /\ AgentInv
  /\ SourcesKnown
  /\ \A m \in Monitors : \A c \in FatalConditions(m) : Traced(m, c)

\* The three things a condition does to the tally of a reason.
LEMMA TallyFacts ==
  ASSUME NEW p \in Nat, NEW d, NEW r
  PROVE  /\ Tally(p, d, r) \in Nat
         /\ d.reason # r \/ d.severity # "Fatal" => Tally(p, d, r) = p
         /\ d.reason = r /\ Resolution(d) => Tally(p, d, r) = 0
         /\ d.reason = r /\ d.severity = "Fatal" /\ ~Resolution(d) => Tally(p, d, r) = p + 1
<1>1. p + 1 \in Nat /\ 0 \in Nat
  OBVIOUS
<1>2. QED
  BY <1>1, Zenon DEF Tally, Resolution

\* What Notify records of a reason is its tally.
LEMMA HeardIsTallied ==
  ASSUME NEW h \in [Reasons -> Nat], NEW d \in MonitorCondition, NEW r \in Reasons
  PROVE  Hear(h, d)[r] = Tally(h[r], d, r)
<1>1. d.reason \in Reasons
  BY DEF MonitorCondition
<1>2. CASE d.severity # "Fatal"
  BY <1>2, Zenon DEF Hear, Tally
<1>3. CASE d.severity = "Fatal" /\ d.reason # r
  <2>1. Hear(h, d) = [h EXCEPT ![d.reason] = IF d.resolved THEN 0 ELSE @ + 1]
    BY <1>3, Zenon DEF Hear
  <2>2. Hear(h, d)[r] = h[r]
    BY <1>3, <2>1, Zenon
  <2>3. QED
    BY <1>3, <2>2, Zenon DEF Tally
<1>4. CASE d.severity = "Fatal" /\ d.reason = r
  <2>1. Hear(h, d) = [h EXCEPT ![d.reason] = IF d.resolved THEN 0 ELSE @ + 1]
    BY <1>4, Zenon DEF Hear
  <2>2. Hear(h, d)[r] = IF d.resolved THEN 0 ELSE h[r] + 1
    BY <1>4, <2>1, Zenon
  <2>3. QED
    BY <1>4, <2>2, Zenon DEF Tally
<1>5. QED
  BY <1>2, <1>3, <1>4, Zenon

(***************************************************************************)
(* What the loop handles under the reason of a fatal condition is another  *)
(* of its occurrences, its resolution, or a warning that does not count.   *)
(***************************************************************************)
LEMMA HandledAgrees ==
  ASSUME ManagerTypeOK, SourcesKnown, loopPhase # "select",
         NEW m \in Monitors, NEW c \in FatalConditions(m), Handled.reason = c.reason
  PROVE  \/ /\ Handled.severity = "Fatal" /\ HandledType = TypeOf[m]
            /\ Resolution(Handled) \/ Handled.min = c.min
         \/ Handled.severity # "Fatal" /\ c.min = 0
<1>1. inbox \in Seq(Notification) /\ inbox # <<>>
  BY DEF ManagerTypeOK
<1>2. 1 \in DOMAIN inbox /\ Head(inbox) = inbox[1] /\ inbox[1] \in Notification
  BY <1>1
<1>3. inbox[1].monitor \in Monitors
  BY <1>2 DEF Notification
<1>4. CASE Listed(inbox[1])
  <2>1. Handled \in Catalog[inbox[1].monitor] /\ HandledType = TypeOf[inbox[1].monitor]
    BY <1>2, <1>4, Zenon DEF Handled, HandledType, Listed
  <2> DEFINE d == Handled
             n == inbox[1].monitor
  <2> HIDE DEF d, n
  <2>2. \/ d.severity = "Fatal" /\ TypeOf[n] = TypeOf[m] /\ (d.resolved \/ d.min = c.min)
        \/ d.severity # "Fatal" /\ c.min = 0
    <3>1. d \in Catalog[n] /\ n \in Monitors /\ d.reason = c.reason
      BY <1>3, <2>1, Zenon DEF d, n
    <3>2. QED
      BY <3>1, CatalogAssumption, Zenon
  <2>3. QED
    BY <2>1, <2>2, Zenon DEF d, n, Resolution
<1>5. CASE Polled(inbox[1])
  <2>1. PICK s \in Polls : \E j \in DOMAIN s : inbox[1] = s[j]
    BY <1>5, Zenon DEF Polled
  <2>2. PICK j \in DOMAIN s : inbox[1] = s[j]
    BY <2>1
  <2>3. Handled = s[j].condition
    BY <1>2, <2>2, Zenon DEF Handled
  <2>4. s[j].condition.reason = c.reason => s[j].condition.severity # "Fatal" /\ c.min = 0
    BY CatalogAssumption, Zenon
  <2>5. QED
    BY <2>3, <2>4, Zenon
<1>6. QED
  BY <1>2, <1>4, <1>5, Zenon DEF SourcesKnown

(***************************************************************************)
(* The loop moves on within a poll only, whose conditions do not count.    *)
(***************************************************************************)
LEMMA DoneDecided ==
  ASSUME ManagerTypeOK, SourcesKnown, loopPhase # "select", Done,
         NEW m \in Monitors, NEW c \in FatalConditions(m), NEW p \in Nat,
         Decided(m, c, p)'
  PROVE  Worked(m, c, p)'
<1>1. inbox \in Seq(Notification) /\ inbox # <<>>
  BY DEF ManagerTypeOK
<1>2. CASE Tail(inbox) = <<>>
  BY <1>2 DEF Done, Worked
<1>3. CASE Tail(inbox) # <<>>
  <2>1. 2 \in DOMAIN inbox /\ Head(Tail(inbox)) = inbox[2] /\ ~(Len(inbox) <= 1)
    BY <1>1, <1>3
  <2>2. Polled(inbox[2])
    BY <2>1 DEF SourcesKnown
  <2>3. PICK s \in Polls : \E j \in DOMAIN s : inbox[2] = s[j]
    BY <2>2, Zenon DEF Polled
  <2>4. PICK j \in DOMAIN s : inbox[2] = s[j]
    BY <2>3
  <2>5. Handled' = s[j].condition
    BY <2>1, <2>4 DEF Handled, Done
  <2>6. s[j].condition.reason = c.reason => s[j].condition.severity # "Fatal"
    BY CatalogAssumption, Zenon
  <2>7. p = Tally(p, Handled', c.reason)
    BY <2>5, <2>6, TallyFacts, Zenon
  <2>8. loopPhase' = "export"
    BY <1>3 DEF Done
  <2>9. QED
    BY <2>7, <2>8, Zenon DEF Worked
<1>4. QED
  BY <1>2, <1>3

(***************************************************************************)
(* Fatal adds its reason to the unresolved ones of its type, Resolve takes *)
(* its reason away.                                                        *)
(***************************************************************************)
LEMMA UnresolvedAfter ==
  ASSUME ExporterInv, NEW t \in Types, NEW r \in Reasons, NEW u \in Types
  PROVE  /\ \A msg \in Texts : Fatal(t, r, msg) =>
              Unresolved(u)' = IF u = t THEN Unresolved(u) \cup {r} ELSE Unresolved(u)
         /\ Resolve(t, r) =>
              Unresolved(u)' = IF u = t THEN Unresolved(u) \ {r} ELSE Unresolved(u)
<1>0. ExporterTypeOK /\ EntriesAreDistinct /\ fatalEntries \in [Types -> Seq(FatalEntry)]
  BY DEF ExporterInv, ExporterTypeOK
<1>1. Unresolved(u) = ReasonsOf(fatalEntries[u]) /\ Unresolved(u)' = ReasonsOf(fatalEntries'[u])
  BY DEF Unresolved, ReasonsOf
<1>2. ASSUME NEW msg \in Texts, Fatal(t, r, msg)
      PROVE  Unresolved(u)' = IF u = t THEN Unresolved(u) \cup {r} ELSE Unresolved(u)
  <2>1. ReasonsOf(Reported(t, r, msg)) = ReasonsOf(fatalEntries[t]) \cup {r}
    BY <1>0, ReportedGood
  <2>2. fatalEntries' = [fatalEntries EXCEPT ![t] = Reported(t, r, msg)]
    BY <1>2 DEF Fatal
  <2>3. QED
    BY <1>0, <1>1, <2>1, <2>2
<1>3. ASSUME Resolve(t, r)
      PROVE  Unresolved(u)' = IF u = t THEN Unresolved(u) \ {r} ELSE Unresolved(u)
  <2>1. CASE HasReason(t, r)
    <3>1. fatalEntries' = [fatalEntries EXCEPT ![t] = Remaining(t, r)]
      BY <1>3, <2>1 DEF Resolve
    <3>2. ReasonsOf(Remaining(t, r)) = ReasonsOf(fatalEntries[t]) \ {r}
      BY <1>0, <2>1, RemainingGood
    <3>3. QED
      BY <1>0, <1>1, <3>1, <3>2
  <2>2. CASE ~HasReason(t, r)
    <3>1. fatalEntries' = fatalEntries
      BY <1>3, <2>2 DEF Resolve, localVars
    <3>2. r \notin ReasonsOf(fatalEntries[t])
      BY <2>2 DEF HasReason, Positions, ReasonsOf
    <3>3. QED
      BY <1>1, <3>1, <3>2
  <2>3. QED
    BY <2>1, <2>2
<1>4. QED
  BY <1>2, <1>3

\* A fatal condition is a condition of its monitor's type and of a minimum.
LEMMA FatalConditionTyped ==
  ASSUME NEW m \in Monitors, NEW c \in FatalConditions(m)
  PROVE  /\ c \in MonitorCondition /\ c.reason \in Reasons /\ c.min \in Nat
         /\ TypeOf[m] \in Types
<1>1. c \in MonitorCondition /\ TypeOf[m] \in Types
  BY ManagerAssumption DEF FatalConditions
<1>2. QED
  BY <1>1 DEF MonitorCondition

(***************************************************************************)
(* exportCondition on a resolution: no occurrence, no entry, no count.     *)
(***************************************************************************)
LEMMA ResolutionDecides ==
  ASSUME AgentInv, SourcesKnown, ExportResolved,
         NEW m \in Monitors, NEW c \in FatalConditions(m), NEW p \in Nat, Worked(m, c, p)
  PROVE  Worked(m, c, p)'
<1>1. /\ loopPhase = "export" /\ Resolution(Handled) /\ Resolve(HandledType, Handled.reason) /\ Done
      /\ conditionCountMap' = [conditionCountMap EXCEPT ![Handled.reason] = 0]
  BY DEF ExportResolved
<1>2. ManagerTypeOK /\ ExporterInv /\ conditionCountMap \in [Reasons -> Nat]
  BY DEF AgentInv, ManagerTypeOK
<1>3. Handled.reason \in Reasons /\ HandledType \in Types
  BY <1>1, <1>2, HandledFacts
<1>4. PICK q \in Nat : Decided(m, c, q) /\ p = Tally(q, Handled, c.reason)
  BY <1>1 DEF Worked
<1>5. c.reason \in Reasons /\ c.min \in Nat /\ TypeOf[m] \in Types
  BY FatalConditionTyped
<1>6. Unresolved(TypeOf[m])' =
        IF TypeOf[m] = HandledType THEN Unresolved(TypeOf[m]) \ {Handled.reason}
        ELSE Unresolved(TypeOf[m])
  BY <1>1, <1>2, <1>3, <1>5, UnresolvedAfter
<1>7. CASE Handled.reason = c.reason
  <2>1. Handled.severity = "Fatal"
    BY <1>1, Zenon DEF Resolution
  <2>2. HandledType = TypeOf[m]
    BY <1>1, <1>2, <1>7, <2>1, HandledAgrees
  <2>3. p = 0
    BY <1>1, <1>4, <1>7, TallyFacts
  <2>4. Decided(m, c, p)'
    BY <1>1, <1>2, <1>3, <1>5, <1>6, <1>7, <2>2, <2>3 DEF Decided
  <2>5. QED
    BY <1>1, <1>2, <2>4, DoneDecided
<1>8. CASE Handled.reason # c.reason
  <2>1. p = q
    BY <1>4, <1>8, TallyFacts
  <2>2. Decided(m, c, p)'
    BY <1>1, <1>2, <1>3, <1>4, <1>5, <1>6, <1>8, <2>1 DEF Decided
  <2>3. QED
    BY <1>1, <1>2, <2>2, DoneDecided
<1>9. QED
  BY <1>7, <1>8

(***************************************************************************)
(* exportCondition below the minimum: one occurrence more, counted.        *)
(***************************************************************************)
LEMMA DebounceDecides ==
  ASSUME AgentInv, SourcesKnown, ExportDebounced,
         NEW m \in Monitors, NEW c \in FatalConditions(m), NEW p \in Nat, Worked(m, c, p)
  PROVE  Worked(m, c, p)'
<1>1. /\ loopPhase = "export" /\ ~Resolution(Handled) /\ Done /\ BelowMinimum(Handled)
      /\ conditionCountMap' = [conditionCountMap EXCEPT ![Handled.reason] = @ + 1]
      /\ UNCHANGED fatalEntries
  BY DEF ExportDebounced, exporterVars, localVars
<1>2. ManagerTypeOK /\ conditionCountMap \in [Reasons -> Nat]
  BY DEF AgentInv, ManagerTypeOK
<1>3. Handled.reason \in Reasons /\ Handled \in MonitorCondition
  BY <1>1, <1>2, HandledFacts
<1>4. PICK q \in Nat : Decided(m, c, q) /\ p = Tally(q, Handled, c.reason)
  BY <1>1 DEF Worked
<1>5. c.reason \in Reasons /\ c.min \in Nat /\ Handled.min \in Nat
  BY <1>3, FatalConditionTyped DEF MonitorCondition
<1>6. Unresolved(TypeOf[m])' = Unresolved(TypeOf[m])
  BY <1>1 DEF Unresolved
<1>7. CASE Handled.reason = c.reason /\ Handled.severity = "Fatal"
  <2>1. Handled.min = c.min
    BY <1>1, <1>2, <1>7, HandledAgrees
  <2>2. p = q + 1
    BY <1>1, <1>4, <1>7, TallyFacts
  <2>3. conditionCountMap[c.reason] < c.min
    BY <1>1, <1>7, <2>1 DEF BelowMinimum
  <2>4. Decided(m, c, p)'
    BY <1>1, <1>2, <1>4, <1>5, <1>6, <1>7, <2>2, <2>3 DEF Decided
  <2>5. QED
    BY <1>1, <1>2, <2>4, DoneDecided
<1>8. CASE Handled.reason # c.reason \/ Handled.severity # "Fatal"
  <2>1. p = q
    BY <1>4, <1>8, TallyFacts
  <2>2. Handled.reason = c.reason => c.min = 0
    BY <1>1, <1>2, <1>8, HandledAgrees
  <2>3. Decided(m, c, p)'
    BY <1>1, <1>2, <1>3, <1>4, <1>5, <1>6, <2>1, <2>2 DEF Decided
  <2>4. QED
    BY <1>1, <1>2, <2>3, DoneDecided
<1>9. QED
  BY <1>7, <1>8

(***************************************************************************)
(* exportCondition at the minimum: the occurrence that meets it is on its  *)
(* way into the exporter, a warning is an event and nothing more.          *)
(***************************************************************************)
LEMMA SendDecides ==
  ASSUME AgentInv, SourcesKnown, ExportSend,
         NEW m \in Monitors, NEW c \in FatalConditions(m), NEW p \in Nat, Worked(m, c, p)
  PROVE  Worked(m, c, p)'
<1>1. /\ loopPhase = "export" /\ ~Resolution(Handled) /\ ~BelowMinimum(Handled)
      /\ conditionCountMap' = [conditionCountMap EXCEPT ![Handled.reason] = 0]
      /\ UNCHANGED fatalEntries
  BY DEF ExportSend, exporterVars, localVars
<1>2. ManagerTypeOK /\ conditionCountMap \in [Reasons -> Nat]
  BY DEF AgentInv, ManagerTypeOK
<1>3. Handled.reason \in Reasons /\ Handled \in MonitorCondition
  BY <1>1, <1>2, HandledFacts
<1>4. PICK q \in Nat : Decided(m, c, q) /\ p = Tally(q, Handled, c.reason)
  BY <1>1 DEF Worked
<1>5. c.reason \in Reasons /\ c.min \in Nat /\ Handled.min \in Nat
  BY <1>3, FatalConditionTyped DEF MonitorCondition
<1>6. Unresolved(TypeOf[m])' = Unresolved(TypeOf[m])
  BY <1>1 DEF Unresolved
<1>7. CASE Handled.severity # "Fatal" /\ Done
  <2>1. p = q
    BY <1>4, <1>7, TallyFacts
  <2>2. Handled.reason = c.reason => c.min = 0
    BY <1>1, <1>2, <1>7, HandledAgrees
  <2>3. Decided(m, c, p)'
    BY <1>1, <1>2, <1>3, <1>4, <1>5, <1>6, <2>1, <2>2 DEF Decided
  <2>4. QED
    BY <1>1, <1>2, <1>7, <2>3, DoneDecided
<1>8. CASE Handled.severity = "Fatal" /\ loopPhase' = "fatal" /\ UNCHANGED inbox
  <2>1. Handled' = Handled
    BY <1>8 DEF Handled
  <2>2. CASE Handled.reason = c.reason
    <3>1. Handled.min = c.min
      BY <1>1, <1>2, <1>8, <2>2, HandledAgrees
    <3>2. p = q + 1
      BY <1>1, <1>4, <1>8, <2>2, TallyFacts
    <3>3. ~(conditionCountMap[c.reason] < c.min)
      BY <1>1, <2>2, <3>1 DEF BelowMinimum
    <3>4. p > c.min
      BY <1>2, <1>4, <1>5, <3>2, <3>3 DEF Decided
    <3>5. QED
      BY <1>8, <2>1, <2>2, <3>4 DEF Worked
  <2>3. CASE Handled.reason # c.reason
    <3>1. p = q
      BY <1>4, <2>3, TallyFacts
    <3>2. Decided(m, c, p)'
      BY <1>1, <1>2, <1>3, <1>4, <1>5, <1>6, <2>3, <3>1 DEF Decided
    <3>3. QED
      BY <1>8, <2>1, <2>3, <3>2 DEF Worked
  <2>4. QED
    BY <2>2, <2>3
<1>9. QED
  BY <1>7, <1>8 DEF ExportSend

(***************************************************************************)
(* exporter.Fatal: the verdict is entered under the type of its monitor.   *)
(***************************************************************************)
LEMMA FatalDecides ==
  ASSUME AgentInv, SourcesKnown, ExportFatal,
         NEW m \in Monitors, NEW c \in FatalConditions(m), NEW p \in Nat, Worked(m, c, p)
  PROVE  Worked(m, c, p)'
<1>1. /\ loopPhase = "fatal" /\ Fatal(HandledType, Handled.reason, Handled.message) /\ Done
      /\ UNCHANGED conditionCountMap
  BY DEF ExportFatal
<1>2. ManagerTypeOK /\ ExporterInv
  BY DEF AgentInv
<1>3. Handled.reason \in Reasons /\ HandledType \in Types /\ Handled.message \in Texts
  BY <1>1, <1>2, HandledFacts
<1>4. IF Handled.reason = c.reason THEN p > c.min ELSE Decided(m, c, p)
  BY <1>1 DEF Worked
<1>5. c.reason \in Reasons /\ c.min \in Nat /\ TypeOf[m] \in Types
  BY FatalConditionTyped
<1>6. Unresolved(TypeOf[m])' =
        IF TypeOf[m] = HandledType THEN Unresolved(TypeOf[m]) \cup {Handled.reason}
        ELSE Unresolved(TypeOf[m])
  BY <1>1, <1>2, <1>3, <1>5, UnresolvedAfter
<1>7. Handled.reason = c.reason => HandledType = TypeOf[m]
  <2>1. Handled.severity = "Fatal"
    BY <1>1 DEF SourcesKnown
  <2>2. QED
    BY <1>1, <1>2, <2>1, HandledAgrees
<1>8. Decided(m, c, p)'
  BY <1>1, <1>4, <1>6, <1>7 DEF Decided
<1>9. QED
  BY <1>1, <1>2, <1>8, DoneDecided

(***************************************************************************)
(* A step that leaves the loop, the counts and the entries alone.          *)
(***************************************************************************)
LEMMA WorkedKept ==
  ASSUME UNCHANGED <<loopPhase, inbox, conditionCountMap, fatalEntries>>,
         NEW m \in Monitors, NEW c \in FatalConditions(m), NEW p \in Nat, Worked(m, c, p)
  PROVE  Worked(m, c, p)'
<1>1. UNCHANGED <<Handled, Unresolved(TypeOf[m])>>
  BY DEF Handled, Unresolved
<1>2. \A q \in Nat : Decided(m, c, q)' = Decided(m, c, q)
  BY <1>1 DEF Decided
<1>3. QED
  BY <1>1, <1>2 DEF Worked

\* A step that leaves the channel and what was heard alone.
LEMMA TraceKept ==
  ASSUME UNCHANGED <<notifyChan, heard>>, ManagerTypeOK,
         NEW m \in Monitors, NEW c \in FatalConditions(m), Traced(m, c),
         \A p \in Nat : Worked(m, c, p) => Worked(m, c, p)'
  PROVE  Traced(m, c)'
<1>1. PICK k \in [0..Len(notifyChan) -> Nat] :
        /\ Worked(m, c, k[0]) /\ Trace(c, k, notifyChan)
        /\ k[Len(notifyChan)] = heard[c.reason]
  BY DEF Traced
<1>2. k[0] \in Nat
  BY <1>1, LenProperties DEF ManagerTypeOK
<1>3. Worked(m, c, k[0])'
  BY <1>1, <1>2
<1>4. QED
  BY <1>1, <1>3 DEF Traced, Trace

(***************************************************************************)
(* Notify appends a condition, and one more count to the trace.            *)
(***************************************************************************)
LEMMA SendTraced ==
  ASSUME AgentInv, NEW n \in Monitors, NotifySend(n),
         NEW m \in Monitors, NEW c \in FatalConditions(m), Traced(m, c)
  PROVE  Traced(m, c)'
<1> DEFINE e == [monitor |-> n, condition |-> notifying[n]]
<1>1. /\ notifyChan' = Append(notifyChan, e) /\ heard' = Hear(heard, e.condition)
      /\ notifying[n] # Absent
      /\ UNCHANGED <<loopPhase, inbox, conditionCountMap, fatalEntries>>
  BY DEF NotifySend, loopVars, exporterVars, localVars
<1>2. notifyChan \in Seq(Notification) /\ heard \in [Reasons -> Nat]
  BY DEF AgentInv, ManagerTypeOK
<1>3. e \in Notification /\ e.condition \in MonitorCondition
  BY <1>1 DEF AgentInv, ManagerTypeOK, Notification
<1> DEFINE L == Len(notifyChan)
           q == notifyChan'
           x == Tally(heard[c.reason], e.condition, c.reason)
<1>4. c.reason \in Reasons
  BY FatalConditionTyped
<1>5. x \in Nat /\ heard'[c.reason] = x
  <2>1. heard[c.reason] \in Nat
    BY <1>2, <1>4
  <2>2. QED
    BY <1>1, <1>2, <1>3, <1>4, <2>1, HeardIsTallied, TallyFacts, Zenon
<1> HIDE DEF e, x
<1>6. /\ L \in Nat /\ Len(q) = L + 1 /\ q[L + 1] = e
      /\ \A i \in 1..L : q[i] = notifyChan[i]
  BY <1>1, <1>2, <1>3
<1>7. PICK k \in [0..L -> Nat] :
        /\ Worked(m, c, k[0]) /\ Trace(c, k, notifyChan) /\ k[L] = heard[c.reason]
  BY DEF Traced
<1> HIDE DEF L, q
<1>8. PICK k2 \in [0..(L + 1) -> Nat] : k2[L + 1] = x /\ \A i \in 0..L : k2[i] = k[i]
  <2> DEFINE f == [i \in 0..(L + 1) |-> IF i = L + 1 THEN x ELSE k[i]]
  <2>1. f \in [0..(L + 1) -> Nat] /\ f[L + 1] = x /\ \A i \in 0..L : f[i] = k[i]
    BY <1>5, <1>6, <1>7
  <2> HIDE DEF f
  <2>2. QED
    BY <2>1
<1>9. Trace(c, k2, q)
  <2> SUFFICES ASSUME NEW i \in 1..(L + 1)
               PROVE  k2[i] = Tally(k2[i - 1], q[i].condition, c.reason)
    BY <1>6 DEF Trace
  <2>1. CASE i = L + 1
    <3>1. k2[i - 1] = heard[c.reason] /\ k2[i] = x /\ q[i] = e
      BY <1>6, <1>7, <1>8, <2>1
    <3>2. QED
      BY <3>1 DEF x
  <2>2. CASE i # L + 1
    <3>1. i \in 1..L /\ i - 1 \in 0..L /\ i \in 0..L
      BY <1>6, <2>2
    <3>2. k[i] = Tally(k[i - 1], notifyChan[i].condition, c.reason)
      BY <1>7, <3>1 DEF Trace, L
    <3>3. QED
      BY <1>6, <1>8, <3>1, <3>2
  <2>3. QED
    BY <2>1, <2>2
<1>10. k2[0] = k[0] /\ k[0] \in Nat
  BY <1>6, <1>7, <1>8
<1>11. Worked(m, c, k2[0])'
  <2>1. Worked(m, c, k[0])'
    BY <1>1, <1>7, <1>10, WorkedKept
  <2>2. QED
    BY <1>10, <2>1
<1>12. k2 \in [0..Len(notifyChan') -> Nat] /\ k2[Len(notifyChan')] = heard'[c.reason]
  BY <1>5, <1>6, <1>8 DEF q
<1>13. QED
  BY <1>9, <1>11, <1>12 DEF Traced, Trace, q

(***************************************************************************)
(* The loop takes a condition off the channel, and the trace moves up.     *)
(***************************************************************************)
LEMMA ReceiveTraced ==
  ASSUME AgentInv, Receive, NEW m \in Monitors, NEW c \in FatalConditions(m), Traced(m, c)
  PROVE  Traced(m, c)'
<1>1. /\ loopPhase = "select" /\ loopPhase' = "export" /\ notifyChan # <<>>
      /\ inbox' = <<Head(notifyChan)>> /\ notifyChan' = Tail(notifyChan)
      /\ UNCHANGED <<conditionCountMap, fatalEntries, heard>>
  BY DEF Receive, exporterVars, localVars
<1>2. notifyChan \in Seq(Notification)
  BY DEF AgentInv, ManagerTypeOK
<1> DEFINE L == Len(notifyChan)
           q == notifyChan'
<1>3. /\ L \in Nat \ {0} /\ Len(q) = L - 1 /\ Handled' = notifyChan[1].condition
      /\ \A i \in 1..(L - 1) : q[i] = notifyChan[i + 1]
  BY <1>1, <1>2 DEF Handled
<1>4. PICK k \in [0..L -> Nat] :
        /\ Worked(m, c, k[0]) /\ Trace(c, k, notifyChan) /\ k[L] = heard[c.reason]
  BY DEF Traced
<1>5. \A i \in 1..L : k[i] = Tally(k[i - 1], notifyChan[i].condition, c.reason)
  BY <1>4 DEF Trace
<1> HIDE DEF L, q
<1>6. PICK k2 \in [0..(L - 1) -> Nat] : \A i \in 0..(L - 1) : k2[i] = k[i + 1]
  <2> DEFINE f == [i \in 0..(L - 1) |-> k[i + 1]]
  <2>1. f \in [0..(L - 1) -> Nat] /\ \A i \in 0..(L - 1) : f[i] = k[i + 1]
    BY <1>3, <1>4
  <2> HIDE DEF f
  <2>2. QED
    BY <2>1
<1>7. Trace(c, k2, q)
  <2> SUFFICES ASSUME NEW i \in 1..(L - 1)
               PROVE  k2[i] = Tally(k2[i - 1], q[i].condition, c.reason)
    BY <1>3 DEF Trace
  <2>1. k2[i] = k[i + 1] /\ k2[i - 1] = k[i] /\ q[i] = notifyChan[i + 1]
    BY <1>3, <1>6
  <2>2. k[i + 1] = Tally(k[i], notifyChan[i + 1].condition, c.reason)
    <3>1. i + 1 \in 1..L /\ (i + 1) - 1 = i
      <4>1. L \in Nat /\ i \in Nat /\ 1 <= i /\ i <= L - 1
        BY <1>3
      <4>2. QED
        BY <4>1
    <3>2. QED
      BY <1>5, <3>1
  <2>3. QED
    BY <2>1, <2>2
<1>8. Worked(m, c, k2[0])'
  <2>1. k2[0] = k[1] /\ k[0] \in Nat
    BY <1>3, <1>4, <1>6
  <2>2. k[1] = Tally(k[0], notifyChan[1].condition, c.reason)
    <3>1. 1 \in 1..L /\ 1 - 1 = 0
      BY <1>3
    <3>2. QED
      BY <1>5, <3>1
  <2>3. Decided(m, c, k[0])'
    <3>1. Decided(m, c, k[0]) /\ UNCHANGED Unresolved(TypeOf[m])
      BY <1>1, <1>4 DEF Worked, Unresolved
    <3>2. QED
      BY <1>1, <3>1 DEF Decided
  <2>4. QED
    BY <1>1, <1>3, <2>1, <2>2, <2>3 DEF Worked
<1>9. k2 \in [0..Len(notifyChan') -> Nat] /\ k2[Len(notifyChan')] = heard'[c.reason]
  <2>1. k2[L - 1] = k[L]
    BY <1>3, <1>6
  <2>2. QED
    BY <1>1, <1>3, <1>4, <1>6, <2>1 DEF q
<1>10. QED
  BY <1>7, <1>8, <1>9 DEF Traced, Trace, q

(***************************************************************************)
(* A poll overtakes the channel with conditions that do not count.         *)
(***************************************************************************)
LEMMA PollWorked ==
  ASSUME ManagerTypeOK, NEW s \in Polls, Poll(s),
         NEW m \in Monitors, NEW c \in FatalConditions(m), NEW p \in Nat, Worked(m, c, p)
  PROVE  Worked(m, c, p)'
<1>1. /\ loopPhase = "select" /\ loopPhase' = "export" /\ s # <<>> /\ inbox' = s
      /\ UNCHANGED <<conditionCountMap, fatalEntries>>
  BY DEF Poll, exporterVars, localVars
<1>2. 1 \in DOMAIN s /\ Handled' = s[1].condition
  <2>1. s \in Seq(Notification)
    BY ManagerAssumption
  <2>2. QED
    BY <1>1, <2>1 DEF Handled
<1>3. s[1].condition.reason = c.reason => s[1].condition.severity # "Fatal"
  BY <1>2, CatalogAssumption, Zenon
<1>4. p = Tally(p, Handled', c.reason)
  BY <1>2, <1>3, TallyFacts, Zenon
<1>5. Decided(m, c, p)'
  <2>1. Decided(m, c, p) /\ UNCHANGED Unresolved(TypeOf[m])
    BY <1>1 DEF Worked, Unresolved
  <2>2. QED
    BY <1>1, <2>1 DEF Decided
<1>6. QED
  BY <1>1, <1>4, <1>5, Zenon DEF Worked

(***************************************************************************)
(* Conditions come from the monitors' catalogs or from a poll, and only a  *)
(* fatal problem waits for exporter.Fatal.                                 *)
(***************************************************************************)
LEMMA SourcesStep ==
  ASSUME AgentInv, SourcesKnown, [AgentNext]_agentVars
  PROVE  SourcesKnown'
<1> USE DEF Listed, Polled
<1>0. /\ ManagerTypeOK /\ notifyChan \in Seq(Notification) /\ inbox \in Seq(Notification)
      /\ notifying \in [Monitors -> MonitorCondition \cup {Absent}]
      /\ (loopPhase = "select") <=> (inbox = <<>>)
  BY DEF AgentInv, ManagerTypeOK
<1> DEFINE Kept == UNCHANGED <<loopPhase, inbox>>
<1>1. ASSUME Kept
      PROVE  /\ \/ Len(inbox') <= 1 /\ \A i \in DOMAIN inbox' : Listed(inbox'[i])
                \/ \A i \in DOMAIN inbox' : Polled(inbox'[i])
             /\ loopPhase' = "fatal" => Handled'.severity = "Fatal" /\ ~Resolution(Handled')
  BY <1>1 DEF SourcesKnown, Handled, Resolution
<1>2. ASSUME Done, loopPhase # "select"
      PROVE  /\ \/ Len(inbox') <= 1 /\ \A i \in DOMAIN inbox' : Listed(inbox'[i])
                \/ \A i \in DOMAIN inbox' : Polled(inbox'[i])
             /\ loopPhase' # "fatal"
  <2>1. inbox' = Tail(inbox) /\ loopPhase' # "fatal" /\ inbox # <<>>
    BY <1>0, <1>2 DEF Done
  <2>2. \A i \in DOMAIN inbox' : i + 1 \in DOMAIN inbox /\ inbox'[i] = inbox[i + 1]
    BY <1>0, <2>1
  <2>3. Len(inbox) <= 1 => Len(inbox') <= 1
    BY <1>0, <2>1
  <2>4. QED
    BY <2>1, <2>2, <2>3 DEF SourcesKnown
<1>3. ASSUME NEW n \in Monitors, NEW c \in Catalog[n], Notify(n, c) PROVE SourcesKnown'
  <2>1. Kept /\ UNCHANGED notifyChan /\ notifying' = [notifying EXCEPT ![n] = c]
    BY <1>3 DEF Notify, loopVars
  <2>2. QED
    BY <1>0, <1>1, <2>1 DEF SourcesKnown
<1>4. ASSUME NEW n \in Monitors, NotifySend(n) PROVE SourcesKnown'
  <2> DEFINE e == [monitor |-> n, condition |-> notifying[n]]
  <2>1. /\ Kept /\ notifyChan' = Append(notifyChan, e) /\ notifying[n] # Absent
        /\ notifying' = [notifying EXCEPT ![n] = Absent]
    BY <1>4 DEF NotifySend, loopVars
  <2>2. e \in Notification /\ Listed(e)
    BY <1>0, <2>1 DEF SourcesKnown, Notification
  <2>3. \A i \in DOMAIN notifyChan' : notifyChan'[i] = e \/
          (i \in DOMAIN notifyChan /\ notifyChan'[i] = notifyChan[i])
    <3> HIDE DEF e
    <3>1. QED
      BY <1>0, <2>1, <2>2
  <2> HIDE DEF e
  <2>4. \A i \in DOMAIN notifyChan' : Listed(notifyChan'[i])
    BY <2>2, <2>3 DEF SourcesKnown
  <2>5. \A o \in Monitors : notifying'[o] # Absent => notifying'[o] \in Catalog[o]
    BY <1>0, <2>1 DEF SourcesKnown
  <2>6. QED
    BY <1>1, <2>1, <2>4, <2>5 DEF SourcesKnown
<1>5. ASSUME NEW n \in Monitors, NotifyCancel(n) PROVE SourcesKnown'
  <2>1. Kept /\ UNCHANGED notifyChan /\ notifying' = [notifying EXCEPT ![n] = Absent]
    BY <1>5 DEF NotifyCancel, loopVars
  <2>2. QED
    BY <1>0, <1>1, <2>1 DEF SourcesKnown
<1>6. CASE Receive
  <2>1. /\ notifyChan # <<>> /\ inbox' = <<Head(notifyChan)>> /\ notifyChan' = Tail(notifyChan)
        /\ loopPhase' = "export" /\ UNCHANGED notifying
    BY <1>6 DEF Receive
  <2>2. /\ Head(notifyChan) = notifyChan[1] /\ 1 \in DOMAIN notifyChan
        /\ \A i \in DOMAIN notifyChan' :
             i + 1 \in DOMAIN notifyChan /\ notifyChan'[i] = notifyChan[i + 1]
    BY <1>0, <2>1
  <2>3. Len(inbox') <= 1 /\ \A i \in DOMAIN inbox' : inbox'[i] = notifyChan[1]
    BY <2>1, <2>2
  <2>4. QED
    BY <2>1, <2>2, <2>3 DEF SourcesKnown
<1>7. ASSUME NEW s \in Polls, Poll(s) PROVE SourcesKnown'
  BY <1>7 DEF Poll, SourcesKnown
<1>8. CASE ExportResolved \/ ExportDebounced \/ ExportFatal
  <2>1. Done /\ loopPhase # "select" /\ UNCHANGED <<notifying, notifyChan>>
    BY <1>8 DEF ExportResolved, ExportDebounced, ExportFatal
  <2>2. QED
    BY <1>2, <2>1 DEF SourcesKnown
<1>9. CASE ExportSend
  <2>1. loopPhase = "export" /\ ~Resolution(Handled) /\ UNCHANGED <<notifying, notifyChan>>
    BY <1>9 DEF ExportSend
  <2>2. CASE Done
    BY <1>2, <2>1, <2>2 DEF SourcesKnown
  <2>3. CASE Handled.severity = "Fatal" /\ loopPhase' = "fatal" /\ UNCHANGED inbox
    <3>1. Handled' = Handled
      BY <2>3 DEF Handled
    <3>2. Handled'.severity = "Fatal" /\ ~Resolution(Handled')
      BY <2>1, <2>3, <3>1, Zenon
    <3>3. QED
      BY <2>1, <2>3, <3>2 DEF SourcesKnown, Resolution
  <2>4. QED
    BY <1>9, <2>2, <2>3 DEF ExportSend
<1>10. CASE AgentRestart
  BY <1>10 DEF AgentRestart, SourcesKnown
<1>11. CASE UNCHANGED managerVars
  BY <1>1, <1>11 DEF managerVars, loopVars, SourcesKnown
<1>12. QED
  BY <1>3, <1>4, <1>5, <1>6, <1>7, <1>8, <1>9, <1>10, <1>11 DEF AgentNext, ManagerStep, agentVars

(***************************************************************************)
(* A fresh agent has heard of nothing and decided nothing.                 *)
(***************************************************************************)
LEMMA FreshTraced ==
  ASSUME NEW m \in Monitors, NEW c \in FatalConditions(m)
  PROVE  /\ AgentInit => Traced(m, c)
         /\ AgentRestart => Traced(m, c)'
<1> DEFINE k == [i \in 0..0 |-> 0]
<1>1. c.reason \in Reasons /\ c.min \in Nat /\ TypeOf[m] \in Types
  BY FatalConditionTyped
<1>2. /\ k \in [0..0 -> Nat] /\ k[0] = 0 /\ Len(<<>>) = 0
      /\ \A i \in 1..0 : k[i] = Tally(k[i - 1], <<>>[i].condition, c.reason)
  OBVIOUS
<1> HIDE DEF k
<1>3. ASSUME AgentInit PROVE Traced(m, c)
  <2>1. /\ fatalEntries[TypeOf[m]] = <<>> /\ conditionCountMap[c.reason] = 0
        /\ heard[c.reason] = 0 /\ loopPhase = "select" /\ notifyChan = <<>>
    BY <1>1, <1>3 DEF AgentInit, ExporterInit
  <2>2. Unresolved(TypeOf[m]) = {}
    BY <2>1 DEF Unresolved
  <2>3. Worked(m, c, 0)
    BY <1>1, <2>1, <2>2 DEF Worked, Decided
  <2>4. QED
    BY <1>2, <2>1, <2>3 DEF Traced, Trace
<1>4. ASSUME AgentRestart PROVE Traced(m, c)'
  <2>1. /\ fatalEntries'[TypeOf[m]] = <<>> /\ conditionCountMap'[c.reason] = 0
        /\ heard'[c.reason] = 0 /\ loopPhase' = "select" /\ notifyChan' = <<>>
    BY <1>1, <1>4 DEF AgentRestart, Restart, NewNodeExporter
  <2>2. Unresolved(TypeOf[m])' = {}
    BY <2>1 DEF Unresolved
  <2>3. Worked(m, c, 0)'
    BY <1>1, <2>1, <2>2 DEF Worked, Decided
  <2>4. QED
    BY <1>2, <2>1, <2>3 DEF Traced, Trace
<1>5. QED
  BY <1>3, <1>4

(***************************************************************************)
(* Every step of the agent keeps the trace of every fatal condition.       *)
(***************************************************************************)
LEMMA TracedStep ==
  ASSUME AgentInv, SourcesKnown, [AgentNext]_agentVars,
         NEW m \in Monitors, NEW c \in FatalConditions(m), Traced(m, c)
  PROVE  Traced(m, c)'
<1>0. ManagerTypeOK
  BY DEF AgentInv
<1>1. ASSUME NEW n \in Monitors, NotifySend(n) PROVE Traced(m, c)'
  BY <1>1, SendTraced
<1>2. CASE Receive
  BY <1>2, ReceiveTraced
<1>3. CASE AgentRestart
  BY <1>3, FreshTraced
<1>4. ASSUME NEW s \in Polls, Poll(s) PROVE Traced(m, c)'
  <2>1. UNCHANGED <<notifyChan, heard>>
    BY <1>4 DEF Poll
  <2>2. QED
    BY <1>0, <1>4, <2>1, PollWorked, TraceKept
<1>5. CASE ExportResolved \/ ExportDebounced \/ ExportSend \/ ExportFatal
  <2>1. UNCHANGED <<notifyChan, heard>>
    BY <1>5 DEF ExportResolved, ExportDebounced, ExportSend, ExportFatal
  <2>2. \A p \in Nat : Worked(m, c, p) => Worked(m, c, p)'
    BY <1>5, ResolutionDecides, DebounceDecides, SendDecides, FatalDecides
  <2>3. QED
    BY <1>0, <2>1, <2>2, TraceKept
<1>6. ASSUME UNCHANGED <<notifyChan, heard, loopPhase, inbox, conditionCountMap, fatalEntries>>
      PROVE  Traced(m, c)'
  BY <1>0, <1>6, WorkedKept, TraceKept
<1>7. CASE (\E n \in Monitors : (\E d \in Catalog[n] : Notify(n, d)) \/ NotifyCancel(n))
           \/ UNCHANGED agentVars
  BY <1>6, <1>7 DEF Notify, NotifyCancel, agentVars, managerVars, exporterVars, localVars, loopVars
<1>8. CASE (RunWithTickers \/ Environment) /\ UNCHANGED managerVars
  BY <1>6, <1>8, EntriesKept DEF managerVars, loopVars
<1>9. QED
  BY <1>1, <1>2, <1>3, <1>4, <1>5, <1>7, <1>8 DEF AgentNext, ManagerStep

(***************************************************************************)
(* The inductive invariant behind the verdicts.                            *)
(***************************************************************************)
THEOREM VerdictInvariant == AgentSpec => []VerdictInv
<1>1. AgentInit => VerdictInv
  <2> SUFFICES ASSUME AgentInit PROVE VerdictInv
    OBVIOUS
  <2>1. SourcesKnown
    BY DEF AgentInit, SourcesKnown
  <2>2. QED
    BY <2>1, AgentInitInv, FreshTraced DEF VerdictInv
<1>2. VerdictInv /\ [AgentNext]_agentVars => VerdictInv'
  BY AgentInvStep, SourcesStep, TracedStep DEF VerdictInv
<1>3. QED
  BY <1>1, <1>2, PTL DEF AgentSpec

(***************************************************************************)
(* When the manager has worked off what it accepted, the exporter holds a  *)
(* fatal reason exactly if it was notified more often than its minimum     *)
(* since it was last resolved (exportCondition): neither the queue, nor    *)
(* polls that overtake it, nor the debounce, nor the wait for the          *)
(* exporter's lock lose, reorder or revive a verdict.                      *)
(***************************************************************************)
THEOREM VerdictsAreKept == AgentSpec => []VerdictsKeptWhenQuiet
<1>1. VerdictInv => VerdictsKeptWhenQuiet
  <2> SUFFICES ASSUME VerdictInv, loopPhase = "select", notifyChan = <<>>,
                      NEW m \in Monitors, NEW c \in FatalConditions(m)
               PROVE  c.reason \in Unresolved(TypeOf[m]) <=> heard[c.reason] > c.min
    BY DEF VerdictsKeptWhenQuiet
  <2>1. PICK k \in [0..Len(notifyChan) -> Nat] :
          Worked(m, c, k[0]) /\ k[Len(notifyChan)] = heard[c.reason]
    BY DEF VerdictInv, Traced
  <2>2. Len(notifyChan) = 0
    OBVIOUS
  <2>3. Decided(m, c, heard[c.reason]) /\ heard[c.reason] \in Nat
    BY <2>1, <2>2 DEF Worked
  <2>4. c.min \in Nat
    BY FatalConditionTyped
  <2>5. QED
    BY <2>3, <2>4 DEF Decided
<1>2. QED
  BY <1>1, VerdictInvariant, PTL

=============================================================================
