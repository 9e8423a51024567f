------------------------------- MODULE Pacing -------------------------------
(***************************************************************************)
(* What the monitors use to pace their reports: rate.Limiter (a token      *)
(* bucket of golang.org/x/time), util/renotify's Tracker and client-go's   *)
(* TTL store.  An age is None for what never happened.                     *)
(***************************************************************************)
EXTENDS Integers, FiniteSets

None == -1
Aged(age, cap) == IF age = None \/ age = cap THEN age ELSE age + 1

\* AllowN takes n tokens if there are as many; a refusal takes none, and a
\* negative n gives tokens back, up to the burst.
AllowN(tokens, n, burst) == n <= burst /\ n <= tokens
TokensAfter(tokens, n, burst) ==
    IF ~AllowN(tokens, n, burst) THEN tokens ELSE IF tokens - n > burst THEN burst ELSE tokens - n
Refilled(tokens, burst) == IF tokens < burst THEN tokens + 1 ELSE tokens

\* Tracker: a key that differs from the last one, or an interval that passed.
NoKey == [key |-> "none", age |-> None]
ShouldNotify(tracker, key, interval) == tracker.age = None \/ tracker.key # key \/ tracker.age >= interval
Notified(key) == [key |-> key, age |-> 0]
=============================================================================
