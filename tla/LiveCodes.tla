------------------------------ MODULE LiveCodes ------------------------------
(* The one-time code of the entry that is shown. useTotp asks the host for   *)
(* it when a secret appears and every second after that; entries are         *)
(* changed, the vault is locked and periods end while answers are on their   *)
(* way.                                                                      *)
(*                                                                           *)
(* A code is the secret and the period it was computed from.                 *)
EXTENDS Integers, FiniteSets

CONSTANTS Secrets,     \* secrets of entries
          MaxPeriods,  \* periods of the clock
          MaxAsked     \* answers under way at a time

NoSecret == "none"
NoCode == [secret |-> NoSecret, period |-> 0]

VARIABLES secret,    \* the secret of the field that is shown
          period,    \* the clock
          listening, \* active: the effect of the secret shown has not ended or been locked
          asked,     \* generateTotp under way: [secret, period, ran, active]
          result,    \* the last code that counted
          unlocked,  \* the vault is open
          regressed  \* a code was followed by one of an earlier period

codeVars == <<secret, period, listening, asked, result, unlocked, regressed>>

\* the code of the last answer, if it is this secret's
Code == IF secret # NoSecret /\ result.secret = secret THEN result ELSE NoCode

\* one request of an effect at a time: running
Running == \E a \in asked : a.active
Inactive(requests) == {[a EXCEPT !.active = FALSE] : a \in requests}
Generate(s, others) ==
  IF s = NoSecret THEN asked' = others
  ELSE /\ Cardinality(others) < MaxAsked
       /\ asked' = others \cup {[secret |-> s, period |-> 0, ran |-> FALSE, active |-> TRUE]}

\* another entry is selected, or one without a secret: the old effect ends
ShowSecret(s) ==
  /\ unlocked /\ s # secret /\ secret' = s /\ listening' = (s # NoSecret)
  /\ Generate(s, Inactive(asked)) /\ UNCHANGED <<period, result, unlocked, regressed>>

\* the timer of the effect
EverySecond ==
  /\ listening /\ ~Running /\ Generate(secret, asked)
  /\ UNCHANGED <<secret, period, listening, result, unlocked, regressed>>

\* yntra-session-locked, then the page goes
SessionLocked ==
  /\ unlocked /\ unlocked' = FALSE /\ listening' = FALSE /\ result' = NoCode
  /\ asked' = Inactive(asked) /\ UNCHANGED <<secret, period, regressed>>
PageLeft ==
  /\ ~unlocked /\ secret # NoSecret /\ secret' = NoSecret
  /\ UNCHANGED <<period, listening, asked, result, unlocked, regressed>>
CodeUnlock ==
  /\ ~unlocked /\ secret = NoSecret /\ unlocked' = TRUE
  /\ UNCHANGED <<secret, period, listening, asked, result, regressed>>

PeriodEnds ==
  /\ period < MaxPeriods /\ period' = period + 1
  /\ UNCHANGED <<secret, listening, asked, result, unlocked, regressed>>

\* generate_totp computes from the secret it is given and the clock
GenerateTotp(a) ==
  /\ ~a.ran /\ asked' = (asked \ {a}) \cup {[a EXCEPT !.ran = TRUE, !.period = period]}
  /\ UNCHANGED <<secret, period, listening, result, unlocked, regressed>>

EffectActive(a) == a.active

\* the answer, or an error, which shows no code
TotpAnswered(a) ==
  /\ a.ran /\ asked' = asked \ {a}
  /\ result' \in IF EffectActive(a) THEN {[secret |-> a.secret, period |-> p] : p \in {0, a.period}}
                 ELSE {result}
  /\ regressed' = (regressed \/ (Code.secret = a.secret /\ result'.period \in 1..(Code.period - 1)))
  /\ UNCHANGED <<secret, period, listening, unlocked>>

CodeInit ==
  /\ secret = NoSecret /\ period = 1 /\ listening = FALSE /\ asked = {} /\ result = NoCode
  /\ unlocked = TRUE /\ regressed = FALSE

CodeNext ==
  \/ \E s \in Secrets \cup {NoSecret} : ShowSecret(s)
  \/ EverySecond \/ SessionLocked \/ PageLeft \/ CodeUnlock \/ PeriodEnds
  \/ \E a \in asked : GenerateTotp(a) \/ TotpAnswered(a)

CodeSpec == CodeInit /\ [][CodeNext]_codeVars

-----------------------------------------------------------------------------
(* Properties.                                                               *)

\* No code outlives a lock, in the page or in its state, and the code of the
\* secret shown never goes back to an earlier period: an answer of an entry that
\* was left and selected again does not replace a newer one.
CodesCurrent == (~unlocked => result = NoCode) /\ ~regressed

-----------------------------------------------------------------------------
(* What every step keeps, for the proofs: the one request that counts is of  *)
(* the secret shown, and runs in a period that is no earlier than the code   *)
(* it will replace.                                                          *)

CodeInv ==
  /\ period \in Nat /\ unlocked \in BOOLEAN /\ listening \in BOOLEAN
  /\ listening => unlocked
  /\ result.period \in Nat /\ result.period <= period
  /\ \A a \in asked :
       /\ a \in [secret : {a.secret}, period : Nat, ran : BOOLEAN, active : BOOLEAN]
       /\ a.period <= period
       /\ a.active => listening /\ a.secret = secret /\ \A b \in asked : b.active => b = a
       /\ a.active /\ a.ran /\ result.secret = secret => result.period <= a.period
  /\ CodesCurrent

=============================================================================
