------------------------- MODULE NotificationLedger -------------------------
(***************************************************************************)
(* What the authorization-check notification promises a host, without the  *)
(* burst window, the scores and the clock readings that lead up to it: the *)
(* ledger of a source is consulted once per request, a refusal quotes an   *)
(* entry less than a cooldown old, only a delivered notification writes    *)
(* the ledger, with a time not before the one it was allowed by, and a     *)
(* lost one leaves no trace.  Between the verdict and the entry any number *)
(* of other requests may be allowed: the ledger is not a lock.             *)
(***************************************************************************)
EXTENDS Integers

CONSTANTS Requests, Sources, NotificationCooldown

Never == -1   \* the source has no entry

VARIABLES
  source,  \* the source each request belongs to
  phase,   \* how far each request has come
  at,      \* the time it consulted the ledger by, 0 before that
  ledger   \* the last recorded notification of each source

vars == <<source, phase, at, ledger>>

Init ==
  /\ source \in [Requests -> Sources]
  /\ phase = [r \in Requests |-> "open"]
  /\ at = [r \in Requests |-> 0]
  /\ ledger = [s \in Sources |-> Never]

Move(r, from, to) ==
  /\ phase[r] = from
  /\ phase' = [phase EXCEPT ![r] = to]
  /\ source' = source

(* A step that consults the ledger notes the time it goes by. *)
Consult(r) ==
  /\ at'[r] \in Nat
  /\ at' = [at EXCEPT ![r] = at'[r]]
  /\ UNCHANGED ledger

(* Nothing to notify: no scanner detected, or no e-mail configured. *)
Pass(r) == Move(r, "open", "quiet") /\ UNCHANGED <<at, ledger>>

Allow(r) ==
  /\ Move(r, "open", "sending")
  /\ Consult(r)
  /\ \/ ledger[source[r]] = Never
     \/ at'[r] - ledger[source[r]] >= NotificationCooldown

Suppress(r) ==
  /\ Move(r, "open", "suppressed")
  /\ Consult(r)
  /\ ledger[source[r]] # Never
  /\ at'[r] - ledger[source[r]] < NotificationCooldown

Deliver(r) == Move(r, "sending", "delivered") /\ UNCHANGED <<at, ledger>>

Lose(r) == Move(r, "sending", "lost") /\ UNCHANGED <<at, ledger>>

Record(r) ==
  /\ Move(r, "delivered", "recorded")
  /\ ledger'[source[r]] >= at[r]
  /\ ledger'[source[r]] \in Nat
  /\ ledger' = [ledger EXCEPT ![source[r]] = ledger'[source[r]]]
  /\ UNCHANGED at

Next ==
  \E r \in Requests :
    \/ Pass(r) \/ Allow(r) \/ Suppress(r)
    \/ Deliver(r) \/ Lose(r) \/ Record(r)

Spec == Init /\ [][Next]_vars
=============================================================================
