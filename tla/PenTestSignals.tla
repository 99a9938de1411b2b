--------------------------- MODULE PenTestSignals ---------------------------
(***************************************************************************)
(* The pen-test signal analyzer that both fraud detectors share            *)
(* (SafeWebCore.FraudDetection/Detection/PenTestSignalAnalyzer.cs).  A     *)
(* detector is a singleton, so every request of the host runs              *)
(* EvaluateAndNotify on the same two dictionaries, on threads that         *)
(* interleave between any two calls of the concurrent collections, the     *)
(* clock and the notification sender: each such call is one action here.   *)
(*                                                                         *)
(* Times are natural numbers.  A source stands for the key GetSourceKey    *)
(* builds.  An absent queue and an empty one are the same sequence, and an *)
(* absent cooldown entry is Never.                                         *)
(***************************************************************************)
EXTENDS Integers, Sequences, FiniteSets

CONSTANTS
  Requests,               \* the calls of EvaluateAndNotify
  Sources,                \* the source keys
  Fingerprints,           \* what the callers may pass (see Fingerprint)
  BurstWindow,            \* the PenTestDetectionOptions in force
  BurstRequestThreshold,
  ScannerScoreThreshold,
  NotificationCooldown,
  MaxClock                \* bound: the clock stops there

NoStamp == -1             \* ClientFingerprintData.RequestTimestampUtc is null
Never   == -1             \* no entry in _lastNotifications

Signals == {"zap", "header", "userAgent", "path"}

(* The part of ClientFingerprintData and of the caller's options that the  *)
(* analyzer looks at: the source key, the caller-supplied timestamp, the   *)
(* static signals the request shows, whether pen-test detection is on and  *)
(* whether an e-mail is configured with at least one recipient.            *)
Fingerprint ==
  [source: Sources, stamp: Nat \cup {NoStamp}, signals: SUBSET Signals,
   enabled: BOOLEAN, email: BOOLEAN]

ASSUME ConstantsAssumption ==
  /\ Fingerprints \subseteq Fingerprint
  /\ BurstWindow \in Nat
  /\ BurstRequestThreshold \in Nat
  /\ ScannerScoreThreshold \in Nat
  /\ NotificationCooldown \in Nat
  /\ MaxClock \in Nat

VARIABLES
  clock,              \* TimeProvider
  data,               \* the fingerprint each request carries
  pc,                 \* where each request is
  now,                \* the local `now` of its IsBurstRateExceeded
  checkedAt,          \* the local `now` of its ShouldSendNotification
  storedAt,           \* the timestamp its StoreNotificationTimestamp read
  windows,            \* _requestWindows
  lastNotifications,  \* _lastNotifications
  detected,           \* IsDetected of each request
  emailed,            \* its emailSent
  \* History, no code reads it: the sources for which two requests were ever
  \* at once inside IsBurstRateExceeded, between TryPeek and TryDequeue, and
  \* between the cooldown lookup and the cooldown store.
  contended, pruneRace, sendRace

history == <<contended, pruneRace, sendRace>>
vars == <<clock, data, pc, now, checkedAt, storedAt, windows,
                 lastNotifications, detected, emailed, history>>

BurstSection == {"enqueue", "peek", "dequeue", "count"}
SendSection  == {"send", "storeClock", "store"}
Returned     == {"done", "failed"}
Labels == BurstSection \cup SendSection \cup Returned
            \cup {"idle", "cooldownClock", "lookup"}

Source(r) == data[r].source

(* data.RequestTimestampUtc ?? timeProvider.GetUtcNow() *)
Now(r) == IF data[r].stamp = NoStamp THEN clock ELSE data[r].stamp

(* Mutant of Expired: the interval without its sign. *)
ExpiredEitherWay(r, ts) ==
  now[r] - ts > BurstWindow \/ ts - now[r] > BurstWindow

Expired(r, ts) == now[r] - ts > BurstWindow

(* The prune loop's condition: TryPeek finds an expired timestamp. *)
HeadExpired(r) ==
  /\ windows[Source(r)] # <<>>
  /\ Expired(r, Head(windows[Source(r)]))

(* Another request of r's source is at one of the labels. *)
Together(r, labels) ==
  \E q \in Requests \ {r} : Source(q) = Source(r) /\ pc[q] \in labels

MarkIf(cond, marked, r) ==
  IF cond THEN marked \cup {Source(r)} ELSE marked

Goto(r, label) == pc' = [pc EXCEPT ![r] = label]

-----------------------------------------------------------------------------
ZapHeaderScore == 80
HeaderScore    == 50
UserAgentScore == 35
PathProbeScore == 20
BurstScore     == 30

Score(signals, burst) ==
  (IF "zap" \in signals THEN ZapHeaderScore ELSE 0)
    + (IF "header" \in signals THEN HeaderScore ELSE 0)
    + (IF "userAgent" \in signals THEN UserAgentScore ELSE 0)
    + (IF "path" \in signals THEN PathProbeScore ELSE 0)
    + (IF burst THEN BurstScore ELSE 0)

IsDetected(signals, burst) == Score(signals, burst) >= ScannerScoreThreshold

-----------------------------------------------------------------------------
Init ==
  /\ clock = 0
  /\ data \in [Requests -> Fingerprints]
  /\ pc = [r \in Requests |-> "idle"]
  /\ now = [r \in Requests |-> 0]
  /\ checkedAt = [r \in Requests |-> 0]
  /\ storedAt = [r \in Requests |-> 0]
  /\ windows = [s \in Sources |-> <<>>]
  /\ lastNotifications = [s \in Sources |-> Never]
  /\ detected = [r \in Requests |-> FALSE]
  /\ emailed = [r \in Requests |-> FALSE]
  /\ contended = {}
  /\ pruneRace = {}
  /\ sendRace = {}

(* EvaluateAndNotify: detection switched off for this request. *)
Skip(r) ==
  /\ pc[r] = "idle"
  /\ ~data[r].enabled
  /\ Goto(r, "done")
  /\ UNCHANGED <<clock, data, now, checkedAt, storedAt, windows,
                 lastNotifications, detected, emailed, history>>

(* Evaluate: the static signals are read from the request alone, then      *)
(* IsBurstRateExceeded reads the time.                                     *)
ReadBurstClock(r) ==
  /\ pc[r] = "idle"
  /\ data[r].enabled
  /\ now' = [now EXCEPT ![r] = Now(r)]
  /\ contended' = MarkIf(Together(r, BurstSection), contended, r)
  /\ Goto(r, "enqueue")
  /\ UNCHANGED <<clock, data, checkedAt, storedAt, windows,
                 lastNotifications, detected, emailed, pruneRace, sendRace>>

Enqueue(r) ==
  /\ pc[r] = "enqueue"
  /\ windows' = [windows EXCEPT ![Source(r)] = Append(@, now[r])]
  /\ Goto(r, "peek")
  /\ UNCHANGED <<clock, data, now, checkedAt, storedAt, lastNotifications,
                 detected, emailed, history>>

PeekExpired(r) ==
  /\ pc[r] = "peek"
  /\ HeadExpired(r)
  /\ pruneRace' = MarkIf(Together(r, {"dequeue"}), pruneRace, r)
  /\ Goto(r, "dequeue")
  /\ UNCHANGED <<clock, data, now, checkedAt, storedAt, windows,
                 lastNotifications, detected, emailed, contended, sendRace>>

PeekDone(r) ==
  /\ pc[r] = "peek"
  /\ ~HeadExpired(r)
  /\ Goto(r, "count")
  /\ UNCHANGED <<clock, data, now, checkedAt, storedAt, windows,
                 lastNotifications, detected, emailed, history>>

(* Mutant of Dequeue: TryPeek for TryDequeue. *)
DequeueNothing(r) ==
  /\ pc[r] = "dequeue"
  /\ Goto(r, "peek")
  /\ UNCHANGED <<clock, data, now, checkedAt, storedAt, windows,
                 lastNotifications, detected, emailed, history>>

(* TryDequeue removes whatever is the head by now, if anything is. *)
Dequeue(r) ==
  /\ pc[r] = "dequeue"
  /\ windows' = [windows EXCEPT ![Source(r)] =
                   IF @ = <<>> THEN @ ELSE Tail(@)]
  /\ Goto(r, "peek")
  /\ UNCHANGED <<clock, data, now, checkedAt, storedAt, lastNotifications,
                 detected, emailed, history>>

BurstRateExceeded(r) == Len(windows[Source(r)]) >= BurstRequestThreshold

(* IsBurstRateExceeded returns, Evaluate compares the score with the       *)
(* threshold, and ShouldSendNotification turns back when no e-mail is      *)
(* configured.                                                             *)
Count(r) ==
  /\ pc[r] = "count"
  /\ LET hit == IsDetected(data[r].signals, BurstRateExceeded(r))
     IN  /\ detected' = [detected EXCEPT ![r] = hit]
         /\ Goto(r, IF hit /\ data[r].email THEN "cooldownClock" ELSE "done")
  /\ UNCHANGED <<clock, data, now, checkedAt, storedAt, windows,
                 lastNotifications, emailed, history>>

ReadCooldownClock(r) ==
  /\ pc[r] = "cooldownClock"
  /\ checkedAt' = [checkedAt EXCEPT ![r] = Now(r)]
  /\ Goto(r, "lookup")
  /\ UNCHANGED <<clock, data, now, storedAt, windows, lastNotifications,
                 detected, emailed, history>>

(* Mutant of MaySend: off by one. *)
MaySendEarly(r) ==
  \/ lastNotifications[Source(r)] = Never
  \/ checkedAt[r] - lastNotifications[Source(r)] + 1 >= NotificationCooldown

MaySend(r) ==
  \/ lastNotifications[Source(r)] = Never
  \/ checkedAt[r] - lastNotifications[Source(r)] >= NotificationCooldown

(* ShouldSendNotification answers yes. *)
LookUpAllows(r) ==
  /\ pc[r] = "lookup"
  /\ MaySend(r)
  /\ sendRace' = MarkIf(Together(r, SendSection), sendRace, r)
  /\ Goto(r, "send")
  /\ UNCHANGED <<clock, data, now, checkedAt, storedAt, windows,
                 lastNotifications, detected, emailed, contended, pruneRace>>

(* ShouldSendNotification answers no: detected, no e-mail. *)
LookUpSuppresses(r) ==
  /\ pc[r] = "lookup"
  /\ ~MaySend(r)
  /\ Goto(r, "done")
  /\ UNCHANGED <<clock, data, now, checkedAt, storedAt, windows,
                 lastNotifications, detected, emailed, history>>

(* SendAuthorizationCheck returns. *)
Send(r) ==
  /\ pc[r] = "send"
  /\ emailed' = [emailed EXCEPT ![r] = TRUE]
  /\ Goto(r, "storeClock")
  /\ UNCHANGED <<clock, data, now, checkedAt, storedAt, windows,
                 lastNotifications, detected, history>>

(* Mutant of SendThrows: the timestamp is stored in a `finally`. *)
SendThrowsAndStores(r) ==
  /\ pc[r] = "send"
  /\ lastNotifications' = [lastNotifications EXCEPT ![Source(r)] = Now(r)]
  /\ Goto(r, "failed")
  /\ UNCHANGED <<clock, data, now, checkedAt, storedAt, windows,
                 detected, emailed, history>>

(* SendAuthorizationCheck throws, and with it EvaluateAndNotify. *)
SendThrows(r) ==
  /\ pc[r] = "send"
  /\ Goto(r, "failed")
  /\ UNCHANGED <<clock, data, now, checkedAt, storedAt, windows,
                 lastNotifications, detected, emailed, history>>

(* Mutant of ReadStoreClock: stores the time the request came in with. *)
ReadStoreClockReusesNow(r) ==
  /\ pc[r] = "storeClock"
  /\ storedAt' = [storedAt EXCEPT ![r] = now[r]]
  /\ Goto(r, "store")
  /\ UNCHANGED <<clock, data, now, checkedAt, windows,
                 lastNotifications, detected, emailed, history>>

(* StoreNotificationTimestamp reads the time again ... *)
ReadStoreClock(r) ==
  /\ pc[r] = "storeClock"
  /\ storedAt' = [storedAt EXCEPT ![r] = Now(r)]
  /\ Goto(r, "store")
  /\ UNCHANGED <<clock, data, now, checkedAt, windows, lastNotifications,
                 detected, emailed, history>>

(* ... and overwrites whatever the entry holds by then. *)
Store(r) ==
  /\ pc[r] = "store"
  /\ lastNotifications' = [lastNotifications EXCEPT ![Source(r)] = storedAt[r]]
  /\ Goto(r, "done")
  /\ UNCHANGED <<clock, data, now, checkedAt, storedAt, windows,
                 detected, emailed, history>>

Tick ==
  /\ clock < MaxClock
  /\ clock' = clock + 1
  /\ UNCHANGED <<data, pc, now, checkedAt, storedAt, windows,
                 lastNotifications, detected, emailed, history>>

(* Every call has returned: nothing is left to do. *)
AllReturned ==
  /\ \A r \in Requests : pc[r] \in Returned
  /\ UNCHANGED vars

Step(r) ==
  \/ Skip(r) \/ ReadBurstClock(r) \/ Enqueue(r)
  \/ PeekExpired(r) \/ PeekDone(r) \/ Dequeue(r) \/ Count(r)
  \/ ReadCooldownClock(r) \/ LookUpAllows(r) \/ LookUpSuppresses(r)
  \/ Send(r) \/ SendThrows(r) \/ ReadStoreClock(r) \/ Store(r)

Next == Tick \/ AllReturned \/ \E r \in Requests : Step(r)

Spec == Init /\ [][Next]_vars

(* A thread that runs a request keeps running: nothing in the analyzer     *)
(* waits for another thread.                                               *)
FairSpec == Spec /\ \A r \in Requests : WF_vars(pc[r] # "idle" /\ Step(r))

-----------------------------------------------------------------------------
TypeOK ==
  /\ clock \in Nat
  /\ data \in [Requests -> Fingerprints]
  /\ pc \in [Requests -> Labels]
  /\ now \in [Requests -> Nat]
  /\ checkedAt \in [Requests -> Nat]
  /\ storedAt \in [Requests -> Nat]
  /\ windows \in [Sources -> Seq(Nat)]
  /\ lastNotifications \in [Sources -> Nat \cup {Never}]
  /\ detected \in [Requests -> BOOLEAN]
  /\ emailed \in [Requests -> BOOLEAN]
  /\ contended \subseteq Sources
  /\ pruneRace \subseteq Sources
  /\ sendRace \subseteq Sources

(* The prune loop discards live timestamps only under a race: unless two   *)
(* requests of the source have been between TryPeek and TryDequeue at once *)
(* (lines 231-232), what a request is about to dequeue is a timestamp that *)
(* has left its window.                                                    *)
PrunesOnlyExpired ==
  \A r \in Requests :
    pc[r] = "dequeue" /\ Source(r) \notin pruneRace => HeadExpired(r)

(* What keeps that inductive: two requests of a source between TryPeek and *)
(* TryDequeue have been marked.                                            *)
PruneRaceMarked ==
  \A q, r \in Requests :
    q # r /\ Source(q) = Source(r) /\ pc[q] = "dequeue" /\ pc[r] = "dequeue"
      => Source(r) \in pruneRace

PruneInv == TypeOK /\ PruneRaceMarked /\ PrunesOnlyExpired

(* The requests of a source that have put their timestamp in its queue. *)
Entered(s) ==
  {q \in Requests :
     Source(q) = s /\ data[q].enabled /\ pc[q] \notin {"idle", "enqueue"}}

(* The requests a window that ends at r's time must count: those that have *)
(* entered and whose time is within BurstWindow before it.                 *)
InWindow(r) ==
  {q \in Entered(Source(r)) : now[r] - now[q] \in 0 .. BurstWindow}

Sorted(q) == \A i, j \in 1 .. Len(q) : i <= j => q[i] <= q[j]

(* The requests whose time has not left the window of any that entered.    *)
NeverExpired(s) ==
  {q \in Entered(s) : \A p \in Entered(s) : now[p] - now[q] <= BurstWindow}

(* The count compared with BurstRequestThreshold (line 234).  In whatever  *)
(* order the callers' timestamps come and however requests interleave, it  *)
(* misses no request that nobody's window has passed, unless two requests  *)
(* of the source have been between TryPeek and TryDequeue at once.  While  *)
(* they come one at a time through IsBurstRateExceeded and the queue is in *)
(* time order, it is exactly the number of requests in the window.         *)
BurstCountExact ==
  \A r \in Requests : pc[r] = "count" =>
    LET s == Source(r)
    IN  /\ s \notin pruneRace =>
             Cardinality(NeverExpired(s)) <= Len(windows[s])
        /\ s \notin contended /\ Sorted(windows[s]) =>
             Len(windows[s]) = Cardinality(InWindow(r))

(* What keeps the first part inductive.  Unless two requests raced for the *)
(* head of its queue, each queued timestamp is that of a request of its    *)
(* own, and who is missing has left the window of one that entered.        *)
QueueKeeps(s) ==
  LET places == 1 .. Len(windows[s])
  IN  \E who \in [places -> Entered(s)] :
        /\ \A i, j \in places : who[i] = who[j] => i = j
        /\ \A i \in places : windows[s][i] = now[who[i]]
        /\ \A q \in Entered(s) :
             \/ \E i \in places : who[i] = q
             \/ \E p \in Entered(s) : now[p] - now[q] > BurstWindow

KeepInv ==
  /\ \A r \in Requests : pc[r] \in BurstSection => data[r].enabled
  /\ \A s \in Sources \ pruneRace : QueueKeeps(s)

(* And the second.  Without contention one request of a source,            *)
(* with detection on, is inside at a time, its own timestamp is the last   *)
(* of the queue, ...                                                       *)
Inside(s) == {q \in Requests : Source(q) = s /\ pc[q] \in BurstSection}

OneInside(s) ==
  \A p, q \in Inside(s) : p = q /\ data[q].enabled

OwnStampLast(s) ==
  \A r \in Requests : Source(r) = s =>
    /\ pc[r] \in {"peek", "dequeue", "count"} =>
         windows[s] # <<>> /\ windows[s][Len(windows[s])] = now[r]
    /\ pc[r] = "dequeue" => HeadExpired(r)
    /\ pc[r] = "count" => ~HeadExpired(r)

(* ... and the queue holds the timestamps of distinct requests; one that   *)
(* is missing has left the window of one that is there.                    *)
QueueTraced(s) ==
  LET places == 1 .. Len(windows[s])
  IN  \E who \in [places -> Entered(s)] :
        /\ \A i, j \in places : who[i] = who[j] => i = j
        /\ \A i \in places : windows[s][i] = now[who[i]]
        /\ \A q \in Entered(s) : \E i \in places :
             who[i] = q \/ windows[s][i] - now[q] > BurstWindow

BurstInv ==
  \A s \in Sources \ contended : OneInside(s) /\ OwnStampLast(s) /\ QueueTraced(s)

(* r's notification was sent and its timestamp stored. *)
Recorded(r) == emailed[r] /\ pc[r] = "done"

(* Notifications of a source are a cooldown apart: of two that were sent   *)
(* and recorded, one was decided at least NotificationCooldown after the   *)
(* other was recorded, unless two requests of the source have been between *)
(* the lookup (line 206) and the store (line 220) at once.                 *)
NotificationsSpaced ==
  \A q, r \in Requests :
    /\ q # r
    /\ Source(q) = Source(r)
    /\ Source(r) \notin sendRace
    /\ Recorded(q) /\ Recorded(r)
    => \/ storedAt[q] + NotificationCooldown <= checkedAt[r]
       \/ storedAt[r] + NotificationCooldown <= checkedAt[q]

(* A detection is kept from notifying only by a notification that really   *)
(* went out for its source within the cooldown, whatever interleaving and  *)
(* however many sends threw: a failed send never consumes the cooldown.    *)
SuppressedOnlyAfterDelivery ==
  \A r \in Requests :
    pc[r] = "done" /\ detected[r] /\ data[r].email /\ ~emailed[r] =>
      \E q \in Requests :
        /\ Source(q) = Source(r)
        /\ Recorded(q)
        /\ checkedAt[r] - storedAt[q] < NotificationCooldown

(* What keeps the notification properties inductive. *)
SendRaceMarked ==
  \A q, r \in Requests :
    q # r /\ Source(q) = Source(r) /\ pc[q] \in SendSection /\ pc[r] \in SendSection
      => Source(r) \in sendRace

ResultsInOrder ==
  \A r \in Requests :
    /\ emailed[r] => pc[r] \in {"storeClock", "store", "done"}
    /\ detected[r] => pc[r] \notin BurstSection \cup {"idle"}
    /\ pc[r] \in {"storeClock", "store"} => emailed[r]
    /\ pc[r] \in SendSection \cup {"cooldownClock", "lookup"} =>
         detected[r] /\ data[r].email

(* A cooldown entry is the timestamp of a notification that was sent. *)
EntryBacked ==
  \A s \in Sources : lastNotifications[s] # Never =>
    \E q \in Requests :
      Source(q) = s /\ Recorded(q) /\ storedAt[q] = lastNotifications[s]

(* Without a race the entry is the latest such timestamp. *)
EntryLatest ==
  \A r \in Requests : Recorded(r) /\ Source(r) \notin sendRace =>
    storedAt[r] <= lastNotifications[Source(r)]

(* A request on its way to the store was allowed by the entry as it still  *)
(* is, if nothing raced with it.                                           *)
SendAllowed ==
  \A r \in Requests : pc[r] \in SendSection /\ Source(r) \notin sendRace => MaySend(r)

(* The time a request stores is not before the time it decided by. *)
ClockOrder ==
  \A r \in Requests :
    /\ pc[r] \in SendSection \cup {"lookup"} =>
         IF data[r].stamp = NoStamp THEN checkedAt[r] <= clock
                                    ELSE checkedAt[r] = data[r].stamp
    /\ pc[r] = "store" => checkedAt[r] <= storedAt[r]

SendInv ==
  /\ TypeOK
  /\ SendRaceMarked
  /\ ResultsInOrder
  /\ EntryBacked
  /\ EntryLatest
  /\ SendAllowed
  /\ ClockOrder
  /\ NotificationsSpaced
  /\ SuppressedOnlyAfterDelivery

(* The cooldown entry of a source is never wound back, unless two requests *)
(* were between the lookup and the store at once: the store overwrites     *)
(* (line 220), it does not take the later of the two timestamps.           *)
CooldownNeverRewound ==
  [][\A s \in Sources \ sendRace' :
       lastNotifications'[s] >= lastNotifications[s]]_vars

(* The analyzer as a NotificationLedger: a request is open until its       *)
(* cooldown lookup, and what it returned tells the rest.                   *)
LedgerPhase(r) ==
  CASE pc[r] = "send" -> "sending"
    [] pc[r] \in {"storeClock", "store"} -> "delivered"
    [] pc[r] = "failed" -> "lost"
    [] pc[r] = "done" /\ emailed[r] -> "recorded"
    [] pc[r] = "done" /\ ~emailed[r] /\ detected[r] /\ data[r].email -> "suppressed"
    [] pc[r] = "done" /\ ~emailed[r] /\ ~(detected[r] /\ data[r].email) -> "quiet"
    [] OTHER -> "open"

Ledger == INSTANCE NotificationLedger WITH
  source <- [r \in Requests |-> Source(r)],
  phase  <- [r \in Requests |-> LedgerPhase(r)],
  at     <- [r \in Requests |->
               IF LedgerPhase(r) \in {"open", "quiet"} THEN 0 ELSE checkedAt[r]],
  ledger <- lastNotifications

(* The analyzer keeps the promise of NotificationLedger under every        *)
(* interleaving, with failing sends and timestamps out of order.           *)
LedgerSpec == Ledger!Spec

(* Every call of EvaluateAndNotify that started returns or throws: the     *)
(* prune loop does not run for ever.                                       *)
EveryCallReturns ==
  \A r \in Requests : pc[r] # "idle" ~> pc[r] \in Returned
=============================================================================
