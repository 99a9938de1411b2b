------------------------ MODULE PenTestSignalsProofs ------------------------
(* Proofs about the pen-test signal analyzer, for every set of requests,   *)
(* sources and fingerprints and every value of the options.                *)
EXTENDS PenTestSignals, SequenceTheorems, FiniteSetTheorems, TLAPS

(* Every variable keeps its type. *)
THEOREM TypeCorrect == Spec => []TypeOK
<1>1. Init => TypeOK
  BY EmptySeq DEF Init, TypeOK, Labels, Never
<1>2. TypeOK /\ [Next]_vars => TypeOK'
  <2> SUFFICES ASSUME TypeOK, [Next]_vars PROVE TypeOK'
    OBVIOUS
  <2>0. ASSUME NEW r \in Requests PROVE Source(r) \in Sources /\ Now(r) \in Nat
    BY ConstantsAssumption DEF TypeOK, Source, Now, Fingerprint, NoStamp
  <2>. USE DEF TypeOK, Labels, BurstSection, SendSection, Returned, Goto, MarkIf, history
  <2>1. CASE Tick
    BY <2>1 DEF Tick
  <2>2. CASE AllReturned
    BY <2>2 DEF AllReturned, vars
  <2>3. ASSUME NEW r \in Requests, Step(r) PROVE TypeOK'
    <3>1. CASE Skip(r)
      BY <3>1 DEF Skip
    <3>2. CASE ReadBurstClock(r)
      BY <3>2, <2>0 DEF ReadBurstClock
    <3>3. CASE Enqueue(r)
      <4>1. Append(windows[Source(r)], now[r]) \in Seq(Nat)
        BY <2>0, AppendProperties
      <4>. QED BY <3>3, <4>1, <2>0 DEF Enqueue
    <3>4. CASE PeekExpired(r)
      BY <3>4, <2>0 DEF PeekExpired
    <3>5. CASE PeekDone(r)
      BY <3>5 DEF PeekDone
    <3>6. CASE Dequeue(r)
      <4>1. windows[Source(r)] # <<>> => Tail(windows[Source(r)]) \in Seq(Nat)
        BY <2>0, HeadTailProperties
      <4>. QED BY <3>6, <4>1, <2>0 DEF Dequeue
    <3>7. CASE Count(r)
      BY <3>7 DEF Count, IsDetected
    <3>8. CASE ReadCooldownClock(r)
      BY <3>8, <2>0 DEF ReadCooldownClock
    <3>9. CASE LookUpAllows(r)
      BY <3>9, <2>0 DEF LookUpAllows
    <3>10. CASE LookUpSuppresses(r)
      BY <3>10 DEF LookUpSuppresses
    <3>11. CASE Send(r)
      BY <3>11 DEF Send
    <3>12. CASE SendThrows(r)
      BY <3>12 DEF SendThrows
    <3>13. CASE ReadStoreClock(r)
      BY <3>13, <2>0 DEF ReadStoreClock
    <3>14. CASE Store(r)
      BY <3>14, <2>0 DEF Store
    <3>. QED
      BY <2>3, <3>1, <3>2, <3>3, <3>4, <3>5, <3>6, <3>7, <3>8, <3>9, <3>10,
         <3>11, <3>12, <3>13, <3>14 DEF Step
  <2>4. CASE UNCHANGED vars
    BY <2>4 DEF vars
  <2>. QED BY <2>1, <2>2, <2>3, <2>4 DEF Next
<1>. QED BY <1>1, <1>2, PTL DEF Spec

(* The prune loop only discards expired timestamps, unless two requests of *)
(* the source raced between TryPeek and TryDequeue.                        *)
THEOREM PruningIsSafe == Spec => []PrunesOnlyExpired
<1>1. Init => PruneInv
  <2>1. Init => TypeOK
    BY EmptySeq DEF Init, TypeOK, Labels, Never
  <2>. QED BY <2>1 DEF Init, PruneInv, PruneRaceMarked, PrunesOnlyExpired
<1>2. PruneInv /\ TypeOK' /\ [Next]_vars => PruneInv'
  <2> SUFFICES ASSUME PruneInv, TypeOK', [Next]_vars
               PROVE  PruneRaceMarked' /\ PrunesOnlyExpired'
    BY DEF PruneInv
  <2>. USE DEF PruneInv, PruneRaceMarked, PrunesOnlyExpired, HeadExpired, Expired, Source
  <2>1. ASSUME UNCHANGED <<data, pc, now, windows, pruneRace>>
        PROVE  PruneRaceMarked' /\ PrunesOnlyExpired'
    BY <2>1
  \* A step that leaves the queues and `now` alone and does not come to TryDequeue.
  <2>2. ASSUME NEW r \in Requests, NEW label \in Labels, label # "dequeue",
               Goto(r, label), UNCHANGED <<data, now, windows, pruneRace>>
        PROVE  PruneRaceMarked' /\ PrunesOnlyExpired'
    <3>1. \A q \in Requests : pc'[q] = "dequeue" => pc[q] = "dequeue"
      BY <2>2 DEF Goto, TypeOK
    <3>. QED BY <3>1, <2>2
  <2>3. ASSUME NEW r \in Requests, Step(r)
        PROVE  PruneRaceMarked' /\ PrunesOnlyExpired'
    <3>. USE DEF Labels, BurstSection, SendSection, Returned
    <3>1. CASE Skip(r)
      BY <3>1, <2>2 DEF Skip, history
    <3>2. CASE ReadBurstClock(r)
      <4>1. \A q \in Requests : pc'[q] = "dequeue" =>
              pc[q] = "dequeue" /\ q # r /\ now'[q] = now[q]
        BY <3>2 DEF ReadBurstClock, Goto, TypeOK
      <4>2. UNCHANGED <<data, windows, pruneRace>>
        BY <3>2 DEF ReadBurstClock
      <4>. QED BY <4>1, <4>2
    <3>3. CASE Enqueue(r)
      <4>1. \A q \in Requests : pc'[q] = "dequeue" => pc[q] = "dequeue"
        BY <3>3 DEF Enqueue, Goto, TypeOK
      <4>2. UNCHANGED <<data, now, pruneRace>>
        BY <3>3 DEF Enqueue, history
      <4>3. \A q \in Requests : windows[Source(q)] # <<>> =>
              /\ windows'[Source(q)] # <<>>
              /\ Head(windows'[Source(q)]) = Head(windows[Source(q)])
        <5> SUFFICES ASSUME NEW q \in Requests, windows[Source(q)] # <<>>
                     PROVE  /\ windows'[Source(q)] # <<>>
                            /\ Head(windows'[Source(q)]) = Head(windows[Source(q)])
          OBVIOUS
        <5>1. windows[Source(q)] \in Seq(Nat) /\ now[r] \in Nat
          BY ConstantsAssumption DEF TypeOK, Fingerprint
        <5>2. CASE Source(q) = Source(r)
          <6>1. windows'[Source(q)] = Append(windows[Source(q)], now[r])
            BY <3>3, <5>2, ConstantsAssumption DEF Enqueue, TypeOK, Fingerprint
          <6>. QED BY <6>1, <5>1
        <5>3. CASE Source(q) # Source(r)
          BY <3>3, <5>3, ConstantsAssumption DEF Enqueue, TypeOK, Fingerprint
        <5>. QED BY <5>2, <5>3
      <4>. QED BY <4>1, <4>2, <4>3
    <3>4. CASE PeekExpired(r)
      <4>1. UNCHANGED <<data, now, windows>>
        BY <3>4 DEF PeekExpired
      <4>2. \A q \in Requests : pc'[q] = "dequeue" => q = r \/ pc[q] = "dequeue"
        BY <3>4 DEF PeekExpired, Goto, TypeOK
      <4>3. /\ pruneRace \subseteq pruneRace'
            /\ Together(r, {"dequeue"}) => Source(r) \in pruneRace'
        BY <3>4 DEF PeekExpired, MarkIf
      <4>4. HeadExpired(r)
        BY <3>4 DEF PeekExpired
      <4>5. PruneRaceMarked'
        <5> SUFFICES ASSUME NEW p \in Requests, NEW q \in Requests, p # q,
                            Source(p) = Source(q), pc'[p] = "dequeue", pc'[q] = "dequeue"
                     PROVE  Source(q) \in pruneRace'
          BY <4>1
        <5>1. CASE p = r
          BY <5>1, <4>2, <4>3 DEF Together
        <5>2. CASE q = r
          BY <5>2, <4>2, <4>3 DEF Together
        <5>3. CASE p # r /\ q # r
          BY <5>3, <4>2, <4>3
        <5>. QED BY <5>1, <5>2, <5>3
      <4>6. PrunesOnlyExpired'
        BY <4>1, <4>2, <4>3, <4>4
      <4>. QED BY <4>5, <4>6
    <3>5. CASE PeekDone(r)
      BY <3>5, <2>2 DEF PeekDone, history
    <3>6. CASE Dequeue(r)
      \* Who else is about to dequeue from this queue raced with r.
      <4>1. \A q \in Requests : pc'[q] = "dequeue" => pc[q] = "dequeue" /\ q # r
        BY <3>6 DEF Dequeue, Goto, TypeOK
      <4>2. UNCHANGED <<data, now, pruneRace>>
        BY <3>6 DEF Dequeue, history
      <4>3. \A q \in Requests : Source(q) # Source(r) =>
              windows'[Source(q)] = windows[Source(q)]
        BY <3>6, ConstantsAssumption DEF Dequeue, TypeOK, Fingerprint
      <4>4. pc[r] = "dequeue"
        BY <3>6 DEF Dequeue
      <4>. QED BY <4>1, <4>2, <4>3, <4>4
    <3>7. CASE Count(r)
      BY <3>7, <2>2 DEF Count, history
    <3>8. CASE ReadCooldownClock(r)
      BY <3>8, <2>2 DEF ReadCooldownClock, history
    <3>9. CASE LookUpAllows(r)
      BY <3>9, <2>2 DEF LookUpAllows
    <3>10. CASE LookUpSuppresses(r)
      BY <3>10, <2>2 DEF LookUpSuppresses, history
    <3>11. CASE Send(r)
      BY <3>11, <2>2 DEF Send, history
    <3>12. CASE SendThrows(r)
      BY <3>12, <2>2 DEF SendThrows, history
    <3>13. CASE ReadStoreClock(r)
      BY <3>13, <2>2 DEF ReadStoreClock, history
    <3>14. CASE Store(r)
      BY <3>14, <2>2 DEF Store, history
    <3>. QED
      BY <2>3, <3>1, <3>2, <3>3, <3>4, <3>5, <3>6, <3>7, <3>8, <3>9, <3>10,
         <3>11, <3>12, <3>13, <3>14 DEF Step
  <2>4. CASE Tick
    BY <2>1, <2>4 DEF Tick, history
  <2>5. CASE AllReturned
    BY <2>1, <2>5 DEF AllReturned, vars, history
  <2>6. CASE UNCHANGED vars
    BY <2>1, <2>6 DEF vars, history
  <2>. QED BY <2>3, <2>4, <2>5, <2>6 DEF Next
<1>3. PruneInv => PrunesOnlyExpired
  BY DEF PruneInv
<1>. QED BY <1>1, <1>2, <1>3, TypeCorrect, PTL DEF Spec

(* What the notification part of a step may disturb, one invariant at a    *)
(* time, for a step that touches no notification state: r moves between    *)
(* labels outside the send section, or only the clock advances.            *)
LEMMA SendInvFrame ==
  ASSUME SendInv, TypeOK', NEW r \in Requests,
         \A q \in Requests \ {r} : pc'[q] = pc[q] /\ detected'[q] = detected[q],
         \/ pc'[r] = pc[r] /\ detected'[r] = detected[r]
         \/ /\ pc[r] \in BurstSection \cup {"idle"}
            /\ pc'[r] \notin SendSection \cup {"lookup"}
            /\ detected'[r] => pc'[r] \notin BurstSection \cup {"idle"}
            /\ pc'[r] = "done" => ~(detected'[r] /\ data[r].email)
            /\ pc'[r] = "cooldownClock" => detected'[r] /\ data[r].email,
         UNCHANGED <<data, checkedAt, storedAt, lastNotifications, emailed, sendRace>>,
         clock <= clock'
  PROVE  SendInv'
<1>. USE DEF SendInv, Source
<1>1. /\ \A q \in Requests : Recorded(q)' <=> Recorded(q)
      /\ \A q \in Requests : pc'[q] \in SendSection \cup {"lookup"} => pc'[q] = pc[q]
  BY DEF Recorded, ResultsInOrder, BurstSection, SendSection
<1>2. SendRaceMarked'
  BY <1>1 DEF SendRaceMarked
<1>3. ResultsInOrder'
  BY DEF ResultsInOrder, BurstSection, SendSection
<1>4. EntryBacked' /\ EntryLatest' /\ NotificationsSpaced'
  BY <1>1 DEF EntryBacked, EntryLatest, NotificationsSpaced
<1>5. SendAllowed'
  BY <1>1 DEF SendAllowed, MaySend
<1>6. ClockOrder'
  <2>1. \A q \in Requests : checkedAt[q] \in Int
    BY DEF TypeOK
  <2>. QED BY <1>1, <2>1 DEF ClockOrder, TypeOK, SendSection
<1>7. SuppressedOnlyAfterDelivery'
  <2> SUFFICES ASSUME NEW q \in Requests, pc'[q] = "done", detected'[q],
                      data[q].email, ~emailed[q]
               PROVE  \E p \in Requests :
                        /\ Source(p) = Source(q) /\ Recorded(p)
                        /\ checkedAt[q] - storedAt[p] < NotificationCooldown
    BY <1>1 DEF SuppressedOnlyAfterDelivery
  <2>1. pc[q] = "done" /\ detected[q]
    OBVIOUS
  <2>. QED BY <2>1 DEF SuppressedOnlyAfterDelivery
<1>. QED BY <1>2, <1>3, <1>4, <1>5, <1>6, <1>7

LEMMA SendInvStep ==
  ASSUME SendInv, TypeOK', NEW r \in Requests, Step(r)
  PROVE  SendInv'
<1>. USE DEF SendInv, Source, Goto, history
<1>0. /\ \A q \in Requests : /\ data[q].source \in Sources
                              /\ checkedAt[q] \in Int /\ storedAt[q] \in Int
                              /\ lastNotifications[data[q].source] \in Int
      /\ clock \in Int /\ NotificationCooldown \in Nat
  <2>1. ASSUME NEW q \in Requests PROVE data[q].source \in Sources
    BY ConstantsAssumption DEF TypeOK, Fingerprint
  <2>2. ASSUME NEW s \in Sources PROVE lastNotifications[s] \in Int
    BY DEF TypeOK, Never
  <2>. QED BY <2>1, <2>2, ConstantsAssumption DEF TypeOK
\* The steps before the cooldown is looked at.
<1>1. CASE Skip(r) \/ ReadBurstClock(r) \/ Enqueue(r) \/ PeekExpired(r) \/ PeekDone(r)
             \/ Dequeue(r) \/ Count(r)
  <2>1. UNCHANGED <<data, checkedAt, storedAt, lastNotifications, emailed, sendRace, clock>>
    BY <1>1 DEF Skip, ReadBurstClock, Enqueue, PeekExpired, PeekDone, Dequeue, Count
  <2>2. \A q \in Requests \ {r} : pc'[q] = pc[q] /\ detected'[q] = detected[q]
    BY <1>1 DEF Skip, ReadBurstClock, Enqueue, PeekExpired, PeekDone, Dequeue, Count, TypeOK
  <2>3. /\ pc[r] \in BurstSection \cup {"idle"}
        /\ pc'[r] \notin SendSection \cup {"lookup"}
        /\ detected'[r] => pc'[r] \notin BurstSection \cup {"idle"}
        /\ pc'[r] = "done" => ~(detected'[r] /\ data[r].email)
        /\ pc'[r] = "cooldownClock" => detected'[r] /\ data[r].email
    BY <1>1 DEF Skip, ReadBurstClock, Enqueue, PeekExpired, PeekDone, Dequeue, Count,
                TypeOK, ResultsInOrder, BurstSection, SendSection
  <2>. QED BY <1>0, <2>1, <2>2, <2>3, SendInvFrame
<1>2. CASE ReadCooldownClock(r)
  <2>1. /\ UNCHANGED <<data, storedAt, lastNotifications, detected, emailed, sendRace, clock>>
        /\ pc[r] = "cooldownClock" /\ pc'[r] = "lookup"
        /\ checkedAt'[r] = Now(r)
        /\ \A q \in Requests \ {r} : pc'[q] = pc[q] /\ checkedAt'[q] = checkedAt[q]
    BY <1>2 DEF ReadCooldownClock, TypeOK
  <2>2. \A q \in Requests : Recorded(q)' <=> Recorded(q) /\ q # r
    BY <2>1 DEF Recorded
  <2>3. SendRaceMarked' /\ ResultsInOrder' /\ EntryBacked' /\ EntryLatest'
    BY <2>1, <2>2 DEF SendRaceMarked, ResultsInOrder, EntryBacked, EntryLatest,
                      BurstSection, SendSection, Recorded
  <2>4. SendAllowed' /\ ClockOrder'
    BY <2>1, <1>0 DEF SendAllowed, ClockOrder, MaySend, SendSection, Now
  <2>5. NotificationsSpaced'
    BY <2>1, <2>2 DEF NotificationsSpaced
  <2>6. SuppressedOnlyAfterDelivery'
    BY <2>1, <2>2 DEF SuppressedOnlyAfterDelivery, Recorded
  <2>. QED BY <2>3, <2>4, <2>5, <2>6
<1>3. CASE LookUpAllows(r)
  <2>1. /\ UNCHANGED <<data, checkedAt, storedAt, lastNotifications, detected, emailed, clock>>
        /\ pc[r] = "lookup" /\ pc'[r] = "send" /\ MaySend(r)
        /\ \A q \in Requests \ {r} : pc'[q] = pc[q]
        /\ sendRace \subseteq sendRace'
        /\ Together(r, SendSection) => Source(r) \in sendRace'
    BY <1>3 DEF LookUpAllows, TypeOK, MarkIf
  <2>2. \A q \in Requests : Recorded(q)' <=> Recorded(q)
    BY <2>1 DEF Recorded
  <2>3. SendRaceMarked'
    <3> SUFFICES ASSUME NEW p \in Requests, NEW q \in Requests, p # q,
                        Source(p) = Source(q),
                        pc'[p] \in SendSection, pc'[q] \in SendSection
                 PROVE  Source(q) \in sendRace'
      BY <2>1 DEF SendRaceMarked
    <3>1. CASE p # r /\ q # r
      BY <3>1, <2>1 DEF SendRaceMarked
    <3>2. CASE p = r \/ q = r
      BY <3>2, <2>1 DEF Together
    <3>. QED BY <3>1, <3>2
  <2>4. ResultsInOrder' /\ EntryBacked' /\ EntryLatest'
    BY <2>1, <2>2 DEF ResultsInOrder, EntryBacked, EntryLatest, BurstSection
  <2>5. SendAllowed' /\ ClockOrder'
    BY <2>1 DEF SendAllowed, ClockOrder, MaySend, SendSection
  <2>6. NotificationsSpaced' /\ SuppressedOnlyAfterDelivery'
    BY <2>1, <2>2 DEF NotificationsSpaced, SuppressedOnlyAfterDelivery
  <2>. QED BY <2>3, <2>4, <2>5, <2>6
<1>4. CASE LookUpSuppresses(r)
  <2>1. /\ UNCHANGED <<data, checkedAt, storedAt, lastNotifications, detected, emailed,
                       sendRace, clock>>
        /\ pc[r] = "lookup" /\ pc'[r] = "done" /\ ~MaySend(r)
        /\ \A q \in Requests \ {r} : pc'[q] = pc[q]
    BY <1>4 DEF LookUpSuppresses, TypeOK
  <2>2. \A q \in Requests : Recorded(q)' <=> Recorded(q)
    BY <2>1 DEF Recorded, ResultsInOrder
  <2>3. SendRaceMarked' /\ ResultsInOrder' /\ EntryBacked' /\ EntryLatest'
    BY <2>1, <2>2 DEF SendRaceMarked, ResultsInOrder, EntryBacked, EntryLatest,
                      BurstSection, SendSection
  <2>4. SendAllowed' /\ ClockOrder' /\ NotificationsSpaced'
    BY <2>1, <2>2 DEF SendAllowed, ClockOrder, MaySend, SendSection, NotificationsSpaced
  \* The entry that refused r is the timestamp of a recorded notification.
  <2>5. PICK q \in Requests :
          Source(q) = Source(r) /\ Recorded(q) /\ storedAt[q] = lastNotifications[Source(r)]
    BY <1>0, <2>1 DEF EntryBacked, MaySend
  <2>6. checkedAt[r] - storedAt[q] < NotificationCooldown
    BY <1>0, <2>1, <2>5 DEF MaySend
  <2>7. SuppressedOnlyAfterDelivery'
    BY <2>1, <2>2, <2>5, <2>6 DEF SuppressedOnlyAfterDelivery
  <2>. QED BY <2>3, <2>4, <2>7
<1>5. CASE Send(r) \/ SendThrows(r) \/ ReadStoreClock(r)
  <2>1. /\ UNCHANGED <<data, checkedAt, lastNotifications, detected, sendRace, clock>>
        /\ pc[r] \in SendSection /\ pc'[r] # "done"
        /\ pc'[r] \notin BurstSection \cup {"idle", "lookup"}
        /\ \A q \in Requests \ {r} :
             pc'[q] = pc[q] /\ emailed'[q] = emailed[q] /\ storedAt'[q] = storedAt[q]
        /\ pc'[r] = "store" => storedAt'[r] = Now(r)
        /\ emailed'[r] => pc'[r] \in {"storeClock", "store"}
        /\ pc'[r] \in {"storeClock", "store"} => emailed'[r]
    BY <1>5 DEF Send, SendThrows, ReadStoreClock, TypeOK, ResultsInOrder, SendSection,
                BurstSection
  <2>2. \A q \in Requests : Recorded(q)' <=> Recorded(q) /\ q # r
    BY <2>1 DEF Recorded, SendSection
  <2>3. SendRaceMarked' /\ ResultsInOrder'
    BY <2>1 DEF SendRaceMarked, ResultsInOrder
  <2>4. EntryBacked' /\ EntryLatest' /\ NotificationsSpaced'
    <3>1. \A q \in Requests : Recorded(q) => q # r
      BY <2>1 DEF Recorded, SendSection
    <3>. QED BY <2>1, <2>2, <3>1 DEF EntryBacked, EntryLatest, NotificationsSpaced
  <2>5. SendAllowed' /\ ClockOrder'
    BY <1>0, <2>1 DEF SendAllowed, ClockOrder, MaySend, SendSection, Now
  <2>6. SuppressedOnlyAfterDelivery'
    <3>1. \A q \in Requests : Recorded(q) => q # r
      BY <2>1 DEF Recorded, SendSection
    <3>. QED BY <2>1, <2>2, <3>1 DEF SuppressedOnlyAfterDelivery
  <2>. QED BY <2>3, <2>4, <2>5, <2>6
<1>6. CASE Store(r)
  <2>1. /\ UNCHANGED <<data, checkedAt, storedAt, detected, emailed, sendRace, clock>>
        /\ pc[r] = "store" /\ pc'[r] = "done" /\ emailed[r]
        /\ \A q \in Requests \ {r} : pc'[q] = pc[q]
        /\ lastNotifications'[Source(r)] = storedAt[r]
        /\ \A s \in Sources \ {Source(r)} : lastNotifications'[s] = lastNotifications[s]
    BY <1>0, <1>6 DEF Store, TypeOK, ResultsInOrder
  <2>2. \A q \in Requests : Recorded(q)' <=> Recorded(q) \/ q = r
    BY <2>1 DEF Recorded
  <2>3. SendRaceMarked' /\ ResultsInOrder' /\ ClockOrder'
    BY <2>1 DEF SendRaceMarked, ResultsInOrder, ClockOrder, BurstSection, SendSection
  <2>4. EntryBacked'
    BY <1>0, <2>1, <2>2 DEF EntryBacked
  \* Without a race the lookup's verdict still stands when the store comes.
  <2>5. Source(r) \notin sendRace => MaySend(r) /\ checkedAt[r] <= storedAt[r]
    BY <2>1 DEF SendAllowed, ClockOrder, SendSection
  <2>6. \A q \in Requests : /\ Recorded(q) /\ Source(q) = Source(r)
                            /\ Source(r) \notin sendRace
          => storedAt[q] + NotificationCooldown <= checkedAt[r]
    <3> SUFFICES ASSUME NEW q \in Requests, Recorded(q), Source(q) = Source(r),
                        Source(r) \notin sendRace
                 PROVE  storedAt[q] + NotificationCooldown <= checkedAt[r]
      OBVIOUS
    <3>1. storedAt[q] <= lastNotifications[Source(r)] /\ storedAt[q] \in Nat
      BY DEF EntryLatest, TypeOK
    <3>. QED BY <1>0, <2>5, <3>1 DEF MaySend, Never
  <2>7. EntryLatest'
    BY <1>0, <2>1, <2>2, <2>5, <2>6 DEF EntryLatest
  <2>8. SendAllowed'
    BY <1>0, <2>1 DEF SendAllowed, SendRaceMarked, MaySend, SendSection
  <2>9. NotificationsSpaced'
    BY <2>1, <2>2, <2>6 DEF NotificationsSpaced
  <2>10. SuppressedOnlyAfterDelivery'
    BY <2>1, <2>2 DEF SuppressedOnlyAfterDelivery
  <2>. QED BY <2>3, <2>4, <2>7, <2>8, <2>9, <2>10
<1>. QED BY <1>1, <1>2, <1>3, <1>4, <1>5, <1>6 DEF Step

LEMMA SendInvInductive == Spec => []SendInv
<1>1. Init => SendInv
  <2>1. Init => TypeOK
    BY EmptySeq DEF Init, TypeOK, Labels, Never
  <2>2. ASSUME Init
        PROVE  \A r \in Requests : pc[r] = "idle" /\ ~emailed[r] /\ ~detected[r]
    BY <2>2 DEF Init
  <2>3. ASSUME Init, NEW s \in Sources PROVE lastNotifications[s] = Never
    BY <2>3 DEF Init
  <2>. QED
    BY <2>1, <2>2, <2>3
       DEF SendInv, SendRaceMarked, ResultsInOrder, EntryBacked, EntryLatest, SendAllowed,
           ClockOrder, NotificationsSpaced, SuppressedOnlyAfterDelivery, Recorded, SendSection
<1>2. SendInv /\ TypeOK' /\ [Next]_vars => SendInv'
  <2> SUFFICES ASSUME SendInv, TypeOK', [Next]_vars PROVE SendInv'
    OBVIOUS
  <2>1. CASE \E r \in Requests : Step(r)
    BY <2>1, SendInvStep
  <2>2. CASE Tick \/ AllReturned \/ UNCHANGED vars
    <3>1. /\ UNCHANGED <<data, pc, detected, checkedAt, storedAt, lastNotifications,
                         emailed, sendRace>>
          /\ clock <= clock'
      BY <2>2 DEF Tick, AllReturned, vars, history, SendInv, TypeOK
    <3>2. CASE Requests = {}
      BY <3>1, <3>2 DEF SendInv, SendRaceMarked, ResultsInOrder, EntryBacked, EntryLatest,
        SendAllowed, ClockOrder, NotificationsSpaced, SuppressedOnlyAfterDelivery
    <3>3. ASSUME NEW r \in Requests PROVE SendInv'
      BY <3>1, SendInvFrame
    <3>. QED BY <3>2, <3>3
  <2>. QED BY <2>1, <2>2 DEF Next
<1>. QED BY <1>1, <1>2, TypeCorrect, PTL DEF Spec

(* Without a race two recorded notifications of a source are a cooldown    *)
(* apart.                                                                  *)
THEOREM CooldownHolds == Spec => []NotificationsSpaced
<1>1. SendInv => NotificationsSpaced
  BY DEF SendInv
<1>. QED BY <1>1, SendInvInductive, PTL

(* Whatever the interleaving, only a notification that went out within the *)
(* cooldown suppresses another.                                            *)
THEOREM SuppressionIsJustified == Spec => []SuppressedOnlyAfterDelivery
<1>1. SendInv => SuppressedOnlyAfterDelivery
  BY DEF SendInv
<1>. QED BY <1>1, SendInvInductive, PTL

(* Without a race the cooldown entry only moves forward. *)
THEOREM CooldownMovesForward == Spec => CooldownNeverRewound
<1>1. SendInv /\ [Next]_vars =>
        [\A s \in Sources \ sendRace' : lastNotifications'[s] >= lastNotifications[s]]_vars
  <2> SUFFICES ASSUME SendInv, [Next]_vars, NEW s \in Sources \ sendRace'
               PROVE  lastNotifications'[s] >= lastNotifications[s]
    OBVIOUS
  <2>0. /\ lastNotifications[s] \in Nat \cup {-1}
        /\ \A r \in Requests : checkedAt[r] \in Nat /\ storedAt[r] \in Nat
        /\ NotificationCooldown \in Nat
    BY ConstantsAssumption DEF SendInv, TypeOK, Never
  <2>1. CASE lastNotifications' = lastNotifications
    BY <2>0, <2>1
  <2>2. ASSUME NEW r \in Requests, Store(r)
        PROVE  lastNotifications'[s] >= lastNotifications[s]
    <3>1. /\ sendRace' = sendRace
          /\ lastNotifications'[s] =
               IF s = Source(r) THEN storedAt[r] ELSE lastNotifications[s]
      BY <2>2 DEF Store, SendInv, TypeOK, history
    <3>2. CASE s = Source(r)
      <4>1. MaySend(r) /\ checkedAt[r] <= storedAt[r]
        BY <2>2, <3>1, <3>2 DEF Store, SendInv, SendAllowed, ClockOrder, SendSection
      <4>. QED BY <2>0, <3>1, <3>2, <4>1 DEF MaySend, Never
    <3>3. CASE s # Source(r)
      BY <2>0, <3>1, <3>3
    <3>. QED BY <3>2, <3>3
  <2>3. \/ lastNotifications' = lastNotifications
        \/ \E r \in Requests : Store(r)
    BY DEF Next, Step, Tick, AllReturned, vars, Skip, ReadBurstClock, Enqueue, PeekExpired,
       PeekDone, Dequeue, Count, ReadCooldownClock, LookUpAllows, LookUpSuppresses, Send,
       SendThrows, ReadStoreClock
  <2>. QED BY <2>1, <2>2, <2>3
<1>. QED BY <1>1, SendInvInductive, PTL DEF Spec, CooldownNeverRewound

-----------------------------------------------------------------------------
(* The mapped variables of NotificationLedger. *)
LPhase  == [r \in Requests |-> LedgerPhase(r)]
LAt     == [r \in Requests |->
              IF LedgerPhase(r) \in {"open", "quiet"} THEN 0 ELSE checkedAt[r]]
LSource == [r \in Requests |-> Source(r)]

(* Every step of the analyzer is a step of the ledger or leaves it alone. *)
LEMMA LedgerStep ==
  ASSUME SendInv, TypeOK', NEW r \in Requests, Step(r)
  PROVE  [Ledger!Next]_(Ledger!vars)
<1>. USE DEF Goto, history
<1>0. /\ \A q \in Requests : Source(q) \in Sources
      /\ ConstantsAssumption
      /\ TypeOK /\ ResultsInOrder /\ ClockOrder
      /\ TypeOK'
  <2>1. TypeOK /\ ResultsInOrder /\ ClockOrder
    BY DEF SendInv
  <2>2. ASSUME NEW q \in Requests PROVE Source(q) \in Sources
    BY <2>1, ConstantsAssumption DEF TypeOK, Fingerprint, Source
  <2>. QED BY <2>1, <2>2, ConstantsAssumption
<1>1. LSource' = LSource
  <2>1. data' = data
    BY DEF Step, Skip, ReadBurstClock, Enqueue, PeekExpired, PeekDone, Dequeue, Count,
       ReadCooldownClock, LookUpAllows, LookUpSuppresses, Send, SendThrows, ReadStoreClock, Store
  <2>. QED BY <2>1 DEF LSource, Source
\* Steps that do not move r's mapped phase except to "quiet".
<1>2. CASE Skip(r) \/ ReadBurstClock(r) \/ Enqueue(r) \/ PeekExpired(r) \/ PeekDone(r)
             \/ Dequeue(r) \/ Count(r) \/ ReadCooldownClock(r)
  <2>1. /\ lastNotifications' = lastNotifications
        /\ LedgerPhase(r) = "open"
        /\ LedgerPhase(r)' \in {"open", "quiet"}
        /\ \A q \in Requests \ {r} : /\ LedgerPhase(q)' = LedgerPhase(q)
                                     /\ checkedAt'[q] = checkedAt[q]
    <3>1. /\ lastNotifications' = lastNotifications
          /\ \A q \in Requests \ {r} : /\ pc'[q] = pc[q] /\ emailed'[q] = emailed[q]
                                       /\ detected'[q] = detected[q] /\ data'[q] = data[q]
                                       /\ checkedAt'[q] = checkedAt[q]
      BY <1>0, <1>2 DEF Skip, ReadBurstClock, Enqueue, PeekExpired, PeekDone, Dequeue, Count,
                 ReadCooldownClock, TypeOK
    <3>2. /\ pc[r] \in BurstSection \cup {"idle", "cooldownClock"}
          /\ ~emailed'[r]
          /\ \/ pc'[r] \in BurstSection \cup {"cooldownClock", "lookup"}
             \/ pc'[r] = "done" /\ ~(detected'[r] /\ data'[r].email)
      BY <1>0, <1>2 DEF Skip, ReadBurstClock, Enqueue, PeekExpired, PeekDone, Dequeue, Count,
                 ReadCooldownClock, TypeOK, ResultsInOrder, BurstSection
    <3>. QED BY <3>1, <3>2 DEF LedgerPhase, BurstSection
  <2>2. LAt' = LAt
    BY <2>1 DEF LAt
  <2>3. CASE LedgerPhase(r)' = "open"
    <3>1. LPhase' = LPhase
      BY <2>1, <2>3 DEF LPhase
    <3>. QED BY <1>1, <2>1, <2>2, <3>1 DEF Ledger!vars, LPhase, LAt, LSource
  <2>4. CASE LedgerPhase(r)' = "quiet"
    <3>1. LPhase' = [LPhase EXCEPT ![r] = "quiet"]
      BY <2>1, <2>4 DEF LPhase
    <3>2. LPhase[r] = "open"
      BY <2>1 DEF LPhase
    <3>3. Ledger!Pass(r)
      BY <1>1, <2>1, <2>2, <3>1, <3>2 DEF Ledger!Pass, Ledger!Move, LPhase, LAt, LSource
    <3>. QED BY <3>3 DEF Ledger!Next
  <2>. QED BY <2>1, <2>3, <2>4
<1>3. CASE LookUpAllows(r)
  <2>1. /\ lastNotifications' = lastNotifications /\ checkedAt' = checkedAt
        /\ pc[r] = "lookup" /\ MaySend(r)
        /\ LedgerPhase(r) = "open" /\ LedgerPhase(r)' = "sending"
        /\ \A q \in Requests \ {r} : LedgerPhase(q)' = LedgerPhase(q)
    BY <1>0, <1>3 DEF LookUpAllows, LedgerPhase, TypeOK
  <2>2. LPhase[r] = "open" /\ LPhase' = [LPhase EXCEPT ![r] = "sending"]
    BY <2>1 DEF LPhase
  <2>3. LAt'[r] = checkedAt[r] /\ LAt' = [LAt EXCEPT ![r] = LAt'[r]] /\ LAt'[r] \in Nat
    BY <1>0, <2>1 DEF LAt, TypeOK
  <2>4. \/ lastNotifications[LSource[r]] = -1
        \/ LAt'[r] - lastNotifications[LSource[r]] >= NotificationCooldown
    BY <2>1, <2>3 DEF MaySend, Never, LSource
  <2>5. Ledger!Allow(r)
    BY <1>1, <2>1, <2>2, <2>3, <2>4
       DEF Ledger!Allow, Ledger!Move, Ledger!Consult, Ledger!Never, LPhase, LAt, LSource
  <2>. QED BY <2>5 DEF Ledger!Next
<1>4. CASE LookUpSuppresses(r)
  <2>1. /\ lastNotifications' = lastNotifications /\ checkedAt' = checkedAt
        /\ pc[r] = "lookup" /\ ~MaySend(r)
        /\ LedgerPhase(r) = "open" /\ LedgerPhase(r)' = "suppressed"
        /\ \A q \in Requests \ {r} : LedgerPhase(q)' = LedgerPhase(q)
    BY <1>0, <1>4 DEF LookUpSuppresses, LedgerPhase, TypeOK, ResultsInOrder,
       SendInv
  <2>2. LPhase[r] = "open" /\ LPhase' = [LPhase EXCEPT ![r] = "suppressed"]
    BY <2>1 DEF LPhase
  <2>3. LAt'[r] = checkedAt[r] /\ LAt' = [LAt EXCEPT ![r] = LAt'[r]] /\ LAt'[r] \in Nat
    BY <1>0, <2>1 DEF LAt, TypeOK
  <2>4. /\ lastNotifications[LSource[r]] # -1
        /\ LAt'[r] - lastNotifications[LSource[r]] < NotificationCooldown
    <3>1. lastNotifications[Source(r)] \in Int /\ checkedAt[r] \in Int
      BY <1>0 DEF TypeOK, Never
    <3>. QED BY <1>0, <2>1, <2>3, <3>1 DEF MaySend, Never, LSource, ConstantsAssumption
  <2>5. Ledger!Suppress(r)
    BY <1>1, <2>1, <2>2, <2>3, <2>4
       DEF Ledger!Suppress, Ledger!Move, Ledger!Consult, Ledger!Never, LPhase, LAt, LSource
  <2>. QED BY <2>5 DEF Ledger!Next
<1>5. CASE Send(r) \/ SendThrows(r)
  <2>1. /\ lastNotifications' = lastNotifications /\ checkedAt' = checkedAt
        /\ LedgerPhase(r) = "sending" /\ LedgerPhase(r)' \in {"delivered", "lost"}
        /\ \A q \in Requests \ {r} : LedgerPhase(q)' = LedgerPhase(q)
    BY <1>0, <1>5 DEF Send, SendThrows, LedgerPhase, TypeOK
  <2>2. LPhase[r] = "sending" /\ LPhase' = [LPhase EXCEPT ![r] = LedgerPhase(r)']
    BY <2>1 DEF LPhase
  <2>3. LAt' = LAt
    BY <2>1 DEF LAt
  <2>4. Ledger!Deliver(r) \/ Ledger!Lose(r)
    BY <1>1, <2>1, <2>2, <2>3
       DEF Ledger!Deliver, Ledger!Lose, Ledger!Move, LPhase, LAt, LSource
  <2>. QED BY <2>4 DEF Ledger!Next
<1>6. CASE ReadStoreClock(r)
  <2>1. /\ lastNotifications' = lastNotifications /\ checkedAt' = checkedAt
        /\ \A q \in Requests : LedgerPhase(q)' = LedgerPhase(q)
    BY <1>0, <1>6 DEF ReadStoreClock, LedgerPhase, TypeOK
  <2>2. LPhase' = LPhase /\ LAt' = LAt
    BY <2>1 DEF LPhase, LAt
  <2>. QED BY <1>1, <2>1, <2>2 DEF Ledger!vars, LPhase, LAt, LSource
<1>7. CASE Store(r)
  <2>1. /\ pc[r] = "store" /\ checkedAt' = checkedAt
        /\ LedgerPhase(r) = "delivered" /\ LedgerPhase(r)' = "recorded"
        /\ \A q \in Requests \ {r} : LedgerPhase(q)' = LedgerPhase(q)
    BY <1>0, <1>7 DEF Store, LedgerPhase, TypeOK, ResultsInOrder
  <2>2. LPhase[r] = "delivered" /\ LPhase' = [LPhase EXCEPT ![r] = "recorded"]
    BY <2>1 DEF LPhase
  <2>3. LAt' = LAt /\ LAt[r] = checkedAt[r]
    BY <2>1 DEF LAt
  <2>4. /\ lastNotifications' = [lastNotifications EXCEPT ![LSource[r]] = storedAt[r]]
        /\ lastNotifications'[LSource[r]] = storedAt[r]
        /\ storedAt[r] \in Nat /\ storedAt[r] >= LAt[r]
    BY <1>0, <1>7, <2>1, <2>3 DEF Store, LSource, TypeOK, ClockOrder
  <2>5. Ledger!Record(r)
    BY <1>1, <2>2, <2>3, <2>4 DEF Ledger!Record, Ledger!Move, LPhase, LAt, LSource
  <2>. QED BY <2>5 DEF Ledger!Next
<1>. QED BY <1>2, <1>3, <1>4, <1>5, <1>6, <1>7 DEF Step

(* The analyzer implements the ledger: its initial states map to initial   *)
(* states, its steps to steps of the ledger or to stutters.                *)
THEOREM AnalyzerImplementsLedger == Spec => LedgerSpec
<1>1. Init => Ledger!Init
  <2> SUFFICES ASSUME Init PROVE Ledger!Init
    OBVIOUS
  <2>1. \A r \in Requests : LedgerPhase(r) = "open"
    BY DEF Init, LedgerPhase
  <2>2. \A r \in Requests : Source(r) \in Sources
    BY ConstantsAssumption DEF Init, Source, Fingerprint
  <2>. QED BY <2>1, <2>2 DEF Init, Ledger!Init, Ledger!Never, Never
<1>2. SendInv /\ TypeOK' /\ [Next]_vars => [Ledger!Next]_(Ledger!vars)
  <2> SUFFICES ASSUME SendInv, TypeOK', [Next]_vars PROVE [Ledger!Next]_(Ledger!vars)
    OBVIOUS
  <2>1. CASE \E r \in Requests : Step(r)
    BY <2>1, LedgerStep
  <2>2. CASE Tick \/ AllReturned \/ UNCHANGED vars
    <3>1. UNCHANGED <<data, pc, detected, emailed, checkedAt, lastNotifications>>
      BY <2>2 DEF Tick, AllReturned, vars
    <3>2. UNCHANGED <<LSource, LPhase, LAt>>
      BY <3>1 DEF LSource, LPhase, LAt, LedgerPhase, Source
    <3>. QED BY <3>1, <3>2 DEF Ledger!vars, LSource, LPhase, LAt
  <2>. QED BY <2>1, <2>2 DEF Next
<1>. QED
  BY <1>1, <1>2, TypeCorrect, SendInvInductive, PTL DEF Spec, LedgerSpec, Ledger!Spec
-----------------------------------------------------------------------------
(* The burst window.                                                       *)

LEMMA SourcesTyped ==
  ASSUME TypeOK
  PROVE  \A r \in Requests : Source(r) \in Sources /\ windows[Source(r)] \in Seq(Nat)
                             /\ now[r] \in Nat
BY ConstantsAssumption DEF TypeOK, Source, Fingerprint

(* A step that leaves the queue of s, who has entered it and who is inside *)
(* alone, except that some may leave.                                      *)
LEMMA BurstFrame ==
  ASSUME TypeOK, NEW s \in Sources,
         OneInside(s), OwnStampLast(s), QueueTraced(s),
         data' = data, windows'[s] = windows[s],
         \A q \in Requests : Source(q) = s =>
           /\ pc'[q] \in BurstSection => pc'[q] = pc[q]
           /\ q \in Entered(s)' <=> q \in Entered(s)
           /\ q \in Entered(s) \/ pc'[q] \in BurstSection => now'[q] = now[q]
  PROVE  OneInside(s)' /\ OwnStampLast(s)' /\ QueueTraced(s)'
<1>1. OneInside(s)'
  <2>1. \A q \in Inside(s)' : q \in Inside(s)
    BY DEF Inside, Source
  <2> QED BY <2>1 DEF OneInside
<1>2. OwnStampLast(s)'
  BY DEF OwnStampLast, Source, BurstSection, HeadExpired, Expired
<1>3. Entered(s)' = Entered(s) /\ \A q \in Entered(s) : now'[q] = now[q]
  BY DEF Entered, Source
<1>4. QueueTraced(s)'
  BY <1>3 DEF QueueTraced
<1> QED BY <1>1, <1>2, <1>4

(* A step of another source, or outside IsBurstRateExceeded. *)
LEMMA BurstElsewhere ==
  ASSUME TypeOK, BurstInv, NEW r \in Requests, Step(r), NEW s \in Sources \ contended',
         \/ Source(r) # s
         \/ Skip(r) \/ Count(r) \/ ReadCooldownClock(r) \/ LookUpAllows(r)
         \/ LookUpSuppresses(r) \/ Send(r) \/ SendThrows(r) \/ ReadStoreClock(r) \/ Store(r)
  PROVE  OneInside(s)' /\ OwnStampLast(s)' /\ QueueTraced(s)'
<1>. USE DEF Goto, history
<1>1. data' = data /\ contended \subseteq contended'
  BY DEF Step, Skip, ReadBurstClock, Enqueue, PeekExpired, PeekDone, Dequeue, Count,
     ReadCooldownClock, LookUpAllows, LookUpSuppresses, Send, SendThrows, ReadStoreClock,
     Store, MarkIf
<1>2. OneInside(s) /\ OwnStampLast(s) /\ QueueTraced(s)
  BY <1>1 DEF BurstInv
<1>3. \A q \in Requests \ {r} : pc'[q] = pc[q] /\ now'[q] = now[q]
  BY DEF Step, Skip, ReadBurstClock, Enqueue, PeekExpired, PeekDone, Dequeue, Count,
     ReadCooldownClock, LookUpAllows, LookUpSuppresses, Send, SendThrows, ReadStoreClock,
     Store, TypeOK
<1>4. CASE Source(r) # s
  <2>1. windows'[s] = windows[s]
    <3>1. Source(r) \in Sources /\ windows \in [Sources -> Seq(Nat)]
      BY SourcesTyped DEF TypeOK
    <3> QED BY <1>4, <3>1 DEF Step, Skip, ReadBurstClock, Enqueue, PeekExpired, PeekDone,
          Dequeue, Count, ReadCooldownClock, LookUpAllows, LookUpSuppresses, Send,
          SendThrows, ReadStoreClock, Store
  <2> QED BY <1>1, <1>2, <1>3, <1>4, <2>1, BurstFrame DEF Entered, Source
<1>5. CASE \/ Skip(r) \/ Count(r) \/ ReadCooldownClock(r) \/ LookUpAllows(r)
           \/ LookUpSuppresses(r) \/ Send(r) \/ SendThrows(r) \/ ReadStoreClock(r) \/ Store(r)
  <2>1. windows' = windows /\ now' = now
    BY <1>5 DEF Skip, Count, ReadCooldownClock, LookUpAllows, LookUpSuppresses, Send,
       SendThrows, ReadStoreClock, Store
  <2>2. /\ pc'[r] \notin BurstSection \cup {"idle"}
        /\ pc[r] # "enqueue"
        /\ pc[r] = "idle" => ~data[r].enabled
    BY <1>5 DEF Skip, Count, ReadCooldownClock, LookUpAllows, LookUpSuppresses, Send,
       SendThrows, ReadStoreClock, Store, TypeOK, BurstSection
  <2>3. r \in Entered(s)' <=> r \in Entered(s)
    BY <1>1, <2>2 DEF Entered, Source, BurstSection
  <2> QED BY <1>1, <1>2, <1>3, <2>1, <2>2, <2>3, BurstFrame DEF Entered, Source
<1> QED BY <1>4, <1>5

(* A request comes in: the source is not contended, so no other is inside. *)
LEMMA BurstBegins ==
  ASSUME TypeOK, BurstInv, NEW r \in Requests, ReadBurstClock(r),
         NEW s \in Sources \ contended', s = Source(r)
  PROVE  OneInside(s)' /\ OwnStampLast(s)' /\ QueueTraced(s)'
<1>1. /\ UNCHANGED <<data, windows>>
      /\ pc[r] = "idle" /\ pc'[r] = "enqueue"
      /\ \A q \in Requests \ {r} : pc'[q] = pc[q] /\ now'[q] = now[q]
      /\ s \notin contended /\ ~Together(r, BurstSection)
  BY DEF ReadBurstClock, Goto, TypeOK, MarkIf
<1>2. s \in Sources /\ OneInside(s) /\ OwnStampLast(s) /\ QueueTraced(s)
  BY <1>1, SourcesTyped DEF BurstInv
<1>3. \A q \in Requests \ {r} : Source(q) = s => pc[q] \notin BurstSection
  BY <1>1 DEF Together
<1>4. OneInside(s)'
  <2>1. \A q \in Inside(s)' : q = r
    BY <1>1, <1>3 DEF Inside, Source
  <2>2. data'[r].enabled
    BY DEF ReadBurstClock
  <2> QED BY <2>1, <2>2 DEF OneInside
<1>5. OwnStampLast(s)'
  BY <1>1, <1>2 DEF OwnStampLast, Source, HeadExpired, Expired
<1>6. Entered(s)' = Entered(s) /\ \A q \in Entered(s) : now'[q] = now[q]
  BY <1>1 DEF Entered, Source
<1>7. QueueTraced(s)'
  BY <1>1, <1>2, <1>6 DEF QueueTraced, Source
<1> QED BY <1>4, <1>5, <1>7

(* It appends its timestamp. *)
LEMMA BurstEnters ==
  ASSUME TypeOK, BurstInv, NEW r \in Requests, Enqueue(r),
         NEW s \in Sources \ contended', s = Source(r)
  PROVE  OneInside(s)' /\ OwnStampLast(s)' /\ QueueTraced(s)'
<1> DEFINE old == windows[s]
           new == windows'[s]
<1>1. /\ UNCHANGED <<data, now, contended>>
      /\ pc[r] = "enqueue" /\ pc'[r] = "peek"
      /\ \A q \in Requests \ {r} : pc'[q] = pc[q]
  BY DEF Enqueue, Goto, TypeOK, history
<1>2. s \in Sources /\ OneInside(s) /\ OwnStampLast(s) /\ QueueTraced(s)
  BY <1>1, SourcesTyped DEF BurstInv
<1>3. old \in Seq(Nat) /\ new = Append(old, now[r]) /\ now[r] \in Nat
  BY <1>2, SourcesTyped DEF Enqueue, TypeOK
<1>4. /\ Len(new) = Len(old) + 1 /\ Len(old) \in Nat
      /\ new[Len(new)] = now[r] /\ new # <<>>
      /\ \A i \in 1 .. Len(old) : new[i] = old[i]
  BY <1>3
<1>5. \A q \in Requests \ {r} : Source(q) = s => pc'[q] \notin BurstSection
  BY <1>1, <1>2 DEF OneInside, Inside, BurstSection
<1>6. OneInside(s)'
  <2>1. \A q \in Inside(s)' : q = r
    BY <1>1, <1>5 DEF Inside, Source
  <2>2. data'[r].enabled
    BY <1>1, <1>2 DEF OneInside, Inside, BurstSection
  <2> QED BY <2>1, <2>2 DEF OneInside
<1>7. OwnStampLast(s)'
  BY <1>1, <1>4, <1>5 DEF OwnStampLast, Source, BurstSection
<1>8. Entered(s)' = IF data[r].enabled THEN Entered(s) \cup {r} ELSE Entered(s)
  BY <1>1 DEF Entered, Source
<1>9. data[r].enabled /\ r \notin Entered(s)
  BY <1>1, <1>2 DEF Entered, OneInside, Inside, BurstSection
<1>10. QueueTraced(s)'
  <2> DEFINE places == 1 .. Len(old)
  <2>1. PICK who \in [places -> Entered(s)] :
          /\ \A i, j \in places : who[i] = who[j] => i = j
          /\ \A i \in places : old[i] = now[who[i]]
          /\ \A q \in Entered(s) : \E i \in places :
               who[i] = q \/ old[i] - now[q] > BurstWindow
    BY <1>2 DEF QueueTraced
  <2> DEFINE who2 == [i \in 1 .. Len(new) |-> IF i = Len(new) THEN r ELSE who[i]]
  <2>2. \A i \in 1 .. Len(new) : i = Len(new) \/ i \in places
    BY <1>4
  <2>3. who2 \in [1 .. Len(new) -> Entered(s)']
    BY <1>8, <1>9, <2>2
  <2>4. \A i, j \in 1 .. Len(new) : who2[i] = who2[j] => i = j
    <3>1. \A i \in places : who[i] # r
      BY <1>9, <2>1
    <3> QED BY <2>1, <2>2, <3>1
  <2>5. \A i \in 1 .. Len(new) : new[i] = now[who2[i]]
    BY <1>4, <2>1, <2>2
  <2>6. \A q \in Entered(s)' : \E i \in 1 .. Len(new) :
          who2[i] = q \/ new[i] - now[q] > BurstWindow
    <3> SUFFICES ASSUME NEW q \in Entered(s)'
                 PROVE  \E i \in 1 .. Len(new) :
                          who2[i] = q \/ new[i] - now[q] > BurstWindow
      OBVIOUS
    <3>1. CASE q = r
      BY <1>4, <3>1
    <3>2. CASE q # r
      <4>1. PICK i \in places : who[i] = q \/ old[i] - now[q] > BurstWindow
        BY <1>8, <2>1, <3>2
      <4>2. i \in 1 .. Len(new) /\ i # Len(new) /\ new[i] = old[i]
        BY <1>4
      <4> QED BY <4>1, <4>2
    <3> QED BY <3>1, <3>2
  <2> HIDE DEF who2, places
  <2> QED BY <1>1, <2>3, <2>4, <2>5, <2>6 DEF QueueTraced
<1> QED BY <1>6, <1>7, <1>10

LEMMA BurstPeeks ==
  ASSUME TypeOK, BurstInv, NEW r \in Requests, PeekExpired(r) \/ PeekDone(r),
         NEW s \in Sources \ contended', s = Source(r)
  PROVE  OneInside(s)' /\ OwnStampLast(s)' /\ QueueTraced(s)'
<1>1. /\ UNCHANGED <<data, now, windows, contended>>
      /\ pc[r] = "peek" /\ pc'[r] \in {"dequeue", "count"}
      /\ pc'[r] = "dequeue" <=> HeadExpired(r)
      /\ \A q \in Requests \ {r} : pc'[q] = pc[q]
  BY DEF PeekExpired, PeekDone, Goto, TypeOK, history
<1>2. s \in Sources /\ OneInside(s) /\ OwnStampLast(s) /\ QueueTraced(s)
  BY <1>1, SourcesTyped DEF BurstInv
<1>3. OneInside(s)'
  BY <1>1, <1>2 DEF OneInside, Inside, Source, BurstSection
<1>4. OwnStampLast(s)'
  BY <1>1, <1>2 DEF OwnStampLast, Source, HeadExpired, Expired
<1>5. Entered(s)' = Entered(s)
  BY <1>1 DEF Entered, Source
<1>6. QueueTraced(s)'
  BY <1>1, <1>2, <1>5 DEF QueueTraced, Source
<1> QED BY <1>3, <1>4, <1>6

(* It discards a timestamp that is older than its own by more than the     *)
(* window: its own, the last of the queue, stays and accounts for the one  *)
(* discarded and for all that this one accounted for.                      *)
LEMMA BurstPrunes ==
  ASSUME TypeOK, BurstInv, NEW r \in Requests, Dequeue(r),
         NEW s \in Sources \ contended', s = Source(r)
  PROVE  OneInside(s)' /\ OwnStampLast(s)' /\ QueueTraced(s)'
<1> DEFINE old == windows[s]
           new == windows'[s]
<1>1. /\ UNCHANGED <<data, now, contended>>
      /\ pc[r] = "dequeue" /\ pc'[r] = "peek"
      /\ \A q \in Requests \ {r} : pc'[q] = pc[q]
  BY DEF Dequeue, Goto, TypeOK, history
<1>2. s \in Sources /\ OneInside(s) /\ OwnStampLast(s) /\ QueueTraced(s)
  BY <1>1, SourcesTyped DEF BurstInv
<1>3. /\ old \in Seq(Nat) /\ now[r] \in Nat /\ BurstWindow \in Nat
      /\ \A q \in Requests : now[q] \in Nat
  BY SourcesTyped, ConstantsAssumption
<1>4. old # <<>> /\ old[Len(old)] = now[r] /\ now[r] - old[1] > BurstWindow
  BY <1>1, <1>2, <1>3 DEF OwnStampLast, HeadExpired, Expired
<1>5. new = Tail(old)
  BY <1>2, <1>4 DEF Dequeue, TypeOK
<1>6. Len(old) \in Nat /\ Len(old) > 1
  BY <1>3, <1>4
<1>7. /\ new \in Seq(Nat) /\ Len(new) = Len(old) - 1 /\ Len(new) > 0
      /\ \A i \in 1 .. Len(new) : new[i] = old[i + 1]
  BY <1>3, <1>4, <1>5, <1>6
<1>8. new # <<>> /\ new[Len(new)] = now[r]
  BY <1>4, <1>6, <1>7
<1>9. \A q \in Requests \ {r} : Source(q) = s => pc'[q] \notin BurstSection
  BY <1>1, <1>2 DEF OneInside, Inside, BurstSection
<1>10. OneInside(s)'
  <2>1. \A q \in Inside(s)' : q = r
    BY <1>1, <1>9 DEF Inside, Source
  <2>2. data'[r].enabled
    BY <1>1, <1>2 DEF OneInside, Inside, BurstSection
  <2> QED BY <2>1, <2>2 DEF OneInside
<1>11. OwnStampLast(s)'
  BY <1>1, <1>8, <1>9 DEF OwnStampLast, Source, BurstSection
<1>12. Entered(s)' = Entered(s)
  BY <1>1 DEF Entered, Source
<1>13. QueueTraced(s)'
  <2> DEFINE places == 1 .. Len(old)
  <2>1. PICK who \in [places -> Entered(s)] :
          /\ \A i, j \in places : who[i] = who[j] => i = j
          /\ \A i \in places : old[i] = now[who[i]]
          /\ \A q \in Entered(s) : \E i \in places :
               who[i] = q \/ old[i] - now[q] > BurstWindow
    BY <1>2 DEF QueueTraced
  <2> DEFINE who2 == [i \in 1 .. Len(new) |-> who[i + 1]]
  <2>2. \A i \in 1 .. Len(new) : i + 1 \in places
    BY <1>6, <1>7
  <2>3. who2 \in [1 .. Len(new) -> Entered(s)']
    BY <1>12, <2>2
  <2>4. \A i, j \in 1 .. Len(new) : who2[i] = who2[j] => i = j
    BY <2>1, <2>2
  <2>5. \A i \in 1 .. Len(new) : new[i] = now[who2[i]]
    BY <1>7, <2>1, <2>2
  <2>6. \A q \in Entered(s) : \E i \in 1 .. Len(new) :
          who2[i] = q \/ new[i] - now[q] > BurstWindow
    <3> SUFFICES ASSUME NEW q \in Entered(s)
                 PROVE  \E i \in 1 .. Len(new) :
                          who2[i] = q \/ new[i] - now[q] > BurstWindow
      OBVIOUS
    <3>1. PICK i \in places : who[i] = q \/ old[i] - now[q] > BurstWindow
      BY <2>1
    <3>2. CASE i = 1
      <4>1. now[r] - now[q] > BurstWindow
        <5>1. now[q] \in Nat /\ old[1] \in Nat
          BY <1>3, <1>6 DEF Entered
        <5>2. who[1] = q => old[1] = now[q]
          BY <1>6, <2>1
        <5> QED BY <1>3, <1>4, <3>1, <3>2, <5>1, <5>2
      <4>2. Len(new) \in 1 .. Len(new)
        BY <1>6, <1>7
      <4> QED BY <1>8, <4>1, <4>2
    <3>3. CASE i # 1
      <4>1. i - 1 \in 1 .. Len(new) /\ (i - 1) + 1 = i
        BY <1>6, <1>7, <3>3
      <4>2. new[i - 1] = old[i] /\ who2[i - 1] = who[i]
        BY <1>7, <4>1
      <4> QED BY <3>1, <4>1, <4>2
    <3> QED BY <3>2, <3>3
  <2> HIDE DEF who2, places
  <2> QED BY <1>1, <1>12, <2>3, <2>4, <2>5, <2>6 DEF QueueTraced
<1> QED BY <1>10, <1>11, <1>13

LEMMA BurstInvInductive == Spec => []BurstInv
<1>1. Init => BurstInv
  <2> SUFFICES ASSUME Init, NEW s \in Sources
               PROVE  OneInside(s) /\ OwnStampLast(s) /\ QueueTraced(s)
    BY DEF BurstInv
  <2>1. OneInside(s) /\ OwnStampLast(s)
    BY DEF Init, OneInside, Inside, OwnStampLast, BurstSection
  <2>2. Entered(s) = {} /\ windows[s] = <<>>
    BY DEF Init, Entered
  <2>3. 1 .. Len(windows[s]) = {}
    BY <2>2
  <2>4. [i \in {} |-> i] \in [{} -> {}]
    OBVIOUS
  <2>5. QueueTraced(s)
    BY <2>2, <2>3, <2>4 DEF QueueTraced
  <2> QED BY <2>1, <2>5
<1>2. TypeOK /\ BurstInv /\ [Next]_vars => BurstInv'
  <2> SUFFICES ASSUME TypeOK, BurstInv, [Next]_vars, NEW s \in Sources \ contended'
               PROVE  OneInside(s)' /\ OwnStampLast(s)' /\ QueueTraced(s)'
    BY DEF BurstInv
  <2>1. ASSUME NEW r \in Requests, Step(r)
        PROVE  OneInside(s)' /\ OwnStampLast(s)' /\ QueueTraced(s)'
    <3>1. CASE Source(r) = s /\ (ReadBurstClock(r) \/ Enqueue(r) \/ PeekExpired(r)
                                  \/ PeekDone(r) \/ Dequeue(r))
      BY <3>1, BurstBegins, BurstEnters, BurstPeeks, BurstPrunes
    <3>2. CASE ~(Source(r) = s /\ (ReadBurstClock(r) \/ Enqueue(r) \/ PeekExpired(r)
                                    \/ PeekDone(r) \/ Dequeue(r)))
      BY <2>1, <3>2, BurstElsewhere DEF Step
    <3> QED BY <3>1, <3>2
  <2>2. CASE Tick \/ AllReturned \/ UNCHANGED vars
    <3>1. UNCHANGED <<data, pc, now, windows, contended>>
      BY <2>2 DEF Tick, AllReturned, vars, history
    <3>2. OneInside(s) /\ OwnStampLast(s) /\ QueueTraced(s)
      BY <3>1 DEF BurstInv
    <3> QED BY <3>1, <3>2, BurstFrame DEF Entered, Source
  <2> QED BY <2>1, <2>2 DEF Next
<1> QED BY <1>1, <1>2, TypeCorrect, PTL DEF Spec

(* A step that leaves the queue of s and who has entered it alone.         *)
LEMMA KeepFrame ==
  ASSUME NEW s \in Sources, QueueKeeps(s), windows'[s] = windows[s],
         Entered(s)' = Entered(s), \A q \in Entered(s) : now'[q] = now[q]
  PROVE  QueueKeeps(s)'
BY DEF QueueKeeps

(* A request that enters is the last of the queue.                         *)
LEMMA KeepEnters ==
  ASSUME TypeOK, NEW r \in Requests, Enqueue(r), data[r].enabled,
         NEW s \in Sources, s = Source(r), QueueKeeps(s)
  PROVE  QueueKeeps(s)'
<1> DEFINE old == windows[s]
           new == windows'[s]
           places == 1 .. Len(old)
<1>1. /\ UNCHANGED <<data, now>>
      /\ pc[r] = "enqueue" /\ pc'[r] = "peek"
      /\ \A q \in Requests \ {r} : pc'[q] = pc[q]
  BY DEF Enqueue, Goto, TypeOK
<1>2. old \in Seq(Nat) /\ new = Append(old, now[r]) /\ now[r] \in Nat
  BY SourcesTyped DEF Enqueue, TypeOK
<1>3. /\ Len(new) = Len(old) + 1 /\ Len(old) \in Nat
      /\ new[Len(new)] = now[r]
      /\ \A i \in places : new[i] = old[i]
  BY <1>2
<1>4. Entered(s)' = Entered(s) \cup {r} /\ r \notin Entered(s)
  BY <1>1 DEF Entered, Source
<1>5. PICK who \in [places -> Entered(s)] :
        /\ \A i, j \in places : who[i] = who[j] => i = j
        /\ \A i \in places : old[i] = now[who[i]]
        /\ \A q \in Entered(s) :
             \/ \E i \in places : who[i] = q
             \/ \E p \in Entered(s) : now[p] - now[q] > BurstWindow
  BY DEF QueueKeeps
<1> DEFINE who2 == [i \in 1 .. Len(new) |-> IF i = Len(new) THEN r ELSE who[i]]
<1>6. \A i \in 1 .. Len(new) : i = Len(new) \/ i \in places
  BY <1>3
<1>7. who2 \in [1 .. Len(new) -> Entered(s)']
  BY <1>4, <1>6
<1>8. \A i, j \in 1 .. Len(new) : who2[i] = who2[j] => i = j
  <2>1. \A i \in places : who[i] # r
    BY <1>4, <1>5
  <2> QED BY <1>5, <1>6, <2>1
<1>9. \A i \in 1 .. Len(new) : new[i] = now[who2[i]]
  BY <1>3, <1>5, <1>6
<1>10. \A q \in Entered(s)' :
         \/ \E i \in 1 .. Len(new) : who2[i] = q
         \/ \E p \in Entered(s)' : now[p] - now[q] > BurstWindow
  <2> SUFFICES ASSUME NEW q \in Entered(s)'
               PROVE  \/ \E i \in 1 .. Len(new) : who2[i] = q
                      \/ \E p \in Entered(s)' : now[p] - now[q] > BurstWindow
    OBVIOUS
  <2>1. CASE q = r
    <3>1. Len(new) \in 1 .. Len(new) /\ who2[Len(new)] = r
      BY <1>3
    <3> QED BY <2>1, <3>1
  <2>2. CASE \E i \in places : who[i] = q
    <3>1. \A i \in places : i \in 1 .. Len(new) /\ who2[i] = who[i]
      BY <1>3
    <3> QED BY <2>2, <3>1
  <2>3. CASE \E p \in Entered(s) : now[p] - now[q] > BurstWindow
    BY <1>4, <2>3
  <2> QED BY <1>4, <1>5, <2>1, <2>2, <2>3
<1> HIDE DEF who2, places
<1>11. \E f \in [1 .. Len(new) -> Entered(s)'] :
         /\ \A i, j \in 1 .. Len(new) : f[i] = f[j] => i = j
         /\ \A i \in 1 .. Len(new) : new[i] = now[f[i]]
         /\ \A q \in Entered(s)' :
              \/ \E i \in 1 .. Len(new) : f[i] = q
              \/ \E p \in Entered(s)' : now[p] - now[q] > BurstWindow
  BY <1>7, <1>8, <1>9, <1>10
<1>12. now' = now
  BY <1>1
<1> QED BY ONLY <1>11, <1>12 DEF QueueKeeps

(* A request that discards a timestamp is one whose window it has left.    *)
LEMMA KeepPrunes ==
  ASSUME TypeOK, NEW r \in Requests, Dequeue(r), data[r].enabled, HeadExpired(r),
         NEW s \in Sources, s = Source(r), QueueKeeps(s)
  PROVE  QueueKeeps(s)'
<1> DEFINE old == windows[s]
           new == windows'[s]
           places == 1 .. Len(old)
<1>1. /\ UNCHANGED <<data, now>>
      /\ pc[r] = "dequeue" /\ pc'[r] = "peek"
      /\ \A q \in Requests \ {r} : pc'[q] = pc[q]
  BY DEF Dequeue, Goto, TypeOK
<1>2. old \in Seq(Nat) /\ old # <<>> /\ now[r] - old[1] > BurstWindow
  BY SourcesTyped DEF HeadExpired, Expired
<1>3. new = Tail(old)
  BY <1>2 DEF Dequeue, TypeOK
<1>4. /\ Len(old) \in Nat /\ Len(old) > 0 /\ Len(new) = Len(old) - 1
      /\ \A i \in 1 .. Len(new) : new[i] = old[i + 1]
  BY <1>2, <1>3
<1>5. Entered(s)' = Entered(s) /\ r \in Entered(s)
  BY <1>1 DEF Entered, Source
<1>6. PICK who \in [places -> Entered(s)] :
        /\ \A i, j \in places : who[i] = who[j] => i = j
        /\ \A i \in places : old[i] = now[who[i]]
        /\ \A q \in Entered(s) :
             \/ \E i \in places : who[i] = q
             \/ \E p \in Entered(s) : now[p] - now[q] > BurstWindow
  BY DEF QueueKeeps
<1> DEFINE who2 == [i \in 1 .. Len(new) |-> who[i + 1]]
<1>7. \A i \in 1 .. Len(new) : i + 1 \in places
  BY <1>4
<1>8. who2 \in [1 .. Len(new) -> Entered(s)']
  BY <1>5, <1>7
<1>9. \A i, j \in 1 .. Len(new) : who2[i] = who2[j] => i = j
  BY <1>6, <1>7
<1>10. \A i \in 1 .. Len(new) : new[i] = now[who2[i]]
  BY <1>4, <1>6, <1>7
<1>11. \A q \in Entered(s) :
         \/ \E i \in 1 .. Len(new) : who2[i] = q
         \/ \E p \in Entered(s) : now[p] - now[q] > BurstWindow
  <2> SUFFICES ASSUME NEW q \in Entered(s), NEW i \in places, who[i] = q
               PROVE  \/ \E j \in 1 .. Len(new) : who2[j] = q
                      \/ \E p \in Entered(s) : now[p] - now[q] > BurstWindow
    BY <1>6
  <2>1. CASE i = 1
    BY <1>2, <1>5, <1>6, <2>1
  <2>2. CASE i # 1
    <3>1. i - 1 \in 1 .. Len(new) /\ (i - 1) + 1 = i
      BY <1>4, <2>2
    <3>2. who2[i - 1] = who[i]
      BY <3>1
    <3> QED BY <3>1, <3>2
  <2> QED BY <2>1, <2>2
<1> HIDE DEF who2, places
<1>12. \E f \in [1 .. Len(new) -> Entered(s)'] :
         /\ \A i, j \in 1 .. Len(new) : f[i] = f[j] => i = j
         /\ \A i \in 1 .. Len(new) : new[i] = now[f[i]]
         /\ \A q \in Entered(s)' :
              \/ \E i \in 1 .. Len(new) : f[i] = q
              \/ \E p \in Entered(s)' : now[p] - now[q] > BurstWindow
  BY <1>5, <1>8, <1>9, <1>10, <1>11
<1>13. now' = now
  BY <1>1
<1> QED BY ONLY <1>12, <1>13 DEF QueueKeeps

LEMMA KeepInvInductive == Spec => []KeepInv
<1>1. Init => KeepInv
  <2> SUFFICES ASSUME Init, NEW s \in Sources PROVE QueueKeeps(s)
    BY DEF Init, KeepInv, BurstSection
  <2>1. Entered(s) = {} /\ windows[s] = <<>>
    BY DEF Init, Entered
  <2>2. 1 .. Len(windows[s]) = {}
    BY <2>1
  <2>3. [i \in {} |-> i] \in [{} -> {}]
    OBVIOUS
  <2> QED BY <2>1, <2>2, <2>3 DEF QueueKeeps
<1>2. TypeOK /\ PrunesOnlyExpired /\ KeepInv /\ [Next]_vars => KeepInv'
  <2> SUFFICES ASSUME TypeOK, PrunesOnlyExpired, KeepInv, [Next]_vars PROVE KeepInv'
    OBVIOUS
  <2>1. ASSUME NEW r \in Requests, Step(r) PROVE KeepInv'
    <3>. USE DEF Goto, history
    <3>1. data' = data /\ pruneRace \subseteq pruneRace'
      BY <2>1 DEF Step, Skip, ReadBurstClock, Enqueue, PeekExpired, PeekDone, Dequeue,
         Count, ReadCooldownClock, LookUpAllows, LookUpSuppresses, Send, SendThrows,
         ReadStoreClock, Store, MarkIf
    <3>2. \A q \in Requests \ {r} : pc'[q] = pc[q] /\ now'[q] = now[q]
      BY <2>1 DEF Step, Skip, ReadBurstClock, Enqueue, PeekExpired, PeekDone, Dequeue,
         Count, ReadCooldownClock, LookUpAllows, LookUpSuppresses, Send, SendThrows,
         ReadStoreClock, Store, TypeOK
    <3>3. pc'[r] \in BurstSection => data[r].enabled
      BY <2>1 DEF Step, Skip, ReadBurstClock, Enqueue, PeekExpired, PeekDone, Dequeue,
         Count, ReadCooldownClock, LookUpAllows, LookUpSuppresses, Send, SendThrows,
         ReadStoreClock, Store, TypeOK, KeepInv, BurstSection
    <3>4. \A q \in Requests : pc'[q] \in BurstSection => data'[q].enabled
      BY <3>1, <3>2, <3>3 DEF KeepInv
    <3>5. ASSUME NEW s \in Sources \ pruneRace' PROVE QueueKeeps(s)'
      <4>1. s \in Sources /\ s \notin pruneRace /\ QueueKeeps(s)
        BY <3>1 DEF KeepInv
      <4>2. CASE Source(r) # s
        <5>1. windows'[s] = windows[s]
          <6>1. Source(r) \in Sources /\ windows \in [Sources -> Seq(Nat)]
            BY SourcesTyped DEF TypeOK
          <6> QED BY <2>1, <4>2, <6>1 DEF Step, Skip, ReadBurstClock, Enqueue,
                PeekExpired, PeekDone, Dequeue, Count, ReadCooldownClock, LookUpAllows,
                LookUpSuppresses, Send, SendThrows, ReadStoreClock, Store
        <5>2. Entered(s)' = Entered(s) /\ \A q \in Entered(s) : now'[q] = now[q]
          BY <3>1, <3>2, <4>2 DEF Entered, Source
        <5> QED BY <4>1, <5>1, <5>2, KeepFrame
      <4>3. CASE Source(r) = s /\ Enqueue(r)
        <5>1. data[r].enabled
          BY <4>3 DEF KeepInv, Enqueue, BurstSection
        <5> QED BY <4>1, <4>3, <5>1, KeepEnters
      <4>4. CASE Source(r) = s /\ Dequeue(r)
        <5>1. data[r].enabled /\ HeadExpired(r)
          BY <4>1, <4>4 DEF KeepInv, Dequeue, BurstSection, PrunesOnlyExpired
        <5> QED BY <4>1, <4>4, <5>1, KeepPrunes
      <4>5. CASE Source(r) = s /\ ~Enqueue(r) /\ ~Dequeue(r)
        <5>1. windows' = windows
          BY <2>1, <4>5 DEF Step, Skip, ReadBurstClock, PeekExpired, PeekDone, Count,
             ReadCooldownClock, LookUpAllows, LookUpSuppresses, Send, SendThrows,
             ReadStoreClock, Store
        <5>2. r \in Entered(s)' <=> r \in Entered(s)
          BY <2>1, <3>1, <4>5 DEF Step, Skip, ReadBurstClock, PeekExpired, PeekDone,
             Count, ReadCooldownClock, LookUpAllows, LookUpSuppresses, Send, SendThrows,
             ReadStoreClock, Store, TypeOK, Entered, Source
        <5>3. r \in Entered(s) => now'[r] = now[r]
          BY <2>1, <4>5 DEF Step, Skip, ReadBurstClock, PeekExpired, PeekDone, Count,
             ReadCooldownClock, LookUpAllows, LookUpSuppresses, Send, SendThrows,
             ReadStoreClock, Store, Entered
        <5>4. Entered(s)' = Entered(s) /\ \A q \in Entered(s) : now'[q] = now[q]
          BY <3>1, <3>2, <5>2, <5>3 DEF Entered, Source
        <5> QED BY <4>1, <5>1, <5>4, KeepFrame
      <4> QED BY <4>2, <4>3, <4>4, <4>5
    <3> QED BY <3>4, <3>5 DEF KeepInv
  <2>2. CASE Tick \/ AllReturned \/ UNCHANGED vars
    <3>1. UNCHANGED <<data, pc, now, windows, pruneRace>>
      BY <2>2 DEF Tick, AllReturned, vars, history
    <3>2. \A s \in Sources : Entered(s)' = Entered(s)
      BY <3>1 DEF Entered, Source
    <3>3. \A s \in Sources \ pruneRace' : QueueKeeps(s)'
      BY <3>1, <3>2, KeepFrame DEF KeepInv
    <3> QED BY <3>1, <3>3 DEF KeepInv
  <2> QED BY <2>1, <2>2 DEF Next
<1> QED BY <1>1, <1>2, TypeCorrect, PruningIsSafe, PTL DEF Spec

(* Who nobody's window has passed is in the queue, each at a place.        *)
LEMMA CountMissesNone ==
  ASSUME TypeOK, KeepInv, NEW r \in Requests, Source(r) \notin pruneRace
  PROVE  Cardinality(NeverExpired(Source(r))) <= Len(windows[Source(r)])
<1> DEFINE s == Source(r)
           live == NeverExpired(s)
           places == 1 .. Len(windows[s])
<1>1. s \in Sources /\ Len(windows[s]) \in Nat /\ BurstWindow \in Nat
  BY SourcesTyped, ConstantsAssumption
<1>2. PICK who \in [places -> Entered(s)] :
        /\ \A i, j \in places : who[i] = who[j] => i = j
        /\ \A q \in Entered(s) :
             \/ \E i \in places : who[i] = q
             \/ \E p \in Entered(s) : now[p] - now[q] > BurstWindow
  BY <1>1 DEF KeepInv, QueueKeeps
<1>3. \A q \in live : \E i \in places : who[i] = q
  <2> SUFFICES ASSUME NEW q \in live PROVE \E i \in places : who[i] = q
    OBVIOUS
  <2>1. q \in Entered(s) /\ \A p \in Entered(s) : now[p] - now[q] <= BurstWindow
    BY DEF NeverExpired
  <2>2. \A p \in Entered(s) : now[p] \in Nat /\ now[q] \in Nat
    BY <2>1 DEF Entered, TypeOK
  <2>3. ~\E p \in Entered(s) : now[p] - now[q] > BurstWindow
    BY <1>1, <2>1, <2>2
  <2> QED BY <1>2, <2>1, <2>3
<1> DEFINE at == [q \in live |-> CHOOSE i \in places : who[i] = q]
<1>4. \A q \in live : at[q] \in places /\ who[at[q]] = q
  BY <1>3
<1>5. at \in Injection(live, places)
  <2>1. at \in [live -> places]
    BY <1>4
  <2>2. \A p, q \in live : at[p] = at[q] => p = q
    BY <1>4
  <2> HIDE DEF at
  <2> QED BY <2>1, <2>2 DEF Injection, IsInjective
<1>6. IsFiniteSet(places) /\ Cardinality(places) = Len(windows[s])
  BY <1>1, FS_Interval
<1> HIDE DEF live, places, at
<1>7. Cardinality(live) <= Cardinality(places)
  BY <1>5, <1>6, FS_Injection
<1> QED BY <1>6, <1>7 DEF live

(* With one request at a time and the queue in time order, the requests    *)
(* traced in the queue are those of the window.                            *)
LEMMA CountIsExact ==
  ASSUME TypeOK, BurstInv, NEW r \in Requests, pc[r] = "count",
         Source(r) \notin contended, Sorted(windows[Source(r)])
  PROVE  Len(windows[Source(r)]) = Cardinality(InWindow(r))
<1> DEFINE s == Source(r)
           queue == windows[s]
           places == 1 .. Len(queue)
<1>1. s \in Sources /\ OwnStampLast(s) /\ QueueTraced(s)
  BY SourcesTyped DEF BurstInv
<1>2. /\ queue \in Seq(Nat) /\ Len(queue) \in Nat /\ BurstWindow \in Nat
      /\ \A q \in Requests : now[q] \in Nat
  BY SourcesTyped, ConstantsAssumption
<1>3. queue # <<>> /\ queue[Len(queue)] = now[r] /\ ~(now[r] - queue[1] > BurstWindow)
  BY <1>1, <1>2 DEF OwnStampLast, HeadExpired, Expired
<1>4. PICK who \in [places -> Entered(s)] :
        /\ \A i, j \in places : who[i] = who[j] => i = j
        /\ \A i \in places : queue[i] = now[who[i]]
        /\ \A q \in Entered(s) : \E i \in places :
             who[i] = q \/ queue[i] - now[q] > BurstWindow
  BY <1>1 DEF QueueTraced
<1>5. \A i \in places : queue[i] \in Nat /\ queue[1] <= queue[i] /\ queue[i] <= now[r]
  BY <1>2, <1>3 DEF Sorted
<1>6. \A i \in places : who[i] \in InWindow(r)
  <2> SUFFICES ASSUME NEW i \in places PROVE who[i] \in InWindow(r)
    OBVIOUS
  <2>1. who[i] \in Entered(s) /\ now[who[i]] = queue[i]
    BY <1>4
  <2>2. now[r] - queue[i] \in 0 .. BurstWindow
    <3>1. queue[1] \in Nat /\ queue[i] \in Nat /\ now[r] \in Nat
      BY <1>2, <1>3
    <3>2. queue[1] <= queue[i] /\ queue[i] <= now[r]
      BY <1>5
    <3> QED BY <1>2, <1>3, <3>1, <3>2
  <2> QED BY <2>1, <2>2 DEF InWindow
<1>7. \A q \in InWindow(r) : \E i \in places : who[i] = q
  <2> SUFFICES ASSUME NEW q \in InWindow(r) PROVE \E i \in places : who[i] = q
    OBVIOUS
  <2>1. q \in Entered(s) /\ now[r] - now[q] <= BurstWindow /\ now[q] \in Nat
    BY <1>2 DEF InWindow, Entered
  <2>2. PICK i \in places : who[i] = q \/ queue[i] - now[q] > BurstWindow
    BY <1>4, <2>1
  <2>3. ~(queue[i] - now[q] > BurstWindow)
    BY <1>2, <1>5, <2>1
  <2> QED BY <2>2, <2>3
<1>8. who \in Bijection(places, InWindow(r))
  <2>1. who \in [places -> InWindow(r)]
    BY <1>4, <1>6
  <2>2. IsInjective(who)
    BY <1>4, <2>1 DEF IsInjective
  <2>3. \A q \in InWindow(r) : \E i \in places : who[i] = q
    BY <1>7
  <2> QED BY <2>1, <2>2, <2>3 DEF Bijection, Injection, Surjection
<1>9. IsFiniteSet(places) /\ Cardinality(places) = Len(queue)
  BY <1>2, FS_Interval
<1>10. ExistsBijection(places, InWindow(r))
  BY <1>8 DEF ExistsBijection
<1> QED BY <1>9, <1>10, FS_Bijection

(* The burst signal is decided on a count that misses no request nobody's  *)
(* window has passed, whatever the order of the timestamps, and without    *)
(* contention and with timestamps in order on exactly the requests of the  *)
(* window: for any number of requests, any window and any threshold.       *)
THEOREM BurstCountsTheWindow == Spec => []BurstCountExact
<1>1. TypeOK /\ BurstInv /\ KeepInv => BurstCountExact
  BY CountIsExact, CountMissesNone DEF BurstCountExact
<1> QED BY <1>1, TypeCorrect, BurstInvInductive, KeepInvInductive, PTL
=============================================================================
