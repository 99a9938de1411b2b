------------------------- MODULE FraudAnalysisProofs -------------------------
(***************************************************************************)
(* What the scoring guarantees for every fingerprint and every setting of  *)
(* the toggles and thresholds, and the report invariants of FraudAnalysis, *)
(* for every number of calls, consumers and sinks and every configuration. *)
(***************************************************************************)
EXTENDS FraudAnalysis, FiniteSetTheorems, TLAPS

-----------------------------------------------------------------------------
(* The scoring.                                                            *)

(* The discount keeps the order of two scores and never raises one. *)
LEMMA DiscountMonotone ==
  ASSUME NEW a \in 0 .. MaxScore, NEW b \in 0 .. MaxScore, a <= b
  PROVE  /\ Discounted(a) \in 0 .. 55
         /\ Discounted(a) <= a
         /\ Discounted(a) <= Discounted(b)
BY DEF Discounted, MaxScore

(* Each signal contributes a natural number. *)
LEMMA SignalsNat ==
  ASSUME NEW d \in ScoredData, NEW o \in ScoringOptions
  PROVE  /\ IpScore(d, o) \in 0 .. 20
         /\ TimezoneScore(d, o) \in 0 .. 30
         /\ LanguageScore(d) \in 0 .. 25
         /\ FontScore(d, o) \in 0 .. 70
         /\ InconsistencyBonus(d) \in 0 .. 30
         /\ SignalSum(d, o) \in Nat
<1>1. IpScore(d, o) \in 0 .. 20
  BY DEF ScoredData, Countries, IpScore
<1>2. TimezoneScore(d, o) \in 0 .. 30
  BY DEF TimezoneScore, If
<1>3. LanguageScore(d) \in 0 .. 25
  BY DEF LanguageScore, If
<1>4. FontScore(d, o) \in 0 .. 70
  BY DEF FontScore, If
<1>5. InconsistencyBonus(d) \in 0 .. 30
  BY DEF InconsistencyBonus, If
<1> QED BY <1>1, <1>2, <1>3, <1>4, <1>5 DEF SignalSum

LEMMA RawScoreBounded ==
  ASSUME NEW d \in ScoredData, NEW o \in ScoringOptions
  PROVE  RawScore(d, o) \in 0 .. MaxScore
BY SignalsNat DEF RawScore, MaxScore

(* FraudReport.SuspicionScore is between 0 and 100, whatever signals fire. *)
THEOREM ScoreBounded ==
  ASSUME NEW d \in ScoredData, NEW o \in ScoringOptions
  PROVE  FinalScore(d, o) \in 0 .. MaxScore
<1>1. RawScore(d, o) \in 0 .. MaxScore
  BY RawScoreBounded
<1>2. Discounted(RawScore(d, o)) \in 0 .. 55
  BY <1>1, DiscountMonotone
<1> QED BY <1>1, <1>2 DEF FinalScore, MaxScore

(* What travel mode takes for travel scores 55 at most, so thresholds      *)
(* above that never let it be more than monitored.                         *)
THEOREM TravellersAtMostMonitored ==
  ASSUME NEW d \in ScoredData, NEW o \in ScoringOptions,
         o.high > 55, o.impersonation > 55,
         o.travelMode, IsLikelyLegitimateTravel(d)
  PROVE  ScoredAction(d, o) <= Monitor
<1>1. FinalScore(d, o) \in 0 .. 55
  <2>1. RawScore(d, o) \in 0 .. MaxScore
    BY RawScoreBounded
  <2> QED BY <2>1, DiscountMonotone DEF FinalScore
<1>2. DetermineVerdict(FinalScore(d, o), o) \in {"Clean", "Suspicious"}
  BY <1>1 DEF DetermineVerdict, ScoringOptions
<1> QED BY <1>2 DEF ScoredAction, DetermineAction, NoAction, Monitor

(* A higher score is never answered by a milder action, whatever the       *)
(* thresholds: the options validator does not check those of the neutral   *)
(* detector.                                                               *)
LEMMA ActionMonotone ==
  ASSUME NEW a \in Int, NEW b \in Int, NEW o \in ScoringOptions, a <= b
  PROVE  DetermineAction(DetermineVerdict(a, o)) <= DetermineAction(DetermineVerdict(b, o))
<1>1. /\ o.medium \in Int /\ o.high \in Int /\ o.impersonation \in Int
  BY DEF ScoringOptions
<1>2. CASE b >= o.impersonation
  BY <1>1, <1>2 DEF DetermineVerdict, DetermineAction, NoAction, Monitor,
                    StepUpAuthentication, BlockRequest
<1>3. CASE ~(b >= o.impersonation)
  BY <1>1, <1>3 DEF DetermineVerdict, DetermineAction, NoAction, Monitor,
                    StepUpAuthentication, BlockRequest
<1> QED BY <1>2, <1>3

(* The signals together, for all that e shows beyond d. *)
LEMMA SignalSumMonotone ==
  ASSUME NEW d \in ScoredData, NEW e \in ScoredData, NEW o \in ScoringOptions,
         AtLeastAsSuspect(e, d)
  PROVE  SignalSum(d, o) <= SignalSum(e, o)
<1>1. FontScore(d, o) <= FontScore(e, o)
  BY DEF FontScore, If, AtLeastAsSuspect
<1>2. IpScore(d, o) <= IpScore(e, o)
  BY DEF AtLeastAsSuspect, IpScore, ScoredData, Countries
<1>3. TimezoneScore(d, o) <= TimezoneScore(e, o)
  BY DEF AtLeastAsSuspect, TimezoneScore, TimezoneIsInconsistent, If
<1>4. LanguageScore(d) <= LanguageScore(e)
  BY DEF AtLeastAsSuspect, LanguageScore, If
<1>5. InconsistencyBonus(d) <= InconsistencyBonus(e)
  <2>1. IpIsExpected(e) <=> IpIsExpected(d)
    BY DEF AtLeastAsSuspect, IpIsExpected
  <2>2. TimezoneIsInconsistent(d) => TimezoneIsInconsistent(e)
    BY DEF AtLeastAsSuspect, TimezoneIsInconsistent
  <2>3. LanguageIsInconsistent(d) => LanguageIsInconsistent(e)
    BY DEF AtLeastAsSuspect, LanguageIsInconsistent
  <2> QED BY <2>1, <2>2, <2>3 DEF InconsistencyBonus, If
<1>6. ASSUME NEW x \in ScoredData
      PROVE  /\ FontScore(x, o) \in Int /\ IpScore(x, o) \in Int
             /\ TimezoneScore(x, o) \in Int /\ LanguageScore(x) \in Int
             /\ InconsistencyBonus(x) \in Int
  BY SignalsNat
<1> QED BY <1>1, <1>2, <1>3, <1>4, <1>5, <1>6 DEF SignalSum

(* A client that shows further signs of an inconsistency is never scored   *)
(* lower for it, nor answered by a milder action.                          *)
THEOREM EvidenceNeverHelps ==
  ASSUME NEW d \in ScoredData, NEW e \in ScoredData, NEW o \in ScoringOptions,
         AtLeastAsSuspect(e, d)
  PROVE  /\ FinalScore(d, o) <= FinalScore(e, o)
         /\ ScoredAction(d, o) <= ScoredAction(e, o)
<1>1. SignalSum(d, o) \in Nat /\ SignalSum(e, o) \in Nat
  BY SignalsNat
<1>2. RawScore(d, o) <= RawScore(e, o)
  BY <1>1, SignalSumMonotone DEF RawScore, MaxScore
<1>3. IsLikelyLegitimateTravel(e) => IsLikelyLegitimateTravel(d)
  BY DEF AtLeastAsSuspect, IsLikelyLegitimateTravel, HasNonInconsistentLanguage
<1>4. /\ RawScore(d, o) \in 0 .. MaxScore
      /\ RawScore(e, o) \in 0 .. MaxScore
  BY RawScoreBounded
<1>5. /\ Discounted(RawScore(d, o)) <= RawScore(d, o)
      /\ Discounted(RawScore(d, o)) <= Discounted(RawScore(e, o))
      /\ Discounted(RawScore(d, o)) \in Int
  BY <1>2, <1>4, DiscountMonotone
<1>6. FinalScore(d, o) <= FinalScore(e, o)
  <2>1. RawScore(d, o) \in Int /\ RawScore(e, o) \in Int
    BY <1>4 DEF MaxScore
  <2> QED BY <2>1, <1>2, <1>3, <1>5 DEF FinalScore
<1>7. FinalScore(d, o) \in Int /\ FinalScore(e, o) \in Int
  BY ScoreBounded DEF MaxScore
<1>8. ScoredAction(d, o) <= ScoredAction(e, o)
  BY <1>6, <1>7, ActionMonotone DEF ScoredAction
<1> QED BY <1>6, <1>8

-----------------------------------------------------------------------------
(* The analysis.                                                           *)

LEMMA VerdictTypes ==
  ASSUME NEW score \in Int, NEW o \in ScoringOptions
  PROVE  /\ DetermineVerdict(score, o) \in Verdicts
         /\ DetermineAction(DetermineVerdict(score, o)) \in Actions
BY DEF DetermineVerdict, Verdicts, DetermineAction, Actions,
       NoAction, Monitor, StepUpAuthentication, BlockRequest

(* What a report is made of, once the call has its options. *)
LEMMA ReportParts ==
  ASSUME TypeOK, NEW c \in Calls, opts[c] # None
  PROVE  /\ AnalysisScore(c) \in 0 .. MaxScore
         /\ AnalysisVerdict(c) \in Verdicts
         /\ RiskLevel(AnalysisVerdict(c)) \in RiskLevels
         /\ FinalAction(c) \in Actions
         /\ FinalAction(c) >= DetermineAction(AnalysisVerdict(c))
         /\ scanner[c] => FinalAction(c) >= opts[c].scannerAction
<1>1. opts[c] \in FraudDetectionOptions
  BY AnalysisAssumption DEF TypeOK, CallsOK
<1>2. opts[c].scannerAction \in Actions
  BY <1>1 DEF FraudDetectionOptions
<1>3. Section(c) \in ScoringOptions
  BY <1>1 DEF FraudDetectionOptions, Section
<1>4. data[c] \in ScoredData
  BY DEF TypeOK, CallsOK
<1>5. AnalysisScore(c) \in 0 .. MaxScore
  BY <1>3, <1>4, ScoreBounded DEF AnalysisScore, MaxScore
<1>6. AnalysisScore(c) \in Int
  BY <1>5 DEF MaxScore
<1>7. AnalysisVerdict(c) \in Verdicts
  BY <1>3, <1>6, VerdictTypes DEF AnalysisVerdict, Verdicts
<1>8. AnalysisAction(c) \in Actions
  BY <1>3, <1>6, VerdictTypes DEF AnalysisAction, AnalysisVerdict, Actions,
     NoAction, BlockRequest
<1>9. AnalysisAction(c) >= DetermineAction(AnalysisVerdict(c))
  <2>1. CASE SectionOn(c)
    <3>1. AnalysisAction(c) = DetermineAction(AnalysisVerdict(c))
      BY <2>1 DEF AnalysisAction
    <3> QED BY <3>1, <1>8 DEF Actions, NoAction, BlockRequest
  <2>2. CASE ~SectionOn(c)
    BY <2>2 DEF AnalysisAction, AnalysisVerdict, DetermineAction, NoAction
  <2> QED BY <2>1, <2>2
<1>10. DetermineAction(AnalysisVerdict(c)) \in Int
  BY <1>7 DEF DetermineAction, NoAction, Monitor, StepUpAuthentication, BlockRequest
<1>11. FinalAction(c) \in Actions
  BY <1>2, <1>8 DEF FinalAction, MaxSeverity
<1>12. /\ AnalysisAction(c) \in Int /\ opts[c].scannerAction \in Int
  BY <1>2, <1>8 DEF Actions, NoAction, BlockRequest
<1>13. FinalAction(c) >= DetermineAction(AnalysisVerdict(c))
  BY <1>9, <1>10, <1>12 DEF FinalAction, MaxSeverity
<1>14. scanner[c] => FinalAction(c) >= opts[c].scannerAction
  BY <1>12 DEF FinalAction, MaxSeverity
<1>15. RiskLevel(AnalysisVerdict(c)) \in RiskLevels
  BY DEF RiskLevel, RiskLevels
<1> QED BY <1>5, <1>7, <1>11, <1>13, <1>14, <1>15

-----------------------------------------------------------------------------
LEMMA InitInv == Init => AnalysisInv
<1> SUFFICES ASSUME Init PROVE AnalysisInv
  OBVIOUS
<1>1. SettingsOK
  BY DEF Init, SettingsOK
<1>2. CallsOK
  <2>1. \A c \in Calls : input[c] \in ClientFingerprintData
    BY AnalysisAssumption DEF Init
  <2>2. data \in [Calls -> ScoredData]
    BY <2>1 DEF Init, ClientFingerprintData
  <2> QED BY <2>2 DEF Init, CallsOK, Labels
<1>3. CountersOK /\ HistoryOK
  BY DEF Init, CountersOK, HistoryOK
<1>4. OptionsResolved /\ ReportMade /\ SinksInTurn /\ SinksIsolated
  BY AnalysisAssumption DEF Init, OptionsResolved, ReportMade, SinksInTurn, SinksIsolated
<1>5. ActionCoversFindings /\ EmailedAfterAll /\ SentMeansAllConsumers
  BY DEF Init, ActionCoversFindings, EmailedAfterAll, SentMeansAllConsumers
<1> QED BY <1>1, <1>2, <1>3, <1>4, <1>5 DEF AnalysisInv, TypeOK

(* A step that leaves every call's progress alone. *)
LEMMA SettingsStep ==
  ASSUME AnalysisInv,
         UNCHANGED <<input, pc, opts, data, scanner, emailed, notified, report,
                     sinkResult, counters>>,
         SettingsOK', HistoryOK'
  PROVE  AnalysisInv'
<1>1. CallsOK' /\ CountersOK'
  BY DEF AnalysisInv, TypeOK, CallsOK, CountersOK, counters
<1>2. OptionsResolved' /\ ReportMade' /\ SinksInTurn' /\ SinksIsolated'
  BY DEF AnalysisInv, OptionsResolved, ReportMade, SinksInTurn, SinksIsolated
<1>3. ActionCoversFindings' /\ EmailedAfterAll' /\ SentMeansAllConsumers'
  BY DEF AnalysisInv, ActionCoversFindings, EmailedAfterAll, SentMeansAllConsumers
<1> QED BY <1>1, <1>2, <1>3 DEF AnalysisInv, TypeOK

LEMMA InForceType ==
  ASSUME SettingsOK, NEW t \in Tenants \cup {NoTenant}
  PROVE  InForce(store, config, t) \in OptionObjects
BY DEF SettingsOK, InForce

LEMMA NoteInForceType ==
  ASSUME TypeOK, SettingsOK', NoteInForce, UNCHANGED input
  PROVE  inForce' \in [Calls -> SUBSET OptionObjects]
<1>1. ASSUME NEW c \in Calls
      PROVE  InForce(store', config', input[c].tenant) \in OptionObjects
  <2>1. input[c].tenant \in Tenants \cup {NoTenant}
    BY AnalysisAssumption DEF TypeOK, CallsOK, ClientFingerprintData
  <2> QED BY <2>1 DEF SettingsOK, InForce
<1> QED BY <1>1 DEF NoteInForce, TypeOK, HistoryOK

(* The environment's steps. *)
LEMMA SettingsChange ==
  ASSUME AnalysisInv,
         \/ Reload \/ BuildDetector
         \/ \E t \in Tenants \cup {NoTenant} : StoreWrite(t)
  PROVE  AnalysisInv'
<1>1. CASE Reload
  <2>1. SettingsOK'
    BY <1>1 DEF AnalysisInv, TypeOK, SettingsOK, Reload
  <2>2. HistoryOK'
    BY <1>1, <2>1, NoteInForceType
       DEF AnalysisInv, TypeOK, HistoryOK, Reload, Resolving
  <2> QED BY <1>1, <2>1, <2>2, SettingsStep DEF Reload
<1>2. CASE BuildDetector
  <2>1. SettingsOK' /\ HistoryOK'
    BY <1>2 DEF AnalysisInv, TypeOK, SettingsOK, HistoryOK, BuildDetector,
                settings, history
  <2> QED BY <1>2, <2>1, SettingsStep DEF BuildDetector
<1>3. ASSUME NEW t \in Tenants \cup {NoTenant}, StoreWrite(t)
      PROVE  AnalysisInv'
  <2>1. SettingsOK'
    BY <1>3 DEF AnalysisInv, TypeOK, SettingsOK, StoreWrite
  <2>2. HistoryOK'
    BY <1>3, <2>1, NoteInForceType
       DEF AnalysisInv, TypeOK, HistoryOK, StoreWrite, Resolving
  <2> QED BY <1>3, <2>1, <2>2, SettingsStep DEF StoreWrite
<1> QED BY <1>1, <1>2, <1>3

(* A step of a call that has no report yet and makes none. *)
LEMMA EarlyStep ==
  ASSUME AnalysisInv, NEW c \in Calls,
         SettingsOK', CallsOK', HistoryOK',
         UNCHANGED <<report, sinkResult, counters>>,
         pc[c] \notin {"dispatch", "returned"},
         pc'[c] \notin {"dispatch", "returned"},
         \A q \in Calls \ {c} :
           /\ pc'[q] = pc[q] /\ opts'[q] = opts[q]
           /\ emailed'[q] = emailed[q] /\ notified'[q] = notified[q],
         pc'[c] \in {"analyze", "penTest", "notify", "report"} => opts'[c] # None,
         emailed'[c] => notified'[c] = Consumers /\ pc'[c] = "report"
  PROVE  AnalysisInv'
<1>1. CountersOK'
  BY DEF AnalysisInv, TypeOK, CountersOK, counters
<1>2. OptionsResolved'
  BY DEF AnalysisInv, OptionsResolved
<1>3. ReportMade'
  BY DEF AnalysisInv, ReportMade
<1>4. SinksInTurn'
  BY DEF AnalysisInv, SinksInTurn
<1>5. SinksIsolated'
  BY DEF AnalysisInv, SinksIsolated
<1>6. report[c] = None
  BY DEF AnalysisInv, ReportMade
<1>7. ActionCoversFindings'
  BY <1>6 DEF AnalysisInv, ActionCoversFindings
<1>8. EmailedAfterAll'
  BY DEF AnalysisInv, EmailedAfterAll
<1>9. SentMeansAllConsumers'
  BY <1>6 DEF AnalysisInv, SentMeansAllConsumers
<1> QED BY <1>1, <1>2, <1>3, <1>4, <1>5, <1>7, <1>8, <1>9 DEF AnalysisInv, TypeOK

LEMMA ResolutionSteps ==
  ASSUME AnalysisInv, NEW c \in Calls,
         Begin(c) \/ ReadStore(c) \/ ReadMonitor(c)
  PROVE  AnalysisInv'
<1>1. input[c].tenant \in Tenants \cup {NoTenant}
  BY AnalysisAssumption DEF AnalysisInv, TypeOK, CallsOK, ClientFingerprintData
<1>2. SettingsOK'
  BY DEF AnalysisInv, TypeOK, SettingsOK, Begin, ReadStore, ReadMonitor, settings
<1>3. HistoryOK'
  <2>1. InForce(store, config, input[c].tenant) \in OptionObjects
    BY <1>1, InForceType DEF AnalysisInv, TypeOK
  <2>2. inForce' \in [Calls -> SUBSET OptionObjects]
    BY <2>1 DEF AnalysisInv, TypeOK, HistoryOK, Begin, ReadStore, ReadMonitor, history
  <2> QED BY <2>2 DEF AnalysisInv, TypeOK, HistoryOK, Begin, ReadStore, ReadMonitor, history
<1>4. config \in OptionObjects /\ store[input[c].tenant] \in OptionObjects \cup {None}
  BY <1>1 DEF AnalysisInv, TypeOK, SettingsOK
<1>5. None \notin OptionObjects
  <2>1. None \notin FraudDetectionOptions
    <3>1. DOMAIN None = {"none"}
      BY DEF None
    <3>2. \A o \in FraudDetectionOptions : DOMAIN o # {"none"}
      BY DEF FraudDetectionOptions
    <3> QED BY <3>1, <3>2
  <2> QED BY <2>1, AnalysisAssumption
<1>6. CASE Begin(c)
  <2>1. CallsOK'
    BY <1>6 DEF AnalysisInv, TypeOK, CallsOK, Labels, Begin, Goto
  <2>2. pc[c] = "idle" /\ pc' = [pc EXCEPT ![c] = "store"]
    BY <1>6 DEF Begin, Goto
  <2>3. pc'[c] = "store" /\ \A q \in Calls \ {c} : pc'[q] = pc[q]
    BY <2>2 DEF AnalysisInv, TypeOK, CallsOK
  <2>4. UNCHANGED <<opts, emailed, notified, report, sinkResult, counters>>
    BY <1>6 DEF Begin
  <2>5. emailed'[c] => notified'[c] = Consumers /\ pc'[c] = "report"
    BY <2>2, <2>4 DEF AnalysisInv, EmailedAfterAll
  <2>6. \A q \in Calls \ {c} :
          /\ pc'[q] = pc[q] /\ opts'[q] = opts[q]
          /\ emailed'[q] = emailed[q] /\ notified'[q] = notified[q]
    BY <2>3, <2>4
  <2>7. /\ pc[c] \notin {"dispatch", "returned"}
        /\ pc'[c] \notin {"dispatch", "returned", "analyze", "penTest", "notify", "report"}
    BY <2>2, <2>3
  <2>8. UNCHANGED <<report, sinkResult, counters>>
    BY <2>4
  <2> QED BY <1>2, <1>3, <2>1, <2>5, <2>6, <2>7, <2>8, EarlyStep
<1>7. CASE ReadStore(c)
  <2>1. /\ opts' = [opts EXCEPT ![c] = store[input[c].tenant]]
        /\ pc' = [pc EXCEPT ![c] = IF opts'[c] = None THEN "monitor" ELSE "analyze"]
        /\ pc[c] = "store"
        /\ UNCHANGED <<input, data, scanner, emailed, notified, report, sinkResult, counters>>
    BY <1>7 DEF ReadStore, Goto
  <2>2. CallsOK'
    BY <1>4, <2>1 DEF AnalysisInv, TypeOK, CallsOK, Labels
  <2>3. /\ pc'[c] \in {"monitor", "analyze"}
        /\ pc'[c] = "analyze" => opts'[c] # None
        /\ \A q \in Calls \ {c} : pc'[q] = pc[q] /\ opts'[q] = opts[q]
    BY <2>1 DEF AnalysisInv, TypeOK, CallsOK
  <2>4. emailed'[c] => notified'[c] = Consumers /\ pc'[c] = "report"
    BY <2>1, <2>3 DEF AnalysisInv, EmailedAfterAll
  <2> QED BY <1>2, <1>3, <2>1, <2>2, <2>3, <2>4, EarlyStep
<1>8. CASE ReadMonitor(c)
  <2>1. /\ opts' = [opts EXCEPT ![c] = config]
        /\ pc' = [pc EXCEPT ![c] = "analyze"]
        /\ pc[c] = "monitor"
        /\ UNCHANGED <<input, data, scanner, emailed, notified, report, sinkResult, counters>>
    BY <1>8 DEF ReadMonitor, Goto
  <2>2. CallsOK'
    BY <1>4, <2>1 DEF AnalysisInv, TypeOK, CallsOK, Labels
  <2>3. /\ pc'[c] = "analyze"
        /\ opts'[c] # None
        /\ \A q \in Calls \ {c} : pc'[q] = pc[q] /\ opts'[q] = opts[q]
    BY <1>4, <1>5, <2>1 DEF AnalysisInv, TypeOK, CallsOK
  <2>4. emailed'[c] => notified'[c] = Consumers /\ pc'[c] = "report"
    BY <2>1, <2>3 DEF AnalysisInv, EmailedAfterAll
  <2> QED BY <1>2, <1>3, <2>1, <2>2, <2>3, <2>4, EarlyStep
<1> QED BY <1>6, <1>7, <1>8

(* From the resolved options to the report. *)
LEMMA EarlySteps ==
  ASSUME AnalysisInv, NEW c \in Calls,
         \/ Enrich(c) \/ LookupThrows(c) \/ NoScanner(c) \/ ScannerFound(c)
         \/ Notify(c) \/ ConsumerThrows(c) \/ AllNotified(c)
  PROVE  AnalysisInv'
<1> USE DEF Goto
<1>1. SettingsOK' /\ HistoryOK'
  BY DEF AnalysisInv, TypeOK, SettingsOK, HistoryOK, settings, history, Enrich,
         LookupThrows, NoScanner, ScannerFound, Notify, ConsumerThrows, AllNotified
<1>2. /\ UNCHANGED <<input, opts, report, sinkResult, counters>>
      /\ pc[c] \in {"analyze", "penTest", "notify"}
  BY DEF Enrich, LookupThrows, NoScanner, ScannerFound, Notify, ConsumerThrows,
         AllNotified
<1>3. /\ pc' \in [Calls -> Labels]
      /\ pc'[c] \in {"penTest", "notify", "report", "failed"}
      /\ \A q \in Calls \ {c} : pc'[q] = pc[q]
  BY DEF AnalysisInv, TypeOK, CallsOK, Labels, Enrich, LookupThrows, NoScanner,
         ScannerFound, Notify, ConsumerThrows, AllNotified
<1>4. data' \in [Calls -> ScoredData]
  <2>1. CASE Enrich(c)
    <3>1. CASE LooksUp(c)
      <4>1. PICK found \in Lookups :
              data' = [data EXCEPT
                ![c].country  = IF CountryMissing(c) THEN found.country ELSE @,
                ![c].timezone = IF TimezoneMissing(c) THEN found.timezone ELSE @]
        BY <2>1, <3>1 DEF Enrich
      <4>2. found.country \in Countries /\ found.timezone \in Timezones
        BY AnalysisAssumption
      <4>3. data \in [Calls -> ScoredData]
        BY DEF AnalysisInv, TypeOK, CallsOK
      <4> QED BY <4>1, <4>2, <4>3 DEF ScoredData
    <3>2. CASE ~LooksUp(c)
      BY <2>1, <3>2 DEF AnalysisInv, TypeOK, CallsOK, Enrich
    <3> QED BY <3>1, <3>2
  <2>2. CASE ~Enrich(c)
    BY <2>2 DEF AnalysisInv, TypeOK, CallsOK, LookupThrows, NoScanner,
                ScannerFound, Notify, ConsumerThrows, AllNotified
  <2> QED BY <2>1, <2>2
<1>5. /\ scanner' \in [Calls -> BOOLEAN]
      /\ emailed' \in [Calls -> BOOLEAN]
  <2>1. \/ scanner' = scanner
        \/ scanner' = [scanner EXCEPT ![c] = TRUE]
    BY DEF Enrich, LookupThrows, NoScanner, ScannerFound, Notify, ConsumerThrows,
           AllNotified
  <2>2. \/ emailed' = emailed
        \/ emailed' = [emailed EXCEPT ![c] = TRUE]
    BY DEF Enrich, LookupThrows, NoScanner, ScannerFound, Notify, ConsumerThrows,
           AllNotified
  <2>3. scanner \in [Calls -> BOOLEAN] /\ emailed \in [Calls -> BOOLEAN]
    BY DEF AnalysisInv, TypeOK, CallsOK
  <2> QED BY <2>1, <2>2, <2>3
<1>10. notified' \in [Calls -> Nat]
  <2>1. \/ notified' = notified
        \/ notified' = [notified EXCEPT ![c] = notified[c] + 1]
    BY DEF Enrich, LookupThrows, NoScanner, ScannerFound, Notify, ConsumerThrows,
           AllNotified
  <2>2. notified \in [Calls -> Nat]
    BY DEF AnalysisInv, TypeOK, CallsOK
  <2> QED BY <2>1, <2>2
<1>6. CallsOK'
  BY <1>2, <1>3, <1>4, <1>5, <1>10 DEF AnalysisInv, TypeOK, CallsOK
<1>7. \A q \in Calls \ {c} : emailed'[q] = emailed[q] /\ notified'[q] = notified[q]
  BY DEF AnalysisInv, TypeOK, CallsOK, Enrich, LookupThrows, NoScanner,
         ScannerFound, Notify, ConsumerThrows, AllNotified
<1>8. emailed'[c] => notified'[c] = Consumers /\ pc'[c] = "report"
  <2>1. CASE pc[c] = "notify"
    <3>1. ~emailed[c]
      BY <2>1 DEF AnalysisInv, EmailedAfterAll
    <3> QED BY <2>1, <3>1 DEF AnalysisInv, TypeOK, CallsOK, Enrich,
              LookupThrows, NoScanner, ScannerFound, Notify, ConsumerThrows,
              AllNotified
  <2>2. CASE pc[c] # "notify"
    <3>1. UNCHANGED <<emailed, notified>>
      BY <2>2 DEF Enrich, LookupThrows, NoScanner, ScannerFound, Notify,
                  ConsumerThrows, AllNotified
    <3>2. ~emailed[c]
      BY <2>2, <1>2 DEF AnalysisInv, EmailedAfterAll
    <3> QED BY <3>1, <3>2
  <2> QED BY <2>1, <2>2
<1>9. opts'[c] # None
  BY <1>2 DEF AnalysisInv, OptionsResolved
<1> QED BY <1>1, <1>2, <1>3, <1>6, <1>7, <1>8, <1>9, EarlyStep

-----------------------------------------------------------------------------
(* The steps that make and hand out a report. *)

LEMMA BypassStep ==
  ASSUME AnalysisInv, NEW c \in Calls, Bypass(c)
  PROVE  AnalysisInv'
<1> DEFINE rep == [bypassed |-> TRUE, detected |-> FALSE, sent |-> FALSE,
                   score |-> 0, verdict |-> "Clean", action |-> NoAction,
                   risk |-> RiskLevel("Clean")]
<1>1. /\ pc[c] = "analyze"
      /\ pc' = [pc EXCEPT ![c] = "returned"]
      /\ report' = [report EXCEPT ![c] = rep]
      /\ UNCHANGED <<config, store, changes, detector, input, opts, data, scanner,
                     emailed, notified, sinkResult, analyses, byVerdict, byRisk,
                     failures, inForce, storeMoved, configMoved>>
  BY DEF Bypass, Goto, settings, counters, history
<1>2. rep \in Reports /\ rep # None
  <2>1. RiskLevel("Clean") \in RiskLevels
    BY DEF RiskLevel, RiskLevels
  <2>2. rep \in Reports
    BY <2>1 DEF Reports, Verdicts, Actions, NoAction, BlockRequest, MaxScore
  <2>3. DOMAIN rep # DOMAIN None
    <3>1. "score" \in DOMAIN rep
      OBVIOUS
    <3>2. "score" \notin DOMAIN None
      BY DEF None
    <3> QED BY <3>1, <3>2
  <2> QED BY <2>2, <2>3
<1> HIDE DEF rep
<1>3. /\ report' \in [Calls -> Reports \cup {None}]
      /\ pc' \in [Calls -> Labels]
      /\ pc'[c] = "returned" /\ report'[c] = rep
      /\ \A q \in Calls \ {c} : pc'[q] = pc[q] /\ report'[q] = report[q]
  BY <1>1, <1>2 DEF AnalysisInv, TypeOK, CallsOK, Labels
<1>4. SettingsOK' /\ CountersOK' /\ HistoryOK'
  BY <1>1 DEF AnalysisInv, TypeOK, SettingsOK, CountersOK, HistoryOK
<1>5. CallsOK'
  BY <1>1, <1>3 DEF AnalysisInv, TypeOK, CallsOK
<1>6. OptionsResolved'
  BY <1>1, <1>3 DEF AnalysisInv, OptionsResolved
<1>7. ReportMade'
  BY <1>2, <1>3 DEF AnalysisInv, ReportMade
<1>8. SinksInTurn'
  BY <1>1, <1>3 DEF AnalysisInv, SinksInTurn
<1>9. rep.bypassed /\ ~rep.detected /\ ~rep.sent
        /\ rep.action >= DetermineAction(rep.verdict)
  BY DEF rep, DetermineAction, NoAction
<1>10. SinksIsolated'
  BY <1>1, <1>3, <1>9 DEF AnalysisInv, SinksIsolated
<1>11. ActionCoversFindings'
  BY <1>1, <1>3, <1>9 DEF AnalysisInv, ActionCoversFindings
<1>12. EmailedAfterAll'
  BY <1>1, <1>3 DEF AnalysisInv, EmailedAfterAll
<1>13. SentMeansAllConsumers'
  BY <1>1, <1>3, <1>9 DEF AnalysisInv, SentMeansAllConsumers
<1> QED BY <1>4, <1>5, <1>6, <1>7, <1>8, <1>10, <1>11, <1>12, <1>13 DEF AnalysisInv, TypeOK

LEMMA MakeReportStep ==
  ASSUME AnalysisInv, NEW c \in Calls, MakeReport(c)
  PROVE  AnalysisInv'
<1> DEFINE rep == [bypassed |-> FALSE, detected |-> scanner[c], sent |-> emailed[c],
                   score |-> AnalysisScore(c), verdict |-> AnalysisVerdict(c),
                   action |-> FinalAction(c), risk |-> RiskLevel(AnalysisVerdict(c))]
<1>1. /\ pc[c] = "report"
      /\ pc' = [pc EXCEPT ![c] = "dispatch"]
      /\ report' = [report EXCEPT ![c] = rep]
      /\ analyses' = analyses + 1
      /\ byVerdict' = [byVerdict EXCEPT ![AnalysisVerdict(c)] = @ + 1]
      /\ byRisk' = [byRisk EXCEPT ![RiskLevel(AnalysisVerdict(c))] = @ + 1]
      /\ UNCHANGED <<config, store, changes, detector, input, opts, data, scanner,
                     emailed, notified, sinkResult, failures,
                     inForce, storeMoved, configMoved>>
  BY DEF MakeReport, Goto, settings, history
<1>2. opts[c] # None
  BY <1>1 DEF AnalysisInv, OptionsResolved
<1>3. /\ AnalysisScore(c) \in 0 .. MaxScore
      /\ AnalysisVerdict(c) \in Verdicts
      /\ RiskLevel(AnalysisVerdict(c)) \in RiskLevels
      /\ FinalAction(c) \in Actions
      /\ FinalAction(c) >= DetermineAction(AnalysisVerdict(c))
      /\ scanner[c] => FinalAction(c) >= opts[c].scannerAction
  BY <1>2, ReportParts DEF AnalysisInv
<1>4. rep \in Reports /\ rep # None
  <2>1. scanner[c] \in BOOLEAN /\ emailed[c] \in BOOLEAN
    BY DEF AnalysisInv, TypeOK, CallsOK
  <2>2. rep \in Reports
    BY <1>3, <2>1 DEF Reports
  <2>3. DOMAIN rep # DOMAIN None
    <3>1. "score" \in DOMAIN rep
      OBVIOUS
    <3>2. "score" \notin DOMAIN None
      BY DEF None
    <3> QED BY <3>1, <3>2
  <2> QED BY <2>2, <2>3
<1>5. /\ rep.detected = scanner[c] /\ rep.sent = emailed[c]
      /\ rep.action = FinalAction(c) /\ rep.verdict = AnalysisVerdict(c)
  OBVIOUS
<1> HIDE DEF rep
<1>6. /\ report' \in [Calls -> Reports \cup {None}]
      /\ pc' \in [Calls -> Labels]
      /\ pc'[c] = "dispatch" /\ report'[c] = rep
      /\ \A q \in Calls \ {c} : pc'[q] = pc[q] /\ report'[q] = report[q]
  BY <1>1, <1>4 DEF AnalysisInv, TypeOK, CallsOK, Labels
<1>7. SettingsOK' /\ HistoryOK'
  BY <1>1 DEF AnalysisInv, TypeOK, SettingsOK, HistoryOK
<1>8. CountersOK'
  BY <1>1, <1>3 DEF AnalysisInv, TypeOK, CountersOK
<1>9. CallsOK'
  BY <1>1, <1>6 DEF AnalysisInv, TypeOK, CallsOK
<1>10. OptionsResolved'
  BY <1>1, <1>2, <1>6 DEF AnalysisInv, OptionsResolved
<1>11. ReportMade'
  BY <1>4, <1>6 DEF AnalysisInv, ReportMade
<1>12. SinksInTurn'
  BY <1>1, <1>6 DEF AnalysisInv, SinksInTurn
<1>13. SinksIsolated'
  BY <1>1, <1>6 DEF AnalysisInv, SinksIsolated
<1>14. ActionCoversFindings'
  BY <1>1, <1>3, <1>5, <1>6 DEF AnalysisInv, ActionCoversFindings
<1>15. EmailedAfterAll'
  BY <1>1, <1>6 DEF AnalysisInv, EmailedAfterAll
<1>16. SentMeansAllConsumers'
  BY <1>1, <1>5, <1>6 DEF AnalysisInv, SentMeansAllConsumers, EmailedAfterAll
<1> QED BY <1>7, <1>8, <1>9, <1>10, <1>11, <1>12, <1>13, <1>14, <1>15, <1>16
        DEF AnalysisInv, TypeOK

(* One more sink has had the event. *)
LEMMA SinkStep ==
  ASSUME AnalysisInv, NEW c \in Calls, Deliver(c) \/ SinkThrows(c)
  PROVE  AnalysisInv'
<1>1. PICK result \in {"received", "threw"} :
        /\ pc[c] = "dispatch"
        /\ Len(sinkResult[c]) < Sinks
        /\ sinkResult' = [sinkResult EXCEPT ![c] = Append(@, result)]
        /\ UNCHANGED <<config, store, changes, detector, input, pc, opts, data,
                       scanner, emailed, notified, report, analyses, byVerdict,
                       byRisk, inForce, storeMoved, configMoved>>
        /\ failures' \in {failures, failures + 1}
  BY DEF Deliver, SinkThrows, settings, counters, history
<1>2. sinkResult \in [Calls -> Seq({"received", "threw"})]
  BY DEF AnalysisInv, TypeOK, CallsOK
<1>3. /\ sinkResult' \in [Calls -> Seq({"received", "threw"})]
      /\ Len(sinkResult'[c]) = Len(sinkResult[c]) + 1
      /\ \A q \in Calls \ {c} : sinkResult'[q] = sinkResult[q]
  BY <1>1, <1>2
<1>4. SettingsOK' /\ HistoryOK'
  BY <1>1 DEF AnalysisInv, TypeOK, SettingsOK, HistoryOK
<1>5. CountersOK'
  BY <1>1 DEF AnalysisInv, TypeOK, CountersOK
<1>6. CallsOK'
  BY <1>1, <1>3 DEF AnalysisInv, TypeOK, CallsOK
<1>7. OptionsResolved' /\ ReportMade' /\ ActionCoversFindings'
  BY <1>1 DEF AnalysisInv, OptionsResolved, ReportMade, ActionCoversFindings
<1>8. SinksInTurn'
  <2>1. Len(sinkResult[c]) \in Nat
    BY <1>2
  <2>2. Len(sinkResult'[c]) <= Sinks
    BY <1>1, <1>3, <2>1, AnalysisAssumption
  <2> QED BY <1>1, <1>3, <2>2 DEF AnalysisInv, SinksInTurn
<1>9. SinksIsolated'
  BY <1>1, <1>3 DEF AnalysisInv, SinksIsolated
<1>10. EmailedAfterAll' /\ SentMeansAllConsumers'
  BY <1>1 DEF AnalysisInv, EmailedAfterAll, SentMeansAllConsumers
<1> QED BY <1>4, <1>5, <1>6, <1>7, <1>8, <1>9, <1>10 DEF AnalysisInv, TypeOK

LEMMA ReturnStep ==
  ASSUME AnalysisInv, NEW c \in Calls, Return(c)
  PROVE  AnalysisInv'
<1>1. /\ pc[c] = "dispatch"
      /\ Len(sinkResult[c]) = Sinks
      /\ pc' = [pc EXCEPT ![c] = "returned"]
      /\ UNCHANGED <<config, store, changes, detector, input, opts, data, scanner,
                     emailed, notified, report, sinkResult, analyses, byVerdict,
                     byRisk, failures, inForce, storeMoved, configMoved>>
  BY DEF Return, Goto, settings, counters, history
<1>2. /\ pc' \in [Calls -> Labels]
      /\ pc'[c] = "returned"
      /\ \A q \in Calls \ {c} : pc'[q] = pc[q]
  BY <1>1 DEF AnalysisInv, TypeOK, CallsOK, Labels
<1>3. SettingsOK' /\ HistoryOK' /\ CountersOK'
  BY <1>1 DEF AnalysisInv, TypeOK, SettingsOK, HistoryOK, CountersOK
<1>4. CallsOK'
  BY <1>1, <1>2 DEF AnalysisInv, TypeOK, CallsOK
<1>5. OptionsResolved' /\ ReportMade' /\ SinksInTurn'
  BY <1>1, <1>2 DEF AnalysisInv, OptionsResolved, ReportMade, SinksInTurn
<1>6. SinksIsolated'
  <2>1. sinkResult[c] \in Seq({"received", "threw"})
    BY DEF AnalysisInv, TypeOK, CallsOK
  <2>2. DOMAIN sinkResult[c] = SinkIds
    BY <1>1, <2>1 DEF SinkIds
  <2> QED BY <1>1, <1>2, <2>2 DEF AnalysisInv, SinksIsolated, SinkIds
<1>7. ActionCoversFindings' /\ EmailedAfterAll' /\ SentMeansAllConsumers'
  BY <1>1, <1>2 DEF AnalysisInv, ActionCoversFindings, EmailedAfterAll,
                    SentMeansAllConsumers
<1> QED BY <1>3, <1>4, <1>5, <1>6, <1>7 DEF AnalysisInv, TypeOK

-----------------------------------------------------------------------------
LEMMA AnalysisInvStep == AnalysisInv /\ [Next]_vars => AnalysisInv'
<1> SUFFICES ASSUME AnalysisInv, [Next]_vars PROVE AnalysisInv'
  OBVIOUS
<1>1. CASE UNCHANGED vars
  BY <1>1, SettingsStep
     DEF AnalysisInv, TypeOK, SettingsOK, HistoryOK, vars, settings, history
<1>2. CASE AllEnded
  BY <1>2, <1>1 DEF AllEnded
<1>3. CASE Reload \/ BuildDetector \/ \E t \in Tenants \cup {NoTenant} : StoreWrite(t)
  BY <1>3, SettingsChange
<1>4. ASSUME NEW c \in Calls, Step(c) PROVE AnalysisInv'
  BY <1>4, ResolutionSteps, EarlySteps, BypassStep, MakeReportStep, SinkStep,
     ReturnStep DEF Step
<1> QED BY <1>1, <1>2, <1>3, <1>4 DEF Next

THEOREM AnalysisInvariant == Spec => []AnalysisInv
BY InitInv, AnalysisInvStep, PTL DEF Spec

(* Whatever the number of calls, consumers and sinks, the state of         *)
(* FraudAnalysis is well formed.                                           *)
THEOREM AnalysisTypeCorrect == Spec => []TypeOK
<1>1. AnalysisInv => TypeOK
  BY DEF AnalysisInv
<1> QED BY <1>1, AnalysisInvariant, PTL

(* No sink, however it fails, keeps another one from an event              *)
(* (FraudEventDispatcher lines 40-51).                                     *)
THEOREM NoSinkIsMuted == Spec => []SinksIsolated
<1>1. AnalysisInv => SinksIsolated
  BY DEF AnalysisInv
<1> QED BY <1>1, AnalysisInvariant, PTL

(* No report plays down its verdict or its scanner detection, whichever    *)
(* detector was built and whatever the options.                            *)
THEOREM ActionsCoverFindings == Spec => []ActionCoversFindings
<1>1. AnalysisInv => ActionCoversFindings
  BY DEF AnalysisInv
<1> QED BY <1>1, AnalysisInvariant, PTL

(* A report that claims a notification was sent is backed by every         *)
(* consumer.                                                               *)
THEOREM SentIsBacked == Spec => []SentMeansAllConsumers
<1>1. AnalysisInv => SentMeansAllConsumers
  BY DEF AnalysisInv
<1> QED BY <1>1, AnalysisInvariant, PTL
-----------------------------------------------------------------------------
(* The options a call goes by.                                             *)

(* A step of a call that has its options already, or of none. *)
LEMMA ResolvedStep ==
  ASSUME OptionsInv, NEW c \in Calls,
         UNCHANGED <<config, store, input, opts, inForce, storeMoved, configMoved>>,
         pc[c] \notin {"idle", "store", "monitor"},
         pc'[c] \notin {"idle", "store", "monitor"},
         \A q \in Calls \ {c} : pc'[q] = pc[q]
  PROVE  OptionsInv'
<1>1. OptionsWereInForce'
  BY DEF OptionsInv, OptionsWereInForce
<1>2. ResolutionFollowed'
  BY DEF OptionsInv, ResolutionFollowed, Resolving, InForce
<1> QED BY <1>1, <1>2 DEF OptionsInv

LEMMA ResolvedSteps ==
  ASSUME AnalysisInv, OptionsInv, NEW c \in Calls,
         \/ Bypass(c) \/ Enrich(c) \/ LookupThrows(c)
         \/ NoScanner(c) \/ ScannerFound(c)
         \/ Notify(c) \/ ConsumerThrows(c) \/ AllNotified(c)
         \/ MakeReport(c) \/ Deliver(c) \/ SinkThrows(c) \/ Return(c)
  PROVE  OptionsInv'
<1> USE DEF Bypass, Enrich, LookupThrows, NoScanner, ScannerFound, Notify,
            ConsumerThrows, AllNotified, MakeReport, Deliver, SinkThrows, Return
<1>1. UNCHANGED <<config, store, input, opts, inForce, storeMoved, configMoved>>
  BY DEF settings, history
<1>2. /\ pc[c] \notin {"idle", "store", "monitor"}
      /\ pc'[c] \notin {"idle", "store", "monitor"}
      /\ \A q \in Calls \ {c} : pc'[q] = pc[q]
  BY DEF AnalysisInv, TypeOK, CallsOK, Goto
<1> HIDE DEF Bypass, Enrich, LookupThrows, NoScanner, ScannerFound, Notify,
             ConsumerThrows, AllNotified, MakeReport, Deliver, SinkThrows, Return
<1> QED BY <1>1, <1>2, ResolvedStep

(* The two reads.  The second finds what was in force at the first, or     *)
(* what has been put in force since, unless both changed in between.       *)
LEMMA ReadSteps ==
  ASSUME AnalysisInv, OptionsInv, NEW c \in Calls,
         Begin(c) \/ ReadStore(c) \/ ReadMonitor(c)
  PROVE  OptionsInv'
<1>1. /\ UNCHANGED <<config, store, input, storeMoved, configMoved>>
      /\ pc \in [Calls -> Labels] /\ opts \in [Calls -> OptionObjects \cup {None}]
      /\ inForce \in [Calls -> SUBSET OptionObjects]
  BY DEF AnalysisInv, TypeOK, CallsOK, HistoryOK, Begin, ReadStore, ReadMonitor,
         settings, history
<1>2. CASE Begin(c)
  <2>1. /\ pc[c] = "idle" /\ pc'[c] = "store"
        /\ opts' = opts /\ opts[c] = None
        /\ inForce'[c] = {InForce(store, config, input[c].tenant)}
        /\ \A q \in Calls \ {c} : pc'[q] = pc[q] /\ inForce'[q] = inForce[q]
    BY <1>1, <1>2 DEF Begin, Goto, OptionsInv, ResolutionFollowed
  <2>2. OptionsWereInForce'
    BY <1>1, <2>1 DEF OptionsInv, OptionsWereInForce
  <2>3. ResolutionFollowed'
    BY <1>1, <2>1 DEF OptionsInv, ResolutionFollowed, Resolving, InForce
  <2> QED BY <2>2, <2>3 DEF OptionsInv
<1>3. CASE ReadStore(c)
  <2>1. /\ pc[c] = "store" /\ inForce' = inForce
        /\ opts'[c] = store[input[c].tenant]
        /\ pc'[c] = IF opts'[c] = None THEN "monitor" ELSE "analyze"
        /\ \A q \in Calls \ {c} : pc'[q] = pc[q] /\ opts'[q] = opts[q]
    BY <1>1, <1>3 DEF ReadStore, Goto, history
  <2>2. InForce(store, config, input[c].tenant) \in inForce[c]
    BY <2>1 DEF OptionsInv, ResolutionFollowed, Resolving
  <2>3. OptionsWereInForce'
    BY <1>1, <2>1, <2>2 DEF OptionsInv, OptionsWereInForce, InForce
  <2>4. ResolutionFollowed'
    BY <1>1, <2>1, <2>2 DEF OptionsInv, ResolutionFollowed, Resolving, InForce
  <2> QED BY <2>3, <2>4 DEF OptionsInv
<1>4. CASE ReadMonitor(c)
  <2>1. /\ pc[c] = "monitor" /\ inForce' = inForce
        /\ opts'[c] = config
        /\ pc'[c] = "analyze"
        /\ \A q \in Calls \ {c} : pc'[q] = pc[q] /\ opts'[q] = opts[q]
    BY <1>1, <1>4 DEF ReadMonitor, Goto, history
  <2>2. config \in inForce[c] \/ (c \in storeMoved /\ c \in configMoved)
    BY <2>1 DEF OptionsInv, ResolutionFollowed
  <2>3. OptionsWereInForce'
    BY <1>1, <2>1, <2>2 DEF OptionsInv, OptionsWereInForce
  <2>4. ResolutionFollowed'
    BY <1>1, <2>1 DEF OptionsInv, ResolutionFollowed, Resolving, InForce
  <2> QED BY <2>3, <2>4 DEF OptionsInv
<1> QED BY <1>2, <1>3, <1>4

(* A change of the settings while calls are between their reads. *)
LEMMA SettingsMove ==
  ASSUME AnalysisInv, OptionsInv,
         Reload \/ \E t \in Tenants \cup {NoTenant} : StoreWrite(t)
  PROVE  OptionsInv'
<1>1. /\ UNCHANGED <<input, pc, opts>>
      /\ NoteInForce
      /\ storeMoved \subseteq storeMoved' /\ configMoved \subseteq configMoved'
  BY DEF Reload, StoreWrite
<1>2. /\ \A c \in Calls : inForce[c] \subseteq inForce'[c]
      /\ \A c \in Resolving :
           InForce(store', config', input[c].tenant) \in inForce'[c]
  BY <1>1 DEF NoteInForce, Resolving
<1>3. OptionsWereInForce'
  BY <1>1, <1>2 DEF OptionsInv, OptionsWereInForce
<1>4. ASSUME NEW c \in Calls, pc[c] = "monitor"
      PROVE  /\ c \notin storeMoved' => store'[input[c].tenant] = None
             /\ config' \in inForce'[c] \/ (c \in storeMoved' /\ c \in configMoved')
  <2>1. /\ c \in Resolving
        /\ c \notin storeMoved => store[input[c].tenant] = None
        /\ config \in inForce[c] \/ (c \in storeMoved /\ c \in configMoved)
    BY <1>4 DEF OptionsInv, ResolutionFollowed, Resolving
  <2>2. CASE Reload
    <3>1. store' = store /\ storeMoved' = storeMoved /\ c \in configMoved'
      BY <2>1, <2>2 DEF Reload
    <3>2. c \notin storeMoved => config' \in inForce'[c]
      BY <1>2, <2>1, <3>1 DEF InForce
    <3> QED BY <2>1, <3>1, <3>2
  <2>3. ASSUME NEW t \in Tenants \cup {NoTenant}, StoreWrite(t)
        PROVE  /\ c \notin storeMoved' => store'[input[c].tenant] = None
               /\ config' \in inForce'[c] \/ (c \in storeMoved' /\ c \in configMoved')
    <3>1. /\ config' = config
          /\ \E o : store' = [store EXCEPT ![t] = o]
          /\ input[c].tenant = t => c \in storeMoved'
      BY <2>1, <2>3 DEF StoreWrite
    <3>2. input[c].tenant \in Tenants \cup {NoTenant}
      BY AnalysisAssumption DEF AnalysisInv, TypeOK, CallsOK, ClientFingerprintData
    <3>3. input[c].tenant # t => store'[input[c].tenant] = store[input[c].tenant]
      BY <3>1, <3>2 DEF AnalysisInv, TypeOK, SettingsOK
    <3> QED BY <1>1, <1>2, <2>1, <3>1, <3>3
  <2> QED BY <2>2, <2>3
<1>5. ResolutionFollowed'
  BY <1>1, <1>2, <1>4 DEF OptionsInv, ResolutionFollowed, Resolving
<1> QED BY <1>3, <1>5 DEF OptionsInv

LEMMA OptionsInit == Init => OptionsInv
BY DEF Init, OptionsInv, OptionsWereInForce, ResolutionFollowed, Resolving

LEMMA OptionsInvStep == AnalysisInv /\ OptionsInv /\ [Next]_vars => OptionsInv'
<1> SUFFICES ASSUME AnalysisInv, OptionsInv, [Next]_vars PROVE OptionsInv'
  OBVIOUS
<1>1. CASE UNCHANGED vars \/ BuildDetector
  <2>1. UNCHANGED <<config, store, input, opts, pc, inForce, storeMoved, configMoved>>
    BY <1>1 DEF vars, BuildDetector, settings, history
  <2> QED BY <2>1 DEF OptionsInv, OptionsWereInForce, ResolutionFollowed,
                      Resolving, InForce
<1>2. CASE AllEnded
  BY <1>1, <1>2 DEF AllEnded
<1>3. CASE Reload \/ \E t \in Tenants \cup {NoTenant} : StoreWrite(t)
  BY <1>3, SettingsMove
<1>4. ASSUME NEW c \in Calls, Step(c) PROVE OptionsInv'
  BY <1>4, ReadSteps, ResolvedSteps DEF Step
<1> QED BY <1>1, <1>2, <1>3, <1>4 DEF Next

(* A call never goes by options that were not in force for its tenant      *)
(* while it looked for them, unless store and configuration both changed   *)
(* between its two reads (FraudDetectionOptionsResolver line 13).          *)
THEOREM ResolvedOptionsWereInForce == Spec => []OptionsWereInForce
<1>1. OptionsInv => OptionsWereInForce
  BY DEF OptionsInv
<1> QED BY <1>1, OptionsInit, OptionsInvStep, AnalysisInvariant, PTL DEF Spec
-----------------------------------------------------------------------------
(* The counters.                                                           *)

LEMMA AddOne ==
  ASSUME NEW S, IsFiniteSet(S), NEW x, x \notin S
  PROVE  Cardinality(S \cup {x}) = Cardinality(S) + 1
BY FS_AddElement

LEMMA CountedFinite ==
  /\ IsFiniteSet(Counted)
  /\ \A v : IsFiniteSet(CountedAs(v)) /\ IsFiniteSet(RiskedAs(v))
  /\ IsFiniteSet(SinkIds) /\ Cardinality(SinkIds) = Sinks
  /\ IsFiniteSet(Threw)
<1>1. IsFiniteSet(Counted)
  BY CallsAssumption, FS_Subset DEF Counted
<1>2. ASSUME NEW v PROVE IsFiniteSet(CountedAs(v)) /\ IsFiniteSet(RiskedAs(v))
  <2>1. CountedAs(v) \in SUBSET Counted /\ RiskedAs(v) \in SUBSET Counted
    BY DEF CountedAs, RiskedAs
  <2> QED BY <1>1, <2>1, FS_Subset
<1>3. IsFiniteSet(SinkIds) /\ Cardinality(SinkIds) = Sinks
  <2>1. Sinks \in Nat
    BY AnalysisAssumption
  <2> QED BY <2>1, FS_Interval DEF SinkIds
<1>4. IsFiniteSet(Calls \X SinkIds)
  BY <1>3, CallsAssumption, FS_Product
<1>5. Threw \in SUBSET (Calls \X SinkIds)
  BY DEF Threw
<1>6. IsFiniteSet(Threw)
  BY <1>4, <1>5, FS_Subset
<1> QED BY <1>1, <1>2, <1>3, <1>6

LEMMA CountsInit == Init => CountsInv
<1> SUFFICES ASSUME Init PROVE CountsInv
  OBVIOUS
<1>1. Counted = {} /\ \A v : CountedAs(v) = {} /\ RiskedAs(v) = {}
  BY DEF Init, Counted, CountedAs, RiskedAs
<1>2. Threw = {}
  BY DEF Init, Threw
<1>3. BypassedUncounted
  BY DEF Init, BypassedUncounted
<1> QED BY <1>1, <1>2, <1>3, FS_EmptySet DEF Init, CountsInv

(* A step that makes no report and hands no event to a sink. *)
LEMMA UncountedStep ==
  ASSUME CountsInv, UNCHANGED <<report, sinkResult, counters>>,
         \A q \in Calls : pc[q] = "returned" => pc'[q] = "returned"
  PROVE  CountsInv'
<1>1. /\ Counted' = Counted /\ Threw' = Threw
      /\ \A v : CountedAs(v)' = CountedAs(v) /\ RiskedAs(v)' = RiskedAs(v)
  BY DEF Counted, CountedAs, RiskedAs, Threw
<1>2. BypassedUncounted'
  BY DEF CountsInv, BypassedUncounted
<1> QED BY <1>1, <1>2 DEF CountsInv, counters

LEMMA UncountedSteps ==
  ASSUME AnalysisInv, CountsInv, NEW c \in Calls,
         \/ Begin(c) \/ ReadStore(c) \/ ReadMonitor(c)
         \/ Enrich(c) \/ LookupThrows(c) \/ NoScanner(c) \/ ScannerFound(c)
         \/ Notify(c) \/ ConsumerThrows(c) \/ AllNotified(c) \/ Return(c)
  PROVE  CountsInv'
<1> USE DEF Begin, ReadStore, ReadMonitor, Enrich, LookupThrows, NoScanner,
            ScannerFound, Notify, ConsumerThrows, AllNotified, Return
<1>1. UNCHANGED <<report, sinkResult, counters>>
  OBVIOUS
<1>2. /\ pc[c] # "returned"
      /\ \A q \in Calls \ {c} : pc'[q] = pc[q]
  BY DEF AnalysisInv, TypeOK, CallsOK, Goto
<1> HIDE DEF Begin, ReadStore, ReadMonitor, Enrich, LookupThrows, NoScanner,
             ScannerFound, Notify, ConsumerThrows, AllNotified, Return
<1> QED BY <1>1, <1>2, UncountedStep

LEMMA BypassCounts ==
  ASSUME AnalysisInv, CountsInv, NEW c \in Calls, Bypass(c)
  PROVE  CountsInv'
<1>1. /\ UNCHANGED <<sinkResult, counters>>
      /\ pc[c] = "analyze" /\ pc'[c] = "returned"
      /\ \A q \in Calls \ {c} : pc'[q] = pc[q] /\ report'[q] = report[q]
      /\ report'[c].bypassed
  BY DEF Bypass, Goto, AnalysisInv, TypeOK, CallsOK
<1>2. report[c] = None /\ sinkResult[c] = <<>>
  BY <1>1 DEF AnalysisInv, ReportMade, SinksInTurn
<1>3. Counted' = Counted
  BY <1>1, <1>2 DEF Counted
<1>4. \A v : CountedAs(v)' = CountedAs(v) /\ RiskedAs(v)' = RiskedAs(v)
  BY <1>1, <1>2, <1>3 DEF Counted, CountedAs, RiskedAs
<1>5. Threw' = Threw
  BY <1>1 DEF Threw
<1>6. BypassedUncounted'
  BY <1>1, <1>2 DEF CountsInv, BypassedUncounted
<1> QED BY <1>1, <1>3, <1>4, <1>5, <1>6 DEF CountsInv, counters

(* A report is counted once, under one verdict and one risk level. *)
LEMMA ReportCounts ==
  ASSUME AnalysisInv, CountsInv, NEW c \in Calls, MakeReport(c)
  PROVE  CountsInv'
<1> DEFINE verdict == AnalysisVerdict(c)
           risk == RiskLevel(AnalysisVerdict(c))
<1>1. /\ UNCHANGED <<sinkResult, failures>>
      /\ analyses' = analyses + 1
      /\ byVerdict' = [byVerdict EXCEPT ![verdict] = @ + 1]
      /\ byRisk' = [byRisk EXCEPT ![risk] = @ + 1]
      /\ pc[c] = "report" /\ pc'[c] = "dispatch"
      /\ \A q \in Calls \ {c} : pc'[q] = pc[q] /\ report'[q] = report[q]
      /\ ~report'[c].bypassed
      /\ report'[c].verdict = verdict /\ report'[c].risk = risk
  BY DEF MakeReport, Goto, AnalysisInv, TypeOK, CallsOK
<1>2. report[c] = None /\ c \notin Counted
  BY <1>1 DEF AnalysisInv, ReportMade, Counted
<1>3. report'[c] # None
  BY <1>1, MakeReportStep DEF AnalysisInv, ReportMade
<1>4. Counted' = Counted \cup {c}
  BY <1>1, <1>2, <1>3 DEF Counted
<1>5. /\ \A v : CountedAs(v)' = IF v = verdict THEN CountedAs(v) \cup {c}
                                                ELSE CountedAs(v)
      /\ \A l : RiskedAs(l)' = IF l = risk THEN RiskedAs(l) \cup {c} ELSE RiskedAs(l)
      /\ \A v : c \notin CountedAs(v) /\ c \notin RiskedAs(v)
  BY <1>1, <1>2, <1>4 DEF CountedAs, RiskedAs, Counted
<1>6. Threw' = Threw
  BY <1>1 DEF Threw
<1>7. BypassedUncounted'
  BY <1>1 DEF CountsInv, BypassedUncounted
<1>8. analyses' = Cardinality(Counted')
  BY <1>1, <1>2, <1>4, CountedFinite, AddOne DEF CountsInv
<1>9. ASSUME NEW v \in Verdicts PROVE byVerdict'[v] = Cardinality(CountedAs(v)')
  <2>1. byVerdict'[v] = IF v = verdict THEN byVerdict[v] + 1 ELSE byVerdict[v]
    BY <1>1 DEF AnalysisInv, TypeOK, CountersOK
  <2>2. byVerdict[v] = Cardinality(CountedAs(v))
    BY DEF CountsInv
  <2>3. Cardinality(CountedAs(v) \cup {c}) = Cardinality(CountedAs(v)) + 1
    BY <1>5, CountedFinite, AddOne
  <2> QED BY <1>5, <2>1, <2>2, <2>3
<1>10. ASSUME NEW l \in RiskLevels PROVE byRisk'[l] = Cardinality(RiskedAs(l)')
  <2>1. byRisk'[l] = IF l = risk THEN byRisk[l] + 1 ELSE byRisk[l]
    BY <1>1 DEF AnalysisInv, TypeOK, CountersOK
  <2>2. byRisk[l] = Cardinality(RiskedAs(l))
    BY DEF CountsInv
  <2>3. Cardinality(RiskedAs(l) \cup {c}) = Cardinality(RiskedAs(l)) + 1
    BY <1>5, CountedFinite, AddOne
  <2> QED BY <1>5, <2>1, <2>2, <2>3
<1> QED BY <1>1, <1>6, <1>7, <1>8, <1>9, <1>10 DEF CountsInv

(* A sink that throws is counted, one that does not is not. *)
LEMMA SinkCounts ==
  ASSUME AnalysisInv, CountsInv, NEW c \in Calls, Deliver(c) \/ SinkThrows(c)
  PROVE  CountsInv'
<1> DEFINE next == Len(sinkResult[c]) + 1
<1>1. PICK result \in {"received", "threw"} :
        /\ sinkResult' = [sinkResult EXCEPT ![c] = Append(@, result)]
        /\ failures' = IF result = "threw" THEN failures + 1 ELSE failures
        /\ UNCHANGED <<pc, report, analyses, byVerdict, byRisk>>
        /\ pc[c] = "dispatch"
        /\ Len(sinkResult[c]) < Sinks
  BY DEF Deliver, SinkThrows, counters
<1>2. sinkResult \in [Calls -> Seq({"received", "threw"})]
  BY DEF AnalysisInv, TypeOK, CallsOK
<1>3. /\ \A q \in Calls \ {c} : sinkResult'[q] = sinkResult[q]
      /\ DOMAIN sinkResult'[c] = DOMAIN sinkResult[c] \cup {next}
      /\ next \notin DOMAIN sinkResult[c]
      /\ sinkResult'[c][next] = result
      /\ \A i \in DOMAIN sinkResult[c] : sinkResult'[c][i] = sinkResult[c][i]
  BY <1>1, <1>2
<1>4. next \in SinkIds
  BY <1>1, <1>2, AnalysisAssumption DEF SinkIds
<1> HIDE DEF next
<1>5. /\ Threw' = IF result = "threw" THEN Threw \cup {<<c, next>>} ELSE Threw
      /\ <<c, next>> \notin Threw
  BY <1>3, <1>4 DEF Threw
<1>6. failures' = Cardinality(Threw')
  BY <1>1, <1>5, CountedFinite, AddOne DEF CountsInv
<1>7. /\ Counted' = Counted
      /\ \A v : CountedAs(v)' = CountedAs(v) /\ RiskedAs(v)' = RiskedAs(v)
  BY <1>1 DEF Counted, CountedAs, RiskedAs
<1>8. BypassedUncounted'
  BY <1>1, <1>3 DEF CountsInv, BypassedUncounted
<1> QED BY <1>1, <1>6, <1>7, <1>8 DEF CountsInv

LEMMA CountsInvStep == AnalysisInv /\ CountsInv /\ [Next]_vars => CountsInv'
<1> SUFFICES ASSUME AnalysisInv, CountsInv, [Next]_vars PROVE CountsInv'
  OBVIOUS
<1>1. CASE \/ UNCHANGED vars \/ Reload \/ BuildDetector
           \/ \E t \in Tenants \cup {NoTenant} : StoreWrite(t)
  <2>1. UNCHANGED <<pc, report, sinkResult, counters>>
    BY <1>1 DEF vars, Reload, BuildDetector, StoreWrite
  <2> QED BY <2>1, UncountedStep
<1>2. CASE AllEnded
  BY <1>1, <1>2 DEF AllEnded
<1>3. ASSUME NEW c \in Calls, Step(c) PROVE CountsInv'
  BY <1>3, UncountedSteps, BypassCounts, ReportCounts, SinkCounts DEF Step
<1> QED BY <1>1, <1>2, <1>3 DEF Next

(* Once no dispatch is under way every sink of every counted call has      *)
(* received the event or thrown on it.                                     *)
LEMMA EveryEventAccounted ==
  ASSUME AnalysisInv, CountsInv, \A c \in Calls : pc[c] # "dispatch"
  PROVE  CountersReconcile
<1> DEFINE counted == {c \in Calls : pc[c] = "returned" /\ ~report[c].bypassed}
           received == UNION {{<<c, i>> : i \in ResultsOf(c, "received")} : c \in Calls}
<1>1. counted = Counted
  BY DEF AnalysisInv, ReportMade, Counted
<1>2. \A c \in Calls : c \notin Counted => sinkResult[c] = <<>>
  BY DEF AnalysisInv, ReportMade, SinksInTurn, CountsInv, BypassedUncounted, Counted
<1>3. \A c \in Counted : DOMAIN sinkResult[c] = SinkIds
  BY <1>1 DEF AnalysisInv, SinksIsolated
<1>4. \A c \in Calls : \A i \in DOMAIN sinkResult[c] :
        sinkResult[c][i] \in {"received", "threw"}
  BY DEF AnalysisInv, TypeOK, CallsOK
<1>5. received = {h \in Counted \X SinkIds : sinkResult[h[1]][h[2]] = "received"}
  BY <1>2, <1>3 DEF ResultsOf, Counted
<1>6. Threw = {h \in Counted \X SinkIds : sinkResult[h[1]][h[2]] = "threw"}
  BY <1>2, <1>3 DEF Threw, Counted
<1>7. Counted \X SinkIds = received \cup Threw /\ received \cap Threw = {}
  <2>1. \A h \in Counted \X SinkIds : sinkResult[h[1]][h[2]] \in {"received", "threw"}
    BY <1>3, <1>4 DEF Counted
  <2> HIDE DEF received
  <2> QED BY <1>5, <1>6, <2>1
<1> HIDE DEF received
<1>8. /\ IsFiniteSet(Counted \X SinkIds)
      /\ Cardinality(Counted \X SinkIds) = Cardinality(Counted) * Sinks
  BY CountedFinite, FS_Product
<1>9. IsFiniteSet(received)
  <2>1. received \in SUBSET (Counted \X SinkIds)
    BY <1>5
  <2> QED BY <1>8, <2>1, FS_Subset
<1>10. Cardinality(received) + failures = Sinks * analyses
  <2>1. Cardinality(received \cup Threw)
          = Cardinality(received) + Cardinality(Threw) - Cardinality(received \cap Threw)
    BY <1>9, CountedFinite, FS_Union
  <2>2. Cardinality(received \cap Threw) = 0
    BY <1>7, FS_EmptySet
  <2>3. /\ Cardinality(received) \in Nat /\ Cardinality(Threw) \in Nat
        /\ Cardinality(Counted) \in Nat /\ Sinks \in Nat
    BY <1>9, CountedFinite, FS_CardinalityType, AnalysisAssumption
  <2>4. Cardinality(Counted) * Sinks = Sinks * Cardinality(Counted)
    BY <2>3
  <2>5. Cardinality(received \cup Threw) = Sinks * analyses
    <3>1. analyses = Cardinality(Counted)
      BY DEF CountsInv
    <3> QED BY ONLY <1>7, <1>8, <2>4, <3>1
  <2>6. Cardinality(received \cup Threw) = Cardinality(received) + Cardinality(Threw)
    BY <2>1, <2>2, <2>3
  <2>7. failures = Cardinality(Threw)
    BY DEF CountsInv
  <2> QED BY ONLY <2>5, <2>6, <2>7
<1>11. /\ \A v \in Verdicts :
            byVerdict[v] = Cardinality({c \in Counted : report[c].verdict = v})
       /\ \A l \in RiskLevels :
            byRisk[l] = Cardinality({c \in Counted : report[c].risk = l})
  BY DEF CountsInv, CountedAs, RiskedAs
<1> QED BY <1>1, <1>10, <1>11 DEF CountersReconcile, CountsInv, received

(* The counters add up for any number of calls and sinks, whichever sinks  *)
(* throw on whichever events (FraudEventDispatcher lines 29-49).           *)
THEOREM CountersAddUp == Spec => []CountersReconcile
<1>1. AnalysisInv /\ CountsInv => CountersReconcile
  BY EveryEventAccounted DEF CountersReconcile
<1> QED BY <1>1, CountsInit, CountsInvStep, AnalysisInvariant, PTL DEF Spec
=============================================================================
