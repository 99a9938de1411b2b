---------------------------- MODULE FraudAnalysis ----------------------------
(***************************************************************************)
(* IFraudDetector.Analyze from the host's point of view: which detector    *)
(* the container builds, which options a call sees while the configuration *)
(* and the per-tenant store change under it, the authorized-pen-test       *)
(* bypass, geo-IP enrichment, the notification consumers, the report, the  *)
(* metrics and the event sinks (SafeWebCore.FraudDetection).  Calls        *)
(* interleave at every call that leaves the detector.                      *)
(*                                                                         *)
(* What PenTestSignalAnalyzer answers is a free choice here: module        *)
(* PenTestSignals says when it answers what.  The scores are those of      *)
(* FraudScoring; the two option groups list the same countries, zones and  *)
(* languages and differ in toggles and thresholds.                         *)
(***************************************************************************)
EXTENDS FraudScoring, FiniteSets, Sequences

CONSTANTS
  Calls,        \* calls of Analyze
  Tenants,      \* the tenant ids requests carry
  NoTenant,     \* the null tenant the container asks for
  OptionObjects,\* what configuration and store may hold
  Inputs,       \* what the callers pass
  Lookups,      \* what the geo-IP service answers, empty if there is none
  Consumers,    \* number of notification consumers
  Sinks,        \* number of event sinks
  MaxChanges    \* bound: changes of configuration and store

None == [none |-> TRUE]        \* no override, no options yet, no report yet

Secrets == {"blank", "token"}

(* FraudDetectionOptions; secret is AuthorizationHeaderSecret, header says *)
(* that AuthorizationHeaderName is set.                                    *)
FraudDetectionOptions ==
  [geoOn: BOOLEAN, westernOn: BOOLEAN, penTestOn: BOOLEAN,
   header: BOOLEAN, secret: Secrets, scannerAction: Actions,
   geo: ScoringOptions, western: ScoringOptions]

(* ClientFingerprintData: ip says that IpAddress is not blank, auth is the *)
(* value of the authorization header.  A country or zone "none" is null.   *)
ClientFingerprintData ==
  [tenant: Tenants \cup {NoTenant}, ip: BOOLEAN,
   auth: {"absent", "blank", "token", "other"}, scored: ScoredData]

ASSUME AnalysisAssumption ==
  /\ NoTenant \notin Tenants
  /\ OptionObjects \subseteq FraudDetectionOptions
  /\ OptionObjects # {}
  /\ Inputs \subseteq ClientFingerprintData
  /\ Lookups \subseteq [country: Countries, timezone: Timezones]
  /\ Consumers \in Nat
  /\ Sinks \in Nat
  /\ MaxChanges \in Nat

(* For the counters: as many calls as there may be, they can be counted. *)
ASSUME CallsAssumption == IsFiniteSet(Calls)

VARIABLES
  config,    \* IOptionsMonitor.CurrentValue
  store,     \* IFraudDetectionConfigurationStore, None without an override
  changes,   \* how often either has changed
  detector,  \* the IFraudDetector singleton
  input,     \* what each call was given
  pc,        \* where each call is
  opts,      \* the options it resolved
  data,      \* its enriched fingerprint
  scanner,   \* ScannerDetected
  emailed,   \* EmailSent
  notified,  \* how many consumers have handled its notification
  report,    \* what it will return
  sinkResult,\* what became of its event at each sink
  analyses,  \* the fraud_analyses_total counter
  byVerdict, \* the fraud_events_by_verdict_total counter
  byRisk,    \* the fraud_events_by_risk_total counter
  failures,  \* the fraud_event_sink_failures_total counter
  \* History: the options that have been in force for the call's tenant
  \* since it began to resolve them, and whether both the store's entry and
  \* the configuration changed meanwhile.
  inForce, storeMoved, configMoved

history == <<inForce, storeMoved, configMoved>>
settings == <<config, store, changes>>
counters == <<analyses, byVerdict, byRisk, failures>>
vars == <<settings, detector, input, pc, opts, data, scanner, emailed,
          notified, report, sinkResult, counters, history>>

SinkIds == 1 .. Sinks

Labels == {"idle", "store", "monitor", "analyze", "penTest", "notify",
           "report", "dispatch", "returned", "failed"}

(* What the resolver answers when nothing changes between its two reads. *)
InForce(s, cfg, tenant) == IF s[tenant] # None THEN s[tenant] ELSE cfg

Goto(c, label) == pc' = [pc EXCEPT ![c] = label]

-----------------------------------------------------------------------------
Init ==
  /\ config \in OptionObjects
  /\ store \in [Tenants \cup {NoTenant} -> OptionObjects \cup {None}]
  /\ changes = 0
  /\ detector = "none"
  /\ input \in [Calls -> Inputs]
  /\ pc = [c \in Calls |-> "idle"]
  /\ opts = [c \in Calls |-> None]
  /\ data = [c \in Calls |-> input[c].scored]
  /\ scanner = [c \in Calls |-> FALSE]
  /\ emailed = [c \in Calls |-> FALSE]
  /\ notified = [c \in Calls |-> 0]
  /\ report = [c \in Calls |-> None]
  /\ sinkResult = [c \in Calls |-> <<>>]
  /\ analyses = 0
  /\ byVerdict = [v \in Verdicts |-> 0]
  /\ byRisk = [l \in RiskLevels |-> 0]
  /\ failures = 0
  /\ inForce = [c \in Calls |-> {}]
  /\ storeMoved = {}
  /\ configMoved = {}

Resolving == {c \in Calls : pc[c] \in {"store", "monitor"}}

NoteInForce ==
  inForce' = [c \in Calls |->
                IF c \in Resolving
                THEN inForce[c] \cup {InForce(store', config', input[c].tenant)}
                ELSE inForce[c]]

(* The configuration is reloaded (external: IOptionsMonitor). *)
Reload ==
  /\ changes < MaxChanges
  /\ changes' = changes + 1
  /\ config' \in OptionObjects \ {config}
  /\ configMoved' = configMoved \cup Resolving
  /\ UNCHANGED store
  /\ NoteInForce
  /\ UNCHANGED <<detector, input, pc, opts, data, scanner, emailed, notified,
                 report, sinkResult, counters, storeMoved>>

(* The store's entry of a tenant changes (external).                       *)
StoreWrite(t) ==
  /\ changes < MaxChanges
  /\ changes' = changes + 1
  /\ \E o \in (OptionObjects \cup {None}) \ {store[t]} :
       store' = [store EXCEPT ![t] = o]
  /\ storeMoved' = storeMoved \cup {c \in Resolving : input[c].tenant = t}
  /\ UNCHANGED config
  /\ NoteInForce
  /\ UNCHANGED <<detector, input, pc, opts, data, scanner, emailed, notified,
                 report, sinkResult, counters, configMoved>>

(* The container builds the one IFraudDetector, for the first request that *)
(* asks for it, by the options of the null tenant.                         *)
BuildDetector ==
  /\ detector = "none"
  /\ detector' = IF InForce(store, config, NoTenant).geoOn THEN "geo" ELSE "western"
  /\ UNCHANGED <<settings, input, pc, opts, data, scanner, emailed, notified,
                 report, sinkResult, counters, history>>

Begin(c) ==
  /\ pc[c] = "idle"
  /\ detector # "none"
  /\ Goto(c, "store")
  /\ inForce' = [inForce EXCEPT ![c] = {InForce(store, config, input[c].tenant)}]
  /\ UNCHANGED <<settings, detector, input, opts, data, scanner, emailed,
                 notified, report, sinkResult, counters, storeMoved, configMoved>>

(* GetCurrent: the store's override ... *)
ReadStore(c) ==
  /\ pc[c] = "store"
  /\ opts' = [opts EXCEPT ![c] = store[input[c].tenant]]
  /\ Goto(c, IF opts'[c] = None THEN "monitor" ELSE "analyze")
  /\ UNCHANGED <<settings, detector, input, data, scanner, emailed, notified,
                 report, sinkResult, counters, history>>

(* Mutant of ReadMonitor: another call's options are reused. *)
ReadMonitorCached(c) ==
  /\ pc[c] = "monitor"
  /\ \/ \E q \in Calls : opts[q] # None /\ opts' = [opts EXCEPT ![c] = opts[q]]
     \/ opts' = [opts EXCEPT ![c] = config]
  /\ Goto(c, "analyze")
  /\ UNCHANGED <<settings, detector, input, data, scanner, emailed, notified,
                 report, sinkResult, counters, history>>

(* ... and without one the current configuration. *)
ReadMonitor(c) ==
  /\ pc[c] = "monitor"
  /\ opts' = [opts EXCEPT ![c] = config]
  /\ Goto(c, "analyze")
  /\ UNCHANGED <<settings, detector, input, data, scanner, emailed, notified,
                 report, sinkResult, counters, history>>

(* IsAuthorizedPenTestBypass *)
Authorized(c) ==
  /\ opts[c].header
  /\ input[c].auth # "absent"
  /\ IF opts[c].secret = "blank" THEN input[c].auth # "blank"
                                 ELSE input[c].auth = opts[c].secret

Bypass(c) ==
  /\ pc[c] = "analyze"
  /\ Authorized(c)
  /\ report' = [report EXCEPT ![c] =
                  [bypassed |-> TRUE, detected |-> FALSE, sent |-> FALSE,
                   score |-> 0, verdict |-> "Clean", action |-> NoAction,
                   risk |-> RiskLevel("Clean")]]
  /\ Goto(c, "returned")
  /\ UNCHANGED <<settings, detector, input, opts, data, scanner, emailed,
                 notified, sinkResult, counters, history>>

CountryMissing(c)  == input[c].scored.country = "none"
TimezoneMissing(c) == input[c].scored.timezone = "none"

LooksUp(c) ==
  Lookups # {} /\ input[c].ip /\ (CountryMissing(c) \/ TimezoneMissing(c))

(* GeoIpEnricher: only what is missing is filled in. *)
Enrich(c) ==
  /\ pc[c] = "analyze"
  /\ ~Authorized(c)
  /\ IF LooksUp(c)
     THEN \E found \in Lookups :
            data' = [data EXCEPT
              ![c].country  = IF CountryMissing(c) THEN found.country ELSE @,
              ![c].timezone = IF TimezoneMissing(c) THEN found.timezone ELSE @]
     ELSE UNCHANGED data
  /\ Goto(c, "penTest")
  /\ UNCHANGED <<settings, detector, input, opts, scanner, emailed, notified,
                 report, sinkResult, counters, history>>

(* The geo-IP service throws, and with it Analyze. *)
LookupThrows(c) ==
  /\ pc[c] = "analyze"
  /\ ~Authorized(c)
  /\ LooksUp(c)
  /\ Goto(c, "failed")
  /\ UNCHANGED <<settings, detector, input, opts, data, scanner, emailed,
                 notified, report, sinkResult, counters, history>>

(* EvaluateAndNotify: switched off, or no scanner detected. *)
NoScanner(c) ==
  /\ pc[c] = "penTest"
  /\ Goto(c, "report")
  /\ UNCHANGED <<settings, detector, input, opts, data, scanner, emailed,
                 notified, report, sinkResult, counters, history>>

(* A scanner is detected, and the notification allowed or not. *)
ScannerFound(c) ==
  /\ pc[c] = "penTest"
  /\ opts[c].penTestOn
  /\ scanner' = [scanner EXCEPT ![c] = TRUE]
  /\ \E allowed \in BOOLEAN : Goto(c, IF allowed THEN "notify" ELSE "report")
  /\ UNCHANGED <<settings, detector, input, opts, data, emailed, notified,
                 report, sinkResult, counters, history>>

(* DispatchingPenTestAuthorizationNotificationSender hands the             *)
(* notification to its consumers in turn.                                  *)
Notify(c) ==
  /\ pc[c] = "notify"
  /\ notified[c] < Consumers
  /\ notified' = [notified EXCEPT ![c] = @ + 1]
  /\ UNCHANGED <<settings, detector, input, pc, opts, data, scanner, emailed,
                 report, sinkResult, counters, history>>

(* A consumer throws: the ones after it never hear of it, and Analyze      *)
(* throws without a report or an event.                                    *)
ConsumerThrows(c) ==
  /\ pc[c] = "notify"
  /\ notified[c] < Consumers
  /\ Goto(c, "failed")
  /\ UNCHANGED <<settings, detector, input, opts, data, scanner, emailed,
                 notified, report, sinkResult, counters, history>>

AllNotified(c) ==
  /\ pc[c] = "notify"
  /\ notified[c] = Consumers
  /\ emailed' = [emailed EXCEPT ![c] = TRUE]
  /\ Goto(c, "report")
  /\ UNCHANGED <<settings, detector, input, opts, data, scanner, notified,
                 report, sinkResult, counters, history>>

-----------------------------------------------------------------------------
(* The section of the options the detector at hand goes by. *)
Section(c) == IF detector = "geo" THEN opts[c].geo ELSE opts[c].western

SectionOn(c) == IF detector = "geo" THEN opts[c].geoOn ELSE opts[c].westernOn

AnalysisScore(c) == IF SectionOn(c) THEN FinalScore(data[c], Section(c)) ELSE 0

AnalysisVerdict(c) ==
  IF SectionOn(c) THEN DetermineVerdict(AnalysisScore(c), Section(c)) ELSE "Clean"

AnalysisAction(c) ==
  IF SectionOn(c) THEN DetermineAction(AnalysisVerdict(c)) ELSE NoAction

FinalAction(c) ==
  IF scanner[c] THEN MaxSeverity(AnalysisAction(c), opts[c].scannerAction)
                ELSE AnalysisAction(c)

(* The report is put together, and Dispatch counts it. *)
MakeReport(c) ==
  /\ pc[c] = "report"
  /\ report' = [report EXCEPT ![c] =
                  [bypassed |-> FALSE, detected |-> scanner[c], sent |-> emailed[c],
                   score |-> AnalysisScore(c), verdict |-> AnalysisVerdict(c),
                   action |-> FinalAction(c), risk |-> RiskLevel(AnalysisVerdict(c))]]
  /\ analyses' = analyses + 1
  /\ byVerdict' = [byVerdict EXCEPT ![AnalysisVerdict(c)] = @ + 1]
  /\ byRisk' = [byRisk EXCEPT ![RiskLevel(AnalysisVerdict(c))] = @ + 1]
  /\ Goto(c, "dispatch")
  /\ UNCHANGED <<settings, detector, input, opts, data, scanner, emailed,
                 notified, sinkResult, failures, history>>

(* The next sink handles the event ... *)
Deliver(c) ==
  /\ pc[c] = "dispatch"
  /\ Len(sinkResult[c]) < Sinks
  /\ sinkResult' = [sinkResult EXCEPT ![c] = Append(@, "received")]
  /\ UNCHANGED <<settings, detector, input, pc, opts, data, scanner, emailed,
                 notified, report, counters, history>>

(* Mutant of SinkThrows: the failure is swallowed uncounted. *)
SinkThrowsUncounted(c) ==
  /\ pc[c] = "dispatch"
  /\ Len(sinkResult[c]) < Sinks
  /\ sinkResult' = [sinkResult EXCEPT ![c] = Append(@, "threw")]
  /\ UNCHANGED <<settings, detector, input, pc, opts, data, scanner, emailed,
                 notified, report, counters, history>>

(* ... or throws, which the dispatcher counts and no one else notices. *)
SinkThrows(c) ==
  /\ pc[c] = "dispatch"
  /\ Len(sinkResult[c]) < Sinks
  /\ sinkResult' = [sinkResult EXCEPT ![c] = Append(@, "threw")]
  /\ failures' = failures + 1
  /\ UNCHANGED <<settings, detector, input, pc, opts, data, scanner, emailed,
                 notified, report, analyses, byVerdict, byRisk, history>>

Return(c) ==
  /\ pc[c] = "dispatch"
  /\ Len(sinkResult[c]) = Sinks
  /\ Goto(c, "returned")
  /\ UNCHANGED <<settings, detector, input, opts, data, scanner, emailed,
                 notified, report, sinkResult, counters, history>>

AllEnded ==
  /\ \A c \in Calls : pc[c] \in {"returned", "failed"}
  /\ UNCHANGED vars

Step(c) ==
  \/ Begin(c) \/ ReadStore(c) \/ ReadMonitor(c)
  \/ Bypass(c) \/ Enrich(c) \/ LookupThrows(c)
  \/ NoScanner(c) \/ ScannerFound(c)
  \/ Notify(c) \/ ConsumerThrows(c) \/ AllNotified(c)
  \/ MakeReport(c) \/ Deliver(c) \/ SinkThrows(c) \/ Return(c)

Next ==
  \/ Reload \/ BuildDetector \/ AllEnded
  \/ \E t \in Tenants \cup {NoTenant} : StoreWrite(t)
  \/ \E c \in Calls : Step(c)

Spec == Init /\ [][Next]_vars

-----------------------------------------------------------------------------
Reports ==
  [bypassed: BOOLEAN, detected: BOOLEAN, sent: BOOLEAN, score: 0 .. MaxScore,
   verdict: Verdicts, action: Actions, risk: RiskLevels]

SettingsOK ==
  /\ config \in OptionObjects
  /\ store \in [Tenants \cup {NoTenant} -> OptionObjects \cup {None}]
  /\ changes \in Nat
  /\ detector \in {"none", "geo", "western"}

CallsOK ==
  /\ input \in [Calls -> Inputs]
  /\ pc \in [Calls -> Labels]
  /\ opts \in [Calls -> OptionObjects \cup {None}]
  /\ data \in [Calls -> ScoredData]
  /\ scanner \in [Calls -> BOOLEAN]
  /\ emailed \in [Calls -> BOOLEAN]
  /\ notified \in [Calls -> Nat]
  /\ report \in [Calls -> Reports \cup {None}]
  /\ sinkResult \in [Calls -> Seq({"received", "threw"})]

CountersOK ==
  /\ analyses \in Nat
  /\ byVerdict \in [Verdicts -> Nat]
  /\ byRisk \in [RiskLevels -> Nat]
  /\ failures \in Nat

HistoryOK ==
  /\ inForce \in [Calls -> SUBSET OptionObjects]
  /\ storeMoved \subseteq Calls
  /\ configMoved \subseteq Calls

TypeOK == SettingsOK /\ CallsOK /\ CountersOK /\ HistoryOK

(* A call has its options from its first look at the fingerprint on. *)
OptionsResolved ==
  \A c \in Calls :
    pc[c] \in {"analyze", "penTest", "notify", "report", "dispatch", "returned"}
      => opts[c] # None

(* A call that has returned has a report. *)
ReportMade ==
  \A c \in Calls :
    pc[c] \in {"dispatch", "returned"} <=> report[c] # None

(* Sinks are handed an event in turn, after the report is made. *)
SinksInTurn ==
  \A c \in Calls :
    /\ Len(sinkResult[c]) <= Sinks
    /\ pc[c] \notin {"dispatch", "returned"} => sinkResult[c] = <<>>

(* Every sink is handed the event of every report that went through        *)
(* Dispatch before Analyze returns it, whichever sinks throw on whichever  *)
(* events (FraudEventDispatcher lines 40-51).                              *)
SinksIsolated ==
  \A c \in Calls :
    pc[c] = "returned" /\ ~report[c].bypassed => DOMAIN sinkResult[c] = SinkIds

ResultsOf(c, result) == {i \in DOMAIN sinkResult[c] : sinkResult[c][i] = result}

(* The counters agree with what happened once no dispatch is under way:    *)
(* each analysis is counted under one verdict and one risk level and was   *)
(* received or counted as a failure at every sink; bypassed and failed     *)
(* calls count nowhere (FraudEventDispatcher lines 29-49).                 *)
CountersReconcile ==
  (\A c \in Calls : pc[c] # "dispatch") =>
    LET counted == {c \in Calls : pc[c] = "returned" /\ ~report[c].bypassed}
        received == UNION {{<<c, i>> : i \in ResultsOf(c, "received")} : c \in Calls}
    IN  /\ analyses = Cardinality(counted)
        /\ \A v \in Verdicts :
             byVerdict[v] = Cardinality({c \in counted : report[c].verdict = v})
        /\ \A l \in RiskLevels :
             byRisk[l] = Cardinality({c \in counted : report[c].risk = l})
        /\ Cardinality(received) + failures = Sinks * analyses

(* The action of a report is as severe as the verdict calls for and, when  *)
(* a scanner was detected, as severe as the options the call resolved ask  *)
(* for, although Risk and Verdict do not show the scanner.                 *)
ActionCoversFindings ==
  \A c \in Calls : report[c] # None =>
    /\ report[c].action >= DetermineAction(report[c].verdict)
    /\ report[c].detected => report[c].action >= opts[c].scannerAction

(* A report says that the notification was sent only when every consumer   *)
(* has handled it: one that throws makes the whole call fail.              *)
SentMeansAllConsumers ==
  \A c \in Calls :
    report[c] # None /\ report[c].sent => notified[c] = Consumers

(* What keeps it inductive. *)
EmailedAfterAll ==
  \A c \in Calls : emailed[c] =>
    notified[c] = Consumers /\ pc[c] \in {"report", "dispatch", "returned"}

AnalysisInv ==
  /\ TypeOK
  /\ OptionsResolved
  /\ ReportMade
  /\ SinksInTurn
  /\ SinksIsolated
  /\ ActionCoversFindings
  /\ EmailedAfterAll
  /\ SentMeansAllConsumers

(* The options a call goes by were in force for its tenant at some moment  *)
(* of its resolution, unless both the store's entry and the configuration  *)
(* changed between its two reads (FraudDetectionOptionsResolver line 13).  *)
OptionsWereInForce ==
  \A c \in Calls :
    opts[c] # None =>
      opts[c] \in inForce[c] \/ (c \in storeMoved /\ c \in configMoved)

(* What keeps that inductive: what the next read can find was in force     *)
(* too, as long as only one of the two has changed under it.               *)
ResolutionFollowed ==
  \A c \in Calls :
    /\ pc[c] \in {"idle", "store", "monitor"} => opts[c] = None
    /\ c \in Resolving =>
         InForce(store, config, input[c].tenant) \in inForce[c]
    /\ pc[c] = "monitor" =>
         /\ c \notin storeMoved => store[input[c].tenant] = None
         /\ config \in inForce[c] \/ (c \in storeMoved /\ c \in configMoved)

OptionsInv == OptionsWereInForce /\ ResolutionFollowed

(* What keeps CountersReconcile inductive: the counters are exact while    *)
(* events are being dispatched, too.                                       *)
Counted == {c \in Calls : report[c] # None /\ ~report[c].bypassed}

CountedAs(v) == {c \in Counted : report[c].verdict = v}

RiskedAs(l) == {c \in Counted : report[c].risk = l}

Threw ==
  {h \in Calls \X SinkIds :
     h[2] \in DOMAIN sinkResult[h[1]] /\ sinkResult[h[1]][h[2]] = "threw"}

BypassedUncounted ==
  \A c \in Calls : report[c] # None /\ report[c].bypassed =>
    pc[c] = "returned" /\ sinkResult[c] = <<>>

CountsInv ==
  /\ analyses = Cardinality(Counted)
  /\ \A v \in Verdicts : byVerdict[v] = Cardinality(CountedAs(v))
  /\ \A l \in RiskLevels : byRisk[l] = Cardinality(RiskedAs(l))
  /\ failures = Cardinality(Threw)
  /\ BypassedUncounted
=============================================================================
