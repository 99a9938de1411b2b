---------------------------- MODULE FraudScoring ----------------------------
(***************************************************************************)
(* How a fingerprint becomes a score, a verdict, an action and a risk      *)
(* level: SuspicionScorer, TravelModeEvaluator, the DetermineVerdict of    *)
(* the two detectors, FraudVerdictMapping and RiskScore, all under         *)
(* SafeWebCore.FraudDetection.  They keep no state, so they are operators. *)
(*                                                                         *)
(* A country, a time zone or a language is modelled by the configured sets *)
(* it belongs to; "both" is a member of two sets that a configuration is   *)
(* free to let overlap.  The order of the languages does not matter: the   *)
(* code stops at the first hit.                                            *)
(***************************************************************************)
EXTENDS Integers

Countries == {"none", "expected", "travel", "both", "foreign"}
Timezones == {"none", "inconsistent", "travel", "both", "neutral"}
Languages == {"consistent", "inconsistent"}
Fonts     == {"cyrillic", "arabic", "cjk", "devanagari"}

(* What the scorer reads of ClientFingerprintData. *)
ScoredData ==
  [country: Countries, timezone: Timezones, browser: SUBSET Languages,
   accept: SUBSET Languages, fonts: SUBSET Fonts]

(* The toggles and thresholds of a detector's options. *)
ScoringOptions ==
  [travelMode: BOOLEAN, fingerprinting: BOOLEAN,
   medium: Int, high: Int, impersonation: Int]

If(cond, weight) == IF cond THEN weight ELSE 0

-----------------------------------------------------------------------------
(* SuspicionScorer *)

IpIsExpected(d) == d.country \in {"expected", "both"}

IpScore(d, o) ==
  CASE d.country \in {"none", "expected", "both"} -> 0
    [] d.country = "travel"  -> IF o.travelMode THEN 5 ELSE 20
    [] d.country = "foreign" -> 20

TimezoneIsInconsistent(d) == d.timezone \in {"inconsistent", "both"}

TimezoneScore(d, o) ==
  If(TimezoneIsInconsistent(d), 25)
    + If(d.timezone = "travel" /\ o.travelMode, 5)

LanguageIsInconsistent(d) == "inconsistent" \in d.browser \cup d.accept

LanguageScore(d) ==
  If("inconsistent" \in d.browser, 15) + If("inconsistent" \in d.accept, 10)

FontScore(d, o) ==
  IF o.fingerprinting
  THEN If("cyrillic" \in d.fonts, 20) + If("arabic" \in d.fonts, 20)
         + If("cjk" \in d.fonts, 15) + If("devanagari" \in d.fonts, 15)
  ELSE 0

(* ApplyInconsistencyBonus: an expected IP that the other signals belie. *)
InconsistencyBonus(d) ==
  CASE ~IpIsExpected(d) -> 0
    [] IpIsExpected(d) /\ TimezoneIsInconsistent(d) /\ LanguageIsInconsistent(d) -> 30
    [] IpIsExpected(d) /\ TimezoneIsInconsistent(d) /\ ~LanguageIsInconsistent(d) -> 15
    [] IpIsExpected(d) /\ ~TimezoneIsInconsistent(d) -> If(LanguageIsInconsistent(d), 5)

MaxScore == 100

SignalSum(d, o) ==
  IpScore(d, o) + TimezoneScore(d, o) + LanguageScore(d) + FontScore(d, o)
    + InconsistencyBonus(d)

RawScore(d, o) == IF SignalSum(d, o) > MaxScore THEN MaxScore ELSE SignalSum(d, o)

-----------------------------------------------------------------------------
(* TravelModeEvaluator *)

HasNonInconsistentLanguage(d) == "consistent" \in d.browser \cup d.accept

IsLikelyLegitimateTravel(d) ==
  /\ HasNonInconsistentLanguage(d)
  /\ \/ d.country \in {"travel", "both"}
     \/ d.timezone \in {"travel", "both"}

(* (int)(rawScore * 0.55f): for every score up to 100 the float product    *)
(* truncates to the same integer as the exact one.                         *)
Discounted(raw) == (raw * 55) \div 100

(* AdjustScore after Evaluate. *)
FinalScore(d, o) ==
  IF o.travelMode /\ IsLikelyLegitimateTravel(d)
  THEN Discounted(RawScore(d, o))
  ELSE RawScore(d, o)

-----------------------------------------------------------------------------
(* Verdict, action and risk level.  Actions are their enum ordinals, for   *)
(* MaxSeverity compares those.                                             *)

Verdicts == {"Clean", "Suspicious", "HighlySuspicious", "RegionImpersonation"}

DetermineVerdict(score, o) ==
  IF score >= o.impersonation THEN "RegionImpersonation"
  ELSE IF score >= o.high THEN "HighlySuspicious"
  ELSE IF score >= o.medium THEN "Suspicious"
  ELSE "Clean"

NoAction             == 0
Monitor              == 1
StepUpAuthentication == 2
BlockRequest         == 3
Actions == NoAction .. BlockRequest

DetermineAction(verdict) ==
  CASE verdict = "Clean" -> NoAction
    [] verdict = "Suspicious" -> Monitor
    [] verdict = "HighlySuspicious" -> StepUpAuthentication
    [] OTHER -> BlockRequest

MaxSeverity(first, second) == IF first >= second THEN first ELSE second

RiskLevels == {"Low", "Medium", "High", "Critical", "Unclassified"}

RiskLevel(verdict) ==
  CASE verdict = "Clean" -> "Low"
    [] verdict = "RegionImpersonation" -> "Critical"
    [] verdict = "HighlySuspicious" -> "High"
    [] verdict = "Suspicious" -> "Medium"
    [] OTHER -> "Unclassified"

ScoredAction(d, o) == DetermineAction(DetermineVerdict(FinalScore(d, o), o))

-----------------------------------------------------------------------------
(* The order the scoring is meant to respect: e shows every suspicious     *)
(* sign that d shows, and perhaps more, and no more signs of travel.       *)
AtLeastAsSuspect(e, d) ==
  /\ \/ e.country = d.country
     \/ e.country = "foreign" /\ d.country \in {"none", "travel"}
  /\ e.timezone = d.timezone \/ e.timezone = "inconsistent"
  /\ "inconsistent" \in d.browser => "inconsistent" \in e.browser
  /\ "inconsistent" \in d.accept => "inconsistent" \in e.accept
  /\ "consistent" \in e.browser => "consistent" \in d.browser
  /\ "consistent" \in e.accept => "consistent" \in d.accept
  /\ d.fonts \subseteq e.fonts
=============================================================================
