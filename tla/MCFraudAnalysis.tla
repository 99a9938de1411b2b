-------------------------- MODULE MCFraudAnalysis --------------------------
(* Instances of FraudAnalysis for TLC. *)
EXTENDS FraudAnalysis, TLC

CONSTANTS t1

Symmetry == Permutations(Calls)

Thresholds(medium, high, top) ==
  [travelMode |-> TRUE, fingerprinting |-> FALSE,
   medium |-> medium, high |-> high, impersonation |-> top]

(* The legacy detector with its defaults; it recommends monitoring only    *)
(* for scanners, so that a verdict may be the more severe of the two.      *)
Legacy ==
  [geoOn |-> FALSE, westernOn |-> TRUE, penTestOn |-> TRUE,
   header |-> TRUE, secret |-> "token", scannerAction |-> Monitor,
   geo |-> Thresholds(30, 65, 85), western |-> Thresholds(30, 65, 85)]

(* The neutral detector with thresholds nobody validates. *)
Neutral ==
  [Legacy EXCEPT !.geoOn = TRUE, !.westernOn = FALSE, !.secret = "blank",
                 !.scannerAction = BlockRequest, !.geo = Thresholds(40, 20, 10)]

TwoObjects == {Legacy, Neutral}

Fingerprint(country, timezone, browser) ==
  [country |-> country, timezone |-> timezone, browser |-> browser,
   accept |-> {}, fonts |-> {}]

Input(tenant, auth, fingerprint) ==
  [tenant |-> tenant, ip |-> TRUE, auth |-> auth, scored |-> fingerprint]

Masked  == Fingerprint("none", "inconsistent", {"inconsistent"})
Abroad  == Fingerprint("travel", "travel", {"consistent"})
Unknown == Fingerprint("none", "none", {})

(* A masked client, an authorized tester and one with a stale secret. *)
ManyInputs ==
  {Input(t1, "absent", Masked), Input(t1, "token", Unknown),
   Input(NoTenant, "other", Abroad)}

(* Where the lookup has an answer that excuses a foreign time zone; one may *)
(* also have none, or throw.                                               *)
GeoIp == {[country |-> "expected", timezone |-> "neutral"]}
=============================================================================
