-------------------------- MODULE MCHeaderPipeline --------------------------
(* Instances of HeaderPipeline for TLC. *)
EXTENDS HeaderPipeline

Options(matched, enabled, csp, ro, additional, custom, removes) ==
  [matched |-> matched, enabled |-> enabled, csp |-> csp, reportOnly |-> ro,
   additional |-> additional, custom |-> custom, removes |-> removes]

(* A strict global policy, a path in report-only mode that keeps the host  *)
(* names, one with headers of the application's own, one without a CSP,    *)
(* and custom policies that replace the CSP or throw.                      *)
MixedPolicies ==
  {Options(FALSE, Toggled, "nonce", FALSE, {}, "none", {"Server"}),
   Options(TRUE, {"NEL"}, "nonce", TRUE, {}, "none", {}),
   Options(TRUE, {"X-Frame-Options"}, "plain", FALSE, {"Extra", "Server"}, "none", HostNames),
   Options(TRUE, {}, "off", FALSE, {"Extra"}, "none", {}),
   Options(FALSE, {}, "nonce", FALSE, {}, "sets", {"X-Powered-By"}),
   Options(FALSE, {}, "nonce", FALSE, {}, "throws", {"Server"})}
=============================================================================
