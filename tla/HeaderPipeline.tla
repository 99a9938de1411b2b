--------------------------- MODULE HeaderPipeline ---------------------------
(***************************************************************************)
(* One HTTP request on its way through the pipeline of a host that uses    *)
(* NetSecureHeadersMiddleware (SafeWebCore/Middleware): the components     *)
(* around it write headers and register callbacks of their own, the page   *)
(* renders scripts with the nonce of the request, and an error page or a   *)
(* status-code page runs the pipeline once more for the same response.     *)
(* The middleware keeps nothing between requests but two counters.         *)
(*                                                                         *)
(* A path resolves to one of Policies; module PathPolicies says to which.  *)
(* A nonce is the number of the pass that generated it, for NonceService   *)
(* never repeats one; 0 is no nonce.  A header is the set of its values.   *)
(***************************************************************************)
EXTENDS Naturals, Sequences, FiniteSets

CONSTANTS
  Policies,    \* the effective options a request path may resolve to
  MaxPasses,   \* bound: runs of the pipeline for one request
  MaxHooks     \* bound: OnStarting callbacks

Enforcing  == "Content-Security-Policy"
ReportOnly == "Content-Security-Policy-Report-Only"
CspNames   == {Enforcing, ReportOnly}
HostNames  == {"Server", "X-Powered-By"}

(* The headers with a toggle of their own.  NEL and Reporting-Endpoints    *)
(* are on only with a value, for validation has refused anything else.     *)
Toggled ==
  {"Strict-Transport-Security", "X-Frame-Options", "X-Content-Type-Options",
   "Referrer-Policy", "Permissions-Policy", "Cross-Origin-Embedder-Policy",
   "Cross-Origin-Opener-Policy", "Cross-Origin-Resource-Policy",
   "X-DNS-Prefetch-Control", "X-Permitted-Cross-Domain-Policies",
   "Origin-Agent-Cluster", "X-Robots-Tag", "Clear-Site-Data",
   "NEL", "Reporting-Endpoints"}

LibraryOwned == Toggled \cup CspNames

(* "Extra" stands for any name the library does not know. *)
Names == LibraryOwned \cup HostNames \cup {"Extra"}

(* NetSecureHeadersOptions as resolved for a path: whether a path policy   *)
(* matched, the toggles, the CSP template (with the nonce placeholder or   *)
(* without), AdditionalHeaders, what CustomPolicies do, what is removed.   *)
NetSecureHeadersOptions ==
  [matched: BOOLEAN, enabled: SUBSET Toggled, csp: {"off", "plain", "nonce"},
   reportOnly: BOOLEAN, additional: SUBSET (Names \ LibraryOwned),
   custom: {"none", "sets", "throws"}, removes: SUBSET HostNames]

(* Endpoint metadata: CspModeAttribute, or SkipNetSecureHeadersAttribute,  *)
(* beside which the mode is not looked at.                                 *)
Modes == {"default", "Enforce", "ReportOnly"}
Endpoint == [skip: {FALSE}, mode: Modes] \cup [skip: {TRUE}, mode: {"default"}]
NoEndpoint == [skip |-> FALSE, mode |-> "default"]

ASSUME PipelineAssumption ==
  /\ Policies \subseteq NetSecureHeadersOptions
  /\ \A p \in Policies : p.csp = "off" => ~p.reportOnly
  /\ MaxPasses \in Nat \ {0}
  /\ MaxHooks \in Nat

VARIABLES
  at,        \* where the request is
  pass,      \* which run of the pipeline this is
  endpoint,  \* HttpContext.GetEndpoint()
  headers,   \* Response.Headers
  item,      \* HttpContext.Items[CspNonceKey]
  scripts,   \* the nonces on the scripts of the body
  hooks,     \* the OnStarting callbacks in order of registration
  pending,   \* how many of them are still to run
  applied,   \* history: what the middleware applied in each pass
  events,    \* the HeadersApplied events
  headersApplied, pathPolicyMatches,  \* the two counters
  handling,  \* the exception handler has taken over
  kept       \* history: the headers were kept through a repetition

reply == <<headers, scripts, hooks, pending>>
telemetry == <<events, headersApplied, pathPolicyMatches>>
vars == <<at, pass, endpoint, reply, item, applied, telemetry, handling, kept>>

Places == {"before", "middleware", "inside", "thrown", "starting", "sent", "aborted"}

Writers == {"library", "additional", "custom", "other"}
Value == [by: Writers, pass: Nat, nonce: Nat, hook: Nat]
Signed(by, nonce, hook) ==
  [by |-> by, pass |-> pass, nonce |-> nonce, hook |-> hook]
Written(by) == Signed(by, 0, 0)

Removal(names) == [removes |-> names, adds |-> {}]
Addition(name) == [removes |-> {}, adds |-> {name}]
Hook == [removes: SUBSET HostNames, adds: SUBSET HostNames]

(* One run of the middleware: hooked counts the callbacks before its own.  *)
Application == [policy: Policies, mode: Modes, pass: Nat, hooked: Nat]

Event == [pass: Nat, hasCsp: BOOLEAN, reportOnly: BOOLEAN, matched: BOOLEAN]

-----------------------------------------------------------------------------
(* AddSecurityHeaders *)

(* Mutant of CspName: the formula of the telemetry event. *)
CspNameAsReported(p, mode) ==
  IF p.reportOnly \/ mode = "ReportOnly" THEN ReportOnly ELSE Enforcing

CspName(p, mode) ==
  CASE mode = "ReportOnly" -> ReportOnly
    [] mode = "Enforce" -> Enforcing
    [] OTHER -> IF p.reportOnly THEN ReportOnly ELSE Enforcing

Emitted(p, mode) ==
  p.enabled \cup (IF p.csp = "off" THEN {} ELSE {CspName(p, mode)})

LibraryValue(p, name, nonce) ==
  Signed("library", IF name \in CspNames /\ p.csp = "nonce" THEN nonce ELSE 0, 0)

(* Typed headers are appended, additional ones assigned; a custom policy   *)
(* does as it likes, for instance replaces the CSP.                        *)
AddSecurityHeaders(p, mode, nonce) ==
  [n \in Names |->
     IF p.custom = "sets" /\ n = Enforcing THEN {Written("custom")}
     ELSE IF n \in p.additional THEN {Written("additional")}
     ELSE IF n \in Emitted(p, mode) THEN headers[n] \cup {LibraryValue(p, n, nonce)}
     ELSE headers[n]]

-----------------------------------------------------------------------------
Init ==
  /\ at = "before"
  /\ pass = 1
  /\ endpoint = NoEndpoint
  /\ headers = [n \in Names |-> {}]
  /\ item = 0
  /\ scripts = {}
  /\ hooks = <<>>
  /\ pending = 0
  /\ applied = {}
  /\ events = {}
  /\ headersApplied = 0
  /\ pathPolicyMatches = 0
  /\ handling = FALSE
  /\ kept = FALSE

(* A component before or behind the middleware names the host (external).  *)
OtherWrites(name) ==
  /\ at \in {"before", "inside"}
  /\ headers' = [headers EXCEPT ![name] = @ \cup {Written("other")}]
  /\ UNCHANGED <<at, pass, endpoint, item, scripts, hooks, pending, applied,
                 telemetry, handling, kept>>

(* ... or registers a callback that will (external). *)
OtherHooks(name) ==
  /\ at \in {"before", "inside"}
  /\ Len(hooks) < MaxHooks
  /\ hooks' = Append(hooks, Addition(name))
  /\ UNCHANGED <<at, pass, endpoint, headers, item, scripts, pending, applied,
                 telemetry, handling, kept>>

(* Routing selects an endpoint, or none (external): endpoint metadata is   *)
(* documented to need UseRouting before UseNetSecureHeaders.               *)
Route ==
  /\ at = "before"
  /\ endpoint' \in Endpoint
  /\ at' = "middleware"
  /\ UNCHANGED <<pass, reply, item, applied, telemetry, handling, kept>>

(* InvokeAsync: the endpoint opts out. *)
SkipHeaders ==
  /\ at = "middleware"
  /\ endpoint.skip
  /\ at' = "inside"
  /\ UNCHANGED <<pass, endpoint, reply, item, applied, telemetry, handling, kept>>

Report(p) ==
  events' = events \cup {[pass |-> pass, hasCsp |-> p.csp # "off",
                          reportOnly |-> p.reportOnly \/ endpoint.mode = "ReportOnly",
                          matched |-> p.matched]}

CountApplication(p) ==
  /\ headersApplied' = headersApplied + 1
  /\ pathPolicyMatches' = pathPolicyMatches + (IF p.matched THEN 1 ELSE 0)

(* Mutant of RegisterRemoval: nothing is left to do at the start. *)
RegisterNothing(p) == hooks' = hooks

RegisterRemoval(p) ==
  hooks' = IF p.removes = {} THEN hooks ELSE Append(hooks, Removal(p.removes))

(* Mutant of StoreNonce: an existing nonce is kept (??=). *)
StoreNonceOnce == item' = IF item = 0 THEN pass ELSE item

StoreNonce == item' = pass

(* InvokeAsync up to next: the nonce, the headers, the event and the       *)
(* counters, and last the callback that removes the host's names.          *)
ApplyHeaders(p) ==
  /\ at = "middleware"
  /\ ~endpoint.skip
  /\ p.custom # "throws"
  /\ p.removes # {} => Len(hooks) < MaxHooks
  /\ StoreNonce
  /\ headers' = AddSecurityHeaders(p, endpoint.mode, pass)
  /\ Report(p)
  /\ CountApplication(p)
  /\ RegisterRemoval(p)
  /\ applied' = applied \cup {[policy |-> p, mode |-> endpoint.mode, pass |-> pass,
                               hooked |-> Len(hooks)]}
  /\ at' = "inside"
  /\ UNCHANGED <<pass, endpoint, scripts, pending, handling, kept>>

(* A custom policy throws: the headers are there, the event, the counters  *)
(* and the callback are not.                                               *)
ApplyThrows(p) ==
  /\ at = "middleware"
  /\ ~endpoint.skip
  /\ p.custom = "throws"
  /\ StoreNonce
  /\ headers' = AddSecurityHeaders(p, endpoint.mode, pass)
  /\ at' = "thrown"
  /\ UNCHANGED <<pass, endpoint, scripts, hooks, pending, applied, telemetry,
                 handling, kept>>

(* CspScriptNonceTagHelper and CspStyleNonceTagHelper. *)
Render ==
  /\ at = "inside"
  /\ scripts' = IF item = 0 THEN scripts ELSE scripts \cup {item}
  /\ UNCHANGED <<at, pass, endpoint, headers, item, hooks, pending, applied,
                 telemetry, handling, kept>>

(* A component behind the middleware throws (external). *)
LaterThrows ==
  /\ at = "inside"
  /\ at' = "thrown"
  /\ UNCHANGED <<pass, endpoint, reply, item, applied, telemetry, handling, kept>>

RunAgain ==
  /\ pass < MaxPasses
  /\ pass' = pass + 1
  /\ at' = "before"
  /\ endpoint' = NoEndpoint
  /\ scripts' = {}

(* UseExceptionHandler (external): the response is cleared and the error   *)
(* path runs the pipeline; callbacks and Items stay.                       *)
HandleException ==
  /\ at = "thrown"
  /\ ~handling
  /\ RunAgain
  /\ handling' = TRUE
  /\ headers' = [n \in Names |-> {}]
  /\ kept' = FALSE
  /\ UNCHANGED <<hooks, pending, item, applied, telemetry>>

(* UseStatusCodePagesWithReExecute (external): a response without a body   *)
(* gets one from another path; what is in the headers stays.               *)
ServeStatusPage ==
  /\ at = "inside"
  /\ scripts = {}
  /\ RunAgain
  /\ kept' = TRUE
  /\ UNCHANGED <<headers, hooks, pending, item, applied, telemetry, handling>>

(* No handler, or the error path itself threw: the server answers alone.   *)
Abort ==
  /\ at = "thrown"
  /\ at' = "aborted"
  /\ headers' = [n \in Names |-> {}]
  /\ scripts' = {}
  /\ UNCHANGED <<pass, endpoint, hooks, pending, item, applied, telemetry,
                 handling, kept>>

(* The response starts: its callbacks run, the last one registered first.  *)
StartResponse ==
  /\ at = "inside"
  /\ at' = "starting"
  /\ pending' = Len(hooks)
  /\ UNCHANGED <<pass, endpoint, headers, scripts, hooks, item, applied,
                 telemetry, handling, kept>>

RunHook ==
  /\ at = "starting"
  /\ pending > 0
  /\ headers' = [n \in Names |->
       IF n \in hooks[pending].removes THEN {}
       ELSE IF n \in hooks[pending].adds
            THEN headers[n] \cup {Signed("other", 0, pending)}
       ELSE headers[n]]
  /\ pending' = pending - 1
  /\ UNCHANGED <<at, pass, endpoint, scripts, hooks, item, applied, telemetry,
                 handling, kept>>

SendHeaders ==
  /\ at = "starting"
  /\ pending = 0
  /\ at' = "sent"
  /\ UNCHANGED <<pass, endpoint, reply, item, applied, telemetry, handling, kept>>

Finished == at \in {"sent", "aborted"} /\ UNCHANGED vars

Next ==
  \/ \E name \in HostNames : OtherWrites(name) \/ OtherHooks(name)
  \/ Route \/ SkipHeaders
  \/ \E p \in Policies : ApplyHeaders(p) \/ ApplyThrows(p)
  \/ Render \/ LaterThrows \/ HandleException \/ ServeStatusPage \/ Abort
  \/ StartResponse \/ RunHook \/ SendHeaders \/ Finished

Spec == Init /\ [][Next]_vars

-----------------------------------------------------------------------------
TypeOK ==
  /\ at \in Places
  /\ pass \in 1 .. MaxPasses
  /\ endpoint \in Endpoint
  /\ headers \in [Names -> SUBSET Value]
  /\ item \in 0 .. pass
  /\ scripts \subseteq 1 .. pass
  /\ hooks \in Seq(Hook)
  /\ pending \in 0 .. Len(hooks)
  /\ applied \subseteq Application
  /\ events \subseteq Event
  /\ headersApplied \in 0 .. pass
  /\ pathPolicyMatches \in 0 .. headersApplied
  /\ handling \in BOOLEAN
  /\ kept \in BOOLEAN

(* What keeps that inductive: a pass counts once at most. *)
TypeInv ==
  /\ TypeOK
  /\ at \in {"before", "middleware"} => headersApplied < pass

(* The scripts the browser gets are the scripts its policies allow: every  *)
(* nonce in the body is the nonce of every nonce-carrying CSP of the       *)
(* library in the response, also on an error page that follows a pass in   *)
(* which another nonce was stored and rendered.                            *)
ScriptsAuthorized ==
  at = "sent" /\ ~kept =>
    \A n \in CspNames : \A v \in headers[n] :
      v.by = "library" /\ v.nonce # 0 => scripts \subseteq {v.nonce}

(* What keeps that inductive: until a pass has applied its headers, an     *)
(* uncleared response holds none of the library, and then they carry the   *)
(* nonce in Items.                                                         *)
NonceInv ==
  /\ TypeInv
  /\ at \in {"before", "middleware"} => scripts = {}
  /\ scripts \subseteq {item}
  /\ ~kept => \A n \in CspNames : \A v \in headers[n] :
       v.by = "library" =>
         /\ at \notin {"before", "middleware"}
         /\ v.nonce \in {0, item}

(* Removal as late as possible (lines 126-127): once a pass has applied a  *)
(* policy that removes a host name, no value of it is sent that a          *)
(* component has written or a callback registered since adds, through      *)
(* exceptions and further passes; only a callback registered earlier,      *)
(* which runs later, can put the name back.                                *)
RemovalHolds ==
  at = "sent" =>
    \A a \in applied : \A n \in a.policy.removes : \A v \in headers[n] :
      v.hook \in 1 .. a.hooked

(* What keeps that inductive: the removal of a pass is the callback behind *)
(* those it found, and from when it has run only those are left.           *)
RemovalInv ==
  /\ TypeInv
  /\ at = "sent" => pending = 0
  /\ \A a \in applied : a.policy.removes # {} =>
       /\ a.hooked + 1 \in 1 .. Len(hooks)
       /\ hooks[a.hooked + 1] = Removal(a.policy.removes)
  /\ at \in {"starting", "sent"} =>
       \A a \in applied : \A n \in a.policy.removes : \A v \in headers[n] :
         pending <= a.hooked => v.hook \in 1 .. a.hooked

(* What the diagnostics service says of a policy and a mode: BuildHeaders. *)
PreviewedCspName(p, mode) ==
  CASE mode = "ReportOnly" -> ReportOnly
    [] mode = "Enforce" -> Enforcing
    [] OTHER -> IF p.reportOnly THEN ReportOnly ELSE Enforcing

Preview(p, mode, n) ==
  IF n \in p.removes THEN "removed"
  ELSE IF n \in p.additional THEN "additional"
  ELSE IF p.csp # "off" /\ n = PreviewedCspName(p, mode) THEN "library"
  ELSE IF n \in p.enabled THEN "library"
  ELSE "absent"

AsPreviewed ==
  \A a \in applied : a.pass = pass /\ a.policy.custom = "none" =>
    \A n \in LibraryOwned \cup {"Extra"} :
      {<<v.by, v.pass>> : v \in headers[n]} =
        (IF Preview(a.policy, a.mode, n) = "absent" THEN {}
         ELSE {<<Preview(a.policy, a.mode, n), pass>>})

(* The preview describes what is sent (the remarks of PathPolicyResolver,  *)
(* lines 26-31): for a policy without custom policies, each header the     *)
(* library owns or adds is in the response exactly as previewed, once, by  *)
(* the pass that ended in the response, whatever an earlier, abandoned     *)
(* pass wrote.                                                             *)
PreviewIsSent == at = "sent" /\ ~kept => AsPreviewed

(* What keeps that inductive: until its own application a pass without     *)
(* kept headers has none of these, afterwards it has what is previewed.    *)
PreviewInv ==
  /\ TypeInv
  /\ \A a \in applied : a.pass <= pass
  /\ at \in {"before", "middleware"} => \A a \in applied : a.pass < pass
  /\ at \in {"before", "middleware"} /\ ~kept =>
       \A n \in LibraryOwned \cup {"Extra"} : headers[n] = {}
  /\ at \in {"inside", "starting", "sent"} /\ ~kept => AsPreviewed

Reported ==
  \A n \in CspNames : \A v \in headers[n] : v.by = "library" =>
    \E e \in events :
      /\ e.pass = v.pass
      /\ e.hasCsp
      /\ ~e.reportOnly => n = Enforcing

(* Telemetry never overstates: every CSP of the library in the response    *)
(* has an event of its pass, and where the event says the policy is        *)
(* enforced the header enforces it.                                        *)
TelemetryNeverOverstates == at = "sent" => Reported

(* What keeps that inductive: only a custom policy that threw leaves a     *)
(* header without an event, and its response is cleared.                   *)
TelemetryInv ==
  /\ TypeInv
  /\ at # "thrown" => Reported
=============================================================================
