------------------------- MODULE SafeWebCoreProofs -------------------------
(***************************************************************************)
(* The web side of SafeWebCore: the invariants of HeaderPipeline, for any  *)
(* policies, any number of passes and any number of callbacks; those of    *)
(* PathPolicies, for any prefixes, paths and options; and those of         *)
(* CspReports, for any number of requests and sinks of either kind.  About *)
(* strings only PathAssumption is used: ignoring case keeps the length,    *)
(* and a path starts with one folded text of each length at most.          *)
(***************************************************************************)
EXTENDS HeaderPipeline, PathPolicies, CspReports, FiniteSetTheorems,
        WellFoundedInduction, TLAPS

-----------------------------------------------------------------------------
(* One request through the pipeline (HeaderPipeline). *)

LEMMA NameFacts ==
  /\ HostNames \subseteq Names
  /\ CspNames \subseteq LibraryOwned
  /\ LibraryOwned \subseteq Names
  /\ LibraryOwned \cap HostNames = {}
  /\ "Extra" \notin LibraryOwned \cup HostNames
  /\ "Extra" \in Names
  /\ CspNames \cap Toggled = {}
  /\ CspNames = {Enforcing, ReportOnly}
  /\ Enforcing # ReportOnly
BY DEF Names, HostNames, CspNames, LibraryOwned, Toggled, Enforcing, ReportOnly

LEMMA EndpointFacts ==
  /\ NoEndpoint \in Endpoint
  /\ \A e \in Endpoint : e.mode \in Modes
<1>1. NoEndpoint \in [skip: {FALSE}, mode: Modes]
  BY DEF NoEndpoint, Modes
<1>2. \A e \in [skip: {FALSE}, mode: Modes] : e.mode \in Modes
  OBVIOUS
<1>3. \A e \in [skip: {TRUE}, mode: {"default"}] : e.mode \in Modes
  BY DEF Modes
<1> QED BY <1>1, <1>2, <1>3 DEF Endpoint

LEMMA EventType ==
  ASSUME NEW i \in Nat, NEW b \in BOOLEAN, NEW c \in BOOLEAN, NEW d \in BOOLEAN
  PROVE  [pass |-> i, hasCsp |-> b, reportOnly |-> c, matched |-> d] \in Event
BY DEF Event

LEMMA ValueTypes ==
  ASSUME TypeOK, NEW by \in Writers, NEW n, NEW p, NEW nonce \in Nat
  PROVE  /\ Written(by) \in Value
         /\ LibraryValue(p, n, nonce) \in Value
         /\ Signed(by, 0, pending) \in Value
<1>1. pass \in Nat /\ pending \in Nat
  BY DEF TypeOK
<1> QED BY <1>1 DEF Signed, Written, LibraryValue, Value, Writers

LEMMA AddedTypes ==
  ASSUME TypeOK, NEW p, NEW mode, NEW nonce \in Nat
  PROVE  AddSecurityHeaders(p, mode, nonce) \in [Names -> SUBSET Value]
<1> SUFFICES ASSUME NEW n \in Names
             PROVE  AddSecurityHeaders(p, mode, nonce)[n] \in SUBSET Value
  BY DEF AddSecurityHeaders
<1>1. headers[n] \subseteq Value
  BY DEF TypeOK
<1>2. /\ Written("custom") \in Value /\ Written("additional") \in Value
      /\ LibraryValue(p, n, nonce) \in Value
  BY ValueTypes DEF Writers
<1> QED BY <1>1, <1>2 DEF AddSecurityHeaders

-----------------------------------------------------------------------------
LEMMA TypeInit == Init => TypeInv
<1> SUFFICES ASSUME Init PROVE TypeInv
  OBVIOUS
<1>1. at \in Places /\ pass \in 1 .. MaxPasses /\ endpoint \in Endpoint
  BY PipelineAssumption, EndpointFacts DEF Init, Places
<1>2. headers \in [Names -> SUBSET Value] /\ item \in 0 .. pass /\ scripts \subseteq 1 .. pass
  BY DEF Init
<1>3. hooks \in Seq(Hook) /\ pending \in 0 .. Len(hooks)
  BY DEF Init
<1>4. applied \subseteq Application /\ events \subseteq Event
  BY DEF Init
<1>5. headersApplied \in 0 .. pass /\ pathPolicyMatches \in 0 .. headersApplied
  BY DEF Init
<1>6. headersApplied < pass
  BY DEF Init
<1>7. handling \in BOOLEAN /\ kept \in BOOLEAN
  BY Zenon DEF Init
<1>8. TypeOK
  BY <1>1, <1>2, <1>3, <1>4, <1>5, <1>7, Zenon DEF TypeOK
<1> QED BY <1>6, <1>8 DEF TypeInv

(* The steps that neither repeat the pipeline nor touch the headers.       *)
LEMMA TypeQuiet ==
  ASSUME TypeInv,
         \/ Route \/ SkipHeaders \/ LaterThrows \/ StartResponse \/ SendHeaders
         \/ Render \/ Finished \/ UNCHANGED vars
         \/ \E name \in HostNames : OtherHooks(name)
  PROVE  TypeInv'
<1> USE DEF TypeInv, TypeOK, Places, reply, telemetry
<1>1. CASE Route \/ SkipHeaders \/ LaterThrows \/ SendHeaders
  BY <1>1 DEF Route, SkipHeaders, LaterThrows, SendHeaders
<1>2. CASE StartResponse
  BY <1>2 DEF StartResponse
<1>3. CASE Render
  BY <1>3 DEF Render
<1>4. CASE Finished \/ UNCHANGED vars
  BY <1>4 DEF Finished, vars
<1>5. ASSUME NEW name \in HostNames, OtherHooks(name) PROVE TypeInv'
  <2>1. Addition(name) \in Hook
    BY DEF Addition, Hook
  <2>2. hooks' \in Seq(Hook) /\ pending \in 0 .. Len(hooks')
    BY <2>1, <1>5 DEF OtherHooks
  <2> QED BY <2>2, <1>5 DEF OtherHooks
<1> QED BY <1>1, <1>2, <1>3, <1>4, <1>5

LEMMA TypeApply ==
  ASSUME TypeInv, NEW p \in Policies, ApplyHeaders(p) \/ ApplyThrows(p)
  PROVE  TypeInv'
<1> USE DEF TypeInv, TypeOK, Places
<1>1. pass \in Nat /\ pass # 0 /\ endpoint.mode \in Modes
  BY PipelineAssumption, EndpointFacts
<1>2. headers' \in [Names -> SUBSET Value] /\ item' = pass
  BY <1>1, AddedTypes DEF ApplyHeaders, ApplyThrows, StoreNonce
<1>3. p \in NetSecureHeadersOptions
  BY PipelineAssumption
<1>4. CASE ApplyThrows(p)
  BY <1>1, <1>2, <1>4 DEF ApplyThrows, telemetry
<1>5. CASE ApplyHeaders(p)
  <2>1. hooks' \in Seq(Hook) /\ pending \in 0 .. Len(hooks')
    <3>1. Removal(p.removes) \in Hook
      BY <1>3 DEF Removal, Hook, NetSecureHeadersOptions
    <3> QED BY <3>1, <1>5 DEF ApplyHeaders, RegisterRemoval
  <2>2. applied' \subseteq Application
    BY <1>1, <1>5 DEF ApplyHeaders, Application
  <2>3. events' \subseteq Event
    <3>1. (p.csp # "off") \in BOOLEAN
          /\ (p.reportOnly \/ endpoint.mode = "ReportOnly") \in BOOLEAN
      OBVIOUS
    <3>2. p.matched \in BOOLEAN
      BY <1>3 DEF NetSecureHeadersOptions
    <3>3. [pass |-> pass, hasCsp |-> p.csp # "off",
           reportOnly |-> p.reportOnly \/ endpoint.mode = "ReportOnly",
           matched |-> p.matched] \in Event
      BY <1>1, <3>1, <3>2, EventType
    <3> QED BY <1>5, <3>3 DEF ApplyHeaders, Report
  <2>4. headersApplied' \in 0 .. pass /\ pathPolicyMatches' \in 0 .. headersApplied'
    BY <1>1, <1>5 DEF ApplyHeaders, CountApplication
  <2> QED BY <1>1, <1>2, <1>5, <2>1, <2>2, <2>3, <2>4 DEF ApplyHeaders
<1> QED BY <1>4, <1>5

LEMMA TypeWrites ==
  ASSUME TypeInv,
         \/ \E name \in HostNames : OtherWrites(name)
         \/ RunHook \/ Abort \/ HandleException \/ ServeStatusPage
  PROVE  TypeInv'
<1> USE DEF TypeInv, TypeOK, Places, telemetry
<1>1. ASSUME NEW name \in HostNames, OtherWrites(name) PROVE TypeInv'
  <2>1. Written("other") \in Value
    BY ValueTypes DEF Writers
  <2> QED BY <2>1, <1>1 DEF OtherWrites
<1>2. CASE RunHook
  <2>1. Signed("other", 0, pending) \in Value
    BY ValueTypes DEF Writers
  <2>2. headers' \in [Names -> SUBSET Value]
    BY <2>1, <1>2 DEF RunHook
  <2> QED BY <2>2, <1>2 DEF RunHook
<1>3. CASE Abort
  BY <1>3 DEF Abort
<1>4. CASE HandleException \/ ServeStatusPage
  <2>1. pass' \in 1 .. MaxPasses /\ pass' = pass + 1
    BY <1>4, PipelineAssumption DEF HandleException, ServeStatusPage, RunAgain
  <2>2. at' \in Places /\ endpoint' \in Endpoint /\ scripts' = {}
    BY <1>4, EndpointFacts DEF HandleException, ServeStatusPage, RunAgain
  <2>3. headers' \in [Names -> SUBSET Value] /\ handling' \in BOOLEAN /\ kept' \in BOOLEAN
    BY <1>4 DEF HandleException, ServeStatusPage
  <2>4. item' \in 0 .. pass' /\ headersApplied' < pass' /\ headersApplied' \in 0 .. pass'
    BY <1>4, <2>1, PipelineAssumption DEF HandleException, ServeStatusPage
  <2> QED BY <1>4, <2>1, <2>2, <2>3, <2>4 DEF HandleException, ServeStatusPage
<1> QED BY <1>1, <1>2, <1>3, <1>4

LEMMA TypeStep == TypeInv /\ [Next]_vars => TypeInv'
BY TypeQuiet, TypeApply, TypeWrites DEF Next

(* Every request, whatever the host around the middleware does, keeps the  *)
(* state of HeaderPipeline well formed, and counts a pass once at most.    *)
THEOREM PipelineTypeCorrect == Spec => []TypeOK
<1>1. TypeInv => TypeOK
  BY DEF TypeInv
<1> QED BY <1>1, TypeInit, TypeStep, PTL DEF Spec

-----------------------------------------------------------------------------
LEMMA NonceInit == Init => NonceInv
BY TypeInit, NameFacts DEF Init, NonceInv

LEMMA NonceApply ==
  ASSUME NonceInv, NEW p \in Policies, ApplyHeaders(p) \/ ApplyThrows(p)
  PROVE  NonceInv'
<1>1. TypeInv'
  BY TypeApply DEF NonceInv
<1>2. at = "middleware" /\ scripts = {} /\ scripts' = {} /\ item' = pass /\ kept' = kept
  BY DEF NonceInv, ApplyHeaders, ApplyThrows, StoreNonce
<1>3. at' \notin {"before", "middleware"}
  BY DEF ApplyHeaders, ApplyThrows
<1>4. ASSUME ~kept, NEW n \in CspNames, NEW v \in headers'[n], v.by = "library"
      PROVE  v.nonce \in {0, pass}
  <2>1. n \in Names /\ v \in AddSecurityHeaders(p, endpoint.mode, pass)[n]
    BY <1>4, NameFacts DEF ApplyHeaders, ApplyThrows
  <2>2. v \notin headers[n]
    BY <1>2, <1>4 DEF NonceInv
  <2>3. /\ Written("custom").by = "custom" /\ Written("additional").by = "additional"
    BY DEF Written, Signed
  <2>4. v = LibraryValue(p, n, pass)
    BY <2>1, <2>2, <2>3, <1>4 DEF AddSecurityHeaders
  <2> QED BY <2>4 DEF LibraryValue, Signed
<1> QED BY <1>1, <1>2, <1>3, <1>4 DEF NonceInv

LEMMA NonceStep == NonceInv /\ [Next]_vars => NonceInv'
<1> SUFFICES ASSUME NonceInv, [Next]_vars PROVE NonceInv'
  OBVIOUS
<1>1. TypeInv'
  BY TypeStep DEF NonceInv
<1>2. CASE Route \/ SkipHeaders \/ LaterThrows \/ StartResponse \/ SendHeaders
           \/ Finished \/ UNCHANGED vars \/ \E name \in HostNames : OtherHooks(name)
  BY <1>1, <1>2 DEF NonceInv, Route, SkipHeaders, LaterThrows, StartResponse,
     SendHeaders, Finished, OtherHooks, reply, vars
<1>3. CASE Render
  BY <1>1, <1>3 DEF NonceInv, Render
<1>4. ASSUME NEW name \in HostNames, OtherWrites(name) PROVE NonceInv'
  <2>1. Written("other").by = "other"
    BY DEF Written, Signed
  <2>2. headers \in [Names -> SUBSET Value] /\ HostNames \subseteq Names /\ CspNames \subseteq Names
    BY NameFacts DEF NonceInv, TypeInv, TypeOK
  <2>3. \A n \in CspNames : headers'[n] \subseteq headers[n] \cup {Written("other")}
    BY <1>4, <2>2 DEF OtherWrites
  <2> QED BY <1>1, <1>4, <2>1, <2>3 DEF NonceInv, OtherWrites
<1>5. CASE \E p \in Policies : ApplyHeaders(p) \/ ApplyThrows(p)
  BY <1>5, NonceApply
<1>6. CASE HandleException \/ Abort
  <2>1. \A n \in CspNames : headers'[n] = {}
    BY <1>6, NameFacts DEF HandleException, Abort
  <2> QED BY <1>1, <1>6, <2>1 DEF NonceInv, HandleException, Abort, RunAgain
<1>7. CASE ServeStatusPage
  BY <1>1, <1>7 DEF NonceInv, ServeStatusPage, RunAgain
<1>8. CASE RunHook
  <2>1. Signed("other", 0, pending).by = "other"
    BY DEF Signed
  <2>2. \A n \in CspNames : headers'[n] \subseteq headers[n] \cup {Signed("other", 0, pending)}
    BY <1>8, NameFacts DEF RunHook
  <2> QED BY <1>1, <1>8, <2>1, <2>2 DEF NonceInv, RunHook
<1> QED BY <1>2, <1>3, <1>4, <1>5, <1>6, <1>7, <1>8 DEF Next

(* Every script of a response is one that each of its policies allows,     *)
(* after any number of passes whose responses were cleared                 *)
(* (NetSecureHeadersMiddleware lines 90-94 and the nonce tag helpers).     *)
THEOREM ScriptsAreAuthorized == Spec => []ScriptsAuthorized
<1>1. NonceInv => ScriptsAuthorized
  BY DEF NonceInv, ScriptsAuthorized
<1> QED BY <1>1, NonceInit, NonceStep, PTL DEF Spec

-----------------------------------------------------------------------------
LEMMA RemovalInit == Init => RemovalInv
BY TypeInit DEF Init, RemovalInv

(* Callbacks are only ever added, and so keep their places. *)
LEMMA RemovalKeptInPlace ==
  ASSUME TypeInv, NEW h \in Hook, NEW i \in 1 .. Len(hooks)
  PROVE  /\ i \in 1 .. Len(Append(hooks, h))
         /\ Append(hooks, h)[i] = hooks[i]
BY DEF TypeInv, TypeOK

LEMMA RemovalApply ==
  ASSUME RemovalInv, NEW p \in Policies, ApplyHeaders(p) \/ ApplyThrows(p)
  PROVE  RemovalInv'
<1>1. TypeInv' /\ TypeInv
  BY TypeApply DEF RemovalInv
<1>2. CASE ApplyThrows(p)
  BY <1>1, <1>2 DEF RemovalInv, ApplyThrows
<1>3. CASE ApplyHeaders(p)
  <2>1. at' = "inside"
    BY <1>3 DEF ApplyHeaders
  <2>2. Removal(p.removes) \in Hook
    BY PipelineAssumption DEF Removal, Hook, NetSecureHeadersOptions
  <2>3. Len(hooks) \in Nat /\ hooks \in Seq(Hook)
    BY <1>1 DEF TypeInv, TypeOK
  <2>4. ASSUME NEW a \in applied', a.policy.removes # {}
        PROVE  /\ a.hooked + 1 \in 1 .. Len(hooks')
               /\ hooks'[a.hooked + 1] = Removal(a.policy.removes)
    <3>1. CASE a \in applied
      <4>1. /\ a.hooked + 1 \in 1 .. Len(hooks)
            /\ hooks[a.hooked + 1] = Removal(a.policy.removes)
        BY <3>1, <2>4 DEF RemovalInv
      <4> QED BY <4>1, <1>1, <1>3, <2>2, RemovalKeptInPlace
          DEF ApplyHeaders, RegisterRemoval
    <3>2. CASE a \notin applied
      <4>1. a.policy = p /\ a.hooked = Len(hooks)
        BY <3>2, <1>3 DEF ApplyHeaders
      <4>2. hooks' = Append(hooks, Removal(p.removes))
        BY <4>1, <2>4, <1>3 DEF ApplyHeaders, RegisterRemoval
      <4> QED BY <4>1, <4>2, <2>2, <2>3
    <3> QED BY <3>1, <3>2
  <2> QED BY <1>1, <2>1, <2>4 DEF RemovalInv
<1> QED BY <1>2, <1>3

LEMMA RemovalRun ==
  ASSUME RemovalInv, RunHook
  PROVE  RemovalInv'
<1>1. TypeInv' /\ TypeInv
  BY TypeWrites DEF RemovalInv
<1>2. at = "starting" /\ at' = "starting" /\ hooks' = hooks /\ applied' = applied
      /\ pending > 0 /\ pending' = pending - 1 /\ pending \in Nat
  BY <1>1 DEF RunHook, TypeInv, TypeOK
<1>3. ASSUME NEW a \in applied, NEW n \in a.policy.removes, NEW v \in headers'[n],
             pending - 1 <= a.hooked
      PROVE  v.hook \in 1 .. a.hooked
  <2>1. a.hooked \in Nat /\ n \in HostNames /\ n \in Names
    BY <1>1, PipelineAssumption, NameFacts
       DEF TypeInv, TypeOK, Application, NetSecureHeadersOptions
  <2>2. CASE pending - 1 = a.hooked
    <3>1. hooks[pending] = Removal(a.policy.removes)
      BY <1>2, <2>1, <2>2 DEF RemovalInv
    <3>2. headers'[n] = {}
      BY <3>1, <2>1 DEF RunHook, Removal
    <3> QED BY <3>2
  <2>3. CASE pending <= a.hooked
    <3>1. CASE v \in headers[n]
      BY <3>1, <2>3, <1>2 DEF RemovalInv
    <3>2. CASE v \notin headers[n]
      <4>1. v = Signed("other", 0, pending)
        BY <3>2, <2>1 DEF RunHook
      <4>2. v.hook = pending
        BY <4>1 DEF Signed
      <4> QED BY <4>2, <2>1, <2>3, <1>2
    <3> QED BY <3>1, <3>2
  <2> QED BY <2>1, <2>2, <2>3, <1>2, <1>3
<1> QED BY <1>1, <1>2, <1>3 DEF RemovalInv

LEMMA RemovalStep == RemovalInv /\ [Next]_vars => RemovalInv'
<1> SUFFICES ASSUME RemovalInv, [Next]_vars PROVE RemovalInv'
  OBVIOUS
<1>1. TypeInv' /\ TypeInv
  BY TypeStep DEF RemovalInv
<1>2. CASE Route \/ SkipHeaders \/ LaterThrows \/ SendHeaders \/ Render
           \/ Finished \/ UNCHANGED vars \/ HandleException \/ ServeStatusPage \/ Abort
           \/ \E name \in HostNames : OtherWrites(name)
  BY <1>1, <1>2 DEF RemovalInv, Route, SkipHeaders, LaterThrows, SendHeaders, Render,
     Finished, HandleException, ServeStatusPage, RunAgain, Abort, OtherWrites,
     reply, vars
<1>3. ASSUME NEW name \in HostNames, OtherHooks(name) PROVE RemovalInv'
  <2>1. Addition(name) \in Hook
    BY DEF Addition, Hook
  <2>2. ASSUME NEW a \in applied, a.policy.removes # {}
        PROVE  /\ a.hooked + 1 \in 1 .. Len(hooks')
               /\ hooks'[a.hooked + 1] = Removal(a.policy.removes)
    <3>1. /\ a.hooked + 1 \in 1 .. Len(hooks)
          /\ hooks[a.hooked + 1] = Removal(a.policy.removes)
      BY <2>2 DEF RemovalInv
    <3> QED BY <3>1, <1>1, <1>3, <2>1, RemovalKeptInPlace DEF OtherHooks
  <2>3. at' \notin {"starting", "sent"} /\ applied' = applied
    BY <1>3 DEF OtherHooks
  <2> QED BY <1>1, <2>2, <2>3 DEF RemovalInv
<1>4. CASE \E p \in Policies : ApplyHeaders(p) \/ ApplyThrows(p)
  BY <1>4, RemovalApply
<1>5. CASE StartResponse
  <2>1. ASSUME NEW a \in applied, NEW n \in a.policy.removes PROVE ~(pending' <= a.hooked)
    BY <1>1, <1>5 DEF RemovalInv, StartResponse, TypeInv, TypeOK, Application
  <2> QED BY <1>1, <1>5, <2>1 DEF RemovalInv, StartResponse
<1>6. CASE RunHook
  BY <1>6, RemovalRun
<1> QED BY <1>2, <1>3, <1>4, <1>5, <1>6 DEF Next

(* A removal that a pass has registered holds against everything that      *)
(* comes after it (NetSecureHeadersMiddleware lines 126-138).              *)
THEOREM RemovalIsEffective == Spec => []RemovalHolds
<1>1. RemovalInv => RemovalHolds
  <2> SUFFICES ASSUME RemovalInv, at = "sent", NEW a \in applied
               PROVE  \A n \in a.policy.removes : \A v \in headers[n] : v.hook \in 1 .. a.hooked
    BY DEF RemovalHolds
  <2>1. pending = 0 /\ a.hooked \in Nat
    BY DEF RemovalInv, TypeInv, TypeOK, Application
  <2> QED BY <2>1 DEF RemovalInv
<1> QED BY <1>1, RemovalInit, RemovalStep, PTL DEF Spec

-----------------------------------------------------------------------------
LEMMA PreviewInit == Init => PreviewInv
BY TypeInit, NameFacts DEF Init, PreviewInv, LibraryOwned

(* What one application leaves of a header that was not there before.      *)
LEMMA AddedAsPreviewed ==
  ASSUME NEW p \in Policies, NEW mode \in Modes, p.custom = "none",
         NEW n \in LibraryOwned \cup {"Extra"}, headers[n] = {}
  PROVE  {<<v.by, v.pass>> : v \in AddSecurityHeaders(p, mode, pass)[n]} =
           (IF Preview(p, mode, n) = "absent" THEN {}
            ELSE {<<Preview(p, mode, n), pass>>})
<1>1. /\ p.removes \subseteq HostNames
      /\ p.additional \cap LibraryOwned = {}
      /\ p.enabled \subseteq Toggled
  BY PipelineAssumption DEF NetSecureHeadersOptions
<1>2. n \in Names /\ n \notin p.removes
  BY <1>1, NameFacts
<1>3. PreviewedCspName(p, mode) = CspName(p, mode)
  BY DEF PreviewedCspName, CspName
<1>4. /\ Written("additional").by = "additional" /\ Written("additional").pass = pass
      /\ LibraryValue(p, n, pass).by = "library" /\ LibraryValue(p, n, pass).pass = pass
  BY DEF Written, LibraryValue, Signed
<1>5. CASE n \in p.additional
  <2>1. AddSecurityHeaders(p, mode, pass)[n] = {Written("additional")}
    BY <1>2, <1>5 DEF AddSecurityHeaders
  <2>2. Preview(p, mode, n) = "additional"
    BY <1>2, <1>5 DEF Preview
  <2> QED BY <2>1, <2>2, <1>4
<1>6. CASE n \notin p.additional /\ n \in Emitted(p, mode)
  <2>1. AddSecurityHeaders(p, mode, pass)[n] = {LibraryValue(p, n, pass)}
    BY <1>2, <1>6 DEF AddSecurityHeaders
  <2>2. Preview(p, mode, n) = "library"
    BY <1>2, <1>3, <1>6 DEF Preview, Emitted
  <2> QED BY <2>1, <2>2, <1>4
<1>7. CASE n \notin p.additional /\ n \notin Emitted(p, mode)
  <2>1. AddSecurityHeaders(p, mode, pass)[n] = {}
    BY <1>2, <1>7 DEF AddSecurityHeaders
  <2>2. Preview(p, mode, n) = "absent"
    BY <1>2, <1>3, <1>7 DEF Preview, Emitted
  <2> QED BY <2>1, <2>2
<1> QED BY <1>5, <1>6, <1>7

LEMMA PreviewApply ==
  ASSUME PreviewInv, NEW p \in Policies, ApplyHeaders(p)
  PROVE  PreviewInv'
<1>1. TypeInv' /\ TypeInv
  BY TypeApply DEF PreviewInv
<1>2. at = "middleware" /\ at' = "inside" /\ pass' = pass /\ kept' = kept /\ pass \in Nat
      /\ endpoint.mode \in Modes
  BY <1>1, PipelineAssumption, EndpointFacts DEF ApplyHeaders, TypeInv, TypeOK
<1>3. ASSUME NEW a \in applied', a \notin applied
      PROVE  a.policy = p /\ a.mode = endpoint.mode /\ a.pass = pass
  BY <1>3 DEF ApplyHeaders
<1>4. \A a \in applied' : a.pass <= pass'
  BY <1>2, <1>3 DEF PreviewInv
<1>5. ASSUME ~kept, NEW a \in applied', a.pass = pass, a.policy.custom = "none",
             NEW n \in LibraryOwned \cup {"Extra"}
      PROVE  {<<v.by, v.pass>> : v \in headers'[n]} =
               (IF Preview(a.policy, a.mode, n) = "absent" THEN {}
                ELSE {<<Preview(a.policy, a.mode, n), pass>>})
  <2>1. a \notin applied
    BY <1>2, <1>5 DEF PreviewInv
  <2>2. a.policy = p /\ a.mode = endpoint.mode
    BY <2>1, <1>3
  <2>3. headers[n] = {}
    BY <1>2, <1>5 DEF PreviewInv
  <2>4. headers' = AddSecurityHeaders(p, endpoint.mode, pass)
    BY DEF ApplyHeaders
  <2> QED BY <2>2, <2>3, <2>4, <1>2, <1>5, AddedAsPreviewed
<1> QED BY <1>1, <1>2, <1>4, <1>5 DEF PreviewInv, AsPreviewed

(* Steps that leave the headers of the library and the applications alone. *)
LEMMA PreviewQuiet ==
  ASSUME PreviewInv, TypeInv', UNCHANGED <<pass, applied, kept>>,
         \A n \in LibraryOwned \cup {"Extra"} : headers'[n] = headers[n],
         at' \in {"before", "middleware"} => at \in {"before", "middleware"},
         at' \in {"inside", "starting", "sent"} => at \in {"inside", "starting", "sent"}
  PROVE  PreviewInv'
BY DEF PreviewInv, AsPreviewed, Preview, PreviewedCspName

LEMMA PreviewStep == PreviewInv /\ [Next]_vars => PreviewInv'
<1> SUFFICES ASSUME PreviewInv, [Next]_vars PROVE PreviewInv'
  OBVIOUS
<1>1. TypeInv' /\ TypeInv /\ pass \in Nat
  BY TypeStep, PipelineAssumption DEF PreviewInv, TypeInv, TypeOK
<1>2. LibraryOwned \cup {"Extra"} \subseteq Names \ HostNames
  BY NameFacts
<1>3. CASE Route \/ LaterThrows \/ StartResponse \/ SendHeaders \/ Render
           \/ Finished \/ UNCHANGED vars \/ \E name \in HostNames : OtherHooks(name)
  <2>1. UNCHANGED <<pass, applied, kept, headers>>
    BY <1>3 DEF Route, LaterThrows, StartResponse, SendHeaders, Render, Finished,
       OtherHooks, reply, vars
  <2>2. /\ at' \in {"before", "middleware"} => at \in {"before", "middleware"}
        /\ at' \in {"inside", "starting", "sent"} => at \in {"inside", "starting", "sent"}
    BY <1>3 DEF Route, LaterThrows, StartResponse, SendHeaders, Render, Finished,
       OtherHooks, vars
  <2> QED BY <1>1, <2>1, <2>2, PreviewQuiet
<1>4. ASSUME NEW name \in HostNames, OtherWrites(name) PROVE PreviewInv'
  <2>1. headers \in [Names -> SUBSET Value]
    BY <1>1 DEF TypeInv, TypeOK
  <2>2. \A n \in LibraryOwned \cup {"Extra"} : headers'[n] = headers[n]
    BY <1>2, <1>4, <2>1 DEF OtherWrites
  <2> QED BY <1>1, <1>4, <2>2, PreviewQuiet DEF OtherWrites
<1>5. CASE RunHook
  <2>1. hooks[pending] \in Hook
    BY <1>1, <1>5 DEF TypeInv, TypeOK, RunHook
  <2>2. \A n \in LibraryOwned \cup {"Extra"} : headers'[n] = headers[n]
    BY <1>2, <1>5, <2>1 DEF RunHook, Hook
  <2> QED BY <1>1, <1>5, <2>2, PreviewQuiet DEF RunHook
<1>6. CASE SkipHeaders
  <2>1. \A a \in applied : a.pass < pass /\ a.pass \in Nat
    BY <1>1, <1>6 DEF PreviewInv, SkipHeaders, TypeInv, TypeOK, Application
  <2>2. UNCHANGED <<pass, applied, headers, kept>> /\ at' = "inside"
    BY <1>6 DEF SkipHeaders, reply
  <2> QED BY <1>1, <2>1, <2>2 DEF PreviewInv, AsPreviewed
<1>7. ASSUME NEW p \in Policies, ApplyThrows(p) PROVE PreviewInv'
  BY <1>1, <1>7 DEF PreviewInv, ApplyThrows
<1>8. ASSUME NEW p \in Policies, ApplyHeaders(p) PROVE PreviewInv'
  BY <1>8, PreviewApply
<1>9. CASE Abort
  BY <1>1, <1>9 DEF PreviewInv, Abort
<1>10. CASE HandleException \/ ServeStatusPage
  <2>1. /\ applied' = applied /\ pass' = pass + 1 /\ at' = "before"
        /\ kept' \/ \A n \in LibraryOwned \cup {"Extra"} : headers'[n] = {}
    BY <1>2, <1>10 DEF HandleException, ServeStatusPage, RunAgain
  <2>2. \A a \in applied : a.pass \in Nat /\ a.pass <= pass
    BY <1>1 DEF PreviewInv, TypeInv, TypeOK, Application
  <2> QED BY <1>1, <2>1, <2>2 DEF PreviewInv
<1> QED BY <1>3, <1>4, <1>5, <1>6, <1>7, <1>8, <1>9, <1>10 DEF Next

(* The diagnostics preview and the middleware agree on every header of the *)
(* library, for all policies, modes and errors on the way                  *)
(* (NetSecureHeadersDiagnosticsService lines 39-102).                      *)
THEOREM PreviewIsAccurate == Spec => []PreviewIsSent
<1>1. PreviewInv => PreviewIsSent
  BY DEF PreviewInv, PreviewIsSent
<1> QED BY <1>1, PreviewInit, PreviewStep, PTL DEF Spec

-----------------------------------------------------------------------------
LEMMA TelemetryInit == Init => TelemetryInv
BY TypeInit, NameFacts DEF Init, TelemetryInv, Reported

(* Events stay: what is reported stays reported while no CSP is added.     *)
LEMMA ReportedStays ==
  ASSUME Reported, events \subseteq events',
         \A n \in CspNames : \A v \in headers'[n] : v.by = "library" => v \in headers[n]
  PROVE  Reported'
BY DEF Reported

LEMMA TelemetryApply ==
  ASSUME TelemetryInv, NEW p \in Policies, ApplyHeaders(p)
  PROVE  TelemetryInv'
<1>1. TypeInv'
  BY TypeApply DEF TelemetryInv
<1>2. Reported
  BY DEF TelemetryInv, ApplyHeaders
<1>3. ASSUME NEW n \in CspNames, NEW v \in headers'[n], v.by = "library"
      PROVE  \E e \in events' :
               e.pass = v.pass /\ e.hasCsp /\ (~e.reportOnly => n = Enforcing)
  <2>1. CASE v \in headers[n]
    BY <1>2, <1>3, <2>1 DEF Reported, ApplyHeaders, Report
  <2>2. CASE v \notin headers[n]
    <3>1. n \in Names /\ n \notin Toggled /\ v \in AddSecurityHeaders(p, endpoint.mode, pass)[n]
      BY <1>3, NameFacts DEF ApplyHeaders
    <3>2. Written("custom").by = "custom" /\ Written("additional").by = "additional"
      BY DEF Written, Signed
    <3>3. v = LibraryValue(p, n, pass) /\ n \in Emitted(p, endpoint.mode)
      BY <3>1, <3>2, <2>2, <1>3 DEF AddSecurityHeaders
    <3>4. p.enabled \subseteq Toggled
      BY PipelineAssumption DEF NetSecureHeadersOptions
    <3>5. p.csp # "off" /\ n = CspName(p, endpoint.mode)
      BY <3>1, <3>3, <3>4 DEF Emitted
    <3>6. ~(p.reportOnly \/ endpoint.mode = "ReportOnly") => n = Enforcing
      BY <3>5 DEF CspName
    <3>7. v.pass = pass
      BY <3>3 DEF LibraryValue, Signed
    <3> DEFINE e == [pass |-> pass, hasCsp |-> p.csp # "off",
                     reportOnly |-> p.reportOnly \/ endpoint.mode = "ReportOnly",
                     matched |-> p.matched]
    <3>8. e \in events'
      BY DEF ApplyHeaders, Report
    <3>9. e.pass = v.pass /\ e.hasCsp /\ (~e.reportOnly => n = Enforcing)
      BY <3>5, <3>6, <3>7
    <3> QED BY <3>8, <3>9
  <2> QED BY <2>1, <2>2
<1>4. Reported'
  BY <1>3 DEF Reported
<1> QED BY <1>1, <1>4 DEF TelemetryInv

LEMMA TelemetryStep == TelemetryInv /\ [Next]_vars => TelemetryInv'
<1> SUFFICES ASSUME TelemetryInv, [Next]_vars PROVE TelemetryInv'
  OBVIOUS
<1>1. TypeInv' /\ TypeInv
  BY TypeStep DEF TelemetryInv
<1>2. ASSUME events' = events, at # "thrown",
             \A n \in CspNames : \A v \in headers'[n] : v.by = "library" => v \in headers[n]
      PROVE  TelemetryInv'
  BY <1>1, <1>2, ReportedStays DEF TelemetryInv
<1>3. CASE Route \/ SkipHeaders \/ StartResponse \/ SendHeaders \/ Render
           \/ ServeStatusPage \/ \E name \in HostNames : OtherHooks(name)
  BY <1>2, <1>3 DEF Route, SkipHeaders, StartResponse, SendHeaders, Render,
     ServeStatusPage, OtherHooks, reply, telemetry
<1>4. CASE Finished \/ UNCHANGED vars
  BY <1>1, <1>4 DEF Finished, TelemetryInv, Reported, vars, reply, telemetry
<1>5. ASSUME NEW name \in HostNames, OtherWrites(name) PROVE TelemetryInv'
  <2>1. headers \in [Names -> SUBSET Value] /\ CspNames \subseteq Names
    BY <1>1, NameFacts DEF TypeInv, TypeOK
  <2>2. Written("other").by = "other"
    BY DEF Written, Signed
  <2>3. \A n \in CspNames : headers'[n] \subseteq headers[n] \cup {Written("other")}
    BY <1>5, <2>1 DEF OtherWrites
  <2> QED BY <1>2, <1>5, <2>2, <2>3 DEF OtherWrites, telemetry
<1>6. CASE LaterThrows \/ \E p \in Policies : ApplyThrows(p)
  BY <1>1, <1>6 DEF TelemetryInv, LaterThrows, ApplyThrows
<1>7. ASSUME NEW p \in Policies, ApplyHeaders(p) PROVE TelemetryInv'
  BY <1>7, TelemetryApply
<1>8. CASE HandleException \/ Abort
  <2>1. \A n \in CspNames : headers'[n] = {}
    BY <1>8, NameFacts DEF HandleException, Abort
  <2> QED BY <1>1, <2>1 DEF TelemetryInv, Reported
<1>9. CASE RunHook
  <2>1. Signed("other", 0, pending).by = "other"
    BY DEF Signed
  <2>2. \A n \in CspNames : headers'[n] \subseteq headers[n] \cup {Signed("other", 0, pending)}
    BY <1>9, NameFacts DEF RunHook
  <2> QED BY <1>2, <1>9, <2>1, <2>2 DEF RunHook, telemetry
<1> QED BY <1>3, <1>4, <1>5, <1>6, <1>7, <1>8, <1>9 DEF Next

(* No CSP is sent that the telemetry does not know, and none it calls      *)
(* enforced that is not (NetSecureHeadersMiddleware lines 97-107).         *)
THEOREM TelemetryIsHonest == Spec => []TelemetryNeverOverstates
<1>1. TelemetryInv => TelemetryNeverOverstates
  BY DEF TelemetryInv, TelemetryNeverOverstates
<1> QED BY <1>1, TelemetryInit, TelemetryStep, PTL DEF Spec

-----------------------------------------------------------------------------
(* The configuration of path policies (PathPolicies). *)

LEMMA LeastExists ==
  ASSUME NEW T, T \subseteq Nat, T # {}
  PROVE  \E x \in T : \A y \in T : x <= y
<1> DEFINE R == OpToRel(<, Nat)
<1>1. IsWellFoundedOn(R, Nat)
  BY NatLessThanWellFounded
<1>2. PICK x \in T : \A y \in T : ~(<<y, x>> \in R)
  <2> HIDE DEF R
  <2> QED BY <1>1, WFMin, Zenon
<1>3. \A y \in T : ~(y < x)
  BY <1>2 DEF OpToRel
<1> QED BY <1>3

-----------------------------------------------------------------------------
(* Types *)

LEMMA CustomizedType ==
  ASSUME NEW o \in Options, NEW c \in Customizations
  PROVE  Customized(o, c) \in Options /\ Customized(o, c).additional = o.additional
BY PathAssumption DEF Customized, Options, Customization

LEMMA NewTypes ==
  ASSUME ConfigTypeOK, NewList <= MaxLists, NEW v \in OptionValues
  PROVE  /\ NewList \in Nat /\ NewList \in 1 .. MaxLists /\ NewList \notin 1 .. Len(lists)
         /\ NewOptions(v) \in Options /\ NewOptions(v).additional = NewList
         /\ Clone \in Options /\ Clone.additional = NewList
<1>1. Len(lists) \in Nat /\ NewList \in 1 .. MaxLists
  BY PathAssumption DEF ConfigTypeOK, NewList
<1> QED BY <1>1 DEF ConfigTypeOK, NewOptions, Clone, Options, OptionValues, NewList

(* A list more, and nothing of the lists that were there has changed. *)
LEMMA AppendedList ==
  ASSUME ConfigTypeOK, NEW items \in SUBSET Items
  PROVE  /\ Append(lists, items) \in Seq(SUBSET Items)
         /\ Len(Append(lists, items)) = NewList
         /\ Append(lists, items)[NewList] = items
         /\ \A l \in 1 .. Len(lists) : Append(lists, items)[l] = lists[l]
BY DEF ConfigTypeOK, NewList

LEMMA DeclareType ==
  ASSUME ConfigTypeOK, NEW prefix \in KnownPrefixes, NEW o \in Options, NEW origin \in Origins,
         NEW own \in SUBSET Scalars, Declare(prefix, o, origin, own)
  PROVE  /\ policies' \in Seq(PathPolicyOptions)
         /\ Len(policies') = Len(policies) + 1 /\ Len(policies) \in Nat
         /\ \A k \in DOMAIN policies : policies'[k] = policies[k]
         /\ policies'[Len(policies')].prefix = prefix
         /\ policies'[Len(policies')].options = o
         /\ policies'[Len(policies')].origin = origin
<1> DEFINE p == [prefix |-> prefix, options |-> o, origin |-> origin, own |-> own]
<1>1. p \in PathPolicyOptions
  BY PathAssumption DEF PathPolicyOptions
<1>2. policies' = Append(policies, p)
  BY DEF Declare
<1> HIDE DEF p
<1>3. /\ policies' \in Seq(PathPolicyOptions)
      /\ Len(policies') = Len(policies) + 1 /\ Len(policies) \in Nat
      /\ \A k \in DOMAIN policies : policies'[k] = policies[k]
      /\ policies'[Len(policies')] = p
  BY <1>1, <1>2 DEF ConfigTypeOK
<1> QED BY <1>3 DEF p

-----------------------------------------------------------------------------
(* Collections: ConfigTypeOK and NothingShared together are inductive.           *)

ConfigInv ==
  /\ ConfigTypeOK
  /\ NothingShared
  /\ phase = "running" => Valid

LEMMA ConfigStart == ConfigInit => ConfigInv
BY PathAssumption DEF ConfigInit, ConfigInv, ConfigTypeOK, NothingShared, Options, OptionValues

(* Appending a policy with a new collection keeps ConfigTypeOK, NothingShared    *)
(* and the independence of what is there.                                  *)
LEMMA NewPolicy ==
  ASSUME ConfigInv, NEW prefix \in KnownPrefixes, NEW o \in Options,
         NEW origin \in Origins, NEW own \in SUBSET Scalars, NEW items \in SUBSET Items,
         phase = "configuring", UNCHANGED <<phase, production, global>>,
         NewList <= MaxLists, o.additional = NewList,
         origin = "PathPolicy" => ~IsBlank(prefix),
         lists' = Append(lists, items), Declare(prefix, o, origin, own)
  PROVE  /\ ConfigInv'
         /\ \A k \in DOMAIN policies \cap DOMAIN policies' :
              Effective(policies'[k].options, lists') = Effective(policies[k].options, lists)
         /\ Effective(global', lists') = Effective(global, lists)
<1>1. ConfigTypeOK /\ NothingShared
  BY DEF ConfigInv
<1>2. /\ policies' \in Seq(PathPolicyOptions)
      /\ Len(policies') = Len(policies) + 1 /\ Len(policies) \in Nat
      /\ \A k \in DOMAIN policies : policies'[k] = policies[k]
      /\ policies'[Len(policies')].prefix = prefix
      /\ policies'[Len(policies')].options = o
      /\ policies'[Len(policies')].origin = origin
  BY <1>1, DeclareType
<1>3. /\ lists' \in Seq(SUBSET Items) /\ Len(lists') = NewList
      /\ \A l \in 1 .. Len(lists) : lists'[l] = lists[l]
  BY <1>1, AppendedList
<1>4. NewList \in 1 .. MaxLists /\ Len(lists) \in Nat /\ NewList = Len(lists) + 1
  BY <1>1, PathAssumption DEF ConfigTypeOK, NewList
<1>5. DOMAIN policies = 1 .. Len(policies) /\ DOMAIN policies' = 1 .. Len(policies) + 1
  BY <1>1, <1>2 DEF ConfigTypeOK
<1>6. \A k \in DOMAIN policies' :
        k \in DOMAIN policies \/ k = Len(policies')
  BY <1>2, <1>5
<1>7. \A k \in DOMAIN policies : policies[k].options.additional \in 1 .. Len(lists)
  BY <1>1 DEF ConfigTypeOK
<1>8. global.additional \in 1 .. Len(lists) /\ global' = global
  BY <1>1 DEF ConfigTypeOK
<1>9. ConfigTypeOK'
  <2>1. \A k \in DOMAIN policies' : policies'[k].options.additional \in 1 .. Len(lists')
    BY <1>2, <1>3, <1>4, <1>6, <1>7
  <2>2. \A k \in DOMAIN policies' :
          policies'[k].origin = "PathPolicy" => ~IsBlank(policies'[k].prefix)
    BY <1>1, <1>2, <1>6 DEF ConfigTypeOK, IsBlank
  <2>3. global'.additional \in 1 .. Len(lists') /\ Len(lists') \in 1 .. MaxLists
    BY <1>3, <1>4, <1>8
  <2>4. phase' \in {"configuring", "running", "refused"} /\ production' \in BOOLEAN
        /\ global' \in Options
    BY <1>1, Zenon DEF ConfigTypeOK
  <2> QED BY <1>2, <1>3, <2>1, <2>2, <2>3, <2>4, Zenon DEF ConfigTypeOK
<1>10. NothingShared'
  <2>1. \A k \in DOMAIN policies :
          /\ policies'[k] = policies[k]
          /\ policies[k].options.additional < NewList
          /\ policies[k].options.additional # global.additional
    BY <1>1, <1>2, <1>4, <1>7 DEF NothingShared
  <2>2. policies'[Len(policies')].options.additional = NewList
    BY <1>2
  <2>3. global.additional < NewList
    BY <1>4, <1>8
  <2>4. \A k \in DOMAIN policies' : policies'[k].options.additional # global'.additional
    BY <2>1, <2>2, <2>3, <1>4, <1>6, <1>8
  <2>5. ASSUME NEW k \in DOMAIN policies', NEW l \in DOMAIN policies',
               policies'[k].options.additional = policies'[l].options.additional
        PROVE  k = l
    <3>1. CASE k \in DOMAIN policies /\ l \in DOMAIN policies
      BY <1>1, <2>1, <2>5, <3>1 DEF NothingShared
    <3>2. CASE k = Len(policies') /\ l = Len(policies')
      BY <3>2
    <3>3. CASE (k \in DOMAIN policies) # (l \in DOMAIN policies)
      BY <1>4, <1>6, <2>1, <2>2, <2>5, <3>3
    <3> QED BY <1>6, <3>1, <3>2, <3>3
  <2> QED BY <2>4, <2>5 DEF NothingShared
<1>11. \A k \in DOMAIN policies \cap DOMAIN policies' :
         Effective(policies'[k].options, lists') = Effective(policies[k].options, lists)
  BY <1>2, <1>3, <1>7 DEF Effective
<1>12. Effective(global', lists') = Effective(global, lists)
  BY <1>3, <1>8 DEF Effective
<1> QED BY <1>9, <1>10, <1>11, <1>12 DEF ConfigInv

LEMMA DeclareCopyKeeps ==
  ASSUME ConfigInv, NEW prefix \in KnownPrefixes, NEW c \in Customizations,
         NEW origin \in Origins, DeclareCopy(prefix, c, origin),
         origin = "PathPolicy" => ~IsBlank(prefix)
  PROVE  /\ ConfigInv'
         /\ \A k \in DOMAIN policies \cap DOMAIN policies' :
              Effective(policies'[k].options, lists') = Effective(policies[k].options, lists)
         /\ Effective(global', lists') = Effective(global, lists)
<1>1. ConfigTypeOK /\ NewList <= MaxLists
  BY DEF ConfigInv, DeclareCopy
<1>2. /\ Clone \in Options /\ Clone.additional = NewList
  BY <1>1, PathAssumption, NewTypes
<1>3. /\ Customized(Clone, c) \in Options
      /\ Customized(Clone, c).additional = NewList
  BY <1>2, CustomizedType
<1>4. lists[global.additional] \in SUBSET Items /\ c.adds \in SUBSET Items
      /\ c.own \in SUBSET Scalars
  BY <1>1, PathAssumption DEF ConfigTypeOK, Customization
<1> DEFINE items == lists[global.additional] \cup c.adds
<1>5. lists' = Append(lists, items)
  <2>1. lists' = [Append(lists, lists[global.additional]) EXCEPT ![NewList] = @ \cup c.adds]
    BY <1>2 DEF DeclareCopy, Customize
  <2>2. lists \in Seq(SUBSET Items) /\ NewList = Len(lists) + 1 /\ Len(lists) \in Nat
    BY <1>1 DEF ConfigTypeOK, NewList
  <2> DEFINE A == Append(lists, lists[global.additional])
             B == Append(lists, items)
  <2>3. /\ A \in Seq(SUBSET Items) /\ Len(A) = NewList
        /\ B \in Seq(SUBSET Items) /\ Len(B) = NewList
        /\ A[NewList] = lists[global.additional] /\ B[NewList] = items
        /\ \A l \in 1 .. Len(lists) : A[l] = B[l]
    BY <2>2, <1>1, <1>4, AppendedList
  <2> HIDE DEF A
  <2>4. lists' = [A EXCEPT ![NewList] = items]
    BY <2>1, <2>3 DEF A
  <2> HIDE DEF B, items
  <2>5. /\ A = [l \in 1 .. NewList |-> A[l]] /\ B = [l \in 1 .. NewList |-> B[l]]
    BY <2>3
  <2>6. \A l \in 1 .. NewList : [A EXCEPT ![NewList] = items][l] = B[l]
    <3> SUFFICES ASSUME NEW l \in 1 .. NewList
                 PROVE  [A EXCEPT ![NewList] = items][l] = B[l]
      OBVIOUS
    <3>1. l = NewList \/ (l # NewList /\ l \in 1 .. Len(lists))
      BY <2>2
    <3>2. DOMAIN A = 1 .. NewList
      BY <2>5
    <3>3. CASE l = NewList
      BY <3>2, <3>3, <2>3
    <3>4. CASE l # NewList /\ l \in 1 .. Len(lists)
      BY <3>2, <3>4, <2>3
    <3> QED BY <3>1, <3>3, <3>4
  <2>7. [A EXCEPT ![NewList] = items] = B
    BY <2>5, <2>6
  <2> QED BY <2>4, <2>7 DEF B
<1>6. items \in SUBSET Items
  BY <1>4
<1>7. Declare(prefix, Customized(Clone, c), origin, c.own)
      /\ phase = "configuring" /\ UNCHANGED <<phase, production, global>>
  BY DEF DeclareCopy
<1> HIDE DEF items
<1> QED BY <1>1, <1>3, <1>4, <1>5, <1>6, <1>7, NewPolicy

LEMMA AddByHandKeeps ==
  ASSUME ConfigInv, NEW prefix \in KnownPrefixes, NEW c \in Customizations,
         AddByHand(prefix, c)
  PROVE  /\ ConfigInv'
         /\ \A k \in DOMAIN policies \cap DOMAIN policies' :
              Effective(policies'[k].options, lists') = Effective(policies[k].options, lists)
         /\ Effective(global', lists') = Effective(global, lists)
<1>1. ConfigTypeOK /\ NewList <= MaxLists
  BY DEF ConfigInv, AddByHand
<1>2. NewOptions(Defaults) \in Options /\ NewOptions(Defaults).additional = NewList
  BY <1>1, PathAssumption, NewTypes
<1>3. /\ Customized(NewOptions(Defaults), c) \in Options
      /\ Customized(NewOptions(Defaults), c).additional = NewList
  BY <1>2, CustomizedType
<1>4. Defaults.items \cup c.adds \in SUBSET Items
  BY PathAssumption DEF Customization, OptionValues
<1>5. /\ Declare(prefix, Customized(NewOptions(Defaults), c), "new", Scalars)
      /\ phase = "configuring" /\ UNCHANGED <<phase, production, global>>
      /\ lists' = Append(lists, Defaults.items \cup c.adds)
  BY DEF AddByHand
<1>6. "new" \in Origins /\ Scalars \in SUBSET Scalars
  BY DEF Origins
<1> QED BY <1>1, <1>3, <1>4, <1>5, <1>6, NewPolicy

(* Steps that leave lists and policies alone. *)
LEMMA QuietKeeps ==
  ASSUME ConfigInv, UNCHANGED <<lists, policies, production>>, global' \in Options,
         global'.additional = global.additional,
         phase' \in {"configuring", "running", "refused"},
         phase' = "running" => Valid'
  PROVE  ConfigInv'
BY DEF ConfigInv, ConfigTypeOK, NothingShared, IsBlank

LEMMA SetGlobalKeeps ==
  ASSUME ConfigInv, NEW c \in Customizations, SetGlobal(c)
  PROVE  /\ ConfigInv'
         /\ \A k \in DOMAIN policies \cap DOMAIN policies' :
              Effective(policies'[k].options, lists') = Effective(policies[k].options, lists)
<1>1. ConfigTypeOK /\ NothingShared
  BY DEF ConfigInv
<1>2. global' \in Options /\ global'.additional = global.additional
  BY <1>1, CustomizedType DEF SetGlobal, ConfigTypeOK
<1>3. /\ lists' \in Seq(SUBSET Items) /\ Len(lists') = Len(lists)
      /\ \A l \in 1 .. Len(lists) : l # global.additional => lists'[l] = lists[l]
  BY <1>1, PathAssumption DEF SetGlobal, ConfigTypeOK, Customization
<1>4. phase' = phase /\ phase = "configuring" /\ policies' = policies /\ production' = production
  BY DEF SetGlobal
<1>5. ConfigInv'
  <2>1. ConfigTypeOK'
    BY <1>1, <1>2, <1>3, <1>4 DEF ConfigTypeOK, IsBlank
  <2>2. NothingShared'
    BY <1>1, <1>2, <1>4 DEF NothingShared
  <2> QED BY <2>1, <2>2, <1>4 DEF ConfigInv
<1>6. \A k \in DOMAIN policies :
        /\ policies[k].options.additional \in 1 .. Len(lists)
        /\ policies[k].options.additional # global.additional
  BY <1>1 DEF ConfigTypeOK, NothingShared
<1> QED BY <1>3, <1>4, <1>5, <1>6 DEF Effective

LEMMA ApplyPresetKeeps ==
  ASSUME ConfigInv, NEW preset \in Presets, ApplyPreset(preset)
  PROVE  ConfigInv' /\ policies' = <<>>
<1>1. ConfigTypeOK /\ NewList <= MaxLists /\ preset \in OptionValues /\ preset.items \in SUBSET Items
  BY PathAssumption DEF ConfigInv, ApplyPreset, OptionValues
<1>2. global' \in Options /\ global'.additional = NewList /\ NewList \in 1 .. MaxLists
  BY <1>1, NewTypes DEF ApplyPreset
<1>3. lists' \in Seq(SUBSET Items) /\ Len(lists') = NewList
  BY <1>1, AppendedList DEF ApplyPreset
<1>4. policies' = <<>> /\ phase' = "configuring" /\ production' \in BOOLEAN
  BY <1>1, Zenon DEF ApplyPreset, ConfigTypeOK
<1>5. policies' \in Seq(PathPolicyOptions) /\ DOMAIN policies' = {}
  BY <1>4
<1>6. global'.additional \in 1 .. Len(lists') /\ Len(lists') \in 1 .. MaxLists
  BY <1>2, <1>3
<1>7. ConfigTypeOK'
  BY <1>2, <1>3, <1>4, <1>5, <1>6 DEF ConfigTypeOK
<1> QED BY <1>4, <1>5, <1>7 DEF ConfigInv, NothingShared

LEMMA ConfigStep == ConfigInv /\ [ConfigNext]_configVars => ConfigInv'
<1> SUFFICES ASSUME ConfigInv, [ConfigNext]_configVars PROVE ConfigInv'
  OBVIOUS
<1>1. ASSUME NEW c \in Customizations, SetGlobal(c) PROVE ConfigInv'
  BY <1>1, SetGlobalKeeps
<1>2. ASSUME NEW preset \in Presets, ApplyPreset(preset) PROVE ConfigInv'
  BY <1>2, ApplyPresetKeeps
<1>3. CASE ApplyEnvironmentRolloutDefaults
  <2>1. global' \in Options /\ global'.additional = global.additional
    BY <1>3 DEF ApplyEnvironmentRolloutDefaults, ConfigInv, ConfigTypeOK, Options
  <2> QED BY <1>3, <2>1, QuietKeeps DEF ApplyEnvironmentRolloutDefaults
<1>4. ASSUME NEW prefix \in KnownPrefixes, NEW c \in Customizations,
             PathPolicy(prefix, c) \/ InheritByHand(prefix, c) \/ AddByHand(prefix, c)
      PROVE  ConfigInv'
  BY <1>4, DeclareCopyKeeps, AddByHandKeeps DEF PathPolicy, InheritByHand, Origins
<1>5. CASE Start
  <2>1. phase' = "running" => Valid'
    BY <1>5 DEF Start, Valid, ValidPolicy, SamePrefix, NormalizePathPrefix, IsBlank
  <2>2. phase' \in {"configuring", "running", "refused"}
    BY <1>5 DEF Start
  <2>3. global' \in Options
    BY <1>5 DEF Start, ConfigInv, ConfigTypeOK
  <2> QED BY <1>5, <2>1, <2>2, <2>3, QuietKeeps DEF Start
<1>6. CASE Serve \/ UNCHANGED configVars
  <2>1. UNCHANGED configVars
    BY <1>6 DEF Serve
  <2>2. phase' = "running" => Valid'
    BY <2>1 DEF configVars, ConfigInv, Valid, ValidPolicy, SamePrefix, NormalizePathPrefix, IsBlank
  <2>3. phase' \in {"configuring", "running", "refused"} /\ global' \in Options
    BY <2>1 DEF configVars, ConfigInv, ConfigTypeOK
  <2> QED BY <2>1, <2>2, <2>3, QuietKeeps DEF configVars
<1> QED BY <1>1, <1>2, <1>3, <1>4, <1>5, <1>6 DEF ConfigNext

(* Every configuration the callbacks can build is well formed.             *)
THEOREM ConfigurationTypeCorrect == ConfigSpec => []ConfigTypeOK
<1>1. ConfigInv => ConfigTypeOK
  BY DEF ConfigInv
<1> QED BY <1>1, ConfigStart, ConfigStep, PTL DEF ConfigSpec

(* Clone and ApplyPreset copy every collection, so policies and the global *)
(* options never change through one another (NetSecureHeadersOptions,      *)
(* lines 184-236, and PathPolicy).                                         *)
THEOREM PoliciesAreIndependent == ConfigSpec => PoliciesIndependent
<1> DEFINE Independent ==
      /\ \A k \in DOMAIN policies \cap DOMAIN policies' :
           Effective(policies'[k].options, lists') = Effective(policies[k].options, lists)
      /\ Len(policies') > Len(policies) =>
           Effective(global', lists') = Effective(global, lists)
<1>1. ConfigInv /\ [ConfigNext]_configVars => [Independent]_configVars
  <2> SUFFICES ASSUME ConfigInv, ConfigNext PROVE Independent
    OBVIOUS
  <2>0. Len(policies) \in Nat
    BY DEF ConfigInv, ConfigTypeOK
  <2>1. ASSUME NEW c \in Customizations, SetGlobal(c) PROVE Independent
    <3>1. \A k \in DOMAIN policies \cap DOMAIN policies' :
            Effective(policies'[k].options, lists') = Effective(policies[k].options, lists)
      BY <2>1, SetGlobalKeeps, Zenon
    <3>2. ~(Len(policies') > Len(policies))
      BY <2>0, <2>1 DEF SetGlobal
    <3> QED BY <3>1, <3>2
  <2>2. ASSUME NEW preset \in Presets, ApplyPreset(preset) PROVE Independent
    BY <2>0, <2>2, ApplyPresetKeeps
  <2>3. CASE ApplyEnvironmentRolloutDefaults \/ Start \/ Serve
    BY <2>0, <2>3 DEF ApplyEnvironmentRolloutDefaults, Start, Serve, configVars
  <2>4. ASSUME NEW prefix \in KnownPrefixes, NEW c \in Customizations,
               PathPolicy(prefix, c) \/ InheritByHand(prefix, c) \/ AddByHand(prefix, c)
        PROVE  Independent
    BY <2>4, DeclareCopyKeeps, AddByHandKeeps DEF PathPolicy, InheritByHand, Origins
  <2> QED BY <2>1, <2>2, <2>3, <2>4 DEF ConfigNext
<1> QED BY <1>1, ConfigStart, ConfigStep, PTL DEF ConfigSpec, PoliciesIndependent

-----------------------------------------------------------------------------
(* Resolution *)

LEMMA ResolveFacts ==
  ASSUME NEW path, NEW order \in Builds
  PROVE  /\ Hits(order, path) = {} => Resolve(order, path) = 0
         /\ Hits(order, path) # {} =>
              \E i \in Hits(order, path) :
                /\ Resolve(order, path) = order[i]
                /\ \A j \in Hits(order, path) : i <= j
<1>1. DOMAIN order \subseteq Nat
  BY DEF Builds
<1>2. Hits(order, path) \subseteq Nat
  BY <1>1 DEF Hits
<1>3. ASSUME Hits(order, path) # {}
      PROVE  \E i \in Hits(order, path) : \A j \in Hits(order, path) : i <= j
  BY <1>2, <1>3, LeastExists
<1> QED BY <1>3 DEF Resolve

(* Two policies of one path have prefixes of the same length only if they  *)
(* have the same prefix, and then the options are refused.                 *)
LEMMA LengthTellsApart ==
  ASSUME ConfigTypeOK, Valid, NEW path \in Paths,
         NEW k \in DOMAIN policies, NEW l \in DOMAIN policies,
         Matches(path, policies[k]), Matches(path, policies[l]),
         PrefixLength(policies[k]) = PrefixLength(policies[l])
  PROVE  k = l
<1> DEFINE t == policies[k].prefix.text
           u == policies[l].prefix.text
<1>1. policies[k] \in PathPolicyOptions /\ policies[l] \in PathPolicyOptions
  BY DEF ConfigTypeOK
<1>2. t \in Texts /\ u \in Texts
      /\ policies[k].prefix \in Prefix /\ policies[l].prefix \in Prefix
  BY <1>1 DEF PathPolicyOptions, Prefix
<1>3. Length[t] \in Nat /\ Length[u] \in Nat
  BY <1>2, PathAssumption
<1>4. Length[t] = Length[u]
  BY <1>3 DEF PrefixLength
<1>5. Length[Folded[t]] = Length[Folded[u]]
  BY <1>2, <1>4, PathAssumption
<1>6. Folded[t] \in Covers[path] /\ Folded[u] \in Covers[path]
  BY DEF Matches
<1>7. Folded[t] = Folded[u]
  BY <1>5, <1>6, PathAssumption
<1>8. SamePrefix(policies[k].prefix, policies[l].prefix)
  BY <1>2, <1>7 DEF SamePrefix, NormalizePathPrefix, Prefix
<1> QED BY <1>8 DEF Valid

LEMMA LengthIsNatural ==
  ASSUME ConfigTypeOK, NEW k \in DOMAIN policies
  PROVE  PrefixLength(policies[k]) \in Nat
<1>1. policies[k] \in PathPolicyOptions
  BY DEF ConfigTypeOK
<1>2. policies[k].prefix.text \in Texts
  BY <1>1 DEF PathPolicyOptions, Prefix
<1>3. Length[policies[k].prefix.text] \in Nat
  BY <1>2, PathAssumption
<1> QED BY <1>3 DEF PrefixLength

LEMMA BuildFacts ==
  ASSUME NEW order \in Builds
  PROVE  /\ DOMAIN order \subseteq Nat
         /\ \A i \in DOMAIN order : order[i] \in Kept
         /\ \A k \in Kept : \E i \in DOMAIN order : order[i] = k
         /\ LongestFirst(order)
<1>1. /\ order \in UNION {[1 .. n -> Kept] : n \in 0 .. Len(policies)}
      /\ \A k \in Kept : \E i \in DOMAIN order : order[i] = k
      /\ LongestFirst(order)
  BY Zenon DEF Builds
<1>2. PICK n \in 0 .. Len(policies) : order \in [1 .. n -> Kept]
  BY <1>1
<1>3. DOMAIN order = 1 .. n /\ \A i \in DOMAIN order : order[i] \in Kept
  BY <1>2
<1>4. 1 .. n \subseteq Nat
  BY <1>2
<1> QED BY <1>1, <1>3, <1>4, Zenon

LEMMA LongestResolved ==
  ASSUME ConfigTypeOK, Valid, NEW path \in Paths, NEW order \in Builds
  PROVE  LET own == {k \in DOMAIN policies : Matches(path, policies[k])}
             r == Resolve(order, path)
         IN  IF own = {} THEN r = 0
             ELSE /\ r \in own
                  /\ \A k \in own \ {r} : PrefixLength(policies[k]) < PrefixLength(policies[r])
<1> DEFINE own == {k \in DOMAIN policies : Matches(path, policies[k])}
           r == Resolve(order, path)
           hits == Hits(order, path)
<1>1. Kept = DOMAIN policies
  BY DEF Kept, Valid
<1>2. /\ DOMAIN order \subseteq Nat
      /\ \A i \in DOMAIN order : order[i] \in DOMAIN policies
      /\ \A k \in DOMAIN policies : \E i \in DOMAIN order : order[i] = k
      /\ LongestFirst(order)
  BY <1>1, BuildFacts, Zenon
<1>3. \A i \in hits : order[i] \in own
  BY <1>2 DEF Hits
<1>4. \A k \in own : \E i \in hits : order[i] = k
  BY <1>2 DEF Hits
<1>5. \A k \in own : PrefixLength(policies[k]) \in Nat
  BY LengthIsNatural
<1>6. CASE own = {}
  BY <1>3, <1>6, ResolveFacts
<1>7. CASE own # {}
  <2>1. PICK i \in hits : r = order[i] /\ \A j \in hits : i <= j
    BY <1>4, <1>7, ResolveFacts
  <2>2. r \in own
    BY <2>1, <1>3
  <2>3. ASSUME NEW k \in own \ {r}
        PROVE  PrefixLength(policies[k]) < PrefixLength(policies[r])
    <3>1. PICK j \in hits : order[j] = k
      BY <1>4
    <3>2. i \in DOMAIN order /\ j \in DOMAIN order /\ i < j
      BY <1>2, <2>1, <2>3, <3>1 DEF Hits
    <3>3. PrefixLength(policies[r]) >= PrefixLength(policies[k])
      BY <1>2, <2>1, <3>1, <3>2 DEF LongestFirst
    <3>4. PrefixLength(policies[r]) # PrefixLength(policies[k])
      BY <2>2, <2>3, LengthTellsApart
    <3> QED BY <1>5, <2>2, <2>3, <3>3, <3>4
  <2> QED BY <1>7, <2>2, <2>3
<1> QED BY <1>6, <1>7

(* Longest prefix wins in every host that started, for any set of prefixes *)
(* (PathPolicyResolver lines 67-111).                                      *)
THEOREM LongestWins == ConfigSpec => []LongestPrefixWins
<1>1. ConfigInv => LongestPrefixWins
  BY LongestResolved, Zenon DEF ConfigInv, LongestPrefixWins
<1> QED BY <1>1, ConfigStart, ConfigStep, PTL DEF ConfigSpec

(* The middleware and the preview resolve every path alike, whatever order *)
(* the unstable sort gives each of them.                                   *)
THEOREM ResolutionIsUnique == ConfigSpec => []ResolutionUnique
<1>1. ASSUME ConfigInv, phase = "running", NEW path \in Paths,
             NEW a \in Builds, NEW b \in Builds
      PROVE  Resolve(a, path) = Resolve(b, path)
  <2> DEFINE own == {k \in DOMAIN policies : Matches(path, policies[k])}
             Wins(r) == IF own = {} THEN r = 0
                        ELSE /\ r \in own
                             /\ \A k \in own \ {r} :
                                  PrefixLength(policies[k]) < PrefixLength(policies[r])
  <2>1. Wins(Resolve(a, path)) /\ Wins(Resolve(b, path))
    BY <1>1, LongestResolved, Zenon DEF ConfigInv
  <2>2. \A k \in own : PrefixLength(policies[k]) \in Nat
    BY <1>1, LengthIsNatural DEF ConfigInv
  <2> HIDE DEF own
  <2> QED BY <2>1, <2>2
<1>2. ConfigInv => ResolutionUnique
  BY <1>1 DEF ResolutionUnique
<1> QED BY <1>2, ConfigStart, ConfigStep, PTL DEF ConfigSpec

(* Every policy a path can resolve to has passed the validator             *)
(* (NetSecureHeadersOptionsValidator lines 37-66).                         *)
THEOREM OnlySoundOptionsServe == ConfigSpec => []ResolvedIsSound
<1>1. ASSUME ConfigInv, phase = "running", NEW path \in Paths, NEW order \in Builds
      PROVE  Resolve(order, path) = 0 \/ Resolve(order, path) \in DOMAIN policies
  <2>1. \A i \in DOMAIN order : order[i] \in DOMAIN policies
    BY DEF Builds, Kept
  <2> QED BY <2>1, ResolveFacts DEF Hits
<1>2. ConfigInv => ResolvedIsSound
  BY <1>1 DEF ConfigInv, Valid, ValidPolicy, ResolvedIsSound
<1> QED BY <1>2, ConfigStart, ConfigStep, PTL DEF ConfigSpec

-----------------------------------------------------------------------------
(* The report endpoint: any number of requests and sinks of either kind.   *)

LEMMA ReportInitInv == ReportInit => ReportInv
<1> SUFFICES ASSUME ReportInit PROVE ReportInv
  OBVIOUS
<1>1. ReportTypeOK
  BY CountsAssumption DEF ReportInit, ReportTypeOK, Labels, Contents, Answers, TaskStates
<1>2. Progress /\ AnswersAreTrue
  BY CountsAssumption DEF ReportInit, Progress, AnswersAreTrue, NoResponse
<1> QED BY <1>1, <1>2 DEF ReportInv

(* Arrivals, disconnects and acceptance move the request only. *)
LEMMA HandleMove ==
  ASSUME ReportInv, NEW r \in Requests, Arrive(r) \/ Disconnect(r) \/ Accept(r)
  PROVE  ReportInv'
<1>0. UNCHANGED <<response, written, sinkAt, task, results, cspViolations, sinkFailures>>
  BY DEF Arrive, Disconnect, Accept, emission
<1>1. ReportTypeOK'
  <2>1. CASE Arrive(r)
    BY <1>0, <2>1 DEF ReportInv, ReportTypeOK, Arrive, Goto, Labels
  <2>2. CASE Disconnect(r)
    BY <1>0, <2>2 DEF ReportInv, ReportTypeOK, Disconnect
  <2>3. CASE Accept(r)
    BY <1>0, <2>3 DEF ReportInv, ReportTypeOK, Accept, Goto, Labels
  <2> QED BY <2>1, <2>2, <2>3
<1>2. Progress'
  <2>1. \A q \in Requests :
          \/ pc'[q] = pc[q]
          \/ pc[q] = "idle" /\ pc'[q] = "parse"
          \/ pc[q] = "parse" /\ pc'[q] = "sinks"
    BY DEF ReportInv, ReportTypeOK, Arrive, Disconnect, Accept, Goto
  <2> QED BY <1>0, <2>1 DEF ReportInv, Progress
<1>3. AnswersAreTrue'
  BY <1>0 DEF ReportInv, AnswersAreTrue
<1> QED BY <1>1, <1>2, <1>3 DEF ReportInv

(* An answer without a report. *)
LEMMA HandleEarly ==
  ASSUME ReportInv, NEW r \in Requests, PassOn(r) \/ Reject(r) \/ ParseThrows(r)
  PROVE  ReportInv'
<1>1. PICK status \in {400, 404, 500} : Answer(r, status)
  BY DEF PassOn, Reject, ParseThrows
<1>2. UNCHANGED <<content, aborted, written, sinkAt, task, results, cspViolations, sinkFailures>>
  BY DEF PassOn, Reject, ParseThrows, emission
<1>3. /\ response'[r] = status /\ pc'[r] = "ended"
      /\ \A q \in Requests \ {r} : response'[q] = response[q] /\ pc'[q] = pc[q]
  BY <1>1 DEF ReportInv, ReportTypeOK, Answer, Goto
<1>4. ReportTypeOK'
  BY <1>1, <1>2 DEF ReportInv, ReportTypeOK, Answer, Goto, Labels, Answers
<1>5. pc[r] = "parse"
  BY DEF PassOn, Reject, ParseThrows
<1>6. Progress'
  BY <1>2, <1>3, <1>5 DEF ReportInv, Progress
<1>7. AnswersAreTrue'
  BY <1>2, <1>3, <1>5 DEF ReportInv, Progress, AnswersAreTrue
<1> QED BY <1>4, <1>6, <1>7 DEF ReportInv

(* The report sinks. *)
LEMMA HandleSinks ==
  ASSUME ReportInv, NEW r \in Requests, SinkWrites(r) \/ SinkThrows(r)
  PROVE  ReportInv'
<1> USE CountsAssumption
<1>0. sinkAt[r] \in 0 .. ReportSinks /\ sinkAt[r] + 1 \in 1 .. ReportSinks
  BY DEF ReportInv, ReportTypeOK, SinkWrites, SinkThrows
<1>1. ReportTypeOK'
  <2>1. written' \in [1 .. ReportSinks -> SUBSET Requests]
    <3>1. \/ written' = [written EXCEPT ![sinkAt[r] + 1] = @ \cup {r}]
          \/ written' = written
      BY DEF SinkWrites, SinkThrows
    <3>2. written[sinkAt[r] + 1] \cup {r} \in SUBSET Requests
      BY <1>0 DEF ReportInv, ReportTypeOK
    <3> QED BY <3>1, <3>2 DEF ReportInv, ReportTypeOK
  <2>2. CASE SinkWrites(r)
    BY <1>0, <2>1, <2>2 DEF ReportInv, ReportTypeOK, SinkWrites, emission
  <2>3. CASE SinkThrows(r)
    BY <2>1, <2>3 DEF ReportInv, ReportTypeOK, SinkThrows, Answer, Goto, Labels, Answers, emission
  <2> QED BY <2>2, <2>3
<1>2. \A q \in Requests, k \in 1 .. ReportSinks :
        (q \in written'[k] => q \in written[k] \/ q = r) /\ (q \in written[k] => q \in written'[k])
  BY <1>0 DEF ReportInv, ReportTypeOK, SinkWrites, SinkThrows
<1>3. Progress'
  <2>1. CASE SinkWrites(r)
    <3>1. r \in written'[sinkAt[r] + 1]
      BY <1>0, <2>1 DEF ReportInv, ReportTypeOK, SinkWrites
    <3>2. \A k \in 1 .. sinkAt'[r] : k \in 1 .. sinkAt[r] \/ k = sinkAt[r] + 1
      BY <1>0, <2>1 DEF ReportInv, ReportTypeOK, SinkWrites
    <3>3. \A q \in Requests \ {r} : sinkAt'[q] = sinkAt[q]
      BY <2>1 DEF ReportInv, ReportTypeOK, SinkWrites
    <3>4. \A q \in Requests : sinkAt[q] \in 0 .. ReportSinks
      BY DEF ReportInv, ReportTypeOK
    <3>5. \A q \in Requests : \A k \in 1 .. sinkAt'[q] : q \in written'[k]
      BY <1>0, <1>2, <3>1, <3>2, <3>3, <3>4 DEF ReportInv, Progress
    <3> QED BY <1>2, <2>1, <3>5 DEF ReportInv, ReportTypeOK, Progress, SinkWrites, emission
  <2>2. CASE SinkThrows(r)
    <3>1. \A q \in Requests : sinkAt[q] \in 0 .. ReportSinks
      BY DEF ReportInv, ReportTypeOK
    <3> QED BY <1>2, <2>2, <3>1
          DEF ReportInv, ReportTypeOK, Progress, SinkThrows, Answer, Goto, Labels, emission
  <2> QED BY <2>1, <2>2
<1>4. AnswersAreTrue'
  <2>1. response[r] = NoResponse
    BY DEF ReportInv, Progress, SinkWrites, SinkThrows
  <2> QED BY <1>2, <2>1 DEF ReportInv, ReportTypeOK, AnswersAreTrue, SinkWrites, SinkThrows,
                            Answer, Goto, NoResponse, emission
<1> QED BY <1>1, <1>3, <1>4 DEF ReportInv

(* The event and the acknowledgement. *)
LEMMA HandleEnd ==
  ASSUME ReportInv, NEW r \in Requests, Emit(r) \/ Acknowledge(r)
  PROVE  ReportInv'
<1>1. ReportTypeOK'
  <2>1. CASE Emit(r)
    BY <2>1 DEF ReportInv, ReportTypeOK, Emit, Goto, Labels, TaskStates
  <2>2. CASE Acknowledge(r)
    BY <2>2 DEF ReportInv, ReportTypeOK, Acknowledge, Answer, Goto, Labels, Answers, emission
  <2> QED BY <2>1, <2>2
<1>2. Progress'
  <2>1. CASE Emit(r)
    BY <2>1 DEF ReportInv, ReportTypeOK, Progress, Emit, Goto
  <2>2. CASE Acknowledge(r)
    BY <2>2 DEF ReportInv, ReportTypeOK, Progress, Acknowledge, Answer, Goto, emission
  <2> QED BY <2>1, <2>2
<1>3. AnswersAreTrue'
  <2>1. CASE Emit(r)
    <3>1. response[r] = NoResponse
      BY <2>1 DEF ReportInv, Progress, Emit
    <3>2. \A q \in Requests \ {r} : task'[q] = task[q]
      BY <2>1 DEF ReportInv, ReportTypeOK, Emit
    <3> QED BY <2>1, <3>1, <3>2 DEF ReportInv, AnswersAreTrue, Emit, NoResponse
  <2>2. CASE Acknowledge(r)
    BY <2>2 DEF ReportInv, ReportTypeOK, Progress, AnswersAreTrue, Acknowledge, Answer, Goto, emission
  <2> QED BY <2>1, <2>2
<1> QED BY <1>1, <1>2, <1>3 DEF ReportInv

(* The dispatcher's loop changes nothing the request looks at but the      *)
(* state of a task that has begun.                                         *)
LEMMA DispatchKeeps ==
  ASSUME ReportInv, NEW r \in Requests, Dispatch(r)
  PROVE  ReportInv'
<1> USE DEF Dispatch, SinkReceives, SinkFails, Concludes, SinkPends, EmitEnds, Running
<1>1. ReportTypeOK'
  <2>1. results' \in [Requests -> Seq(Results)]
    <3>1. \A result \in Results : Append(results[r], result) \in Seq(Results)
      BY DEF ReportInv, ReportTypeOK
    <3> QED BY <3>1 DEF ReportInv, ReportTypeOK, Results
  <2>2. task' \in [Requests -> TaskStates]
    BY DEF ReportInv, ReportTypeOK, TaskStates
  <2>3. sinkFailures' \in Nat
    BY DEF ReportInv, ReportTypeOK
  <2> QED BY <2>1, <2>2, <2>3 DEF ReportInv, ReportTypeOK
<1>2. \A q \in Requests : task'[q] = "none" <=> task[q] = "none"
  BY DEF ReportInv, ReportTypeOK
<1>3. Progress' /\ AnswersAreTrue'
  BY <1>2 DEF ReportInv, Progress, AnswersAreTrue
<1> QED BY <1>1, <1>3 DEF ReportInv

LEMMA StepInv == ReportInv /\ [ReportNext]_reportVars => ReportInv'
<1> SUFFICES ASSUME ReportInv, [ReportNext]_reportVars PROVE ReportInv'
  OBVIOUS
<1>1. CASE UNCHANGED reportVars
  BY <1>1 DEF reportVars, ReportInv, ReportTypeOK, Progress, AnswersAreTrue
<1>2. CASE ReportNext
  BY <1>1, <1>2, HandleMove, HandleEarly, HandleSinks, HandleEnd, DispatchKeeps DEF ReportNext, Handle, AllEnded
<1> QED BY <1>1, <1>2

(* Every reachable state of the endpoint and the dispatcher is well formed. *)
THEOREM ReportsTypeCorrect == ReportSpec => []ReportTypeOK
<1>1. ReportInv => ReportTypeOK
  BY DEF ReportInv
<1> QED BY <1>1, ReportInitInv, StepInv, PTL DEF ReportSpec

(* A 204 is sent only for a report that every sink has stored and whose    *)
(* event is under way, a 400 only for one nobody hears of                  *)
(* (CspReportMiddleware, lines 71-107).                                    *)
THEOREM AnswersTellTheTruth == ReportSpec => []AnswersAreTrue
<1>1. ReportInv => AnswersAreTrue
  BY DEF ReportInv
<1> QED BY <1>1, ReportInitInv, StepInv, PTL DEF ReportSpec

-----------------------------------------------------------------------------
(* The counters *)

Acknowledged == {r \in Requests : response[r] = 204}

CountInv == CountersReconcile /\ IsFiniteSet(Failures)

LEMMA OneMore ==
  ASSUME NEW S, IsFiniteSet(S), NEW x, x \notin S
  PROVE  IsFiniteSet(S \cup {x}) /\ Cardinality(S \cup {x}) = Cardinality(S) + 1
BY FS_AddElement

(* Only Acknowledge sends a 204. *)
LEMMA CountAcknowledged ==
  ASSUME ReportInv, NEW r \in Requests, Acknowledge(r), CountInv
  PROVE  CountInv'
<1>1. Acknowledged' = Acknowledged \cup {r} /\ r \notin Acknowledged
  <2>1. response[r] # 204
    BY DEF ReportInv, Progress, Acknowledge, NoResponse
  <2>2. \A q \in Requests : response'[q] = 204 <=> response[q] = 204 \/ q = r
    BY DEF ReportInv, ReportTypeOK, Acknowledge, Answer
  <2> QED BY <2>1, <2>2 DEF Acknowledged
<1>2. IsFiniteSet(Acknowledged)
  BY CountsAssumption, FS_Subset DEF Acknowledged
<1>3. Cardinality(Acknowledged') = Cardinality(Acknowledged) + 1
  BY <1>1, <1>2, OneMore
<1>4. Failures' = Failures /\ sinkFailures' = sinkFailures
  BY DEF Acknowledge, emission, Failures, FailuresOf
<1> QED BY <1>3, <1>4 DEF Acknowledge, CountInv, CountersReconcile, Acknowledged

(* Concluding one sink adds a failure exactly if it failed. *)
LEMMA FailuresAfter ==
  ASSUME ReportInv, NEW r \in Requests, NEW result \in Results, Concludes(r, result)
  PROVE  /\ Failures' = Failures \cup
              (IF result = "failed" THEN {<<r, Len(results[r]) + 1>>} ELSE {})
         /\ <<r, Len(results[r]) + 1>> \notin Failures
<1> DEFINE n == Len(results[r])
<1>1. \A q \in Requests : results[q] \in Seq(Results)
  BY DEF ReportInv, ReportTypeOK
<1>2. n \in Nat /\ DOMAIN results[r] = 1 .. n
  BY <1>1
<1>3. \A q \in Requests \ {r} : results'[q] = results[q]
  BY DEF ReportInv, ReportTypeOK, Concludes
<1>4. results'[r] = Append(results[r], result)
  BY DEF ReportInv, ReportTypeOK, Concludes
<1>5. DOMAIN results'[r] = 1 .. n + 1 /\ results'[r][n + 1] = result
  BY <1>1, <1>2, <1>4
<1>6. \A k \in 1 .. n : results'[r][k] = results[r][k]
  BY <1>1, <1>2, <1>4
<1>7. FailuresOf(r)' = FailuresOf(r) \cup (IF result = "failed" THEN {n + 1} ELSE {})
  BY <1>2, <1>5, <1>6 DEF FailuresOf
<1>8. \A q \in Requests \ {r} : FailuresOf(q)' = FailuresOf(q)
  BY <1>3 DEF FailuresOf
<1>9. n + 1 \notin FailuresOf(r)
  BY <1>2 DEF FailuresOf
<1>10. \A q, k : <<q, k>> \in Failures <=> q \in Requests /\ k \in FailuresOf(q)
  BY DEF Failures
<1>11. \A q, k : <<q, k>> \in Failures' <=> q \in Requests /\ k \in FailuresOf(q)'
  BY DEF Failures
<1>12. \A x \in Failures \cup Failures' : \E q, k : x = <<q, k>>
  BY DEF Failures
<1> HIDE DEF n
<1> QED BY <1>7, <1>8, <1>9, <1>10, <1>11, <1>12 DEF n

LEMMA CountDispatched ==
  ASSUME ReportInv, NEW r \in Requests, Dispatch(r), CountInv
  PROVE  CountInv'
<1>1. CASE SinkReceives(r)
  <2>1. Failures' = Failures
    BY <1>1, FailuresAfter DEF SinkReceives, Results
  <2> QED BY <1>1, <2>1 DEF SinkReceives, Concludes, CountInv, CountersReconcile
<1>2. CASE SinkFails(r)
  <2>1. /\ Failures' = Failures \cup {<<r, Len(results[r]) + 1>>}
        /\ <<r, Len(results[r]) + 1>> \notin Failures
    BY <1>2, FailuresAfter DEF SinkFails, Results
  <2>2. IsFiniteSet(Failures') /\ Cardinality(Failures') = Cardinality(Failures) + 1
    BY <2>1, OneMore DEF CountInv
  <2> QED BY <1>2, <2>2 DEF SinkFails, Concludes, CountInv, CountersReconcile
<1>3. CASE SinkPends(r) \/ EmitEnds(r)
  <2>1. Failures' = Failures
    BY <1>3 DEF SinkPends, EmitEnds, Failures, FailuresOf
  <2> QED BY <1>3, <2>1 DEF SinkPends, EmitEnds, CountInv, CountersReconcile
<1> QED BY <1>1, <1>2, <1>3 DEF Dispatch

LEMMA CountElsewhere ==
  ASSUME ReportInv, NEW r \in Requests, CountInv,
         Arrive(r) \/ Disconnect(r) \/ PassOn(r) \/ Reject(r) \/ ParseThrows(r) \/ Accept(r)
           \/ SinkWrites(r) \/ SinkThrows(r) \/ Emit(r)
  PROVE  CountInv'
<1> USE DEF Arrive, Disconnect, PassOn, Reject, ParseThrows, Accept, SinkWrites, SinkThrows,
            Emit, Answer, Goto, emission
<1>1. Failures' = Failures /\ sinkFailures' = sinkFailures /\ cspViolations' = cspViolations
  BY DEF Failures, FailuresOf
<1>2. \A q \in Requests : response'[q] = 204 <=> response[q] = 204
  BY DEF ReportInv, ReportTypeOK, Progress, NoResponse, Labels
<1>3. Acknowledged' = Acknowledged
  BY <1>2 DEF Acknowledged
<1> QED BY <1>1, <1>3 DEF CountInv, CountersReconcile, Acknowledged

(* At every moment the violations counted are the reports acknowledged and *)
(* the failures counted those that happened (SecurityEventDispatcher line  *)
(* 67, CspReportMiddleware line 105).                                      *)
THEOREM CountersAreExact == ReportSpec => []CountersReconcile
<1>1. ReportInit => CountInv
  <2>1. ASSUME ReportInit PROVE Failures = {} /\ Acknowledged = {}
    BY <2>1 DEF ReportInit, Failures, FailuresOf, Acknowledged, NoResponse
  <2> QED BY <2>1, FS_EmptySet DEF ReportInit, CountInv, CountersReconcile, Acknowledged
<1>2. ReportInv /\ CountInv /\ [ReportNext]_reportVars => CountInv'
  <2> SUFFICES ASSUME ReportInv, CountInv, [ReportNext]_reportVars PROVE CountInv'
    OBVIOUS
  <2>1. CASE UNCHANGED reportVars
    BY <2>1 DEF reportVars, CountInv, CountersReconcile, Failures, FailuresOf
  <2>2. CASE ReportNext
    BY <2>1, <2>2, CountAcknowledged, CountDispatched, CountElsewhere
    DEF ReportNext, Handle, AllEnded
  <2> QED BY <2>1, <2>2
<1>3. CountInv => CountersReconcile
  BY DEF CountInv
<1> QED BY <1>1, <1>2, <1>3, ReportInitInv, StepInv, PTL DEF ReportSpec
=============================================================================
