--------------------------- MODULE MCPathPolicies ---------------------------
(* Instances of PathPolicies for TLC: texts and paths are sequences of     *)
(* segments, and the string functions are computed from them.              *)
EXTENDS PathPolicies, FiniteSets, SequencesExt

(* /api in two cases, a path below it, a longer name it is no segment of,  *)
(* another path of the length of /api, and no text.                        *)
SegmentTexts ==
  {<<"">>, <<"api">>, <<"API">>, <<"api", "v1">>, <<"apis">>, <<"web">>}

RequestPaths ==
  {<<"">>, <<"api">>, <<"api", "v1">>, <<"api", "v1", "">>, <<"apis">>, <<"web", "v1">>}

Width == [s \in {"", "api", "API", "v1", "apis", "web"} |->
            CASE s = "" -> 0 [] s = "v1" -> 2 [] s = "apis" -> 4 [] OTHER -> 3]

(* The characters of the segments and of the slashes between them. *)
Characters ==
  [t \in SegmentTexts |-> FoldSeq(LAMBDA s, n : n + Width[s], Len(t) - 1, t)]

LowerCase == [t \in SegmentTexts |-> IF t = <<"API">> THEN <<"api">> ELSE t]

StartsWithSegments ==
  [path \in RequestPaths |-> {t \in SegmentTexts : LowerCase[t] = t /\ IsPrefix(t, path)}]

NoText == <<"">>
Slash(t) == [slash |-> TRUE, text |-> t]
Bare(t) == [slash |-> FALSE, text |-> t]

AllPrefixes ==
  {Slash(<<"">>), Slash(<<"api">>), Bare(<<"api">>), Slash(<<"API">>),
   Slash(<<"api", "v1">>), Slash(<<"apis">>), Bare(<<"web">>), Bare(<<"">>)}

ByValue(csp, ro, value, items) ==
  [enableCsp |-> csp, useCspReportOnly |-> ro, value |-> value, items |-> items]

Library == ByValue(TRUE, FALSE, "default", {})
SecurePresets == {ByValue(TRUE, FALSE, "strict", {}), ByValue(FALSE, FALSE, "strict", {})}

Custom(own, csp, ro, value, adds) ==
  [own |-> own, enableCsp |-> csp, useCspReportOnly |-> ro, value |-> value, adds |-> adds]

(* Nothing, a value and a header, report-only, no CSP, an owned name. *)
Edits ==
  {Custom({"value"}, TRUE, FALSE, "own", {"extra"}),
   Custom({"useCspReportOnly"}, TRUE, TRUE, "own", {}),
   Custom({"enableCsp"}, FALSE, FALSE, "own", {}),
   Custom({}, TRUE, FALSE, "own", {"owned"})}
=============================================================================
