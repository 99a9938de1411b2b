---------------------------- MODULE PathPolicies ----------------------------
(***************************************************************************)
(* How an application configures SafeWebCore and which policy a path then  *)
(* gets: the Configure callbacks edit one NetSecureHeadersOptions object   *)
(* and declare path policies in any order, the validator accepts or        *)
(* refuses the result at start, and PathPolicyResolver sorts and matches.  *)
(* The middleware and the diagnostics service each build from the same     *)
(* accepted options, which nothing changes afterwards.                     *)
(*                                                                         *)
(* A path prefix is a leading slash or none, and a text.  String functions *)
(* are constants: Length counts characters, Folded ignores case, Covers    *)
(* says which folded texts a path starts with, segment by segment.  A      *)
(* collection is a reference into lists, so that two options objects may   *)
(* share one; AdditionalHeaders stands for all four collections.           *)
(***************************************************************************)
EXTENDS Naturals, Sequences

CONSTANTS
  Texts, Blank, Length, Folded,   \* the texts of prefixes; Blank is no text
  Paths, Covers,                  \* request paths and the prefixes they have
  KnownPrefixes,                  \* the prefixes the application may spell
  Values,                         \* values of a header setting
  Items, OwnedItems,              \* additional headers; those naming a library header
  Presets, Defaults,              \* the options of SecurePresets and of the constructor
  Customizations,                 \* what a customize callback may do
  MaxLists                        \* bound: collections ever created

Scalars == {"enableCsp", "useCspReportOnly", "value"}

Prefix == [slash: BOOLEAN, text: Texts]

(* The scalars of an options object, and the reference to its collection.  *)
Options == [enableCsp: BOOLEAN, useCspReportOnly: BOOLEAN, value: Values,
            additional: 1 .. MaxLists]

(* Presets and defaults: options by value. *)
OptionValues == [enableCsp: BOOLEAN, useCspReportOnly: BOOLEAN, value: Values,
                 items: SUBSET Items]

Customization == [own: SUBSET Scalars, enableCsp: BOOLEAN,
                  useCspReportOnly: BOOLEAN, value: Values, adds: SUBSET Items]

ASSUME PathAssumption ==
  /\ Length \in [Texts -> Nat]
  /\ Folded \in [Texts -> Texts]
  /\ Covers \in [Paths -> SUBSET Texts]
  /\ \A t \in Texts : Length[Folded[t]] = Length[t]
  /\ \A path \in Paths : \A t, u \in Covers[path] : Length[t] = Length[u] => t = u
  /\ Blank \in Texts
  /\ KnownPrefixes \subseteq Prefix
  /\ OwnedItems \subseteq Items
  /\ Presets \subseteq OptionValues
  /\ Defaults \in OptionValues
  /\ Customizations \subseteq Customization
  /\ MaxLists \in Nat \ {0}

VARIABLES
  phase,       \* "configuring", then "running" or "refused"
  production,  \* IHostEnvironment.IsProduction()
  global,      \* the NetSecureHeadersOptions object
  policies,    \* its PathPolicies
  lists        \* the collections, by reference

configVars == <<phase, production, global, policies, lists>>

(* How a policy got its options, kept for the properties: by PathPolicy or *)
(* by ApplyPreset(global) as the documentation shows, both with the set of *)
(* settings its callback assigned, or as a new object, which assigns all.  *)
Origins == {"PathPolicy", "ApplyPreset", "new"}
PathPolicyOptions ==
  [prefix: Prefix, options: Options, origin: Origins, own: SUBSET Scalars]

-----------------------------------------------------------------------------
(* Normalisation and matching: PathPolicyResolver and the validator *)

IsBlank(prefix) == ~prefix.slash /\ prefix.text = Blank

NormalizePathPrefix(prefix) == [prefix EXCEPT !.slash = TRUE]

(* OrdinalIgnoreCase on normalised prefixes. *)
SamePrefix(p, q) ==
  LET a == NormalizePathPrefix(p)
      b == NormalizePathPrefix(q)
  IN  a.slash = b.slash /\ Folded[a.text] = Folded[b.text]

Matches(path, policy) == Folded[policy.prefix.text] \in Covers[path]

PrefixLength(policy) == 1 + Length[policy.prefix.text]

(* Mutant of LongestFirst: ascending. *)
ShortestFirst(order) ==
  \A i, j \in DOMAIN order : i < j =>
    PrefixLength(policies[order[i]]) <= PrefixLength(policies[order[j]])

LongestFirst(order) ==
  \A i, j \in DOMAIN order : i < j =>
    PrefixLength(policies[order[i]]) >= PrefixLength(policies[order[j]])

Kept == {k \in DOMAIN policies : ~IsBlank(policies[k].prefix)}

(* Build: the policies with a prefix, longest first.  List.Sort is not     *)
(* stable, so equal lengths may come in any order.                         *)
Builds ==
  {order \in UNION {[1 .. n -> Kept] : n \in 0 .. Len(policies)} :
     /\ \A k \in Kept : \E i \in DOMAIN order : order[i] = k
     /\ \A i, j \in DOMAIN order : order[i] = order[j] => i = j
     /\ LongestFirst(order)}

Hits(order, path) == {i \in DOMAIN order : Matches(path, policies[order[i]])}

(* Resolve: the first match, 0 for the default policy. *)
Resolve(order, path) ==
  LET hits == Hits(order, path)
  IN  IF hits = {} THEN 0
      ELSE order[CHOOSE i \in hits : \A j \in hits : i <= j]

-----------------------------------------------------------------------------
(* NetSecureHeadersOptions *)

NewList == Len(lists) + 1

(* An options object with the given values and a collection of its own.    *)
NewOptions(v) ==
  [enableCsp |-> v.enableCsp, useCspReportOnly |-> v.useCspReportOnly,
   value |-> v.value, additional |-> NewList]

(* Mutant of Clone: the collections are assigned by reference. *)
CloneByReference == global

(* Clone and ApplyPreset(global): every scalar, and a copy of each         *)
(* collection.                                                             *)
Clone == [global EXCEPT !.additional = NewList]

Customized(o, c) ==
  [o EXCEPT
     !.enableCsp = IF "enableCsp" \in c.own THEN c.enableCsp ELSE @,
     !.useCspReportOnly = IF "useCspReportOnly" \in c.own THEN c.useCspReportOnly ELSE @,
     !.value = IF "value" \in c.own THEN c.value ELSE @]

(* What an options object says, its collection looked up. *)
Effective(o, ls) ==
  [enableCsp |-> o.enableCsp, useCspReportOnly |-> o.useCspReportOnly,
   value |-> o.value, items |-> ls[o.additional]]

-----------------------------------------------------------------------------
ConfigInit ==
  /\ phase = "configuring"
  /\ production \in BOOLEAN
  /\ lists = <<Defaults.items>>
  /\ global = [enableCsp |-> Defaults.enableCsp, value |-> Defaults.value,
               useCspReportOnly |-> Defaults.useCspReportOnly, additional |-> 1]
  /\ policies = <<>>

(* A callback, or configuration binding, assigns a setting. *)
SetGlobal(c) ==
  /\ phase = "configuring"
  /\ global' = Customized(global, c)
  /\ lists' = [lists EXCEPT ![global.additional] = @ \cup c.adds]
  /\ UNCHANGED <<phase, production, policies>>

(* opts.ApplyPreset(SecurePresets.X()), which also takes the preset's path *)
(* policies, and a preset has none.                                        *)
ApplyPreset(preset) ==
  /\ phase = "configuring"
  /\ NewList <= MaxLists
  /\ lists' = Append(lists, preset.items)
  /\ global' = NewOptions(preset)
  /\ policies' = <<>>
  /\ UNCHANGED <<phase, production>>

(* The ...ForEnvironment registrations. *)
ApplyEnvironmentRolloutDefaults ==
  /\ phase = "configuring"
  /\ ~production
  /\ global.enableCsp
  /\ global' = [global EXCEPT !.useCspReportOnly = TRUE]
  /\ UNCHANGED <<phase, production, policies, lists>>

Declare(prefix, o, origin, own) ==
  policies' = Append(policies, [prefix |-> prefix, options |-> o,
                                origin |-> origin, own |-> own])

(* The copy's collection, then what the callback adds to it. *)
Customize(o, c) ==
  lists' = [Append(lists, lists[global.additional])
              EXCEPT ![o.additional] = @ \cup c.adds]

(* A copy of the global options, edited, becomes a policy. *)
DeclareCopy(prefix, c, origin) ==
  /\ phase = "configuring"
  /\ NewList <= MaxLists
  /\ Customize(Clone, c)
  /\ Declare(prefix, Customized(Clone, c), origin, c.own)
  /\ UNCHANGED <<phase, production, global>>

(* PathPolicy(prefix, customize); it throws on a blank prefix. *)
PathPolicy(prefix, c) == ~IsBlank(prefix) /\ DeclareCopy(prefix, c, "PathPolicy")

(* A new object, ApplyPreset(global) on it, edits, and PathPolicies.Add.   *)
InheritByHand(prefix, c) == DeclareCopy(prefix, c, "ApplyPreset")

(* PathPolicies.Add with a new object: the defaults, then edits. *)
AddByHand(prefix, c) ==
  /\ phase = "configuring"
  /\ NewList <= MaxLists
  /\ lists' = Append(lists, Defaults.items \cup c.adds)
  /\ Declare(prefix, Customized(NewOptions(Defaults), c), "new", Scalars)
  /\ UNCHANGED <<phase, production, global>>

(* ValidatePolicy, as far as the middleware relies on it. *)
ValidPolicy(o) ==
  /\ ~o.enableCsp => ~o.useCspReportOnly
  /\ lists[o.additional] \cap OwnedItems = {}

Valid ==
  /\ ValidPolicy(global)
  /\ \A k \in DOMAIN policies :
       ~IsBlank(policies[k].prefix) /\ ValidPolicy(policies[k].options)
  /\ \A k, l \in DOMAIN policies :
       SamePrefix(policies[k].prefix, policies[l].prefix) => k = l

(* ValidateOnStart: the host starts or refuses to. *)
Start ==
  /\ phase = "configuring"
  /\ phase' = IF Valid THEN "running" ELSE "refused"
  /\ UNCHANGED <<production, global, policies, lists>>

(* Requests and previews read what was accepted. *)
Serve == phase # "configuring" /\ UNCHANGED configVars

ConfigNext ==
  \/ \E c \in Customizations : SetGlobal(c)
  \/ \E preset \in Presets : ApplyPreset(preset)
  \/ ApplyEnvironmentRolloutDefaults
  \/ \E prefix \in KnownPrefixes, c \in Customizations :
       PathPolicy(prefix, c) \/ InheritByHand(prefix, c) \/ AddByHand(prefix, c)
  \/ Start \/ Serve

ConfigSpec == ConfigInit /\ [][ConfigNext]_configVars

-----------------------------------------------------------------------------
ConfigTypeOK ==
  /\ phase \in {"configuring", "running", "refused"}
  /\ production \in BOOLEAN
  /\ lists \in Seq(SUBSET Items)
  /\ Len(lists) \in 1 .. MaxLists
  /\ global \in Options
  /\ global.additional \in 1 .. Len(lists)
  /\ policies \in Seq(PathPolicyOptions)
  /\ \A k \in DOMAIN policies : policies[k].options.additional \in 1 .. Len(lists)
  /\ \A k \in DOMAIN policies :
       policies[k].origin = "PathPolicy" => ~IsBlank(policies[k].prefix)

(* In a host that runs, the unstable sort does not show: whichever order   *)
(* it leaves equal lengths in, every path resolves to the same policy, so  *)
(* the middleware and the preview cannot differ (PathPolicyResolver, lines *)
(* 26-31 and 67).                                                          *)
ResolutionUnique ==
  phase = "running" =>
    \A path \in Paths : \A a, b \in Builds : Resolve(a, path) = Resolve(b, path)

(* Longest prefix wins: the policy of a path is one of its own, no other   *)
(* policy of the path has a prefix as long, and the default is for paths   *)
(* without any.                                                            *)
LongestPrefixWins ==
  phase = "running" =>
    \A path \in Paths : \A order \in Builds :
      LET own == {k \in DOMAIN policies : Matches(path, policies[k])}
          r == Resolve(order, path)
      IN  IF own = {} THEN r = 0
          ELSE /\ r \in own
               /\ \A k \in own \ {r} : PrefixLength(policies[k]) < PrefixLength(policies[r])

(* Whatever a path resolves to, the middleware may rely on: no report-only *)
(* mode without a CSP, and no additional header that overwrites one of the *)
(* library (the assumption of HeaderPipeline).                             *)
ResolvedIsSound ==
  phase = "running" =>
    \A path \in Paths : \A order \in Builds :
      LET r == Resolve(order, path)
          o == IF r = 0 THEN global ELSE policies[r].options
      IN  /\ o.useCspReportOnly => o.enableCsp
          /\ lists[o.additional] \cap OwnedItems = {}

(* Policies are independent: a declared one is not changed by what is      *)
(* configured later, and declaring one changes neither the global options  *)
(* nor another policy, also through their collections (Clone).             *)
PoliciesIndependent ==
  [][/\ \A k \in DOMAIN policies \cap DOMAIN policies' :
          Effective(policies'[k].options, lists') = Effective(policies[k].options, lists)
     /\ Len(policies') > Len(policies) =>
          Effective(global', lists') = Effective(global, lists)]_configVars

(* What keeps that going: no two options objects share a collection.       *)
NothingShared ==
  /\ \A k \in DOMAIN policies : policies[k].options.additional # global.additional
  /\ \A k, l \in DOMAIN policies :
       policies[k].options.additional = policies[l].options.additional => k = l
=============================================================================
