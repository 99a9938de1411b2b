----------------------------- MODULE RenderPlan ------------------------------
(***************************************************************************)
(* What one run of render_skill.py decides before it touches the disk: the *)
(* values its templates reach, whether it halts, the key of the generation *)
(* and the sources that make it up.  A template is what a render can tell  *)
(* of it: the value that switches it off, the values and the sources it    *)
(* names.  A reference is <<"path", config path>>, <<"short", last part of *)
(* a config path>> or <<"custom", customization key>>.                     *)
(*                                                                         *)
(* An input is [central, layers, supplied]: the merged central values, the *)
(* values each persistent layer sets, and those of this invocation.        *)
(***************************************************************************)
CONSTANTS
  Sources,      \* the Markdown sources, the entry among them
  Entry,        \* workflow.md
  Switch,       \* [Sources -> the reference that can switch it off, or Nothing]
  Names,        \* [Sources -> the references its body reads]
  Links,        \* [Sources -> the sources its body calls rendered() on]
  ShortName,    \* [config paths -> the last part]
  Defaults,     \* [customization keys the skill declares -> the shipped value]
  Nothing       \* no value

ASSUME KindsOfReferences ==
  \A s \in Sources : \A ref \in Names[s] \cup ({Switch[s]} \ {Nothing}) :
    ref[1] \in {"path", "short", "custom"}

Off == "off"          \* the value that switches a source off
WrongType == "wrong"  \* a value of another shape than the shipped one

Declares(keys) == keys \subseteq DOMAIN Defaults

\* The invocation wins over the user's layer, that over the team's, that over
\* what the skill ships.
Customized(in, k) ==
  CASE k \in DOMAIN in.supplied -> in.supplied[k]
    [] k \notin DOMAIN in.supplied /\ k \in DOMAIN in.layers.user -> in.layers.user[k]
    [] k \notin DOMAIN in.supplied \cup DOMAIN in.layers.user /\ k \in DOMAIN in.layers.team
         -> in.layers.team[k]
    [] OTHER -> Defaults[k]

Found(in, paths) == {p \in paths \cap DOMAIN in.central : in.central[p] # Nothing}

\* The config paths a reference can mean; a name that is a whole path is that path.
Meant(in, ref) ==
  CASE ref[1] = "path" -> Found(in, {ref[2]})
    [] ref[1] = "short" -> IF Found(in, {ref[2]}) # {} THEN {ref[2]}
                           ELSE Found(in, {p \in DOMAIN ShortName : ShortName[p] = ref[2]})
    [] OTHER -> {ref[2]} \cap DOMAIN Defaults

\* Missing, ambiguous and mistyped values halt.
Good(in, ref) ==
  /\ \E p \in Meant(in, ref) : Meant(in, ref) = {p}
  /\ ref[1] = "custom" => Customized(in, ref[2]) # WrongType

Value(in, ref) ==
  IF ref[1] = "custom" THEN Customized(in, ref[2])
  ELSE in.central[CHOOSE p \in Meant(in, ref) : TRUE]

Omitted(in, s) == Switch[s] # Nothing /\ Value(in, Switch[s]) = Off

\* Mutant: what only decides that a source is left out is not an input.
ReachedByBodies(in) == UNION {Names[s] : s \in {x \in Sources : ~Omitted(in, x)}}

\* What a pass over the sources reads: every switch, and the bodies not left out.
Reached(in) ==
  ({Switch[s] : s \in Sources} \ {Nothing})
    \cup UNION {Names[s] : s \in {x \in Sources : ~Omitted(in, x)}}

Rendered(in) == {s \in Sources : ~Omitted(in, s)}

Halts(in) ==
  \/ ~Declares(DOMAIN in.layers.team \cup DOMAIN in.layers.user \cup DOMAIN in.supplied)
  \/ \E s \in Sources : Switch[s] # Nothing /\ ~Good(in, Switch[s])
  \/ \E s \in Rendered(in) : \E ref \in Names[s] : ~Good(in, ref)
  \/ Entry \notin Rendered(in)
  \/ \E s \in Rendered(in) : ~(Links[s] \subseteq Rendered(in))
  \/ \E k \in DOMAIN in.supplied : <<"custom", k>> \notin Reached(in)

\* The generation is named by the values reached, a config value by its full path.
Key(in) ==
  {IF ref[1] = "custom" THEN <<"custom", ref[2], Value(in, ref)>>
   ELSE <<"config", CHOOSE p \in Meant(in, ref) : TRUE, Value(in, ref)>> : ref \in Reached(in)}

\* What the readers of a generation get: each file, with the values in it.
Text(in) == {<<s, {<<ref, Value(in, ref)>> : ref \in Names[s]}>> : s \in Rendered(in)}
=============================================================================
