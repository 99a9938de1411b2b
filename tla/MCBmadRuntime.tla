---------------------------- MODULE MCBmadRuntime ----------------------------
(* Two modules, one of which declares no script, and a skill of three      *)
(* sources, for BmadRuntime.                                               *)
EXTENDS BmadRuntime, TLC

MCDeclared == "method" :> {"tickets.py"} @@ "tools" :> {}
MCTeamAsks == "method" :> {"bmm.artifacts"} @@ "tools" :> {}
MCUserAsks == "method" :> {} @@ "tools" :> {"tools.language"}

\* The step is left out when the customization or the invocation says so; the
\* note when it is off, and the step links to it.
MCSwitch == "workflow" :> Nothing @@ "step" :> <<"custom", "steps">> @@ "note" :> <<"custom", "steps">>
MCNames == "workflow" :> {<<"short", "artifacts">>, <<"path", "core.output">>} @@ "step" :> {} @@ "note" :> {}
MCLinks == "workflow" :> {} @@ "step" :> {"note"} @@ "note" :> {}
MCShortName == "core.output" :> "output" @@ "bmm.artifacts" :> "artifacts" @@ "tools.language" :> "language"
MCDefaults == "steps" :> "on"
MCLayerOf == "skill.toml" :> ("steps" :> "off") @@ "skill.user.toml" :> ("steps" :> "on")
MCInvocations == {NoValues, "steps" :> "on"}

\* No project yet; one whose shared scripts are stale, with a customised skill
\* and answers; a current one; one made before the questions and scripts came.
Stale ==
  [EmptyTree EXCEPT
     !.scripts = "older", !.placed = [m \in Modules |-> MCDeclared[m]],
     !.config = [k \in TeamKeys |-> "given"], !.custom = {"skill.toml"},
     !.user = [k \in UserKeys |-> "given"], !.ignore = "unprotected"]
Fresh == [Stale EXCEPT !.scripts = "payload", !.ignore = "current"]
Older == [Stale EXCEPT !.placed = [m \in Modules |-> Nothing],
                       !.config = [k \in TeamKeys |-> IF k \in TemplateKeys THEN "given" ELSE Nothing],
                       !.user = Nothing, !.ignore = "missing"]
MCStarts == {Nothing, Stale, Fresh, Older}

Symmetry == Permutations(Setups) \cup Permutations(Renders) \cup Permutations(Stamps)
=============================================================================
