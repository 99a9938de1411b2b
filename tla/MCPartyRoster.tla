---------------------------- MODULE MCPartyRoster ----------------------------
(* Two modules with a pm each, guests, and the personas of a user, for      *)
(* PartyRoster.                                                             *)
EXTENDS PartyRoster, TLC

P(code, name, skill) == [code |-> code, name |-> name, skill |-> skill]
Of(code, name) == P(code, name, Nothing)
Group(id, words) == [id |-> id, members |-> words]

MCLower ==
  [w \in {"bmad-agent-pm", "gds-agent-pm", "bmad-cis-agent-sage", "cis-agent-sage", "pm", "sage", "rex", "bob",
          "eve", "nobody", "pm-skill", "gds-skill"} |-> w] @@ ("Bob" :> "bob") @@ ("PM" :> "pm")
MCWords == DOMAIN MCLower
MCPartyAlias == [c \in MCWords |->
  CASE c \in {"bmad-agent-pm", "gds-agent-pm"} -> "pm"
    [] c \in {"bmad-cis-agent-sage", "cis-agent-sage"} -> "sage" [] OTHER -> c]
MCForgeAlias ==
  [c \in MCWords |->
     CASE c = "bmad-agent-pm" -> "pm" [] c = "bmad-cis-agent-sage" -> "cis-agent-sage" [] OTHER -> c]

\* The same code in two rosters, an agent named as another's alias or code, and a
\* member without a code.
Bmad == << P("bmad-agent-pm", "Bob", "pm-skill"), Of("bmad-cis-agent-sage", "eve") >>
Gds(name) == << P("gds-agent-pm", name, "gds-skill"), P("bmad-cis-agent-sage", "sage", "gds-skill"), Of(Nothing, "eve") >>
Rosters == {Bmad, Bmad \o Gds("rex"), Gds("pm") \o Bmad, Gds("bmad-agent-pm") \o Bmad}
Skills == {{}, {"pm-skill"}, {"pm-skill", "gds-skill"}}
Identities == {[s \in MCWords |-> Nothing], [s \in MCWords |-> IF s = "pm-skill" THEN "eve" ELSE Nothing]}

\* An agent of an older install, one of the user's, a field of a guest; two agents
\* whose codes differ in case only.
Central ==
  {<< <<>>, <<>>, <<>> >>, << <<>>, <<Of("pm", "Bob")>>, <<Of("PM", Nothing)>> >>,
   << <<Of("gds-agent-pm", "rex"), Of("pm", Nothing)>>, <<Of("pm", "Bob"), Of("bmad-cis-agent-sage", Nothing)>>, <<>> >>}

\* What party mode ships, the team adds and the user changes: by code, by alias, by
\* name, in another case, renamed to another's name, without a code.
Customs3 ==
  {<< <<>>, <<>>, <<>> >>,
   << <<Of("rex", "rex")>>, <<Of("PM", "eve")>>, <<Of("PM", Nothing), Of("sage", "Bob")>> >>,
   << <<Of("rex", "rex")>>, <<Of("pm", Nothing), Of("bmad-agent-pm", "sage")>>, <<Of("rex", "bob"), Of("pm", "pm")>> >>,
   << <<Of("nobody", Nothing)>>, <<Of("PM", "rex")>>, <<Of("eve", "sage")>> >>,
   << <<>>, <<Of("bob", "rex"), Of("rex", Nothing)>>, <<Of(Nothing, "eve"), Of("bob", "bmad-cis-agent-sage")>> >>}

RosterRooms == <<Group("council", {"bmad-agent-pm", "sage"}), Group("council", {"pm"}), Group("duo", {"eve", "pm"})>>
CustomRooms == {{}, {Group("duo", {"Bob", "rex", "nobody", "cis-agent-sage"}), Group("mine", {"gds-agent-pm", "bob"})}}

MCWorlds ==
  [rosters : Rosters, skills : Skills, identity : Identities, central : Central, ran : BOOLEAN,
   customs : Customs3, found : BOOLEAN, groups : {RosterRooms}, customGroups : CustomRooms]
=============================================================================
