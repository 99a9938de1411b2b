---------------------------- MODULE MCBmadInstall ----------------------------
(* A hub, a module of two skills and a second record of that module's code, *)
(* for BmadInstall.                                                         *)
EXTENDS BmadInstall, TLC

MCRank == "alpha" :> 1 @@ "bmad" :> 2 @@ "bmod-m" :> 3 @@ "omega" :> 4 @@ "zeta" :> 5
MCFold == "core" :> "core" @@ "m" :> "m" @@ "M" :> "m"

V(core, pre) == [core |-> core, pre |-> pre]
Requires(skill, version) == [skill |-> skill, version |-> version, source |-> "github"]
Asks(scope) == <<"m", scope>>

\* Documents: one page with no entry; a topic some skills read, by a dotted path; a
\* record that names help.md, one page no more, and a topic twice; and what only
\* knowledge.py puts up with.
Entry(page, way, skills) == [path |-> [page |-> page, way |-> way], skills |-> skills]
Docs(knowledge, pages, migrations) ==
  [knowledge |-> knowledge, pages |-> pages, migrations |-> migrations]
Move(module, complete) == [readable |-> TRUE, table |-> [module |-> module, complete |-> complete]]
Plain == Docs(<<>>, "help" :> "text", [f \in {} |-> None])
Some ==
  Docs(<<Entry("topic", "dotted", <<"alpha">>)>>, "help" :> "text" @@ "topic" :> "text" @@ "more" :> "text",
       "v2.toml" :> Move("m", TRUE) @@ "v3.toml" :> Move("other", TRUE))
Stale ==
  Docs(<<Entry("help", "dotted", "*"), Entry("topic", "plain", <<>>), Entry("extra", "plain", "*")>>,
       "help" :> "text" @@ "topic" :> "binary" @@ "extra" :> "text",
       "v2.toml" :> Move("m", FALSE) @@ "v3.toml" :> [readable |-> FALSE, table |-> None])
Loose ==
  {Docs(<<Entry("topic", "plain", "*"), Entry("topic", "dotted", "*"), Entry("extra", "unsafe", "*"),
          [path |-> None, skills |-> "*"], Entry("extra", "plain", Odd),
          Entry("extra", "plain", <<"alpha", "alpha">>)>>,
        "help" :> "binary" @@ "topic" :> "text" @@ "extra" :> "text",
        "v2.toml" :> [readable |-> TRUE, table |-> Odd] @@ "v3.toml" :> [readable |-> TRUE, table |-> None]),
   [Plain EXCEPT !.knowledge = Odd]}

RecordFile(code, version, source, skills, questions, required) ==
  [bmod |-> [code |-> code, version |-> version, source |-> source, skills |-> skills,
             questions |-> questions, required |-> required, docs |-> Plain],
   skill |-> None, strict |-> TRUE]
Carrying(file, docs) == [file EXCEPT !.bmod.docs = docs]
SkillFile(source, scripts, required) ==
  [bmod |-> None, strict |-> TRUE,
   skill |-> [bmod |-> "bmod-m", source |-> source, scripts |-> scripts, required |-> required]]
HubFile(version) ==
  [RecordFile("core", version, "github", None, {}, {}) EXCEPT
     !.skill = [bmod |-> None, source |-> None, scripts |-> {}, required |-> {}]]

Script(version) == <<"run.py", version>>

\* The first release; the hub's next with a module that wants the release of it;
\* a release with another question whose two skills share a script.
First ==
  "bmad" :> HubFile(V(1, None))
    @@ "bmod-m" :> RecordFile("m", V(1, None), "github", {"alpha", "omega"}, {Asks("team")}, {})
    @@ "alpha" :> SkillFile("github", {Script(1)}, {})
    @@ "omega" :> SkillFile("github", {<<"more.py", 1>>}, {}) @@ "zeta" :> Absent
Coming ==
  [First EXCEPT
     !["bmad"] = HubFile(V(2, NextPre)),
     !["bmod-m"] = Carrying(RecordFile("m", V(2, 1), "github", {"alpha", "omega"}, {Asks("team")},
                                      {Requires("bmad", V(2, None))}), Some),
     !["alpha"] = SkillFile("github", {Script(2)}, {Requires("omega", V(2, 1))})]
Second ==
  [Coming EXCEPT
     !["bmad"] = HubFile(V(2, None)),
     !["bmod-m"] = Carrying(RecordFile("m", V(2, None), "github", {"alpha", "omega"},
                                      {Asks("team"), Asks("user")}, {}), Stale),
     !["alpha"] = SkillFile("github", {Script(2)}, {Requires("omega", None), Requires("bmad", V(2, 3))}),
     !["omega"] = SkillFile("github", {Script(2), <<"more.py", 2>>}, {})]

\* Asks for what nobody serves; two skills that place different scripts.
Short == [First EXCEPT !["alpha"] = SkillFile("github", {Script(1)}, {Requires("bmad", V(2, None))})]
Clash == [Second EXCEPT !["omega"] = SkillFile("github", {Script(1)}, {})]
MCCatalogs == {First, Coming, Second, Short, Clash}

MCScripts == {"run.py", "more.py"} \X {1, 2}

Only(folders, files) == [f \in Folders |-> IF f \in folders THEN files[f] ELSE Absent]

\* The hub alone; a skill without its record; all of the first release, one skill
\* of it from before module records, unlisted, or of a plugin with a version of its
\* own, or a record that asks for a later version of itself; with a second record of the code, in either case, or a file setup or nobody
\* can use, for its `knowledge` too.
Unlisted == RecordFile("m", V(1, None), "plugin", {"alpha"}, {Asks("team")}, {})
Other == RecordFile("m", V(9, None), "github", {}, {Asks("user")}, {})
MCStarts ==
  {Only({"bmad"}, First), Only({"bmad", "alpha"}, Coming), First,
   [Coming EXCEPT !["omega"] = NoFile], [First EXCEPT !["bmod-m"] = Unlisted],
   [First EXCEPT !["bmod-m"].bmod.version = Odd, !["omega"] = BadFile],
   [First EXCEPT !["bmod-m"].bmod.required = {Requires("bmod-m", V(2, None))}],
   [First EXCEPT !["zeta"] = Other], [First EXCEPT !["zeta"] = [Other EXCEPT !.bmod.code = "M"]],
   [First EXCEPT !["bmod-m"].strict = FALSE, !["zeta"] = Other]}
    \cup {[First EXCEPT !["bmod-m"].bmod.docs = d, !["zeta"] = Other] : d \in Loose}
=============================================================================
