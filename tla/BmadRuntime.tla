----------------------------- MODULE BmadRuntime -----------------------------
(***************************************************************************)
(* setup.py and render_skill.py on one project's `_bmad` folder, with no   *)
(* lock.  Setup plans from what it reads, copies the whole folder to a     *)
(* staging folder, completes the copy and swaps it in by two renames;      *)
(* render publishes generations inside the folder by one rename; the user  *)
(* edits it meanwhile, and setup can be killed anywhere.                   *)
(*                                                                         *)
(* A tree is a record: the version of the shared scripts, the scripts of   *)
(* each module, the values of config.toml and of custom/, the generations  *)
(* and the unfinished ones.  Nothing stands for whatever is not there.     *)
(***************************************************************************)
EXTENDS Naturals, RenderPlan

CONSTANTS
  Setups,      \* the setup processes
  Renders,     \* the render processes
  Modules,     \* the installed modules
  Declared,    \* [Modules -> the scripts its skills declare]
  TemplateKeys,\* the keys of config.template.toml
  TeamAsks,    \* [Modules -> its team questions]
  UserAsks,    \* [Modules -> its user questions]
  CustomFiles, \* files the user keeps in custom/
  LayerOf,     \* [CustomFiles -> the customization each sets for the rendered skill]
  Invocations, \* what --set and --overrides supply
  Stamps,      \* the seconds a backup can be named after
  Starts,      \* the trees a behaviour starts from
  Given,       \* the answers those trees hold
  MaxBegun     \* bound on the setups, renders, edits and crashes together

VARIABLES
  bmad,     \* the tree at `_bmad`
  backup,   \* the trees at `_bmad.old-<second>`
  output,   \* the output folder exists
  setup,    \* what each setup holds
  staging,  \* the tree each setup stages
  render,   \* what each render holds
  begun,    \* setups, renders, edits and crashes so far
  raced,    \* history: items that changed, or were away, while a setup held
            \* older ones, and setups that planned on a tree replaced since
  torn      \* history: the keys of the renders that saw the tree replaced

vars == <<bmad, backup, output, setup, staging, render, begun, raced, torn>>

TeamKeys == TemplateKeys \cup UNION {TeamAsks[m] : m \in Modules}
UserKeys == UNION {UserAsks[m] : m \in Modules}
Items == CustomFiles \cup TeamKeys \cup UserKeys

Idle == [pc |-> "idle"]
EmptyTree ==
  [scripts |-> Nothing, placed |-> [m \in Modules |-> Nothing], config |-> Nothing,
   custom |-> Nothing, ignore |-> "missing", user |-> Nothing,
   generations |-> {}, unfinished |-> [r \in Renders |-> Nothing]]

-----------------------------------------------------------------------------
(* What setup reads and decides.                                           *)

Values(file, keys) == IF file = Nothing THEN [k \in keys |-> Nothing] ELSE file

\* Every value of the second wins, and only what it lacks is taken from the first.
FillKeep(template, existing) ==
  [k \in DOMAIN existing |-> IF existing[k] # Nothing THEN existing[k] ELSE template[k]]

Template == [k \in TeamKeys |-> IF k \in TemplateKeys THEN "template" ELSE Nothing]

Tree == IF bmad = Nothing THEN EmptyTree ELSE bmad

\* A tree with nothing of the project's or the user's in it.
Bare(t) == t.config = Nothing /\ t.custom = Nothing /\ t.user = Nothing

TeamPlan(t) == FillKeep(Template, Values(t.config, TeamKeys))

PendingTeam(scope, t) == {k \in UNION {TeamAsks[m] : m \in scope} : TeamPlan(t)[k] = Nothing}
PendingUser(scope, t) ==
  {k \in UNION {UserAsks[m] : m \in scope} : Values(t.user, UserKeys)[k] = Nothing}
Pending(scope, t) == PendingTeam(scope, t) \cup PendingUser(scope, t)

\* A question's answer is its setup's own.
Answered(file, keys, s) == [k \in DOMAIN file |-> IF k \in keys THEN s ELSE file[k]]

\* What a setup that begins on tree t has decided to write.
PlanOf(s, scope, t) ==
  [scope |-> scope,
   config |-> Answered(TeamPlan(t), PendingTeam(scope, t), s),
   user |-> IF PendingUser(scope, t) = {} THEN Nothing
            ELSE Answered(Values(t.user, UserKeys), PendingUser(scope, t), s)]

ConfigOwed(t) == t.config = Nothing \/ TeamPlan(t) # t.config
IgnoreOwed(t) == t.ignore = "missing"

Changed(scope, t) ==
  \/ t.scripts # "payload" \/ ConfigOwed(t) \/ IgnoreOwed(t) \/ t.custom = Nothing
  \/ Pending(scope, t) # {}
  \/ \E m \in scope : t.placed[m] # Declared[m]

-----------------------------------------------------------------------------
(* What setup does to its staging folder.                                  *)

\* Mutant: no folder for a module whose skills declare no script.
PlacedIfAny(placed, scope) ==
  [m \in Modules |-> IF m \in scope /\ Declared[m] # {} THEN Declared[m] ELSE placed[m]]

PlacedScripts(placed, scope) ==
  [m \in Modules |-> IF m \in scope THEN Declared[m] ELSE placed[m]]

\* Mutant: config.toml written as planned, as the user's file is.
ConfigAsPlanned(config, planned) == planned

\* A value that reached config.toml since the plan is kept.
StagedConfig(config, planned) == IF config = Nothing THEN planned ELSE FillKeep(planned, config)

Staged(t, p) ==
  [t EXCEPT
     !.scripts = "payload",
     !.config = StagedConfig(@, p.config),
     !.placed = PlacedScripts(@, p.scope),
     !.custom = IF @ = Nothing THEN {} ELSE @,
     !.ignore = IF @ = "missing" THEN "current" ELSE @,
     !.user = IF p.user = Nothing THEN @ ELSE p.user]

-----------------------------------------------------------------------------
(* The setup process.                                                      *)

At(s, pc) == setup[s].pc = pc
Holding == {"stage", "check", "in", "back"}  \* pcs with a copy not yet in place

\* The setups with a plan and no copy yet: the user file is written as planned.
Planned == {s \in Setups : At(s, "copy")}
PlannedKeys == IF Planned = {} THEN {} ELSE UserKeys

\* What a change of these items overtakes: a copy, or a planned user file.
Overtaken(items) ==
  IF \E s \in Setups : setup[s].pc \in Holding THEN items ELSE items \cap PlannedKeys

\* The caller asks for the open questions and answers them.
List(s, scope) ==
  /\ At(s, "idle") /\ begun < MaxBegun /\ begun' = begun + 1
  /\ setup' = [setup EXCEPT ![s] =
       [pc |-> "plan", scope |-> scope, asked |-> Pending(scope, Tree)]]
  /\ raced' = raced \ {s}
  /\ UNCHANGED <<bmad, backup, output, staging, render, torn>>

\* Refused unless the answers are for exactly the questions open by now.
Plan(s) ==
  /\ At(s, "plan")
  /\ LET scope == setup[s].scope
     IN setup' = [setup EXCEPT ![s] =
          IF Pending(scope, Tree) # setup[s].asked THEN Idle
          ELSE [pc |-> IF bmad = Nothing \/ Changed(scope, Tree) THEN "copy" ELSE "output",
                plan |-> PlanOf(s, scope, Tree), found |-> ~Bare(Tree), stamp |-> Nothing]]
  /\ UNCHANGED <<bmad, backup, output, staging, render, begun, raced, torn>>

\* The staging folder starts empty without a `_bmad` to copy, even when another
\* setup has only moved it away (or died then): what it held is overtaken, and so
\* is this setup.
Copy(s) ==
  /\ At(s, "copy")
  /\ staging' = [staging EXCEPT ![s] = Tree]
  /\ raced' = raced \cup
       (IF Bare(Tree)
           /\ (setup[s].found \/ \E o \in Setups \ {s} : setup[o].pc \in {"in", "back"})
        THEN Items \cup {s} ELSE {})
  /\ setup' = [setup EXCEPT ![s].pc = "stage"]
  /\ UNCHANGED <<bmad, backup, output, render, begun, torn>>

Stage(s) ==
  /\ At(s, "stage")
  /\ staging' = [staging EXCEPT ![s] = Staged(@, setup[s].plan)]
  /\ setup' = [setup EXCEPT ![s].pc = "check"]
  /\ UNCHANGED <<bmad, backup, output, render, begun, raced, torn>>

Ended(s) ==
  /\ setup' = [setup EXCEPT ![s] = Idle]
  /\ staging' = [staging EXCEPT ![s] = Nothing]

\* The old tree goes to a name made of the second; a name in use ends the run.
MoveAway(s, d) ==
  /\ At(s, "check") /\ bmad # Nothing
  /\ IF backup[d] # Nothing THEN Ended(s) /\ UNCHANGED <<bmad, backup, torn>>
     ELSE /\ backup' = [backup EXCEPT ![d] = bmad]
          /\ bmad' = Nothing
          /\ setup' = [setup EXCEPT ![s].pc = "in", ![s].stamp = d]
          /\ torn' = torn \cup {render[r].key : r \in {q \in Renders : render[q].pc = "write"}}
          /\ UNCHANGED staging
  /\ UNCHANGED <<output, render, begun, raced>>

NothingToMove(s) ==
  /\ At(s, "check") /\ bmad = Nothing
  /\ setup' = [setup EXCEPT ![s].pc = "in"]
  /\ UNCHANGED <<bmad, backup, output, staging, render, begun, raced, torn>>

\* The rename of the staging folder.
MoveIn(s) ==
  /\ At(s, "in") /\ bmad = Nothing
  /\ bmad' = staging[s]
  /\ staging' = [staging EXCEPT ![s] = Nothing]
  /\ setup' = [setup EXCEPT ![s].pc = "drop"]
  /\ raced' = raced \cup Planned \cup PlannedKeys \cup
       (IF \E o \in Setups \ {s} : setup[o].pc \in Holding THEN Items ELSE {})
  /\ UNCHANGED <<backup, output, render, begun, torn>>

\* It fails onto a folder that has something in it.
MoveInFails(s) ==
  /\ At(s, "in") /\ bmad # Nothing
  /\ IF setup[s].stamp = Nothing THEN Ended(s)
     ELSE setup' = [setup EXCEPT ![s].pc = "back"] /\ UNCHANGED staging
  /\ UNCHANGED <<bmad, backup, output, render, begun, raced, torn>>

\* The old tree returns if its place is free by now.
MoveBack(s) ==
  /\ At(s, "back")
  /\ IF bmad # Nothing THEN UNCHANGED <<bmad, backup, raced>>
     ELSE /\ bmad' = backup[setup[s].stamp]
          /\ backup' = [backup EXCEPT ![setup[s].stamp] = Nothing]
          /\ raced' = raced \cup Planned \cup PlannedKeys
  /\ Ended(s)
  /\ UNCHANGED <<output, render, begun, torn>>

DropBackup(s) ==
  /\ At(s, "drop")
  /\ backup' = [d \in Stamps |-> IF d = setup[s].stamp THEN Nothing ELSE backup[d]]
  /\ setup' = [setup EXCEPT ![s].pc = "output"]
  /\ UNCHANGED <<bmad, output, staging, render, begun, raced, torn>>

MakeOutput(s) ==
  /\ At(s, "output")
  /\ output' = TRUE
  /\ setup' = [setup EXCEPT ![s] = Idle]
  /\ UNCHANGED <<bmad, backup, staging, render, begun, raced, torn>>

\* A killed setup leaves its staging folder, which nothing reads, and its backup.
Crash(s) ==
  /\ setup[s].pc \notin {"idle", "plan"} /\ begun < MaxBegun
  /\ begun' = begun + 1
  /\ Ended(s)
  /\ UNCHANGED <<bmad, backup, output, render, raced, torn>>

-----------------------------------------------------------------------------
(* The render process.                                                     *)

NoValues == [k \in {} |-> Nothing]
Layer(t, f) == IF t.custom # Nothing /\ f \in t.custom THEN LayerOf[f] ELSE NoValues

\* The user's config file wins over the team's.
Inputs(t, supplied) ==
  [central |-> [p \in TeamKeys \cup UserKeys |->
                  IF p \in UserKeys THEN Values(t.user, UserKeys)[p] ELSE t.config[p]],
   layers |-> [team |-> Layer(t, "skill.toml"), user |-> Layer(t, "skill.user.toml")],
   supplied |-> supplied]

\* Halts without a `_bmad` folder or a config.toml in it, and on bad inputs.
ReadInputs(r, supplied) ==
  /\ render[r].pc = "idle" /\ bmad # Nothing /\ bmad.config # Nothing
  /\ begun < MaxBegun /\ begun' = begun + 1
  /\ LET in == Inputs(bmad, supplied)
     IN /\ ~Halts(in)
        /\ render' = [render EXCEPT ![r] =
             [pc |-> "publish", key |-> Key(in), text |-> Text(in), files |-> {}]]
  /\ UNCHANGED <<bmad, backup, output, setup, staging, raced, torn>>

Published(t, key) == \E g \in t.generations : g.key = key
Outputs(text) == {file[1] : file \in text}

\* A generation that is there is used if it has what this render would write.
Verify(t, r) ==
  IF \E g \in t.generations : g.key = render[r].key /\ g.text = render[r].text
                             /\ g.files = Outputs(render[r].text)
  THEN "done" ELSE "halted"

\* A generation with this key is verified and used, or the render halts.  Making
\* the parent folders makes a `_bmad` with nothing else in it while it is away.
Publish(r) ==
  /\ render[r].pc = "publish"
  /\ IF Published(Tree, render[r].key)
     THEN render' = [render EXCEPT ![r].pc = Verify(Tree, r)] /\ UNCHANGED bmad
     ELSE /\ bmad' = [Tree EXCEPT !.unfinished[r] = {}]
          /\ render' = [render EXCEPT ![r].pc = "write"]
  /\ UNCHANGED <<backup, output, setup, staging, begun, raced, torn>>

\* Each file's parent folders are made first: the staging folder itself comes
\* back, without the earlier files, when the tree it was in has been replaced.
WriteOutput(r, f) ==
  /\ render[r].pc = "write" /\ f \in Outputs(render[r].text) \ render[r].files
  /\ bmad' = [Tree EXCEPT !.unfinished[r] = {f} \cup (IF @ = Nothing THEN {} ELSE @)]
  /\ render' = [render EXCEPT ![r].files = @ \cup {f}]
  /\ UNCHANGED <<backup, output, setup, staging, begun, raced, torn>>

\* Mutant: published before all the files are written.
WroteSome(r) == render[r].files # {}
WroteAll(r) == render[r].files = Outputs(render[r].text)

\* The rename publishes what the staging folder has.  It fails without one, and
\* on a generation that is there, which is then verified.
Commit(r) ==
  /\ render[r].pc = "write" /\ WroteAll(r)
  /\ IF bmad = Nothing \/ Tree.unfinished[r] = Nothing
     THEN render' = [render EXCEPT ![r].pc = "halted"] /\ UNCHANGED bmad
     ELSE IF Published(bmad, render[r].key)
     THEN /\ render' = [render EXCEPT ![r].pc = Verify(bmad, r)]
          /\ bmad' = [bmad EXCEPT !.unfinished[r] = Nothing]
     ELSE /\ render' = [render EXCEPT ![r].pc = "done"]
          /\ bmad' = [bmad EXCEPT
               !.unfinished[r] = Nothing,
               !.generations = @ \cup {[key |-> render[r].key, text |-> render[r].text,
                                        files |-> bmad.unfinished[r]]}]
  /\ UNCHANGED <<backup, output, setup, staging, begun, raced, torn>>

-----------------------------------------------------------------------------
(* The user.                                                               *)

Edit(i, tree) ==
  /\ begun < MaxBegun /\ begun' = begun + 1
  /\ bmad' = tree
  /\ raced' = raced \cup Overtaken({i})
  /\ UNCHANGED <<backup, output, setup, staging, render, torn>>

SaveCustom(f) ==
  /\ bmad # Nothing /\ bmad.custom # Nothing /\ f \notin bmad.custom
  /\ Edit(f, [bmad EXCEPT !.custom = @ \cup {f}])

\* An answer is changed where the report says it lives.
ChangeTeam(k) ==
  /\ bmad # Nothing /\ bmad.config # Nothing
  /\ Edit(k, [bmad EXCEPT !.config[k] = "edited"])
ChangeUser(k) ==
  /\ bmad # Nothing /\ bmad.user # Nothing
  /\ Edit(k, [bmad EXCEPT !.user[k] = "edited"])

-----------------------------------------------------------------------------
(* What a tree can be.                                                     *)

Answer == {Nothing, "template", "edited"} \cup Setups \cup Given

\* The inputs no render refuses, the name and text each gives a generation, and
\* the generations a tree can hold.
ConfigFiles == [TeamKeys -> Answer]
UserFiles == [UserKeys -> Answer] \cup {Nothing}
CustomFolders == (SUBSET CustomFiles) \cup {Nothing}
Settings == [config : ConfigFiles, user : UserFiles, custom : CustomFolders]
GoodInputs ==
  {in \in {Inputs(t, supplied) : t \in Settings, supplied \in Invocations} : ~Halts(in)}
Renderings == {[key |-> Key(in), text |-> Text(in)] : in \in GoodInputs}
Generations ==
  {[key |-> x.key, text |-> x.text, files |-> f] : x \in Renderings, f \in SUBSET Sources}

TreeType ==
  [scripts : {Nothing, "older", "payload"},
   placed : [Modules -> {Nothing} \cup {Declared[m] : m \in Modules}],
   config : ConfigFiles \cup {Nothing}, custom : CustomFolders,
   ignore : {"missing", "unprotected", "current"}, user : UserFiles,
   generations : SUBSET Generations, unfinished : [Renders -> (SUBSET Sources) \cup {Nothing}]]

ASSUME StartsAreTrees ==
  /\ Starts \subseteq TreeType \cup {Nothing}
  /\ \A t \in Starts \ {Nothing} : \A g \in t.generations : g.files = Outputs(g.text)
ASSUME NothingIsNone ==
  /\ Nothing \notin TreeType /\ Nothing \notin ConfigFiles
  /\ Nothing \notin [UserKeys -> Answer]
  /\ \A files \in (SUBSET CustomFiles) \cup (SUBSET Sources) : files # Nothing
  /\ Nothing \notin Setups \cup Stamps \cup {"template", "edited", "saved", "payload"}
ASSUME KindsOfItems ==
  /\ CustomFiles \cap TeamKeys = {} /\ CustomFiles \cap UserKeys = {} /\ TeamKeys \cap UserKeys = {}
  /\ Setups \cap Items = {}

-----------------------------------------------------------------------------

Init ==
  /\ bmad \in Starts /\ output = FALSE
  /\ backup = [d \in Stamps |-> Nothing]
  /\ setup = [s \in Setups |-> Idle] /\ staging = [s \in Setups |-> Nothing]
  /\ render = [r \in Renders |-> Idle]
  /\ begun = 0 /\ raced = {} /\ torn = {}

Scopes == {Modules} \cup {{m} : m \in Modules}

SetupStep(s) ==
  \/ Plan(s) \/ Copy(s) \/ Stage(s) \/ (\E d \in Stamps : MoveAway(s, d)) \/ NothingToMove(s)
  \/ MoveIn(s) \/ MoveInFails(s) \/ MoveBack(s) \/ DropBackup(s) \/ MakeOutput(s)
RenderStep(r) ==
  \/ \E supplied \in Invocations : ReadInputs(r, supplied)
  \/ Publish(r) \/ (\E f \in Sources : WriteOutput(r, f)) \/ Commit(r)

Next ==
  \/ \E s \in Setups : (\E scope \in Scopes : List(s, scope)) \/ SetupStep(s) \/ Crash(s)
  \/ \E r \in Renders : RenderStep(r)
  \/ \E f \in CustomFiles : SaveCustom(f)
  \/ \E k \in TeamKeys : ChangeTeam(k)
  \/ \E k \in UserKeys : ChangeUser(k)

Spec == Init /\ [][Next]_vars

-----------------------------------------------------------------------------
(* Properties.                                                             *)

Content(t, i) ==
  CASE i \in CustomFiles -> IF t.custom # Nothing /\ i \in t.custom THEN "saved" ELSE Nothing
    [] i \in TeamKeys -> Values(t.config, TeamKeys)[i]
    [] OTHER -> Values(t.user, UserKeys)[i]

\* The tree a setup swaps in has every custom file and every answer of the tree
\* it swaps out, save what changed while the setup already held a copy of it:
\* an answer of the team's that landed between the plan and the copy is kept.
SwapKeeps ==
  [][\A s \in Setups : \A i \in Items \ raced :
       (At(s, "in") /\ setup'[s].pc = "drop" /\ setup[s].stamp # Nothing
          /\ Content(backup[setup[s].stamp], i) # Nothing)
       => Content(bmad', i) = Content(backup[setup[s].stamp], i)]_vars

\* A setup leaves nothing for a second run over the same modules to do, whatever
\* it started from, unless another replaced the tree between its plan and its copy.
SetupConverges ==
  [][\A s \in Setups \ raced :
       (At(s, "in") /\ setup'[s].pc = "drop") => ~Changed(setup[s].plan.scope, bmad')]_vars

Trees == {bmad} \cup {backup[d] : d \in Stamps} \cup {staging[s] : s \in Setups}

\* A generation anyone can read has all its files, whoever else renders the same
\* inputs, unless the tree was replaced under a render that was writing it.
GenerationsWhole ==
  \A t \in Trees \ {Nothing} : \A g \in t.generations :
    g.files = Outputs(g.text) \/ g.key \in torn

\* Two renders that would write different files or values never share a
\* generation's name: what names it is all that the templates can tell apart.
NamesTellApart ==
  \A r \in Renders : \A t \in Trees \ {Nothing} : \A g \in t.generations :
    render[r].pc # "idle" /\ g.key = render[r].key => g.text = render[r].text
=============================================================================
