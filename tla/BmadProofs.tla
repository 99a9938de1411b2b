----------------------------- MODULE BmadProofs -----------------------------
(***************************************************************************)
(* The properties of BmadRuntime, for any number of setups and renders, any *)
(* modules, questions, custom files and skills; then the agreements of     *)
(* BmadInstall, for any folders, files, catalogs and order of folder names: *)
(* they hold of every state in which each file is as setup's parsing leaves *)
(* it (InstallTypeOK), so the only induction is that one, and the rest is  *)
(* about the operators.                                                    *)
(***************************************************************************)
EXTENDS BmadRuntime, BmadInstall, FiniteSetTheorems, WellFoundedInduction, TLAPS

-----------------------------------------------------------------------------
(* The inductive invariant.                                                *)

PlanType == [scope : SUBSET Modules, config : ConfigFiles, user : UserFiles]
SetupWork ==
  [pc : {"copy", "stage", "check", "in", "back", "drop", "output"}, plan : PlanType,
   found : BOOLEAN, stamp : Stamps \cup {Nothing}]

\* A setup that asks has a scope, one at work a plan; a render has the name and the
\* text that some inputs give.
SetupOK(x) ==
  x.pc = "idle" \/ (x.pc = "plan" /\ x.scope \in SUBSET Modules) \/ x \in SetupWork
RenderOK(x) ==
  \/ x = Idle
  \/ /\ x = [pc |-> x.pc, key |-> x.key, text |-> x.text, files |-> x.files]
     /\ x.pc \in {"publish", "write", "done", "halted"} /\ x.files \in SUBSET Sources
     /\ x.pc = "publish" => x.files = {}
     /\ [key |-> x.key, text |-> x.text] \in Renderings

TypeOK ==
  /\ bmad \in TreeType \cup {Nothing}
  /\ backup \in [Stamps -> TreeType \cup {Nothing}]
  /\ staging \in [Setups -> TreeType \cup {Nothing}]
  /\ setup = [s \in Setups |-> setup[s]] /\ \A s \in Setups : SetupOK(setup[s])
  /\ render = [r \in Renders |-> render[r]] /\ \A r \in Renders : RenderOK(render[r])

\* A render that is writing finds its unfinished generation in the tree as it left
\* it, unless the tree was replaced under it.
WritesAreThere ==
  \A r \in Renders : (render[r].pc = "write" /\ render[r].key \notin torn)
                      => bmad # Nothing /\ bmad.unfinished[r] = render[r].files

\* The setups that moved a tree away and may still put it back.
Holders == {s \in Setups : setup[s].pc \in {"in", "back"} /\ setup[s].stamp # Nothing}
HeldBy(s) == backup[setup[s].stamp]

\* A setup has a staging folder from its copy to its swap, and a backup of its own
\* from its first rename to the end.
FoldersOfSetups ==
  \A s \in Setups :
    /\ setup[s].pc \in Holding => staging[s] # Nothing
    /\ setup[s].pc \in {"copy", "stage", "check"} => setup[s].stamp = Nothing
    /\ At(s, "back") => setup[s].stamp # Nothing
    /\ (setup[s].pc \in {"in", "back", "drop"} /\ setup[s].stamp # Nothing) =>
         /\ HeldBy(s) # Nothing
         /\ \A o \in Setups \ {s} :
              setup[o].pc \in {"in", "back", "drop"} => setup[o].stamp # setup[s].stamp

\* While an item is not overtaken, at most one of the tree in place and those moved
\* away has anything in it.
OneFullTree ==
  ~(Items \subseteq raced) =>
    \A s \in Holders : ~Bare(HeldBy(s)) =>
      Bare(Tree) /\ \A o \in Holders \ {s} : Bare(HeldBy(o))

\* What the first tree has of an item, the second has too.
Keeps(t, u, i) == Content(t, i) # Nothing => Content(u, i) = Content(t, i)

\* A copy has every item of the tree it will replace, and of those that may return.
CopiesAreCurrent ==
  \A i \in Items \ raced : \A s \in Setups : setup[s].pc \in Holding =>
    /\ Keeps(Tree, staging[s], i)
    /\ \A o \in Holders : Keeps(HeldBy(o), staging[s], i)

\* A planned user file has every answer there was when it was planned.
PlansAreCurrent ==
  \A s \in Setups : (setup[s].pc \in {"copy", "stage"} /\ setup[s].plan.user # Nothing) =>
    \A i \in UserKeys \ raced :
      LET t == IF At(s, "copy") THEN Tree ELSE staging[s]
      IN Content(t, i) # Nothing => setup[s].plan.user[i] = Content(t, i)

\* A plan answers every question of its scope; one made where nothing was there
\* leaves the user's file alone only if nothing is asked of the user.
AnswersAll(p, found) ==
  /\ \A k \in TeamKeys : p.config[k] = Nothing => Template[k] = Nothing
  /\ \A m \in p.scope : \A k \in TeamAsks[m] : p.config[k] # Nothing
  /\ p.user # Nothing => \A m \in p.scope : \A k \in UserAsks[m] : p.user[k] # Nothing
  /\ p.user = Nothing /\ ~found => \A m \in p.scope : UserAsks[m] = {}
PlansAreComplete ==
  \A s \in Setups : setup[s].pc \in {"copy", "stage"} => AnswersAll(setup[s].plan, setup[s].found)

\* No user file is planned only where no question was open: they are still answered
\* in the tree, or were moved away with it.
NoneStillOpen ==
  \A s \in Setups \ raced :
    /\ (At(s, "copy") /\ setup[s].plan.user = Nothing) =>
         PendingUser(setup[s].plan.scope, Tree) = {} \/ (Bare(Tree) /\ setup[s].found)
    /\ (At(s, "stage") /\ setup[s].plan.user = Nothing) =>
         PendingUser(setup[s].plan.scope, staging[s]) = {}
    /\ setup[s].pc \in {"check", "in", "back"} => ~Changed(setup[s].plan.scope, staging[s])

SwapInv ==
  OneFullTree /\ CopiesAreCurrent /\ PlansAreCurrent /\ PlansAreComplete /\ NoneStillOpen

-----------------------------------------------------------------------------
(* Trees, plans and what a render makes of a tree.                         *)

LEMMA ValuesTypes ==
  ASSUME NEW t \in TreeType
  PROVE  /\ Values(t.config, TeamKeys) \in ConfigFiles
         /\ Values(t.user, UserKeys) \in [UserKeys -> Answer]
BY DEF Values, TreeType, ConfigFiles, UserFiles, Answer

LEMMA EmptyTreeType == EmptyTree \in TreeType /\ EmptyTree # Nothing /\ Bare(EmptyTree)
BY NothingIsNone DEF EmptyTree, TreeType, UserFiles, CustomFolders, Bare

LEMMA TreeInType == ASSUME TypeOK PROVE Tree \in TreeType
BY EmptyTreeType DEF TypeOK, Tree

\* A plan for the questions of some modules.
LEMMA PlanOfType ==
  ASSUME NEW s \in Setups, NEW scope \in SUBSET Modules, NEW t \in TreeType
  PROVE  PlanOf(s, scope, t) \in PlanType
<1>1. Template \in ConfigFiles
  BY DEF Template, ConfigFiles, Answer
<1>2. TeamPlan(t) \in ConfigFiles
  BY <1>1, ValuesTypes DEF TeamPlan, FillKeep, ConfigFiles
<1>3. \A keys : Answered(TeamPlan(t), keys, s) \in ConfigFiles
  BY <1>2 DEF Answered, ConfigFiles, Answer
<1>4. \A keys : Answered(Values(t.user, UserKeys), keys, s) \in [UserKeys -> Answer]
  BY ValuesTypes DEF Answered, Answer
<1> QED BY <1>3, <1>4 DEF PlanOf, PlanType, UserFiles

LEMMA StagedType ==
  ASSUME NEW t \in TreeType, NEW p \in PlanType
  PROVE  Staged(t, p) \in TreeType
<1>1. StagedConfig(t.config, p.config) \in ConfigFiles
  BY DEF StagedConfig, FillKeep, TreeType, PlanType, ConfigFiles
<1>2. PlacedScripts(t.placed, p.scope) \in [Modules -> {Nothing} \cup {Declared[m] : m \in Modules}]
  BY DEF PlacedScripts, TreeType, PlanType
<1>3. (IF t.custom = Nothing THEN {} ELSE t.custom) \in CustomFolders
  BY DEF CustomFolders, TreeType
<1> QED BY <1>1, <1>2, <1>3 DEF Staged, TreeType, PlanType

\* A render that goes on has one of the listed names and texts.
LEMMA RenderingOf ==
  ASSUME NEW t \in TreeType, t.config # Nothing, NEW supplied \in Invocations,
         ~Halts(Inputs(t, supplied))
  PROVE  \E x \in Renderings : /\ x.key = Key(Inputs(t, supplied))
                               /\ x.text = Text(Inputs(t, supplied))
<1> DEFINE u == [config |-> t.config, user |-> t.user, custom |-> t.custom]
<1>1. u \in Settings
  BY DEF TreeType, Settings, ConfigFiles
<1>2. Inputs(t, supplied) = Inputs(u, supplied)
  BY DEF Inputs, Layer
<1>3. Inputs(t, supplied) \in GoodInputs
  BY <1>1, <1>2 DEF GoodInputs
<1>4. [key |-> Key(Inputs(t, supplied)), text |-> Text(Inputs(t, supplied))] \in Renderings
  BY <1>3 DEF Renderings
<1> QED BY <1>4

-----------------------------------------------------------------------------
(* Types are kept.                                                         *)

\* A setup at work stays one when its stage or its stamp changes.
LEMMA SetupMoves ==
  ASSUME NEW x, SetupOK(x), x.pc \notin {"idle", "plan"},
         NEW pc \in {"copy", "stage", "check", "in", "back", "drop", "output"}
  PROVE  /\ SetupOK([x EXCEPT !.pc = pc])
         /\ \A d \in Stamps : SetupOK([x EXCEPT !.pc = pc, !.stamp = d])
BY DEF SetupOK, SetupWork

\* A render at work stays one when its stage or its files change.
LEMMA RenderMoves ==
  ASSUME NEW x, RenderOK(x), x.pc # "idle", NEW pc \in {"write", "done", "halted"}
  PROVE  /\ RenderOK([x EXCEPT !.pc = pc])
         /\ x.pc = "write" => \A f \in Sources : RenderOK([x EXCEPT !.files = @ \cup {f}])
BY DEF RenderOK, Idle

\* The setup s has moved, or ended, and its staging folder with it.
LEMMA SetupTypes ==
  ASSUME TypeOK, NEW s \in Setups, NEW x, SetupOK(x), setup' = [setup EXCEPT ![s] = x]
  PROVE  setup' = [o \in Setups |-> setup'[o]] /\ \A o \in Setups : SetupOK(setup'[o])
BY DEF TypeOK

LEMMA RenderTypes ==
  ASSUME TypeOK, NEW r \in Renders, NEW x, RenderOK(x), render' = [render EXCEPT ![r] = x]
  PROVE  render' = [o \in Renders |-> render'[o]] /\ \A o \in Renders : RenderOK(render'[o])
BY DEF TypeOK

LEMMA SetupStepTypes ==
  ASSUME TypeOK, FoldersOfSetups, NEW s \in Setups,
         SetupStep(s) \/ Crash(s) \/ \E scope \in Scopes : List(s, scope)
  PROVE  TypeOK'
<1> USE DEF At
<1>0. Tree \in TreeType /\ SetupOK(Idle)
  BY TreeInType DEF SetupOK, Idle
<1>1. ASSUME NEW scope \in Scopes, List(s, scope) PROVE TypeOK'
  <2>1. scope \in SUBSET Modules
    BY <1>1 DEF Scopes
  <2>2. SetupOK([pc |-> "plan", scope |-> scope, asked |-> Pending(scope, Tree)])
    BY <2>1 DEF SetupOK
  <2> QED BY <1>1, <2>2, SetupTypes DEF List, TypeOK
<1>2. CASE Plan(s)
  <2>1. setup[s].scope \in SUBSET Modules
    BY <1>2 DEF Plan, TypeOK, SetupOK, SetupWork
  <2> DEFINE x == [pc |-> IF bmad = Nothing \/ Changed(setup[s].scope, Tree) THEN "copy" ELSE "output",
                   plan |-> PlanOf(s, setup[s].scope, Tree), found |-> ~Bare(Tree), stamp |-> Nothing]
  <2>2. SetupOK(x)
    BY <1>0, <2>1, PlanOfType DEF SetupOK, SetupWork
  <2>3. PICK y : SetupOK(y) /\ setup' = [setup EXCEPT ![s] = y]
    BY <1>0, <1>2, <2>2 DEF Plan
  <2> QED BY <1>2, <2>3, SetupTypes DEF Plan, TypeOK
<1>3. CASE Copy(s)
  <2>1. SetupOK([setup[s] EXCEPT !.pc = "stage"])
    BY <1>3, SetupMoves DEF Copy, TypeOK
  <2>2. setup' = [setup EXCEPT ![s] = [setup[s] EXCEPT !.pc = "stage"]]
    BY <1>3 DEF Copy, TypeOK
  <2> QED BY <1>0, <1>3, <2>1, <2>2, SetupTypes DEF Copy, TypeOK
<1>4. CASE Stage(s)
  <2>1. SetupOK([setup[s] EXCEPT !.pc = "check"])
    BY <1>4, SetupMoves DEF Stage, TypeOK
  <2>2. setup' = [setup EXCEPT ![s] = [setup[s] EXCEPT !.pc = "check"]]
    BY <1>4 DEF Stage, TypeOK
  <2>3. Staged(staging[s], setup[s].plan) \in TreeType
    <3>1. staging[s] \in TreeType
      BY <1>4 DEF Stage, TypeOK, FoldersOfSetups, Holding
    <3>2. setup[s].plan \in PlanType
      BY <1>4 DEF Stage, TypeOK, SetupOK, SetupWork
    <3> QED BY <3>1, <3>2, StagedType
  <2> QED BY <1>4, <2>1, <2>2, <2>3, SetupTypes DEF Stage, TypeOK
<1>5. ASSUME NEW d \in Stamps, MoveAway(s, d) PROVE TypeOK'
  <2>1. SetupOK([setup[s] EXCEPT !.pc = "in", !.stamp = d])
    BY <1>5, SetupMoves DEF MoveAway, TypeOK
  <2>2. PICK y : SetupOK(y) /\ setup' = [setup EXCEPT ![s] = y]
    BY <1>0, <1>5, <2>1 DEF MoveAway, Ended, TypeOK
  <2> QED BY <1>5, <2>2, SetupTypes DEF MoveAway, Ended, TypeOK
<1>6. CASE NothingToMove(s)
  <2>1. SetupOK([setup[s] EXCEPT !.pc = "in"])
    BY <1>6, SetupMoves DEF NothingToMove, TypeOK
  <2>2. setup' = [setup EXCEPT ![s] = [setup[s] EXCEPT !.pc = "in"]]
    BY <1>6 DEF NothingToMove, TypeOK
  <2> QED BY <1>6, <2>1, <2>2, SetupTypes DEF NothingToMove, TypeOK
<1>7. CASE MoveIn(s)
  <2>1. SetupOK([setup[s] EXCEPT !.pc = "drop"])
    BY <1>7, SetupMoves DEF MoveIn, TypeOK
  <2>2. setup' = [setup EXCEPT ![s] = [setup[s] EXCEPT !.pc = "drop"]]
    BY <1>7 DEF MoveIn, TypeOK
  <2> QED BY <1>7, <2>1, <2>2, SetupTypes DEF MoveIn, TypeOK
<1>8. CASE MoveInFails(s)
  <2>1. SetupOK([setup[s] EXCEPT !.pc = "back"])
    BY <1>8, SetupMoves DEF MoveInFails, TypeOK
  <2>2. PICK y : SetupOK(y) /\ setup' = [setup EXCEPT ![s] = y]
    BY <1>0, <1>8, <2>1 DEF MoveInFails, Ended, TypeOK
  <2> QED BY <1>8, <2>2, SetupTypes DEF MoveInFails, Ended, TypeOK
<1>9. CASE MoveBack(s)
  <2>1. backup[setup[s].stamp] \in TreeType \cup {Nothing}
    BY <1>9 DEF MoveBack, TypeOK, SetupOK, SetupWork, FoldersOfSetups
  <2> QED BY <1>0, <1>9, <2>1, SetupTypes DEF MoveBack, Ended, TypeOK
<1>10. CASE DropBackup(s)
  <2>1. SetupOK([setup[s] EXCEPT !.pc = "output"])
    BY <1>10, SetupMoves DEF DropBackup, TypeOK
  <2>2. setup' = [setup EXCEPT ![s] = [setup[s] EXCEPT !.pc = "output"]]
    BY <1>10 DEF DropBackup, TypeOK
  <2> QED BY <1>10, <2>1, <2>2, SetupTypes DEF DropBackup, TypeOK
<1>11. CASE MakeOutput(s)
  BY <1>0, <1>11, SetupTypes DEF MakeOutput, TypeOK
<1>12. CASE Crash(s)
  BY <1>0, <1>12, SetupTypes DEF Crash, Ended, TypeOK
<1> QED BY <1>1, <1>2, <1>3, <1>4, <1>5, <1>6, <1>7, <1>8, <1>9, <1>10, <1>11, <1>12 DEF SetupStep

LEMMA GenerationOf ==
  ASSUME NEW x, RenderOK(x), x.pc # "idle", NEW f \in SUBSET Sources
  PROVE  [key |-> x.key, text |-> x.text, files |-> f] \in Generations
<1> DEFINE y == [key |-> x.key, text |-> x.text]
<1>1. y \in Renderings
  BY DEF RenderOK, Idle
<1>2. [key |-> y.key, text |-> y.text, files |-> f] \in Generations
  BY <1>1 DEF Generations
<1> QED BY <1>2

\* A render that changes the tree leaves a tree.
LEMMA RenderBuilds ==
  ASSUME TypeOK, NEW r \in Renders, RenderStep(r)
  PROVE  bmad' = bmad \/ (bmad' \in TreeType /\ bmad' # Nothing)
<1>0. Tree \in TreeType /\ RenderOK(render[r])
  BY TreeInType DEF TypeOK
<1>1. ASSUME NEW supplied \in Invocations, ReadInputs(r, supplied) PROVE bmad' = bmad
  BY <1>1 DEF ReadInputs
<1>2. CASE Publish(r)
  <2>1. [Tree EXCEPT !.unfinished[r] = {}] \in TreeType
    BY <1>0 DEF TreeType
  <2> QED BY <1>2, <2>1, NothingIsNone DEF Publish
<1>3. ASSUME NEW f \in Sources, WriteOutput(r, f) PROVE bmad' \in TreeType
  BY <1>0, <1>3 DEF WriteOutput, TreeType
<1>4. CASE Commit(r)
  <2>1. CASE bmad = Nothing \/ Tree.unfinished[r] = Nothing
    BY <1>4, <2>1 DEF Commit
  <2>2. CASE ~(bmad = Nothing \/ Tree.unfinished[r] = Nothing)
    <3> DEFINE g == [key |-> render[r].key, text |-> render[r].text, files |-> bmad.unfinished[r]]
    <3>1. bmad \in TreeType /\ bmad.unfinished[r] \in SUBSET Sources
      BY <2>2 DEF TypeOK, Tree, TreeType
    <3>2. g \in Generations
      BY <1>0, <1>4, <3>1, GenerationOf DEF Commit
    <3>3. [bmad EXCEPT !.unfinished[r] = Nothing] \in TreeType
      BY <3>1 DEF TreeType
    <3>4. [bmad EXCEPT !.unfinished[r] = Nothing, !.generations = @ \cup {g}] \in TreeType
      BY <3>1, <3>2 DEF TreeType
    <3> HIDE DEF g
    <3>5. bmad' \in TreeType
      BY <1>4, <2>2, <3>3, <3>4 DEF Commit, g
    <3> QED BY <3>5, NothingIsNone
  <2> QED BY <2>1, <2>2
<1> QED BY <1>1, <1>2, <1>3, <1>4, NothingIsNone DEF RenderStep

LEMMA RenderStepTypes ==
  ASSUME TypeOK, NEW r \in Renders, RenderStep(r)
  PROVE  TypeOK'
<1>0. RenderOK(render[r]) /\ bmad' \in TreeType \cup {Nothing}
  BY RenderBuilds DEF TypeOK
<1>1. ASSUME NEW supplied \in Invocations, ReadInputs(r, supplied) PROVE TypeOK'
  <2> DEFINE in == Inputs(bmad, supplied)
             x == [pc |-> "publish", key |-> Key(in), text |-> Text(in), files |-> {}]
  <2>1. PICK y \in Renderings : y.key = Key(in) /\ y.text = Text(in)
    BY <1>1, RenderingOf DEF ReadInputs, TypeOK
  <2>2. y = [key |-> Key(in), text |-> Text(in)]
    BY <2>1 DEF Renderings
  <2>3. RenderOK(x)
    BY <2>2 DEF RenderOK
  <2>4. render' = [render EXCEPT ![r] = x]
    BY <1>1 DEF ReadInputs
  <2> HIDE DEF x
  <2> QED BY <1>1, <2>3, <2>4, RenderTypes DEF ReadInputs, TypeOK
<1>2. CASE Publish(r)
  <2>1. PICK p \in {"write", "done", "halted"} : render' = [render EXCEPT ![r] = [render[r] EXCEPT !.pc = p]]
    BY <1>2 DEF Publish, Verify, TypeOK
  <2>2. RenderOK([render[r] EXCEPT !.pc = p])
    BY <1>0, <1>2, RenderMoves DEF Publish
  <2> QED BY <1>0, <1>2, <2>1, <2>2, RenderTypes DEF Publish, TypeOK
<1>3. ASSUME NEW f \in Sources, WriteOutput(r, f) PROVE TypeOK'
  <2>1. render' = [render EXCEPT ![r] = [render[r] EXCEPT !.files = @ \cup {f}]]
    BY <1>3 DEF WriteOutput, TypeOK
  <2>2. RenderOK([render[r] EXCEPT !.files = @ \cup {f}])
    BY <1>0, <1>3, RenderMoves DEF WriteOutput
  <2> QED BY <1>0, <1>3, <2>1, <2>2, RenderTypes DEF WriteOutput, TypeOK
<1>4. CASE Commit(r)
  <2>1. PICK p \in {"done", "halted"} : render' = [render EXCEPT ![r] = [render[r] EXCEPT !.pc = p]]
    BY <1>4 DEF Commit, Verify, TypeOK
  <2>2. RenderOK([render[r] EXCEPT !.pc = p])
    BY <1>0, <1>4, RenderMoves DEF Commit
  <2> QED BY <1>0, <1>4, <2>1, <2>2, RenderTypes DEF Commit, TypeOK
<1> QED BY <1>1, <1>2, <1>3, <1>4 DEF RenderStep

\* What an edit leaves in the place of the tree.
LEMMA EditBuilds ==
  ASSUME TypeOK,
         \/ \E f \in CustomFiles : SaveCustom(f)
         \/ \E k \in TeamKeys : ChangeTeam(k)
         \/ \E k \in UserKeys : ChangeUser(k)
  PROVE  bmad' \in TreeType /\ bmad' # Nothing
<1>1. ASSUME NEW f \in CustomFiles, SaveCustom(f) PROVE bmad' \in TreeType
  BY <1>1 DEF SaveCustom, Edit, TypeOK, TreeType, CustomFolders
<1>2. ASSUME NEW k \in TeamKeys, ChangeTeam(k) PROVE bmad' \in TreeType
  BY <1>2 DEF ChangeTeam, Edit, TypeOK, TreeType, ConfigFiles, Answer
<1>3. ASSUME NEW k \in UserKeys, ChangeUser(k) PROVE bmad' \in TreeType
  BY <1>3 DEF ChangeUser, Edit, TypeOK, TreeType, UserFiles, Answer
<1> QED BY <1>1, <1>2, <1>3, NothingIsNone

LEMMA EditTypes ==
  ASSUME TypeOK,
         \/ \E f \in CustomFiles : SaveCustom(f)
         \/ \E k \in TeamKeys : ChangeTeam(k)
         \/ \E k \in UserKeys : ChangeUser(k)
  PROVE  TypeOK'
BY EditBuilds DEF SaveCustom, ChangeTeam, ChangeUser, Edit, TypeOK

-----------------------------------------------------------------------------
(* Every setup has the folders it left.                                    *)

LEMMA FoldersKept ==
  ASSUME TypeOK, FoldersOfSetups, NEW s \in Setups,
         SetupStep(s) \/ Crash(s) \/ \E scope \in Scopes : List(s, scope)
  PROVE  FoldersOfSetups'
<1> USE DEF At, Holding
<1>0. /\ \A o \in Setups : SetupOK(setup[o])
      /\ setup = [o \in Setups |-> setup[o]] /\ Nothing \notin Stamps
      /\ DOMAIN staging = Setups /\ DOMAIN backup = Stamps
  BY NothingIsNone DEF TypeOK
<1>1. ASSUME NEW scope \in Scopes, List(s, scope) PROVE FoldersOfSetups'
  BY <1>0, <1>1 DEF List, FoldersOfSetups, HeldBy
<1>2. CASE Plan(s)
  BY <1>0, <1>2 DEF Plan, FoldersOfSetups, HeldBy, Idle
<1>3. CASE Copy(s)
  <2>1. Tree # Nothing
    BY TreeInType, NothingIsNone
  <2>2. setup' = [setup EXCEPT ![s] = [setup[s] EXCEPT !.pc = "stage"]] /\ backup' = backup
        /\ staging' = [staging EXCEPT ![s] = Tree] /\ setup[s] \in SetupWork
    BY <1>0, <1>3 DEF Copy, SetupOK
  <2> QED BY <1>0, <1>3, <2>1, <2>2 DEF Copy, FoldersOfSetups, HeldBy, SetupWork
<1>4. CASE Stage(s)
  <2>1. setup[s] \in SetupWork /\ staging[s] \in TreeType
    BY <1>0, <1>4 DEF Stage, SetupOK, TypeOK, FoldersOfSetups
  <2>2. Staged(staging[s], setup[s].plan) # Nothing
    BY <2>1, StagedType, NothingIsNone DEF SetupWork
  <2>3. setup' = [setup EXCEPT ![s] = [setup[s] EXCEPT !.pc = "check"]] /\ backup' = backup
        /\ staging' = [staging EXCEPT ![s] = Staged(staging[s], setup[s].plan)]
    BY <1>0, <1>4 DEF Stage
  <2> QED BY <1>0, <1>4, <2>1, <2>2, <2>3 DEF Stage, FoldersOfSetups, HeldBy, SetupWork
<1>5. ASSUME NEW d \in Stamps, MoveAway(s, d) PROVE FoldersOfSetups'
  <2>1. CASE backup[d] # Nothing
    BY <1>0, <1>5, <2>1 DEF MoveAway, Ended, FoldersOfSetups, HeldBy, Idle
  <2>2. CASE backup[d] = Nothing
    <3>1. /\ setup' = [setup EXCEPT ![s] = [setup[s] EXCEPT !.pc = "in", !.stamp = d]]
          /\ staging' = staging /\ backup' = [backup EXCEPT ![d] = bmad] /\ bmad # Nothing
          /\ setup[s] \in SetupWork /\ setup[s].pc = "check"
      BY <1>0, <1>5, <2>2 DEF MoveAway, SetupOK
    <3>2. \A o \in Setups : (setup[o].pc \in {"in", "back", "drop"} /\ setup[o].stamp # Nothing)
                            => setup[o].stamp # d
      BY <2>2 DEF FoldersOfSetups, HeldBy
    <3>3. setup'[s] = [setup[s] EXCEPT !.pc = "in", !.stamp = d]
          /\ setup'[s].pc = "in" /\ setup'[s].stamp = d
          /\ \A o \in Setups \ {s} : setup'[o] = setup[o]
      BY <1>0, <3>1 DEF SetupWork
    <3>4. backup'[d] = bmad /\ \A e \in Stamps \ {d} : backup'[e] = backup[e]
      BY <1>0, <3>1
    <3>5. \A o \in Setups : (setup[o].pc \in {"in", "back", "drop"} /\ setup[o].stamp # Nothing)
                            => setup[o].stamp \in Stamps
      BY <1>0 DEF SetupOK, SetupWork
    <3> QED BY <1>0, <3>1, <3>2, <3>3, <3>4, <3>5 DEF FoldersOfSetups, HeldBy
  <2> QED BY <2>1, <2>2
<1>6. CASE NothingToMove(s)
  <2>1. setup' = [setup EXCEPT ![s] = [setup[s] EXCEPT !.pc = "in"]] /\ setup[s] \in SetupWork
    BY <1>0, <1>6 DEF NothingToMove, SetupOK
  <2> QED BY <1>0, <1>6, <2>1 DEF NothingToMove, FoldersOfSetups, HeldBy, SetupWork
<1>7. CASE MoveIn(s)
  <2>1. setup' = [setup EXCEPT ![s] = [setup[s] EXCEPT !.pc = "drop"]] /\ setup[s] \in SetupWork
    BY <1>0, <1>7 DEF MoveIn, SetupOK
  <2> QED BY <1>0, <1>7, <2>1 DEF MoveIn, FoldersOfSetups, HeldBy, SetupWork
<1>8. CASE MoveInFails(s)
  <2>1. CASE setup[s].stamp = Nothing
    BY <1>0, <1>8, <2>1 DEF MoveInFails, Ended, FoldersOfSetups, HeldBy, Idle
  <2>2. CASE setup[s].stamp # Nothing
    <3>1. setup' = [setup EXCEPT ![s] = [setup[s] EXCEPT !.pc = "back"]] /\ setup[s] \in SetupWork
      BY <1>0, <1>8, <2>2 DEF MoveInFails, SetupOK
    <3> QED BY <1>0, <1>8, <2>2, <3>1 DEF MoveInFails, FoldersOfSetups, HeldBy, SetupWork
  <2> QED BY <2>1, <2>2
<1>9. CASE MoveBack(s)
  BY <1>0, <1>9 DEF MoveBack, Ended, FoldersOfSetups, HeldBy, Idle, SetupOK, SetupWork
<1>10. CASE DropBackup(s)
  <2>1. setup' = [setup EXCEPT ![s] = [setup[s] EXCEPT !.pc = "output"]] /\ setup[s] \in SetupWork
    BY <1>0, <1>10 DEF DropBackup, SetupOK
  <2>2. setup'[s].pc = "output" /\ \A o \in Setups \ {s} : setup'[o] = setup[o]
    BY <1>0, <2>1 DEF SetupWork
  <2>3. \A o \in Setups \ {s} : (setup[o].pc \in {"in", "back", "drop"} /\ setup[o].stamp # Nothing)
           => setup[o].stamp \in Stamps /\ setup[o].stamp # setup[s].stamp
    BY <1>0, <1>10 DEF DropBackup, FoldersOfSetups, SetupOK, SetupWork
  <2>4. staging' = staging /\ \A e \in Stamps : e # setup[s].stamp => backup'[e] = backup[e]
    BY <1>10 DEF DropBackup
  <2> QED BY <2>2, <2>3, <2>4 DEF FoldersOfSetups, HeldBy
<1>11. CASE MakeOutput(s)
  BY <1>0, <1>11 DEF MakeOutput, FoldersOfSetups, HeldBy, Idle
<1>12. CASE Crash(s)
  BY <1>0, <1>12 DEF Crash, Ended, FoldersOfSetups, HeldBy, Idle
<1> QED BY <1>1, <1>2, <1>3, <1>4, <1>5, <1>6, <1>7, <1>8, <1>9, <1>10, <1>11, <1>12 DEF SetupStep

-----------------------------------------------------------------------------
(* Generations are whole.                                                  *)

\* The trees there are after a step of a setup were there before, with the same
\* generations, or are the tree a setup copied or completed.
LEMMA SetupKeepsGenerations ==
  ASSUME TypeOK, TypeOK', FoldersOfSetups, NEW s \in Setups,
         SetupStep(s) \/ Crash(s) \/ \E scope \in Scopes : List(s, scope),
         NEW t \in Trees' \ {Nothing}, NEW g \in t.generations
  PROVE  \E u \in Trees \ {Nothing} : g \in u.generations
<1> USE DEF At, Holding, Trees
<1>1. ASSUME NEW scope \in Scopes, List(s, scope) PROVE Trees' = Trees
  BY <1>1 DEF List
<1>2. CASE Plan(s)
  BY <1>2 DEF Plan
<1>3. CASE Copy(s)
  <2>1. t \in Trees \/ t = Tree
    BY <1>3 DEF Copy, TypeOK
  <2> QED BY <2>1 DEF Tree, EmptyTree
<1>4. CASE Stage(s)
  <2>1. t \in Trees \/ t = Staged(staging[s], setup[s].plan)
    BY <1>4 DEF Stage, TypeOK
  <2>2. staging[s] \in TreeType /\ staging[s] # Nothing
    BY <1>4 DEF Stage, TypeOK, FoldersOfSetups
  <2>3. Staged(staging[s], setup[s].plan).generations = staging[s].generations
    BY <2>2 DEF Staged, TreeType
  <2> QED BY <2>1, <2>2, <2>3
<1>5. ASSUME NEW d \in Stamps, MoveAway(s, d) PROVE t \in Trees
  BY <1>5 DEF MoveAway, Ended, TypeOK
<1>6. CASE NothingToMove(s)
  BY <1>6 DEF NothingToMove
<1>7. CASE MoveIn(s)
  BY <1>7 DEF MoveIn, TypeOK
<1>8. CASE MoveInFails(s)
  BY <1>8 DEF MoveInFails, Ended, TypeOK
<1>9. CASE MoveBack(s)
  <2>1. setup[s].stamp \in Stamps
    BY <1>9 DEF MoveBack, TypeOK, SetupOK, SetupWork, FoldersOfSetups
  <2> QED BY <1>9, <2>1 DEF MoveBack, Ended, TypeOK
<1>10. CASE DropBackup(s)
  BY <1>10 DEF DropBackup
<1>11. CASE MakeOutput(s)
  BY <1>11 DEF MakeOutput
<1>12. CASE Crash(s)
  BY <1>12 DEF Crash, Ended, TypeOK
<1> QED BY <1>1, <1>2, <1>3, <1>4, <1>5, <1>6, <1>7, <1>8, <1>9, <1>10, <1>11, <1>12 DEF SetupStep

\* An edit leaves the generations alone.
LEMMA EditKeepsGenerations ==
  ASSUME TypeOK,
         \/ \E f \in CustomFiles : SaveCustom(f)
         \/ \E k \in TeamKeys : ChangeTeam(k)
         \/ \E k \in UserKeys : ChangeUser(k)
  PROVE  /\ bmad \in TreeType /\ bmad # Nothing
         /\ bmad'.generations = bmad.generations /\ bmad'.unfinished = bmad.unfinished
         /\ UNCHANGED <<backup, setup, staging, render, torn>>
BY DEF SaveCustom, ChangeTeam, ChangeUser, Edit, TypeOK, TreeType

\* What a render adds to the tree's generations is what it has written.
LEMMA RenderAddsWhole ==
  ASSUME TypeOK, WritesAreThere, NEW r \in Renders, RenderStep(r),
         NEW g \in Tree'.generations
  PROVE  \/ g \in Tree.generations
         \/ /\ g = [key |-> render[r].key, text |-> render[r].text, files |-> g.files]
            /\ render[r].pc = "write" /\ (g.files = Outputs(g.text) \/ g.key \in torn)
<1>0. Tree \in TreeType
  BY TreeInType
<1>1. ASSUME NEW supplied \in Invocations, ReadInputs(r, supplied) PROVE Tree' = Tree
  BY <1>1 DEF ReadInputs, Tree
<1>2. CASE Publish(r)
  BY <1>0, <1>2 DEF Publish, Tree, TreeType, EmptyTree
<1>3. ASSUME NEW f \in Sources, WriteOutput(r, f) PROVE g \in Tree.generations
  BY <1>0, <1>3 DEF WriteOutput, Tree, TreeType, EmptyTree
<1>4. CASE Commit(r)
  <2>1. CASE bmad' = bmad
    BY <2>1 DEF Tree
  <2>2. CASE bmad' # bmad
    <3>1. bmad # Nothing /\ bmad \in TreeType
      BY <1>4, <2>2 DEF Commit, TypeOK
    <3> DEFINE n == [key |-> render[r].key, text |-> render[r].text, files |-> bmad.unfinished[r]]
    <3>2. g \in bmad.generations \cup {n}
      BY <1>4, <2>2, <3>1 DEF Commit, Tree, TreeType, EmptyTree
    <3>3. n.files = Outputs(n.text) \/ n.key \in torn
      BY <1>4 DEF Commit, WroteAll, WritesAreThere
    <3> QED BY <1>4, <3>1, <3>2, <3>3 DEF Commit, Tree
  <2> QED BY <2>1, <2>2
<1> QED BY <1>1, <1>2, <1>3, <1>4 DEF RenderStep

-----------------------------------------------------------------------------
(* What names a generation is all that its templates can tell apart.       *)

\* The part of a generation's name that a reference makes.
KeyPart(in, ref) ==
  IF ref[1] = "custom" THEN <<"custom", ref[2], Value(in, ref)>>
  ELSE <<"config", CHOOSE p \in Meant(in, ref) : TRUE, Value(in, ref)>>

LEMMA KeyOfParts == ASSUME NEW in PROVE Key(in) = {KeyPart(in, ref) : ref \in Reached(in)}
BY DEF Key, KeyPart

LEMMA GoodGoOn == ASSUME NEW in \in GoodInputs PROVE ~Halts(in)
BY DEF GoodInputs

\* A render that goes on has one meaning for each reference it reaches.
LEMMA ReachedIsGood ==
  ASSUME NEW in, ~Halts(in), NEW ref \in Reached(in)
  PROVE  ref[1] \in {"path", "short", "custom"} /\ \E p : Meant(in, ref) = {p}
<1>1. CASE \E s \in Sources : ref = Switch[s] /\ ref # Nothing
  BY <1>1, KindsOfReferences DEF Halts, Good
<1>2. CASE \E s \in Rendered(in) : ref \in Names[s]
  BY <1>2, KindsOfReferences DEF Halts, Good, Rendered
<1> QED BY <1>1, <1>2 DEF Reached, Rendered

\* A config reference means a path that holds a value.
LEMMA MeantIsFound ==
  ASSUME NEW in, NEW ref, ref[1] \in {"path", "short"}, NEW p \in Meant(in, ref)
  PROVE  p \in DOMAIN in.central /\ in.central[p] # Nothing
BY DEF Meant, Found

\* Where two names are the same, what one reads of the config the other has read too.
LEMMA SameConfig ==
  ASSUME NEW a, NEW b, ~Halts(a), ~Halts(b), Key(a) = Key(b),
         NEW ref \in Reached(a), ref[1] # "custom", NEW p, Meant(a, ref) = {p}
  PROVE  /\ p \in DOMAIN b.central /\ b.central[p] # Nothing
         /\ b.central[p] = a.central[p]
<1>1. KeyPart(a, ref) = <<"config", p, a.central[p]>>
  BY DEF KeyPart, Value
<1>2. KeyPart(a, ref) \in Key(a)
  BY KeyOfParts
<1>3. PICK o \in Reached(b) : KeyPart(b, o) = <<"config", p, a.central[p]>>
  BY <1>1, <1>2, KeyOfParts
<1>4. o[1] # "custom"
  BY <1>3 DEF KeyPart
<1>5. PICK q : Meant(b, o) = {q} /\ o[1] \in {"path", "short"}
  BY <1>4, ReachedIsGood
<1>6. KeyPart(b, o) = <<"config", q, b.central[q]>>
  BY <1>4, <1>5 DEF KeyPart, Value
<1>7. q = p /\ b.central[p] = a.central[p]
  BY <1>3, <1>6
<1> QED BY <1>5, <1>7, MeantIsFound

\* So a reference both reach has one meaning and one value.
LEMMA SameValue ==
  ASSUME NEW a, NEW b, ~Halts(a), ~Halts(b), Key(a) = Key(b),
         NEW ref \in Reached(a) \cap Reached(b)
  PROVE  Value(a, ref) = Value(b, ref)
<1>1. CASE ref[1] = "custom"
  <2>1. KeyPart(a, ref) \in Key(a)
    BY KeyOfParts
  <2>2. PICK o \in Reached(b) : KeyPart(b, o) = KeyPart(a, ref)
    BY <2>1, KeyOfParts
  <2>3. o[1] = "custom"
    BY <1>1, <2>2 DEF KeyPart
  <2>4. o[2] = ref[2] /\ Value(b, o) = Value(a, ref)
    BY <1>1, <2>2, <2>3 DEF KeyPart
  <2> QED BY <1>1, <2>3, <2>4 DEF Value
<1>2. CASE ref[1] # "custom"
  <2>1. PICK p : Meant(a, ref) = {p}
    BY ReachedIsGood
  <2>2. PICK q : Meant(b, ref) = {q}
    BY ReachedIsGood
  <2>3. ref[1] \in {"path", "short"}
    BY <1>2, ReachedIsGood
  <2>4. /\ p \in DOMAIN b.central /\ b.central[p] # Nothing /\ b.central[p] = a.central[p]
        /\ q \in DOMAIN a.central /\ a.central[q] # Nothing
        /\ p \in DOMAIN a.central /\ a.central[p] # Nothing
        /\ q \in DOMAIN b.central /\ b.central[q] # Nothing
    BY <1>2, <2>1, <2>2, <2>3, SameConfig, MeantIsFound
  <2>5. p = q
    <3>1. CASE ref[1] = "path"
      BY <2>1, <2>2, <3>1 DEF Meant, Found
    <3>2. CASE ref[1] = "short"
      <4> DEFINE x == ref[2]
                 Short(in) == Found(in, {y \in DOMAIN ShortName : ShortName[y] = x})
      <4>1. /\ Meant(a, ref) = IF Found(a, {x}) # {} THEN {x} ELSE Short(a)
            /\ Meant(b, ref) = IF Found(b, {x}) # {} THEN {x} ELSE Short(b)
        BY <3>2 DEF Meant
      <4>2. CASE Found(a, {x}) # {} \/ Found(b, {x}) # {}
        BY <2>1, <2>2, <2>4, <4>1, <4>2 DEF Found
      <4>3. CASE Found(a, {x}) = {} /\ Found(b, {x}) = {}
        <5>1. q \in Short(b)
          BY <2>2, <4>1, <4>3
        <5>2. q \in Short(a)
          BY <2>4, <5>1 DEF Found
        <5> QED BY <2>1, <4>1, <4>3, <5>2
      <4> QED BY <4>2, <4>3
    <3> QED BY <2>3, <3>1, <3>2
  <2>6. Value(a, ref) = a.central[p] /\ Value(b, ref) = b.central[q]
    BY <1>2, <2>1, <2>2 DEF Value
  <2> QED BY <2>4, <2>5, <2>6
<1> QED BY <1>1, <1>2

\* Two renders of one name write the same files with the same values in them.
LEMMA NameDecidesText ==
  ASSUME NEW a, NEW b, ~Halts(a), ~Halts(b), Key(a) = Key(b)
  PROVE  Text(a) = Text(b)
<1>1. ASSUME NEW s \in Sources PROVE Omitted(a, s) = Omitted(b, s)
  <2>1. Switch[s] # Nothing => Switch[s] \in Reached(a) \cap Reached(b)
    BY DEF Reached
  <2> QED BY <2>1, SameValue DEF Omitted
<1>2. Rendered(a) = Rendered(b)
  BY <1>1 DEF Rendered
<1>3. ASSUME NEW s \in Rendered(a), NEW ref \in Names[s] PROVE Value(a, ref) = Value(b, ref)
  <2>1. ref \in Reached(a) \cap Reached(b)
    BY <1>2, <1>3 DEF Reached, Rendered
  <2> QED BY <2>1, SameValue
<1>4. ASSUME NEW s \in Rendered(a)
      PROVE  {<<ref, Value(a, ref)>> : ref \in Names[s]} = {<<ref, Value(b, ref)>> : ref \in Names[s]}
  BY <1>3, <1>4
<1> QED BY <1>2, <1>4 DEF Text

-----------------------------------------------------------------------------
(* The theorems about generations.                                         *)

LEMMA InitOK == Init => TypeOK /\ FoldersOfSetups /\ WritesAreThere /\ GenerationsWhole
<1> SUFFICES ASSUME Init PROVE TypeOK /\ FoldersOfSetups /\ WritesAreThere /\ GenerationsWhole
  OBVIOUS
<1>1. TypeOK
  BY StartsAreTrees DEF Init, TypeOK, SetupOK, RenderOK, Idle
<1>2. FoldersOfSetups
  BY DEF Init, FoldersOfSetups, Idle, Holding, At
<1>3. WritesAreThere
  BY DEF Init, WritesAreThere, Idle
<1>4. GenerationsWhole
  BY StartsAreTrees DEF Init, GenerationsWhole, Trees
<1> QED BY <1>1, <1>2, <1>3, <1>4

\* The three kinds of steps.
LEMMA NextCases ==
  ASSUME [Next]_vars
  PROVE  \/ \E s \in Setups : SetupStep(s) \/ Crash(s) \/ \E scope \in Scopes : List(s, scope)
         \/ \E r \in Renders : RenderStep(r)
         \/ \/ \E f \in CustomFiles : SaveCustom(f)
            \/ \E k \in TeamKeys : ChangeTeam(k)
            \/ \E k \in UserKeys : ChangeUser(k)
         \/ UNCHANGED vars
BY DEF Next

LEMMA TypesAndFolders == TypeOK /\ FoldersOfSetups /\ [Next]_vars => TypeOK' /\ FoldersOfSetups'
<1> SUFFICES ASSUME TypeOK, FoldersOfSetups, [Next]_vars PROVE TypeOK' /\ FoldersOfSetups'
  OBVIOUS
<1>1. ASSUME NEW s \in Setups, SetupStep(s) \/ Crash(s) \/ \E scope \in Scopes : List(s, scope)
      PROVE  TypeOK' /\ FoldersOfSetups'
  BY <1>1, SetupStepTypes, FoldersKept
<1>2. ASSUME NEW r \in Renders, RenderStep(r) PROVE TypeOK' /\ FoldersOfSetups'
  <2>1. UNCHANGED <<backup, setup, staging>>
    BY <1>2 DEF RenderStep, ReadInputs, Publish, WriteOutput, Commit
  <2> QED BY <1>2, <2>1, RenderStepTypes DEF FoldersOfSetups, HeldBy, At
<1>3. CASE \/ \E f \in CustomFiles : SaveCustom(f)
           \/ \E k \in TeamKeys : ChangeTeam(k)
           \/ \E k \in UserKeys : ChangeUser(k)
  BY <1>3, EditTypes, EditKeepsGenerations DEF FoldersOfSetups, HeldBy, At
<1>4. CASE UNCHANGED vars
  BY <1>4 DEF vars, TypeOK, FoldersOfSetups, HeldBy, At
<1> QED BY <1>1, <1>2, <1>3, <1>4, NextCases

\* A setup that takes the tree from under a writing render records it as torn.
LEMMA SetupTears ==
  ASSUME TypeOK, TypeOK', FoldersOfSetups, WritesAreThere, NEW s \in Setups,
         SetupStep(s) \/ Crash(s) \/ \E scope \in Scopes : List(s, scope)
  PROVE  WritesAreThere' /\ torn \subseteq torn'
<1> USE DEF At, WritesAreThere
<1>1. ASSUME NEW scope \in Scopes, List(s, scope) PROVE WritesAreThere' /\ torn \subseteq torn'
  BY <1>1 DEF List
<1>2. CASE Plan(s)
  BY <1>2 DEF Plan
<1>3. CASE Copy(s) \/ Stage(s) \/ NothingToMove(s) \/ DropBackup(s) \/ MakeOutput(s)
  BY <1>3 DEF Copy, Stage, NothingToMove, DropBackup, MakeOutput
<1>4. ASSUME NEW d \in Stamps, MoveAway(s, d) PROVE WritesAreThere' /\ torn \subseteq torn'
  BY <1>4 DEF MoveAway
<1>5. CASE MoveIn(s)
  BY <1>5 DEF MoveIn
<1>6. CASE MoveInFails(s)
  BY <1>6 DEF MoveInFails
<1>7. CASE MoveBack(s)
  BY <1>7 DEF MoveBack
<1>8. CASE Crash(s)
  BY <1>8 DEF Crash
<1> QED BY <1>1, <1>2, <1>3, <1>4, <1>5, <1>6, <1>7, <1>8 DEF SetupStep

\* What changing the stage or the files of a render at work leaves alone.
LEMMA RenderAtWork ==
  ASSUME NEW x, RenderOK(x), x.pc # "idle"
  PROVE  /\ x.files \in SUBSET Sources
         /\ x.pc = "publish" => x.files = {}
         /\ {"pc", "key", "text", "files"} = DOMAIN x
BY DEF RenderOK, Idle

LEMMA RenderMoved ==
  ASSUME TypeOK, NEW r \in Renders, render[r].pc # "idle", NEW p, render' = [render EXCEPT ![r].pc = p]
  PROVE  /\ render'[r].pc = p /\ render'[r].key = render[r].key /\ render'[r].files = render[r].files
         /\ \A o \in Renders \ {r} : render'[o] = render[o]
BY RenderAtWork DEF TypeOK

LEMMA RenderWrote ==
  ASSUME TypeOK, NEW r \in Renders, render[r].pc # "idle", NEW fs, render' = [render EXCEPT ![r].files = fs]
  PROVE  /\ render'[r].pc = render[r].pc /\ render'[r].key = render[r].key /\ render'[r].files = fs
         /\ \A o \in Renders \ {r} : render'[o] = render[o]
BY RenderAtWork DEF TypeOK

LEMMA RenderWrites ==
  ASSUME TypeOK, WritesAreThere, NEW r \in Renders, RenderStep(r)
  PROVE  WritesAreThere' /\ UNCHANGED <<backup, setup, staging, torn>>
<1>0. /\ \A o \in Renders : RenderOK(render[o])
      /\ render = [o \in Renders |-> render[o]]
  BY DEF TypeOK
<1>1. ASSUME NEW supplied \in Invocations, ReadInputs(r, supplied) PROVE WritesAreThere'
  BY <1>0, <1>1 DEF ReadInputs, WritesAreThere
<1>2. ASSUME Publish(r) PROVE WritesAreThere'
  <2>1. CASE Published(Tree, render[r].key)
    <3>1. bmad' = bmad /\ torn' = torn
          /\ render' = [render EXCEPT ![r].pc = Verify(Tree, r)] /\ render[r].pc # "idle"
      BY <1>2, <2>1 DEF Publish
    <3>2. render'[r].pc # "write" /\ \A o \in Renders \ {r} : render'[o] = render[o]
      BY <3>1, RenderMoved DEF Verify
    <3> QED BY <3>1, <3>2 DEF WritesAreThere
  <2>2. CASE ~Published(Tree, render[r].key)
    <3>1. /\ bmad' = [Tree EXCEPT !.unfinished[r] = {}] /\ torn' = torn
          /\ render' = [render EXCEPT ![r].pc = "write"] /\ render[r].pc # "idle"
      BY <1>2, <2>2 DEF Publish
    <3>2. render[r].files = {} /\ Tree \in TreeType
      BY <1>0, <1>2, TreeInType, RenderAtWork DEF Publish
    <3>3. bmad' # Nothing /\ bmad'.unfinished[r] = {}
          /\ \A o \in Renders \ {r} : bmad'.unfinished[o] = Tree.unfinished[o]
      BY <3>1, <3>2, NothingIsNone DEF TreeType
    <3>4. render'[r].files = {} /\ \A o \in Renders \ {r} : render'[o] = render[o]
      BY <3>1, <3>2, RenderMoved
    <3>5. ASSUME NEW o \in Renders \ {r}, bmad # Nothing
          PROVE  bmad'.unfinished[o] = bmad.unfinished[o]
      BY <3>3, <3>5 DEF Tree
    <3>6. ASSUME NEW o \in Renders, render'[o].pc = "write", render'[o].key \notin torn'
          PROVE  bmad'.unfinished[o] = render'[o].files
      <4>1. CASE o = r
        BY <3>3, <3>4, <4>1
      <4>2. CASE o # r
        BY <3>1, <3>4, <3>5, <3>6, <4>2 DEF WritesAreThere
      <4> QED BY <4>1, <4>2
    <3> QED BY <3>3, <3>6 DEF WritesAreThere
  <2> QED BY <2>1, <2>2
<1>3. ASSUME NEW f \in Sources, WriteOutput(r, f) PROVE WritesAreThere'
  <2>1. /\ Tree \in TreeType /\ render[r].files \in SUBSET Sources /\ render[r].files # Nothing
    BY <1>0, <1>3, TreeInType, NothingIsNone, RenderAtWork DEF WriteOutput
  <2>2. /\ bmad' # Nothing
        /\ bmad'.unfinished[r] = {f} \cup (IF Tree.unfinished[r] = Nothing THEN {} ELSE Tree.unfinished[r])
        /\ \A o \in Renders \ {r} : bmad'.unfinished[o] = Tree.unfinished[o]
    <3>1. bmad' \in TreeType
      BY <1>3, <2>1 DEF WriteOutput, TreeType
    <3> QED BY <1>3, <2>1, <3>1, NothingIsNone DEF WriteOutput, TreeType
  <2>3. /\ render'[r].files = render[r].files \cup {f} /\ render'[r].key = render[r].key
        /\ render[r].pc = "write" /\ \A o \in Renders \ {r} : render'[o] = render[o]
    <3>1. render' = [render EXCEPT ![r].files = render[r].files \cup {f}] /\ render[r].pc = "write"
      BY <1>0, <1>3 DEF WriteOutput
    <3> QED BY <3>1, RenderWrote
  <2>4. torn' = torn
    BY <1>3 DEF WriteOutput
  <2> QED BY <2>1, <2>2, <2>3, <2>4 DEF WritesAreThere, Tree
<1>4. ASSUME Commit(r) PROVE WritesAreThere'
  <2>1. render'[r].pc # "write" /\ torn' = torn /\ \A o \in Renders \ {r} : render'[o] = render[o]
    <3>1. PICK p \in {"done", "halted"} : render' = [render EXCEPT ![r].pc = p]
      BY <1>4 DEF Commit, Verify
    <3> QED BY <1>4, <3>1, RenderMoved DEF Commit
  <2>2. ASSUME NEW o \in Renders \ {r}, bmad # Nothing
        PROVE  bmad' # Nothing /\ bmad'.unfinished[o] = bmad.unfinished[o]
    <3>1. bmad \in TreeType /\ bmad' # Nothing
      BY <1>4, <2>2, RenderBuilds DEF TypeOK, RenderStep
    <3>2. CASE bmad' = bmad
      BY <2>2, <3>2
    <3>3. CASE bmad' # bmad
      <4> DEFINE n == [key |-> render[r].key, text |-> render[r].text, files |-> bmad.unfinished[r]]
      <4>1. \/ bmad' = [bmad EXCEPT !.unfinished[r] = Nothing, !.generations = @ \cup {n}]
            \/ bmad' = [bmad EXCEPT !.unfinished[r] = Nothing]
        BY <1>4, <3>3 DEF Commit
      <4> QED BY <3>1, <4>1 DEF TreeType
    <3> QED BY <3>2, <3>3
  <2> QED BY <2>1, <2>2 DEF WritesAreThere
<1> QED BY <1>1, <1>2, <1>3, <1>4 DEF RenderStep, ReadInputs, Publish, WriteOutput, Commit

\* Every step that adds a generation adds a whole one, or one of a torn render.
LEMMA GenerationsStayWhole ==
  ASSUME TypeOK, TypeOK', FoldersOfSetups, WritesAreThere, GenerationsWhole, [Next]_vars
  PROVE  WritesAreThere' /\ GenerationsWhole'
<1>1. ASSUME NEW s \in Setups, SetupStep(s) \/ Crash(s) \/ \E scope \in Scopes : List(s, scope)
      PROVE  WritesAreThere' /\ GenerationsWhole'
  <2>1. WritesAreThere' /\ torn \subseteq torn'
    BY <1>1, SetupTears
  <2>2. ASSUME NEW t \in Trees' \ {Nothing}, NEW g \in t.generations
        PROVE  g.files = Outputs(g.text) \/ g.key \in torn'
    <3>1. \E u \in Trees \ {Nothing} : g \in u.generations
      BY <1>1, <2>2, SetupKeepsGenerations
    <3> QED BY <2>1, <3>1 DEF GenerationsWhole
  <2> QED BY <2>1, <2>2 DEF GenerationsWhole
<1>2. ASSUME NEW r \in Renders, RenderStep(r) PROVE WritesAreThere' /\ GenerationsWhole'
  <2>1. WritesAreThere' /\ UNCHANGED <<backup, setup, staging, torn>>
    BY <1>2, RenderWrites
  <2>2. ASSUME NEW t \in Trees' \ {Nothing}, NEW g \in t.generations
        PROVE  g.files = Outputs(g.text) \/ g.key \in torn'
    <3>1. CASE t \in Trees
      BY <2>1, <2>2, <3>1 DEF GenerationsWhole
    <3>2. CASE t \notin Trees
      <4>1. t = Tree'
        BY <2>1, <2>2, <3>2 DEF Trees, Tree
      <4>2. \/ g \in Tree.generations
            \/ /\ g = [key |-> render[r].key, text |-> render[r].text, files |-> g.files]
               /\ render[r].pc = "write" /\ (g.files = Outputs(g.text) \/ g.key \in torn)
        BY <1>2, <2>2, <4>1, RenderAddsWhole
      <4>3. CASE g \in Tree.generations
        <5>1. bmad # Nothing /\ g \in bmad.generations
          BY <4>3 DEF Tree, EmptyTree
        <5> QED BY <2>1, <5>1 DEF GenerationsWhole, Trees
      <4> QED BY <2>1, <4>2, <4>3
    <3> QED BY <3>1, <3>2
  <2> QED BY <2>1, <2>2 DEF GenerationsWhole
<1>3. CASE \/ \E f \in CustomFiles : SaveCustom(f)
           \/ \E k \in TeamKeys : ChangeTeam(k)
           \/ \E k \in UserKeys : ChangeUser(k)
  <2>1. /\ bmad \in TreeType /\ bmad # Nothing
        /\ bmad'.generations = bmad.generations /\ bmad'.unfinished = bmad.unfinished
        /\ UNCHANGED <<backup, setup, staging, render, torn>>
    BY <1>3, EditKeepsGenerations
  <2>2. bmad' # Nothing
    BY <1>3, EditBuilds
  <2>3. GenerationsWhole'
    BY <2>1, <2>2 DEF GenerationsWhole, Trees
  <2>4. WritesAreThere'
    BY <2>1, <2>2 DEF WritesAreThere
  <2> QED BY <2>3, <2>4
<1>4. CASE UNCHANGED vars
  BY <1>4 DEF vars, WritesAreThere, GenerationsWhole, Trees
<1> QED BY <1>1, <1>2, <1>3, <1>4, NextCases

\* Everything a tree, a setup and a render can hold, and the folders of the setups.
THEOREM TreesAndPlansAreTyped == Spec => []TypeOK
<1>1. TypeOK /\ FoldersOfSetups /\ [Next]_vars => TypeOK' /\ FoldersOfSetups'
  BY TypesAndFolders
<1> QED BY InitOK, <1>1, PTL DEF Spec

\* A generation anyone can read has all its files, whoever else renders the same
\* inputs and whatever the setups do (_publish in render_skill.py).
THEOREM GenerationsAreWhole == Spec => []GenerationsWhole
<1> DEFINE Inv == TypeOK /\ FoldersOfSetups /\ WritesAreThere /\ GenerationsWhole
<1>1. Inv /\ [Next]_vars => Inv'
  BY TypesAndFolders, GenerationsStayWhole
<1>2. Init => Inv
  BY InitOK
<1> HIDE DEF Inv
<1>3. Spec => []Inv
  BY <1>1, <1>2, PTL DEF Spec
<1>4. Inv => GenerationsWhole
  BY DEF Inv
<1> QED BY <1>3, <1>4, PTL

\* The generation a render goes by the name of has what that render would write
\* (the digest render in render_skill.py makes leaves nothing out).
THEOREM NamesTellTextsApart == Spec => []NamesTellApart
<1>1. TypeOK => NamesTellApart
  <2> SUFFICES ASSUME TypeOK, NEW r \in Renders, NEW t \in Trees \ {Nothing}, NEW g \in t.generations,
                      render[r].pc # "idle", g.key = render[r].key
               PROVE  g.text = render[r].text
    BY DEF NamesTellApart
  <2>1. t \in TreeType
    BY DEF TypeOK, Trees
  <2>2. PICK x \in Renderings : g.key = x.key /\ g.text = x.text
    BY <2>1 DEF TreeType, Generations
  <2>3. [key |-> render[r].key, text |-> render[r].text] \in Renderings
    BY DEF TypeOK, RenderOK, Idle
  <2>4. PICK a \in GoodInputs : x.key = Key(a) /\ x.text = Text(a)
    BY DEF Renderings
  <2>5. PICK b \in GoodInputs : render[r].key = Key(b) /\ render[r].text = Text(b)
    BY <2>3 DEF Renderings
  <2>6. ~Halts(a) /\ ~Halts(b)
    BY GoodGoOn
  <2>7. Key(a) = Key(b)
    BY <2>2, <2>4, <2>5
  <2>8. Text(a) = Text(b)
    BY <2>6, <2>7, NameDecidesText
  <2> QED BY <2>2, <2>4, <2>5, <2>8
<1> QED BY <1>1, TreesAndPlansAreTyped, PTL

-----------------------------------------------------------------------------
(* What is in a tree.                                                      *)

LEMMA ContentOf ==
  ASSUME NEW t
  PROVE  /\ \A i \in CustomFiles : Content(t, i) = IF t.custom # Nothing /\ i \in t.custom THEN "saved" ELSE Nothing
         /\ \A i \in TeamKeys : Content(t, i) = Values(t.config, TeamKeys)[i]
         /\ \A i \in UserKeys : Content(t, i) = Values(t.user, UserKeys)[i]
BY KindsOfItems DEF Content

LEMMA BareHasNothing ==
  ASSUME NEW t, Bare(t), NEW i \in Items
  PROVE  Content(t, i) = Nothing
BY ContentOf DEF Bare, Items, Values

LEMMA UserKeyOf == ASSUME NEW m \in Modules PROVE UserAsks[m] \subseteq UserKeys /\ TeamAsks[m] \subseteq TeamKeys
BY DEF UserKeys, TeamKeys

\* A question of the user's is open where the tree has nothing for it.
LEMMA OpenQuestions ==
  ASSUME NEW t, NEW scope \in SUBSET Modules
  PROVE  PendingUser(scope, t) = {} <=> \A m \in scope : \A k \in UserAsks[m] : Content(t, k) # Nothing
<1>1. \A m \in scope : \A k \in UserAsks[m] : Content(t, k) = Values(t.user, UserKeys)[k]
  BY ContentOf, UserKeyOf
<1> QED BY <1>1 DEF PendingUser

\* A plan keeps the user's answers of the tree it was made on.
LEMMA PlanKeepsUser ==
  ASSUME NEW s \in Setups, NEW scope \in SUBSET Modules, NEW t \in TreeType,
         PlanOf(s, scope, t).user # Nothing, NEW i \in UserKeys, Content(t, i) # Nothing
  PROVE  PlanOf(s, scope, t).user[i] = Content(t, i)
<1>1. Content(t, i) = Values(t.user, UserKeys)[i] /\ DOMAIN Values(t.user, UserKeys) = UserKeys
  BY ContentOf, ValuesTypes
<1>2. i \notin PendingUser(scope, t)
  BY <1>1 DEF PendingUser
<1> QED BY <1>1, <1>2 DEF PlanOf, Answered

\* It leaves the user's file alone only where no question of the user's is open.
LEMMA PlanLeavesUser ==
  ASSUME NEW s \in Setups, NEW scope \in SUBSET Modules, NEW t \in TreeType,
         PlanOf(s, scope, t).user = Nothing
  PROVE  PendingUser(scope, t) = {}
<1>1. Answered(Values(t.user, UserKeys), PendingUser(scope, t), s) \in [UserKeys -> Answer]
  BY ValuesTypes DEF Answered, Answer
<1>2. Nothing \notin [UserKeys -> Answer]
  BY NothingIsNone
<1> HIDE DEF PendingUser
<1> QED BY <1>1, <1>2 DEF PlanOf

LEMMA PlanAnswersAll ==
  ASSUME NEW s \in Setups, NEW scope \in SUBSET Modules, NEW t \in TreeType
  PROVE  AnswersAll(PlanOf(s, scope, t), ~Bare(t))
<1> DEFINE p == PlanOf(s, scope, t)
           v == Values(t.config, TeamKeys)
           u == Values(t.user, UserKeys)
<1>0. /\ v \in ConfigFiles /\ u \in [UserKeys -> Answer] /\ s # Nothing
      /\ p.scope = scope /\ \A m \in scope : m \in Modules
  BY ValuesTypes, NothingIsNone DEF PlanOf
<1>1. /\ DOMAIN TeamPlan(t) = TeamKeys
      /\ \A k \in TeamKeys : TeamPlan(t)[k] = IF v[k] # Nothing THEN v[k] ELSE Template[k]
  BY <1>0 DEF TeamPlan, FillKeep, ConfigFiles
<1>2. \A k \in TeamKeys : p.config[k] = IF k \in PendingTeam(scope, t) THEN s ELSE TeamPlan(t)[k]
  BY <1>1 DEF PlanOf, Answered
<1>3. \A m \in scope : \A k \in TeamAsks[m] : TeamPlan(t)[k] = Nothing => k \in PendingTeam(scope, t)
  BY DEF PendingTeam
<1>4. ASSUME p.user # Nothing, NEW m \in scope, NEW k \in UserAsks[m] PROVE p.user[k] # Nothing
  <2>1. p.user = Answered(u, PendingUser(scope, t), s) /\ k \in UserKeys
    BY <1>0, <1>4, UserKeyOf DEF PlanOf
  <2>2. k \in DOMAIN u /\ (u[k] = Nothing => k \in PendingUser(scope, t))
    BY <1>0, <1>4, <2>1 DEF PendingUser
  <2> QED BY <1>0, <2>1, <2>2 DEF Answered
<1>5. ASSUME p.user = Nothing, Bare(t), NEW m \in scope PROVE UserAsks[m] = {}
  <2>1. PendingUser(scope, t) = {}
    BY <1>5, PlanLeavesUser
  <2>2. \A k \in UserAsks[m] : Content(t, k) # Nothing
    BY <2>1, <1>5, OpenQuestions
  <2>3. \A k \in UserAsks[m] : k \in Items
    BY <1>0, UserKeyOf DEF Items
  <2> QED BY <2>2, <2>3, <1>5, BareHasNothing
<1>6. \A m \in scope : \A k \in TeamAsks[m] : k \in TeamKeys
  BY <1>0, UserKeyOf
<1> HIDE DEF p, v, u
<1>7. \A k \in TeamKeys : p.config[k] = Nothing => Template[k] = Nothing
  BY <1>0, <1>1, <1>2
<1>8. \A m \in scope : \A k \in TeamAsks[m] : p.config[k] # Nothing
  BY <1>0, <1>2, <1>3, <1>6
<1>9. AnswersAll(p, ~Bare(t))
  BY <1>0, <1>4, <1>5, <1>7, <1>8 DEF AnswersAll
<1> QED BY <1>9 DEF p

\* Completing a copy loses nothing of it, if the planned user file lacks nothing.
LEMMA StagedKeeps ==
  ASSUME NEW t \in TreeType, NEW p \in PlanType, NEW i \in Items,
         i \in UserKeys /\ p.user # Nothing /\ Content(t, i) # Nothing => p.user[i] = Content(t, i)
  PROVE  Keeps(t, Staged(t, p), i)
<1> DEFINE u == Staged(t, p)
<1>0. /\ u.config = StagedConfig(t.config, p.config)
      /\ u.custom = (IF t.custom = Nothing THEN {} ELSE t.custom)
      /\ u.user = (IF p.user = Nothing THEN t.user ELSE p.user)
  BY DEF Staged, TreeType
<1>1. CASE i \in CustomFiles
  BY <1>0, <1>1, ContentOf DEF Keeps
<1>2. CASE i \in TeamKeys
  <2>1. CASE t.config = Nothing
    BY <1>2, <2>1, ContentOf DEF Keeps, Values
  <2>2. CASE t.config # Nothing
    <3>1. t.config \in ConfigFiles /\ u.config = FillKeep(p.config, t.config)
      BY <1>0, <2>2 DEF TreeType, StagedConfig
    <3>2. FillKeep(p.config, t.config) \in ConfigFiles
      BY <3>1 DEF FillKeep, ConfigFiles, PlanType
    <3>3. u.config # Nothing /\ u.config[i] = IF t.config[i] # Nothing THEN t.config[i] ELSE p.config[i]
      BY <1>2, <3>1, <3>2, NothingIsNone DEF FillKeep, ConfigFiles
    <3> QED BY <1>2, <2>2, <3>3, ContentOf DEF Keeps, Values
  <2> QED BY <2>1, <2>2
<1>3. CASE i \in UserKeys
  BY <1>0, <1>3, ContentOf DEF Keeps, Values
<1> QED BY <1>1, <1>2, <1>3 DEF Items

\* Completing a copy leaves nothing to change, if the plan answers every question.
LEMMA StagedOwesNothing ==
  ASSUME NEW t \in TreeType, NEW p \in PlanType, NEW found \in BOOLEAN, AnswersAll(p, found),
         p.user = Nothing => PendingUser(p.scope, t) = {}
  PROVE  ~Changed(p.scope, Staged(t, p))
<1> DEFINE u == Staged(t, p)
<1>0. /\ u.scripts = "payload" /\ u.config = StagedConfig(t.config, p.config)
      /\ u.placed = PlacedScripts(t.placed, p.scope)
      /\ u.custom # Nothing /\ u.ignore # "missing"
      /\ u.user = (IF p.user = Nothing THEN t.user ELSE p.user)
  <2>1. {} # Nothing
    BY NothingIsNone
  <2> QED BY <2>1 DEF Staged, TreeType
<1>1. \A m \in p.scope : m \in Modules
  BY DEF PlanType
<1>2. \A m \in p.scope : u.placed[m] = Declared[m]
  BY <1>0, <1>1 DEF PlacedScripts
<1>3. u.config \in ConfigFiles /\ u.config # Nothing
  BY <1>0, NothingIsNone DEF StagedConfig, FillKeep, TreeType, PlanType, ConfigFiles
<1>4. \A k \in TeamKeys : u.config[k] = Nothing => p.config[k] = Nothing
  BY <1>0 DEF StagedConfig, FillKeep, TreeType, ConfigFiles
<1>5. \A k \in TeamKeys : u.config[k] = Nothing => Template[k] = Nothing
  BY <1>4 DEF AnswersAll
<1>6. TeamPlan(u) = u.config
  <2>1. \A k \in TeamKeys : TeamPlan(u)[k] = u.config[k]
    BY <1>3, <1>5 DEF TeamPlan, FillKeep, Values, ConfigFiles
  <2> QED BY <1>3, <2>1 DEF TeamPlan, FillKeep, Values, ConfigFiles
<1>7. PendingTeam(p.scope, u) = {}
  <2>1. \A m \in p.scope : \A k \in TeamAsks[m] : k \in TeamKeys /\ p.config[k] # Nothing
    BY <1>1, UserKeyOf DEF AnswersAll
  <2> QED BY <1>4, <1>6, <2>1 DEF PendingTeam
<1>8. PendingUser(p.scope, u) = {}
  <2>1. CASE p.user = Nothing
    BY <1>0, <2>1 DEF PendingUser
  <2>2. CASE p.user # Nothing
    BY <1>0, <2>2 DEF PendingUser, Values, AnswersAll
  <2> QED BY <2>1, <2>2
<1> HIDE DEF u
<1> QED BY <1>0, <1>2, <1>3, <1>6, <1>7, <1>8 DEF Changed, ConfigOwed, IgnoreOwed, Pending, u

-----------------------------------------------------------------------------
(* Swaps: what most steps leave as it was.                                 *)

LEMMA SetupMoved ==
  ASSUME TypeOK, NEW s \in Setups, setup[s].pc \notin {"idle", "plan"}, NEW p,
         setup' = [setup EXCEPT ![s].pc = p]
  PROVE  /\ setup'[s].pc = p /\ setup'[s].plan = setup[s].plan
         /\ setup'[s].found = setup[s].found /\ setup'[s].stamp = setup[s].stamp
         /\ \A o \in Setups \ {s} : setup'[o] = setup[o]
<1>1. setup[s] \in SetupWork /\ setup = [o \in Setups |-> setup[o]]
  BY DEF TypeOK, SetupOK
<1> QED BY <1>1 DEF SetupWork

\* A render changes nothing of the tree that a setup copies.
LEMMA RendersStay ==
  ASSUME TypeOK, SwapInv, NEW r \in Renders, RenderStep(r)
  PROVE  SwapInv'
<1>1. Tree \in TreeType /\ UNCHANGED <<setup, staging, backup, raced>>
  BY TreeInType DEF RenderStep, ReadInputs, Publish, WriteOutput, Commit
<1>2. /\ Tree'.config = Tree.config /\ Tree'.custom = Tree.custom /\ Tree'.user = Tree.user
  <2>1. CASE bmad' = bmad
    BY <2>1 DEF Tree
  <2>2. CASE bmad' # bmad
    <3>1. Tree' = bmad'
      BY <2>2, RenderBuilds DEF Tree
    <3>2. CASE \E supplied \in Invocations : ReadInputs(r, supplied)
      BY <2>2, <3>2 DEF ReadInputs
    <3>3. CASE Publish(r)
      BY <1>1, <2>2, <3>1, <3>3 DEF Publish, TreeType
    <3>4. CASE \E f \in Sources : WriteOutput(r, f)
      BY <1>1, <2>2, <3>1, <3>4 DEF WriteOutput, TreeType
    <3>5. CASE Commit(r)
      <4>1. Tree = bmad
        BY <2>2, <3>5 DEF Commit, Tree
      <4> QED BY <1>1, <2>2, <3>1, <3>5, <4>1 DEF Commit, TreeType
    <3> QED BY <3>2, <3>3, <3>4, <3>5 DEF RenderStep
  <2> QED BY <2>1, <2>2
<1>3. /\ Bare(Tree') <=> Bare(Tree)
      /\ \A i : Content(Tree', i) = Content(Tree, i)
      /\ \A scope : PendingUser(scope, Tree') = PendingUser(scope, Tree)
  BY <1>2 DEF Bare, Content, PendingUser
<1>4. Holders' = Holders /\ \A s : HeldBy(s)' = HeldBy(s)
  BY <1>1 DEF Holders, HeldBy
<1>5. OneFullTree'
  BY <1>1, <1>3, <1>4 DEF SwapInv, OneFullTree
<1>6. CopiesAreCurrent'
  BY <1>1, <1>3, <1>4 DEF SwapInv, CopiesAreCurrent, Keeps
<1>7. PlansAreCurrent'
  BY <1>1, <1>3 DEF SwapInv, PlansAreCurrent, At
<1>8. PlansAreComplete'
  BY <1>1 DEF SwapInv, PlansAreComplete
<1>9. NoneStillOpen'
  BY <1>1, <1>3 DEF SwapInv, NoneStillOpen, At
<1> QED BY <1>5, <1>6, <1>7, <1>8, <1>9 DEF SwapInv

\* A setup moves on, or ends, with every tree in its place.
LEMMA OneSetupMoves ==
  ASSUME SwapInv, NEW s \in Setups, Tree' = Tree,
         \A o \in Setups \ {s} : setup'[o] = setup[o] /\ staging'[o] = staging[o],
         \A o \in Holders' : o \in Holders /\ HeldBy(o)' = HeldBy(o),
         raced \ {s} \subseteq raced',
         \/ setup'[s].pc \notin Holding \cup {"copy"}
         \/ /\ setup[s].pc \in {"check", "in", "back"} /\ setup'[s].pc \in {"check", "in", "back"}
            /\ setup'[s].plan = setup[s].plan /\ staging'[s] = staging[s] /\ raced' = raced
  PROVE  SwapInv'
<1>0. \A i \in Items : i \notin raced' => i \notin raced
  BY KindsOfItems
<1>1. OneFullTree'
  BY <1>0 DEF SwapInv, OneFullTree
<1>2. CopiesAreCurrent'
  <2> SUFFICES ASSUME NEW i \in Items \ raced', NEW o \in Setups, setup'[o].pc \in Holding
               PROVE  /\ Keeps(Tree', staging'[o], i)
                      /\ \A h \in Holders' : Keeps(HeldBy(h)', staging'[o], i)
    BY DEF CopiesAreCurrent
  <2>1. setup[o].pc \in Holding /\ staging'[o] = staging[o] /\ i \in Items \ raced
    BY <1>0 DEF Holding
  <2> QED BY <2>1 DEF SwapInv, CopiesAreCurrent
<1>3. PlansAreCurrent'
  <2>1. \A i \in UserKeys \ raced' : i \in UserKeys \ raced
    BY <1>0 DEF Items
  <2> QED BY <2>1 DEF SwapInv, PlansAreCurrent, At, Holding
<1>4. PlansAreComplete'
  BY DEF SwapInv, PlansAreComplete, Holding
<1>5. NoneStillOpen'
  BY DEF SwapInv, NoneStillOpen, At, Holding
<1> QED BY <1>1, <1>2, <1>3, <1>4, <1>5 DEF SwapInv

LEMMA EndedKeepsTheRest ==
  ASSUME TypeOK, NEW s \in Setups, Ended(s)
  PROVE  /\ setup'[s].pc = "idle"
         /\ \A o \in Setups \ {s} : setup'[o] = setup[o] /\ staging'[o] = staging[o]
BY DEF TypeOK, Ended, Idle

\* The steps of a setup that leave every tree in its place.
LEMMA QuietSteps ==
  ASSUME TypeOK, FoldersOfSetups, SwapInv, NEW s \in Setups, Tree' = Tree,
         \/ \E scope \in Scopes : List(s, scope)
         \/ NothingToMove(s) \/ MoveInFails(s) \/ DropBackup(s) \/ MakeOutput(s) \/ Crash(s)
         \/ (\E d \in Stamps : MoveAway(s, d) /\ backup' = backup)
         \/ (MoveBack(s) /\ backup' = backup /\ raced' = raced)
         \/ (Plan(s) /\ setup'[s].pc # "copy")
  PROVE  SwapInv'
<1>0. setup = [o \in Setups |-> setup[o]] /\ Nothing \notin Stamps
  BY NothingIsNone DEF TypeOK
<1>1. CASE \E scope \in Scopes : List(s, scope)
  <2>1. /\ setup'[s].pc = "plan" /\ \A o \in Setups \ {s} : setup'[o] = setup[o]
        /\ raced' = raced \ {s} /\ staging' = staging /\ backup' = backup
    BY <1>0, <1>1 DEF List
  <2>2. \A o \in Holders' : o \in Holders /\ HeldBy(o)' = HeldBy(o)
    BY <2>1 DEF Holders, HeldBy
  <2> QED BY <2>1, <2>2, OneSetupMoves DEF Holding
<1>2. CASE NothingToMove(s)
  <2>1. /\ setup'[s].pc = "in" /\ setup'[s].plan = setup[s].plan /\ setup'[s].stamp = Nothing
        /\ setup[s].pc = "check" /\ \A o \in Setups \ {s} : setup'[o] = setup[o]
    BY <1>2, SetupMoved DEF NothingToMove, At, FoldersOfSetups
  <2>2. staging' = staging /\ backup' = backup /\ raced' = raced
    BY <1>2 DEF NothingToMove
  <2>3. \A o \in Holders' : o \in Holders /\ HeldBy(o)' = HeldBy(o)
    BY <2>1, <2>2 DEF Holders, HeldBy
  <2> QED BY <2>1, <2>2, <2>3, OneSetupMoves
<1>3. CASE MoveInFails(s)
  <2>1. CASE setup[s].stamp = Nothing
    <3>1. Ended(s) /\ backup' = backup /\ raced' = raced
      BY <1>3, <2>1 DEF MoveInFails
    <3>2. \A o \in Holders' : o \in Holders /\ HeldBy(o)' = HeldBy(o)
      BY <3>1, EndedKeepsTheRest DEF Holders, HeldBy
    <3> QED BY <3>1, <3>2, EndedKeepsTheRest, OneSetupMoves DEF Holding
  <2>2. CASE setup[s].stamp # Nothing
    <3>1. /\ setup'[s].pc = "back" /\ setup'[s].plan = setup[s].plan /\ setup'[s].stamp = setup[s].stamp
          /\ setup[s].pc = "in" /\ \A o \in Setups \ {s} : setup'[o] = setup[o]
      BY <1>3, <2>2, SetupMoved DEF MoveInFails, At
    <3>2. staging' = staging /\ backup' = backup /\ raced' = raced
      BY <1>3, <2>2 DEF MoveInFails
    <3>3. \A o \in Holders' : o \in Holders /\ HeldBy(o)' = HeldBy(o)
      BY <2>2, <3>1, <3>2 DEF Holders, HeldBy
    <3> QED BY <3>1, <3>2, <3>3, OneSetupMoves
  <2> QED BY <2>1, <2>2
<1>4. CASE DropBackup(s)
  <2>1. /\ setup'[s].pc = "output" /\ \A o \in Setups \ {s} : setup'[o] = setup[o]
        /\ staging' = staging /\ raced' = raced
        /\ backup' = [d \in Stamps |-> IF d = setup[s].stamp THEN Nothing ELSE backup[d]]
    BY <1>4, SetupMoved DEF DropBackup, At
  <2>2. ASSUME NEW o \in Holders' PROVE o \in Holders /\ HeldBy(o)' = HeldBy(o)
    <3>1. o # s /\ setup'[o] = setup[o] /\ o \in Holders
      BY <2>1 DEF Holders
    <3>2. setup[o].stamp # setup[s].stamp /\ setup[o].stamp \in Stamps
      BY <1>4, <3>1 DEF Holders, FoldersOfSetups, DropBackup, At, TypeOK, SetupOK, SetupWork
    <3> QED BY <2>1, <3>1, <3>2 DEF HeldBy
  <2> QED BY <2>1, <2>2, OneSetupMoves DEF Holding
<1>5. CASE MakeOutput(s)
  <2>1. /\ setup'[s].pc = "idle" /\ \A o \in Setups \ {s} : setup'[o] = setup[o]
        /\ raced' = raced /\ staging' = staging /\ backup' = backup
    BY <1>0, <1>5 DEF MakeOutput, Idle
  <2>2. \A o \in Holders' : o \in Holders /\ HeldBy(o)' = HeldBy(o)
    BY <2>1 DEF Holders, HeldBy
  <2> QED BY <2>1, <2>2, OneSetupMoves DEF Holding
<1>6. ASSUME Ended(s), backup' = backup, raced' = raced PROVE SwapInv'
  <2>1. \A o \in Holders' : o \in Holders /\ HeldBy(o)' = HeldBy(o)
    BY <1>6, EndedKeepsTheRest DEF Holders, HeldBy
  <2> QED BY <1>6, <2>1, EndedKeepsTheRest, OneSetupMoves DEF Holding
<1>7. CASE Crash(s)
  BY <1>6, <1>7 DEF Crash
<1>8. ASSUME NEW d \in Stamps, MoveAway(s, d), backup' = backup PROVE SwapInv'
  <2>1. backup[d] # Nothing
    BY <1>8 DEF MoveAway, TypeOK
  <2> QED BY <1>6, <1>8, <2>1 DEF MoveAway
<1>9. CASE MoveBack(s) /\ backup' = backup /\ raced' = raced
  BY <1>6, <1>9 DEF MoveBack
<1>10. CASE Plan(s) /\ setup'[s].pc # "copy"
  <2>1. /\ setup'[s].pc \in {"idle", "output"} /\ \A o \in Setups \ {s} : setup'[o] = setup[o]
        /\ raced' = raced /\ staging' = staging /\ backup' = backup
    BY <1>0, <1>10 DEF Plan, Idle
  <2>2. \A o \in Holders' : o \in Holders /\ HeldBy(o)' = HeldBy(o)
    BY <2>1 DEF Holders, HeldBy
  <2> QED BY <2>1, <2>2, OneSetupMoves DEF Holding
<1> QED BY <1>1, <1>2, <1>3, <1>4, <1>5, <1>7, <1>8, <1>9, <1>10

\* A setup that plans to change the folder.
LEMMA PlanSwaps ==
  ASSUME TypeOK, FoldersOfSetups, SwapInv, NEW s \in Setups, Plan(s), setup'[s].pc = "copy"
  PROVE  SwapInv'
<1> DEFINE p == PlanOf(s, setup[s].scope, Tree)
<1>1. /\ setup'[s].plan = p /\ setup'[s].found = ~Bare(Tree)
      /\ \A o \in Setups \ {s} : setup'[o] = setup[o]
      /\ UNCHANGED <<bmad, backup, staging, raced>>
  BY DEF Plan, Idle, TypeOK
<1>2. setup[s].scope \in SUBSET Modules /\ Tree \in TreeType /\ Tree' = Tree
  BY <1>1, TreeInType DEF Plan, At, TypeOK, SetupOK, SetupWork, Tree
<1>3. Holders' = Holders /\ \A o \in Holders : HeldBy(o)' = HeldBy(o) /\ o # s
  BY <1>1 DEF Holders, HeldBy, Plan, At
<1>4. OneFullTree'
  BY <1>1, <1>2, <1>3 DEF SwapInv, OneFullTree
<1>5. CopiesAreCurrent'
  BY <1>1, <1>2, <1>3 DEF SwapInv, CopiesAreCurrent, Holding
<1>6. PlansAreCurrent'
  <2>1. p.user # Nothing =>
          \A i \in UserKeys : Content(Tree, i) # Nothing => p.user[i] = Content(Tree, i)
    BY <1>2, PlanKeepsUser
  <2> HIDE DEF p
  <2> QED BY <1>1, <1>2, <2>1 DEF SwapInv, PlansAreCurrent, At
<1>7. PlansAreComplete'
  <2>1. AnswersAll(p, ~Bare(Tree))
    BY <1>2, PlanAnswersAll
  <2> HIDE DEF p
  <2> QED BY <1>1, <2>1 DEF SwapInv, PlansAreComplete
<1>8. NoneStillOpen'
  <2>1. p.user = Nothing => PendingUser(p.scope, Tree) = {}
    BY <1>2, PlanLeavesUser DEF PlanOf
  <2> HIDE DEF p
  <2> QED BY <1>1, <1>2, <2>1 DEF SwapInv, NoneStillOpen, At
<1> QED BY <1>4, <1>5, <1>6, <1>7, <1>8 DEF SwapInv

\* A copy of the tree in place has what those moved away have: they are bare, or
\* the copy is of nothing while a setup may still put one back, which is recorded.
LEMMA CopySwaps ==
  ASSUME TypeOK, FoldersOfSetups, SwapInv, NEW s \in Setups, Copy(s)
  PROVE  SwapInv'
<1>1. /\ setup[s].pc = "copy" /\ setup'[s].pc = "stage" /\ setup'[s].plan = setup[s].plan
      /\ setup'[s].found = setup[s].found
      /\ \A o \in Setups \ {s} : setup'[o] = setup[o] /\ staging'[o] = staging[o]
      /\ staging'[s] = Tree /\ Tree' = Tree /\ backup' = backup /\ raced \subseteq raced'
  BY SetupMoved DEF Copy, At, TypeOK, Tree
<1>2. /\ Bare(Tree) /\ setup[s].found => s \in raced'
      /\ \A o \in Holders : Bare(Tree) => Items \subseteq raced'
  BY <1>1 DEF Copy, Holders
<1>3. Holders' = Holders /\ \A o \in Holders : HeldBy(o)' = HeldBy(o)
  BY <1>1 DEF Holders, HeldBy
<1>4. OneFullTree'
  BY <1>1, <1>3 DEF SwapInv, OneFullTree
<1>5. CopiesAreCurrent'
  <2>1. ASSUME NEW i \in Items \ raced', NEW o \in Holders PROVE Keeps(HeldBy(o), Tree, i)
    <3>1. Bare(HeldBy(o))
      BY <1>1, <1>2, <2>1 DEF SwapInv, OneFullTree
    <3> QED BY <3>1, BareHasNothing DEF Keeps
  <2> QED BY <1>1, <1>3, <2>1 DEF SwapInv, CopiesAreCurrent, Keeps
<1>6. PlansAreCurrent'
  BY <1>1 DEF SwapInv, PlansAreCurrent, At
<1>7. PlansAreComplete'
  BY <1>1 DEF SwapInv, PlansAreComplete
<1>8. NoneStillOpen'
  BY <1>1, <1>2 DEF SwapInv, NoneStillOpen, At
<1> QED BY <1>4, <1>5, <1>6, <1>7, <1>8 DEF SwapInv

\* Completing the copy keeps what it had and leaves nothing to change.
LEMMA StageSwaps ==
  ASSUME TypeOK, FoldersOfSetups, SwapInv, NEW s \in Setups, Stage(s)
  PROVE  SwapInv'
<1> DEFINE u == Staged(staging[s], setup[s].plan)
<1>1. /\ setup[s].pc = "stage" /\ setup'[s].pc = "check" /\ setup'[s].plan = setup[s].plan
      /\ \A o \in Setups \ {s} : setup'[o] = setup[o] /\ staging'[o] = staging[o]
      /\ staging'[s] = u /\ Tree' = Tree /\ backup' = backup /\ raced' = raced
  BY SetupMoved DEF Stage, At, TypeOK, Tree
<1>2. /\ staging[s] \in TreeType /\ setup[s].plan \in PlanType /\ setup[s].found \in BOOLEAN
  <2>1. staging[s] # Nothing
    BY <1>1 DEF FoldersOfSetups, Holding
  <2> QED BY <1>1, <2>1 DEF TypeOK, SetupOK, SetupWork
<1>3. Holders' = Holders /\ \A o \in Holders : HeldBy(o)' = HeldBy(o)
  BY <1>1 DEF Holders, HeldBy
<1>4. OneFullTree'
  BY <1>1, <1>3 DEF SwapInv, OneFullTree
<1>5. CopiesAreCurrent'
  <2>1. ASSUME NEW i \in Items \ raced PROVE Keeps(staging[s], u, i)
    <3>1. i \in UserKeys /\ setup[s].plan.user # Nothing /\ Content(staging[s], i) # Nothing
          => setup[s].plan.user[i] = Content(staging[s], i)
      BY <1>1, <2>1 DEF SwapInv, PlansAreCurrent, At
    <3> QED BY <1>2, <3>1, StagedKeeps
  <2>2. ASSUME NEW i \in Items \ raced
        PROVE  Keeps(Tree, u, i) /\ \A o \in Holders : Keeps(HeldBy(o), u, i)
    <3> HIDE DEF u
    <3>1. Keeps(Tree, staging[s], i) /\ \A o \in Holders : Keeps(HeldBy(o), staging[s], i)
      BY <1>1 DEF SwapInv, CopiesAreCurrent, Holding
    <3> QED BY <2>1, <3>1 DEF Keeps
  <2> HIDE DEF u
  <2> QED BY <1>1, <1>3, <2>2 DEF SwapInv, CopiesAreCurrent, Holding
<1>6. PlansAreCurrent'
  BY <1>1 DEF SwapInv, PlansAreCurrent, At
<1>7. PlansAreComplete'
  BY <1>1 DEF SwapInv, PlansAreComplete
<1>8. NoneStillOpen'
  <2>1. s \notin raced => ~Changed(setup[s].plan.scope, u)
    <3>1. AnswersAll(setup[s].plan, setup[s].found)
      BY <1>1 DEF SwapInv, PlansAreComplete
    <3>2. s \notin raced /\ setup[s].plan.user = Nothing
          => PendingUser(setup[s].plan.scope, staging[s]) = {}
      BY <1>1 DEF SwapInv, NoneStillOpen, At
    <3> QED BY <1>2, <3>1, <3>2, StagedOwesNothing
  <2> HIDE DEF u
  <2> QED BY <1>1, <2>1 DEF SwapInv, NoneStillOpen, At
<1> QED BY <1>4, <1>5, <1>6, <1>7, <1>8 DEF SwapInv

\* With the tree moved away the tree in place is bare, and its mover holds it.
LEMMA MoveAwaySwaps ==
  ASSUME TypeOK, FoldersOfSetups, SwapInv, NEW s \in Setups, NEW d \in Stamps,
         MoveAway(s, d), backup[d] = Nothing
  PROVE  SwapInv'
<1>0. setup[s] \in SetupWork /\ setup = [o \in Setups |-> setup[o]] /\ d # Nothing
      /\ \A o \in Holders : setup[o].stamp \in Stamps
  BY NothingIsNone DEF MoveAway, At, TypeOK, SetupOK, SetupWork, Holders
<1>1. /\ setup[s].pc = "check" /\ setup'[s].pc = "in" /\ setup'[s].plan = setup[s].plan
      /\ setup'[s].stamp = d /\ \A o \in Setups \ {s} : setup'[o] = setup[o]
      /\ staging' = staging /\ raced' = raced
      /\ bmad # Nothing /\ bmad' = Nothing /\ backup' = [backup EXCEPT ![d] = bmad]
  <2>1. /\ setup[s].pc = "check" /\ staging' = staging /\ raced' = raced
        /\ bmad # Nothing /\ bmad' = Nothing /\ backup' = [backup EXCEPT ![d] = bmad]
        /\ setup' = [setup EXCEPT ![s].pc = "in", ![s].stamp = d]
    BY DEF MoveAway, At
  <2>2. setup' = [setup EXCEPT ![s] = [setup[s] EXCEPT !.pc = "in", !.stamp = d]]
    BY <1>0, <2>1
  <2>3. setup'[s] = [setup[s] EXCEPT !.pc = "in", !.stamp = d]
        /\ \A o \in Setups \ {s} : setup'[o] = setup[o]
    BY <1>0, <2>2
  <2>4. setup'[s].pc = "in" /\ setup'[s].stamp = d /\ setup'[s].plan = setup[s].plan
    BY <1>0, <2>3 DEF SetupWork
  <2> QED BY <2>1, <2>3, <2>4
<1>2. Tree = bmad /\ Tree' = EmptyTree /\ Bare(Tree')
  BY <1>1, EmptyTreeType DEF Tree
<1>3. /\ Holders' = Holders \cup {s} /\ s \notin Holders /\ HeldBy(s)' = Tree
      /\ \A o \in Holders : HeldBy(o)' = HeldBy(o)
  <2>1. \A o \in Holders : setup[o].stamp # d
    BY DEF Holders, FoldersOfSetups, HeldBy
  <2>2. backup'[d] = bmad /\ \A e \in Stamps \ {d} : backup'[e] = backup[e]
    BY <1>1 DEF TypeOK
  <2>3. Holders' = Holders \cup {s} /\ s \notin Holders
    BY <1>0, <1>1 DEF Holders
  <2>4. HeldBy(s)' = Tree
    BY <1>1, <1>2, <2>2 DEF HeldBy
  <2>5. ASSUME NEW o \in Holders PROVE HeldBy(o)' = HeldBy(o)
    <3>1. setup'[o].stamp = setup[o].stamp /\ setup[o].stamp \in Stamps \ {d}
      BY <1>0, <1>1, <2>1, <2>3 DEF Holders
    <3> QED BY <2>2, <3>1 DEF HeldBy
  <2> QED BY <2>3, <2>4, <2>5
<1>4. OneFullTree'
  BY <1>1, <1>2, <1>3 DEF SwapInv, OneFullTree
<1>5. CopiesAreCurrent'
  <2> SUFFICES ASSUME NEW i \in Items \ raced, NEW o \in Setups, setup'[o].pc \in Holding
               PROVE  /\ Keeps(Tree', staging[o], i)
                      /\ \A h \in Holders' : Keeps(HeldBy(h)', staging[o], i)
    BY <1>1 DEF CopiesAreCurrent
  <2>1. setup[o].pc \in Holding
    BY <1>1 DEF Holding
  <2>2. Keeps(Tree', staging[o], i)
    BY <1>2, BareHasNothing DEF Keeps
  <2>3. Keeps(Tree, staging[o], i) /\ \A h \in Holders : Keeps(HeldBy(h), staging[o], i)
    BY <2>1 DEF SwapInv, CopiesAreCurrent
  <2> QED BY <1>3, <2>2, <2>3
<1>6. PlansAreCurrent'
  <2>1. \A i \in UserKeys : Content(Tree', i) = Nothing
    BY <1>2, BareHasNothing DEF Items
  <2> QED BY <1>1, <2>1 DEF SwapInv, PlansAreCurrent, At
<1>7. PlansAreComplete'
  BY <1>1 DEF SwapInv, PlansAreComplete
<1>8. NoneStillOpen'
  <2>1. ASSUME NEW o \in Setups \ {s}, setup[o].pc = "copy", setup[o].plan.user = Nothing
        PROVE  PendingUser(setup[o].plan.scope, Tree') = {} \/ setup[o].found
    <3>1. ~setup[o].found => \A m \in setup[o].plan.scope : UserAsks[m] = {}
      BY <2>1 DEF SwapInv, PlansAreComplete, AnswersAll
    <3> QED BY <3>1 DEF PendingUser
  <2> QED BY <1>1, <1>2, <2>1 DEF SwapInv, NoneStillOpen, At
<1> QED BY <1>4, <1>5, <1>6, <1>7, <1>8 DEF SwapInv

\* A setup that swaps its copy in overtakes every other copy, and every plan.
LEMMA MoveInSwaps ==
  ASSUME TypeOK, FoldersOfSetups, SwapInv, NEW s \in Setups, MoveIn(s)
  PROVE  SwapInv'
<1>1. /\ setup[s].pc = "in" /\ setup'[s].pc = "drop"
      /\ \A o \in Setups \ {s} : setup'[o] = setup[o] /\ staging'[o] = staging[o]
  BY SetupMoved DEF MoveIn, At, TypeOK
<1>2. /\ raced \subseteq raced' /\ Planned \subseteq raced' /\ PlannedKeys \subseteq raced'
      /\ \A o \in Setups \ {s} : setup[o].pc \in Holding => Items \subseteq raced'
  BY DEF MoveIn
<1>3. \A o \in Setups : setup'[o].pc \in Holding => Items \subseteq raced'
  BY <1>1, <1>2 DEF Holding
<1>4. OneFullTree'
  BY <1>3 DEF OneFullTree, Holders, Holding
<1>5. CopiesAreCurrent'
  BY <1>3 DEF CopiesAreCurrent
<1>6. PlansAreCurrent'
  <2>1. ASSUME NEW o \in Setups, setup'[o].pc = "copy" PROVE UserKeys \subseteq raced'
    BY <1>1, <1>2, <2>1 DEF Planned, PlannedKeys, At
  <2> QED BY <1>1, <1>2, <2>1 DEF SwapInv, PlansAreCurrent, At
<1>7. PlansAreComplete'
  BY <1>1 DEF SwapInv, PlansAreComplete
<1>8. NoneStillOpen'
  <2>1. ASSUME NEW o \in Setups, setup'[o].pc = "copy" PROVE o \in raced'
    BY <1>1, <1>2, <2>1 DEF Planned, At
  <2> QED BY <1>1, <1>2, <2>1 DEF SwapInv, NoneStillOpen, At
<1> QED BY <1>4, <1>5, <1>6, <1>7, <1>8 DEF SwapInv

\* The tree a setup puts back is one every copy has kept, and no plan was made on.
LEMMA MoveBackSwaps ==
  ASSUME TypeOK, FoldersOfSetups, SwapInv, NEW s \in Setups, MoveBack(s), bmad = Nothing
  PROVE  SwapInv'
<1>0. /\ setup[s].pc = "back" /\ s \in Holders /\ HeldBy(s) # Nothing /\ setup[s].stamp \in Stamps
      /\ Ended(s) /\ bmad' = HeldBy(s) /\ backup' = [backup EXCEPT ![setup[s].stamp] = Nothing]
  BY DEF MoveBack, At, Holders, HeldBy, FoldersOfSetups, TypeOK, SetupOK, SetupWork
<1>1. /\ setup'[s].pc = "idle"
      /\ \A o \in Setups \ {s} : setup'[o] = setup[o] /\ staging'[o] = staging[o]
  BY <1>0, EndedKeepsTheRest
<1>2. raced \subseteq raced' /\ Planned \subseteq raced' /\ PlannedKeys \subseteq raced'
  BY DEF MoveBack
<1>3. Tree' = HeldBy(s)
  BY <1>0 DEF Tree
<1>4. \A o \in Holders' : o \in Holders \ {s} /\ HeldBy(o)' = HeldBy(o)
  <2> SUFFICES ASSUME NEW o \in Holders' PROVE o \in Holders \ {s} /\ HeldBy(o)' = HeldBy(o)
    OBVIOUS
  <2>1. o \in Holders \ {s} /\ setup'[o] = setup[o]
    BY <1>1 DEF Holders
  <2>2. setup[o].stamp # setup[s].stamp /\ setup[o].stamp \in Stamps
    BY <1>0, <2>1 DEF Holders, FoldersOfSetups, TypeOK, SetupOK, SetupWork
  <2> QED BY <1>0, <2>1, <2>2 DEF HeldBy, TypeOK
<1>5. OneFullTree'
  BY <1>0, <1>2, <1>3, <1>4 DEF SwapInv, OneFullTree
<1>6. CopiesAreCurrent'
  <2> SUFFICES ASSUME NEW i \in Items \ raced', NEW o \in Setups, setup'[o].pc \in Holding
               PROVE  /\ Keeps(Tree', staging'[o], i)
                      /\ \A h \in Holders' : Keeps(HeldBy(h)', staging'[o], i)
    BY DEF CopiesAreCurrent
  <2>1. setup[o].pc \in Holding /\ staging'[o] = staging[o] /\ i \in Items \ raced
    BY <1>1, <1>2 DEF Holding
  <2>2. \A h \in Holders : Keeps(HeldBy(h), staging[o], i)
    BY <2>1 DEF SwapInv, CopiesAreCurrent
  <2> QED BY <1>0, <1>3, <1>4, <2>1, <2>2
<1>7. PlansAreCurrent'
  <2>1. ASSUME NEW o \in Setups, setup'[o].pc = "copy" PROVE UserKeys \subseteq raced'
    BY <1>1, <1>2, <2>1 DEF Planned, PlannedKeys, At
  <2> QED BY <1>1, <1>2, <2>1 DEF SwapInv, PlansAreCurrent, At
<1>8. PlansAreComplete'
  BY <1>1 DEF SwapInv, PlansAreComplete
<1>9. NoneStillOpen'
  <2>1. ASSUME NEW o \in Setups, setup'[o].pc = "copy" PROVE o \in raced'
    BY <1>1, <1>2, <2>1 DEF Planned, At
  <2> QED BY <1>1, <1>2, <2>1 DEF SwapInv, NoneStillOpen, At
<1> QED BY <1>5, <1>6, <1>7, <1>8, <1>9 DEF SwapInv

-----------------------------------------------------------------------------
(* Swaps: what the user changes.                                           *)

\* An edit is of one item, which is overtaken if any setup has planned or copied.
LEMMA EditIsOfOne ==
  ASSUME TypeOK,
         \/ \E f \in CustomFiles : SaveCustom(f)
         \/ \E k \in TeamKeys : ChangeTeam(k)
         \/ \E k \in UserKeys : ChangeUser(k)
  PROVE  /\ \E e \in Items : /\ raced' = raced \cup Overtaken({e})
                              /\ \A i \in Items \ {e} : Content(Tree', i) = Content(Tree, i)
         /\ \A i \in Items : Content(Tree, i) # Nothing => Content(Tree', i) # Nothing
         /\ ~Bare(Tree)
<1>0. /\ bmad \in TreeType /\ Tree = bmad /\ Tree' = bmad'
      /\ "edited" # Nothing /\ "saved" # Nothing /\ Nothing \notin ConfigFiles
      /\ Nothing \notin [UserKeys -> Answer]
      /\ \A files \in SUBSET CustomFiles : files # Nothing
  BY EditBuilds, EditKeepsGenerations, NothingIsNone DEF Tree
<1> DEFINE Goal(e) == /\ raced' = raced \cup Overtaken({e})
                      /\ \A i \in Items \ {e} : Content(bmad', i) = Content(bmad, i)
                      /\ \A i \in Items : Content(bmad, i) # Nothing => Content(bmad', i) # Nothing
                      /\ ~Bare(bmad)
<1>1. ASSUME NEW f \in CustomFiles, SaveCustom(f) PROVE Goal(f)
  <2>1. /\ bmad'.config = bmad.config /\ bmad'.user = bmad.user
        /\ bmad.custom # Nothing /\ bmad.custom \in SUBSET CustomFiles
        /\ bmad'.custom = bmad.custom \cup {f} /\ raced' = raced \cup Overtaken({f})
    BY <1>0, <1>1 DEF SaveCustom, Edit, TreeType, CustomFolders
  <2>2. bmad'.custom # Nothing
    BY <1>0, <2>1
  <2> QED BY <1>0, <2>1, <2>2, ContentOf DEF Items, Bare
<1>2. ASSUME NEW k \in TeamKeys, ChangeTeam(k) PROVE Goal(k)
  <2>1. /\ bmad'.custom = bmad.custom /\ bmad'.user = bmad.user
        /\ bmad.config # Nothing /\ bmad.config \in ConfigFiles
        /\ bmad'.config = [bmad.config EXCEPT ![k] = "edited"] /\ raced' = raced \cup Overtaken({k})
    BY <1>0, <1>2 DEF ChangeTeam, Edit, TreeType
  <2>2. bmad'.config \in ConfigFiles
    BY <2>1 DEF ConfigFiles, Answer
  <2>3. bmad'.config # Nothing /\ bmad'.config[k] = "edited"
        /\ \A i \in TeamKeys \ {k} : bmad'.config[i] = bmad.config[i]
    BY <1>0, <2>1, <2>2 DEF ConfigFiles
  <2>4. \A i \in CustomFiles \cup UserKeys : Content(bmad', i) = Content(bmad, i)
    BY <2>1, ContentOf
  <2>5. \A i \in TeamKeys \ {k} : Content(bmad', i) = Content(bmad, i)
    <3>1. Values(bmad'.config, TeamKeys) = bmad'.config /\ Values(bmad.config, TeamKeys) = bmad.config
      BY <2>1, <2>3 DEF Values
    <3>2. \A i \in TeamKeys : Content(bmad', i) = bmad'.config[i] /\ Content(bmad, i) = bmad.config[i]
      BY <3>1, ContentOf
    <3> QED BY <2>3, <3>2
  <2>6. Content(bmad', k) # Nothing
    BY <1>0, <2>3, ContentOf DEF Values
  <2> QED BY <2>1, <2>4, <2>5, <2>6 DEF Items, Bare
<1>3. ASSUME NEW k \in UserKeys, ChangeUser(k) PROVE Goal(k)
  <2>1. /\ bmad'.custom = bmad.custom /\ bmad'.config = bmad.config
        /\ bmad.user # Nothing /\ bmad.user \in [UserKeys -> Answer]
        /\ bmad'.user = [bmad.user EXCEPT ![k] = "edited"] /\ raced' = raced \cup Overtaken({k})
    BY <1>0, <1>3 DEF ChangeUser, Edit, TreeType, UserFiles
  <2>2. bmad'.user \in [UserKeys -> Answer]
    BY <2>1 DEF Answer
  <2>3. bmad'.user # Nothing /\ bmad'.user[k] = "edited"
        /\ \A i \in UserKeys \ {k} : bmad'.user[i] = bmad.user[i]
    BY <1>0, <2>1, <2>2
  <2> QED BY <1>0, <2>1, <2>3, ContentOf DEF Items, Bare, Values
<1>4. PICK e \in Items : Goal(e)
  BY <1>1, <1>2, <1>3 DEF Items
<1> QED BY <1>0, <1>4

LEMMA EditSwaps ==
  ASSUME TypeOK, SwapInv,
         \/ \E f \in CustomFiles : SaveCustom(f)
         \/ \E k \in TeamKeys : ChangeTeam(k)
         \/ \E k \in UserKeys : ChangeUser(k)
  PROVE  SwapInv'
<1>1. PICK e \in Items : /\ raced' = raced \cup Overtaken({e})
                         /\ \A i \in Items \ {e} : Content(Tree', i) = Content(Tree, i)
  BY EditIsOfOne
<1>2. /\ \A i \in Items : Content(Tree, i) # Nothing => Content(Tree', i) # Nothing
      /\ ~Bare(Tree) /\ UNCHANGED <<backup, setup, staging>>
  BY EditIsOfOne, EditKeepsGenerations
<1>3. Holders' = Holders /\ \A o \in Holders : HeldBy(o)' = HeldBy(o)
  BY <1>2 DEF Holders, HeldBy
<1>4. OneFullTree'
  BY <1>1, <1>2, <1>3 DEF SwapInv, OneFullTree
<1>5. CopiesAreCurrent'
  <2> SUFFICES ASSUME NEW i \in Items \ raced', NEW o \in Setups, setup[o].pc \in Holding
               PROVE  /\ Keeps(Tree', staging[o], i)
                      /\ \A h \in Holders : Keeps(HeldBy(h), staging[o], i)
    BY <1>2, <1>3 DEF CopiesAreCurrent
  <2>1. i # e /\ i \notin raced
    BY <1>1 DEF Overtaken
  <2>2. Keeps(Tree, staging[o], i) /\ \A h \in Holders : Keeps(HeldBy(h), staging[o], i)
    BY <2>1 DEF SwapInv, CopiesAreCurrent
  <2> QED BY <1>1, <2>1, <2>2 DEF Keeps
<1>6. PlansAreCurrent'
  <2>1. ASSUME NEW o \in Setups, setup[o].pc = "copy", e \in UserKeys PROVE e \in raced'
    <3>1. PlannedKeys = UserKeys
      BY <2>1 DEF Planned, PlannedKeys, At
    <3> QED BY <1>1, <2>1, <3>1 DEF Overtaken
  <2>2. \A i \in UserKeys \ {e} : Content(Tree', i) = Content(Tree, i)
    BY <1>1 DEF Items
  <2> QED BY <1>1, <1>2, <2>1, <2>2 DEF SwapInv, PlansAreCurrent, At
<1>7. PlansAreComplete'
  BY <1>2 DEF SwapInv, PlansAreComplete
<1>8. NoneStillOpen'
  <2>1. ASSUME NEW o \in Setups, setup[o].pc = "copy", PendingUser(setup[o].plan.scope, Tree) = {}
        PROVE  PendingUser(setup[o].plan.scope, Tree') = {}
    <3>1. setup[o].plan.scope \in SUBSET Modules
      BY <2>1 DEF TypeOK, SetupOK, SetupWork, PlanType
    <3>2. \A m \in setup[o].plan.scope : \A k \in UserAsks[m] : k \in Items
      BY <3>1, UserKeyOf DEF Items
    <3> QED BY <1>2, <2>1, <3>1, <3>2, OpenQuestions
  <2> QED BY <1>1, <1>2, <2>1 DEF SwapInv, NoneStillOpen, At
<1> QED BY <1>4, <1>5, <1>6, <1>7, <1>8 DEF SwapInv

-----------------------------------------------------------------------------
(* The theorems about swaps.                                               *)

LEMMA SwapInvInit == Init => SwapInv
BY DEF Init, SwapInv, OneFullTree, CopiesAreCurrent, PlansAreCurrent, PlansAreComplete,
       NoneStillOpen, Holders, Holding, At, Idle

LEMMA SwapInvKept ==
  ASSUME TypeOK, FoldersOfSetups, SwapInv, [Next]_vars
  PROVE  SwapInv'
<1>1. ASSUME NEW s \in Setups, SetupStep(s) \/ Crash(s) \/ \E scope \in Scopes : List(s, scope)
      PROVE  SwapInv'
  <2>1. CASE Plan(s)
    <3>1. Tree' = Tree
      BY <2>1 DEF Plan, Tree
    <3> QED BY <2>1, <3>1, PlanSwaps, QuietSteps
  <2>2. CASE Copy(s) \/ Stage(s) \/ MoveIn(s)
    BY <2>2, CopySwaps, StageSwaps, MoveInSwaps
  <2>3. ASSUME NEW d \in Stamps, MoveAway(s, d) PROVE SwapInv'
    <3>1. CASE backup[d] = Nothing
      BY <2>3, <3>1, MoveAwaySwaps
    <3>2. CASE backup[d] # Nothing
      <4>1. Tree' = Tree /\ backup' = backup
        BY <2>3, <3>2 DEF MoveAway, Tree
      <4> QED BY <2>3, <4>1, QuietSteps
    <3> QED BY <3>1, <3>2
  <2>4. CASE MoveBack(s)
    <3>1. CASE bmad = Nothing
      BY <2>4, <3>1, MoveBackSwaps
    <3>2. CASE bmad # Nothing
      <4>1. Tree' = Tree /\ backup' = backup /\ raced' = raced
        BY <2>4, <3>2 DEF MoveBack, Tree
      <4> QED BY <2>4, <4>1, QuietSteps
    <3> QED BY <3>1, <3>2
  <2>5. CASE \/ NothingToMove(s) \/ MoveInFails(s) \/ DropBackup(s) \/ MakeOutput(s) \/ Crash(s)
             \/ \E scope \in Scopes : List(s, scope)
    <3>1. Tree' = Tree
      BY <2>5 DEF NothingToMove, MoveInFails, DropBackup, MakeOutput, Crash, List, Tree
    <3> QED BY <2>5, <3>1, QuietSteps
  <2> QED BY <1>1, <2>1, <2>2, <2>3, <2>4, <2>5 DEF SetupStep
<1>2. ASSUME NEW r \in Renders, RenderStep(r) PROVE SwapInv'
  BY <1>2, RendersStay
<1>3. CASE \/ \E f \in CustomFiles : SaveCustom(f)
           \/ \E k \in TeamKeys : ChangeTeam(k)
           \/ \E k \in UserKeys : ChangeUser(k)
  BY <1>3, EditSwaps
<1>4. CASE UNCHANGED vars
  BY <1>4 DEF vars, SwapInv, OneFullTree, CopiesAreCurrent, PlansAreCurrent, PlansAreComplete,
              NoneStillOpen, Holders, HeldBy, Tree, At
<1> QED BY <1>1, <1>2, <1>3, <1>4, NextCases

\* A setup's swap is its second rename and no other step.
LEMMA SwapIsMoveIn ==
  ASSUME TypeOK, [Next]_vars, NEW s \in Setups, At(s, "in"), setup'[s].pc = "drop"
  PROVE  bmad' = staging[s]
<1>0. setup = [o \in Setups |-> setup[o]]
  BY DEF TypeOK
<1>1. ASSUME NEW o \in Setups, SetupStep(o) \/ Crash(o) \/ \E scope \in Scopes : List(o, scope)
      PROVE  bmad' = staging[s]
  <2>1. CASE o # s
    <3>1. setup'[s] = setup[s]
      BY <1>0, <1>1, <2>1 DEF SetupStep, Crash, List, Plan, Copy, Stage, MoveAway, NothingToMove,
                              MoveIn, MoveInFails, MoveBack, DropBackup, MakeOutput, Ended
    <3> QED BY <3>1 DEF At
  <2>2. CASE o = s
    <3>1. CASE MoveIn(s)
      BY <3>1 DEF MoveIn
    <3>2. CASE MoveInFails(s) \/ Crash(s)
      <4>1. setup'[s].pc \in {"idle", "back"}
        BY <1>0, <3>2, SetupMoved DEF MoveInFails, Crash, Ended, Idle, At
      <4> QED BY <4>1
    <3>3. CASE ~(MoveIn(s) \/ MoveInFails(s) \/ Crash(s))
      BY <1>1, <2>2, <3>3 DEF SetupStep, List, Plan, Copy, Stage, MoveAway, NothingToMove,
                              MoveBack, DropBackup, MakeOutput, At
    <3> QED BY <3>1, <3>2, <3>3
  <2> QED BY <2>1, <2>2
<1>2. setup' # setup
  BY DEF At
<1>3. ASSUME NEW r \in Renders, RenderStep(r) PROVE FALSE
  BY <1>2, <1>3 DEF RenderStep, ReadInputs, Publish, WriteOutput, Commit
<1>4. ASSUME \/ \E f \in CustomFiles : SaveCustom(f)
             \/ \E k \in TeamKeys : ChangeTeam(k)
             \/ \E k \in UserKeys : ChangeUser(k)
      PROVE  FALSE
  BY <1>2, <1>4, EditKeepsGenerations
<1> QED BY <1>1, <1>2, <1>3, <1>4, NextCases DEF vars

\* The inductive invariant of a swap, whatever else runs beside it.
THEOREM SwapInvariant == Spec => [](TypeOK /\ FoldersOfSetups /\ SwapInv)
<1> DEFINE Inv == TypeOK /\ FoldersOfSetups /\ SwapInv
<1>1. Init => Inv
  BY InitOK, SwapInvInit
<1>2. Inv /\ [Next]_vars => Inv'
  BY TypesAndFolders, SwapInvKept
<1> HIDE DEF Inv
<1>3. Spec => []Inv
  BY <1>1, <1>2, PTL DEF Spec
<1> QED BY <1>3 DEF Inv

\* What a setup swaps in has every file and answer of what it swaps out that did
\* not change under its copy (replace_dir and fill_keep in setup.py).
THEOREM SwapsKeepEverything == Spec => SwapKeeps
<1> DEFINE Kept == \A s \in Setups : \A i \in Items \ raced :
       (At(s, "in") /\ setup'[s].pc = "drop" /\ setup[s].stamp # Nothing
          /\ Content(backup[setup[s].stamp], i) # Nothing)
       => Content(bmad', i) = Content(backup[setup[s].stamp], i)
<1>1. TypeOK /\ FoldersOfSetups /\ SwapInv /\ [Next]_vars => [Kept]_vars
  <2> SUFFICES ASSUME TypeOK, SwapInv, [Next]_vars, NEW s \in Setups, NEW i \in Items \ raced,
                      At(s, "in"), setup'[s].pc = "drop", setup[s].stamp # Nothing,
                      Content(HeldBy(s), i) # Nothing
               PROVE  Content(bmad', i) = Content(HeldBy(s), i)
    BY DEF HeldBy
  <2>1. s \in Holders /\ setup[s].pc \in Holding
    BY DEF At, Holders, Holding
  <2>2. Keeps(HeldBy(s), staging[s], i)
    BY <2>1 DEF SwapInv, CopiesAreCurrent
  <2> QED BY <2>2, SwapIsMoveIn DEF Keeps
<1> HIDE DEF Kept
<1>2. Spec => [][Kept]_vars
  BY <1>1, SwapInvariant, PTL DEF Spec
<1> QED BY <1>2 DEF SwapKeeps, Kept

\* And it leaves a second run of it nothing to do (setup in setup.py).
THEOREM SetupsConverge == Spec => SetupConverges
<1> DEFINE Converged == \A s \in Setups \ raced :
       (At(s, "in") /\ setup'[s].pc = "drop") => ~Changed(setup[s].plan.scope, bmad')
<1>1. TypeOK /\ FoldersOfSetups /\ SwapInv /\ [Next]_vars => [Converged]_vars
  <2> SUFFICES ASSUME TypeOK, SwapInv, [Next]_vars, NEW s \in Setups \ raced,
                      At(s, "in"), setup'[s].pc = "drop"
               PROVE  ~Changed(setup[s].plan.scope, bmad')
    OBVIOUS
  <2>1. ~Changed(setup[s].plan.scope, staging[s])
    BY DEF SwapInv, NoneStillOpen, At
  <2>2. bmad' = staging[s]
    BY SwapIsMoveIn
  <2> QED BY <2>1, <2>2
<1> HIDE DEF Converged
<1>2. Spec => [][Converged]_vars
  BY <1>1, SwapInvariant, PTL DEF Spec
<1> QED BY <1>2 DEF SetupConverges, Converged

-----------------------------------------------------------------------------
(* The installed skills: types.                                            *)

LEMMA ScriptsTyped ==
  ASSUME InstallTypeOK, NEW w
  PROVE  Scripts(w) \subseteq ScriptFiles
<1> SUFFICES ASSUME NEW f \in Members(w) PROVE ScriptsOf(f) \subseteq ScriptFiles
  BY DEF Scripts
<1>1. f \in Folders /\ HasSkill(f)
  BY DEF Members
<1>2. IsFile(installed[f]) /\ installed[f] \notin {Absent, NoFile, BadFile} /\ installed[f].skill # None
  BY <1>1 DEF InstallTypeOK, HasSkill, Usable, Readable, File
<1> QED BY <1>2 DEF IsFile, IsSkill, ScriptsOf, File

LEMMA SetupTyped ==
  ASSUME InstallTypeOK, NEW scope, Setup(scope)
  PROVE  InstallTypeOK'
<1>1. DOMAIN placed' = DOMAIN Fold
      /\ \A c \in DOMAIN Fold : placed'[c] = None \/ placed'[c] \subseteq ScriptFiles
  BY ScriptsTyped DEF Setup, Place, InstallTypeOK
<1>2. DOMAIN answers' = {"team", "custom", "user"}
  BY DEF Setup, InstallTypeOK
<1> QED BY <1>1, <1>2 DEF InstallTypeOK, Setup

LEMMA InstallTyped ==
  ASSUME InstallTypeOK, NEW files, Install(files), DOMAIN files = Folders,
         \A f \in Folders : IsFile(files[f])
  PROVE  InstallTypeOK'
BY DEF InstallTypeOK, Install

LEMMA AddTyped ==
  ASSUME InstallTypeOK, NEW f \in Folders, Add(f)
  PROVE  InstallTypeOK'
<1> DEFINE files == [installed EXCEPT ![f] = catalog[f]]
<1>1. DOMAIN files = Folders /\ \A g \in Folders : IsFile(files[g])
  BY DEF InstallTypeOK
<1> QED BY <1>1, InstallTyped DEF Add

LEMMA UpdateTyped ==
  ASSUME InstallTypeOK, Update
  PROVE  InstallTypeOK'
<1> DEFINE files == [f \in Folders |-> IF Present(f) /\ catalog[f] # Absent THEN catalog[f] ELSE File(f)]
<1>1. DOMAIN files = Folders /\ \A g \in Folders : IsFile(files[g])
  BY DEF InstallTypeOK, File
<1> QED BY <1>1, InstallTyped DEF Update

LEMMA InstallTypeInit == InstallInit => InstallTypeOK
BY InstallAssumption DEF InstallInit, InstallTypeOK

LEMMA InstallTypeStep == InstallTypeOK /\ [InstallNext]_installVars => InstallTypeOK'
<1> SUFFICES ASSUME InstallTypeOK, [InstallNext]_installVars PROVE InstallTypeOK'
  OBVIOUS
<1>1. ASSUME NEW f \in Folders, Add(f) PROVE InstallTypeOK'
  BY <1>1, AddTyped
<1>2. ASSUME Follow PROVE InstallTypeOK'
  BY <1>1, <1>2, UpdateTyped, SetupTyped DEF Follow, FollowAdd, FollowUpdate, FollowSetup
<1>3. ASSUME NEW f \in Folders, OwnRemove(f) PROVE InstallTypeOK'
  BY <1>3 DEF OwnRemove, InstallTypeOK, IsFile
<1>4. ASSUME NEW w \in Winners, OwnSetup(w) PROVE InstallTypeOK'
  BY <1>4, SetupTyped DEF OwnSetup
<1>5. ASSUME NEW q, OwnAnswer(q) PROVE InstallTypeOK'
  BY <1>5 DEF OwnAnswer, InstallTypeOK
<1>6. ASSUME NEW c \in Catalogs, Release(c) PROVE InstallTypeOK'
  BY <1>6, InstallAssumption DEF Release, InstallTypeOK
<1>7. CASE UNCHANGED installVars
  BY <1>7 DEF installVars, InstallTypeOK
<1> QED BY <1>1, <1>2, <1>3, <1>4, <1>5, <1>6, <1>7 DEF InstallNext, OwnAdd

(* Every file that is installed or served is absent, unreadable or what setup's *)
(* parsing makes of one, and only scripts of skills are placed.                 *)
THEOREM InstallTypeCorrect == InstallSpec => []InstallTypeOK
BY InstallTypeInit, InstallTypeStep, PTL DEF InstallSpec

-----------------------------------------------------------------------------
(* Discovery: what it means that setup has no problem to report. *)

LEMMA RecordFound ==
  ASSUME NEW f, HasSkill(f), RecordOf(f) # None
  PROVE  HasRecord(RecordOf(f)) /\ (~HasRecord(f) => RecordOf(f) = File(f).skill.bmod)
BY DEF RecordOf

LEMMA NoProblems ==
  ASSUME Problems = {}
  PROVE  /\ Records = Winners
         /\ \A f \in Files : HasSkill(f) /\ RecordOf(f) # None => f \in MemberNames(RecordOf(f))
<1>1. Records \ Winners = {}
  BY DEF Problems
<1>2. \A f \in Files : HasSkill(f) /\ RecordOf(f) # None => f \in MemberNames(RecordOf(f))
  BY DEF Problems
<1> QED BY <1>1, <1>2 DEF Winners

(* Without problems each skill is a member of its record, a winner. *)
LEMMA SkillsAreMembers ==
  ASSUME Problems = {}, NEW f \in Files, HasSkill(f), RecordOf(f) # None, RecordOf(f) \in Folders
  PROVE  RecordOf(f) \in Winners /\ f \in Members(RecordOf(f))
<1>1. HasRecord(RecordOf(f))
  BY RecordFound
<1>2. RecordOf(f) \in Records
  BY <1>1 DEF Records, Files, HasRecord
<1>3. f \in MemberNames(RecordOf(f)) \cap Folders
  BY NoProblems DEF Files
<1> QED BY <1>2, <1>3, NoProblems, RecordFound DEF Members, RecordOf

LEMMA RecordIsAFolder ==
  ASSUME NEW f \in Folders, HasSkill(f), RecordOf(f) # None
  PROVE  RecordOf(f) \in Folders
BY DEF RecordOf

-----------------------------------------------------------------------------
(* knowledge.py reads the records for itself. *)

LEMMA KnowledgeReadsAlike ==
  ASSUME InstallTypeOK, \A f \in Folders : Readable(f) => Usable(f)
  PROVE  /\ KnownRecords = Records
         /\ KnownModules = Winners
         /\ \A f \in Files : HasSkill(f) =>
              KnownModule(f) = IF RecordOf(f) = None THEN None ELSE Record(RecordOf(f)).code
         /\ \A f \in Files : HasSkill(f) => (KnownModule(f) = None <=> RecordOf(f) = None)
<1>1. KnownRecords = Records
  BY DEF KnownRecords, Records, HasRecord, Usable, Files
<1>2. KnownModules = Winners
  BY <1>1 DEF KnownModules, Winners
<1>3. ASSUME NEW f \in Folders, HasRecord(f) PROVE Record(f).code # None
  <2>1. IsFile(installed[f]) /\ installed[f] \notin {Absent, NoFile, BadFile} /\ installed[f].bmod # None
    BY <1>3 DEF InstallTypeOK, HasRecord, Usable, Readable, File, Record
  <2> QED BY <2>1, InstallAssumption DEF IsFile, IsRecord, Record, File
<1>4. ASSUME NEW f \in Files, HasSkill(f)
      PROVE  /\ KnownModule(f) = IF RecordOf(f) = None THEN None ELSE Record(RecordOf(f)).code
             /\ KnownModule(f) = None <=> RecordOf(f) = None
  <2>1. \A g : g \in KnownRecords <=> g \in Folders /\ HasRecord(g)
    BY <1>1 DEF Records, Files, HasRecord
  <2>2. f \in Folders /\ f # None /\ (Record(f) # None <=> HasRecord(f))
    BY <1>4, InstallAssumption DEF Files, HasRecord
  <2>3. CASE HasRecord(f)
    BY <2>1, <2>2, <2>3, <1>3 DEF KnownModule, RecordOf
  <2>4. CASE ~HasRecord(f)
    BY <2>1, <2>2, <2>4, <1>3, InstallAssumption DEF KnownModule, RecordOf
  <2> QED BY <2>3, <2>4
<1> QED BY <1>1, <1>2, <1>4

LEMMA TypedAgrees == InstallTypeOK => KnowledgeAgrees
<1> SUFFICES ASSUME InstallTypeOK, \A f \in Folders : Readable(f) => Usable(f)
             PROVE  /\ KnownModules = Winners
                    /\ \A f \in Files : HasSkill(f) =>
                         KnownModule(f) = IF RecordOf(f) = None THEN None ELSE Record(RecordOf(f)).code
                    /\ AbsentRecords = {File(f).skill.bmod : f \in MissingRecords}
  BY DEF KnowledgeAgrees
<1>1. \A f : f \in Folders /\ Readable(f) /\ File(f).skill # None <=> f \in Files /\ HasSkill(f)
  BY DEF Files, HasSkill, Usable
<1>2. {g \in Folders : Readable(g) /\ File(g).skill # None /\ KnownModule(g) = None} = MissingRecords
  BY <1>1, KnowledgeReadsAlike DEF MissingRecords
<1>3. AbsentRecords = {File(f).skill.bmod : f \in MissingRecords}
  BY <1>2 DEF AbsentRecords
<1> QED BY <1>3, KnowledgeReadsAlike

(* Where every file passes setup's checks, knowledge.py, which asks less of a  *)
(* record and looks a skill's module up by another way, takes the same record  *)
(* of each code, gives each skill to the same module and misses the same ones. *)
THEOREM ReadersAgree == InstallSpec => []KnowledgeAgrees
BY InstallTypeInit, InstallTypeStep, TypedAgrees, PTL DEF InstallSpec

-----------------------------------------------------------------------------
(* What a setup pays. *)

(* Two records in force of one code are one. *)
LEMMA OneWinnerPerCode ==
  ASSUME NEW v \in Winners, NEW w \in Winners, Record(v).code = Record(w).code
  PROVE  v = w
<1>1. v \in Folders /\ w \in Folders /\ Rank[v] \in Nat /\ Rank[w] \in Nat
  BY InstallAssumption DEF Winners, Records, Files
<1>2. Rank[v] <= Rank[w] /\ Rank[w] <= Rank[v]
  BY DEF Winners, SameCode
<1>3. Rank[v] = Rank[w]
  BY <1>1, <1>2
<1> QED BY <1>1, <1>3, InstallAssumption

LEMMA RecordTyped ==
  ASSUME InstallTypeOK, NEW f \in Folders, HasRecord(f)
  PROVE  IsRecord(Record(f))
BY DEF InstallTypeOK, HasRecord, Usable, Readable, File, Record, IsFile

LEMMA WinnerTyped ==
  ASSUME InstallTypeOK, NEW w \in Winners
  PROVE  w \in Folders /\ HasRecord(w) /\ IsRecord(Record(w))
BY RecordTyped DEF Winners, Records, Files

LEMMA SetupAnswers ==
  ASSUME InstallTypeOK, Setup(Winners), NEW w \in Winners
  PROVE  QuestionsOf(w) \subseteq AnsweredAnywhere'
<1> SUFFICES ASSUME NEW q \in QuestionsOf(w) PROVE q \in answers'.team \cup answers'.user
  BY DEF AnsweredAnywhere
<1>1. q[2] \in {"team", "user"}
  BY WinnerTyped DEF IsRecord, QuestionsOf
<1>2. q \notin (IF q[2] = "user" THEN answers.user ELSE answers.team) => q \in PendingQuestions(Winners)
  BY DEF PendingQuestions
<1>3. /\ answers'.team = answers.team \cup {x \in PendingQuestions(Winners) : x[2] = "team"}
      /\ answers'.user = answers.user \cup {x \in PendingQuestions(Winners) : x[2] = "user"}
  BY DEF Setup, InstallTypeOK
<1> QED BY <1>1, <1>2, <1>3

LEMMA SetupPlaces ==
  ASSUME InstallTypeOK, Setup(Winners), NEW w \in Winners
  PROVE  placed'[Record(w).code] = Scripts(w) /\ Scripts(w) # None
<1>1. Record(w).code \in DOMAIN Fold
  BY WinnerTyped DEF IsRecord
<1>2. (CHOOSE v \in Winners : Record(v).code = Record(w).code) = w
  BY OneWinnerPerCode
<1>3. placed'[Record(w).code] = Place(w)
  BY <1>1, <1>2 DEF Setup
<1> QED BY <1>3, ScriptsTyped, InstallAssumption DEF Place

(* Discovery looks at the folders only. *)
LEMMA DiscoveryStays ==
  ASSUME installed' = installed, NEW f
  PROVE  /\ HasSkill(f)' <=> HasSkill(f)
         /\ HasRecord(f)' <=> HasRecord(f)
         /\ RecordOf(f)' = RecordOf(f)
         /\ File(f)' = File(f)
         /\ Record(f)' = Record(f)
         /\ (f \in Files)' <=> f \in Files
<1>1. \A g : /\ HasSkill(g)' <=> HasSkill(g)
             /\ HasRecord(g)' <=> HasRecord(g)
             /\ File(g)' = File(g)
             /\ Record(g)' = Record(g)
             /\ Usable(g)' <=> Usable(g)
  BY DEF HasSkill, HasRecord, Usable, Readable, File, Record
<1> QED BY <1>1 DEF RecordOf, Files

\* What each note of setup_check tells of the skill it is for.
Told(f, note) ==
  LET record == RecordOf(f)
  IN /\ HasSkill(f)
     /\ \/ note = <<"record", File(f).skill.bmod>> /\ record = None
        \/ \E r \in Wanted(f) :
             /\ note = <<RequirementCheck(r), r.skill>>
             /\ RequirementCheck(r) \in {"missing", "outdated", "unknown-version"}
        \/ note = <<"questions">> /\ record # None /\ ~(QuestionsOf(record) \subseteq AnsweredAnywhere)
        \/ /\ note = <<"scripts">> /\ record # None
           /\ \/ placed[Record(record).code] = None
              \/ ~(ScriptsOf(f) \subseteq placed[Record(record).code])

NotesAreTold == \A f : \A note \in Owed(f) : Told(f, note)

LEMMA OwedTold == NotesAreTold
BY DEF NotesAreTold, Owed, Told

LEMMA SetupDebts ==
  ASSUME InstallTypeOK, Problems = {}, Setup(Winners), NEW f \in Folders
  PROVE  <<"questions">> \notin Owed(f)' /\ <<"scripts">> \notin Owed(f)'
<1>1. installed' = installed
  BY DEF Setup
<1>2. \A note \in Owed(f)' : Told(f, note)'
  <2>1. NotesAreTold'
    BY OwedTold, PTL
  <2> QED BY <2>1 DEF NotesAreTold
<1>3. /\ HasSkill(f)' <=> HasSkill(f)
      /\ RecordOf(f)' = RecordOf(f)
      /\ ScriptsOf(f)' = ScriptsOf(f)
      /\ Record(RecordOf(f))' = Record(RecordOf(f))
      /\ QuestionsOf(RecordOf(f))' = QuestionsOf(RecordOf(f))
  BY <1>1, DiscoveryStays DEF ScriptsOf, QuestionsOf, Record, File
<1>4. ASSUME HasSkill(f), RecordOf(f) # None
      PROVE  /\ QuestionsOf(RecordOf(f)) \subseteq AnsweredAnywhere'
             /\ ScriptsOf(f) \subseteq placed'[Record(RecordOf(f)).code]
             /\ placed'[Record(RecordOf(f)).code] # None
  <2>1. f \in Files /\ RecordOf(f) \in Folders
    BY <1>4, RecordIsAFolder DEF Files, HasSkill
  <2>2. RecordOf(f) \in Winners /\ f \in Members(RecordOf(f))
    BY <1>4, <2>1, SkillsAreMembers
  <2>3. ScriptsOf(f) \subseteq Scripts(RecordOf(f))
    BY <2>2 DEF Scripts
  <2> QED BY <2>2, <2>3, SetupAnswers, SetupPlaces
<1>5. <<"questions">> \notin Owed(f)'
  <2> SUFFICES ASSUME Told(f, <<"questions">>)' PROVE FALSE
    BY <1>2
  <2> QED BY <1>3, <1>4 DEF Told
<1>6. <<"scripts">> \notin Owed(f)'
  <2> SUFFICES ASSUME Told(f, <<"scripts">>)' PROVE FALSE
    BY <1>2
  <2> QED BY <1>3, <1>4 DEF Told
<1> QED BY <1>5, <1>6

(* A setup of everything, on an installation without problems, leaves no skill a  *)
(* question to answer or a script to place, by setup_check's reading of the same  *)
(* files: it asks what it looks up in the scope the question names, one winner a  *)
(* code decides what is placed, and the scripts placed are those of all members.  *)
THEOREM SetupPaysWhatIsOwed == InstallSpec => SetupPaysDebts
<1> DEFINE Pays == (Problems = {} /\ ~CaseClash /\ Setup(Winners)) =>
       (\A f \in Folders : Owed(f) \cap {<<"questions">>, <<"scripts">>} = {})'
<1>1. InstallTypeOK /\ [InstallNext]_installVars => [Pays]_installVars
  BY SetupDebts
<1> QED BY <1>1, InstallTypeInit, InstallTypeStep, PTL DEF InstallSpec, SetupPaysDebts

-----------------------------------------------------------------------------
(* What status may call current. *)

\* Nothing to run: no skill wants for a record, a skill or an update, and setup
\* has nothing to ask or to place.
LEMMA NothingToRun ==
  ASSUME StatusCurrent
  PROVE  /\ Problems = {}
         /\ \A f \in Files : HasSkill(f) => RecordOf(f) # None
         /\ \A u \in Unmet(None) : FALSE
         /\ ~SetupOwed(Winners)
         /\ \A w \in Winners : ~ScriptsClash(w)
<1>1. NextStep(Winners, None) = {} /\ Unmet(None) = {} /\ StatusProblems = {} /\ MissingRecords = {}
  BY DEF StatusCurrent
<1>2. Problems = {} /\ \A w \in Winners : ~ScriptsClash(w)
  BY <1>1 DEF StatusProblems
<1>3. \A f \in Files : HasSkill(f) => RecordOf(f) # None
  BY <1>1 DEF MissingRecords
<1>4. ~SetupOwed(Winners)
  BY <1>1 DEF NextStep
<1> QED BY <1>1, <1>2, <1>3, <1>4

\* A demand status has looked at is met.
LEMMA DemandsMet ==
  ASSUME StatusCurrent, NEW f \in Files, HasSkill(f), RecordOf(f) \in Winners,
         NEW r \in Wanted(f), RequirementCheck(r) # "met"
  PROVE  ~HasRecord(f) /\ r \in RequiredBy(Record(RecordOf(f))) /\ r.skill = RecordOf(f)
<1>1. r.skill # f /\ (r \in RequiredBy(File(f).skill) \/ r \in RequiredBy(Record(RecordOf(f))))
  BY NothingToRun DEF Wanted
<1>2. CASE r \in RequiredBy(File(f).skill)
  <2> DEFINE u == [by |-> f, code |-> IF RecordOf(f) = None THEN None ELSE Record(RecordOf(f)).code,
                   req |-> r, source |-> OwnSource(f)]
  <2>1. u \in AskedBySkill(f)
    BY <1>2 DEF AskedBySkill
  <2>2. u \in Unmet(None)
    BY <1>1, <2>1 DEF Unmet
  <2> QED BY <2>2, NothingToRun
<1>3. CASE r \in RequiredBy(Record(RecordOf(f)))
  <2> DEFINE w == RecordOf(f)
             u == [by |-> w, code |-> Record(w).code, req |-> r, source |-> Record(w).source]
  <2>1. u \in Asked(w)
    BY <1>3 DEF Asked
  <2>2. r.skill # w => u \in Unmet(None)
    BY <2>1 DEF Unmet
  <2>3. r.skill = w
    BY <2>2, NothingToRun
  <2> QED BY <1>1, <1>3, <2>3 DEF RecordOf
<1> QED BY <1>1, <1>2, <1>3

\* The scripts setup has placed are those of every member.
LEMMA ScriptsCurrent ==
  ASSUME StatusCurrent, NEW w \in Winners
  PROVE  placed[Record(w).code] # None /\ placed[Record(w).code] = Scripts(w)
<1>1. ScriptsState(w) \notin {"missing", "stale"} /\ ~ScriptsClash(w)
  BY NothingToRun DEF SetupOwed
<1> QED BY <1>1 DEF ScriptsState

LEMMA QuestionsAnswered ==
  ASSUME StatusCurrent, NEW w \in Winners
  PROVE  QuestionsOf(w) \subseteq AnsweredAnywhere
<1>1. PendingQuestions(Winners) = {}
  BY NothingToRun DEF SetupOwed
<1> QED BY <1>1 DEF PendingQuestions, AnsweredAnywhere

LEMMA CurrentOwesNothing == CurrentMeansNothingOwed
<1> SUFFICES ASSUME StatusCurrent, NEW f \in Files, HasSkill(f), NEW note \in Owed(f)
             PROVE  note \in IF HasRecord(f) THEN {} ELSE OwnDemands(RecordOf(f))
  BY DEF CurrentMeansNothingOwed
<1>1. RecordOf(f) # None /\ RecordOf(f) \in Folders
  BY NothingToRun, RecordIsAFolder DEF Files
<1>2. RecordOf(f) \in Winners /\ f \in Members(RecordOf(f))
  BY <1>1, NothingToRun, SkillsAreMembers
<1>3. ScriptsOf(f) \subseteq placed[Record(RecordOf(f)).code]
  BY <1>2, ScriptsCurrent DEF Scripts
<1>4. Told(f, note)
  BY OwedTold DEF NotesAreTold
<1>5. PICK r \in Wanted(f) :
        /\ note = <<RequirementCheck(r), r.skill>>
        /\ RequirementCheck(r) \in {"missing", "outdated", "unknown-version"}
  BY <1>1, <1>2, <1>3, <1>4, ScriptsCurrent, QuestionsAnswered DEF Told
<1>6. ~HasRecord(f) /\ r \in RequiredBy(Record(RecordOf(f))) /\ r.skill = RecordOf(f)
  BY <1>2, <1>5, DemandsMet
<1> QED BY <1>5, <1>6 DEF OwnDemands

(* What status calls current owes no starting skill anything, for any versions,  *)
(* requirements, shadowed records and answers, but what its record asks of its   *)
(* own folder; that status passes over what a file asks of its own folder is why *)
(* the exception is there, and there is no other.                                *)
THEOREM CurrentIsCurrent == InstallSpec => []CurrentMeansNothingOwed
BY CurrentOwesNothing, PTL

-----------------------------------------------------------------------------
(* Documents and topics. *)

LEMMA LeastExists ==
  ASSUME NEW T, T \subseteq Nat, T # {}
  PROVE  \E x \in T : \A y \in T : x <= y
<1> DEFINE R == OpToRel(<, Nat)
<1>1. IsWellFoundedOn(R, Nat)
  BY NatLessThanWellFounded
<1>2. PICK x \in T : \A y \in T : ~(<<y, x>> \in R)
  <2> HIDE DEF R
  <2> QED BY <1>1, WFMin, Zenon
<1>3. \A y \in T : ~(y < x)
  BY <1>2 DEF OpToRel
<1> QED BY <1>3

LEMMA EntriesShape ==
  ASSUME NEW docs, IsSequence(docs.knowledge)
  PROVE  /\ Len(Entries(docs)) \in Nat
         /\ HelpPage \notin DOMAIN docs.pages => Entries(docs) = docs.knowledge
         /\ HelpPage \in DOMAIN docs.pages =>
              /\ Len(Entries(docs)) = Len(docs.knowledge) + 1
              /\ Entries(docs)[1] = [path |-> Plainly(HelpPage), skills |-> "*"]
              /\ \A i \in 1..Len(docs.knowledge) : Entries(docs)[i + 1] = docs.knowledge[i]
<1> DEFINE k == docs.knowledge
           help == [path |-> Plainly(HelpPage), skills |-> "*"]
           S == {k[i] : i \in 1..Len(k)} \cup {help}
<1>1. Len(k) \in Nat /\ k = [i \in 1..Len(k) |-> k[i]]
  BY DEF IsSequence
<1>2. k \in Seq(S)
  BY <1>1
<1>3. <<help>> \in Seq(S) /\ Len(<<help>>) = 1 /\ <<help>>[1] = help
  OBVIOUS
<1> HIDE DEF k, help, S
<1>4. <<>> \o k = k
  BY <1>2
<1>5. /\ <<help>> \o k \in Seq(S)
      /\ Len(<<help>> \o k) = Len(k) + 1
      /\ (<<help>> \o k)[1] = help
      /\ \A i \in 1..Len(k) : (<<help>> \o k)[i + 1] = k[i]
  BY <1>1, <1>2, <1>3
<1>6. CASE HelpPage \notin DOMAIN docs.pages
  <2>1. Entries(docs) = k
    BY <1>4, <1>6 DEF Entries, k
  <2> QED BY <1>1, <1>6, <2>1 DEF k
<1>7. CASE HelpPage \in DOMAIN docs.pages
  <2>1. Entries(docs) = <<help>> \o k
    BY <1>7 DEF Entries, k, help
  <2>2. Len(Entries(docs)) = Len(k) + 1 /\ Entries(docs)[1] = help
        /\ \A i \in 1..Len(k) : Entries(docs)[i + 1] = k[i]
    BY <1>5, <2>1
  <2> QED BY <1>1, <1>7, <2>2 DEF k, help
<1> QED BY <1>6, <1>7

\* The entries that make a document, and the page of each.
Accepted(docs) ==
  {i \in 1..Len(Entries(docs)) :
     WellFormed(Entries(docs)[i]) /\ ReadDocument(docs, SafeSkillRelative(Entries(docs)[i].path))}
Page(docs, i) == SafeSkillRelative(Entries(docs)[i].path)

LEMMA PlainlyTells ==
  ASSUME NEW p, NEW q
  PROVE  Plainly(p) = Plainly(q) <=> p = q
BY DEF Plainly

LEMMA RecordedIs ==
  ASSUME NEW docs
  PROVE  Recorded(docs) = {i \in Accepted(docs) : \A j \in Accepted(docs) : Page(docs, j) = Page(docs, i) => i <= j}
BY PlainlyTells DEF Recorded, Accepted, Page, DocumentName

LEMMA EachPageRecordedOnce ==
  ASSUME NEW docs, IsSequence(docs.knowledge), NEW i \in Accepted(docs)
  PROVE  \E k \in Recorded(docs) :
           /\ Page(docs, k) = Page(docs, i)
           /\ \A j \in Recorded(docs) : Page(docs, j) = Page(docs, i) => j = k
<1> DEFINE T == {j \in Accepted(docs) : Page(docs, j) = Page(docs, i)}
<1>1. T \subseteq Nat /\ T # {}
  BY EntriesShape DEF Accepted
<1>2. PICK k \in T : \A y \in T : k <= y
  <2> HIDE DEF T
  <2> QED BY <1>1, LeastExists
<1>3. k \in Recorded(docs)
  BY <1>2, RecordedIs
<1>4. ASSUME NEW j \in Recorded(docs), Page(docs, j) = Page(docs, i) PROVE j = k
  <2>1. j <= k /\ k <= j /\ j \in Nat /\ k \in Nat
    BY <1>1, <1>2, <1>4, RecordedIs
  <2> QED BY <2>1
<1> QED BY <1>2, <1>3, <1>4

\* A page that can be read and has a good entry is one document and no topic; one
\* that has none is no document.
LEMMA ListedAsDocument ==
  ASSUME NEW docs, docs.knowledge # Odd, IsSequence(docs.knowledge), NEW members,
         NEW i \in Accepted(docs)
  PROVE  Listings(docs, members, Page(docs, i)) = 1
<1> DEFINE p == Page(docs, i)
           doc(k) == [name |-> DocumentName(Entries(docs)[k]), page |-> SafeSkillRelative(Entries(docs)[k].path),
                      skills |-> IF Entries(docs)[k].skills = "*" THEN members ELSE ToSet(Entries(docs)[k].skills)]
<1>1. PICK k \in Recorded(docs) :
        Page(docs, k) = p /\ \A j \in Recorded(docs) : Page(docs, j) = p => j = k
  BY EachPageRecordedOnce
<1>2. Documents(docs, members) = {doc(j) : j \in Recorded(docs)}
  BY DEF Documents
<1>3. \A j : doc(j).page = Page(docs, j) /\ doc(j).name = Plainly(Page(docs, j))
  BY DEF Page, DocumentName
<1>4. {d \in Documents(docs, members) : d.page = p} = {doc(k)}
  <2> HIDE DEF doc, p
  <2> QED BY <1>1, <1>2, <1>3
<1>5. p \notin Topics(docs, members)
  <2>1. Plainly(p) \in {d.name : d \in Documents(docs, members)}
    <3> HIDE DEF doc, p
    <3> QED BY <1>1, <1>2, <1>3
  <2> QED BY <2>1 DEF Topics
<1>6. Cardinality({d \in Documents(docs, members) : d.page = p}) = 1
  BY <1>4, FS_Singleton
<1> QED BY <1>5, <1>6 DEF Listings

LEMMA NoDocument ==
  ASSUME NEW docs, docs.knowledge # Odd, NEW members, NEW p,
         \A i \in Accepted(docs) : Page(docs, i) # p
  PROVE  /\ Listings(docs, members, p) = IF p \in Topics(docs, members) THEN 1 ELSE 0
         /\ Plainly(p) \notin {d.name : d \in Documents(docs, members)}
<1>1. \A d \in Documents(docs, members) :
        \E i \in Accepted(docs) : d.page = Page(docs, i) /\ d.name = Plainly(Page(docs, i))
  BY RecordedIs DEF Documents, Page, DocumentName
<1>2. {d \in Documents(docs, members) : d.page = p} = {}
  BY <1>1
<1>3. \A d \in Documents(docs, members) : d.name # Plainly(p)
  BY <1>1, PlainlyTells
<1>4. Cardinality({d \in Documents(docs, members) : d.page = p}) = 0
  BY <1>2, FS_EmptySet
<1> QED BY <1>3, <1>4 DEF Listings

\* The help page needs no entry.
LEMMA HelpIsGood ==
  ASSUME NEW docs, IsSequence(docs.knowledge), ReadDocument(docs, HelpPage)
  PROVE  1 \in Accepted(docs) /\ Page(docs, 1) = HelpPage
<1>1. HelpPage \in DOMAIN docs.pages
  BY DEF ReadDocument
<1>2. Entries(docs)[1] = [path |-> Plainly(HelpPage), skills |-> "*"] /\ 1 \in 1..Len(Entries(docs))
  <2>1. Len(docs.knowledge) \in Nat
    BY DEF IsSequence
  <2> QED BY <1>1, <2>1, EntriesShape
<1>3. SafeSkillRelative(Plainly(HelpPage)) = HelpPage
  BY DEF SafeSkillRelative, Plainly
<1>4. WellFormed(Entries(docs)[1])
  BY <1>2, <1>3, PagesAssumption DEF WellFormed, SafePath, HasPath
<1> QED BY <1>2, <1>3, <1>4 DEF Accepted, Page

LEMMA ReadablePageListedOnce ==
  ASSUME NEW docs, docs.knowledge # Odd, IsSequence(docs.knowledge), NEW members,
         NEW p \in ({HelpPage} \cup TopicPages) \cap DOMAIN docs.pages, ReadDocument(docs, p)
  PROVE  Listings(docs, members, p) = 1
<1>1. CASE \E i \in Accepted(docs) : Page(docs, i) = p
  BY <1>1, ListedAsDocument
<1>2. CASE \A i \in Accepted(docs) : Page(docs, i) # p
  <2>1. p # HelpPage
    BY <1>2, HelpIsGood
  <2>2. p \in Topics(docs, members)
    BY <1>2, <2>1, NoDocument DEF Topics
  <2> QED BY <1>2, <2>2, NoDocument
<1> QED BY <1>1, <1>2

LEMMA UnreadablePageReported ==
  ASSUME NEW docs, docs.knowledge # Odd, IsSequence(docs.knowledge), NEW members,
         NEW p \in ({HelpPage} \cup TopicPages) \cap DOMAIN docs.pages, ~ReadDocument(docs, p)
  PROVE  /\ Listings(docs, members, p) = 0
         /\ p \in PageProblems(docs) \/ "file" \in Refusals(docs)
<1>1. \A i \in Accepted(docs) : Page(docs, i) # p
  BY DEF Accepted, Page
<1>2. Listings(docs, members, p) = 0
  <2>1. p \notin Topics(docs, members)
    BY DEF Topics
  <2> QED BY <1>1, <2>1, NoDocument
<1>3. p \in TopicPages => p \in PageProblems(docs)
  BY DEF PageProblems
<1>4. ASSUME p = HelpPage PROVE "file" \in Refusals(docs)
  <2>1. Entries(docs)[1] = [path |-> Plainly(HelpPage), skills |-> "*"] /\ 1 \in 1..Len(Entries(docs))
    <3>1. Len(docs.knowledge) \in Nat
      BY DEF IsSequence
    <3> QED BY <1>4, <3>1, EntriesShape
  <2>2. SafeSkillRelative(Plainly(HelpPage)) = HelpPage
    BY DEF SafeSkillRelative, Plainly
  <2>3. HasPath(Entries(docs)[1]) /\ SafePath(Entries(docs)[1]) /\ WellFormed(Entries(docs)[1])
    BY <2>1, <2>2, PagesAssumption DEF WellFormed, SafePath, HasPath
  <2>4. Recorded(docs) \subseteq 1..Len(Entries(docs)) /\ 1 \notin Recorded(docs)
    BY <1>1, <1>4, <2>1, <2>2, RecordedIs DEF Accepted, Page
  <2>5. \A j \in Recorded(docs) : ~(j < 1)
    BY <2>4, EntriesShape
  <2>6. Refusal(docs, 1) = "file"
    BY <2>3, <2>5 DEF Refusal
  <2> QED BY <2>1, <2>4, <2>6 DEF Refusals
<1> QED BY <1>2, <1>3, <1>4

\* Of a record that parses, the entries are well formed and name no page twice.
LEMMA ParsedEntries ==
  ASSUME NEW docs, IsSequence(docs.knowledge), ParsesKnowledge(docs)
  PROVE  /\ \A i \in 1..Len(Entries(docs)) :
              HasPath(Entries(docs)[i]) /\ SafePath(Entries(docs)[i]) /\ WellFormed(Entries(docs)[i])
         /\ \A i, j \in 1..Len(Entries(docs)) :
              j < i /\ Page(docs, j) = Page(docs, i) =>
                j = 1 /\ HelpPage \in DOMAIN docs.pages
<1> DEFINE k == docs.knowledge
           es == Entries(docs)
<1>0. Len(k) \in Nat
  BY DEF IsSequence
<1>1. /\ \A i \in 1..Len(k) : SafePath(k[i]) /\ k[i].skills # Odd
      /\ \A i, j \in 1..Len(k) :
           j < i => SafeSkillRelative(k[j].path) # SafeSkillRelative(k[i].path)
  BY <1>0 DEF ParsesKnowledge
<1>2. \A i \in 1..Len(k) : HasPath(k[i]) /\ WellFormed(k[i])
  BY <1>1 DEF SafePath, WellFormed
<1>3. CASE HelpPage \notin DOMAIN docs.pages
  BY <1>1, <1>2, <1>3, EntriesShape DEF Page
<1>4. CASE HelpPage \in DOMAIN docs.pages
  <2>1. /\ Len(es) = Len(k) + 1
        /\ es[1] = [path |-> Plainly(HelpPage), skills |-> "*"]
        /\ \A i \in 1..Len(k) : es[i + 1] = k[i]
    BY <1>4, EntriesShape
  <2>2. HasPath(es[1]) /\ SafePath(es[1]) /\ WellFormed(es[1])
    <3>1. SafeSkillRelative(Plainly(HelpPage)) = HelpPage
      BY DEF SafeSkillRelative, Plainly
    <3> QED BY <2>1, <3>1, PagesAssumption DEF WellFormed, SafePath, HasPath
  <2> HIDE DEF es, k
  <2>3. \A i \in 1..Len(es) : i # 1 => i - 1 \in 1..Len(k) /\ es[i] = k[i - 1]
    BY <1>0, <2>1
  <2>4. \A i \in 1..Len(es) : HasPath(es[i]) /\ SafePath(es[i]) /\ WellFormed(es[i])
    BY <1>1, <1>2, <2>2, <2>3 DEF k
  <2>5. ASSUME NEW i \in 1..Len(es), NEW j \in 1..Len(es), j < i, j # 1
        PROVE  SafeSkillRelative(es[j].path) # SafeSkillRelative(es[i].path)
    <3>1. i # 1 /\ i - 1 \in 1..Len(k) /\ j - 1 \in 1..Len(k) /\ j - 1 < i - 1
          /\ es[i] = k[i - 1] /\ es[j] = k[j - 1]
      BY <1>0, <2>1, <2>3, <2>5
    <3> QED BY <1>1, <3>1 DEF k
  <2> QED BY <1>4, <2>4, <2>5 DEF Page, es
<1> QED BY <1>3, <1>4

LEMMA ParsedRefusals ==
  ASSUME NEW docs, IsSequence(docs.knowledge), ParsesKnowledge(docs)
  PROVE  Refusals(docs) \subseteq {"file"} \cup
           (IF \E i \in 1..Len(docs.knowledge) : NamesHelp(docs.knowledge[i]) THEN {"twice"} ELSE {})
<1>1. docs.knowledge # Odd /\ Len(docs.knowledge) \in Nat
  BY DEF ParsesKnowledge, IsSequence
<1> SUFFICES ASSUME NEW i \in 1..Len(Entries(docs)), Refusal(docs, i) # "file"
             PROVE  /\ Refusal(docs, i) = "twice"
                    /\ \E h \in 1..Len(docs.knowledge) : NamesHelp(docs.knowledge[h])
  BY <1>1 DEF Refusals
<1>2. HasPath(Entries(docs)[i]) /\ SafePath(Entries(docs)[i]) /\ WellFormed(Entries(docs)[i])
  BY ParsedEntries
<1>3. /\ Refusal(docs, i) = "twice"
      /\ \E j \in Recorded(docs) : j < i /\ DocumentName(Entries(docs)[j]) = DocumentName(Entries(docs)[i])
  BY <1>2 DEF Refusal
<1>4. PICK j \in Recorded(docs) : j < i /\ Page(docs, j) = Page(docs, i)
  BY <1>3, PlainlyTells DEF DocumentName, Page
<1>5. j \in 1..Len(Entries(docs))
  BY RecordedIs DEF Accepted
<1>6. j = 1 /\ HelpPage \in DOMAIN docs.pages
  BY <1>4, <1>5, ParsedEntries
<1>7. /\ Len(Entries(docs)) = Len(docs.knowledge) + 1
      /\ Entries(docs)[1] = [path |-> Plainly(HelpPage), skills |-> "*"]
      /\ \A h \in 1..Len(docs.knowledge) : Entries(docs)[h + 1] = docs.knowledge[h]
  BY <1>6, EntriesShape
<1>8. i - 1 \in 1..Len(docs.knowledge) /\ Entries(docs)[i] = docs.knowledge[i - 1]
  BY <1>1, <1>4, <1>6, <1>7
<1>9. Page(docs, 1) = HelpPage
  BY <1>7 DEF Page, SafeSkillRelative, Plainly
<1>10. NamesHelp(docs.knowledge[i - 1])
  BY <1>2, <1>4, <1>6, <1>8, <1>9 DEF NamesHelp, Page
<1> QED BY <1>3, <1>8, <1>10

LEMMA TypedListed == InstallTypeOK => KnowledgeListedOnce
<1> SUFFICES ASSUME InstallTypeOK, NEW w \in KnownModules PROVE
      LET docs == Record(w).docs
      IN /\ docs.knowledge # Odd =>
              /\ \A p \in ({HelpPage} \cup TopicPages) \cap DOMAIN docs.pages :
                   IF ReadDocument(docs, p) THEN Listings(docs, KnownMembers(w), p) = 1
                   ELSE /\ Listings(docs, KnownMembers(w), p) = 0
                        /\ p \in PageProblems(docs) \/ "file" \in Refusals(docs)
              /\ ParsesKnowledge(docs) =>
                   Refusals(docs) \subseteq {"file"} \cup
                     (IF \E i \in 1..Len(docs.knowledge) : NamesHelp(docs.knowledge[i]) THEN {"twice"} ELSE {})
         /\ \A f \in DOMAIN docs.migrations :
              docs.migrations[f].table # None =>
                (f \in MigrationProblems(docs, Record(w).code)) # (f \in Migrations(docs, Record(w).code))
  BY DEF KnowledgeListedOnce
<1> DEFINE docs == Record(w).docs
<1>1. docs.knowledge = Odd \/ IsSequence(docs.knowledge)
  <2>1. w \in Folders /\ IsFile(installed[w]) /\ installed[w] \notin {Absent, NoFile, BadFile}
        /\ installed[w].bmod # None
    BY DEF InstallTypeOK, KnownModules, KnownRecords, Readable, File, Record
  <2> QED BY <2>1 DEF IsFile, IsRecord, Record, File
<1>2. ASSUME NEW f \in DOMAIN docs.migrations, docs.migrations[f].table # None
      PROVE  (f \in MigrationProblems(docs, Record(w).code)) # (f \in Migrations(docs, Record(w).code))
  BY <1>2 DEF MigrationProblems, Migrations
<1> HIDE DEF docs
<1>3. ASSUME docs.knowledge # Odd, NEW p \in ({HelpPage} \cup TopicPages) \cap DOMAIN docs.pages
      PROVE  IF ReadDocument(docs, p) THEN Listings(docs, KnownMembers(w), p) = 1
             ELSE /\ Listings(docs, KnownMembers(w), p) = 0
                  /\ p \in PageProblems(docs) \/ "file" \in Refusals(docs)
  BY <1>1, <1>3, ReadablePageListedOnce, UnreadablePageReported
<1>4. ASSUME docs.knowledge # Odd, ParsesKnowledge(docs)
      PROVE  Refusals(docs) \subseteq {"file"} \cup
               (IF \E i \in 1..Len(docs.knowledge) : NamesHelp(docs.knowledge[i]) THEN {"twice"} ELSE {})
  BY <1>1, <1>4, ParsedRefusals
<1> QED BY <1>2, <1>3, <1>4 DEF docs

(* For any pages, entries in any number and spelling, and migration files: a page of *)
(* a module is a document or a topic, never both, never two, or it is reported; what  *)
(* setup accepts is refused only for its file or for naming the help page.            *)
THEOREM PagesListedOnce == InstallSpec => []KnowledgeListedOnce
BY InstallTypeInit, InstallTypeStep, TypedListed, PTL DEF InstallSpec
=============================================================================
