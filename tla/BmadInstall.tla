----------------------------- MODULE BmadInstall -----------------------------
(***************************************************************************)
(* The skills installed beside the bmad hub and what the tools say of      *)
(* them: setup.py's discovery, status and setup, setup_check.py's notes to *)
(* a starting skill, and knowledge.py's scan.  Each reads the bmod.toml    *)
(* files on its own; nothing is recorded between them but `_bmad`.         *)
(*                                                                         *)
(* A folder is Absent, has NoFile, a BadFile nobody can read, or a file    *)
(* [bmod, skill, strict]: each part a record or None, and whether every    *)
(* field but `knowledge` passes setup's checks.  A record has a code, a    *)
(* version, a source, skills (or None), questions, required skills and     *)
(* docs; a skill has a bmod, a source (both None in a record's own file),  *)
(* scripts and required skills.  A version is [core, pre], pre a number in *)
(* SemVer's order or None, or it is Odd.                                   *)
(***************************************************************************)
EXTENDS Integers, KnowledgeDocs

CONSTANTS
  Folders,    \* the folder names skills are installed under
  Rank,       \* [Folders -> Nat], the order of their names
  Hub,        \* the bmad skill's folder
  Fold,       \* [module codes -> the code without case]
  Catalogs,   \* what the sources serve: [Folders -> a file or Absent]
  Installations, \* those a behaviour starts from
  ScriptFiles, \* the scripts skills bring: pairs of name and content
  Absent, NoFile, BadFile,
  NextPre,    \* the number of the prerelease "next"
  MaxChanges  \* bound on what the user does on his own

IsSequence(s) == Len(s) \in Nat /\ s = [i \in 1..Len(s) |-> s[i]]

\* What setup's parsing leaves of the parts of a file that parses; a module asks
\* its team or its user.
IsRecord(record) ==
  /\ record.code \in DOMAIN Fold
  /\ \A q \in record.questions : q[2] \in {"team", "user"}
  /\ record.docs.knowledge = Odd \/ IsSequence(record.docs.knowledge)
IsSkill(skill) == skill.scripts \subseteq ScriptFiles
IsFile(file) ==
  file \in {Absent, NoFile, BadFile}
    \/ /\ file.bmod # None => IsRecord(file.bmod)
       /\ file.skill # None => IsSkill(file.skill)

ASSUME InstallAssumption ==
  /\ None \notin Folders \cup DOMAIN Fold
  /\ \A scripts \in SUBSET ScriptFiles : scripts # None
  /\ Rank \in [Folders -> Nat] /\ \A f, g \in Folders : Rank[f] = Rank[g] => f = g
  /\ \A files \in Catalogs \cup Installations :
       DOMAIN files = Folders /\ \A f \in Folders : IsFile(files[f])

VARIABLES
  catalog,   \* what the sources serve now
  installed, \* the folders: [Folders -> Absent, NoFile, BadFile or a file]
  shared,    \* the parts of `_bmad` that belong to no module
  placed,    \* each module's scripts under `_bmad`: pairs of name and content, or None
  answers,   \* the questions answered in config.toml, custom/config.toml and the user's file
  changes    \* what the user did on his own so far

installVars == <<catalog, installed, shared, placed, answers, changes>>

-----------------------------------------------------------------------------
(* Versions.                                                               *)

Sign(n) == IF n < 0 THEN -1 ELSE IF n > 0 THEN 1 ELSE 0

\* A release (pre = None) comes after every prerelease of its core; Odd when
\* one of the two cannot be ordered.
Compare(v, w) ==
  CASE v = Odd \/ w = Odd -> Odd
    [] v # Odd /\ w # Odd /\ v.core # w.core -> Sign(v.core - w.core)
    [] OTHER -> IF v.pre = w.pre THEN 0
                ELSE IF v.pre = None THEN 1 ELSE IF w.pre = None THEN -1 ELSE Sign(v.pre - w.pre)

\* Mutant: a development build is not what it will become.
MeetsPlain(v, minimum) ==
  CASE Compare(v, minimum) = Odd -> "unorderable"
    [] Compare(v, minimum) \in {0, 1} -> "met"
    [] OTHER -> "outdated"

\* X-next already holds all that X will.
MeetsMinimum(v, minimum) ==
  CASE Compare(v, minimum) = Odd -> "unorderable"
    [] Compare(v, minimum) \in {0, 1} -> "met"
    [] OTHER -> IF v.core = minimum.core /\ minimum.pre = None /\ v.pre = NextPre
                THEN "met" ELSE "outdated"

VersionState(v, source) ==
  CASE Compare(v, source) = Odd -> "differing-unordered"
    [] Compare(v, source) = 0 -> "current"
    [] Compare(v, source) = -1 -> "newer-available"
    [] OTHER -> "ahead"

Channel(source) == CASE source = "plugin" -> "plugin" [] source = "file" -> "local" [] OTHER -> "skills-cli"
InstallCommand(source, f) == IF source = "github" THEN <<"add", f>> ELSE None

-----------------------------------------------------------------------------
(* Discovery.                                                              *)

File(f) == installed[f]
Present(f) == File(f) # Absent
Readable(f) == File(f) \notin {Absent, NoFile, BadFile}
Record(f) == File(f).bmod
Usable(f) ==
  Readable(f) /\ File(f).strict /\ (Record(f) # None => ParsesKnowledge(Record(f).docs))
Files == {f \in Folders : Usable(f)}
HasRecord(f) == Usable(f) /\ Record(f) # None
HasSkill(f) == Usable(f) /\ File(f).skill # None
QuestionsOf(w) == Record(w).questions
ScriptsOf(f) == File(f).skill.scripts
RequiredBy(part) == part.required

\* The record a skill belongs to: its own file's, or the one it names.
RecordOf(f) ==
  IF HasRecord(f) THEN f
  ELSE IF File(f).skill.bmod \in Folders /\ HasRecord(File(f).skill.bmod) THEN File(f).skill.bmod
  ELSE None

MemberNames(f) ==
  IF Record(f).skills # None THEN Record(f).skills ELSE IF HasSkill(f) THEN {f} ELSE {}

Records == {f \in Files : HasRecord(f)}

SameCode(f, g) == Fold[Record(f).code] = Fold[Record(g).code]

\* Mutant: a record replaces one of its code that sorts before it.
WinnersLast == {f \in Records : \A g \in Records : SameCode(f, g) => Rank[g] <= Rank[f]}

\* One record a code, the first by folder name; setup stops at codes that differ
\* only by case.
Winners == {f \in Records : \A g \in Records : SameCode(f, g) => Rank[f] <= Rank[g]}
CaseClash == \E f, g \in Records : SameCode(f, g) /\ Record(f).code # Record(g).code

\* Installed skills the record lists that are its own.
Members(w) ==
  {f \in MemberNames(w) \cap Folders :
     HasSkill(f) /\ (f = w \/ (~HasRecord(f) /\ File(f).skill.bmod = w))}

Problems ==
  {<<"bmod-file", f>> : f \in {g \in Folders : File(g) = BadFile \/ (Readable(g) /\ ~Usable(g))}}
    \cup {<<"duplicate", f>> : f \in Records \ Winners}
    \cup {<<"listed", f>> : f \in {g \in Files : HasSkill(g) /\ \E w \in Winners :
                                     g \in MemberNames(w) \ Members(w)}}
    \cup {<<"unlisted", f>> : f \in {g \in Files : HasSkill(g) /\ RecordOf(g) # None
                                       /\ g \notin MemberNames(RecordOf(g))}}

\* Skills whose record is not installed.
MissingRecords == {f \in Files : HasSkill(f) /\ RecordOf(f) = None}

Scripts(w) == UNION {ScriptsOf(f) : f \in Members(w)}
ScriptsClash(w) == \E a, b \in Scripts(w) : a[1] = b[1] /\ a[2] # b[2]

-----------------------------------------------------------------------------
(* Requirements.                                                           *)

\* The version of the module a folder's skill belongs to; a file that cannot be
\* read has none.
ModuleVersion(f) ==
  IF HasRecord(f) THEN Record(f).version
  ELSE IF HasSkill(f) /\ RecordOf(f) # None THEN Record(RecordOf(f)).version ELSE None

NamesARecord(f) == HasSkill(f) /\ ~HasRecord(f)

RequirementCheck(req) ==
  CASE ~Present(req.skill) -> "missing"
    [] Present(req.skill) /\ req.version = None -> "met"
    [] Present(req.skill) /\ req.version # None /\ ModuleVersion(req.skill) = None
         -> IF NamesARecord(req.skill) THEN "met" ELSE "unknown-version"
    [] OTHER -> MeetsMinimum(ModuleVersion(req.skill), req.version)

OwnSource(f) ==
  IF ~HasRecord(f) THEN File(f).skill.source
  ELSE Record(f).source

\* What a record's list asks for the module, and a skill's own list for the skill.
Asked(w) == {[by |-> w, code |-> Record(w).code, req |-> r, source |-> Record(w).source] :
               r \in RequiredBy(Record(w))}
AskedBySkill(f) ==
  {[by |-> f, code |-> IF RecordOf(f) = None THEN None ELSE Record(RecordOf(f)).code,
    req |-> r, source |-> OwnSource(f)] : r \in RequiredBy(File(f).skill)}

\* Mutant: the skills' own lists left out.
UnmetOfModules(code) ==
  {u \in UNION {Asked(w) : w \in Winners} :
     /\ u.req.skill # u.by /\ (code = None \/ u.code = code)
     /\ RequirementCheck(u.req) # "met"}

Unmet(code) ==
  {u \in (UNION {Asked(w) : w \in Winners}) \cup (UNION {AskedBySkill(f) : f \in {g \in Files : HasSkill(g)}}) :
     /\ u.req.skill # u.by /\ (code = None \/ u.code = code)
     /\ RequirementCheck(u.req) # "met"}

SourceOf(u) == IF u.req.source # None THEN u.req.source ELSE u.source
Outdated(u) == RequirementCheck(u.req) \in {"outdated", "unknown-version"} /\ Channel(SourceOf(u)) = "skills-cli"

-----------------------------------------------------------------------------
(* Setup's questions, status and the next step.                            *)

\* A team question is answered in config.toml, a user question in the user's file.
PendingQuestions(scope) ==
  {q \in UNION {QuestionsOf(w) : w \in scope} :
     q \notin (IF q[2] = "user" THEN answers.user ELSE answers.team)}

ScriptsState(w) ==
  CASE ScriptsClash(w) -> "could-not-check"
    [] ~ScriptsClash(w) /\ placed[Record(w).code] = None -> "missing"
    [] OTHER -> IF placed[Record(w).code] = Scripts(w) THEN "current" ELSE "stale"

UpdateState(w) ==
  CASE Record(w).source = "plugin" -> "plugin-managed"
    [] Record(w).source # "plugin" /\ (catalog[w] \in {Absent, NoFile, BadFile} \/ catalog[w].bmod = None)
         -> "could-not-check"
    [] OTHER -> VersionState(Record(w).version, catalog[w].bmod.version)

SetupOwed(scope) ==
  shared # "current" \/ PendingQuestions(scope) # {} \/ \E w \in scope : ScriptsState(w) \in {"missing", "stale"}

\* Absent things first, then updates, then setup.
NextStep(scope, code) ==
  LET records == {InstallCommand(File(f).skill.source, File(f).skill.bmod) : f \in MissingRecords}
      skills == {InstallCommand(SourceOf(u), u.req.skill) :
                   u \in {v \in Unmet(code) : RequirementCheck(v.req) = "missing"}}
  IN CASE records \ {None} # {} -> records \ {None}
       [] records \ {None} = {} /\ skills \ {None} # {} -> skills \ {None}
       [] OTHER -> IF (\E u \in Unmet(code) : Outdated(u))
                      \/ \E w \in scope : UpdateState(w) = "newer-available" THEN {<<"update">>}
                   ELSE IF SetupOwed(scope) THEN {<<"setup">>} ELSE {}

StatusProblems == Problems \cup {<<"scripts", w>> : w \in {v \in Winners : ScriptsClash(v)}}

\* What status may call current.
StatusCurrent ==
  /\ ~CaseClash
  /\ NextStep(Winners, None) = {} /\ Unmet(None) = {} /\ StatusProblems = {}
  /\ MissingRecords = {}
  /\ \A w \in Winners : UpdateState(w) \in {"current", "ahead", "plugin-managed", "could-not-check"}

-----------------------------------------------------------------------------
(* setup_check.py: what a starting skill is told.                          *)

\* Of a skill's and its record's demands for one folder, the higher minimum.
Wanted(f) ==
  LET all == RequiredBy(File(f).skill) \cup
             (IF RecordOf(f) = None THEN {} ELSE RequiredBy(Record(RecordOf(f))))
      higher(a, b) == a.version # None /\ (b.version = None \/ Compare(a.version, b.version) = 1)
  IN {r \in all : r.skill # f /\ \A o \in all : o.skill = r.skill => ~higher(o, r)}

\* The merged central config: any of the three files answers a question.
AnsweredAnywhere == answers.team \cup answers.custom \cup answers.user

Unreadable(f) == f \in Folders /\ (File(f) = BadFile \/ (Readable(f) /\ ~Usable(f)))

\* A file that cannot be used ends the check without a note.
Owed(f) ==
  IF ~HasSkill(f) \/ (~HasRecord(f) /\ Unreadable(File(f).skill.bmod)) THEN {}
  ELSE LET record == RecordOf(f)
           scripts == ScriptsOf(f)
           there == IF record = None \/ placed[Record(record).code] = None THEN {}
                    ELSE placed[Record(record).code]
       IN (IF record = None THEN {<<"record", File(f).skill.bmod>>} ELSE {})
          \cup {<<RequirementCheck(r), r.skill>> :
                  r \in {x \in Wanted(f) : RequirementCheck(x) \in {"missing", "outdated", "unknown-version"}}}
          \cup (IF record # None /\ shared # "missing" /\ ~(QuestionsOf(record) \subseteq AnsweredAnywhere)
                THEN {<<"questions">>} ELSE {})
          \cup (IF record # None /\ shared # "missing" /\ ~(scripts \subseteq there)
                THEN {<<"scripts">>} ELSE {})

-----------------------------------------------------------------------------
(* knowledge.py: the same files, read with other rules.                    *)

\* It asks little of a record, and takes the first of a code.
KnownRecords == {f \in Folders : Readable(f) /\ Record(f) # None}
KnownModules == {f \in KnownRecords : \A g \in KnownRecords : SameCode(f, g) => Rank[f] <= Rank[g]}

\* A skill's module is its record's, even one another record has shadowed.
KnownModule(f) ==
  LET bmod == IF Record(f) # None THEN f ELSE File(f).skill.bmod
  IN IF bmod \in KnownRecords THEN Record(bmod).code ELSE None
AbsentRecords ==
  {File(f).skill.bmod : f \in {g \in Folders : Readable(g) /\ File(g).skill # None /\ KnownModule(g) = None}}

KnownMembers(w) ==
  IF Record(w).skills # None THEN Record(w).skills
  ELSE IF File(w).skill # None THEN {w} ELSE {}

-----------------------------------------------------------------------------
(* What changes the installation.                                          *)

\* Mutant: one module's scripts placed as the last skill's alone.
PlaceOne(w) == IF Members(w) = {} THEN {} ELSE ScriptsOf(CHOOSE f \in Members(w) : TRUE)

\* A module's scripts are those of all its installed skills, and no others.
Place(w) == Scripts(w)

\* Setup of one module or of all; it stops before it writes when codes clash or
\* two skills place different scripts under one name.
SetupRaises(scope) == CaseClash \/ \E w \in scope : ScriptsClash(w)

Setup(scope) ==
  /\ ~SetupRaises(scope)
  /\ shared' = "current"
  /\ placed' = [c \in DOMAIN Fold |->
       IF \E w \in scope : Record(w).code = c
       THEN Place(CHOOSE w \in scope : Record(w).code = c) ELSE placed[c]]
  /\ answers' = [answers EXCEPT
       !.team = @ \cup {q \in PendingQuestions(scope) : q[2] = "team"},
       !.user = @ \cup {q \in PendingQuestions(scope) : q[2] = "user"}]
  /\ UNCHANGED <<catalog, installed>>

\* npx skills (external): add installs one folder, update refreshes them all.  A
\* hub that changed brings other shared scripts.
Install(files) ==
  /\ installed' = files
  /\ shared' = IF files[Hub] # File(Hub) /\ shared = "current" THEN "stale" ELSE shared
  /\ UNCHANGED <<catalog, placed, answers>>
Add(f) == Install([installed EXCEPT ![f] = catalog[f]])
Update == Install([f \in Folders |-> IF Present(f) /\ catalog[f] # Absent THEN catalog[f] ELSE File(f)])

\* The user runs what status names.
FollowAdd ==
  /\ \E f \in Folders : <<"add", f>> \in NextStep(Winners, None) /\ catalog[f] # Absent /\ Add(f)
  /\ UNCHANGED changes
FollowUpdate == NextStep(Winners, None) = {<<"update">>} /\ Update /\ UNCHANGED changes
FollowSetup == NextStep(Winners, None) = {<<"setup">>} /\ Setup(Winners) /\ UNCHANGED changes

\* The user does something of his own.
Own == changes < MaxChanges /\ changes' = changes + 1
OwnAdd(f) == Own /\ catalog[f] # Absent /\ Add(f)
OwnRemove(f) ==
  /\ Own /\ f # Hub /\ Present(f)
  /\ installed' = [installed EXCEPT ![f] = Absent]
  /\ UNCHANGED <<catalog, shared, placed, answers>>
OwnSetup(w) == Own /\ Setup({w})
OwnAnswer(q) ==
  /\ Own /\ shared # "missing"
  /\ answers' = [answers EXCEPT !.custom = @ \cup {q}]
  /\ UNCHANGED <<catalog, installed, shared, placed>>
Release(c) ==
  /\ Own /\ catalog' = c
  /\ UNCHANGED <<installed, shared, placed, answers>>

InstallInit ==
  /\ catalog \in Catalogs /\ installed \in Installations
  /\ shared = "missing" /\ placed = [c \in DOMAIN Fold |-> None]
  /\ answers = [team |-> {}, custom |-> {}, user |-> {}]
  /\ changes = 0

Follow == FollowAdd \/ FollowUpdate \/ FollowSetup
InstallNext ==
  \/ Follow
  \/ \E f \in Folders : OwnAdd(f) \/ OwnRemove(f)
  \/ \E w \in Winners : OwnSetup(w)
  \/ \E w \in Winners : \E q \in QuestionsOf(w) : OwnAnswer(q)
  \/ \E c \in Catalogs : Release(c)

InstallSpec == InstallInit /\ [][InstallNext]_installVars
FairSpec == InstallSpec /\ WF_installVars(Follow)

-----------------------------------------------------------------------------
(* Properties.                                                             *)

InstallTypeOK ==
  /\ DOMAIN catalog = Folders /\ \A f \in Folders : IsFile(catalog[f])
  /\ DOMAIN installed = Folders /\ \A f \in Folders : IsFile(installed[f])
  /\ DOMAIN placed = DOMAIN Fold
  /\ \A c \in DOMAIN Fold : placed[c] = None \/ placed[c] \subseteq ScriptFiles
  /\ DOMAIN answers = {"team", "custom", "user"}

\* What a record asks of the folder it is in itself: status passes over it, a member
\* that starts does not.
OwnDemands(w) ==
  {<<RequirementCheck(r), w>> : r \in {x \in RequiredBy(Record(w)) : x.skill = w}}

\* When status calls the installation current, no skill that starts is told that
\* anything is owed, but for a demand of its record for the record itself: two
\* programs that read the same files for themselves agree.
CurrentMeansNothingOwed ==
  StatusCurrent =>
    \A f \in Files : HasSkill(f) =>
      Owed(f) \subseteq IF HasRecord(f) THEN {} ELSE OwnDemands(RecordOf(f))

\* A setup of everything, on an installation without problems, pays what every
\* skill is owed by setup: its module's questions and scripts.
SetupPaysDebts ==
  [][(Problems = {} /\ ~CaseClash /\ Setup(Winners)) =>
       (\A f \in Folders : Owed(f) \cap {<<"questions">>, <<"scripts">>} = {})']_installVars

AtLeast(v, w) ==
  \/ v.core > w.core
  \/ v.core = w.core /\ (v.pre = None \/ (w.pre = None /\ v.pre = NextPre)
                          \/ (w.pre # None /\ v.pre >= w.pre))

\* The sources serve every installed folder, and what they serve, or is installed,
\* names records and needs skills that they serve recent enough.
Served(f) == f \in Folders /\ catalog[f] \notin {Absent, NoFile, BadFile} /\ catalog[f].strict
RecordServed(f) == Served(f) /\ catalog[f].bmod # None
ServedVersion(f) == catalog[IF RecordServed(f) THEN f ELSE catalog[f].skill.bmod].bmod.version
Serves ==
  /\ \A f \in Folders : Present(f) => Served(f)
  /\ \A file \in {catalog[f] : f \in {g \in Folders : Served(g)}} \cup {File(f) : f \in Files} :
       /\ file.skill # None /\ file.bmod = None => RecordServed(file.skill.bmod)
       /\ \A part \in {file.bmod, file.skill} \ {None} : \A r \in RequiredBy(part) :
            Served(r.skill) /\ (r.version # None => AtLeast(ServedVersion(r.skill), r.version))

\* Following `next` comes to an end, at an installation with nothing left to run
\* or one setup refuses, when the sources serve what their skills ask for.
FollowingNextEnds ==
  <>[](Serves => NextStep(Winners, None) = {} \/ CaseClash \/ SetupRaises(Winners))

\* Where every file passes setup's checks, knowledge takes the same record for
\* each code, gives each skill to the same module and misses the same records.
KnowledgeAgrees ==
  (\A f \in Folders : Readable(f) => Usable(f)) =>
    /\ KnownModules = Winners
    /\ \A f \in Files : HasSkill(f) =>
         KnownModule(f) = IF RecordOf(f) = None THEN None ELSE Record(RecordOf(f)).code
    /\ AbsentRecords = {File(f).skill.bmod : f \in MissingRecords}

\* Every help page of a module that can be read is listed once, as a document or
\* as a topic, however its record writes the path, and every other is reported; of
\* a record setup accepts an entry is refused only for its file, or because it names
\* the page that needs no entry; and what has a migration table and is not offered
\* for the module is reported.
KnowledgeListedOnce ==
  \A w \in KnownModules :
    LET docs == Record(w).docs
    IN /\ docs.knowledge # Odd =>
            /\ \A p \in ({HelpPage} \cup TopicPages) \cap DOMAIN docs.pages :
                 IF ReadDocument(docs, p) THEN Listings(docs, KnownMembers(w), p) = 1
                 ELSE /\ Listings(docs, KnownMembers(w), p) = 0
                      /\ p \in PageProblems(docs) \/ "file" \in Refusals(docs)
            /\ ParsesKnowledge(docs) =>
                 Refusals(docs) \subseteq {"file"} \cup
                   (IF \E i \in 1..Len(docs.knowledge) : NamesHelp(docs.knowledge[i]) THEN {"twice"} ELSE {})
       /\ \A f \in DOMAIN docs.migrations :
            docs.migrations[f].table # None =>
              (f \in MigrationProblems(docs, Record(w).code)) # (f \in Migrations(docs, Record(w).code))
=============================================================================
