---------------------------- MODULE KnowledgeDocs ----------------------------
(***************************************************************************)
(* What a module record says about documents, read twice: setup.py refuses *)
(* a file whose `knowledge` it cannot parse (parse_knowledge), knowledge.py *)
(* makes the best of any record and lists documents, topics and migrations. *)
(*                                                                         *)
(* A page is a path inside the record's folder.  A path as written is      *)
(* [page, way]: the plain page, the same page by a "dotted" path, or one   *)
(* that is "unsafe" (an escape, a URL, a drive).  An entry has a path or   *)
(* None, and skills: "*", a sequence of names, or Odd for any other     *)
(* value.  The `knowledge` of a record is a sequence of entries or Odd.    *)
(*                                                                         *)
(* A folder's docs are [knowledge, pages, migrations]: which pages exist   *)
(* and whether each is "text", and for each other *.toml file whether it   *)
(* can be read and its [migration] table: None, Odd or [module,         *)
(* complete], complete when every required field is there.                 *)
(***************************************************************************)
EXTENDS Naturals, Sequences, SequencesExt

CONSTANTS
  HelpPage,   \* help/help.md
  TopicPages, \* the other pages that match help/*.md
  None, Odd

Plainly(page) == [page |-> page, way |-> "plain"]

\* None and Odd stand for no value of theirs.
ASSUME PagesAssumption == None # HelpPage /\ None # Plainly(HelpPage) /\ Odd # "*"

\* One rule in both programs: what cannot escape the folder, without its dots.
SafeSkillRelative(path) == IF path.way = "unsafe" THEN None ELSE path.page

HasPath(entry) == entry.path # None
SafePath(entry) == HasPath(entry) /\ SafeSkillRelative(entry.path) # None

\* setup.py takes a record whose paths are safe and named once, and whose skill
\* lists are lists that name nobody twice.
ParsesKnowledge(docs) ==
  /\ docs.knowledge # Odd
  /\ \A i \in 1..Len(docs.knowledge) :
       LET entry == docs.knowledge[i]
       IN /\ SafePath(entry) /\ entry.skills # Odd
          /\ entry.skills # "*" => IsInjective(entry.skills)
          /\ \A j \in 1..(i - 1) :
               SafeSkillRelative(docs.knowledge[j].path) # SafeSkillRelative(entry.path)

ReadDocument(docs, page) == page \in DOMAIN docs.pages /\ docs.pages[page] = "text"

-----------------------------------------------------------------------------
(* knowledge.py's reading of the docs of a record with these members.      *)

\* help/help.md needs no entry.
Entries(docs) ==
  (IF HelpPage \in DOMAIN docs.pages
   THEN <<[path |-> Plainly(HelpPage), skills |-> "*"]>> ELSE <<>>)
    \o docs.knowledge

WellFormed(entry) == SafePath(entry) /\ entry.skills # Odd

\* Mutant: a document kept under the path as its entry writes it.
NameAsWritten(entry) == entry.path

\* The name a document is kept under: its path without dots.
DocumentName(entry) == Plainly(SafeSkillRelative(entry.path))

\* The documents: the first good entry of each name whose page can be read.
Recorded(docs) ==
  LET entries == Entries(docs)
      good == {i \in 1..Len(entries) :
                 WellFormed(entries[i]) /\ ReadDocument(docs, SafeSkillRelative(entries[i].path))}
  IN {i \in good : \A j \in good : DocumentName(entries[j]) = DocumentName(entries[i]) => i <= j}

Documents(docs, members) ==
  IF docs.knowledge = Odd THEN {}
  ELSE {[name |-> DocumentName(Entries(docs)[i]),
         page |-> SafeSkillRelative(Entries(docs)[i].path),
         skills |-> IF Entries(docs)[i].skills = "*" THEN members ELSE ToSet(Entries(docs)[i].skills)] :
          i \in Recorded(docs)}

\* Why each other entry is none.
Refusal(docs, i) ==
  LET entry == Entries(docs)[i]
  IN CASE ~HasPath(entry) -> "no path"
       [] HasPath(entry) /\ ~SafePath(entry) -> "unsafe"
       [] SafePath(entry) /\ ~WellFormed(entry) -> "skills"
       [] OTHER -> IF \E j \in Recorded(docs) :
                        j < i /\ DocumentName(Entries(docs)[j]) = DocumentName(entry)
                   THEN "twice" ELSE "file"

Refusals(docs) ==
  IF docs.knowledge = Odd THEN {"not a list"}
  ELSE {Refusal(docs, i) : i \in (1..Len(Entries(docs))) \ Recorded(docs)}

\* Topics are the other help pages that no document has.
Topics(docs, members) ==
  {p \in TopicPages \cap DOMAIN docs.pages :
     ReadDocument(docs, p) /\ Plainly(p) \notin {d.name : d \in Documents(docs, members)}}
PageProblems(docs) ==
  {p \in TopicPages \cap DOMAIN docs.pages : ~ReadDocument(docs, p)}

\* A file is a migration of the record when its table is whole and names the
\* record's code as the record spells it; without a table it is none of ours.
MigrationProblem(m, code) ==
  CASE ~m.readable -> "file"
    [] m.readable /\ m.table = None -> None
    [] m.readable /\ m.table = Odd -> "not a table"
    [] OTHER -> IF ~m.table.complete THEN "incomplete"
                ELSE IF m.table.module # code THEN "another module" ELSE None

MigrationProblems(docs, code) ==
  {f \in DOMAIN docs.migrations : MigrationProblem(docs.migrations[f], code) # None}
Migrations(docs, code) ==
  {f \in DOMAIN docs.migrations :
     docs.migrations[f].table # None /\ MigrationProblem(docs.migrations[f], code) = None}

-----------------------------------------------------------------------------
\* How often a page is listed, whatever a document is called.
Listings(docs, members, p) ==
  Cardinality({d \in Documents(docs, members) : d.page = p}) + (IF p \in Topics(docs, members) THEN 1 ELSE 0)

NamesHelp(entry) == HasPath(entry) /\ SafeSkillRelative(entry.path) = HelpPage
=============================================================================
