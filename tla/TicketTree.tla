----------------------------- MODULE TicketTree -----------------------------
(***************************************************************************)
(* tickets.py: a ticket tree on disk, what it answers (next, find) and the *)
(* two commands that write to it (pull, mark), run by several agents at    *)
(* once with no lock.  A command is a read of the whole tree, an open that *)
(* truncates or creates its one file, and a write; it can die in between.  *)
(*                                                                         *)
(* An entry id, an epic and a file name are values of small sets; a title  *)
(* is the name its file gets (title_slug), so two entries may have one.    *)
(* A ticket's key is <<epic, id>>, <<epic, name>> for a leaf file with no  *)
(* id, and <<epic>> stands for a whole epic.  No file has a tracker_id,    *)
(* the form of a reference that is tried when the others name nothing.     *)
(***************************************************************************)
EXTENDS Naturals, FiniteSets, Sequences

CONSTANTS
  Epics,        \* the epic folders of one initiative
  Ids,          \* the ids an entry can have
  Names,        \* leaf file names, each also the stem of a default plan name
  PlanNames,    \* plan file names; a build may have chosen any of them
  Agents,       \* who runs the commands
  MarkStatuses, \* the statuses the commands mark
  Trees,        \* the trees a behaviour starts from
  Nothing,      \* no file, no id, no `after`, no scope
  Blank,        \* a file that is open for writing, or was when its writer died
  MaxCommands   \* bound on the commands run

ASSUME NamesArePlanNames == Names \subseteq PlanNames /\ IsFiniteSet(PlanNames)
ASSUME FoldersAreFinite == IsFiniteSet(Epics) /\ IsFiniteSet(Ids)
ASSUME IdsAreNotNames == Ids \cap Names = {} /\ Nothing \notin Ids \cup Names \cup Epics

VARIABLES
  store,      \* which store keeps the status: "repo" or a tracker
  breakdown,  \* the tickets.toml files: the epics listed, the epics each of them is
              \* after, and each epic's entries
  gate,       \* an epic file's own `after`
  container,  \* an epic file's status
  leaf,       \* the leaf files
  plan,       \* the plan files
  cmd,        \* what each agent's command holds between its steps
  commands,   \* commands and edits made so far
  torn        \* history: a command read the tree while a file lay empty, still open
              \* for writing or left so by a writer that died

disk == <<store, breakdown, gate, container, leaf, plan>>
vars == <<store, breakdown, gate, container, leaf, plan, cmd, commands, torn>>

Statuses == {"", "draft", "ready-for-dev", "in-progress", "in-review", "built",
             "done", "blocked", "dropped"}
ContainerStatuses == {"in-progress", "done", "dropped"}
States == {"backlog", "in-progress", "review", "done", "dropped"}

StateOf(status) ==
  CASE status \in {"", "draft", "ready-for-dev"} -> "backlog"
    [] status \in {"in-progress", "blocked"} -> "in-progress"
    [] status \in {"in-review", "built"} -> "review"
    [] OTHER -> status

Idle == [pc |-> "idle"]

-----------------------------------------------------------------------------
(* What a tree can be.                                                     *)

Keys == Epics \X (Ids \cup Names)

\* What an `after` can name; Resolve and RefTo say how each form is read and written.
AfterRefs ==
  ({"id"} \X Ids) \cup ({"file"} \X Names) \cup ({"cross"} \X Epics \X Ids)
    \cup ({"epic"} \X Epics) \cup ({"key"} \X Keys)

Entries == [name: Names, refine: BOOLEAN, after: SUBSET AfterRefs]

LeafFiles ==
  [id: Ids \cup {Nothing}, status: Statuses, tracker: States \cup {""}, blocked: BOOLEAN,
   refined: BOOLEAN, after: (SUBSET AfterRefs) \cup {Nothing}]

PlanFiles == [ticket: Ids \cup Names, status: Statuses, blocked: BOOLEAN]

Breakdown(b) ==
  /\ b.listed \subseteq Epics
  /\ \A e \in b.listed : b.after[e] \subseteq Epics
  /\ \A e \in Epics : /\ DOMAIN b.entry[e] \subseteq Ids
                       /\ \A n \in DOMAIN b.entry[e] : b.entry[e][n] \in Entries

Files == [gate: [Epics -> SUBSET AfterRefs],
          container: [Epics -> ContainerStatuses],
          leaf: [Epics -> [Names -> LeafFiles \cup {Nothing, Blank}]],
          plan: [Epics -> [PlanNames -> PlanFiles \cup {Nothing, Blank}]]]

ASSUME TreesAreTyped ==
  \A t \in Trees :
    /\ t.store \in {"repo", "tracker"} /\ Breakdown(t.breakdown)
    /\ [gate |-> t.gate, container |-> t.container, leaf |-> t.leaf, plan |-> t.plan] \in Files
ASSUME NothingIsNoFile ==
  /\ Nothing # Blank
  /\ Nothing \notin LeafFiles /\ Nothing \notin PlanFiles
  /\ Blank \notin LeafFiles /\ Blank \notin PlanFiles
ASSUME MarksAreStatuses == MarkStatuses \subseteq Statuses

-----------------------------------------------------------------------------
(* Loading: which tickets an epic folder has, and what joins them.         *)

IsFile(content) == content \notin {Nothing, Blank}

Leaves(e) == {s \in Names : IsFile(leaf[e][s])}
EntryIds(e) == DOMAIN breakdown.entry[e]

TicketsOf(e) ==
  {<<e, n>> : n \in EntryIds(e) \cup ({leaf[e][s].id : s \in Leaves(e)} \ {Nothing})}
    \cup {<<e, s>> : s \in {f \in Leaves(e) : leaf[e][f].id = Nothing}}
Tickets == UNION {TicketsOf(e) : e \in Epics}
EpicKeys == {<<e>> : e \in Epics}

\* The leaf file that carries the ticket's id, or the file that is the ticket.
FilesOf(k) ==
  {s \in Leaves(k[1]) : IF k[2] \in Ids THEN leaf[k[1]][s].id = k[2] ELSE s = k[2]}
FileOf(k) == IF FilesOf(k) = {} THEN Nothing ELSE CHOOSE s \in FilesOf(k) : TRUE
Listed(k) == k[2] \in EntryIds(k[1])
Entry(k) == breakdown.entry[k[1]][k[2]]

\* A plan's `ticket` names an entry id or a leaf file's stem.
Plans(e) == {p \in PlanNames : IsFile(plan[e][p])}
PlansOf(k) == {p \in Plans(k[1]) : plan[k[1]][p].ticket \in {k[2], FileOf(k)}}
PlanOf(k) == plan[k[1]][CHOOSE p \in PlansOf(k) : TRUE]

FolderLoads(e) ==
  /\ \A k \in TicketsOf(e) : Cardinality(FilesOf(k)) <= 1 /\ Cardinality(PlansOf(k)) <= 1
  /\ \A p \in Plans(e) : \E k \in TicketsOf(e) : p \in PlansOf(k)

\* A plan holds the ticket's status fields; a leaf file's own are read only without one.
Status(k) == IF PlansOf(k) # {} THEN PlanOf(k).status
             ELSE IF FileOf(k) # Nothing THEN leaf[k[1]][FileOf(k)].status
             ELSE ""
Tracker(k) == IF FileOf(k) = Nothing THEN "" ELSE leaf[k[1]][FileOf(k)].tracker
State(k) == CASE PlansOf(k) = {} /\ FileOf(k) = Nothing -> "planned"
              [] Tracker(k) # "" -> Tracker(k)
              [] OTHER -> StateOf(Status(k))
Flagged(k) ==
  \/ Status(k) = "blocked"
  \/ IF PlansOf(k) # {} THEN PlanOf(k).blocked
     ELSE FileOf(k) # Nothing /\ leaf[k[1]][FileOf(k)].blocked
Refine(k) == IF Listed(k) THEN Entry(k).refine ELSE TRUE
Refined(k) == FileOf(k) # Nothing /\ leaf[k[1]][FileOf(k)].refined

-----------------------------------------------------------------------------
(* Prerequisites: what an `after` names.                                   *)

\* A sibling's id or file name, <epic id>.<entry id>, a whole epic.  The last
\* form is a raw key, which nothing reads back.
Resolve(e, r) ==
  CASE r[1] = "id" -> {<<e, r[2]>>} \cap TicketsOf(e)
    [] r[1] = "file" -> {k \in TicketsOf(e) : FileOf(k) = r[2]}
    [] r[1] = "cross" -> IF r[2] \in breakdown.listed
                         THEN {<<r[2], r[3]>>} \cap Tickets ELSE {}
    [] r[1] = "epic" -> {<<r[2]>>} \cap EpicKeys
    [] OTHER -> {}

LeafAfter(k) == IF FileOf(k) = Nothing THEN Nothing ELSE leaf[k[1]][FileOf(k)].after
EntryAfter(k) == IF Listed(k) THEN Entry(k).after ELSE {}
RawAfter(k) == IF LeafAfter(k) = Nothing THEN EntryAfter(k) ELSE LeafAfter(k)

ResolveAll(e, refs) == UNION {Resolve(e, r) : r \in refs}
After(k) == ResolveAll(k[1], RawAfter(k))
GatedBy(e) == ResolveAll(e, gate[e])
Drift(k) == /\ Listed(k) /\ LeafAfter(k) # Nothing
            /\ ResolveAll(k[1], EntryAfter(k)) # After(k)

NamesResolve ==
  /\ \A k \in Tickets : \A r \in RawAfter(k) \cup EntryAfter(k) : Resolve(k[1], r) # {}
  /\ \A e \in Epics : \A r \in gate[e] : Resolve(e, r) # {}

\* Mutant: a ticket's epic gates left out of the graph.
SuccUngated(x) == IF x \in EpicKeys THEN TicketsOf(x[1]) \cup GatedBy(x[1]) ELSE After(x)

\* A ticket waits for its `after` and its epic's gates, an epic for its members
\* and its own `after`.
Succ(x) == IF x \in EpicKeys THEN TicketsOf(x[1]) \cup GatedBy(x[1])
           ELSE After(x) \cup GatedBy(x[1])

\* The search starts at every ticket: from one it meets a cycle exactly when
\* some set holding that ticket can be walked for ever.
Cyclic ==
  LET succ == [x \in Tickets \cup EpicKeys |-> Succ(x)]
  IN \E S \in SUBSET (Tickets \cup EpicKeys) :
       S \cap Tickets # {} /\ \A x \in S : succ[x] \cap S # {}

Loads == (\A e \in Epics : FolderLoads(e)) /\ NamesResolve /\ ~Cyclic

-----------------------------------------------------------------------------
(* next, and the names find resolves.                                      *)

Done == {k \in Tickets : State(k) = "done"} \cup {<<e>> : e \in {f \in Epics : container[f] = "done"}}
Met == Done \cup {k \in Tickets : State(k) = "review"}

Group(k) ==
  CASE State(k) \in {"done", "dropped"} -> "closed"
    [] State(k) \notin {"done", "dropped"} /\ Flagged(k) -> "blocked"
    [] State(k) \in {"in-progress", "review"} /\ ~Flagged(k) -> "in_progress"
    [] OTHER -> IF ~(After(k) \subseteq Met /\ GatedBy(k[1]) \subseteq Done) THEN "blocked"
                ELSE IF Refine(k) /\ ~Refined(k) THEN "ready_to_refine" ELSE "ready_to_start"

InScope(scope) == {k \in Tickets : scope \in {Nothing, k[1]}}
Title(k) == IF FileOf(k) # Nothing THEN FileOf(k) ELSE Entry(k).name

\* Mutant: a file name looked up in every folder at once.
FindAnywhere(scope, r) ==
  CASE r[1] = "cross" -> IF r[2] \in breakdown.listed
                         THEN {<<r[2], r[3]>>} \cap Tickets ELSE {}
    [] r[1] = "id" -> IF scope = Nothing THEN {} ELSE {<<scope, r[2]>>} \cap Tickets
    [] r[1] = "file" -> {k \in Tickets : FileOf(k) = r[2]}
    [] OTHER -> {k \in InScope(scope) : Title(k) = r[2]}

Find(scope, r) ==
  LET files(pool) == {k \in pool : FileOf(k) = r[2]}
      titles == {k \in InScope(scope) : Title(k) = r[2]}
  IN CASE r[1] = "cross" -> IF r[2] \in breakdown.listed
                            THEN {<<r[2], r[3]>>} \cap Tickets ELSE {}
       [] r[1] = "id" -> IF scope = Nothing THEN {} ELSE {<<scope, r[2]>>} \cap Tickets
       [] r[1] = "file" -> IF files(InScope(scope)) # {} THEN files(InScope(scope))
                           ELSE files(Tickets)
       [] r[1] = "title" -> titles
       [] OTHER -> {}

\* The reference a row of next, status and find carries.
RowRef(k, scope) ==
  CASE k[2] \in Ids /\ k[1] \in breakdown.listed -> <<"cross", k[1], k[2]>>
    [] k[2] \in Ids /\ k[1] \notin breakdown.listed /\ k[1] = scope -> <<"id", k[2]>>
    [] OTHER -> <<"file", FileOf(k)>>

\* A key as the plan writes it: a sibling's id, <epic id>.<id> elsewhere, an
\* epic's slug; what has none of these falls through as the key itself.
RefTo(k, e) ==
  CASE k \in EpicKeys -> <<"epic", k[1]>>
    [] k \notin EpicKeys /\ k[2] \in Ids /\ k[1] = e -> <<"id", k[2]>>
    [] k \notin EpicKeys /\ k[2] \in Ids /\ k[1] # e /\ k[1] \in breakdown.listed
         -> <<"cross", k[1], k[2]>>
    [] OTHER -> <<"key", k>>

\* What status calls the longest remaining chain: unfinished tickets, each waiting
\* for the one before it or, by its epic's gates, one in another epic.
Remaining == {k \in Tickets : State(k) \notin {"done", "dropped"}}

\* Mutant: the gates of a ticket's epic not followed.
AheadUngated(k) == After(k) \cap Remaining

Ahead(k) == (After(k) \cup GatedBy(k[1])) \cap Remaining

Longest(chains) == CHOOSE c \in chains : \A d \in chains : Len(d) <= Len(c)
LongestChain(remaining, ahead, ends) ==
  LET chain[k \in remaining] == Append(Longest({<<>>} \cup {chain[b] : b \in ahead[k]}), k)
  IN Longest({<<>>} \cup {chain[k] : k \in ends})
LongestRemainingChain(scope) ==
  LongestChain(Remaining, [k \in Remaining |-> Ahead(k)], Remaining \cap InScope(scope))

\* The lines of the initiative's `after` no ticket of the waiting epic lives up to;
\* next and status are refused when a line names an epic that is not listed.
UnpinnedAfter(scope) ==
  {w \in breakdown.listed \X Epics :
     /\ w[2] \in breakdown.after[w[1]] /\ scope \in {Nothing, w[1]} /\ TicketsOf(w[1]) # {}
     /\ \A k \in TicketsOf(w[1]) : \A b \in After(k) \cup GatedBy(w[1]) : b[1] # w[2]}
Answers == \A e \in breakdown.listed : breakdown.after[e] \subseteq breakdown.listed

Row(k) == [after |-> {RefTo(b, k[1]) : b \in After(k)}, gated_by |-> GatedBy(k[1]),
           refine |-> Refine(k), refined |-> Refined(k)]

\* What next answers: every ticket of the folder in its group, and the lines unpinned.
NextAnswer(scope) ==
  [rows |-> [k \in InScope(scope) |-> [group |-> Group(k), row |-> Row(k)]],
   unpinned_after |-> UnpinnedAfter(scope)]

\* What status adds: whom each ticket and epic blocks by an `after`, and the chain.
StatusAnswer(scope) ==
  [blocks |-> [x \in Tickets \cup EpicKeys |-> {k \in Tickets : x \in After(k)}],
   total |-> Cardinality(InScope(scope)),
   longest_remaining_chain |-> LongestRemainingChain(scope)]

-----------------------------------------------------------------------------
(* The commands that write.                                                *)

\* A file that was opened for writing lies empty: its writer is not done, or died.
Hollow == \E e \in Epics : (\E s \in Names : leaf[e][s] = Blank)
                           \/ (\E p \in PlanNames : plan[e][p] = Blank)

Busy(a) == cmd[a].pc # "idle"
Begins(a) ==
  /\ ~Busy(a) /\ commands < MaxCommands /\ commands' = commands + 1
  /\ torn' = (torn \/ Hollow)

\* Mutant: the default name even when a plan is joined.
PlanPathByTitle(k) == Title(k)

\* The joined plan, else one named after the leaf file or the title.
PlanPath(k) == IF PlansOf(k) # {} THEN CHOOSE p \in PlansOf(k) : TRUE ELSE Title(k)

\* A plan's other fields, its ticket among them, stay as they are.
Edited(p, status, blocked) == [p EXCEPT !.status = status, !.blocked = blocked]

\* The text mark writes: a new plan has the ticket's name and the status; --blocked
\* sets the blocked fields, its absence clears them.
MarkText(k, status, blocked) ==
  IF PlansOf(k) # {} THEN Edited(PlanOf(k), status, blocked)
  ELSE [ticket |-> IF k[2] \in Ids THEN k[2] ELSE FileOf(k), status |-> status,
        blocked |-> blocked]

References == ({"cross"} \X Epics \X Ids) \cup ({"id"} \X Ids) \cup ({"file", "title"} \X Names)

\* mark: on a tracker store it is refused; a reference must name one ticket.
MarkRead(a) ==
  /\ Begins(a) /\ store = "repo" /\ Loads
  /\ \E k \in Tickets :
       /\ \E scope \in Epics \cup {Nothing}, r \in References : Find(scope, r) = {k}
       /\ \E status \in MarkStatuses, blocked \in BOOLEAN :
            cmd' = [cmd EXCEPT ![a] =
              [pc |-> "open", does |-> "mark", key |-> k, name |-> PlanPath(k),
               created |-> PlansOf(k) = {}, text |-> MarkText(k, status, blocked)]]
  /\ UNCHANGED disk

\* Mutant: only siblings and epics written back.
PullTextNear(k) ==
  [id |-> k[2], status |-> "", tracker |-> "", blocked |-> FALSE, refined |-> FALSE,
   after |-> {r \in {RefTo(b, k[1]) : b \in After(k)} : r[1] # "cross"}]

\* The leaf file pull writes: the entry's prerequisites, and no status.
PullText(k) ==
  [id |-> k[2], status |-> "", tracker |-> "", blocked |-> FALSE, refined |-> FALSE,
   after |-> IF After(k) = {} THEN Nothing ELSE {RefTo(b, k[1]) : b \in After(k)}]

\* pull: refused for a ticket that has its file, and when the name is taken.
PullRead(a) ==
  /\ Begins(a) /\ Loads
  /\ \E e \in Epics, n \in Ids :
       /\ <<e, n>> \in TicketsOf(e) /\ FileOf(<<e, n>>) = Nothing
       /\ leaf[e][Entry(<<e, n>>).name] = Nothing
       /\ cmd' = [cmd EXCEPT ![a] =
            [pc |-> "open", does |-> "pull", key |-> <<e, n>>, name |-> Entry(<<e, n>>).name,
             created |-> FALSE, text |-> PullText(<<e, n>>)]]
  /\ UNCHANGED disk

Put(a, content) ==
  LET e == cmd[a].key[1]
  IN IF cmd[a].does = "mark"
     THEN plan' = [plan EXCEPT ![e][cmd[a].name] = content] /\ UNCHANGED leaf
     ELSE leaf' = [leaf EXCEPT ![e][cmd[a].name] = content] /\ UNCHANGED plan

\* Mutant: every plan opened for writing.
NeverTaken(a) == FALSE

\* A new plan is opened for exclusive creation, an old one and a leaf for writing.
Taken(a) == cmd[a].created /\ plan[cmd[a].key[1]][cmd[a].name] # Nothing

Open(a) ==
  /\ cmd[a].pc = "open" /\ ~Taken(a)
  /\ Put(a, Blank)
  /\ cmd' = [cmd EXCEPT ![a].pc = "write"]
  /\ UNCHANGED <<store, breakdown, gate, container, commands, torn>>

OpenRefused(a) ==
  /\ cmd[a].pc = "open" /\ Taken(a)
  /\ cmd' = [cmd EXCEPT ![a] = Idle]
  /\ UNCHANGED <<disk, commands, torn>>

Write(a) ==
  /\ cmd[a].pc = "write"
  /\ Put(a, cmd[a].text)
  /\ cmd' = [cmd EXCEPT ![a] = Idle]
  /\ UNCHANGED <<store, breakdown, gate, container, commands, torn>>

\* The command dies where it stands; what it opened stays as it left it.
Crash(a) ==
  /\ Busy(a)
  /\ cmd' = [cmd EXCEPT ![a] = Idle]
  /\ UNCHANGED <<disk, commands, torn>>

\* Whoever drives the builds closes an epic, or reopens it, in its own file.
SetContainer(e, s) ==
  /\ commands < MaxCommands /\ commands' = commands + 1
  /\ s # container[e]
  /\ container' = [container EXCEPT ![e] = s]
  /\ UNCHANGED <<store, breakdown, gate, leaf, plan, cmd, torn>>

-----------------------------------------------------------------------------

Init ==
  /\ \E t \in Trees :
       /\ store = t.store /\ breakdown = t.breakdown /\ gate = t.gate
       /\ container = t.container /\ leaf = t.leaf /\ plan = t.plan
  /\ cmd = [a \in Agents |-> Idle]
  /\ commands = 0 /\ torn = FALSE

Next ==
  \/ \E a \in Agents :
       MarkRead(a) \/ PullRead(a) \/ Open(a) \/ OpenRefused(a) \/ Write(a) \/ Crash(a)
  \/ \E e \in Epics, s \in ContainerStatuses : SetContainer(e, s)

Spec == Init /\ [][Next]_vars

-----------------------------------------------------------------------------
(* What every state is like.                                               *)

MarkCommands ==
  [pc: {"open", "write"}, does: {"mark"}, key: Keys, name: PlanNames, created: BOOLEAN,
   text: PlanFiles]
PullCommands ==
  [pc: {"open", "write"}, does: {"pull"}, key: Epics \X Ids, name: Names,
   created: {FALSE}, text: LeafFiles]

TypeOK ==
  /\ store \in {"repo", "tracker"} /\ Breakdown(breakdown)
  /\ [gate |-> gate, container |-> container, leaf |-> leaf, plan |-> plan] \in Files
  /\ cmd \in [Agents -> {Idle} \cup MarkCommands \cup PullCommands]
  /\ commands \in Nat /\ torn \in BOOLEAN

Marks(a) == Busy(a) /\ cmd[a].does = "mark"
Pulls(a) == Busy(a) /\ cmd[a].does = "pull"

\* Once a command has read the tree, no two leaf files have one id.
LeavesOnce ==
  (\E a \in Agents : Busy(a)) =>
    \A e \in Epics : \A s, o \in Leaves(e) :
      leaf[e][s].id = leaf[e][o].id /\ leaf[e][s].id # Nothing => s = o

\* A pull writes an entry that has no other leaf file, over nothing but what
\* pulls have put there since it read the tree, under a name no plan goes by.
PullSlot(a) ==
  LET e == cmd[a].key[1]
      n == cmd[a].key[2]
      s == cmd[a].name
  IN /\ n \in EntryIds(e) /\ s = breakdown.entry[e][n].name
     /\ cmd[a].text.id = n /\ cmd[a].text.status = ""
     /\ s \in Leaves(e) => leaf[e][s].id \in Ids /\ leaf[e][s].status = ""
     /\ \A o \in Leaves(e) \ {s} : leaf[e][o].id # n
     /\ \A p \in Plans(e) : plan[e][p].ticket # s
PullSlots == \A a \in Agents : Pulls(a) => PullSlot(a)

\* The plan a mark writes is joined to its ticket and to no other: by the id, or
\* by a leaf file that no pull will write.
MarkJoins(a) ==
  LET k == cmd[a].key
      t == cmd[a].text.ticket
  IN \/ t = k[2] /\ t \in Ids
     \/ /\ t \in Leaves(k[1])
        /\ leaf[k[1]][t].id = k[2] \/ (leaf[k[1]][t].id = Nothing /\ k[2] = t)
        /\ \A b \in Agents : Pulls(b) => cmd[b].key[1] # k[1] \/ cmd[b].name # t
MarkTexts == \A a \in Agents : Marks(a) => MarkJoins(a)

\* A mark that has found or created its plan file: it lies open, or is a plan of
\* the same ticket, and whoever else has it writes one of that ticket, too.
Holds(a) == Marks(a) /\ (cmd[a].created => cmd[a].pc = "write")

PlanSlot(a) ==
  LET e == cmd[a].key[1]
      p == cmd[a].name
  IN /\ plan[e][p] # Nothing
     /\ p \in Plans(e) => plan[e][p].ticket = cmd[a].text.ticket
     /\ \A b \in Agents : Holds(b) /\ cmd[b].key[1] = e /\ cmd[b].name = p =>
          cmd[b].text.ticket = cmd[a].text.ticket
PlanSlots == \A a \in Agents : Holds(a) => PlanSlot(a)

TreeInv == TypeOK /\ LeavesOnce /\ PullSlots /\ MarkTexts /\ PlanSlots

\* What an entry waits for; the leaf file a pull makes of it; and every reference
\* in a folder.
Prerequisites(e, n) == ResolveAll(e, breakdown.entry[e][n].after)
EntryText(e, n) ==
  [id |-> n, status |-> "", tracker |-> "", blocked |-> FALSE, refined |-> FALSE,
   after |-> IF Prerequisites(e, n) = {} THEN Nothing
             ELSE {RefTo(b, e) : b \in Prerequisites(e, n)}]
RefsIn(e) ==
  gate[e] \cup (UNION {breakdown.entry[e][n].after : n \in EntryIds(e)})
    \cup (UNION {leaf[e][s].after : s \in {o \in Leaves(e) : leaf[e][o].after # Nothing}})

\* What a pull writes, and what another has put in its place, is still what the
\* entries say, and nothing refers to the file by its name.
PullFaithful(a) ==
  LET e == cmd[a].key[1]
      s == cmd[a].name
  IN /\ cmd[a].text = EntryText(e, cmd[a].key[2])
     /\ s \in Leaves(e) =>
          /\ leaf[e][s].id \in EntryIds(e) /\ breakdown.entry[e][leaf[e][s].id].name = s
          /\ leaf[e][s] = EntryText(e, leaf[e][s].id)
     /\ <<"file", s>> \notin RefsIn(e)
PullsFaithful == \A a \in Agents : Pulls(a) => PullFaithful(a)

\* A mark is of a ticket of the tree, and creates the plan its title names.  While
\* no command read past a hollow file, its plan is the only one of the ticket, and
\* that of every other mark of the ticket.
MarkOwns(a) ==
  LET k == cmd[a].key
  IN /\ k \in Tickets
     /\ cmd[a].created => cmd[a].name = Title(k)
     /\ ~torn => /\ PlansOf(k) \subseteq {cmd[a].name}
                 /\ \A b \in Agents : Marks(b) /\ cmd[b].key = k => cmd[b].name = cmd[a].name
MarksOwn == \A a \in Agents : Marks(a) => MarkOwns(a)

\* What the entries wait for can be written back: each ticket among it has an id,
\* and is of the same folder or of a listed epic.
PrerequisitesNamed ==
  \A e \in Epics : \A n \in EntryIds(e) : \A b \in Prerequisites(e, n) : RefTo(b, e)[1] # "key"

CommandsInv == TreeInv /\ PullsFaithful /\ MarksOwn

-----------------------------------------------------------------------------
(* Properties.                                                             *)

\* An epic whose tickets and prerequisites are all done has been closed.
FinishedEpicsClosed ==
  \A e \in Epics : TicketsOf(e) \cup GatedBy(e) \subseteq Done => <<e>> \in Done

\* The load-time cycle check is enough to keep the tree moving: if it loads,
\* nothing is dropped or flagged blocked and finished epics are closed, then
\* while a ticket is unfinished `next` offers one to refine, start or finish.
SomethingToDo ==
  (/\ Loads /\ FinishedEpicsClosed
   /\ \A k \in Tickets : State(k) # "dropped" /\ ~Flagged(k)
   /\ \E k \in Tickets : State(k) # "done")
  => \E k \in Tickets : Group(k) \in {"ready_to_refine", "ready_to_start", "in_progress"}

\* Whatever the interleaving, and wherever a command dies, the only status a
\* mark changes is that of the ticket its reference named, even when two
\* entries have the title, hence the plan name, in common.
OnlyTheMarkedChange ==
  [][\A k \in Tickets : Status(k)' # Status(k) =>
       \E a \in Agents : Busy(a) /\ cmd[a].does = "mark" /\ cmd[a].key = k]_vars

\* A row's reference leads find back to that row, in the folder the command ran
\* on, if its epic is listed or is that folder, or its file name is one of a kind
\* in it: a namesake in another epic does not get in the way.
RowRefFinds ==
  Loads => \A scope \in Epics \cup {Nothing} : \A k \in InScope(scope) :
    (IF k[2] \in Ids THEN k[1] \in breakdown.listed \cup {scope}
     ELSE \A o \in InScope(scope) \ {k} : FileOf(o) # FileOf(k))
    => Find(scope, RowRef(k, scope)) = {k}

\* The chain status shows is one of tickets that wait for each other, none is
\* longer, and its first can move: next offers it unless it is flagged, waits for
\* an epic to be closed, or for a dropped ticket, which nobody will finish.
ChainIsLongest ==
  Loads => \A scope \in Epics \cup {Nothing} :
    LET waits == [k \in Tickets |-> After(k) \cup GatedBy(k[1])]
        chain == LongestRemainingChain(scope)
        linked(c) == \A i \in 2..Len(c) : c[i - 1] \in waits[c[i]]
        longer == {c \in [1..(Len(chain) + 1) -> Remaining] : linked(c)}
    IN /\ linked(chain) /\ \A c \in longer : c[Len(c)] \notin InScope(scope)
       /\ chain # <<>> =>
            \/ Group(chain[1]) \in {"ready_to_refine", "ready_to_start", "in_progress"}
            \/ Flagged(chain[1])
            \/ \E b \in waits[chain[1]] \ Done : b \in Tickets => State(b) = "dropped"

\* No command turns a tree that loads into one that every later command refuses.
StaysLoadable == [][Loads => Loads']_vars

\* Commands that overlap, or die half way, do so only if one of them read the
\* tree while a file lay empty, and took a ticket for one with no plan.
OnlyTornReadsBreak ==
  [][~torn /\ Loads => Loads']_vars

\* The file a pull writes says what the entry said: no drift is reported, and run
\* on the initiative next answers as before, for all the tickets, and so does status
\* but for the states.
PullKeepsAnswer ==
  [][\A a \in Agents, k \in Tickets :
       (cmd[a].pc = "write" /\ cmd[a].does = "pull" /\ cmd[a].key = k /\ leaf' # leaf) =>
         /\ ~Drift(k)'
         /\ Answers => /\ NextAnswer(Nothing)' = NextAnswer(Nothing)
                       /\ StatusAnswer(Nothing)' = StatusAnswer(Nothing)]_vars
=============================================================================
