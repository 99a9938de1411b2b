-------------------------- MODULE TicketTreeProofs --------------------------
(***************************************************************************)
(* TicketTree for every tree, however many epics, tickets and commands.    *)
(*                                                                         *)
(* SomethingToDo: a tree the load-time cycle check accepts never leaves    *)
(* `next` with nothing to offer.  The argument follows the code: were      *)
(* everything unfinished blocked, each unfinished ticket would wait for    *)
(* another one or for an open epic, and an open epic for an unfinished     *)
(* ticket or another open epic; the unfinished would be a set that can be  *)
(* walked for ever, which is what the check refuses.                       *)
(*                                                                         *)
(* The rest is what overlapping commands may rely on with no lock between  *)
(* them: TreeInv, whose files are whose, and CommandsInv, what they say.   *)
(***************************************************************************)
EXTENDS TicketTree, FiniteSetTheorems, WellFoundedInduction, TLAPS

\* What still has to happen: the tickets not done and the epics not closed.
Unfinished == {x \in Tickets \cup EpicKeys : x \notin Done}

-----------------------------------------------------------------------------
(* The shape of keys.                                                      *)

\* A ticket belongs to the epic its key begins with.
LEMMA TicketEpic ==
  ASSUME NEW k \in Tickets
  PROVE  k[1] \in Epics /\ k \in TicketsOf(k[1]) /\ Len(k) = 2
<1>1. PICK e \in Epics : k \in TicketsOf(e)
  BY DEF Tickets
<1>2. \E n : k = <<e, n>>
  BY <1>1 DEF TicketsOf
<1> QED BY <1>1, <1>2

\* An epic's key has one part, so it is no ticket's.
LEMMA EpicKeyShape ==
  ASSUME NEW x \in EpicKeys
  PROVE  x[1] \in Epics /\ x = <<x[1]>> /\ x \notin Tickets
<1>1. PICK e \in Epics : x = <<e>>
  BY DEF EpicKeys
<1>2. Len(x) = 1
  BY <1>1
<1> QED BY <1>1, <1>2, TicketEpic

-----------------------------------------------------------------------------
(* Prerequisites are tickets or epics of the tree.                         *)

LEMMA ResolveIsNode ==
  ASSUME NEW e \in Epics, NEW r
  PROVE  Resolve(e, r) \subseteq Tickets \cup EpicKeys
<1>1. TicketsOf(e) \subseteq Tickets
  BY DEF Tickets
<1> QED BY <1>1 DEF Resolve

LEMMA PrerequisitesAreNodes ==
  ASSUME NEW e \in Epics
  PROVE  /\ GatedBy(e) \subseteq Tickets \cup EpicKeys
         /\ \A k \in Tickets : k[1] = e => After(k) \subseteq Tickets \cup EpicKeys
<1>1. \A refs : ResolveAll(e, refs) \subseteq Tickets \cup EpicKeys
  BY ResolveIsNode DEF ResolveAll
<1> QED BY <1>1 DEF GatedBy, After

-----------------------------------------------------------------------------
(* Nothing to offer makes a circle of what is unfinished.                  *)

\* A ticket that is neither done, dropped nor flagged is offered unless one of
\* its prerequisites is unfinished.
LEMMA BlockedWaits ==
  ASSUME NEW k \in Tickets, State(k) \notin {"done", "dropped"}, ~Flagged(k),
         Group(k) \notin {"ready_to_refine", "ready_to_start", "in_progress"}
  PROVE  Succ(k) \cap Unfinished # {}
<1>1. ~(After(k) \subseteq Met /\ GatedBy(k[1]) \subseteq Done)
  BY DEF Group
<1>2. (After(k) \cup GatedBy(k[1])) \ Done # {}
  BY <1>1 DEF Met
<1>3. After(k) \cup GatedBy(k[1]) \subseteq Tickets \cup EpicKeys
  BY TicketEpic, PrerequisitesAreNodes
<1>4. Succ(k) = After(k) \cup GatedBy(k[1])
  BY EpicKeyShape DEF Succ
<1> QED BY <1>2, <1>3, <1>4 DEF Unfinished

\* An epic that is not closed has an unfinished member or prerequisite, if
\* finished epics are closed.
LEMMA OpenEpicWaits ==
  ASSUME FinishedEpicsClosed, NEW x \in EpicKeys, x \notin Done
  PROVE  Succ(x) \cap Unfinished # {}
<1>1. x[1] \in Epics /\ x = <<x[1]>>
  BY EpicKeyShape
<1>2. (TicketsOf(x[1]) \cup GatedBy(x[1])) \ Done # {}
  BY <1>1 DEF FinishedEpicsClosed
<1>3. TicketsOf(x[1]) \cup GatedBy(x[1]) \subseteq Tickets \cup EpicKeys
  BY <1>1, PrerequisitesAreNodes DEF Tickets
<1> QED BY <1>2, <1>3 DEF Succ, Unfinished

\* The answer never runs dry: in any state, reachable or not.
LEMMA NextOffers == SomethingToDo
<1> SUFFICES ASSUME Loads, FinishedEpicsClosed,
                    \A k \in Tickets : State(k) # "dropped" /\ ~Flagged(k),
                    NEW t \in Tickets, State(t) # "done",
                    \A k \in Tickets :
                      Group(k) \notin {"ready_to_refine", "ready_to_start", "in_progress"}
             PROVE  FALSE
  BY DEF SomethingToDo
<1>1. \A k \in Tickets : k \in Done <=> State(k) = "done"
  BY EpicKeyShape DEF Done, EpicKeys
<1>2. Unfinished \in SUBSET (Tickets \cup EpicKeys) /\ t \in Unfinished \cap Tickets
  BY <1>1 DEF Unfinished
<1>3. ASSUME NEW x \in Unfinished PROVE Succ(x) \cap Unfinished # {}
  <2>1. CASE x \in Tickets
    <3>1. State(x) \notin {"done", "dropped"} /\ ~Flagged(x)
      BY <1>1, <2>1 DEF Unfinished
    <3> QED BY <2>1, <3>1, BlockedWaits
  <2>2. CASE x \in EpicKeys
    BY <2>2, OpenEpicWaits DEF Unfinished
  <2> QED BY <2>1, <2>2 DEF Unfinished
<1>4. Cyclic
  <2> DEFINE succ == [x \in Tickets \cup EpicKeys |-> Succ(x)]
  <2>1. \A x \in Unfinished : succ[x] \cap Unfinished # {}
    BY <1>2, <1>3
  <2> QED BY <1>2, <2>1 DEF Cyclic
<1> QED BY <1>4 DEF Loads

\* While a ticket of a tree that loads is unfinished, nothing is dropped or
\* flagged, and finished epics are closed, `next` offers one: in every reachable
\* state, for any epics, tickets and prerequisites.
THEOREM NextNeverRunsDry == Spec => []SomethingToDo
<1>1. SomethingToDo
  BY NextOffers
<1> QED BY <1>1, PTL
-----------------------------------------------------------------------------
(* What the files of a tree are.                                           *)

LEMMA FileTypes ==
  ASSUME TypeOK
  PROVE  /\ leaf \in [Epics -> [Names -> LeafFiles \cup {Nothing, Blank}]]
         /\ plan \in [Epics -> [PlanNames -> PlanFiles \cup {Nothing, Blank}]]
         /\ gate \in [Epics -> SUBSET AfterRefs]
         /\ container \in [Epics -> ContainerStatuses]
         /\ \A e \in Epics : \A s \in Leaves(e) : s \in Names /\ leaf[e][s] \in LeafFiles
         /\ \A e \in Epics : \A p \in Plans(e) : p \in PlanNames /\ plan[e][p] \in PlanFiles
         /\ \A e \in Epics : \A n \in EntryIds(e) :
              n \in Ids /\ breakdown.entry[e][n] \in Entries
<1>1. /\ leaf \in [Epics -> [Names -> LeafFiles \cup {Nothing, Blank}]]
      /\ plan \in [Epics -> [PlanNames -> PlanFiles \cup {Nothing, Blank}]]
      /\ gate \in [Epics -> SUBSET AfterRefs]
      /\ container \in [Epics -> ContainerStatuses]
  BY DEF TypeOK, Files
<1>2. \A e \in Epics : \A s \in Leaves(e) : s \in Names /\ leaf[e][s] \in LeafFiles
  BY <1>1 DEF Leaves, IsFile
<1>3. \A e \in Epics : \A p \in Plans(e) : p \in PlanNames /\ plan[e][p] \in PlanFiles
  BY <1>1 DEF Plans, IsFile
<1>4. \A e \in Epics : \A n \in EntryIds(e) :
        n \in Ids /\ breakdown.entry[e][n] \in Entries
  BY DEF TypeOK, Breakdown, EntryIds
<1> QED BY <1>1, <1>2, <1>3, <1>4

LEMMA LeafFields ==
  ASSUME TypeOK, NEW e \in Epics, NEW s \in Leaves(e)
  PROVE  /\ s \in Names /\ leaf[e][s].id \in Ids \cup {Nothing}
         /\ leaf[e][s].after \in (SUBSET AfterRefs) \cup {Nothing}
<1>1. s \in Names /\ leaf[e][s] \in LeafFiles
  BY FileTypes
<1>2. \A f \in LeafFiles : f.id \in Ids \cup {Nothing}
                          /\ f.after \in (SUBSET AfterRefs) \cup {Nothing}
  BY DEF LeafFiles
<1> QED BY <1>1, <1>2

\* A ticket is an entry, a leaf file's id, or a leaf file that has none.
LEMMA TicketTypes ==
  ASSUME TypeOK, NEW k \in Tickets
  PROVE  /\ k \in Keys /\ k[1] \in Epics /\ k = <<k[1], k[2]>>
         /\ k[2] \in Ids => k[2] \in EntryIds(k[1]) \/ FilesOf(k) # {}
         /\ k[2] \notin Ids => k[2] \in Leaves(k[1]) /\ leaf[k[1]][k[2]].id = Nothing
<1>1. PICK e \in Epics : k \in TicketsOf(e)
  BY DEF Tickets
<1>2. CASE \E n \in EntryIds(e) : k = <<e, n>>
  BY <1>1, <1>2, FileTypes DEF Keys
<1>3. CASE \E s \in Leaves(e) : k = <<e, leaf[e][s].id>> /\ leaf[e][s].id # Nothing
  <2>1. PICK s \in Leaves(e) : k = <<e, leaf[e][s].id>> /\ leaf[e][s].id # Nothing
    BY <1>3
  <2>2. leaf[e][s].id \in Ids
    BY <2>1, LeafFields
  <2>3. s \in FilesOf(k)
    BY <2>1, <2>2 DEF FilesOf
  <2> QED BY <2>1, <2>2, <2>3 DEF Keys
<1>4. CASE \E s \in Leaves(e) : k = <<e, s>> /\ leaf[e][s].id = Nothing
  BY <1>4, FileTypes, IdsAreNotNames DEF Keys
<1> QED BY <1>1, <1>2, <1>3, <1>4 DEF TicketsOf

LEMMA FileOfTypes ==
  ASSUME NEW k
  PROVE  /\ FilesOf(k) = {} <=> FileOf(k) = Nothing
         /\ FileOf(k) # Nothing => /\ FileOf(k) \in FilesOf(k)
                                   /\ FileOf(k) \in Names /\ FileOf(k) \in Leaves(k[1])
         /\ FilesOf(k) \subseteq Leaves(k[1])
<1>1. FilesOf(k) \subseteq Leaves(k[1]) /\ Leaves(k[1]) \subseteq Names
  BY DEF FilesOf, Leaves
<1> QED BY <1>1, IdsAreNotNames DEF FileOf

LEMMA PlanOfTypes ==
  ASSUME TypeOK, NEW k \in Tickets, PlansOf(k) # {}
  PROVE  /\ PlanPath(k) \in PlansOf(k) /\ PlanOf(k) = plan[k[1]][PlanPath(k)]
         /\ PlanOf(k) \in PlanFiles /\ PlanOf(k).ticket \in {k[2], FileOf(k)}
         /\ PlanPath(k) \in Plans(k[1])
<1>1. (CHOOSE p \in PlansOf(k) : TRUE) \in PlansOf(k)
  OBVIOUS
<1>2. k[1] \in Epics
  BY TicketTypes
<1>3. PlanPath(k) \in PlansOf(k) /\ PlanOf(k) = plan[k[1]][PlanPath(k)]
  BY <1>1 DEF PlanPath, PlanOf
<1>4. PlanPath(k) \in Plans(k[1]) /\ PlanOf(k).ticket \in {k[2], FileOf(k)}
  BY <1>3 DEF PlansOf
<1> QED BY <1>2, <1>3, <1>4, FileTypes

LEMMA CommandTypes ==
  ASSUME TypeOK, NEW a \in Agents
  PROVE  /\ Busy(a) <=> cmd[a] # Idle
         /\ Busy(a) => Marks(a) \/ Pulls(a)
         /\ Marks(a) => cmd[a] \in MarkCommands /\ ~Pulls(a)
         /\ Pulls(a) => cmd[a] \in PullCommands
         /\ Busy(a) => cmd[a].key[1] \in Epics
<1>1. cmd[a] \in {Idle} \cup MarkCommands \cup PullCommands
  BY DEF TypeOK
<1>2. CASE cmd[a] = Idle
  BY <1>2 DEF Busy, Idle, Marks, Pulls
<1>3. CASE cmd[a] \in MarkCommands
  <2>1. Marks(a) /\ ~Pulls(a) /\ cmd[a].key \in Keys
    BY <1>3 DEF Marks, Pulls, Busy, MarkCommands
  <2> QED BY <1>3, <2>1 DEF Marks, Busy, Idle, Keys
<1>4. CASE cmd[a] \in PullCommands
  <2>1. ~Marks(a) /\ Pulls(a) /\ cmd[a].key \in Epics \X Ids
    BY <1>4 DEF Marks, Pulls, Busy, PullCommands
  <2> QED BY <1>4, <2>1 DEF Pulls, Busy, Idle
<1> QED BY <1>1, <1>2, <1>3, <1>4

-----------------------------------------------------------------------------
(* References.                                                             *)

\* Where the row's reference is an id or a file name, and not a title, find looks
\* in the folder the row is of.
LEMMA RowsAreFound ==
  ASSUME TypeOK
  PROVE  RowRefFinds
<1> SUFFICES ASSUME NEW scope \in Epics \cup {Nothing}, NEW k \in InScope(scope),
                    IF k[2] \in Ids THEN k[1] \in breakdown.listed \cup {scope}
                    ELSE \A o \in InScope(scope) \ {k} : FileOf(o) # FileOf(k)
             PROVE  Find(scope, RowRef(k, scope)) = {k}
  BY DEF RowRefFinds
<1>1. k \in Tickets
  BY DEF InScope
<1>2. k = <<k[1], k[2]>> /\ k[1] \in Epics
  BY <1>1, TicketTypes
<1>3. CASE k[2] \in Ids /\ k[1] \in breakdown.listed
  <2>1. RowRef(k, scope) = <<"cross", k[1], k[2]>>
    BY <1>3 DEF RowRef
  <2> QED BY <1>1, <1>2, <1>3, <2>1 DEF Find
<1>4. CASE k[2] \in Ids /\ k[1] \notin breakdown.listed
  <2>1. k[1] = scope /\ scope # Nothing
    BY <1>2, <1>4, IdsAreNotNames
  <2>2. RowRef(k, scope) = <<"id", k[2]>>
    BY <1>4, <2>1 DEF RowRef
  <2> QED BY <1>1, <1>2, <2>1, <2>2 DEF Find
<1>5. CASE k[2] \notin Ids
  <2>1. RowRef(k, scope) = <<"file", FileOf(k)>>
    BY <1>5 DEF RowRef
  <2>2. {o \in InScope(scope) : FileOf(o) = FileOf(k)} = {k}
    BY <1>5
  <2> QED BY <2>1, <2>2 DEF Find
<1> QED BY <1>3, <1>4, <1>5
-----------------------------------------------------------------------------
(* What the commands write.                                                *)

\* The text of a mark, and the file it is for.
LEMMA MarkTypes ==
  ASSUME TypeOK, NEW k \in Tickets, NEW status \in MarkStatuses, NEW blocked \in BOOLEAN
  PROVE  /\ PlanPath(k) \in PlanNames
         /\ MarkText(k, status, blocked) \in PlanFiles
         /\ MarkText(k, status, blocked).ticket =
              IF PlansOf(k) # {} THEN PlanOf(k).ticket
              ELSE IF k[2] \in Ids THEN k[2] ELSE FileOf(k)
         /\ k[2] \notin Ids => FileOf(k) = k[2] /\ k[2] \in Names
<1>1. status \in Statuses
  BY MarksAreStatuses
<1>2. k[2] \notin Ids => FileOf(k) = k[2] /\ k[2] \in Names
  <2> SUFFICES ASSUME k[2] \notin Ids PROVE FileOf(k) = k[2] /\ k[2] \in Names
    OBVIOUS
  <2>1. FilesOf(k) = {k[2]}
    BY TicketTypes DEF FilesOf
  <2> QED BY <2>1, FileOfTypes
<1>3. CASE PlansOf(k) # {}
  <2>1. MarkText(k, status, blocked) = [PlanOf(k) EXCEPT !.status = status, !.blocked = blocked]
    BY <1>3 DEF MarkText, Edited
  <2>2. /\ PlanOf(k) \in PlanFiles /\ PlanPath(k) \in Plans(k[1])
        /\ k[1] \in Epics
    BY <1>3, PlanOfTypes, TicketTypes
  <2> QED BY <1>1, <1>2, <1>3, <2>1, <2>2, FileTypes DEF PlanFiles
<1>4. CASE PlansOf(k) = {}
  <2>1. PlanPath(k) = Title(k)
    BY <1>4 DEF PlanPath
  <2>2. Title(k) \in Names
    <3>1. CASE FileOf(k) # Nothing
      BY <3>1, FileOfTypes DEF Title
    <3>2. CASE FileOf(k) = Nothing
      <4>0. FilesOf(k) = {}
        BY <3>2, FileOfTypes
      <4>1. k[2] \in EntryIds(k[1]) /\ k[1] \in Epics
        BY <1>2, <3>2, <4>0, TicketTypes, IdsAreNotNames
      <4> QED BY <3>2, <4>1, FileTypes DEF Title, Entry, Entries
    <3> QED BY <3>1, <3>2
  <2>3. /\ MarkText(k, status, blocked).ticket = IF k[2] \in Ids THEN k[2] ELSE FileOf(k)
        /\ MarkText(k, status, blocked) =
             [ticket |-> IF k[2] \in Ids THEN k[2] ELSE FileOf(k), status |-> status,
              blocked |-> blocked]
    BY <1>4 DEF MarkText
  <2> QED BY <1>1, <1>2, <1>4, <2>1, <2>2, <2>3, NamesArePlanNames DEF PlanFiles
<1> QED BY <1>3, <1>4

LEMMA RefTypes ==
  ASSUME TypeOK, NEW b \in Tickets \cup EpicKeys, NEW e
  PROVE  RefTo(b, e) \in AfterRefs
<1>1. CASE b \in EpicKeys
  BY <1>1, EpicKeyShape DEF RefTo, AfterRefs
<1>2. CASE b \notin EpicKeys
  <2>1. b \in Keys /\ b[1] \in Epics
    BY <1>2, TicketTypes
  <2> QED BY <1>2, <2>1 DEF RefTo, AfterRefs
<1> QED BY <1>1, <1>2

\* The text of a pull, and the file it is for.
LEMMA PullTypes ==
  ASSUME TypeOK, NEW e \in Epics, NEW n \in Ids,
         <<e, n>> \in TicketsOf(e), FileOf(<<e, n>>) = Nothing
  PROVE  /\ n \in EntryIds(e) /\ Entry(<<e, n>>) = breakdown.entry[e][n]
         /\ Entry(<<e, n>>).name \in Names
         /\ PullText(<<e, n>>) \in LeafFiles
         /\ \A s \in Leaves(e) : leaf[e][s].id # n
<1> DEFINE k == <<e, n>>
<1>1. k \in Tickets
  BY DEF Tickets
<1>2. FilesOf(k) = {}
  BY FileOfTypes
<1>3. n \in EntryIds(e)
  BY <1>1, <1>2, TicketTypes
<1>4. Entry(k) = breakdown.entry[e][n] /\ Entry(k).name \in Names
  BY <1>3, FileTypes DEF Entry, Entries
<1>5. After(k) \subseteq Tickets \cup EpicKeys
  BY <1>1, PrerequisitesAreNodes
<1>6. PullText(k) \in LeafFiles
  <2>1. {RefTo(b, k[1]) : b \in After(k)} \in SUBSET AfterRefs
    BY <1>5, RefTypes
  <2>2. "" \in Statuses /\ "" \in States \cup {""}
    BY DEF Statuses
  <2> QED BY <2>1, <2>2 DEF PullText, LeafFiles
<1>7. \A s \in Leaves(e) : leaf[e][s].id # n
  BY <1>2 DEF FilesOf
<1> QED BY <1>3, <1>4, <1>6, <1>7

LEMMA TreeTypeStep == TypeOK /\ [Next]_vars => TypeOK'
<1> SUFFICES ASSUME TypeOK, [Next]_vars PROVE TypeOK'
  OBVIOUS
<1>0. /\ cmd \in [Agents -> {Idle} \cup MarkCommands \cup PullCommands]
      /\ store \in {"repo", "tracker"} /\ Breakdown(breakdown)
      /\ commands \in Nat /\ torn \in BOOLEAN
  BY DEF TypeOK
<1>1. CASE UNCHANGED vars
  BY <1>1 DEF vars, TypeOK, Breakdown, Files
<1>2. ASSUME NEW a \in Agents, MarkRead(a) PROVE TypeOK'
  <2>1. PICK k \in Tickets, status \in MarkStatuses, blocked \in BOOLEAN :
          cmd' = [cmd EXCEPT ![a] =
            [pc |-> "open", does |-> "mark", key |-> k, name |-> PlanPath(k),
             created |-> PlansOf(k) = {}, text |-> MarkText(k, status, blocked)]]
    BY <1>2 DEF MarkRead
  <2>2. [pc |-> "open", does |-> "mark", key |-> k, name |-> PlanPath(k),
         created |-> PlansOf(k) = {}, text |-> MarkText(k, status, blocked)] \in MarkCommands
    BY TicketTypes, MarkTypes DEF MarkCommands
  <2>3. cmd' \in [Agents -> {Idle} \cup MarkCommands \cup PullCommands]
    BY <1>0, <2>1, <2>2
  <2>4. UNCHANGED disk /\ commands' \in Nat /\ torn' \in BOOLEAN
    BY <1>0, <1>2 DEF MarkRead, Begins, Hollow
  <2> QED BY <2>3, <2>4 DEF disk, TypeOK, Breakdown, Files
<1>3. ASSUME NEW a \in Agents, PullRead(a) PROVE TypeOK'
  <2>1. PICK e \in Epics, n \in Ids :
          /\ <<e, n>> \in TicketsOf(e) /\ FileOf(<<e, n>>) = Nothing
          /\ cmd' = [cmd EXCEPT ![a] =
               [pc |-> "open", does |-> "pull", key |-> <<e, n>>,
                name |-> Entry(<<e, n>>).name, created |-> FALSE, text |-> PullText(<<e, n>>)]]
    BY <1>3 DEF PullRead
  <2>2. [pc |-> "open", does |-> "pull", key |-> <<e, n>>, name |-> Entry(<<e, n>>).name,
         created |-> FALSE, text |-> PullText(<<e, n>>)] \in PullCommands
    BY <2>1, PullTypes DEF PullCommands
  <2>3. cmd' \in [Agents -> {Idle} \cup MarkCommands \cup PullCommands]
    BY <1>0, <2>1, <2>2
  <2>4. UNCHANGED disk /\ commands' \in Nat /\ torn' \in BOOLEAN
    BY <1>0, <1>3 DEF PullRead, Begins, Hollow
  <2> QED BY <2>3, <2>4 DEF disk, TypeOK, Breakdown, Files
<1>4. ASSUME NEW a \in Agents, Open(a) \/ Write(a) PROVE TypeOK'
  <2>1. PICK content \in {Blank, cmd[a].text} :
          /\ Put(a, content) /\ Busy(a)
          /\ UNCHANGED <<store, breakdown, gate, container, commands, torn>>
    BY <1>4 DEF Open, Write, Busy
  <2>2. cmd' \in [Agents -> {Idle} \cup MarkCommands \cup PullCommands]
    <3>1. CASE Open(a)
      <4>1. [cmd[a] EXCEPT !.pc = "write"] \in MarkCommands \cup PullCommands
        BY <2>1, CommandTypes DEF MarkCommands, PullCommands
      <4> QED BY <1>0, <3>1, <4>1 DEF Open
    <3>2. CASE Write(a)
      BY <1>0, <3>2 DEF Write
    <3> QED BY <1>4, <3>1, <3>2
  <2>3. CASE Marks(a)
    <3>1. /\ cmd[a].key[1] \in Epics /\ cmd[a].name \in PlanNames
          /\ cmd[a].text \in PlanFiles
      BY <2>3, CommandTypes DEF MarkCommands, Marks
    <3>2. leaf' = leaf /\ plan' = [plan EXCEPT ![cmd[a].key[1]][cmd[a].name] = content]
      BY <2>1, <2>3 DEF Put, Marks
    <3>3. plan' \in [Epics -> [PlanNames -> PlanFiles \cup {Nothing, Blank}]]
      BY <3>1, <3>2, <2>1, FileTypes
    <3> QED BY <1>0, <2>1, <2>2, <3>2, <3>3, FileTypes DEF TypeOK, Breakdown, Files
  <2>4. CASE Pulls(a)
    <3>1. /\ cmd[a].key[1] \in Epics /\ cmd[a].name \in Names
          /\ cmd[a].text \in LeafFiles
      BY <2>4, CommandTypes DEF PullCommands, Pulls
    <3>2. plan' = plan /\ leaf' = [leaf EXCEPT ![cmd[a].key[1]][cmd[a].name] = content]
      BY <2>1, <2>4 DEF Put, Pulls
    <3>3. leaf' \in [Epics -> [Names -> LeafFiles \cup {Nothing, Blank}]]
      BY <3>1, <3>2, <2>1, FileTypes
    <3> QED BY <1>0, <2>1, <2>2, <3>2, <3>3, FileTypes DEF TypeOK, Breakdown, Files
  <2> QED BY <2>1, <2>3, <2>4, CommandTypes
<1>5. ASSUME NEW a \in Agents, OpenRefused(a) \/ Crash(a) PROVE TypeOK'
  BY <1>0, <1>5 DEF OpenRefused, Crash, disk, TypeOK, Breakdown, Files
<1>6. ASSUME NEW e \in Epics, NEW s \in ContainerStatuses, SetContainer(e, s) PROVE TypeOK'
  <2>1. container' \in [Epics -> ContainerStatuses]
    BY <1>6, FileTypes DEF SetContainer
  <2>2. UNCHANGED <<store, breakdown, gate, leaf, plan, cmd, torn>> /\ commands' \in Nat
    BY <1>0, <1>6 DEF SetContainer
  <2> QED BY <1>0, <2>1, <2>2, FileTypes DEF TypeOK, Breakdown, Files
<1> QED BY <1>1, <1>2, <1>3, <1>4, <1>5, <1>6 DEF Next

LEMMA TreeTypeInit == Init => TypeOK
<1> SUFFICES ASSUME Init PROVE TypeOK
  OBVIOUS
<1>1. PICK t \in Trees :
        /\ store = t.store /\ breakdown = t.breakdown /\ gate = t.gate
        /\ container = t.container /\ leaf = t.leaf /\ plan = t.plan
  BY DEF Init
<1> QED BY <1>1, TreesAreTyped DEF Init, TypeOK

\* Whatever tree they start from, and however they interleave and die, the
\* commands keep it a tree.
THEOREM TreesStayTyped == Spec => []TypeOK
BY TreeTypeInit, TreeTypeStep, PTL DEF Spec

\* A row's reference leads find back to the row, in every tree.
THEOREM RowsLeadBack == Spec => []RowRefFinds
BY TreesStayTyped, RowsAreFound, PTL
-----------------------------------------------------------------------------
(* The longest chain: what a recursion over what is ahead computes, where  *)
(* no ticket is ahead of itself.  The induction is by hand: of the tickets *)
(* a claim fails for, one has none of them ahead of it.                    *)

Chains(remaining, ahead) ==
  LET chain[k \in remaining] == Append(Longest({<<>>} \cup {chain[b] : b \in ahead[k]}), k)
  IN chain

Extended(chains, k) == Append(Longest({<<>>} \cup chains), k)
Closed(D, ahead) == \A k \in D : ahead[k] \subseteq D
Solves(g, D, ahead) == g = [k \in D |-> Extended({g[b] : b \in ahead[k]}, k)]
Grounded(R, ahead) ==
  /\ Closed(R, ahead)
  /\ \A S \in SUBSET R : S # {} => \E x \in S : ahead[x] \cap S = {}

LEMMA SameImages ==
  ASSUME NEW A, NEW g, NEW h, \A b \in A : g[b] = h[b]
  PROVE  {g[b] : b \in A} = {h[b] : b \in A}
OBVIOUS

LEMMA SolutionsAgree ==
  ASSUME NEW R, NEW ahead, Grounded(R, ahead),
         NEW D \in SUBSET R, NEW g, Closed(D, ahead), Solves(g, D, ahead),
         NEW E \in SUBSET R, NEW h, Closed(E, ahead), Solves(h, E, ahead)
  PROVE  \A x \in D \cap E : g[x] = h[x]
<1> DEFINE S == {x \in D \cap E : g[x] # h[x]}
<1> SUFFICES ASSUME S # {} PROVE FALSE
  OBVIOUS
<1>1. PICK x \in S : ahead[x] \cap S = {}
  BY DEF Grounded
<1>2. x \in D \cap E /\ \A b \in ahead[x] : g[b] = h[b]
  BY <1>1 DEF Closed
<1>3. {g[b] : b \in ahead[x]} = {h[b] : b \in ahead[x]}
  BY <1>2
<1>4. g[x] = Extended({g[b] : b \in ahead[x]}, x) /\ h[x] = Extended({h[b] : b \in ahead[x]}, x)
  BY <1>2 DEF Solves
<1> QED BY <1>1, <1>3, <1>4

LEMMA RecursionSolved ==
  ASSUME NEW R, NEW ahead, Grounded(R, ahead)
  PROVE  \E g : Solves(g, R, ahead)
<1> DEFINE Solved(D, g) == D \in SUBSET R /\ Closed(D, ahead) /\ Solves(g, D, ahead)
           W == {x \in R : \E D, g : Solved(D, g) /\ x \in D}
           Value(x) == CHOOSE v : \E D, g : Solved(D, g) /\ x \in D /\ v = g[x]
           G == [x \in W |-> Value(x)]
<1>1. ASSUME NEW D, NEW g, Solved(D, g), NEW x \in D PROVE x \in W /\ G[x] = g[x]
  <2>1. x \in W
    BY <1>1
  <2>2. PICK E, h : Solved(E, h) /\ x \in E /\ Value(x) = h[x]
    BY <1>1
  <2>3. g[x] = h[x]
    BY <1>1, <2>2, SolutionsAgree
  <2> QED BY <2>1, <2>2, <2>3
<1>2. Closed(W, ahead)
  BY <1>1 DEF Closed
<1>3. ASSUME NEW x \in W PROVE G[x] = Extended({G[b] : b \in ahead[x]}, x)
  <2>1. PICK D, g : Solved(D, g) /\ x \in D
    BY <1>3
  <2>2. \A b \in ahead[x] : G[b] = g[b]
    BY <1>1, <2>1 DEF Closed
  <2>3. G[x] = g[x]
    BY <1>1, <2>1
  <2>4. g[x] = Extended({g[b] : b \in ahead[x]}, x)
    BY <2>1 DEF Solves
  <2> HIDE DEF G
  <2>5. {g[b] : b \in ahead[x]} = {G[b] : b \in ahead[x]}
    BY <2>2, SameImages
  <2> QED BY <2>3, <2>4, <2>5
<1>4. Solves(G, W, ahead)
  BY <1>3 DEF Solves
<1>5. W = R
  <2> SUFFICES ASSUME R \ W # {} PROVE FALSE
    OBVIOUS
  <2>1. PICK k \in R \ W : ahead[k] \cap (R \ W) = {}
    BY DEF Grounded
  <2>2. ahead[k] \subseteq W
    BY <2>1 DEF Grounded, Closed
  <2> DEFINE D == W \cup {k}
             h == [x \in D |-> IF x \in W THEN G[x] ELSE Extended({G[b] : b \in ahead[k]}, k)]
  <2>3. D \in SUBSET R /\ Closed(D, ahead)
    BY <1>2, <2>2 DEF Closed
  <2>4. ASSUME NEW x \in D PROVE h[x] = Extended({h[b] : b \in ahead[x]}, x)
    <3>1. \A b \in ahead[x] : h[b] = G[b]
      BY <1>2, <2>2, <2>4 DEF Closed
    <3>3. h[x] = Extended({G[b] : b \in ahead[x]}, x)
      BY <1>3, <2>1
    <3> HIDE DEF h, G
    <3>2. {h[b] : b \in ahead[x]} = {G[b] : b \in ahead[x]}
      BY <3>1, SameImages
    <3> QED BY <3>2, <3>3
  <2>5. Solves(h, D, ahead)
    BY <2>4 DEF Solves
  <2> QED BY <2>1, <2>3, <2>5
<1> QED BY <1>4, <1>5

LEMMA ChainsSolve ==
  ASSUME NEW R, NEW ahead, Grounded(R, ahead)
  PROVE  Solves(Chains(R, ahead), R, ahead)
<1> DEFINE Chain(g) == g = [k \in R |-> Append(Longest({<<>>} \cup {g[b] : b \in ahead[k]}), k)]
<1>1. PICK g : Solves(g, R, ahead)
  BY RecursionSolved
<1>4. Chain(g)
  BY <1>1, Zenon DEF Solves, Extended
<1>2. Chains(R, ahead) = CHOOSE s : Chain(s)
  BY DEF Chains
<1> HIDE DEF Chain
<1>3. Chain(Chains(R, ahead))
  BY <1>4, <1>2
<1> QED BY <1>3 DEF Chain, Solves, Extended
LEMMA ChainsUsed ==
  ASSUME NEW R, NEW ahead, NEW ends
  PROVE LongestChain(R, ahead, ends) = Longest({<<>>} \cup {Chains(R, ahead)[k] : k \in ends})
BY DEF LongestChain, Chains

LEMMA LeastExists ==
  ASSUME NEW T, T \subseteq Nat, T # {}
  PROVE  \E x \in T : \A y \in T : x <= y
<1> DEFINE R == OpToRel(<, Nat)
<1>1. IsWellFoundedOn(R, Nat)
  BY NatLessThanWellFounded
<1>2. PICK x \in T : \A y \in T : ~(<<y, x>> \in R)
  <2> HIDE DEF R
  <2> QED BY <1>1, WFMin, Zenon
<1>3. \A y \in T : ~(y < x)
  BY <1>2 DEF OpToRel
<1> QED BY <1>3

\* Among finitely many chains one is longest: the fewest are at least as long.
LEMMA LongestIs ==
  ASSUME NEW C, IsFiniteSet(C), C # {}, \A c \in C : Len(c) \in Nat
  PROVE  Longest(C) \in C /\ \A d \in C : Len(d) <= Len(Longest(C))
<1> DEFINE Up(c) == {d \in C : Len(c) <= Len(d)}
           T == {Cardinality(Up(c)) : c \in C}
<1>1. \A c \in C : IsFiniteSet(Up(c)) /\ Cardinality(Up(c)) \in Nat
  BY FS_Subset, FS_CardinalityType
<1>2. PICK n \in T : \A m \in T : n <= m
  <2>1. T \subseteq Nat /\ T # {}
    BY <1>1
  <2> HIDE DEF T
  <2> QED BY <2>1, LeastExists
<1>3. PICK c \in C : n = Cardinality(Up(c))
  BY <1>2
<1>4. ASSUME NEW d \in C, ~(Len(d) <= Len(c)) PROVE FALSE
  <2>1. Up(d) \subseteq Up(c) /\ c \in Up(c) /\ c \notin Up(d)
    BY <1>4
  <2>2. Cardinality(Up(d)) < Cardinality(Up(c))
    <3> HIDE DEF Up
    <3>1. Up(d) # Up(c)
      BY <2>1
    <3> QED BY <1>1, <2>1, <3>1, FS_Subset
  <2>3. Cardinality(Up(c)) <= Cardinality(Up(d))
    BY <1>2, <1>3
  <2> HIDE DEF Up
  <2>4. Cardinality(Up(c)) \in Nat /\ Cardinality(Up(d)) \in Nat
    BY <1>1, <1>4
  <2> QED BY <2>2, <2>3, <2>4
<1> QED BY <1>4 DEF Longest

\* The chain to a ticket: every link waits, it starts where nothing is ahead.
ChainTo(c, k, R, ahead) ==
  /\ c \in Seq(R) /\ Len(c) > 0 /\ c[Len(c)] = k
  /\ \A i \in 2..Len(c) : c[i - 1] \in ahead[c[i]]
  /\ ahead[c[1]] = {}

LEMMA ChainsAhead ==
  ASSUME NEW R, IsFiniteSet(R), NEW ahead, Grounded(R, ahead), NEW k \in R,
         \A b \in ahead[k] : ChainTo(Chains(R, ahead)[b], b, R, ahead)
  PROVE  \E before \in Seq(R) :
           /\ Chains(R, ahead)[k] = Append(before, k)
           /\ before = <<>> \/ \E b \in ahead[k] : before = Chains(R, ahead)[b]
           /\ \A b \in ahead[k] : Len(Chains(R, ahead)[b]) <= Len(before)
<1> DEFINE chains == Chains(R, ahead)
           C == {chains[b] : b \in ahead[k]}
           before == Longest({<<>>} \cup C)
<1>1. chains[k] = Append(before, k)
  BY ChainsSolve DEF Solves, Extended
<1>2. ahead[k] \subseteq R
  BY DEF Grounded, Closed
<1>3. IsFiniteSet(ahead[k])
  BY <1>2, FS_Subset
<1>4. IsFiniteSet({<<>>} \cup C)
  <2> DEFINE f == [b \in ahead[k] |-> chains[b]]
  <2> HIDE DEF chains
  <2>1. f \in Surjection(ahead[k], C)
    BY DEF Surjection
  <2>2. IsFiniteSet(C)
    BY <1>3, <2>1, FS_Surjection
  <2> QED BY <2>2, FS_Union, FS_Singleton
<1>5. \A c \in {<<>>} \cup C : c \in Seq(R) /\ Len(c) \in Nat
  <2>1. \A b \in ahead[k] : chains[b] \in Seq(R)
    BY DEF ChainTo
  <2>2. <<>> \in Seq(R) /\ \A c \in Seq(R) : Len(c) \in Nat
    OBVIOUS
  <2> HIDE DEF chains
  <2> QED BY <2>1, <2>2, Zenon
<1>6. before \in {<<>>} \cup C /\ \A d \in {<<>>} \cup C : Len(d) <= Len(before)
  <2> HIDE DEF C
  <2> QED BY <1>4, <1>5, LongestIs
<1> QED BY <1>1, <1>5, <1>6

LEMMA ChainsAreChains ==
  ASSUME NEW R, IsFiniteSet(R), NEW ahead, Grounded(R, ahead)
  PROVE  \A k \in R : ChainTo(Chains(R, ahead)[k], k, R, ahead)
<1> DEFINE chains == Chains(R, ahead)
           S == {k \in R : ~ChainTo(chains[k], k, R, ahead)}
<1> SUFFICES ASSUME S # {} PROVE FALSE
  OBVIOUS
<1>1. PICK k \in S : ahead[k] \cap S = {}
  BY DEF Grounded
<1>2. k \in R /\ \A b \in ahead[k] : b \in R /\ ChainTo(chains[b], b, R, ahead)
  BY <1>1 DEF Grounded, Closed
<1>3. PICK before \in Seq(R) :
        /\ chains[k] = Append(before, k)
        /\ before = <<>> \/ \E b \in ahead[k] : before = chains[b]
        /\ \A b \in ahead[k] : Len(chains[b]) <= Len(before)
  BY <1>2, ChainsAhead
<1> HIDE DEF S
<1>4. CASE ahead[k] = {}
  <2>1. before = <<>>
    BY <1>3, <1>4
  <2>2. chains[k] = <<k>>
    BY <1>3, <2>1
  <2> HIDE DEF chains
  <2>3. ChainTo(chains[k], k, R, ahead)
    BY <1>2, <1>4, <2>2 DEF ChainTo
  <2> QED BY <1>1, <2>3 DEF S, chains
<1>5. CASE ahead[k] # {}
  <2>1. PICK b \in ahead[k] : before = chains[b]
    <3>1. PICK b \in ahead[k] : Len(chains[b]) > 0
      BY <1>2, <1>5 DEF ChainTo
    <3> HIDE DEF chains
    <3>3. chains[b] \in Seq(R) /\ Len(chains[b]) <= Len(before)
      BY <1>2, <1>3, <3>1 DEF ChainTo
    <3>2. before # <<>>
      BY <3>1, <3>3
    <3> QED BY <1>3, <3>2
  <2> HIDE DEF chains
  <2>2. before \in Seq(R) /\ Len(before) > 0 /\ before[Len(before)] = b
        /\ (\A i \in 2..Len(before) : before[i - 1] \in ahead[before[i]]) /\ ahead[before[1]] = {}
    BY <1>2, <2>1 DEF ChainTo
  <2>3. /\ chains[k] \in Seq(R) /\ Len(chains[k]) = Len(before) + 1 /\ chains[k][Len(before) + 1] = k
        /\ \A i \in 1..Len(before) : chains[k][i] = before[i]
    BY <1>2, <1>3, <2>2
  <2>4. ASSUME NEW i \in 2..Len(chains[k]) PROVE chains[k][i - 1] \in ahead[chains[k][i]]
    <3>1. CASE i = Len(before) + 1
      BY <2>1, <2>2, <2>3, <3>1
    <3>2. CASE i # Len(before) + 1
      <4>1. i \in 2..Len(before) /\ i - 1 \in 1..Len(before) /\ i \in 1..Len(before)
        BY <2>2, <2>3, <2>4, <3>2
      <4> QED BY <2>2, <2>3, <4>1
    <3> QED BY <3>1, <3>2
  <2>5. ChainTo(chains[k], k, R, ahead)
    BY <2>2, <2>3, <2>4 DEF ChainTo
  <2> QED BY <1>1, <2>5 DEF S, chains
<1> QED BY <1>4, <1>5

LEMMA NoneIsLonger ==
  ASSUME NEW R, IsFiniteSet(R), NEW ahead, Grounded(R, ahead)
  PROVE  \A k \in R : \A n \in Nat \ {0} : \A c \in [1..n -> R] :
           c[n] = k /\ (\A i \in 2..n : c[i - 1] \in ahead[c[i]]) => n <= Len(Chains(R, ahead)[k])
<1> DEFINE chains == Chains(R, ahead)
           Bounded(k) == \A n \in Nat \ {0} : \A c \in [1..n -> R] :
             c[n] = k /\ (\A i \in 2..n : c[i - 1] \in ahead[c[i]]) => n <= Len(chains[k])
           S == {k \in R : ~Bounded(k)}
<1> SUFFICES ASSUME S # {} PROVE FALSE
  OBVIOUS
<1>1. PICK k \in S : ahead[k] \cap S = {}
  BY DEF Grounded
<1>2. k \in R /\ \A b \in ahead[k] : b \in R /\ Bounded(b)
  BY <1>1 DEF Grounded, Closed
<1>10. PICK n \in Nat \ {0} : \E c \in [1..n -> R] :
        c[n] = k /\ (\A i \in 2..n : c[i - 1] \in ahead[c[i]]) /\ ~(n <= Len(chains[k]))
  BY <1>1
<1>3. PICK c \in [1..n -> R] :
        c[n] = k /\ (\A i \in 2..n : c[i - 1] \in ahead[c[i]]) /\ ~(n <= Len(chains[k]))
  BY <1>10
<1> HIDE DEF S
<1>4. PICK before \in Seq(R) : /\ chains[k] = Append(before, k)
                               /\ \A b \in ahead[k] : Len(chains[b]) <= Len(before)
  BY <1>2, ChainsAhead, ChainsAreChains
<1>5. \A b \in ahead[k] : Len(chains[b]) \in Nat
  BY <1>2, ChainsAreChains DEF ChainTo
<1> HIDE DEF chains
<1>6. Len(chains[k]) = Len(before) + 1 /\ Len(before) \in Nat
  BY <1>2, <1>4
<1>7. n # 1
  BY <1>3, <1>6
<1> DEFINE m == n - 1
           d == [i \in 1..m |-> c[i]]
<1>8. m \in Nat \ {0} /\ d \in [1..m -> R] /\ d[m] = c[m] /\ c[m] \in ahead[k]
      /\ \A i \in 2..m : d[i - 1] \in ahead[d[i]]
  <2>1. n \in 2..n
    BY <1>3, <1>7
  <2>2. c[n - 1] \in ahead[c[n]]
    BY <1>3, <2>1
  <2>3. \A i \in 2..m : i \in 2..n /\ i - 1 \in 1..m /\ i \in 1..m
    BY <1>3, <1>7
  <2> QED BY <1>3, <1>7, <2>2, <2>3
<1>9. m <= Len(chains[c[m]])
  <2> HIDE DEF m, d
  <2> QED BY <1>2, <1>8
<1> QED BY <1>3, <1>4, <1>5, <1>6, <1>8, <1>9

LEMMA TicketsAreFinite ==
  ASSUME TypeOK
  PROVE  IsFiniteSet(Tickets)
<1>1. IsFiniteSet(Ids \cup Names)
  BY FoldersAreFinite, NamesArePlanNames, FS_Union, FS_Subset
<1>2. IsFiniteSet(Keys)
  BY <1>1, FoldersAreFinite, FS_Product DEF Keys
<1>3. Tickets \subseteq Keys
  BY TicketTypes
<1> QED BY <1>2, <1>3, FS_Subset

\* Of remaining tickets, one has none of the others ahead: else they go in a circle.
LEMMA AheadIsGrounded ==
  ASSUME TypeOK, ~Cyclic
  PROVE  Grounded(Remaining, [k \in Remaining |-> Ahead(k)])
<1> DEFINE ahead == [k \in Remaining |-> Ahead(k)]
<1>1. ASSUME NEW S \in SUBSET Remaining, S # {}, \A x \in S : ahead[x] \cap S # {}
      PROVE  FALSE
  <2> DEFINE succ == [x \in Tickets \cup EpicKeys |-> Succ(x)]
  <2>1. S \in SUBSET (Tickets \cup EpicKeys) /\ S \cap Tickets # {}
    BY <1>1 DEF Remaining
  <2>2. ASSUME NEW x \in S PROVE succ[x] \cap S # {}
    <3>1. x \in Tickets /\ x \notin EpicKeys
      BY <1>1, EpicKeyShape DEF Remaining
    <3>2. Ahead(x) \subseteq succ[x]
      BY <3>1 DEF Ahead, Succ
    <3>3. Ahead(x) \cap S # {}
      BY <1>1
    <3> QED BY <3>2, <3>3
  <2> QED BY <2>1, <2>2 DEF Cyclic
<1>2. Closed(Remaining, ahead)
  BY DEF Closed, Ahead
<1> QED BY <1>1, <1>2 DEF Grounded

\* A ticket with nothing remaining ahead of it is offered, unless it is flagged or
\* waits for an epic that is open or for a ticket that was dropped.
LEMMA FirstCanMove ==
  ASSUME NEW k \in Remaining, Ahead(k) = {}
  PROVE  \/ Group(k) \in {"ready_to_refine", "ready_to_start", "in_progress"}
         \/ Flagged(k)
         \/ \E b \in (After(k) \cup GatedBy(k[1])) \ Done : b \in Tickets => State(b) = "dropped"
<1> SUFFICES ASSUME Group(k) \notin {"ready_to_refine", "ready_to_start", "in_progress"}, ~Flagged(k)
             PROVE  \E b \in (After(k) \cup GatedBy(k[1])) \ Done : b \in Tickets => State(b) = "dropped"
  OBVIOUS
<1>1. State(k) \notin {"done", "dropped"}
  BY DEF Remaining
<1>2. ~(After(k) \subseteq Met /\ GatedBy(k[1]) \subseteq Done)
  BY <1>1 DEF Group
<1>3. PICK b \in (After(k) \cup GatedBy(k[1])) : b \notin Done
  BY <1>2 DEF Met
<1>4. ASSUME b \in Tickets PROVE State(b) = "dropped"
  BY <1>3, <1>4 DEF Ahead, Remaining, Done
<1> QED BY <1>3, <1>4

LEMMA ChainLinks == TypeOK => ChainIsLongest
<1> SUFFICES ASSUME TypeOK, Loads, NEW scope \in Epics \cup {Nothing}
             PROVE  LET waits == [k \in Tickets |-> After(k) \cup GatedBy(k[1])]
                        chain == LongestRemainingChain(scope)
                        linked(c) == \A i \in 2..Len(c) : c[i - 1] \in waits[c[i]]
                        longer == {c \in [1..(Len(chain) + 1) -> Remaining] : linked(c)}
                    IN /\ linked(chain) /\ \A c \in longer : c[Len(c)] \notin InScope(scope)
                       /\ chain # <<>> =>
                            \/ Group(chain[1]) \in {"ready_to_refine", "ready_to_start", "in_progress"}
                            \/ Flagged(chain[1])
                            \/ \E b \in waits[chain[1]] \ Done : b \in Tickets => State(b) = "dropped"
  BY DEF ChainIsLongest
<1> DEFINE waits == [k \in Tickets |-> After(k) \cup GatedBy(k[1])]
           chain == LongestRemainingChain(scope)
           linked(c) == \A i \in 2..Len(c) : c[i - 1] \in waits[c[i]]
           longer == {c \in [1..(Len(chain) + 1) -> Remaining] : linked(c)}
           ahead == [k \in Remaining |-> Ahead(k)]
           chains == Chains(Remaining, ahead)
           ends == Remaining \cap InScope(scope)
           C == {<<>>} \cup {chains[k] : k \in ends}
<1>1. IsFiniteSet(Remaining) /\ Remaining \subseteq Tickets
  BY TicketsAreFinite, FS_Subset DEF Remaining
<1>2. Grounded(Remaining, ahead)
  BY AheadIsGrounded DEF Loads
<1>3. \A k \in Remaining : ChainTo(chains[k], k, Remaining, ahead)
  BY <1>1, <1>2, ChainsAreChains
<1>4. chain = Longest(C)
  BY ChainsUsed DEF LongestRemainingChain
<1>5. \A c \in C : c \in Seq(Remaining) /\ Len(c) \in Nat
  <2>1. \A k \in ends : chains[k] \in Seq(Remaining)
    BY <1>3 DEF ChainTo
  <2>2. <<>> \in Seq(Remaining) /\ \A c \in Seq(Remaining) : Len(c) \in Nat
    OBVIOUS
  <2> HIDE DEF chains, ends
  <2> QED BY <2>1, <2>2, Zenon
<1>6. chain \in C /\ \A c \in C : Len(c) <= Len(chain)
  <2> DEFINE f == [k \in ends |-> chains[k]]
  <2> HIDE DEF chains, ends, chain
  <2>1. IsFiniteSet(ends)
    BY <1>1, FS_Subset DEF ends
  <2>2. f \in Surjection(ends, {chains[k] : k \in ends})
    BY DEF Surjection
  <2>3. IsFiniteSet({chains[k] : k \in ends})
    BY <2>1, <2>2, FS_Surjection
  <2>4. IsFiniteSet(C)
    BY <2>3, FS_Union, FS_Singleton
  <2> HIDE DEF C
  <2>5. <<>> \in C
    BY DEF C
  <2> QED BY <1>4, <1>5, <2>4, <2>5, LongestIs
<1>7. chain # <<>> => \E k \in ends : ChainTo(chain, k, Remaining, ahead)
  <2> HIDE DEF chain, chains
  <2> QED BY <1>3, <1>6
<1>8. \A x \in Remaining : Ahead(x) = ahead[x] /\ ahead[x] = waits[x] \cap Remaining
  BY <1>1 DEF Ahead
<1> HIDE DEF chain, chains, ahead, waits
<1>9. linked(chain)
  <2>1. CASE chain = <<>>
    BY <2>1
  <2>2. CASE chain # <<>>
    BY <1>7, <1>8, <2>2 DEF ChainTo
  <2> QED BY <2>1, <2>2
<1>10. ASSUME NEW c \in longer, c[Len(c)] \in InScope(scope) PROVE FALSE
  <2> DEFINE n == Len(chain) + 1
  <2>1. n \in Nat \ {0} /\ c \in [1..n -> Remaining] /\ Len(c) = n
    BY <1>5, <1>6, <1>10
  <2>2. c[n] \in ends
    BY <1>10, <2>1
  <2>3. \A i \in 2..n : c[i - 1] \in ahead[c[i]]
    BY <1>8, <1>10, <2>1
  <2>4. n <= Len(chains[c[n]])
    <3> HIDE DEF n
    <3> QED BY <1>1, <1>2, <2>1, <2>2, <2>3, NoneIsLonger DEF chains
  <2>5. Len(chains[c[n]]) <= Len(chain)
    BY <1>6, <2>2
  <2> QED BY <1>5, <1>6, <2>2, <2>4, <2>5
<1>11. ASSUME chain # <<>>
       PROVE  \/ Group(chain[1]) \in {"ready_to_refine", "ready_to_start", "in_progress"}
              \/ Flagged(chain[1])
              \/ \E b \in waits[chain[1]] \ Done : b \in Tickets => State(b) = "dropped"
  <2>1. chain[1] \in Remaining /\ ahead[chain[1]] = {}
    BY <1>7, <1>11 DEF ChainTo
  <2>2. waits[chain[1]] = After(chain[1]) \cup GatedBy(chain[1][1])
    BY <1>1, <2>1 DEF waits
  <2> QED BY <1>8, <2>1, <2>2, FirstCanMove
<1> QED BY <1>9, <1>10, <1>11 DEF waits, chain

\* The chain status shows is a chain, none in scope is longer, and its first can
\* move, in every tree that loads: whatever the commands made of it.
THEOREM ChainsAreLongest == Spec => []ChainIsLongest
BY TreesStayTyped, ChainLinks, PTL

-----------------------------------------------------------------------------
(* What the commands know of each other.                                   *)

LEMMA OnlyOne ==
  ASSUME NEW S, IsFiniteSet(S), Cardinality(S) <= 1, NEW x \in S, NEW y \in S
  PROVE  x = y
<1>1. SUFFICES ASSUME x # y PROVE FALSE
  OBVIOUS
<1>2. IsFiniteSet({x, y}) /\ Cardinality({x, y}) <= Cardinality(S)
  BY FS_Subset
<1>3. IsFiniteSet({x}) /\ Cardinality({x}) = 1 /\ {x, y} = {x} \cup {y}
  BY FS_Singleton
<1>4. Cardinality({x} \cup {y}) = Cardinality({x}) + 1
  BY <1>1, <1>3, FS_AddElement
<1>5. Cardinality(S) \in Nat
  BY FS_CardinalityType
<1> QED BY <1>2, <1>3, <1>4, <1>5

\* A tree that loads has no id on two leaf files.
LEMMA LoadedLeavesOnce ==
  ASSUME TypeOK, Loads, NEW e \in Epics, NEW s \in Leaves(e), NEW o \in Leaves(e),
         leaf[e][s].id = leaf[e][o].id, leaf[e][s].id # Nothing
  PROVE  s = o
<1> DEFINE k == <<e, leaf[e][s].id>>
<1>1. k \in TicketsOf(e) /\ k[2] \in Ids
  BY LeafFields DEF TicketsOf
<1>2. {s, o} \subseteq FilesOf(k)
  BY <1>1 DEF FilesOf
<1>3. IsFiniteSet(FilesOf(k))
  <2>1. FilesOf(k) \subseteq Names
    BY DEF FilesOf, Leaves
  <2>2. IsFiniteSet(Names)
    BY NamesArePlanNames, FS_Subset
  <2> QED BY <2>1, <2>2, FS_Subset
<1>4. Cardinality(FilesOf(k)) <= 1
  BY <1>1 DEF Loads, FolderLoads
<1> QED BY <1>2, <1>3, <1>4, OnlyOne

\* In a tree that loads, a plan that goes by a file's name has that file.
LEMMA PlansHaveTheirLeaf ==
  ASSUME TypeOK, Loads, NEW e \in Epics, NEW p \in Plans(e), plan[e][p].ticket \in Names
  PROVE  plan[e][p].ticket \in Leaves(e)
<1> DEFINE s == plan[e][p].ticket
<1>1. PICK k \in TicketsOf(e) : p \in PlansOf(k)
  BY DEF Loads, FolderLoads
<1>2. k \in Tickets /\ k[1] = e
  BY <1>1 DEF Tickets, TicketsOf
<1>3. s \in {k[2], FileOf(k)}
  BY <1>1, <1>2 DEF PlansOf
<1>4. CASE s = k[2]
  BY <1>2, <1>4, TicketTypes, IdsAreNotNames
<1>5. CASE s = FileOf(k)
  BY <1>2, <1>5, FileOfTypes, IdsAreNotNames
<1> QED BY <1>3, <1>4, <1>5

\* A command that ends takes nothing from what the others rely on.
LEMMA EndingKeepsTheRest ==
  ASSUME TreeInv, UNCHANGED <<breakdown, leaf, plan>>,
         \A b \in Agents : cmd'[b] = cmd[b] \/ cmd'[b] = Idle
  PROVE  (LeavesOnce /\ PullSlots /\ MarkTexts /\ PlanSlots)'
<1>1. \A b \in Agents : cmd'[b] = cmd[b] \/ ~Busy(b)'
  BY DEF Busy, Idle
<1>2. \A b \in Agents : /\ Busy(b)' => Busy(b) /\ cmd'[b] = cmd[b]
                        /\ Marks(b)' => Marks(b) /\ cmd'[b] = cmd[b]
                        /\ Pulls(b)' => Pulls(b) /\ cmd'[b] = cmd[b]
                        /\ Holds(b)' => Holds(b) /\ cmd'[b] = cmd[b]
  BY <1>1 DEF Busy, Marks, Pulls, Holds
<1>3. \A e : Leaves(e)' = Leaves(e) /\ Plans(e)' = Plans(e) /\ EntryIds(e)' = EntryIds(e)
  BY DEF Leaves, Plans, EntryIds
<1>4. LeavesOnce'
  BY <1>2, <1>3 DEF TreeInv, LeavesOnce
<1>5. ASSUME NEW a \in Agents, Pulls(a)' PROVE PullSlot(a)'
  <2>1. cmd'[a] = cmd[a] /\ PullSlot(a)
    BY <1>2, <1>5 DEF TreeInv, PullSlots
  <2> QED BY <1>3, <2>1 DEF PullSlot
<1>6. ASSUME NEW a \in Agents, Marks(a)' PROVE MarkJoins(a)'
  <2>1. cmd'[a] = cmd[a] /\ MarkJoins(a)
    BY <1>2, <1>6 DEF TreeInv, MarkTexts
  <2> QED BY <1>2, <1>3, <2>1 DEF MarkJoins
<1>7. ASSUME NEW a \in Agents, Holds(a)' PROVE PlanSlot(a)'
  <2>1. cmd'[a] = cmd[a] /\ PlanSlot(a)
    BY <1>2, <1>7 DEF TreeInv, PlanSlots
  <2> QED BY <1>2, <1>3, <2>1 DEF PlanSlot
<1> QED BY <1>4, <1>5, <1>6, <1>7 DEF PullSlots, MarkTexts, PlanSlots

LEMMA OthersKept ==
  ASSUME TypeOK, NEW a \in Agents, NEW c, cmd' = [cmd EXCEPT ![a] = c]
  PROVE  /\ cmd'[a] = c
         /\ \A b \in Agents \ {a} :
              /\ cmd'[b] = cmd[b]
              /\ Busy(b)' <=> Busy(b)
              /\ Marks(b)' <=> Marks(b)
              /\ Pulls(b)' <=> Pulls(b)
              /\ Holds(b)' <=> Holds(b)
<1>1. cmd'[a] = c /\ \A b \in Agents \ {a} : cmd'[b] = cmd[b]
  BY DEF TypeOK
<1> QED BY <1>1 DEF Busy, Marks, Pulls, Holds

\* A mark knows a plan of its ticket, or names the one it creates so.
LEMMA MarkReadKnows ==
  ASSUME TreeInv, NEW a \in Agents, MarkRead(a)
  PROVE  (LeavesOnce /\ PullSlots /\ MarkTexts /\ PlanSlots)'
<1>1. PICK k \in Tickets, status \in MarkStatuses, blocked \in BOOLEAN :
        cmd' = [cmd EXCEPT ![a] =
          [pc |-> "open", does |-> "mark", key |-> k, name |-> PlanPath(k),
           created |-> PlansOf(k) = {}, text |-> MarkText(k, status, blocked)]]
  BY DEF MarkRead
<1> DEFINE text == MarkText(k, status, blocked)
           t == text.ticket
<1>2. TypeOK /\ Loads /\ UNCHANGED <<breakdown, leaf, plan>>
  BY DEF TreeInv, MarkRead, disk
<1>3. /\ cmd'[a] = [pc |-> "open", does |-> "mark", key |-> k, name |-> PlanPath(k),
                    created |-> PlansOf(k) = {}, text |-> text]
      /\ \A b \in Agents \ {a} : /\ cmd'[b] = cmd[b]
                                 /\ Marks(b)' <=> Marks(b)
                                 /\ Pulls(b)' <=> Pulls(b)
                                 /\ Holds(b)' <=> Holds(b)
  BY <1>1, <1>2, OthersKept
<1>4. /\ ~Pulls(a)' /\ Marks(a)' /\ (Holds(a)' => PlansOf(k) # {})
      /\ cmd'[a].key = k /\ cmd'[a].name = PlanPath(k) /\ cmd'[a].text = text
  <2>1. /\ cmd'[a].pc = "open" /\ cmd'[a].does = "mark"
        /\ cmd'[a].created = (PlansOf(k) = {})
        /\ cmd'[a].key = k /\ cmd'[a].name = PlanPath(k) /\ cmd'[a].text = text
    BY <1>3
  <2> QED BY <2>1 DEF Pulls, Marks, Busy, Holds
<1>5. \A e : Leaves(e)' = Leaves(e) /\ Plans(e)' = Plans(e) /\ EntryIds(e)' = EntryIds(e)
  BY <1>2 DEF Leaves, Plans, EntryIds
<1>6. LeavesOnce'
  <2>1. \A e \in Epics : \A s, o \in Leaves(e) :
          leaf[e][s].id = leaf[e][o].id /\ leaf[e][s].id # Nothing => s = o
    BY <1>2, LoadedLeavesOnce
  <2> QED BY <1>2, <1>5, <2>1 DEF LeavesOnce
<1>7. ASSUME NEW b \in Agents, Pulls(b)' PROVE PullSlot(b)'
  <2>1. b # a
    BY <1>4, <1>7
  <2>2. Pulls(b) /\ cmd'[b] = cmd[b]
    BY <1>3, <1>7, <2>1
  <2>3. PullSlot(b)
    BY <2>2 DEF TreeInv, PullSlots
  <2> QED BY <1>2, <1>5, <2>2, <2>3 DEF PullSlot
<1>8. ASSUME NEW b \in Agents \ {a}, Marks(b)' PROVE MarkJoins(b)'
  <2>1. Marks(b) /\ cmd'[b] = cmd[b]
    BY <1>3, <1>8
  <2>2. MarkJoins(b)
    BY <2>1 DEF TreeInv, MarkTexts
  <2>3. \A c \in Agents : Pulls(c)' => Pulls(c) /\ cmd'[c] = cmd[c]
    BY <1>3, <1>4
  <2> QED BY <1>2, <1>5, <2>1, <2>2, <2>3 DEF MarkJoins
<1>9. MarkJoins(a)'
  <2>1. /\ text \in PlanFiles
        /\ k[2] \notin Ids => FileOf(k) = k[2] /\ k[2] \in Names
        /\ t = IF PlansOf(k) # {} THEN PlanOf(k).ticket
               ELSE IF k[2] \in Ids THEN k[2] ELSE FileOf(k)
    BY <1>2, MarkTypes
  <2>2. t \in {k[2], FileOf(k)} /\ t \in Ids \cup Names /\ t # Nothing
    <3>1. PlansOf(k) # {} => PlanOf(k).ticket \in {k[2], FileOf(k)}
      BY <1>2, PlanOfTypes
    <3>2. t \in {k[2], FileOf(k)}
      BY <2>1, <3>1
    <3>3. t \in Ids \cup Names
      BY <2>1 DEF PlanFiles
    <3> QED BY <3>2, <3>3, IdsAreNotNames
  <2>3. CASE t = k[2] /\ t \in Ids
    BY <1>4, <2>3 DEF MarkJoins
  <2>4. CASE t = FileOf(k) /\ t \notin Ids
    <3>1. t \in FilesOf(k) /\ t \in Leaves(k[1])
      BY <2>2, <2>4, FileOfTypes
    <3>2. \/ leaf[k[1]][t].id = k[2] /\ k[2] \in Ids
          \/ leaf[k[1]][t].id = Nothing /\ k[2] = t /\ k[2] \notin Ids
      BY <1>2, <3>1, TicketTypes DEF FilesOf
    <3>3. ASSUME NEW b \in Agents, Pulls(b)', cmd'[b].key[1] = k[1], cmd'[b].name = t
          PROVE  FALSE
      <4>1. Pulls(b) /\ cmd[b].key[1] = k[1] /\ cmd[b].name = t
        BY <1>3, <1>4, <3>3
      <4>2. /\ leaf[k[1]][t].id \in Ids
            /\ \A p \in Plans(k[1]) : plan[k[1]][p].ticket # t
        BY <3>1, <4>1 DEF TreeInv, PullSlots, PullSlot
      <4>3. k[2] \in Ids
        BY <3>2, <4>2, IdsAreNotNames
      <4>4. PlansOf(k) # {}
        BY <2>1, <2>4, <4>3
      <4>5. PlanPath(k) \in Plans(k[1]) /\ plan[k[1]][PlanPath(k)].ticket = t
        BY <1>2, <2>1, <4>4, PlanOfTypes
      <4> QED BY <4>2, <4>5
    <3>4. t \in Leaves(k[1])' /\ leaf'[k[1]][t] = leaf[k[1]][t]
      BY <1>2, <1>5, <3>1
    <3>5. leaf'[k[1]][t].id = k[2] \/ (leaf'[k[1]][t].id = Nothing /\ k[2] = t)
      BY <3>2, <3>4
    <3>6. \A b \in Agents : Pulls(b)' => cmd'[b].key[1] # k[1] \/ cmd'[b].name # t
      BY <3>3
    <3>7. Leaves(cmd[a].key[1])' = Leaves(k[1])
      BY <1>4, <1>5
    <3> HIDE DEF t
    <3>8. cmd'[a].text.ticket = t /\ t \in Leaves(cmd[a].key[1])'
      BY <1>4, <3>1, <3>7 DEF t
    <3> QED BY <1>4, <3>5, <3>6, <3>8 DEF MarkJoins
  <2>5. FileOf(k) # Nothing => FileOf(k) \notin Ids
    BY FileOfTypes, IdsAreNotNames
  <2> QED BY <2>1, <2>2, <2>3, <2>4, <2>5
<1>10. ASSUME NEW b \in Agents, Holds(b)' PROVE PlanSlot(b)'
  <2>1. ASSUME NEW c \in Agents, Holds(c)'
        PROVE  \/ Holds(c) /\ cmd'[c] = cmd[c] /\ PlanSlot(c)
               \/ /\ c = a /\ cmd'[a].name \in Plans(cmd'[a].key[1])
                  /\ plan[cmd'[a].key[1]][cmd'[a].name].ticket = cmd'[a].text.ticket
    <3>1. CASE c # a
      BY <1>3, <2>1, <3>1 DEF TreeInv, PlanSlots
    <3>2. CASE c = a
      <4>1. PlansOf(k) # {}
        BY <1>4, <2>1, <3>2
      <4>2. PlanPath(k) \in Plans(k[1]) /\ plan[k[1]][PlanPath(k)].ticket = t
        BY <1>2, <4>1, PlanOfTypes, MarkTypes
      <4> QED BY <1>4, <3>2, <4>2
    <3> QED BY <3>1, <3>2
  <2> DEFINE e == cmd'[b].key[1]
             p == cmd'[b].name
  <2>2. p \in Plans(e) => plan[e][p] # Nothing
    BY DEF Plans, IsFile
  <2>3. plan[e][p] # Nothing /\ (p \in Plans(e) => plan[e][p].ticket = cmd'[b].text.ticket)
    BY <1>10, <2>1, <2>2 DEF PlanSlot
  <2>4. ASSUME NEW c \in Agents, Holds(c)', cmd'[c].key[1] = e, cmd'[c].name = p
        PROVE  cmd'[c].text.ticket = cmd'[b].text.ticket
    <3>1. p \in Plans(e) => plan[e][p].ticket = cmd'[c].text.ticket
      BY <2>1, <2>4 DEF PlanSlot
    <3>2. CASE p \in Plans(e)
      BY <2>3, <3>1, <3>2
    <3>3. CASE p \notin Plans(e)
      <4>1. Holds(b) /\ cmd'[b] = cmd[b] /\ PlanSlot(b)
        BY <1>10, <2>1, <3>3
      <4>2. Holds(c) /\ cmd'[c] = cmd[c]
        BY <2>1, <2>4, <3>3
      <4> QED BY <2>4, <4>1, <4>2 DEF PlanSlot
    <3> QED BY <3>2, <3>3
  <2> QED BY <1>2, <1>5, <2>3, <2>4 DEF PlanSlot
<1> QED BY <1>6, <1>7, <1>8, <1>9, <1>10 DEF PullSlots, MarkTexts, PlanSlots

\* A pull has no other file in its way.
LEMMA PullReadKnows ==
  ASSUME TreeInv, NEW a \in Agents, PullRead(a)
  PROVE  (LeavesOnce /\ PullSlots /\ MarkTexts /\ PlanSlots)'
<1>1. PICK e \in Epics, n \in Ids :
        /\ <<e, n>> \in TicketsOf(e) /\ FileOf(<<e, n>>) = Nothing
        /\ leaf[e][Entry(<<e, n>>).name] = Nothing
        /\ cmd' = [cmd EXCEPT ![a] =
             [pc |-> "open", does |-> "pull", key |-> <<e, n>>, name |-> Entry(<<e, n>>).name,
              created |-> FALSE, text |-> PullText(<<e, n>>)]]
  BY DEF PullRead
<1> DEFINE k == <<e, n>>
           s == Entry(k).name
<1>2. TypeOK /\ Loads /\ UNCHANGED <<breakdown, leaf, plan>>
  BY DEF TreeInv, PullRead, disk
<1>3. /\ cmd'[a] = [pc |-> "open", does |-> "pull", key |-> k, name |-> s,
                    created |-> FALSE, text |-> PullText(k)]
      /\ \A b \in Agents \ {a} : /\ cmd'[b] = cmd[b]
                                 /\ Marks(b)' <=> Marks(b)
                                 /\ Pulls(b)' <=> Pulls(b)
                                 /\ Holds(b)' <=> Holds(b)
  BY <1>1, <1>2, OthersKept
<1>4. /\ ~Marks(a)' /\ ~Holds(a)'
      /\ cmd'[a].key = k /\ cmd'[a].name = s /\ cmd'[a].text = PullText(k)
  <2>1. /\ cmd'[a].pc = "open" /\ cmd'[a].does = "pull"
        /\ cmd'[a].key = k /\ cmd'[a].name = s /\ cmd'[a].text = PullText(k)
    BY <1>3
  <2> QED BY <2>1 DEF Marks, Holds
<1>5. \A f : Leaves(f)' = Leaves(f) /\ Plans(f)' = Plans(f) /\ EntryIds(f)' = EntryIds(f)
  BY <1>2 DEF Leaves, Plans, EntryIds
<1>6. LeavesOnce'
  <2>1. \A f \in Epics : \A m, o \in Leaves(f) :
          leaf[f][m].id = leaf[f][o].id /\ leaf[f][m].id # Nothing => m = o
    BY <1>2, LoadedLeavesOnce
  <2> QED BY <1>2, <1>5, <2>1 DEF LeavesOnce
<1>7. s \notin Leaves(e)
  BY <1>1 DEF Leaves, IsFile
<1>8. PullSlot(a)'
  <2>1. /\ n \in EntryIds(e) /\ s = breakdown.entry[e][n].name /\ s \in Names
        /\ \A o \in Leaves(e) : leaf[e][o].id # n
    BY <1>1, <1>2, PullTypes
  <2>2. PullText(k).id = n /\ PullText(k).status = ""
    BY DEF PullText
  <2>3. \A p \in Plans(e) : plan[e][p].ticket # s
    BY <1>2, <1>7, <2>1, PlansHaveTheirLeaf
  <2>4. cmd'[a].key[1] = e /\ cmd'[a].key[2] = n
    BY <1>4
  <2>5. cmd'[a].text.id = n /\ cmd'[a].text.status = ""
    BY <1>4, <2>2
  <2>6. cmd'[a].name = s
    BY <1>4
  <2> HIDE DEF s
  <2> QED BY <1>2, <1>5, <1>7, <2>1, <2>3, <2>4, <2>5, <2>6 DEF PullSlot
<1>9. ASSUME NEW b \in Agents \ {a}, Pulls(b)' PROVE PullSlot(b)'
  <2>1. Pulls(b) /\ cmd'[b] = cmd[b]
    BY <1>3, <1>9
  <2>2. PullSlot(b)
    BY <2>1 DEF TreeInv, PullSlots
  <2> QED BY <1>2, <1>5, <2>1, <2>2 DEF PullSlot
<1>10. ASSUME NEW b \in Agents, Marks(b)' PROVE MarkJoins(b)'
  <2>1. Marks(b) /\ cmd'[b] = cmd[b]
    BY <1>3, <1>4, <1>10
  <2>2. MarkJoins(b)
    BY <2>1 DEF TreeInv, MarkTexts
  <2>3. \A c \in Agents : Pulls(c)' => c = a \/ (Pulls(c) /\ cmd'[c] = cmd[c])
    BY <1>3
  <2>4. cmd[b].text.ticket \in Leaves(cmd[b].key[1]) =>
          cmd'[a].key[1] # cmd[b].key[1] \/ cmd'[a].name # cmd[b].text.ticket
    BY <1>4, <1>7
  <2> QED BY <1>2, <1>5, <2>1, <2>2, <2>3, <2>4 DEF MarkJoins
<1>11. ASSUME NEW b \in Agents, Holds(b)' PROVE PlanSlot(b)'
  <2>1. \A c \in Agents : Holds(c)' => Holds(c) /\ cmd'[c] = cmd[c]
    BY <1>3, <1>4
  <2>2. PlanSlot(b)
    BY <1>11, <2>1 DEF TreeInv, PlanSlots
  <2> QED BY <1>2, <1>5, <1>11, <2>1, <2>2 DEF PlanSlot
<1> QED BY <1>6, <1>8, <1>9, <1>10, <1>11 DEF PullSlots, MarkTexts, PlanSlots

\* What opening a file and writing it does to the tree, and to the command.
LEMMA PutsOneFile ==
  ASSUME TypeOK, NEW a \in Agents, Open(a) \/ Write(a)
  PROVE  /\ Busy(a) /\ breakdown' = breakdown
         /\ cmd[a].pc = IF Open(a) THEN "open" ELSE "write"
         /\ Put(a, IF Open(a) THEN Blank ELSE cmd[a].text)
         /\ cmd' = [cmd EXCEPT ![a] = IF Open(a) THEN [cmd[a] EXCEPT !.pc = "write"] ELSE Idle]
         /\ \A b \in Agents : /\ Busy(b)' => Busy(b)
                              /\ Marks(b)' => Marks(b)
                              /\ Pulls(b)' => Pulls(b)
                              /\ Busy(b)' => /\ cmd'[b].key = cmd[b].key
                                             /\ cmd'[b].name = cmd[b].name
                                             /\ cmd'[b].text = cmd[b].text
                              /\ b # a => (Holds(b)' <=> Holds(b))
<1> DEFINE c == IF Open(a) THEN [cmd[a] EXCEPT !.pc = "write"] ELSE Idle
<1>1. Open(a) => ~Write(a)
  BY DEF Open, Write
<1>2. cmd[a].pc = IF Open(a) THEN "open" ELSE "write"
  BY <1>1 DEF Open, Write
<1>3. Busy(a) /\ breakdown' = breakdown
  BY <1>2 DEF Open, Write, Busy
<1>4. Put(a, IF Open(a) THEN Blank ELSE cmd[a].text)
  BY <1>1 DEF Open, Write
<1>5. cmd' = [cmd EXCEPT ![a] = c]
  <2>1. CASE Open(a)
    BY <2>1 DEF Open
  <2>2. CASE Write(a) /\ ~Open(a)
    BY <2>2 DEF Write
  <2> QED BY <2>1, <2>2
<1>6. /\ cmd'[a] = c
      /\ \A b \in Agents \ {a} : /\ cmd'[b] = cmd[b]
                                 /\ Busy(b)' <=> Busy(b)
                                 /\ Marks(b)' <=> Marks(b)
                                 /\ Pulls(b)' <=> Pulls(b)
                                 /\ Holds(b)' <=> Holds(b)
  BY <1>5, OthersKept
<1>7. CASE Open(a)
  <2>1. cmd[a] \in MarkCommands \cup PullCommands
    BY <1>3, CommandTypes
  <2>2. cmd'[a] = [cmd[a] EXCEPT !.pc = "write"]
    BY <1>6, <1>7
  <2>3. /\ cmd'[a].key = cmd[a].key /\ cmd'[a].name = cmd[a].name
        /\ cmd'[a].text = cmd[a].text /\ cmd'[a].does = cmd[a].does
    BY <2>1, <2>2 DEF MarkCommands, PullCommands
  <2> QED BY <1>2, <1>3, <1>4, <1>5, <1>6, <2>3 DEF Marks, Pulls
<1>8. CASE ~Open(a)
  <2>1. ~Busy(a)' /\ ~Marks(a)' /\ ~Pulls(a)'
    BY <1>6, <1>8 DEF Idle, Busy, Marks, Pulls
  <2> QED BY <1>2, <1>3, <1>4, <1>5, <1>6, <2>1
<1> QED BY <1>7, <1>8

\* The plan a mark opens or writes, before and after.
LEMMA MarkPuts ==
  ASSUME TreeInv, NEW a \in Agents, Marks(a), Open(a) \/ Write(a)
  PROVE  LET e == cmd[a].key[1]
             p == cmd[a].name
         IN /\ e \in Epics /\ p \in PlanNames /\ cmd[a].text \in PlanFiles /\ leaf' = leaf
            /\ plan'[e][p] = IF Open(a) THEN Blank ELSE cmd[a].text
            /\ \A f \in Epics, q \in PlanNames :
                 f # e \/ q # p => plan'[f][q] = plan[f][q]
            /\ p \in Plans(e) => plan[e][p].ticket = cmd[a].text.ticket
<1> DEFINE e == cmd[a].key[1]
           p == cmd[a].name
           content == IF Open(a) THEN Blank ELSE cmd[a].text
<1>1. TypeOK /\ cmd[a] \in MarkCommands
  BY CommandTypes DEF TreeInv
<1>2. e \in Epics /\ p \in PlanNames /\ cmd[a].text \in PlanFiles
  BY <1>1 DEF MarkCommands, Keys
<1>3. leaf' = leaf /\ plan' = [plan EXCEPT ![e][p] = content]
  BY <1>1, PutsOneFile DEF Put, Marks
<1>4. /\ plan'[e][p] = content
      /\ \A f \in Epics, q \in PlanNames : f # e \/ q # p => plan'[f][q] = plan[f][q]
  BY <1>1, <1>2, <1>3, FileTypes
<1>5. p \in Plans(e) => plan[e][p].ticket = cmd[a].text.ticket
  <2>1. CASE Holds(a)
    BY <2>1 DEF TreeInv, PlanSlots, PlanSlot
  <2>2. CASE ~Holds(a)
    <3>1. Open(a) /\ cmd[a].created
      BY <2>2 DEF Holds, Write
    <3>2. plan[e][p] = Nothing
      BY <3>1 DEF Open, Taken
    <3> QED BY <3>2 DEF Plans, IsFile
  <2> QED BY <2>1, <2>2
<1> QED BY <1>2, <1>3, <1>4, <1>5

\* The leaf file a pull opens or writes, before and after.
LEMMA PullPuts ==
  ASSUME TreeInv, NEW a \in Agents, Pulls(a), Open(a) \/ Write(a)
  PROVE  LET e == cmd[a].key[1]
             s == cmd[a].name
         IN /\ e \in Epics /\ s \in Names /\ cmd[a].key[2] \in Ids
            /\ cmd[a].text \in LeafFiles /\ plan' = plan
            /\ leaf'[e][s] = IF Open(a) THEN Blank ELSE cmd[a].text
            /\ \A f \in Epics, o \in Names :
                 f # e \/ o # s => leaf'[f][o] = leaf[f][o]
            /\ PullSlot(a)
<1> DEFINE e == cmd[a].key[1]
           s == cmd[a].name
           content == IF Open(a) THEN Blank ELSE cmd[a].text
<1>1. TypeOK /\ cmd[a] \in PullCommands
  BY CommandTypes DEF TreeInv
<1>2. e \in Epics /\ s \in Names /\ cmd[a].key[2] \in Ids /\ cmd[a].text \in LeafFiles
  BY <1>1 DEF PullCommands
<1>3. plan' = plan /\ leaf' = [leaf EXCEPT ![e][s] = content]
  BY <1>1, PutsOneFile DEF Put, Pulls
<1>4. /\ leaf'[e][s] = content
      /\ \A f \in Epics, o \in Names : f # e \/ o # s => leaf'[f][o] = leaf[f][o]
  BY <1>1, <1>2, <1>3, FileTypes
<1> QED BY <1>2, <1>3, <1>4 DEF TreeInv, PullSlots

\* A mark that opens or writes its plan leaves every other command what it knows.
LEMMA MarkPutsSafely ==
  ASSUME TreeInv, NEW a \in Agents, Marks(a), Open(a) \/ Write(a)
  PROVE  (LeavesOnce /\ PullSlots /\ MarkTexts /\ PlanSlots)'
<1>0. PICK e, p, t : e = cmd[a].key[1] /\ p = cmd[a].name /\ t = cmd[a].text.ticket
  OBVIOUS
<1> USE <1>0
<1>1. /\ TypeOK /\ e \in Epics /\ p \in PlanNames /\ cmd[a].text \in PlanFiles
      /\ leaf' = leaf /\ breakdown' = breakdown
      /\ plan'[e][p] = IF Open(a) THEN Blank ELSE cmd[a].text
      /\ \A f \in Epics, q \in PlanNames : f # e \/ q # p => plan'[f][q] = plan[f][q]
      /\ p \in Plans(e) => plan[e][p].ticket = cmd[a].text.ticket
  BY MarkPuts, PutsOneFile DEF TreeInv
<1>2. /\ Busy(a)
      /\ \A b \in Agents : /\ Busy(b)' => Busy(b)
                           /\ Marks(b)' => Marks(b)
                           /\ Pulls(b)' => Pulls(b)
                           /\ Busy(b)' => /\ cmd'[b].key = cmd[b].key
                                          /\ cmd'[b].name = cmd[b].name
                                          /\ cmd'[b].text = cmd[b].text
                           /\ b # a => (Holds(b)' <=> Holds(b))
  BY <1>1, PutsOneFile
<1>3. \A f : Leaves(f)' = Leaves(f) /\ EntryIds(f)' = EntryIds(f)
  BY <1>1 DEF Leaves, EntryIds
<1>4. \A b \in Agents : (Marks(b) => Busy(b)) /\ (Pulls(b) => Busy(b)) /\ (Holds(b) => Marks(b))
  BY DEF Marks, Pulls, Holds
<1>5. \A b \in Agents : (Marks(b)' => Busy(b)') /\ (Pulls(b)' => Busy(b)') /\ (Holds(b)' => Marks(b)')
  BY DEF Marks, Pulls, Holds
<1>6. LeavesOnce'
  BY <1>1, <1>2, <1>3 DEF TreeInv, LeavesOnce
<1>7. MarkJoins(a)
  BY DEF TreeInv, MarkTexts
<1>8. ASSUME NEW b \in Agents, Pulls(b)' PROVE PullSlot(b)'
  <2>0. PICK f : f = cmd[b].key[1]
    OBVIOUS
  <2> USE <2>0
  <2>1. /\ Pulls(b) /\ PullSlot(b) /\ f \in Epics /\ cmd[b].name \in Names
        /\ cmd'[b].key = cmd[b].key /\ cmd'[b].name = cmd[b].name
        /\ cmd'[b].text = cmd[b].text
    BY <1>1, <1>2, <1>5, <1>8, CommandTypes DEF TreeInv, PullSlots, PullCommands
  <2>2. f = e => t # cmd[b].name
    BY <1>7, <2>1, IdsAreNotNames DEF MarkJoins
  <2>3. ASSUME NEW q \in Plans(f)' PROVE plan'[f][q].ticket # cmd[b].name
    <3>1. q \in PlanNames /\ plan'[f][q] # Blank
      BY DEF Plans, IsFile
    <3>2. CASE f = e /\ q = p
      BY <1>1, <2>2, <3>1, <3>2
    <3>3. CASE f # e \/ q # p
      <4>1. plan'[f][q] = plan[f][q]
        BY <1>1, <2>1, <3>1, <3>3
      <4>2. q \in Plans(f)
        BY <4>1 DEF Plans
      <4> QED BY <2>1, <4>1, <4>2 DEF PullSlot
    <3> QED BY <3>2, <3>3
  <2> QED BY <1>1, <1>3, <2>1, <2>3 DEF PullSlot
<1>9. ASSUME NEW b \in Agents, Marks(b)' PROVE MarkJoins(b)'
  <2>1. /\ MarkJoins(b) /\ cmd'[b].key = cmd[b].key /\ cmd'[b].text = cmd[b].text
    BY <1>2, <1>5, <1>9 DEF TreeInv, MarkTexts
  <2>2. \A c \in Agents : Pulls(c)' => /\ Pulls(c)
                                       /\ cmd'[c].key = cmd[c].key /\ cmd'[c].name = cmd[c].name
    BY <1>2, <1>5
  <2> QED BY <1>1, <1>3, <2>1, <2>2 DEF MarkJoins
<1>10. ASSUME NEW b \in Agents, Holds(b)' PROVE PlanSlot(b)'
  <2>0. PICK f, q : f = cmd[b].key[1] /\ q = cmd[b].name
    OBVIOUS
  <2> USE <2>0
  <2>1. \A c \in Agents : Holds(c)' => /\ Marks(c) /\ cmd'[c].key = cmd[c].key
                                       /\ cmd'[c].name = cmd[c].name /\ cmd'[c].text = cmd[c].text
    BY <1>2, <1>5
  <2>2. f \in Epics /\ q \in PlanNames
    BY <1>1, <1>10, <2>1, CommandTypes DEF MarkCommands, Keys
  <2>3. CASE Holds(a)
    <3>1. \A c \in Agents : Holds(c)' => Holds(c) /\ PlanSlot(c)
      BY <1>2, <2>3 DEF TreeInv, PlanSlots
    <3>2. \A c \in Agents : Holds(c)' /\ cmd[c].key[1] = f /\ cmd[c].name = q =>
            cmd[c].text.ticket = cmd[b].text.ticket
      BY <1>10, <3>1 DEF PlanSlot
    <3>3. CASE f = e /\ q = p
      <4>1. t = cmd[b].text.ticket
        BY <1>10, <2>3, <3>1, <3>3 DEF PlanSlot
      <4>2. plan'[f][q] # Nothing /\ (plan'[f][q] # Blank => plan'[f][q].ticket = t)
        BY <1>1, <3>3, NothingIsNoFile
      <4>3. q \in Plans(f)' => plan'[f][q] # Blank
        BY DEF Plans, IsFile
      <4> QED BY <1>10, <2>1, <3>2, <4>1, <4>2, <4>3 DEF PlanSlot
    <3>4. CASE f # e \/ q # p
      <4>1. plan'[f][q] = plan[f][q] /\ PlanSlot(b)
        BY <1>1, <1>10, <2>2, <3>1, <3>4
      <4>2. q \in Plans(f)' <=> q \in Plans(f)
        BY <4>1 DEF Plans
      <4> QED BY <1>10, <2>1, <3>2, <4>1, <4>2 DEF PlanSlot
    <3> QED BY <3>3, <3>4
  <2>4. CASE ~Holds(a)
    <3>1. Open(a) /\ cmd[a].created
      BY <2>4 DEF Holds, Write
    <3>2. plan[e][p] = Nothing /\ plan'[e][p] = Blank
      BY <1>1, <3>1 DEF Open, Taken
    <3>3. \A c \in Agents \ {a} :
            Holds(c)' => Holds(c) /\ PlanSlot(c) /\ (cmd[c].key[1] # e \/ cmd[c].name # p)
      BY <1>2, <3>2 DEF TreeInv, PlanSlots, PlanSlot
    <3>4. CASE b = a
      <4>1. p \notin Plans(e)' /\ plan'[e][p] # Nothing
        BY <3>2, NothingIsNoFile DEF Plans, IsFile
      <4> QED BY <1>10, <2>1, <3>3, <3>4, <4>1 DEF PlanSlot
    <3>5. CASE b # a
      <4>1. Holds(b) /\ PlanSlot(b) /\ (f # e \/ q # p)
        BY <1>10, <3>3, <3>5
      <4>2. plan'[f][q] = plan[f][q]
        BY <1>1, <2>2, <4>1
      <4>3. q \in Plans(f)' <=> q \in Plans(f)
        BY <4>2 DEF Plans
      <4>4. \A c \in Agents : Holds(c)' /\ cmd[c].key[1] = f /\ cmd[c].name = q => Holds(c)
        BY <3>3, <4>1
      <4> QED BY <1>10, <2>1, <4>1, <4>2, <4>3, <4>4 DEF PlanSlot
    <3> QED BY <3>4, <3>5
  <2> QED BY <2>3, <2>4
<1> QED BY <1>6, <1>8, <1>9, <1>10 DEF PullSlots, MarkTexts, PlanSlots

\* So does a pull that opens or writes its leaf file.
LEMMA PullPutsSafely ==
  ASSUME TreeInv, NEW a \in Agents, Pulls(a), Open(a) \/ Write(a)
  PROVE  (LeavesOnce /\ PullSlots /\ MarkTexts /\ PlanSlots)'
<1>0. PICK e, s, n : e = cmd[a].key[1] /\ s = cmd[a].name /\ n = cmd[a].key[2]
  OBVIOUS
<1> USE <1>0
<1>1. /\ TypeOK /\ e \in Epics /\ s \in Names /\ n \in Ids /\ cmd[a].text \in LeafFiles
      /\ plan' = plan /\ breakdown' = breakdown
      /\ leaf'[e][s] = IF Open(a) THEN Blank ELSE cmd[a].text
      /\ \A f \in Epics, o \in Names : f # e \/ o # s => leaf'[f][o] = leaf[f][o]
      /\ PullSlot(a)
  BY PullPuts, PutsOneFile DEF TreeInv
<1>2. /\ Busy(a)
      /\ \A b \in Agents : /\ Busy(b)' => Busy(b)
                           /\ Marks(b)' => Marks(b)
                           /\ Pulls(b)' => Pulls(b)
                           /\ Busy(b)' => /\ cmd'[b].key = cmd[b].key
                                          /\ cmd'[b].name = cmd[b].name
                                          /\ cmd'[b].text = cmd[b].text
                           /\ b # a => (Holds(b)' <=> Holds(b))
  BY <1>1, PutsOneFile
<1>3. \A f : Plans(f)' = Plans(f) /\ EntryIds(f)' = EntryIds(f)
  BY <1>1 DEF Plans, EntryIds
<1>4. \A b \in Agents : (Marks(b)' => Busy(b)') /\ (Pulls(b)' => Busy(b)') /\ (Holds(b)' => Marks(b)')
  BY DEF Marks, Pulls, Holds
<1>5. \A f \in Epics : \A o \in Leaves(f)' :
        \/ f = e /\ o = s /\ leaf'[f][o].id = n /\ leaf'[f][o].status = ""
        \/ (f # e \/ o # s) /\ o \in Leaves(f) /\ leaf'[f][o] = leaf[f][o]
  <2> SUFFICES ASSUME NEW f \in Epics, NEW o \in Leaves(f)'
               PROVE  \/ f = e /\ o = s /\ leaf'[f][o].id = n /\ leaf'[f][o].status = ""
                      \/ (f # e \/ o # s) /\ o \in Leaves(f) /\ leaf'[f][o] = leaf[f][o]
    OBVIOUS
  <2>1. o \in Names /\ leaf'[f][o] # Blank /\ leaf'[f][o] # Nothing
    BY DEF Leaves, IsFile
  <2>2. CASE f = e /\ o = s
    BY <1>1, <2>1, <2>2 DEF PullSlot
  <2>3. CASE f # e \/ o # s
    BY <1>1, <2>1, <2>3 DEF Leaves
  <2> QED BY <2>2, <2>3
<1>6. LeavesOnce'
  <2>1. \A f \in Epics : \A m, o \in Leaves(f) :
          leaf[f][m].id = leaf[f][o].id /\ leaf[f][m].id # Nothing => m = o
    BY <1>2 DEF TreeInv, LeavesOnce
  <2>2. \A o \in Leaves(e) \ {s} : leaf[e][o].id # n
    BY <1>1 DEF PullSlot
  <2> SUFFICES ASSUME NEW f \in Epics, NEW m \in Leaves(f)', NEW o \in Leaves(f)',
                      leaf'[f][m].id = leaf'[f][o].id, leaf'[f][m].id # Nothing
               PROVE  m = o
    BY DEF LeavesOnce
  <2>3. CASE f = e /\ (m = s \/ o = s)
    BY <1>5, <2>2, <2>3
  <2>4. CASE ~(f = e /\ (m = s \/ o = s))
    <3>1. /\ m \in Leaves(f) /\ leaf'[f][m] = leaf[f][m]
          /\ o \in Leaves(f) /\ leaf'[f][o] = leaf[f][o]
      BY <1>5, <2>4
    <3> QED BY <2>1, <3>1
  <2> QED BY <2>3, <2>4
<1>7. ASSUME NEW b \in Agents, Pulls(b)' PROVE PullSlot(b)'
  <2>0. PICK f : f = cmd[b].key[1]
    OBVIOUS
  <2> USE <2>0
  <2>1. /\ Pulls(b) /\ PullSlot(b) /\ f \in Epics /\ cmd[b].name \in Names
        /\ cmd'[b].key = cmd[b].key /\ cmd'[b].name = cmd[b].name
        /\ cmd'[b].text = cmd[b].text
    BY <1>1, <1>2, <1>4, <1>7, CommandTypes DEF TreeInv, PullSlots, PullCommands
  <2>2. cmd[b].name \in Leaves(f)' =>
          leaf'[f][cmd[b].name].id \in Ids /\ leaf'[f][cmd[b].name].status = ""
    BY <1>1, <1>5, <2>1 DEF PullSlot
  <2>3. ASSUME NEW o \in Leaves(f)', o # cmd[b].name PROVE leaf'[f][o].id # cmd[b].key[2]
    <3>1. CASE f = e /\ o = s
      <4>1. cmd[b].key[2] # n
        BY <1>1, <2>1, <2>3, <3>1 DEF PullSlot
      <4> QED BY <1>5, <2>1, <3>1, <4>1
    <3>2. CASE f # e \/ o # s
      BY <1>5, <2>1, <2>3, <3>2 DEF PullSlot
    <3> QED BY <3>1, <3>2
  <2> QED BY <1>1, <1>3, <2>1, <2>2, <2>3 DEF PullSlot
<1>8. ASSUME NEW b \in Agents, Marks(b)' PROVE MarkJoins(b)'
  <2>0. PICK f, t : f = cmd[b].key[1] /\ t = cmd[b].text.ticket
    OBVIOUS
  <2> USE <2>0
  <2>1. /\ Marks(b) /\ MarkJoins(b) /\ f \in Epics
        /\ cmd'[b].key = cmd[b].key /\ cmd'[b].text = cmd[b].text
    BY <1>1, <1>2, <1>4, <1>8, CommandTypes DEF TreeInv, MarkTexts, MarkCommands, Keys
  <2>2. \A c \in Agents : Pulls(c)' => /\ Pulls(c)
                                       /\ cmd'[c].key = cmd[c].key /\ cmd'[c].name = cmd[c].name
    BY <1>2, <1>4
  <2>3. CASE t = cmd[b].key[2] /\ t \in Ids
    BY <2>1, <2>3 DEF MarkJoins
  <2>4. CASE ~(t = cmd[b].key[2] /\ t \in Ids)
    <3>1. /\ t \in Leaves(f)
          /\ leaf[f][t].id = cmd[b].key[2] \/ (leaf[f][t].id = Nothing /\ cmd[b].key[2] = t)
          /\ \A c \in Agents : Pulls(c) => cmd[c].key[1] # f \/ cmd[c].name # t
      BY <2>1, <2>4 DEF MarkJoins
    <3>2. t \in Leaves(f)' /\ leaf'[f][t] = leaf[f][t]
      BY <1>1, <2>1, <3>1 DEF Leaves
    <3> QED BY <2>1, <2>2, <3>1, <3>2 DEF MarkJoins
  <2> QED BY <2>3, <2>4
<1>9. ASSUME NEW b \in Agents, Holds(b)' PROVE PlanSlot(b)'
  <2>1. ~Holds(a)' /\ Marks(b)
    BY <1>2, <1>4, <1>9, CommandTypes, <1>1
  <2>2. \A c \in Agents : Holds(c)' => /\ Holds(c) /\ cmd'[c].key = cmd[c].key
                                       /\ cmd'[c].name = cmd[c].name /\ cmd'[c].text = cmd[c].text
    BY <1>2, <1>4, <2>1
  <2>3. PlanSlot(b)
    BY <1>9, <2>2 DEF TreeInv, PlanSlots
  <2> QED BY <1>1, <1>3, <1>9, <2>2, <2>3 DEF PlanSlot
<1> QED BY <1>6, <1>7, <1>8, <1>9 DEF PullSlots, MarkTexts, PlanSlots

LEMMA TreeInvStep == TreeInv /\ [Next]_vars => TreeInv'
<1> SUFFICES ASSUME TreeInv, [Next]_vars
             PROVE  (LeavesOnce /\ PullSlots /\ MarkTexts /\ PlanSlots)'
  BY TreeTypeStep DEF TreeInv
<1>1. CASE UNCHANGED vars
  BY <1>1, EndingKeepsTheRest DEF vars
<1>2. ASSUME NEW a \in Agents, MarkRead(a)
      PROVE  (LeavesOnce /\ PullSlots /\ MarkTexts /\ PlanSlots)'
  BY <1>2, MarkReadKnows
<1>3. ASSUME NEW a \in Agents, PullRead(a)
      PROVE  (LeavesOnce /\ PullSlots /\ MarkTexts /\ PlanSlots)'
  BY <1>3, PullReadKnows
<1>4. ASSUME NEW a \in Agents, Open(a) \/ Write(a)
      PROVE  (LeavesOnce /\ PullSlots /\ MarkTexts /\ PlanSlots)'
  <2>1. Marks(a) \/ Pulls(a)
    BY <1>4, PutsOneFile, CommandTypes DEF TreeInv
  <2>2. CASE Marks(a)
    BY <1>4, <2>2, MarkPutsSafely
  <2>3. CASE Pulls(a)
    BY <1>4, <2>3, PullPutsSafely
  <2> QED BY <2>1, <2>2, <2>3
<1>5. ASSUME NEW a \in Agents, OpenRefused(a) \/ Crash(a)
      PROVE  (LeavesOnce /\ PullSlots /\ MarkTexts /\ PlanSlots)'
  <2>1. UNCHANGED <<breakdown, leaf, plan>> /\ cmd' = [cmd EXCEPT ![a] = Idle]
    BY <1>5 DEF OpenRefused, Crash, disk
  <2>2. \A b \in Agents : cmd'[b] = cmd[b] \/ cmd'[b] = Idle
    BY <2>1, OthersKept DEF TreeInv
  <2> QED BY <2>1, <2>2, EndingKeepsTheRest
<1>6. ASSUME NEW e \in Epics, NEW s \in ContainerStatuses, SetContainer(e, s)
      PROVE  (LeavesOnce /\ PullSlots /\ MarkTexts /\ PlanSlots)'
  BY <1>6, EndingKeepsTheRest DEF SetContainer
<1> QED BY <1>1, <1>2, <1>3, <1>4, <1>5, <1>6 DEF Next

LEMMA TreeInvInit == Init => TreeInv
<1> SUFFICES ASSUME Init PROVE TreeInv
  OBVIOUS
<1>1. \A a \in Agents : ~Busy(a)
  BY DEF Init, Idle, Busy
<1>2. \A a \in Agents : ~Marks(a) /\ ~Pulls(a) /\ ~Holds(a)
  BY <1>1 DEF Marks, Pulls, Holds
<1> QED BY <1>1, <1>2, TreeTypeInit DEF TreeInv, LeavesOnce, PullSlots, MarkTexts, PlanSlots

\* Though no command holds a lock, the files it has read it may rely on: a pull
\* that nothing has taken its ticket's place, a mark that its plan is still its
\* ticket's, and the ticket's alone.
THEOREM CommandsKnowTheirFiles == Spec => []TreeInv
BY TreeInvInit, TreeInvStep, PTL DEF Spec
-----------------------------------------------------------------------------
(* Whose status a step changes.                                            *)

\* With the plans of a ticket as they were, and its file, or no status in it,
\* the status is as it was.
LEMMA SameStatus ==
  ASSUME NEW k, PlansOf(k)' = PlansOf(k),
         \A p \in PlansOf(k) : plan'[k[1]][p] = plan[k[1]][p],
         \/ /\ FileOf(k)' = FileOf(k)
            /\ FileOf(k) # Nothing => leaf'[k[1]][FileOf(k)] = leaf[k[1]][FileOf(k)]
         \/ /\ FileOf(k) # Nothing => leaf[k[1]][FileOf(k)].status = ""
            /\ FileOf(k)' # Nothing => leaf'[k[1]][FileOf(k)'].status = ""
  PROVE  Status(k)' = Status(k)
<1>1. CASE PlansOf(k) # {}
  <2>1. (CHOOSE p \in PlansOf(k) : TRUE) \in PlansOf(k)
    BY <1>1
  <2>2. PlanOf(k)' = PlanOf(k)
    BY <2>1 DEF PlanOf
  <2> QED BY <1>1, <2>2 DEF Status
<1>2. CASE PlansOf(k) = {}
  <2>1. /\ FileOf(k) # Nothing => Status(k) = leaf[k[1]][FileOf(k)].status
        /\ FileOf(k) = Nothing => Status(k) = ""
    BY <1>2 DEF Status
  <2>2. /\ FileOf(k)' # Nothing => Status(k)' = leaf'[k[1]][FileOf(k)'].status
        /\ FileOf(k)' = Nothing => Status(k)' = ""
    BY <1>2 DEF Status
  <2>3. CASE /\ FileOf(k)' = FileOf(k)
             /\ FileOf(k) # Nothing => leaf'[k[1]][FileOf(k)] = leaf[k[1]][FileOf(k)]
    BY <2>1, <2>2, <2>3
  <2>4. CASE /\ FileOf(k) # Nothing => leaf[k[1]][FileOf(k)].status = ""
             /\ FileOf(k)' # Nothing => leaf'[k[1]][FileOf(k)'].status = ""
    <3>1. Status(k) = ""
      BY <2>1, <2>4
    <3>2. Status(k)' = ""
      BY <2>2, <2>4
    <3> QED BY <3>1, <3>2
  <2> QED BY <2>3, <2>4
<1> QED BY <1>1, <1>2

\* The ticket of a plan a mark writes is the ticket the mark is of.
LEMMA JoinedToOne ==
  ASSUME TypeOK, NEW a \in Agents, Marks(a), MarkJoins(a), NEW k \in Tickets,
         k[1] = cmd[a].key[1], cmd[a].text.ticket \in {k[2], FileOf(k)}
  PROVE  k = cmd[a].key
<1> DEFINE m == cmd[a].key
           t == cmd[a].text.ticket
<1>1. m \in Keys /\ m = <<m[1], m[2]>> /\ m[2] \in Ids \cup Names
  BY CommandTypes DEF MarkCommands, Keys
<1>2. k = <<k[1], k[2]>> /\ k \in Keys
  BY TicketTypes
<1>3. FileOf(k) # Nothing => /\ FileOf(k) \in Names
                             /\ FileOf(k) \in FilesOf(k)
  BY FileOfTypes
<1>4. CASE t = m[2] /\ t \in Ids
  <2>1. k[2] = m[2]
    BY <1>3, <1>4, IdsAreNotNames
  <2> QED BY <1>1, <1>2, <2>1
<1>5. CASE ~(t = m[2] /\ t \in Ids)
  <2>1. /\ t \in Leaves(k[1])
        /\ leaf[k[1]][t].id = m[2] \/ (leaf[k[1]][t].id = Nothing /\ m[2] = t)
    BY <1>5 DEF MarkJoins
  <2>2. t \in Names /\ t \notin Ids /\ t # Nothing
    BY <2>1, IdsAreNotNames DEF Leaves
  <2>3. k[2] \notin Ids => k[2] = t /\ leaf[k[1]][t].id = Nothing
    <3>1. FilesOf(k) \subseteq {k[2]} \/ k[2] \in Ids
      BY DEF FilesOf
    <3> QED BY <1>3, <2>2, <3>1, TicketTypes
  <2>4. k[2] \in Ids => leaf[k[1]][t].id = k[2]
    BY <1>3, <2>2 DEF FilesOf
  <2>5. k[2] = m[2]
    BY <1>1, <2>1, <2>3, <2>4, IdsAreNotNames
  <2> QED BY <1>1, <1>2, <2>5
<1> QED BY <1>4, <1>5

\* A mark's plan is, or becomes, its own ticket's; the others keep theirs.
LEMMA MarkPlans ==
  ASSUME TreeInv, NEW a \in Agents, Marks(a), Open(a) \/ Write(a), NEW k \in Tickets
  PROVE  /\ FileOf(k)' = FileOf(k)
         /\ k # cmd[a].key => /\ PlansOf(k)' = PlansOf(k)
                              /\ \A q \in PlansOf(k) : plan'[k[1]][q] = plan[k[1]][q]
         /\ k = cmd[a].key => PlansOf(k)' \subseteq PlansOf(k) \cup {cmd[a].name}
<1>0. PICK e, p : e = cmd[a].key[1] /\ p = cmd[a].name
  OBVIOUS
<1> USE <1>0
<1> DEFINE t == cmd[a].text.ticket
<1>1. /\ TypeOK /\ cmd[a].text \in PlanFiles
      /\ leaf' = leaf
      /\ plan'[e][p] = IF Open(a) THEN Blank ELSE cmd[a].text
      /\ \A f \in Epics, q \in PlanNames : f # e \/ q # p => plan'[f][q] = plan[f][q]
      /\ p \in Plans(e) => plan[e][p].ticket = t
  BY MarkPuts DEF TreeInv
<1>2. FileOf(k)' = FileOf(k)
  <2>1. Leaves(k[1])' = Leaves(k[1])
    BY <1>1 DEF Leaves
  <2>2. FilesOf(k)' = FilesOf(k)
    BY <1>1, <2>1 DEF FilesOf
  <2> QED BY <2>2 DEF FileOf
<1>3. \A q \in PlanNames : k[1] # e \/ q # p => plan'[k[1]][q] = plan[k[1]][q]
  BY <1>1, TicketTypes
<1>4. \A q \in PlanNames : k[1] # e \/ q # p => (q \in PlansOf(k)' <=> q \in PlansOf(k))
  BY <1>2, <1>3 DEF PlansOf, Plans
<1>5. PlansOf(k) \subseteq PlanNames /\ PlansOf(k)' \subseteq PlanNames
  BY DEF PlansOf, Plans
<1>6. ASSUME k # cmd[a].key
      PROVE  /\ PlansOf(k)' = PlansOf(k)
             /\ \A q \in PlansOf(k) : plan'[k[1]][q] = plan[k[1]][q]
  <2>1. k[1] = e => t \notin {k[2], FileOf(k)}
    BY <1>1, <1>6, JoinedToOne DEF TreeInv, MarkTexts
  <2>2. ASSUME k[1] = e PROVE p \notin PlansOf(k) /\ p \notin PlansOf(k)'
    <3>1. p \notin PlansOf(k)
      BY <1>1, <2>1, <2>2 DEF PlansOf
    <3>2. p \in Plans(e)' => plan'[e][p].ticket = t
      BY <1>1 DEF Plans, IsFile
    <3>3. p \notin PlansOf(k)'
      BY <1>2, <2>1, <2>2, <3>2 DEF PlansOf
    <3> QED BY <3>1, <3>3
  <2>3. \A q \in PlanNames : q \in PlansOf(k)' <=> q \in PlansOf(k)
    BY <1>4, <2>2
  <2>4. PlansOf(k)' = PlansOf(k)
    BY <1>5, <2>3
  <2>5. \A q \in PlansOf(k) : plan'[k[1]][q] = plan[k[1]][q]
    BY <1>3, <1>5, <2>2
  <2> QED BY <2>4, <2>5
<1>7. ASSUME k = cmd[a].key PROVE PlansOf(k)' \subseteq PlansOf(k) \cup {p}
  BY <1>4, <1>5, <1>7
<1> QED BY <1>2, <1>6, <1>7

LEMMA MarkChangesItsTicket ==
  ASSUME TreeInv, NEW a \in Agents, Marks(a), Open(a) \/ Write(a),
         NEW k \in Tickets, k # cmd[a].key
  PROVE  Status(k)' = Status(k)
<1>1. leaf' = leaf
  BY MarkPuts
<1>2. /\ FileOf(k)' = FileOf(k) /\ PlansOf(k)' = PlansOf(k)
      /\ \A q \in PlansOf(k) : plan'[k[1]][q] = plan[k[1]][q]
  BY MarkPlans
<1> QED BY <1>1, <1>2, SameStatus

\* The file a pull opens or writes is of no ticket, or of one with an id that has
\* no other; every other ticket keeps its file, and all keep their plans.
LEMMA PullFiles ==
  ASSUME TreeInv, NEW a \in Agents, Pulls(a), Open(a) \/ Write(a), NEW k \in Tickets
  PROVE  LET e == cmd[a].key[1]
             s == cmd[a].name
             n == cmd[a].key[2]
             touched == k[1] = e /\ s \in FilesOf(k) \cup FilesOf(k)'
         IN /\ touched => /\ k[2] \in Ids
                          /\ FileOf(k) \in {s, Nothing} /\ FileOf(k)' \in {s, Nothing}
                          /\ s \in FilesOf(k) \/ k[2] = n
                          /\ FilesOf(k) \cup FilesOf(k)' \subseteq {s}
            /\ ~touched => /\ FilesOf(k)' = FilesOf(k) /\ FileOf(k)' = FileOf(k)
                           /\ FileOf(k) # Nothing =>
                                /\ k[1] # e \/ FileOf(k) # s
                                /\ leaf'[k[1]][FileOf(k)] = leaf[k[1]][FileOf(k)]
            /\ PlansOf(k)' = PlansOf(k)
<1>0. PICK e, s, n : e = cmd[a].key[1] /\ s = cmd[a].name /\ n = cmd[a].key[2]
  OBVIOUS
<1> USE <1>0
<1> DEFINE touched == k[1] = e /\ s \in FilesOf(k) \cup FilesOf(k)'
<1>1. /\ TypeOK /\ e \in Epics /\ s \in Names /\ n \in Ids
      /\ plan' = plan
      /\ leaf'[e][s] = IF Open(a) THEN Blank ELSE cmd[a].text
      /\ \A f \in Epics, o \in Names : f # e \/ o # s => leaf'[f][o] = leaf[f][o]
      /\ PullSlot(a)
  BY PullPuts DEF TreeInv
<1>2. k[1] \in Epics /\ Plans(k[1])' = Plans(k[1])
  BY <1>1, TicketTypes DEF Plans
<1>3. ASSUME touched
      PROVE  /\ k[2] \in Ids
             /\ FileOf(k) \in {s, Nothing} /\ FileOf(k)' \in {s, Nothing}
             /\ s \in FilesOf(k) \/ k[2] = n
             /\ FilesOf(k) \cup FilesOf(k)' \subseteq {s}
             /\ PlansOf(k)' = PlansOf(k)
  <2>1. /\ s \in Leaves(e) => leaf[e][s].id \in Ids
        /\ s \in Leaves(e)' => leaf'[e][s].id = n
    BY <1>1 DEF PullSlot, Leaves, IsFile
  <2>2. k[2] \in Ids
    <3>1. SUFFICES ASSUME k[2] \notin Ids PROVE FALSE
      OBVIOUS
    <3>2. k[2] = s
      BY <1>3, <3>1 DEF FilesOf
    <3> QED BY <1>1, <1>3, <2>1, <3>1, <3>2, TicketTypes, IdsAreNotNames
  <2>3. s \in FilesOf(k) \/ k[2] = n
    BY <1>3, <2>1, <2>2 DEF FilesOf
  <2>4. FilesOf(k) \subseteq {s} /\ FilesOf(k)' \subseteq {s}
    <3>1. Busy(a)
      BY DEF Pulls
    <3>2. \A m, o \in Leaves(e) : leaf[e][m].id = k[2] /\ leaf[e][o].id = k[2] => m = o
      BY <1>1, <2>2, <3>1, IdsAreNotNames DEF TreeInv, LeavesOnce
    <3>3. \A o \in Leaves(e) : leaf[e][o].id = n => o = s
      BY <1>1 DEF PullSlot
    <3>4. \A o \in Names : o # s => (o \in FilesOf(k)' <=> o \in FilesOf(k))
      BY <1>1, <1>2, <2>2 DEF FilesOf, Leaves
    <3>5. FilesOf(k) \subseteq Names /\ FilesOf(k)' \subseteq Names
      BY DEF FilesOf, Leaves
    <3>6. FilesOf(k) \subseteq {s}
      BY <1>3, <2>2, <2>3, <3>2, <3>3 DEF FilesOf
    <3> QED BY <3>4, <3>5, <3>6
  <2>5. FileOf(k) \in {s, Nothing} /\ FileOf(k)' \in {s, Nothing}
    BY <2>4 DEF FileOf
  <2>6. \A p \in Plans(e) : plan[e][p].ticket \notin {s, Nothing}
    <3>1. \A p \in Plans(e) : plan[e][p].ticket \in Ids \cup Names
      BY <1>1, FileTypes DEF PlanFiles
    <3>2. \A p \in Plans(e) : plan[e][p].ticket # s
      BY <1>1 DEF PullSlot
    <3> QED BY <3>1, <3>2, IdsAreNotNames
  <2>7. PlansOf(k)' = PlansOf(k)
    <3>1. PlansOf(k) = {p \in Plans(e) : plan[e][p].ticket = k[2]}
      BY <1>3, <2>5, <2>6 DEF PlansOf
    <3>2. PlansOf(k)' = {p \in Plans(e) : plan[e][p].ticket = k[2]}
      BY <1>1, <1>2, <1>3, <2>5, <2>6 DEF PlansOf
    <3> QED BY <3>1, <3>2
  <2> QED BY <2>2, <2>3, <2>4, <2>5, <2>7
<1>4. ASSUME ~touched
      PROVE  /\ FilesOf(k)' = FilesOf(k) /\ FileOf(k)' = FileOf(k)
             /\ FileOf(k) # Nothing => /\ k[1] # e \/ FileOf(k) # s
                                       /\ leaf'[k[1]][FileOf(k)] = leaf[k[1]][FileOf(k)]
             /\ PlansOf(k)' = PlansOf(k)
  <2>1. FilesOf(k)' = FilesOf(k)
    <3>1. \A o \in Names : k[1] # e \/ o # s => (o \in FilesOf(k)' <=> o \in FilesOf(k))
      BY <1>1, <1>2 DEF FilesOf, Leaves
    <3>2. FilesOf(k) \subseteq Names /\ FilesOf(k)' \subseteq Names
      BY DEF FilesOf, Leaves
    <3> QED BY <1>4, <3>1, <3>2
  <2>2. FileOf(k)' = FileOf(k)
    BY <2>1 DEF FileOf
  <2>3. FileOf(k) # Nothing => /\ k[1] # e \/ FileOf(k) # s
                               /\ leaf'[k[1]][FileOf(k)] = leaf[k[1]][FileOf(k)]
    BY <1>1, <1>2, <1>4, FileOfTypes
  <2>4. PlansOf(k)' = PlansOf(k)
    BY <1>1, <1>2, <2>2 DEF PlansOf
  <2> QED BY <2>1, <2>2, <2>3, <2>4
<1> HIDE DEF touched
<1>5. PlansOf(k)' = PlansOf(k)
  BY <1>3, <1>4
<1> QED BY <1>3, <1>4, <1>5 DEF touched

LEMMA PullChangesNoStatus ==
  ASSUME TreeInv, NEW a \in Agents, Pulls(a), Open(a) \/ Write(a), NEW k \in Tickets
  PROVE  Status(k)' = Status(k)
<1>0. PICK e, s : e = cmd[a].key[1] /\ s = cmd[a].name
  OBVIOUS
<1> USE <1>0
<1>1. /\ e \in Epics /\ plan' = plan /\ PullSlot(a)
      /\ leaf'[e][s] = IF Open(a) THEN Blank ELSE cmd[a].text
  BY PullPuts
<1>2. PlansOf(k)' = PlansOf(k)
  BY PullFiles
<1>3. CASE k[1] = e /\ s \in FilesOf(k) \cup FilesOf(k)'
  <2>1. FileOf(k) \in {s, Nothing} /\ FileOf(k)' \in {s, Nothing}
    BY <1>3, PullFiles
  <2>2. /\ s \in Leaves(e) => leaf[e][s].status = ""
        /\ s \in Leaves(e)' => leaf'[e][s].status = ""
    BY <1>1 DEF PullSlot, Leaves, IsFile
  <2>3. FileOf(k) # Nothing => leaf[k[1]][FileOf(k)].status = ""
    BY <1>3, <2>1, <2>2, FileOfTypes
  <2>4. FileOf(k)' # Nothing => leaf'[k[1]][FileOf(k)'].status = ""
    <3>1. FileOf(k)' # Nothing => FileOf(k)' \in FilesOf(k)'
      BY DEF FileOf
    <3>2. FilesOf(k)' \subseteq Leaves(k[1])'
      BY DEF FilesOf
    <3> QED BY <1>3, <2>1, <2>2, <3>1, <3>2
  <2> QED BY <1>1, <1>2, <2>3, <2>4, SameStatus
<1>4. CASE ~(k[1] = e /\ s \in FilesOf(k) \cup FilesOf(k)')
  <2>1. /\ FileOf(k)' = FileOf(k)
        /\ FileOf(k) # Nothing => leaf'[k[1]][FileOf(k)] = leaf[k[1]][FileOf(k)]
    BY <1>4, PullFiles
  <2> QED BY <1>1, <1>2, <2>1, SameStatus
<1> QED BY <1>3, <1>4

LEMMA StepsChangeTheMarked ==
  ASSUME TreeInv, [Next]_vars, NEW k \in Tickets, Status(k)' # Status(k)
  PROVE  \E a \in Agents : Busy(a) /\ cmd[a].does = "mark" /\ cmd[a].key = k
<1>1. CASE UNCHANGED <<leaf, plan>>
  <2>1. Leaves(k[1])' = Leaves(k[1]) /\ Plans(k[1])' = Plans(k[1])
    BY <1>1 DEF Leaves, Plans
  <2>2. FilesOf(k)' = FilesOf(k)
    BY <1>1, <2>1 DEF FilesOf
  <2>3. FileOf(k)' = FileOf(k)
    BY <2>2 DEF FileOf
  <2>4. PlansOf(k)' = PlansOf(k)
    BY <1>1, <2>1, <2>3 DEF PlansOf
  <2> QED BY <1>1, <2>3, <2>4, SameStatus
<1>2. ASSUME NEW a \in Agents, Open(a) \/ Write(a)
      PROVE  Busy(a) /\ cmd[a].does = "mark" /\ cmd[a].key = k
  <2>1. Marks(a) \/ Pulls(a)
    BY <1>2, PutsOneFile, CommandTypes DEF TreeInv
  <2>2. ~Pulls(a)
    BY <1>2, PullChangesNoStatus
  <2>3. cmd[a].key = k
    BY <1>2, <2>1, <2>2, MarkChangesItsTicket
  <2> QED BY <2>1, <2>2, <2>3 DEF Marks
<1>3. \/ UNCHANGED <<leaf, plan>>
      \/ \E a \in Agents : Open(a) \/ Write(a)
  BY DEF Next, vars, disk, MarkRead, PullRead, OpenRefused, Crash, SetContainer
<1> QED BY <1>1, <1>2, <1>3

\* Whatever the interleaving, and wherever a command dies, the only status a
\* mark changes is that of the ticket its reference named.
THEOREM OnlyTheMarkedTicketChanges == Spec => OnlyTheMarkedChange
<1>1. TreeInv /\ [Next]_vars =>
        [\A k \in Tickets : Status(k)' # Status(k) =>
           \E a \in Agents : Busy(a) /\ cmd[a].does = "mark" /\ cmd[a].key = k]_vars
  BY StepsChangeTheMarked
<1> QED BY <1>1, CommandsKnowTheirFiles, PTL DEF Spec, OnlyTheMarkedChange
-----------------------------------------------------------------------------
(* What tickets wait for, from step to step.                               *)

\* With the files of names and the tables of entries, what refers to what stays.
LEMMA SameNames ==
  ASSUME UNCHANGED <<breakdown, gate, leaf>>
  PROVE  /\ \A e : Leaves(e)' = Leaves(e) /\ EntryIds(e)' = EntryIds(e)
         /\ \A e : TicketsOf(e)' = TicketsOf(e)
         /\ Tickets' = Tickets
         /\ \A k : FilesOf(k)' = FilesOf(k) /\ FileOf(k)' = FileOf(k) /\ Title(k)' = Title(k)
         /\ \A e, r : Resolve(e, r)' = Resolve(e, r)
         /\ \A e, refs : ResolveAll(e, refs)' = ResolveAll(e, refs)
         /\ \A k, e : RefTo(k, e)' = RefTo(k, e)
<1>1. \A e : Leaves(e)' = Leaves(e) /\ EntryIds(e)' = EntryIds(e)
  BY DEF Leaves, EntryIds
<1>2. \A e : TicketsOf(e)' = TicketsOf(e)
  BY <1>1 DEF TicketsOf
<1>3. Tickets' = Tickets
  BY <1>2 DEF Tickets
<1>4. \A k : FilesOf(k)' = FilesOf(k)
  BY <1>1 DEF FilesOf
<1>5. ASSUME NEW k PROVE FileOf(k)' = FileOf(k)
  <2>1. FilesOf(k)' = FilesOf(k)
    BY <1>4
  <2> QED BY <2>1 DEF FileOf
<1>6. \A k : Title(k)' = Title(k)
  BY <1>5 DEF Title, Entry
<1>7. \A e, r : Resolve(e, r)' = Resolve(e, r)
  BY <1>2, <1>3, <1>5 DEF Resolve
<1>8. \A e, refs : ResolveAll(e, refs)' = ResolveAll(e, refs)
  BY <1>7 DEF ResolveAll
<1>9. \A k, e : RefTo(k, e)' = RefTo(k, e)
  BY DEF RefTo
<1> QED BY <1>1, <1>2, <1>3, <1>4, <1>5, <1>6, <1>7, <1>8, <1>9

\* With the tickets and what each waits for, the check for cycles says the same.
LEMMA CyclesKept ==
  ASSUME Tickets' = Tickets, \A e \in Epics : TicketsOf(e)' = TicketsOf(e),
         \A k \in Tickets : After(k)' = After(k), \A e \in Epics : GatedBy(e)' = GatedBy(e)
  PROVE  Cyclic' <=> Cyclic
<1>1. \A x \in Tickets \cup EpicKeys : Succ(x)' = Succ(x)
  <2>1. \A x \in EpicKeys : x[1] \in Epics
    BY EpicKeyShape
  <2>2. \A x \in Tickets : x[1] \in Epics
    BY TicketEpic
  <2> QED BY <2>1, <2>2 DEF Succ
<1>2. [x \in Tickets \cup EpicKeys |-> Succ(x)]' = [x \in Tickets \cup EpicKeys |-> Succ(x)]
  BY <1>1 DEF EpicKeys
<1> QED BY <1>2 DEF Cyclic, EpicKeys

\* An entry without a leaf file, and one whose file says what the entry says, wait
\* for the same.
EntriesAgree ==
  \A k \in Tickets :
    (/\ k[2] \in EntryIds(k[1])
     /\ FileOf(k) # Nothing => leaf[k[1]][FileOf(k)] = EntryText(k[1], k[2]))
    => /\ After(k) = Prerequisites(k[1], k[2])
       /\ \A r \in RawAfter(k) : \/ r \in breakdown.entry[k[1]][k[2]].after
                                 \/ r[1] # "file" /\ Resolve(k[1], r) # {}

LEMMA EntryOrFile == TypeOK /\ PrerequisitesNamed => EntriesAgree
<1> SUFFICES ASSUME TypeOK, PrerequisitesNamed, NEW k \in Tickets, k[2] \in EntryIds(k[1]),
                    FileOf(k) # Nothing => leaf[k[1]][FileOf(k)] = EntryText(k[1], k[2])
             PROVE  /\ After(k) = Prerequisites(k[1], k[2])
                    /\ \A r \in RawAfter(k) : \/ r \in breakdown.entry[k[1]][k[2]].after
                                              \/ r[1] # "file" /\ Resolve(k[1], r) # {}
  BY DEF EntriesAgree
<1> DEFINE P == Prerequisites(k[1], k[2])
<1>0. k[1] \in Epics /\ k[2] \in Ids
  BY TicketTypes, FileTypes
<1>1. EntryAfter(k) = breakdown.entry[k[1]][k[2]].after
  BY DEF EntryAfter, Listed, Entry
<1>2. ResolveAll(k[1], EntryAfter(k)) = P
  BY <1>1 DEF Prerequisites
<1>3. CASE LeafAfter(k) = Nothing
  BY <1>1, <1>2, <1>3 DEF After, RawAfter
<1>4. CASE LeafAfter(k) # Nothing
  <2>1. FileOf(k) # Nothing /\ LeafAfter(k) = leaf[k[1]][FileOf(k)].after
    BY <1>4 DEF LeafAfter
  <2>2. LeafAfter(k) = {RefTo(b, k[1]) : b \in P}
    <3>1. LeafAfter(k) = EntryText(k[1], k[2]).after
      BY <2>1
    <3> QED BY <1>4, <3>1 DEF EntryText
  <2>3. P \subseteq Tickets \cup EpicKeys
    BY <1>0 DEF Prerequisites, ResolveAll, Resolve, Tickets
  <2>4. \A b \in P : Resolve(k[1], RefTo(b, k[1])) = {b} /\ RefTo(b, k[1])[1] # "file"
    <3> SUFFICES ASSUME NEW b \in P
                 PROVE  Resolve(k[1], RefTo(b, k[1])) = {b} /\ RefTo(b, k[1])[1] # "file"
      OBVIOUS
    <3>1. RefTo(b, k[1])[1] # "key"
      BY <1>0 DEF PrerequisitesNamed
    <3>2. CASE b \in EpicKeys
      <4>1. RefTo(b, k[1]) = <<"epic", b[1]>> /\ b = <<b[1]>>
        BY <3>2, EpicKeyShape DEF RefTo
      <4> QED BY <3>2, <4>1 DEF Resolve
    <3>3. CASE b \notin EpicKeys
      <4>1. b \in Tickets /\ b = <<b[1], b[2]>> /\ b \in TicketsOf(b[1])
        BY <2>3, <3>3, TicketTypes, TicketEpic
      <4>2. b[2] \in Ids /\ (b[1] = k[1] \/ b[1] \in breakdown.listed)
        BY <3>1, <3>3 DEF RefTo
      <4>3. CASE b[1] = k[1]
        <5>1. RefTo(b, k[1]) = <<"id", b[2]>>
          BY <3>3, <4>2, <4>3 DEF RefTo
        <5> QED BY <4>1, <4>3, <5>1 DEF Resolve
      <4>4. CASE b[1] # k[1]
        <5>1. RefTo(b, k[1]) = <<"cross", b[1], b[2]>>
          BY <3>3, <4>2, <4>4 DEF RefTo
        <5> QED BY <4>1, <4>2, <4>4, <5>1 DEF Resolve
      <4> QED BY <4>3, <4>4
    <3> QED BY <3>2, <3>3
  <2>5. ResolveAll(k[1], LeafAfter(k)) = P
    <3>1. ResolveAll(k[1], LeafAfter(k)) = UNION {Resolve(k[1], RefTo(b, k[1])) : b \in P}
      BY <2>2 DEF ResolveAll
    <3>2. UNION {Resolve(k[1], RefTo(b, k[1])) : b \in P} = UNION {{b} : b \in P}
      BY <2>4
    <3> QED BY <3>1, <3>2
  <2>6. \A r \in LeafAfter(k) : r[1] # "file" /\ Resolve(k[1], r) # {}
    BY <2>2, <2>4
  <2> QED BY <1>4, <2>5, <2>6 DEF After, RawAfter
<1> QED BY <1>3, <1>4

\* A pull changes neither which tickets there are, nor whom any reference in the
\* tree means.
LEMMA PullReferences ==
  ASSUME TreeInv, PullsFaithful, NEW a \in Agents, Pulls(a), Open(a) \/ Write(a)
  PROVE  /\ UNCHANGED <<breakdown, gate>>
         /\ \A f \in Epics : TicketsOf(f)' = TicketsOf(f)
         /\ Tickets' = Tickets
         /\ \A f \in Epics : \A r \in AfterRefs :
              f # cmd[a].key[1] \/ r # <<"file", cmd[a].name>> => Resolve(f, r)' = Resolve(f, r)
<1>0. PICK e, s, n : e = cmd[a].key[1] /\ s = cmd[a].name /\ n = cmd[a].key[2]
  OBVIOUS
<1> USE <1>0
<1>1. /\ TypeOK /\ e \in Epics /\ s \in Names /\ n \in Ids
      /\ leaf'[e][s] = IF Open(a) THEN Blank ELSE cmd[a].text
      /\ \A f \in Epics, o \in Names : f # e \/ o # s => leaf'[f][o] = leaf[f][o]
      /\ PullSlot(a) /\ PullFaithful(a)
  BY PullPuts DEF TreeInv, PullsFaithful
<1>2. UNCHANGED <<breakdown, gate>>
  BY <1>1, PutsOneFile DEF Open, Write
<1>3. \A f : EntryIds(f)' = EntryIds(f)
  BY <1>2 DEF EntryIds
<1>4. /\ s \in Leaves(e) => leaf[e][s].id \in EntryIds(e)
      /\ s \in Leaves(e)' => leaf'[e][s].id \in EntryIds(e)
      /\ \A m \in EntryIds(e) : m # Nothing
  <2>1. s \in Leaves(e) => leaf[e][s].id \in EntryIds(e)
    BY <1>1 DEF PullFaithful
  <2>2. s \in Leaves(e)' => leaf'[e][s].id = n
    BY <1>1 DEF PullSlot, Leaves, IsFile
  <2>3. n \in EntryIds(e)
    BY <1>1 DEF PullSlot
  <2>4. EntryIds(e) \subseteq Ids
    BY <1>1, FileTypes
  <2> QED BY <2>1, <2>2, <2>3, <2>4, IdsAreNotNames
<1>5. ASSUME NEW f \in Epics PROVE TicketsOf(f)' = TicketsOf(f)
  <2>1. \A o \in Names : f # e \/ o # s => /\ o \in Leaves(f)' <=> o \in Leaves(f)
                                           /\ leaf'[f][o] = leaf[f][o]
    BY <1>1 DEF Leaves
  <2>2. Leaves(f) \subseteq Names /\ Leaves(f)' \subseteq Names
    BY DEF Leaves
  <2>3. EntryIds(f) \cup ({leaf'[f][o].id : o \in Leaves(f)'} \ {Nothing})
          = EntryIds(f) \cup ({leaf[f][o].id : o \in Leaves(f)} \ {Nothing})
    <3>1. ASSUME NEW o \in Leaves(f)'
          PROVE  leaf'[f][o].id \in EntryIds(f) \cup {leaf[f][m].id : m \in Leaves(f)}
      BY <1>4, <2>1, <2>2
    <3>2. ASSUME NEW o \in Leaves(f)
          PROVE  leaf[f][o].id \in EntryIds(f) \cup {leaf'[f][m].id : m \in Leaves(f)'}
      BY <1>4, <2>1, <2>2
    <3> QED BY <3>1, <3>2
  <2>4. {o \in Leaves(f)' : leaf'[f][o].id = Nothing} = {o \in Leaves(f) : leaf[f][o].id = Nothing}
    BY <1>4, <2>1, <2>2
  <2> QED BY <1>3, <2>3, <2>4 DEF TicketsOf
<1>6. Tickets' = Tickets
  BY <1>5 DEF Tickets
<1>7. ASSUME NEW f \in Epics, NEW k \in TicketsOf(f), NEW o \in Names, f # e \/ o # s
      PROVE  FileOf(k)' = o <=> FileOf(k) = o
  <2>1. k \in Tickets /\ k[1] = f
    BY <1>7 DEF Tickets, TicketsOf
  <2>2. \/ FileOf(k)' = FileOf(k)
        \/ k[1] = e /\ FileOf(k) \in {s, Nothing} /\ FileOf(k)' \in {s, Nothing}
    BY <2>1, PullFiles
  <2> QED BY <1>7, <2>1, <2>2, IdsAreNotNames
<1>8. ASSUME NEW f \in Epics, NEW r \in AfterRefs, f # e \/ r # <<"file", s>>
      PROVE  Resolve(f, r)' = Resolve(f, r)
  <2>1. CASE r[1] = "file"
    <3>1. r = <<"file", r[2]>> /\ r[2] \in Names
      BY <2>1 DEF AfterRefs
    <3>2. f # e \/ r[2] # s
      BY <1>8, <3>1
    <3>3. Resolve(f, r) = {k \in TicketsOf(f) : FileOf(k) = r[2]}
      BY <2>1 DEF Resolve
    <3>4. Resolve(f, r)' = {k \in TicketsOf(f) : FileOf(k)' = r[2]}
      BY <1>5, <2>1 DEF Resolve
    <3> QED BY <1>7, <3>1, <3>2, <3>3, <3>4
  <2>2. CASE r[1] # "file"
    BY <1>2, <1>5, <1>6, <2>2 DEF Resolve
  <2> QED BY <2>1, <2>2
<1> QED BY <1>2, <1>5, <1>6, <1>8

\* References of a tree are typed.
LEMMA ReferenceTypes ==
  ASSUME TypeOK, NEW e \in Epics
  PROVE  /\ RefsIn(e) \subseteq AfterRefs
         /\ gate[e] \subseteq RefsIn(e)
         /\ \A n \in EntryIds(e) : breakdown.entry[e][n].after \subseteq RefsIn(e)
         /\ \A s \in Leaves(e) : leaf[e][s].after # Nothing => leaf[e][s].after \subseteq RefsIn(e)
<1>1. /\ gate[e] \subseteq AfterRefs
      /\ \A n \in EntryIds(e) : breakdown.entry[e][n].after \subseteq AfterRefs
      /\ \A s \in Leaves(e) : leaf[e][s].after # Nothing => leaf[e][s].after \subseteq AfterRefs
  BY FileTypes, LeafFields DEF Entries
<1> DEFINE waits == UNION {breakdown.entry[e][n].after : n \in EntryIds(e)}
           written == UNION {leaf[e][s].after : s \in {o \in Leaves(e) : leaf[e][o].after # Nothing}}
<1>2. waits \subseteq AfterRefs /\ written \subseteq AfterRefs
  BY <1>1
<1>3. /\ \A n \in EntryIds(e) : breakdown.entry[e][n].after \subseteq waits
      /\ \A s \in Leaves(e) : leaf[e][s].after # Nothing => leaf[e][s].after \subseteq written
  OBVIOUS
<1>4. RefsIn(e) = gate[e] \cup waits \cup written
  BY DEF RefsIn
<1> HIDE DEF waits, written
<1>5. RefsIn(e) \subseteq AfterRefs /\ gate[e] \subseteq RefsIn(e)
  BY <1>1, <1>2, <1>4
<1>6. waits \subseteq RefsIn(e) /\ written \subseteq RefsIn(e)
  BY <1>4
<1> QED BY <1>3, <1>5, <1>6

\* What the entries wait for, and the texts made of it, stay.
LEMMA PullPrerequisites ==
  ASSUME TreeInv, PullsFaithful, NEW a \in Agents, Pulls(a), Open(a) \/ Write(a)
  PROVE  /\ \A f \in Epics : \A n \in EntryIds(f) :
              /\ Prerequisites(f, n)' = Prerequisites(f, n)
              /\ EntryText(f, n)' = EntryText(f, n)
         /\ \A f \in Epics : GatedBy(f)' = GatedBy(f)
<1>1. /\ UNCHANGED <<breakdown, gate>> /\ TypeOK
      /\ \A f \in Epics : \A r \in RefsIn(f) : Resolve(f, r)' = Resolve(f, r)
  <2>1. cmd[a].key[1] \in Epics /\ <<"file", cmd[a].name>> \notin RefsIn(cmd[a].key[1])
    BY PullPuts DEF PullsFaithful, PullFaithful
  <2>2. TypeOK /\ \A f \in Epics : RefsIn(f) \subseteq AfterRefs
    BY ReferenceTypes DEF TreeInv
  <2> QED BY <2>1, <2>2, PullReferences
<1>2. ASSUME NEW f \in Epics, NEW refs \in SUBSET RefsIn(f)
      PROVE  ResolveAll(f, refs)' = ResolveAll(f, refs)
  BY <1>1 DEF ResolveAll
<1>3. ASSUME NEW f \in Epics, NEW n \in EntryIds(f)
      PROVE  Prerequisites(f, n)' = Prerequisites(f, n) /\ EntryText(f, n)' = EntryText(f, n)
  <2>1. Prerequisites(f, n)' = Prerequisites(f, n)
    BY <1>1, <1>2, ReferenceTypes DEF Prerequisites
  <2>2. \A b : RefTo(b, f)' = RefTo(b, f)
    BY <1>1 DEF RefTo
  <2> QED BY <2>1, <2>2 DEF EntryText
<1>4. ASSUME NEW f \in Epics PROVE GatedBy(f)' = GatedBy(f)
  BY <1>1, <1>2, ReferenceTypes DEF GatedBy
<1> QED BY <1>3, <1>4

LEMMA AtMostOne ==
  ASSUME NEW x, NEW S \in SUBSET {x}
  PROVE  Cardinality(S) <= 1
<1>1. CASE S = {}
  <2>1. Cardinality(S) = 0
    BY <1>1, FS_EmptySet
  <2> QED BY <2>1
<1>2. CASE S = {x}
  <2>1. Cardinality(S) = 1
    BY <1>2, FS_Singleton
  <2> QED BY <2>1
<1>3. S = {} \/ S = {x}
  OBVIOUS
<1> QED BY <1>1, <1>2, <1>3

\* Nor what any ticket waits for, nor that it can be resolved.
LEMMA PullAfter ==
  ASSUME TreeInv, TypeOK', PullsFaithful, PrerequisitesNamed,
         NEW a \in Agents, Pulls(a), Open(a) \/ Write(a)
  PROVE  /\ PrerequisitesNamed'
         /\ \A k \in Tickets : After(k)' = After(k)
         /\ NamesResolve => NamesResolve'
<1>0. PICK e, s, n : e = cmd[a].key[1] /\ s = cmd[a].name /\ n = cmd[a].key[2]
  OBVIOUS
<1> USE <1>0
<1>1. /\ TypeOK /\ e \in Epics /\ s \in Names /\ n \in Ids
      /\ leaf'[e][s] = IF Open(a) THEN Blank ELSE cmd[a].text
      /\ PullSlot(a) /\ PullFaithful(a)
  BY PullPuts DEF TreeInv, PullsFaithful
<1>2. /\ UNCHANGED <<breakdown, gate>> /\ Tickets' = Tickets
      /\ \A f \in Epics : TicketsOf(f)' = TicketsOf(f)
  BY PullReferences
<1>3. \A f \in Epics : \A r \in RefsIn(f) : Resolve(f, r)' = Resolve(f, r)
  BY <1>1, PullReferences, ReferenceTypes DEF PullFaithful
<1>4. \A f : EntryIds(f)' = EntryIds(f)
  BY <1>2 DEF EntryIds
<1>5. PrerequisitesNamed'
  <2>1. \A b, f : RefTo(b, f)' = RefTo(b, f)
    BY <1>2 DEF RefTo
  <2> QED BY <1>4, <2>1, PullPrerequisites DEF PrerequisitesNamed
<1>6. EntriesAgree
  BY <1>1, EntryOrFile
<1>7. EntriesAgree'
  <2>1. (TypeOK /\ PrerequisitesNamed => EntriesAgree)'
    BY EntryOrFile, PTL
  <2> QED BY <1>5, <2>1
<1>8. ASSUME NEW k \in Tickets
      PROVE  /\ k[1] \in Epics
             /\ EntryAfter(k)' = EntryAfter(k) /\ EntryAfter(k) \subseteq RefsIn(k[1])
             /\ k[2] \in EntryIds(k[1]) => EntryAfter(k) = breakdown.entry[k[1]][k[2]].after
  BY <1>1, <1>2, <1>4, TicketTypes, ReferenceTypes DEF EntryAfter, Listed, Entry
<1>9. ASSUME NEW k \in Tickets
      PROVE  /\ After(k)' = After(k)
             /\ NamesResolve => \A r \in RawAfter(k)' : Resolve(k[1], r)' # {}
  <2>0. k \in Tickets'
    BY <1>2
  <2>1. CASE k[1] = e /\ s \in FilesOf(k) \cup FilesOf(k)'
    <3>1. /\ k[2] \in Ids /\ (s \in FilesOf(k) \/ k[2] = n)
          /\ FileOf(k) \in {s, Nothing} /\ FileOf(k)' \in {s, Nothing}
      BY <2>1, PullFiles
    <3>2. s \in FilesOf(k) => s \in Leaves(e) /\ leaf[e][s].id = k[2]
      BY <2>1, <3>1 DEF FilesOf
    <3>3. k[2] \in EntryIds(e)
      BY <1>1, <3>1, <3>2 DEF PullSlot, PullFaithful
    <3>4. FileOf(k) # Nothing => leaf[e][FileOf(k)] = EntryText(e, k[2])
      BY <1>1, <3>1, <3>2, FileOfTypes DEF PullFaithful
    <3>5. FileOf(k)' # Nothing => leaf'[e][FileOf(k)'] = EntryText(e, k[2])'
      <4>1. SUFFICES ASSUME FileOf(k)' # Nothing
                     PROVE  leaf'[e][FileOf(k)'] = EntryText(e, k[2])'
        OBVIOUS
      <4>2. FileOf(k)' \in FilesOf(k)' /\ FileOf(k)' = s
        BY <3>1, <4>1 DEF FileOf
      <4>3. s \in Leaves(e)' /\ leaf'[e][s].id = k[2]
        BY <2>1, <3>1, <4>2 DEF FilesOf
      <4>4. leaf'[e][s] = cmd[a].text
        BY <1>1, <4>3 DEF Leaves, IsFile
      <4>5. cmd[a].text = EntryText(e, n) /\ n = k[2]
        BY <1>1, <4>3, <4>4 DEF PullFaithful, PullSlot
      <4> QED BY <1>1, <3>3, <4>2, <4>4, <4>5, PullPrerequisites
    <3>6. After(k) = Prerequisites(e, k[2])
      BY <1>6, <2>1, <3>3, <3>4 DEF EntriesAgree
    <3>7. /\ After(k)' = Prerequisites(e, k[2])'
          /\ \A r \in RawAfter(k)' : \/ r \in breakdown'.entry[e][k[2]].after
                                     \/ Resolve(e, r)' # {}
      BY <1>4, <1>7, <2>0, <2>1, <3>3, <3>5 DEF EntriesAgree
    <3>8. After(k)' = After(k)
      BY <1>1, <3>3, <3>6, <3>7, PullPrerequisites
    <3>9. ASSUME NamesResolve, NEW r \in RawAfter(k)' PROVE Resolve(e, r)' # {}
      <4>1. CASE r \in breakdown.entry[e][k[2]].after
        <5>1. r \in EntryAfter(k) /\ r \in RefsIn(e)
          BY <1>8, <2>1, <3>3, <4>1
        <5>2. Resolve(e, r) # {}
          BY <2>1, <3>9, <5>1 DEF NamesResolve
        <5> QED BY <1>1, <1>3, <5>1, <5>2
      <4> QED BY <1>2, <3>7, <3>9, <4>1
    <3> QED BY <2>1, <3>8, <3>9
  <2>2. CASE ~(k[1] = e /\ s \in FilesOf(k) \cup FilesOf(k)')
    <3>1. /\ FileOf(k)' = FileOf(k)
          /\ FileOf(k) # Nothing => leaf'[k[1]][FileOf(k)] = leaf[k[1]][FileOf(k)]
      BY <2>2, PullFiles
    <3>2. LeafAfter(k)' = LeafAfter(k)
      BY <3>1 DEF LeafAfter
    <3>3. RawAfter(k)' = RawAfter(k)
      BY <1>8, <3>2 DEF RawAfter
    <3>4. LeafAfter(k) # Nothing => LeafAfter(k) \subseteq RefsIn(k[1])
      BY <1>1, <1>8, FileOfTypes, ReferenceTypes DEF LeafAfter
    <3>5. RawAfter(k) \subseteq RefsIn(k[1])
      BY <1>8, <3>4 DEF RawAfter
    <3>6. \A r \in RawAfter(k) : Resolve(k[1], r)' = Resolve(k[1], r)
      BY <1>3, <1>8, <3>5
    <3>7. After(k)' = After(k)
      BY <3>3, <3>6 DEF After, ResolveAll
    <3>8. NamesResolve => \A r \in RawAfter(k)' : Resolve(k[1], r)' # {}
      BY <3>3, <3>6 DEF NamesResolve
    <3> QED BY <3>7, <3>8
  <2> QED BY <2>1, <2>2
<1>10. ASSUME NamesResolve PROVE NamesResolve'
  <2>1. \A k \in Tickets : \A r \in RawAfter(k)' \cup EntryAfter(k)' : Resolve(k[1], r)' # {}
    <3> SUFFICES ASSUME NEW k \in Tickets, NEW r \in RawAfter(k)' \cup EntryAfter(k)'
                 PROVE  Resolve(k[1], r)' # {}
      OBVIOUS
    <3>1. CASE r \in RawAfter(k)'
      BY <1>9, <1>10, <3>1
    <3>2. CASE r \in EntryAfter(k)'
      BY <1>3, <1>8, <1>10, <3>2 DEF NamesResolve
    <3> QED BY <3>1, <3>2
  <2>2. \A f \in Epics : \A r \in gate'[f] : Resolve(f, r)' # {}
    BY <1>1, <1>2, <1>3, <1>10, ReferenceTypes DEF NamesResolve
  <2> QED BY <1>2, <2>1, <2>2 DEF NamesResolve
<1> QED BY <1>5, <1>9, <1>10

\* So a pull keeps a tree that loads so.
LEMMA PullKeepsLoads ==
  ASSUME TreeInv, TypeOK', PullsFaithful, PrerequisitesNamed, Loads,
         NEW a \in Agents, Pulls(a), Open(a) \/ Write(a)
  PROVE  Loads'
<1>1. /\ TypeOK /\ Tickets' = Tickets /\ plan' = plan
      /\ \A f \in Epics : TicketsOf(f)' = TicketsOf(f)
  BY PullReferences, PullPuts DEF TreeInv
<1>2. NamesResolve'
  BY PullAfter DEF Loads
<1>3. ~Cyclic'
  BY <1>1, PullAfter, PullPrerequisites, CyclesKept DEF Loads
<1>4. ASSUME NEW f \in Epics PROVE FolderLoads(f)'
  <2>1. \A k \in TicketsOf(f) : k \in Tickets /\ k[1] = f
    BY DEF Tickets, TicketsOf
  <2>2. FolderLoads(f)
    BY DEF Loads
  <2>3. \A k \in TicketsOf(f) : PlansOf(k)' = PlansOf(k)
    BY <2>1, PullFiles
  <2>4. Plans(f)' = Plans(f)
    BY <1>1 DEF Plans
  <2>5. ASSUME NEW k \in TicketsOf(f) PROVE Cardinality(FilesOf(k)') <= 1
    <3>1. FilesOf(k)' = FilesOf(k) \/ FilesOf(k)' \subseteq {cmd[a].name}
      BY <2>1, PullFiles
    <3>2. CASE FilesOf(k)' = FilesOf(k)
      BY <2>2, <3>2 DEF FolderLoads
    <3>3. CASE FilesOf(k)' \subseteq {cmd[a].name}
      BY <3>3, AtMostOne
    <3> QED BY <3>1, <3>2, <3>3
  <2> QED BY <1>1, <2>2, <2>3, <2>4, <2>5 DEF FolderLoads
<1> QED BY <1>2, <1>3, <1>4 DEF Loads

-----------------------------------------------------------------------------
(* What overlapping commands keep true of the tree.                        *)

\* The text of a mark goes by its ticket's id or file.
LEMMA TextsTicket ==
  ASSUME TreeInv, NEW a \in Agents, Marks(a)
  PROVE  cmd[a].text.ticket \in {cmd[a].key[2], FileOf(cmd[a].key)}
<1> DEFINE k == cmd[a].key
           t == cmd[a].text.ticket
<1>1. TypeOK /\ k[1] \in Epics /\ k[2] \in Ids \cup Names /\ Busy(a) /\ MarkJoins(a)
  BY CommandTypes DEF TreeInv, MarkTexts, MarkCommands, Keys, Marks
<1>2. CASE t = k[2]
  BY <1>2
<1>3. CASE t # k[2]
  <2>1. t \in Leaves(k[1]) /\ leaf[k[1]][t].id = k[2]
    BY <1>1, <1>3 DEF MarkJoins
  <2>2. k[2] \in Ids /\ k[2] # Nothing
    <3>1. k[2] \in Ids \cup {Nothing}
      BY <1>1, <2>1, LeafFields
    <3> QED BY <1>1, <3>1, IdsAreNotNames
  <2>3. \A o \in Leaves(k[1]) : leaf[k[1]][o].id = k[2] => o = t
    BY <1>1, <2>1, <2>2 DEF TreeInv, LeavesOnce
  <2>4. FilesOf(k) = {t}
    BY <2>1, <2>2, <2>3 DEF FilesOf
  <2>5. FileOf(k) = t
    BY <2>4 DEF FileOf
  <2> QED BY <2>5
<1> QED BY <1>2, <1>3

\* A mark that opens or writes its plan keeps a tree that loads so, unless it read
\* past a hollow file.
LEMMA MarkKeepsLoads ==
  ASSUME CommandsInv, ~torn, Loads, NEW a \in Agents, Marks(a), Open(a) \/ Write(a)
  PROVE  Loads'
<1>0. PICK e, p, m : e = cmd[a].key[1] /\ p = cmd[a].name /\ m = cmd[a].key
  OBVIOUS
<1> USE <1>0
<1>1. /\ TreeInv /\ TypeOK /\ MarkOwns(a)
      /\ UNCHANGED <<breakdown, gate, leaf>>
      /\ e \in Epics /\ p \in PlanNames
      /\ plan'[e][p] = IF Open(a) THEN Blank ELSE cmd[a].text
      /\ \A f \in Epics, q \in PlanNames : f # e \/ q # p => plan'[f][q] = plan[f][q]
  <2>1. TreeInv /\ TypeOK /\ MarkOwns(a)
    BY DEF CommandsInv, TreeInv, MarksOwn
  <2> QED BY <2>1, MarkPuts DEF Open, Write
<1>2. /\ Tickets' = Tickets
      /\ \A f : TicketsOf(f)' = TicketsOf(f)
      /\ \A k : FilesOf(k)' = FilesOf(k) /\ FileOf(k)' = FileOf(k)
      /\ \A f, r : Resolve(f, r)' = Resolve(f, r)
      /\ \A f, refs : ResolveAll(f, refs)' = ResolveAll(f, refs)
  BY <1>1, SameNames
<1>3. \A k : /\ RawAfter(k)' = RawAfter(k) /\ EntryAfter(k)' = EntryAfter(k)
             /\ After(k)' = After(k)
  <2>1. \A k : LeafAfter(k)' = LeafAfter(k) /\ EntryAfter(k)' = EntryAfter(k)
    BY <1>1, <1>2 DEF LeafAfter, EntryAfter, Listed, Entry, EntryIds
  <2>2. \A k : RawAfter(k)' = RawAfter(k)
    BY <2>1 DEF RawAfter
  <2> QED BY <1>2, <2>1, <2>2 DEF After
<1>4. NamesResolve'
  BY <1>1, <1>2, <1>3 DEF Loads, NamesResolve
<1>5. ~Cyclic'
  <2>1. \A f \in Epics : GatedBy(f)' = GatedBy(f)
    BY <1>1, <1>2 DEF GatedBy
  <2> QED BY <1>2, <1>3, <2>1, CyclesKept DEF Loads
<1>6. ASSUME NEW f \in Epics PROVE FolderLoads(f)'
  <2>1. \A k \in TicketsOf(f) : k \in Tickets /\ k[1] = f
    BY DEF Tickets, TicketsOf
  <2>2. FolderLoads(f)
    BY DEF Loads
  <2>3. ASSUME NEW k \in TicketsOf(f) PROVE Cardinality(PlansOf(k)') <= 1
    <3>1. CASE k # m
      <4>1. PlansOf(k)' = PlansOf(k)
        BY <1>1, <2>1, <3>1, MarkPlans
      <4> QED BY <2>2, <4>1 DEF FolderLoads
    <3>2. CASE k = m
      <4>1. PlansOf(k) \subseteq {p}
        BY <1>1, <3>2 DEF MarkOwns
      <4>2. PlansOf(k)' \subseteq PlansOf(k) \cup {p}
        BY <1>1, <2>1, <3>2, MarkPlans
      <4>3. PlansOf(k)' \subseteq {p}
        BY <4>1, <4>2
      <4> QED BY <4>3, AtMostOne
    <3> QED BY <3>1, <3>2
  <2>4. ASSUME NEW q \in Plans(f)' PROVE \E k \in TicketsOf(f) : q \in PlansOf(k)'
    <3>0. q \in PlanNames /\ plan'[f][q] # Blank
      BY <2>4 DEF Plans, IsFile
    <3>1. CASE f = e /\ q = p
      <4>1. plan'[e][p] = cmd[a].text
        BY <1>1, <3>0, <3>1
      <4>2. m \in Tickets /\ m[1] = f
        BY <1>1, <3>1 DEF MarkOwns
      <4>3. m \in TicketsOf(f)
        BY <4>2, TicketEpic
      <4>4. cmd[a].text.ticket \in {m[2], FileOf(m)}
        BY <1>1, TextsTicket
      <4>5. q \in PlansOf(m)'
        BY <1>2, <2>4, <3>1, <4>1, <4>2, <4>4 DEF PlansOf
      <4> QED BY <4>3, <4>5
    <3>2. CASE f # e \/ q # p
      <4>1. plan'[f][q] = plan[f][q]
        BY <1>1, <3>0, <3>2
      <4>2. q \in Plans(f)
        BY <2>4, <4>1 DEF Plans
      <4>3. PICK k \in TicketsOf(f) : q \in PlansOf(k)
        BY <2>2, <4>2 DEF FolderLoads
      <4>4. k[1] = f
        BY <2>1
      <4>5. q \in PlansOf(k)'
        BY <1>2, <2>4, <4>1, <4>3, <4>4 DEF PlansOf
      <4> QED BY <4>5
    <3> QED BY <3>1, <3>2
  <2> QED BY <1>2, <2>2, <2>3, <2>4 DEF FolderLoads
<1> QED BY <1>4, <1>5, <1>6 DEF Loads

LEMMA SameTexts ==
  ASSUME UNCHANGED <<breakdown, gate, leaf>>
  PROVE  /\ \A e, n : Prerequisites(e, n)' = Prerequisites(e, n) /\ EntryText(e, n)' = EntryText(e, n)
         /\ \A e : RefsIn(e)' = RefsIn(e)
         /\ PrerequisitesNamed' <=> PrerequisitesNamed
<1>1. \A e, n : Prerequisites(e, n)' = Prerequisites(e, n)
  BY SameNames DEF Prerequisites
<1>2. \A e, n : EntryText(e, n)' = EntryText(e, n)
  BY <1>1, SameNames DEF EntryText
<1>3. \A e : RefsIn(e)' = RefsIn(e)
  BY SameNames DEF RefsIn
<1>4. PrerequisitesNamed' <=> PrerequisitesNamed
  BY <1>1, SameNames DEF PrerequisitesNamed
<1> QED BY <1>1, <1>2, <1>3, <1>4

\* What a pull knows of the files stays with them.
LEMMA SameFaithful ==
  ASSUME UNCHANGED <<breakdown, gate, leaf>>, NEW b \in Agents, PullFaithful(b),
         cmd'[b].key = cmd[b].key, cmd'[b].name = cmd[b].name, cmd'[b].text = cmd[b].text
  PROVE  PullFaithful(b)'
BY SameNames, SameTexts DEF PullFaithful

\* A step that only ends commands.
LEMMA EndingKeepsOwners ==
  ASSUME CommandsInv, UNCHANGED <<breakdown, gate, leaf, plan, torn>>,
         \A b \in Agents : cmd'[b] = cmd[b] \/ cmd'[b] = Idle
  PROVE  (PullsFaithful /\ MarksOwn)'
<1>1. \A b \in Agents : cmd'[b] = cmd[b] \/ ~Busy(b)'
  BY DEF Busy, Idle
<1>2. \A b \in Agents : /\ Marks(b)' => Marks(b) /\ cmd'[b] = cmd[b]
                        /\ Pulls(b)' => Pulls(b) /\ cmd'[b] = cmd[b]
  BY <1>1 DEF Busy, Marks, Pulls
<1>3. ASSUME NEW b \in Agents, Pulls(b)' PROVE PullFaithful(b)'
  BY <1>2, <1>3, SameFaithful DEF CommandsInv, PullsFaithful
<1>4. ASSUME NEW b \in Agents, Marks(b)' PROVE MarkOwns(b)'
  <2>1. MarkOwns(b) /\ cmd'[b] = cmd[b]
    BY <1>2, <1>4 DEF CommandsInv, MarksOwn
  <2>2. PICK m : m = cmd[b].key
    OBVIOUS
  <2>3. Tickets' = Tickets /\ Title(m)' = Title(m) /\ PlansOf(m)' = PlansOf(m)
    BY SameNames DEF PlansOf, Plans
  <2> QED BY <1>2, <2>1, <2>2, <2>3 DEF MarkOwns
<1> QED BY <1>3, <1>4 DEF PullsFaithful, MarksOwn

\* A pull reads what its entry says; while the tree loads nothing in it names a file
\* that is not there.
LEMMA PullReadsFaithfully ==
  ASSUME CommandsInv, NEW a \in Agents, PullRead(a)
  PROVE  (PullsFaithful /\ MarksOwn)'
<1>1. PICK e \in Epics, n \in Ids :
        /\ <<e, n>> \in TicketsOf(e) /\ FileOf(<<e, n>>) = Nothing
        /\ leaf[e][Entry(<<e, n>>).name] = Nothing
        /\ cmd' = [cmd EXCEPT ![a] =
             [pc |-> "open", does |-> "pull", key |-> <<e, n>>, name |-> Entry(<<e, n>>).name,
              created |-> FALSE, text |-> PullText(<<e, n>>)]]
  BY DEF PullRead
<1>0. PICK k, s : k = <<e, n>> /\ s = Entry(<<e, n>>).name
  OBVIOUS
<1>2. /\ TypeOK /\ Loads /\ UNCHANGED <<breakdown, gate, leaf, plan>>
      /\ torn' = (torn \/ Hollow)
  BY DEF CommandsInv, TreeInv, PullRead, disk, Begins
<1>3. /\ cmd'[a] = [pc |-> "open", does |-> "pull", key |-> k, name |-> s,
                    created |-> FALSE, text |-> PullText(k)]
      /\ \A b \in Agents \ {a} : /\ cmd'[b] = cmd[b]
                                 /\ Marks(b)' <=> Marks(b)
                                 /\ Pulls(b)' <=> Pulls(b)
  BY <1>0, <1>1, <1>2, OthersKept
<1>4. /\ cmd'[a].pc = "open" /\ cmd'[a].does = "pull"
      /\ cmd'[a].key = k /\ cmd'[a].name = s /\ cmd'[a].text = PullText(k)
  BY <1>3
<1>5. ~Marks(a)'
  BY <1>4 DEF Marks
<1>6. s \notin Leaves(e) /\ s # Nothing /\ n \in EntryIds(e)
  <2>1. s \in Names /\ n \in EntryIds(e)
    BY <1>0, <1>1, <1>2, PullTypes
  <2>2. s \notin Leaves(e)
    BY <1>0, <1>1 DEF Leaves, IsFile
  <2> QED BY <2>1, <2>2, IdsAreNotNames
<1>7. PullText(k) = EntryText(e, n)
  <2>1. LeafAfter(k) = Nothing /\ Listed(k) /\ Entry(k) = breakdown.entry[e][n]
    BY <1>0, <1>1, <1>6 DEF LeafAfter, Listed, Entry
  <2>2. RawAfter(k) = breakdown.entry[e][n].after
    BY <2>1 DEF RawAfter, EntryAfter
  <2>3. After(k) = Prerequisites(e, n)
    BY <1>0, <2>2 DEF After, Prerequisites
  <2> QED BY <1>0, <2>3 DEF PullText, EntryText
<1>8. <<"file", s>> \notin RefsIn(e)
  <2> DEFINE r == <<"file", s>>
  <2>1. ASSUME NEW o \in TicketsOf(e) PROVE FileOf(o) # s
    <3>1. o[1] = e
      BY DEF TicketsOf
    <3> QED BY <1>6, <3>1, FileOfTypes
  <2>2. Resolve(e, r) = {}
    BY <2>1 DEF Resolve
  <2>3. NamesResolve
    BY <1>2 DEF Loads
  <2>4. r \notin gate[e]
    BY <2>2, <2>3 DEF NamesResolve
  <2>5. ASSUME NEW m \in EntryIds(e) PROVE r \notin breakdown.entry[e][m].after
    <3>1. <<e, m>> \in Tickets
      BY DEF Tickets, TicketsOf
    <3>2. EntryAfter(<<e, m>>) = breakdown.entry[e][m].after
      BY DEF EntryAfter, Listed, Entry
    <3> QED BY <2>2, <2>3, <3>1, <3>2 DEF NamesResolve
  <2>6. ASSUME NEW o \in Leaves(e), leaf[e][o].after # Nothing PROVE r \notin leaf[e][o].after
    <3>1. leaf[e][o].id \in Ids \cup {Nothing} /\ o \in Names
      BY <1>2, LeafFields
    <3>2. PICK t : /\ t \in TicketsOf(e) /\ FilesOf(t) = {o} /\ t[1] = e
      <4>1. CASE leaf[e][o].id = Nothing
        <5>1. <<e, o>> \in TicketsOf(e)
          BY <4>1 DEF TicketsOf
        <5>2. FilesOf(<<e, o>>) = {o}
          BY <3>1, IdsAreNotNames DEF FilesOf
        <5> QED BY <5>1, <5>2
      <4>2. CASE leaf[e][o].id # Nothing
        <5>1. <<e, leaf[e][o].id>> \in TicketsOf(e)
          BY <4>2 DEF TicketsOf
        <5>2. \A q \in Leaves(e) : leaf[e][q].id = leaf[e][o].id => q = o
          BY <1>2, <4>2, LoadedLeavesOnce
        <5>3. leaf[e][o].id \in Ids
          BY <3>1, <4>2
        <5>4. FilesOf(<<e, leaf[e][o].id>>) = {o}
          BY <5>2, <5>3 DEF FilesOf
        <5> QED BY <5>1, <5>4
      <4> QED BY <4>1, <4>2
    <3>3. FileOf(t) = o /\ t \in Tickets
      BY <3>2 DEF FileOf, Tickets
    <3>4. RawAfter(t) = leaf[e][o].after
      BY <2>6, <3>1, <3>2, <3>3, IdsAreNotNames DEF RawAfter, LeafAfter
    <3> QED BY <2>2, <2>3, <3>2, <3>3, <3>4 DEF NamesResolve
  <2>7. r \notin UNION {breakdown.entry[e][m].after : m \in EntryIds(e)}
    BY <2>5
  <2>8. r \notin UNION {leaf[e][o].after : o \in {q \in Leaves(e) : leaf[e][q].after # Nothing}}
    BY <2>6
  <2> QED BY <2>4, <2>7, <2>8 DEF RefsIn
<1>9. PullFaithful(a)'
  <2>1. cmd'[a].key[1] = e /\ cmd'[a].key[2] = n
    BY <1>0, <1>4
  <2>2. s \notin Leaves(e)' /\ EntryText(e, n)' = EntryText(e, n) /\ RefsIn(e)' = RefsIn(e)
    BY <1>2, <1>6, SameNames, SameTexts
  <2> QED BY <1>4, <1>7, <1>8, <2>1, <2>2 DEF PullFaithful
<1>10. ASSUME NEW b \in Agents \ {a}, Pulls(b)' PROVE PullFaithful(b)'
  BY <1>2, <1>3, <1>10, SameFaithful DEF CommandsInv, PullsFaithful
<1>11. ASSUME NEW b \in Agents, Marks(b)' PROVE MarkOwns(b)'
  <2>1. /\ Marks(b) /\ MarkOwns(b) /\ cmd'[b] = cmd[b]
        /\ \A c \in Agents : Marks(c)' => Marks(c) /\ cmd'[c] = cmd[c]
    BY <1>3, <1>5, <1>11 DEF CommandsInv, MarksOwn
  <2>2. PICK m : m = cmd[b].key
    OBVIOUS
  <2>3. Tickets' = Tickets /\ Title(m)' = Title(m) /\ PlansOf(m)' = PlansOf(m)
    BY <1>2, SameNames DEF PlansOf, Plans
  <2> QED BY <1>2, <2>1, <2>2, <2>3 DEF MarkOwns
<1> QED BY <1>9, <1>10, <1>11 DEF PullsFaithful, MarksOwn

\* A mark that reads no hollow file sees the plan of every other mark of its ticket.
LEMMA MarkReadsItsPlan ==
  ASSUME CommandsInv, NEW a \in Agents, MarkRead(a)
  PROVE  (PullsFaithful /\ MarksOwn)'
<1>1. PICK k \in Tickets, status \in MarkStatuses, blocked \in BOOLEAN :
        cmd' = [cmd EXCEPT ![a] =
          [pc |-> "open", does |-> "mark", key |-> k, name |-> PlanPath(k),
           created |-> PlansOf(k) = {}, text |-> MarkText(k, status, blocked)]]
  BY DEF MarkRead
<1>2. /\ TreeInv /\ TypeOK /\ Loads /\ UNCHANGED <<breakdown, gate, leaf, plan>>
      /\ torn' = (torn \/ Hollow)
  BY DEF CommandsInv, TreeInv, MarkRead, disk, Begins
<1>0. PICK p : p = PlanPath(k)
  OBVIOUS
<1>3. /\ cmd'[a] = [pc |-> "open", does |-> "mark", key |-> k, name |-> p,
                    created |-> PlansOf(k) = {}, text |-> MarkText(k, status, blocked)]
      /\ \A b \in Agents \ {a} : /\ cmd'[b] = cmd[b]
                                 /\ Marks(b)' <=> Marks(b)
                                 /\ Pulls(b)' <=> Pulls(b)
  BY <1>0, <1>1, <1>2, OthersKept
<1>4. /\ cmd'[a].pc = "open" /\ cmd'[a].does = "mark" /\ cmd'[a].key = k /\ cmd'[a].name = p
      /\ cmd'[a].created = (PlansOf(k) = {})
  BY <1>3
<1>5. ~Pulls(a)'
  BY <1>4 DEF Pulls
<1>6. Tickets' = Tickets /\ \A m : Title(m)' = Title(m) /\ PlansOf(m)' = PlansOf(m)
  BY <1>2, SameNames DEF PlansOf, Plans
<1>7. /\ PlansOf(k) = {} => p = Title(k)
      /\ PlansOf(k) \subseteq {p}
  <2>1. PlansOf(k) = {} => p = Title(k)
    BY <1>0 DEF PlanPath
  <2>2. ASSUME NEW q \in PlansOf(k) PROVE q = p
    <3>1. p \in PlansOf(k)
      BY <1>0, <1>2, <2>2, PlanOfTypes
    <3>2. k \in TicketsOf(k[1]) /\ k[1] \in Epics
      BY TicketEpic
    <3>3. Cardinality(PlansOf(k)) <= 1
      BY <1>2, <3>2 DEF Loads, FolderLoads
    <3>4. IsFiniteSet(PlansOf(k))
      <4>1. PlansOf(k) \subseteq PlanNames
        BY DEF PlansOf, Plans
      <4> QED BY <4>1, NamesArePlanNames, FS_Subset
    <3> QED BY <2>2, <3>1, <3>3, <3>4, OnlyOne
  <2> QED BY <2>1, <2>2
<1>8. ASSUME ~torn, ~Hollow, NEW b \in Agents, Marks(b), cmd[b].key = k PROVE cmd[b].name = p
  <2>1. MarkOwns(b) /\ MarkJoins(b) /\ cmd[b] \in MarkCommands
    BY <1>2, <1>8, CommandTypes DEF CommandsInv, TreeInv, MarksOwn, MarkTexts
  <2>2. PICK e, q : e = cmd[b].key[1] /\ q = cmd[b].name
    OBVIOUS
  <2>3. CASE Holds(b)
    <3>1. plan[e][q] # Nothing /\ (q \in Plans(e) => plan[e][q].ticket = cmd[b].text.ticket)
      BY <1>2, <2>2, <2>3 DEF TreeInv, PlanSlots, PlanSlot
    <3>2. e \in Epics /\ q \in PlanNames
      BY <2>1, <2>2 DEF MarkCommands, Keys
    <3>3. q \in Plans(e)
      BY <1>8, <3>1, <3>2 DEF Hollow, Plans, IsFile
    <3>4. cmd[b].text.ticket \in {k[2], FileOf(k)}
      BY <1>2, <1>8, TextsTicket
    <3>5. q \in PlansOf(k)
      BY <1>8, <2>2, <3>1, <3>3, <3>4 DEF PlansOf
    <3> QED BY <1>7, <2>2, <3>5
  <2>4. CASE ~Holds(b)
    <3>1. cmd[b].created
      BY <1>8, <2>4 DEF Holds
    <3>2. cmd[b].name = Title(k) /\ PlansOf(k) \subseteq {cmd[b].name}
      BY <1>8, <2>1, <3>1 DEF MarkOwns
    <3>3. PlansOf(k) # {} => p \in PlansOf(k)
      BY <1>0, <1>2, PlanOfTypes
    <3> QED BY <1>7, <3>2, <3>3
  <2> QED BY <2>3, <2>4
<1>9. MarkOwns(a)'
  <2>1. ASSUME ~torn', NEW b \in Agents, Marks(b)', cmd'[b].key = k PROVE cmd'[b].name = p
    <3>1. CASE b = a
      BY <1>4, <3>1
    <3>2. CASE b # a
      BY <1>2, <1>3, <1>8, <2>1, <3>2
    <3> QED BY <3>1, <3>2
  <2> QED BY <1>4, <1>6, <1>7, <2>1 DEF MarkOwns
<1>10. ASSUME NEW b \in Agents \ {a}, Marks(b)' PROVE MarkOwns(b)'
  <2>1. Marks(b) /\ MarkOwns(b) /\ cmd'[b] = cmd[b]
    BY <1>3, <1>10 DEF CommandsInv, MarksOwn
  <2>2. ASSUME ~torn', NEW c \in Agents, Marks(c)', cmd'[c].key = cmd[b].key
        PROVE  cmd'[c].name = cmd[b].name
    <3>1. CASE c = a
      BY <1>2, <1>4, <1>8, <2>1, <2>2, <3>1
    <3>2. CASE c # a
      BY <1>2, <1>3, <2>1, <2>2, <3>2 DEF MarkOwns
    <3> QED BY <3>1, <3>2
  <2>3. PICK m : m = cmd[b].key
    OBVIOUS
  <2> QED BY <1>2, <1>6, <2>1, <2>2, <2>3 DEF MarkOwns
<1>11. ASSUME NEW b \in Agents, Pulls(b)' PROVE PullFaithful(b)'
  <2>1. Pulls(b) /\ cmd'[b] = cmd[b]
    BY <1>3, <1>5, <1>11
  <2> QED BY <1>2, <2>1, SameFaithful DEF CommandsInv, PullsFaithful
<1> QED BY <1>9, <1>10, <1>11 DEF PullsFaithful, MarksOwn

\* A mark that opens or writes its plan.
LEMMA MarkPutsKeepOwners ==
  ASSUME CommandsInv, NEW a \in Agents, Marks(a), Open(a) \/ Write(a)
  PROVE  (PullsFaithful /\ MarksOwn)'
<1>1. /\ TreeInv /\ UNCHANGED <<breakdown, gate, leaf>> /\ torn' = torn
      /\ MarkOwns(a)
      /\ \A b \in Agents : /\ Marks(b)' => Marks(b)
                           /\ Pulls(b)' => Pulls(b)
                           /\ Busy(b)' => /\ cmd'[b].key = cmd[b].key
                                          /\ cmd'[b].name = cmd[b].name
                                          /\ cmd'[b].text = cmd[b].text
  <2>1. TreeInv /\ TypeOK /\ MarkOwns(a)
    BY DEF CommandsInv, TreeInv, MarksOwn
  <2> QED BY <2>1, MarkPuts, PutsOneFile DEF Open, Write
<1>2. \A b \in Agents : (Marks(b)' => Busy(b)') /\ (Pulls(b)' => Busy(b)')
  BY DEF Marks, Pulls
<1>3. ASSUME NEW b \in Agents, Pulls(b)' PROVE PullFaithful(b)'
  BY <1>1, <1>2, <1>3, SameFaithful DEF CommandsInv, PullsFaithful
<1>4. ASSUME NEW b \in Agents, Marks(b)' PROVE MarkOwns(b)'
  <2>0. PICK m : m = cmd[b].key
    OBVIOUS
  <2>1. /\ Marks(b) /\ MarkOwns(b) /\ m \in Tickets
        /\ cmd'[b].key = m /\ cmd'[b].name = cmd[b].name
    BY <1>1, <1>2, <1>4, <2>0 DEF CommandsInv, MarksOwn, MarkOwns
  <2>2. Tickets' = Tickets /\ Title(m)' = Title(m)
    BY <1>1, SameNames
  <2>3. cmd'[b].created => cmd[b].created
    <3>1. cmd[b] \in MarkCommands
      BY <1>1, <2>1, CommandTypes DEF TreeInv
    <3>2. CASE b # a
      <4>1. cmd'[b] = cmd[b]
        BY <1>1, <3>2, PutsOneFile, OthersKept DEF TreeInv
      <4> QED BY <4>1
    <3>3. CASE b = a
      <4>1. Open(a)
        <5>1. SUFFICES ASSUME ~Open(a) PROVE FALSE
          OBVIOUS
        <5>2. cmd'[a] = Idle
          BY <1>1, <5>1, PutsOneFile, OthersKept DEF TreeInv
        <5> QED BY <1>4, <3>3, <5>2 DEF Marks, Busy, Idle
      <4>2. cmd'[a] = [cmd[a] EXCEPT !.pc = "write"]
        BY <1>1, <4>1, PutsOneFile, OthersKept DEF TreeInv
      <4> QED BY <3>1, <3>3, <4>2 DEF MarkCommands
    <3> QED BY <3>2, <3>3
  <2>4. ASSUME ~torn
        PROVE  /\ PlansOf(m)' \subseteq {cmd[b].name}
               /\ \A c \in Agents : Marks(c)' /\ cmd'[c].key = m => cmd'[c].name = cmd[b].name
    <3>1. /\ PlansOf(m) \subseteq {cmd[b].name}
          /\ \A c \in Agents : Marks(c) /\ cmd[c].key = m => cmd[c].name = cmd[b].name
      BY <2>0, <2>1, <2>4 DEF MarkOwns
    <3>2. PlansOf(m)' \subseteq {cmd[b].name}
      <4>1. CASE m # cmd[a].key
        BY <1>1, <2>1, <3>1, <4>1, MarkPlans
      <4>2. CASE m = cmd[a].key
        BY <1>1, <2>1, <3>1, <4>2, MarkPlans
      <4> QED BY <4>1, <4>2
    <3> QED BY <1>1, <1>2, <3>1, <3>2
  <2> QED BY <1>1, <2>0, <2>1, <2>2, <2>3, <2>4 DEF MarkOwns
<1> QED BY <1>3, <1>4 DEF PullsFaithful, MarksOwn

\* A pull that opens or writes its leaf file.
LEMMA PullPutsKeepOwners ==
  ASSUME CommandsInv, NEW a \in Agents, Pulls(a), Open(a) \/ Write(a)
  PROVE  (PullsFaithful /\ MarksOwn)'
<1>0. PICK e, s, n : e = cmd[a].key[1] /\ s = cmd[a].name /\ n = cmd[a].key[2]
  OBVIOUS
<1> USE <1>0
<1>1. /\ TreeInv /\ TypeOK /\ PullsFaithful
      /\ UNCHANGED <<breakdown, gate>> /\ torn' = torn /\ plan' = plan
      /\ e \in Epics /\ s \in Names /\ n \in Ids /\ PullSlot(a) /\ PullFaithful(a)
      /\ leaf'[e][s] = IF Open(a) THEN Blank ELSE cmd[a].text
      /\ \A f \in Epics, o \in Names : f # e \/ o # s => leaf'[f][o] = leaf[f][o]
  BY PullPuts DEF CommandsInv, TreeInv, PullsFaithful, Open, Write
<1>2. /\ Busy(a)
      /\ \A b \in Agents : /\ Marks(b)' => Marks(b)
                           /\ Pulls(b)' => Pulls(b)
                           /\ Busy(b)' => /\ cmd'[b].key = cmd[b].key
                                          /\ cmd'[b].name = cmd[b].name
                                          /\ cmd'[b].text = cmd[b].text
  BY <1>1, PutsOneFile
<1>3. \A b \in Agents : (Marks(b)' => Busy(b)') /\ (Pulls(b)' => Busy(b)')
  BY DEF Marks, Pulls
<1>4. \A f : EntryIds(f)' = EntryIds(f)
  BY <1>1 DEF EntryIds
<1>5. \A f \in Epics : \A m \in EntryIds(f) :
        Prerequisites(f, m)' = Prerequisites(f, m) /\ EntryText(f, m)' = EntryText(f, m)
  BY <1>1, PullPrerequisites
<1>6. \A f \in Epics : \A o \in Leaves(f)' :
        \/ f = e /\ o = s /\ leaf'[f][o] = EntryText(e, n)
        \/ (f # e \/ o # s) /\ o \in Leaves(f) /\ leaf'[f][o] = leaf[f][o]
  <2> SUFFICES ASSUME NEW f \in Epics, NEW o \in Leaves(f)'
               PROVE  \/ f = e /\ o = s /\ leaf'[f][o] = EntryText(e, n)
                      \/ (f # e \/ o # s) /\ o \in Leaves(f) /\ leaf'[f][o] = leaf[f][o]
    OBVIOUS
  <2>1. o \in Names /\ leaf'[f][o] # Blank /\ leaf'[f][o] # Nothing
    BY DEF Leaves, IsFile
  <2>2. CASE f = e /\ o = s
    BY <1>1, <2>1, <2>2 DEF PullFaithful
  <2>3. CASE f # e \/ o # s
    BY <1>1, <2>1, <2>3 DEF Leaves
  <2> QED BY <2>2, <2>3
<1>7. n \in EntryIds(e) /\ breakdown.entry[e][n].name = s /\ EntryText(e, n).id = n
  BY <1>1 DEF PullSlot, EntryText
<1>8. ASSUME NEW f \in Epics, NEW o, <<"file", o>> \notin RefsIn(f)
      PROVE  <<"file", o>> \notin RefsIn(f)'
  <2> DEFINE r == <<"file", o>>
             waits == UNION {breakdown.entry[f][m].after : m \in EntryIds(f)}
             written == UNION {leaf[f][m].after : m \in {q \in Leaves(f) : leaf[f][q].after # Nothing}}
  <2>1. r \notin gate[f] /\ r \notin waits /\ r \notin written
    BY <1>8 DEF RefsIn
  <2>2. r \notin gate'[f] /\ r \notin waits'
    BY <1>1, <1>4, <2>1
  <2>3. ASSUME NEW m \in Leaves(f)', leaf'[f][m].after # Nothing PROVE r \notin leaf'[f][m].after
    <3>1. CASE f = e /\ m = s /\ leaf'[f][m] = EntryText(e, n)
      <4>1. leaf'[f][m].after = {RefTo(b, e) : b \in Prerequisites(e, n)}
        <5>1. EntryText(e, n).after # Nothing
          BY <2>3, <3>1
        <5>2. EntryText(e, n).after = {RefTo(b, e) : b \in Prerequisites(e, n)}
          BY <5>1 DEF EntryText
        <5> QED BY <3>1, <5>2
      <4>2. ASSUME NEW b PROVE r # RefTo(b, e)
        <5>1. RefTo(b, e)[1] # "file"
          BY DEF RefTo
        <5>2. r[1] = "file"
          OBVIOUS
        <5> QED BY <5>1, <5>2
      <4>3. r \notin {RefTo(b, e) : b \in Prerequisites(e, n)}
        BY <4>2
      <4> QED BY <4>1, <4>3
    <3>2. CASE m \in Leaves(f) /\ leaf'[f][m] = leaf[f][m]
      BY <2>1, <2>3, <3>2
    <3> QED BY <1>6, <3>1, <3>2
  <2>4. r \notin written'
    BY <2>3
  <2>5. RefsIn(f)' = (gate[f] \cup waits \cup written)'
    BY DEF RefsIn
  <2> HIDE DEF waits, written
  <2> QED BY <2>2, <2>4, <2>5
<1>9. ASSUME NEW b \in Agents, Pulls(b)' PROVE PullFaithful(b)'
  <2>0. PICK f, o, m : f = cmd[b].key[1] /\ o = cmd[b].name /\ m = cmd[b].key[2]
    OBVIOUS
  <2>1. /\ Pulls(b) /\ PullFaithful(b) /\ PullSlot(b) /\ f \in Epics
        /\ cmd'[b].key[1] = f /\ cmd'[b].key[2] = m /\ cmd'[b].name = o
        /\ cmd'[b].text = cmd[b].text
    <3>1. Pulls(b) /\ PullFaithful(b) /\ PullSlot(b)
      BY <1>1, <1>2, <1>9 DEF TreeInv, PullSlots, PullsFaithful
    <3>2. f \in Epics
      BY <1>1, <2>0, <3>1, CommandTypes DEF Pulls
    <3> QED BY <1>2, <1>3, <1>9, <2>0, <3>1, <3>2
  <2>2. cmd[b].text = EntryText(f, m)'
    BY <1>5, <2>0, <2>1 DEF PullFaithful, PullSlot
  <2>3. ASSUME o \in Leaves(f)'
        PROVE  /\ leaf'[f][o].id \in EntryIds(f)
               /\ breakdown.entry[f][leaf'[f][o].id].name = o
               /\ leaf'[f][o] = EntryText(f, leaf'[f][o].id)
    <3>1. CASE f = e /\ o = s /\ leaf'[f][o] = EntryText(e, n)
      BY <1>7, <3>1
    <3>2. CASE o \in Leaves(f) /\ leaf'[f][o] = leaf[f][o]
      BY <2>0, <2>1, <3>2 DEF PullFaithful
    <3> QED BY <1>6, <2>1, <2>3, <3>1, <3>2
  <2>4. o \in Leaves(f)' => /\ leaf'[f][o].id \in EntryIds(f)'
                            /\ breakdown'.entry[f][leaf'[f][o].id].name = o
                            /\ leaf'[f][o] = EntryText(f, leaf[f][o].id)'
    BY <1>1, <1>4, <1>5, <2>1, <2>3
  <2>5. <<"file", o>> \notin RefsIn(f)'
    BY <1>8, <2>0, <2>1 DEF PullFaithful
  <2> QED BY <2>1, <2>2, <2>4, <2>5 DEF PullFaithful
<1>10. ASSUME NEW b \in Agents, Marks(b)' PROVE MarkOwns(b)'
  <2>0. PICK m : m = cmd[b].key
    OBVIOUS
  <2>1. /\ Marks(b) /\ MarkOwns(b) /\ m \in Tickets
        /\ cmd'[b].key = m /\ cmd'[b].name = cmd[b].name
    BY <1>2, <1>3, <1>10, <2>0 DEF CommandsInv, MarksOwn, MarkOwns
  <2>2. Tickets' = Tickets
    BY <1>1, PullReferences
  <2>3. Title(m)' = Title(m)
    <3>1. Entry(m)' = Entry(m)
      BY <1>1 DEF Entry
    <3>2. CASE m[1] = e /\ s \in FilesOf(m) \cup FilesOf(m)'
      <4>1. /\ m[2] \in Ids /\ FileOf(m) \in {s, Nothing} /\ FileOf(m)' \in {s, Nothing}
            /\ s \in FilesOf(m) \/ m[2] = n
        BY <1>1, <2>1, <3>2, PullFiles
      <4>2. s \in FilesOf(m) => s \in Leaves(e) /\ leaf[e][s].id = m[2]
        BY <3>2, <4>1 DEF FilesOf
      <4>3. breakdown.entry[e][m[2]].name = s
        BY <1>1, <1>7, <4>1, <4>2 DEF PullFaithful
      <4>4. Entry(m).name = s
        BY <3>2, <4>3 DEF Entry
      <4>5. Title(m) = s /\ Title(m)' = s
        BY <3>1, <4>1, <4>4 DEF Title
      <4> QED BY <4>5
    <3>3. CASE ~(m[1] = e /\ s \in FilesOf(m) \cup FilesOf(m)')
      BY <1>1, <2>1, <3>1, <3>3, PullFiles DEF Title
    <3> QED BY <3>2, <3>3
  <2>4. PlansOf(m)' = PlansOf(m)
    BY <1>1, <2>1, PullFiles
  <2>5. b # a
    BY <1>1, <1>2, <2>1, CommandTypes
  <2>6. cmd'[b] = cmd[b]
    BY <1>1, <2>5, PutsOneFile, OthersKept
  <2>7. \A c \in Agents : Marks(c)' => Marks(c) /\ cmd'[c].key = cmd[c].key /\ cmd'[c].name = cmd[c].name
    BY <1>2, <1>3
  <2> QED BY <1>1, <2>0, <2>1, <2>2, <2>3, <2>4, <2>6, <2>7 DEF MarkOwns
<1> QED BY <1>9, <1>10 DEF PullsFaithful, MarksOwn

LEMMA CommandsStep ==
  CommandsInv /\ PrerequisitesNamed /\ [Next]_vars =>
    /\ CommandsInv' /\ PrerequisitesNamed'
    /\ (~torn /\ Loads => Loads')
<1> SUFFICES ASSUME CommandsInv, PrerequisitesNamed, [Next]_vars
             PROVE  /\ (PullsFaithful /\ MarksOwn /\ PrerequisitesNamed)'
                    /\ (~torn /\ Loads => Loads')
  BY TreeInvStep DEF CommandsInv
<1>0. TreeInv /\ TypeOK /\ TypeOK' /\ PullsFaithful
  BY TreeTypeStep DEF CommandsInv, TreeInv
<1>1. ASSUME UNCHANGED <<breakdown, gate, leaf, plan>>
      PROVE  PrerequisitesNamed' /\ (Loads => Loads')
  <2>1. PrerequisitesNamed'
    BY <1>1, SameTexts
  <2>2. /\ Tickets' = Tickets
        /\ \A f : TicketsOf(f)' = TicketsOf(f)
        /\ \A k : FilesOf(k)' = FilesOf(k) /\ FileOf(k)' = FileOf(k)
        /\ \A f, r : Resolve(f, r)' = Resolve(f, r)
        /\ \A f, refs : ResolveAll(f, refs)' = ResolveAll(f, refs)
    BY <1>1, SameNames
  <2>3. \A k : /\ RawAfter(k)' = RawAfter(k) /\ EntryAfter(k)' = EntryAfter(k)
               /\ After(k)' = After(k)
    <3>1. \A k : LeafAfter(k)' = LeafAfter(k) /\ EntryAfter(k)' = EntryAfter(k)
      BY <1>1, <2>2 DEF LeafAfter, EntryAfter, Listed, Entry, EntryIds
    <3>2. \A k : RawAfter(k)' = RawAfter(k)
      BY <3>1 DEF RawAfter
    <3> QED BY <2>2, <3>1, <3>2 DEF After
  <2>4. \A k : PlansOf(k)' = PlansOf(k)
    BY <1>1, <2>2 DEF PlansOf, Plans
  <2>5. NamesResolve' <=> NamesResolve
    BY <1>1, <2>2, <2>3 DEF NamesResolve
  <2>6. Cyclic' <=> Cyclic
    <3>1. \A f \in Epics : GatedBy(f)' = GatedBy(f)
      BY <1>1, <2>2 DEF GatedBy
    <3> QED BY <2>2, <2>3, <3>1, CyclesKept
  <2>7. \A f \in Epics : FolderLoads(f)' <=> FolderLoads(f)
    BY <1>1, <2>2, <2>4 DEF FolderLoads, Plans
  <2> QED BY <2>1, <2>5, <2>6, <2>7 DEF Loads
<1>2. ASSUME UNCHANGED <<breakdown, gate, leaf, plan, torn>>,
             \A b \in Agents : cmd'[b] = cmd[b] \/ cmd'[b] = Idle
      PROVE  /\ (PullsFaithful /\ MarksOwn /\ PrerequisitesNamed)'
             /\ (~torn /\ Loads => Loads')
  BY <1>1, <1>2, EndingKeepsOwners
<1>3. CASE UNCHANGED vars
  BY <1>2, <1>3 DEF vars
<1>4. ASSUME NEW a \in Agents, MarkRead(a) \/ PullRead(a)
      PROVE  /\ (PullsFaithful /\ MarksOwn /\ PrerequisitesNamed)'
             /\ (~torn /\ Loads => Loads')
  <2>1. UNCHANGED <<breakdown, gate, leaf, plan>>
    BY <1>4 DEF MarkRead, PullRead, disk
  <2> QED BY <1>1, <1>4, <2>1, MarkReadsItsPlan, PullReadsFaithfully
<1>5. ASSUME NEW a \in Agents, Open(a) \/ Write(a)
      PROVE  /\ (PullsFaithful /\ MarksOwn /\ PrerequisitesNamed)'
             /\ (~torn /\ Loads => Loads')
  <2>1. torn' = torn
    BY <1>5 DEF Open, Write
  <2>2. CASE Marks(a)
    <3>1. UNCHANGED <<breakdown, gate, leaf>>
      BY <1>0, <1>5, <2>2, MarkPuts DEF Open, Write
    <3> QED BY <1>5, <2>1, <2>2, <3>1, SameTexts, MarkPutsKeepOwners, MarkKeepsLoads
  <2>3. CASE Pulls(a)
    BY <1>0, <1>5, <2>3, PullPutsKeepOwners, PullAfter, PullKeepsLoads
  <2> QED BY <1>0, <1>5, <2>2, <2>3, PutsOneFile, CommandTypes
<1>6. ASSUME NEW a \in Agents, OpenRefused(a) \/ Crash(a)
      PROVE  /\ (PullsFaithful /\ MarksOwn /\ PrerequisitesNamed)'
             /\ (~torn /\ Loads => Loads')
  <2>1. UNCHANGED <<breakdown, gate, leaf, plan, torn>> /\ cmd' = [cmd EXCEPT ![a] = Idle]
    BY <1>6 DEF OpenRefused, Crash, disk
  <2>2. \A b \in Agents : cmd'[b] = cmd[b] \/ cmd'[b] = Idle
    BY <1>0, <2>1, OthersKept
  <2> QED BY <1>2, <2>1, <2>2
<1>7. ASSUME NEW e \in Epics, NEW s \in ContainerStatuses, SetContainer(e, s)
      PROVE  /\ (PullsFaithful /\ MarksOwn /\ PrerequisitesNamed)'
             /\ (~torn /\ Loads => Loads')
  BY <1>2, <1>7 DEF SetContainer
<1> QED BY <1>3, <1>4, <1>5, <1>6, <1>7 DEF Next

LEMMA CommandsInit == Init => CommandsInv
<1> SUFFICES ASSUME Init PROVE CommandsInv
  OBVIOUS
<1>1. \A a \in Agents : ~Marks(a) /\ ~Pulls(a)
  BY DEF Init, Idle, Busy, Marks, Pulls
<1> QED BY <1>1, TreeInvInit DEF CommandsInv, PullsFaithful, MarksOwn

\* What a pull writes is what its entry says, and a mark's plan, unless a command read
\* past a file that lay empty, the only one of its ticket: in every reachable state, if
\* what the entries wait for can be written back, as it can unless an entry names a
\* leaf file that has no id.
THEOREM CommandsKnowTheTree ==
  Spec /\ PrerequisitesNamed => [](CommandsInv /\ PrerequisitesNamed)
BY CommandsInit, CommandsStep, PTL DEF Spec

\* While no command has read the tree past a file that lay empty, a tree that loads
\* goes on loading, however the commands interleave and wherever they die.
THEOREM OnlyTornReadsBreakTrees == Spec /\ PrerequisitesNamed => OnlyTornReadsBreak
<1>1. CommandsInv /\ PrerequisitesNamed /\ [Next]_vars => [~torn /\ Loads => Loads']_vars
  BY CommandsStep
<1> QED BY <1>1, CommandsKnowTheTree, PTL DEF Spec, OnlyTornReadsBreak
-----------------------------------------------------------------------------
(* What next and status answer once a leaf file is pulled.                 *)

\* A pulled ticket moves from planned to backlog, no other moves at all, and what
\* else a row is made of stays.
LEMMA PullStates ==
  ASSUME TreeInv, PullsFaithful, NEW a \in Agents, Pulls(a), Open(a) \/ Write(a),
         NEW k \in Tickets
  PROVE  /\ State(k)' = State(k) \/ {State(k), State(k)'} \subseteq {"planned", "backlog"}
         /\ Flagged(k)' <=> Flagged(k)
         /\ Refine(k)' = Refine(k)
         /\ Refined(k)' = Refined(k)
<1>0. PICK e, s, n : e = cmd[a].key[1] /\ s = cmd[a].name /\ n = cmd[a].key[2]
  OBVIOUS
<1> USE <1>0
<1>1. /\ TypeOK /\ plan' = plan /\ breakdown' = breakdown
      /\ leaf'[e][s] = IF Open(a) THEN Blank ELSE cmd[a].text
      /\ PullFaithful(a)
  BY PullPuts, PutsOneFile DEF TreeInv, PullsFaithful
<1>2. Status(k)' = Status(k) /\ PlansOf(k)' = PlansOf(k)
  BY PullChangesNoStatus, PullFiles
<1>3. PlansOf(k) # {} => PlanOf(k)' = PlanOf(k)
  BY <1>1, <1>2 DEF PlanOf
<1>4. Refine(k)' = Refine(k)
  BY <1>1 DEF Refine, Listed, Entry, EntryIds
<1>5. CASE k[1] = e /\ s \in FilesOf(k) \cup FilesOf(k)'
  <2>1. FileOf(k) \in {s, Nothing} /\ FileOf(k)' \in {s, Nothing}
    BY <1>5, PullFiles
  <2>2. \A f, m : /\ EntryText(f, m).tracker = "" /\ EntryText(f, m).refined = FALSE
                  /\ EntryText(f, m).status = "" /\ EntryText(f, m).blocked = FALSE
    BY DEF EntryText
  <2>3. FileOf(k) # Nothing => /\ leaf[k[1]][FileOf(k)].tracker = ""
                               /\ leaf[k[1]][FileOf(k)].refined = FALSE
                               /\ leaf[k[1]][FileOf(k)].status = ""
                               /\ leaf[k[1]][FileOf(k)].blocked = FALSE
    <3>1. FileOf(k) # Nothing => s \in Leaves(e) /\ FileOf(k) = s
      BY <1>5, <2>1, FileOfTypes
    <3>2. s \in Leaves(e) => \E m : leaf[e][s] = EntryText(e, m)
      BY <1>1 DEF PullFaithful
    <3> QED BY <1>5, <2>2, <3>1, <3>2
  <2>4. FileOf(k)' # Nothing => /\ leaf'[k[1]][FileOf(k)'].tracker = ""
                                /\ leaf'[k[1]][FileOf(k)'].refined = FALSE
                                /\ leaf'[k[1]][FileOf(k)'].status = ""
                                /\ leaf'[k[1]][FileOf(k)'].blocked = FALSE
    <3>1. FileOf(k)' # Nothing => FileOf(k)' \in FilesOf(k)'
      BY DEF FileOf
    <3>2. FilesOf(k)' \subseteq Leaves(k[1])'
      BY DEF FilesOf
    <3>3. s \in Leaves(e)' => leaf'[e][s] = EntryText(e, n)
      BY <1>1 DEF Leaves, IsFile, PullFaithful
    <3>4. FileOf(k)' # Nothing => FileOf(k)' = s /\ leaf'[e][s] = EntryText(e, n)
      BY <1>5, <2>1, <3>1, <3>2, <3>3
    <3>5. /\ EntryText(e, n).tracker = "" /\ EntryText(e, n).refined = FALSE
          /\ EntryText(e, n).status = "" /\ EntryText(e, n).blocked = FALSE
      BY <2>2
    <3>6. FileOf(k)' # Nothing => leaf'[k[1]][FileOf(k)'] = EntryText(e, n)
      BY <1>5, <3>4
    <3> QED BY <3>5, <3>6
  <2>5. Refined(k) = FALSE /\ Refined(k)' = FALSE
    BY <2>3, <2>4 DEF Refined
  <2>6. Tracker(k) = "" /\ Tracker(k)' = ""
    BY <2>3, <2>4 DEF Tracker
  <2>7. Flagged(k)' <=> Flagged(k)
    <3>1. CASE PlansOf(k) # {}
      BY <1>2, <1>3, <3>1 DEF Flagged
    <3>2. CASE PlansOf(k) = {}
      BY <1>2, <2>3, <2>4, <3>2 DEF Flagged
    <3> QED BY <3>1, <3>2
  <2>8. CASE PlansOf(k) # {}
    <3>1. State(k) = StateOf(Status(k))
      BY <2>6, <2>8 DEF State
    <3>2. State(k)' = StateOf(Status(k)')
      BY <1>2, <2>6, <2>8 DEF State, StateOf
    <3> QED BY <1>2, <1>4, <2>5, <2>7, <3>1, <3>2
  <2>9. CASE PlansOf(k) = {}
    <3>1. Status(k) = "" /\ Status(k)' = "" /\ StateOf("") = "backlog"
      BY <1>2, <2>3, <2>4, <2>9 DEF Status, StateOf
    <3>2. State(k) \in {"planned", "backlog"}
      BY <2>6, <2>9, <3>1 DEF State
    <3>3. State(k)' \in {"planned", "backlog"}
      BY <1>2, <2>6, <2>9, <3>1 DEF State, StateOf
    <3> QED BY <1>4, <2>5, <2>7, <3>2, <3>3
  <2> QED BY <2>8, <2>9
<1>6. CASE ~(k[1] = e /\ s \in FilesOf(k) \cup FilesOf(k)')
  <2>1. /\ FileOf(k)' = FileOf(k)
        /\ FileOf(k) # Nothing => leaf'[k[1]][FileOf(k)] = leaf[k[1]][FileOf(k)]
    BY <1>6, PullFiles
  <2>2. Refined(k)' = Refined(k)
    <3>1. CASE FileOf(k) = Nothing
      BY <2>1, <3>1 DEF Refined
    <3>2. CASE FileOf(k) # Nothing
      BY <2>1, <3>2 DEF Refined
    <3> QED BY <3>1, <3>2
  <2>3. Tracker(k)' = Tracker(k)
    BY <2>1 DEF Tracker
  <2>4. State(k)' = State(k)
    BY <1>2, <2>1, <2>3 DEF State, StateOf
  <2>5. Flagged(k)' <=> Flagged(k)
    <3>1. CASE PlansOf(k) # {}
      BY <1>2, <1>3, <3>1 DEF Flagged
    <3>2. CASE PlansOf(k) = {}
      BY <1>2, <2>1, <3>2 DEF Flagged
    <3> QED BY <3>1, <3>2
  <2> QED BY <1>4, <2>2, <2>4, <2>5
<1> QED BY <1>5, <1>6

\* So every ticket keeps its group.
LEMMA PullGroups ==
  ASSUME TreeInv, TypeOK', PullsFaithful, PrerequisitesNamed,
         NEW a \in Agents, Pulls(a), Open(a) \/ Write(a)
  PROVE  /\ Done' = Done /\ Remaining' = Remaining
         /\ \A k \in Tickets : Group(k)' = Group(k)
<1>1. /\ Tickets' = Tickets /\ \A k \in Tickets : After(k)' = After(k)
      /\ \A k \in Tickets : GatedBy(k[1])' = GatedBy(k[1])
  BY PullReferences, PullAfter, PullPrerequisites, TicketEpic
<1>2. \A k \in Tickets :
        /\ State(k)' = State(k) \/ {State(k), State(k)'} \subseteq {"planned", "backlog"}
        /\ Flagged(k)' <=> Flagged(k)
        /\ Refine(k)' = Refine(k)
        /\ Refined(k)' = Refined(k)
  BY PullStates
<1>3. \A k \in Tickets : \A x \in {"done", "dropped", "review", "in-progress"} :
        State(k)' = x <=> State(k) = x
  BY <1>2
<1>4. Done' = Done /\ Met' = Met /\ Remaining' = Remaining
  <2>1. container' = container
    BY DEF Open, Write
  <2>2. Done' = Done
    BY <1>1, <1>3, <2>1 DEF Done
  <2>3. Met' = Met
    BY <1>1, <1>3, <2>2 DEF Met
  <2>4. Remaining' = Remaining
    BY <1>1, <1>3 DEF Remaining
  <2> QED BY <2>2, <2>3, <2>4
<1>5. ASSUME NEW k \in Tickets PROVE Group(k)' = Group(k)
  <2>1. /\ (After(k) \subseteq Met /\ GatedBy(k[1]) \subseteq Done)'
             <=> (After(k) \subseteq Met /\ GatedBy(k[1]) \subseteq Done)
        /\ (Refine(k) /\ ~Refined(k))' <=> (Refine(k) /\ ~Refined(k))
        /\ Flagged(k)' <=> Flagged(k)
    BY <1>1, <1>2, <1>4
  <2>2. CASE State(k)' = State(k)
    BY <2>1, <2>2 DEF Group
  <2>3. CASE State(k) \in {"planned", "backlog"} /\ State(k)' \in {"planned", "backlog"}
    BY <2>1, <2>3 DEF Group
  <2> QED BY <1>2, <2>2, <2>3
<1> QED BY <1>4, <1>5

\* next and status answer the same.
LEMMA PullAnswers ==
  ASSUME TreeInv, TypeOK', PullsFaithful, PrerequisitesNamed,
         NEW a \in Agents, Pulls(a), Open(a) \/ Write(a)
  PROVE  /\ NextAnswer(Nothing)' = NextAnswer(Nothing)
         /\ StatusAnswer(Nothing)' = StatusAnswer(Nothing)
<1>1. /\ Tickets' = Tickets /\ \A f \in Epics : TicketsOf(f)' = TicketsOf(f)
      /\ \A k \in Tickets : After(k)' = After(k)
      /\ \A f \in Epics : GatedBy(f)' = GatedBy(f)
      /\ \A k \in Tickets : k[1] \in Epics
      /\ breakdown' = breakdown /\ TypeOK
  BY PullReferences, PullAfter, PullPrerequisites, TicketEpic DEF TreeInv
<1>2. Done' = Done /\ Remaining' = Remaining /\ \A k \in Tickets : Group(k)' = Group(k)
  BY PullGroups
<1>3. InScope(Nothing) = Tickets /\ InScope(Nothing)' = Tickets
  BY <1>1 DEF InScope
<1>4. ASSUME NEW k \in Tickets PROVE Row(k)' = Row(k)
  <2>1. {RefTo(b, k[1]) : b \in After(k)}' = {RefTo(b, k[1]) : b \in After(k)}
    BY <1>1 DEF RefTo
  <2>2. GatedBy(k[1])' = GatedBy(k[1]) /\ Refine(k)' = Refine(k) /\ Refined(k)' = Refined(k)
    BY <1>1, PullStates
  <2> QED BY <2>1, <2>2 DEF Row
<1>5. UnpinnedAfter(Nothing)' = UnpinnedAfter(Nothing)
  <2>1. breakdown.listed \subseteq Epics
    BY <1>1 DEF TypeOK, Breakdown
  <2>2. ASSUME NEW f \in Epics
        PROVE  \A k \in TicketsOf(f) :
                 After(k)' \cup GatedBy(f)' = After(k) \cup GatedBy(f)
    BY <1>1 DEF Tickets
  <2> QED BY <1>1, <2>1, <2>2 DEF UnpinnedAfter
<1>6. NextAnswer(Nothing)' = NextAnswer(Nothing)
  <2>1. [k \in InScope(Nothing) |-> [group |-> Group(k), row |-> Row(k)]]'
          = [k \in InScope(Nothing) |-> [group |-> Group(k), row |-> Row(k)]]
    BY <1>2, <1>3, <1>4
  <2> QED BY <1>5, <2>1 DEF NextAnswer
<1>7. LongestRemainingChain(Nothing)' = LongestRemainingChain(Nothing)
  <2>1. \A k \in Remaining : Ahead(k)' = Ahead(k)
    BY <1>1, <1>2 DEF Ahead, Remaining
  <2>2. [k \in Remaining |-> Ahead(k)]' = [k \in Remaining |-> Ahead(k)]
    BY <1>2, <2>1
  <2>3. (Remaining \cap InScope(Nothing))' = Remaining \cap InScope(Nothing)
    BY <1>2, <1>3
  <2> QED BY <1>2, <2>2, <2>3 DEF LongestRemainingChain
<1>8. StatusAnswer(Nothing)' = StatusAnswer(Nothing)
  <2>1. [x \in Tickets \cup EpicKeys |-> {k \in Tickets : x \in After(k)}]'
          = [x \in Tickets \cup EpicKeys |-> {k \in Tickets : x \in After(k)}]
    BY <1>1 DEF EpicKeys
  <2>2. Cardinality(InScope(Nothing))' = Cardinality(InScope(Nothing))
    BY <1>3
  <2> QED BY <1>7, <2>1, <2>2 DEF StatusAnswer
<1> QED BY <1>6, <1>8

\* A pulled leaf says what its entry says, whoever's pull it is that makes the step.
LEMMA PullNoDrift ==
  ASSUME TreeInv, TypeOK', PullsFaithful, PrerequisitesNamed,
         NEW a \in Agents, Pulls(a), NEW k \in Tickets, cmd[a].key = k,
         NEW b \in Agents, Pulls(b), Open(b) \/ Write(b)
  PROVE  ~Drift(k)'
<1>0. PICK e, n, s, o : /\ e = k[1] /\ n = k[2] /\ s = cmd[a].name /\ o = cmd[b].name
  OBVIOUS
<1>1. /\ TypeOK /\ PullSlot(a) /\ PullFaithful(a) /\ PullFaithful(b)
      /\ UNCHANGED <<breakdown, gate>> /\ Tickets' = Tickets
      /\ leaf'[cmd[b].key[1]][o] = IF Open(b) THEN Blank ELSE cmd[b].text
  BY <1>0, PullPuts, PullReferences DEF TreeInv, PullSlots, PullsFaithful
<1>2. e \in Epics /\ n \in Ids /\ n \in EntryIds(e) /\ EntryIds(e)' = EntryIds(e)
  <2>1. n \in EntryIds(e) /\ e \in Epics
    BY <1>0, <1>1, TicketTypes DEF PullSlot
  <2> QED BY <1>1, <2>1, FileTypes DEF EntryIds
<1>3. EntriesAgree'
  <2>1. (TypeOK /\ PrerequisitesNamed => EntriesAgree)'
    BY EntryOrFile, PTL
  <2>2. PrerequisitesNamed'
    BY PullAfter
  <2> QED BY <2>1, <2>2
<1>4. EntryText(e, n)' = EntryText(e, n)
  BY <1>2, PullPrerequisites
<1>5. FileOf(k)' # Nothing => leaf'[e][FileOf(k)'] = EntryText(e, n)
  <2>1. SUFFICES ASSUME FileOf(k)' # Nothing PROVE leaf'[e][FileOf(k)'] = EntryText(e, n)
    OBVIOUS
  <2>2. CASE e = cmd[b].key[1] /\ o \in FilesOf(k) \cup FilesOf(k)'
    <3>1. FileOf(k)' = o
      BY <1>0, <2>1, <2>2, PullFiles
    <3>2. FileOf(k)' \in FilesOf(k)'
      BY <2>1 DEF FileOf
    <3>3. o \in Leaves(e)' /\ leaf'[e][o].id = n
      BY <1>0, <1>2, <3>1, <3>2 DEF FilesOf
    <3>4. leaf'[e][o] = EntryText(e, cmd[b].key[2])
      BY <1>1, <2>2, <3>3 DEF Leaves, IsFile, PullFaithful
    <3>5. \A m : EntryText(e, m).id = m
      BY DEF EntryText
    <3>6. cmd[b].key[2] = n
      BY <3>3, <3>4, <3>5
    <3> QED BY <3>1, <3>4, <3>6
  <2>3. CASE ~(e = cmd[b].key[1] /\ o \in FilesOf(k) \cup FilesOf(k)')
    <3>1. FileOf(k)' = FileOf(k) /\ leaf'[e][FileOf(k)] = leaf[e][FileOf(k)]
      BY <1>0, <2>1, <2>3, PullFiles
    <3>2. FileOf(k) \in Leaves(e) /\ leaf[e][FileOf(k)].id = n
      BY <1>0, <1>2, <2>1, <3>1, FileOfTypes DEF FilesOf
    <3>3. FileOf(k) = s
      BY <1>0, <1>1, <3>2 DEF PullSlot
    <3> QED BY <1>0, <1>1, <3>1, <3>2, <3>3 DEF PullFaithful
  <2> QED BY <2>2, <2>3
<1>6. After(k)' = Prerequisites(e, n)'
  <2>1. k \in Tickets'
    BY <1>1
  <2> QED BY <1>0, <1>2, <1>3, <1>4, <1>5, <2>1 DEF EntriesAgree
<1>7. Listed(k)' => ResolveAll(k[1], EntryAfter(k))' = Prerequisites(e, n)'
  BY <1>0 DEF EntryAfter, Entry, Prerequisites
<1> QED BY <1>6, <1>7 DEF Drift

\* The file a pull writes says what the entry said: no drift is reported, and next,
\* for all the tickets, and status, but for the states, answer as before, whatever
\* else is under way.
THEOREM PullsKeepAnswers == Spec /\ PrerequisitesNamed => PullKeepsAnswer
<1>1. CommandsInv /\ PrerequisitesNamed /\ [Next]_vars =>
        [\A a \in Agents, k \in Tickets :
           (cmd[a].pc = "write" /\ cmd[a].does = "pull" /\ cmd[a].key = k /\ leaf' # leaf) =>
             /\ ~Drift(k)'
             /\ Answers => /\ NextAnswer(Nothing)' = NextAnswer(Nothing)
                           /\ StatusAnswer(Nothing)' = StatusAnswer(Nothing)]_vars
  <2> SUFFICES ASSUME CommandsInv, PrerequisitesNamed, [Next]_vars,
                      NEW a \in Agents, NEW k \in Tickets,
                      cmd[a].pc = "write", cmd[a].does = "pull", cmd[a].key = k, leaf' # leaf
               PROVE  /\ ~Drift(k)'
                      /\ NextAnswer(Nothing)' = NextAnswer(Nothing)
                      /\ StatusAnswer(Nothing)' = StatusAnswer(Nothing)
    OBVIOUS
  <2>1. TreeInv /\ TypeOK /\ TypeOK' /\ PullsFaithful /\ Pulls(a)
    BY TreeTypeStep DEF CommandsInv, TreeInv, Pulls, Busy
  <2>2. PICK b \in Agents : Open(b) \/ Write(b)
    BY DEF Next, vars, disk, MarkRead, PullRead, OpenRefused, Crash, SetContainer
  <2>3. Pulls(b)
    <3>1. Marks(b) => leaf' = leaf
      BY <2>1, <2>2, MarkPuts
    <3> QED BY <2>1, <2>2, <3>1, PutsOneFile, CommandTypes
  <2> QED BY <2>1, <2>2, <2>3, PullNoDrift, PullAnswers
<1> QED BY <1>1, CommandsKnowTheTree, PTL DEF Spec, PullKeepsAnswer
=============================================================================
