----------------------------- MODULE PartyRoster -----------------------------
(***************************************************************************)
(* Who is in the room: roster.py collects the people the installed modules *)
(* offer, and resolve_party.py and resolve_personas.py each register them  *)
(* and the user's own, one by one, in an index from every word a person    *)
(* may be called by to a code.  What a word means depends on who came      *)
(* before, and the two programs keep different rules.                      *)
(*                                                                         *)
(* A person is [code, name, skill], any of which may be Nothing; a group is *)
(* [id, members], members the words that name them.                        *)
(***************************************************************************)
EXTENDS Naturals, FiniteSets, Sequences, Lists

CONSTANTS
  Worlds,      \* what the programs find: see WorldsAreTyped
  Words,       \* codes, names, skills and what is made of them
  Lower,       \* [words -> the word in lower case]
  PartyAlias,  \* [codes -> what follows "-agent-" or "bmad-"]
  ForgeAlias,  \* [codes -> what follows "bmad-agent-" or "bmad-"]
  Nothing

Person == [code : Words \cup {Nothing}, name : Words \cup {Nothing}, skill : Words \cup {Nothing}]

\* Whom a resolver registers.
Entry == [code : Words, name : Words \cup {Nothing}, kind : {"agent", "guest", "custom"}]

\* A table of the configuration has a key for each person.
Keyed == [code : Words, name : Words \cup {Nothing}, skill : Words \cup {Nothing}]

ASSUME NothingIsNone == Nothing \notin Words /\ Nothing \notin Seq(Entry)

ASSUME WordsAssumption ==
  /\ Lower \in [Words -> Words] /\ \A w \in Words : Lower[Lower[w]] = Lower[w]
  /\ PartyAlias \in [Words -> Words] /\ ForgeAlias \in [Words -> Words]

\* Layers are what is shipped, what the team keeps and what the user keeps.
ASSUME WorldsAreTyped ==
  \A w \in Worlds :
    /\ w.rosters \in Seq(Person) /\ w.skills \in SUBSET Words
    /\ w.identity \in [Words -> Words \cup {Nothing}]
    /\ w.central \in [1..3 -> Seq(Keyed)] /\ w.customs \in [1..3 -> Seq(Person)]
    /\ w.ran \in BOOLEAN /\ w.found \in BOOLEAN
    /\ \A i \in DOMAIN w.groups : w.groups[i].members \in SUBSET Words
    /\ \A g \in w.customGroups : g.members \in SUBSET Words

VARIABLES
  world,   \* the rosters in the order of their files, the installed skills, the configuration
  feed,    \* the roster members still to read
  members, \* those read, in order
  agents,  \* the people of the default room, in order, as roster.py reports them, or Nothing yet
  central, \* the [agents] tables still to apply
  queue,   \* [resolver -> the people still to register], Nothing until they are known
  pool,    \* [resolver -> [code -> name]]
  index,   \* [resolver -> [word -> code]]
  owner,   \* [alias -> the code that claims it, or Nothing once two do], in party mode
  called   \* history: [resolver -> the codes and names registered, in order]

vars == <<world, feed, members, agents, central, queue, pool, index, owner, called>>

Resolvers == {"party", "forge"}
Codes(people) == {people[i].code : i \in DOMAIN people}
Named(p) == IF p.name = Nothing THEN p.code ELSE p.name

\* Dictionaries.
Empty == [w \in {} |-> Nothing]
Put(f, w, c) == [x \in DOMAIN f \cup {w} |-> IF x = w THEN c ELSE f[x]]
SetDefault(f, w, c) == IF w \in DOMAIN f THEN f ELSE Put(f, w, c)
Without(f, w) == [x \in DOMAIN f \ {w} |-> f[x]]

\* The people of a list who have a code.
Coded(people) == Kept(people, {i \in DOMAIN people : people[i].code # Nothing})

IsFirst(people, i) == \A j \in 1..(i - 1) : people[j].code # people[i].code
IsLast(people, i) == \A j \in DOMAIN people : people[j].code = people[i].code => j <= i
Latest(people, code) ==
  people[CHOOSE i \in DOMAIN people : people[i].code = code /\ IsLast(people, i)]

-----------------------------------------------------------------------------
(* Layers of configuration.                                                *)

\* Lists whose items all have a code are merged by it, an override in the place of
\* the item it replaces; other lists are appended.
MergeArrays(base, over) ==
  IF Nothing \in Codes(base) \cup Codes(over) THEN base \o over
  ELSE LET new == Kept(over, {i \in DOMAIN over : over[i].code \notin Codes(base) /\ IsFirst(over, i)})
       IN [i \in DOMAIN base |->
             IF base[i].code \in Codes(over) /\ IsLast(base, i) THEN Latest(over, base[i].code) ELSE base[i]]
          \o [k \in DOMAIN new |-> Latest(over, new[k].code)]

\* Tables are merged field by field.
MergeTables(base, over) ==
  [i \in DOMAIN base |->
     IF base[i].code \in Codes(over) /\ Latest(over, base[i].code).name # Nothing
     THEN [base[i] EXCEPT !.name = Latest(over, base[i].code).name] ELSE base[i]]
  \o Kept(over, {i \in DOMAIN over : over[i].code \notin Codes(base)})

MergedArrays(layers) == MergeArrays(MergeArrays(layers[1], layers[2]), layers[3])
MergedTables(layers) == MergeTables(MergeTables(layers[1], layers[2]), layers[3])

\* Mutant: the forge never looks for party mode.
CustomsOwn(r) ==
  Coded(IF r = "party" THEN MergedArrays(world.customs) ELSE world.customs[2] \o world.customs[3])

\* The forge reads the user's own files, and appends, when party mode is not there.
Customs(r) ==
  Coded(IF r = "party" \/ world.found THEN MergedArrays(world.customs)
        ELSE world.customs[2] \o world.customs[3])

-----------------------------------------------------------------------------
(* roster.py.                                                              *)

\* An installed agent answers to the name its customization gives it.
Identity(m) ==
  IF m.skill \in world.skills /\ world.identity[m.skill] # Nothing
  THEN world.identity[m.skill] ELSE Named(m)

\* The first member with a code is kept; one without a code is a problem.
AddMember ==
  /\ feed # <<>>
  /\ feed' = Tail(feed)
  /\ members' = IF Head(feed).code \in Codes(members) \cup {Nothing} THEN members
                ELSE Append(members, [Head(feed) EXCEPT !.name = Identity(Head(feed))])
  /\ UNCHANGED <<world, agents, central, queue, pool, index, owner, called>>

IsAbsent(m) == m.skill # Nothing /\ m.skill \notin world.skills
Installed == Kept(members, {i \in DOMAIN members : members[i].skill \in world.skills})

ReadAgents ==
  /\ feed = <<>> /\ agents = Nothing
  /\ agents' = Installed
  /\ UNCHANGED <<world, feed, members, central, queue, pool, index, owner, called>>

\* Mutant: an entry an older install recorded counts though the skill is gone.
Gone(code) == \E i \in DOMAIN members : members[i].code = code /\ IsAbsent(members[i])
NeverGone(code) == FALSE
Skipped(code) == Gone(code)

\* A roster agent keeps its name; any other entry is an agent of the user's.
ApplyCentral ==
  /\ agents # Nothing /\ central # <<>> /\ world.ran
  /\ central' = Tail(central)
  /\ agents' = IF Skipped(Head(central).code) \/ Head(central).code \in Codes(agents) THEN agents
               ELSE Append(agents, [Head(central) EXCEPT !.name = Named(Head(central))])
  /\ UNCHANGED <<world, feed, members, queue, pool, index, owner, called>>

\* Without an answer of roster.py the [agents] tables are the room.
Agents == IF world.ran THEN agents ELSE MergedTables(world.central)
Guests ==
  IF world.ran THEN Kept(members, {i \in DOMAIN members : members[i].code \notin Codes(agents)}) ELSE <<>>

Tagged(people, kind) ==
  [i \in DOMAIN people |-> [code |-> people[i].code, name |-> people[i].name, kind |-> kind]]

Everyone(r) ==
  Tagged(Agents, "agent") \o Tagged(Guests, "guest") \o Tagged(Customs(r), "custom")

Load(r) ==
  /\ queue[r] = Nothing
  /\ agents # Nothing /\ (world.ran => central = <<>>)
  /\ queue' = [queue EXCEPT ![r] = Everyone(r)]
  /\ UNCHANGED <<world, feed, members, agents, central, pool, index, owner, called>>

-----------------------------------------------------------------------------
(* Registration.                                                           *)

\* A custom member is the one its code, or the code in lower case, resolves to.
Canonical(r, code) ==
  CASE code \in DOMAIN index[r] -> index[r][code]
    [] code \notin DOMAIN index[r] /\ Lower[code] \in DOMAIN index[r] -> index[r][Lower[code]]
    [] OTHER -> code

\* An alias two codes claim resolves to neither, unless it is the code of one; a
\* name resolves to the last who has it.
Claimed(code) ==
  LET alias == Lower[PartyAlias[code]] IN IF alias \in DOMAIN owner THEN owner[alias] ELSE code

\* Mutant: the second claim of an alias is not remembered.
ClaimsForgotten(code) == Put(owner, Lower[PartyAlias[code]], code)
Claims(code) == Put(owner, Lower[PartyAlias[code]], IF Claimed(code) = code THEN code ELSE Nothing)

\* The code, in its own case and in lower case.
ByCode(f, code) == Put(Put(f, code, code), Lower[code], code)

Dropped(coded, code) ==
  LET alias == Lower[PartyAlias[code]]
  IN /\ Claimed(code) \notin {code, Nothing} /\ alias # Lower[Claimed(code)]
     /\ alias \in DOMAIN coded /\ coded[alias] = Claimed(code)

Aliased(coded, code) ==
  IF Claimed(code) = code THEN SetDefault(coded, Lower[PartyAlias[code]], code)
  ELSE IF Dropped(coded, code) THEN Without(coded, Lower[PartyAlias[code]]) ELSE coded

PartyIndex(code, name) == Put(Aliased(ByCode(index["party"], code), code), Lower[name], code)

\* Mutant: the last who has a name takes it.
ForgeIndexLast(code, name) ==
  Put(Put(ByCode(index["forge"], code), Lower[ForgeAlias[code]], code), Lower[name], code)

\* The last claim of an alias holds, and the first of a name.
ForgeIndex(code, name) ==
  SetDefault(Put(ByCode(index["forge"], code), Lower[ForgeAlias[code]], code), Lower[name], code)

Canonized(r, p) == IF p.kind = "custom" THEN Canonical(r, p.code) ELSE p.code
NameKept(r, p) ==
  CASE p.name # Nothing -> p.name
    [] p.name = Nothing /\ p.kind = "custom" /\ Canonized(r, p) \in DOMAIN pool[r] -> pool[r][Canonized(r, p)]
    [] OTHER -> Canonized(r, p)

Register(r) ==
  /\ queue[r] \notin {Nothing, <<>>}
  /\ LET code == Canonized(r, Head(queue[r]))
         name == NameKept(r, Head(queue[r]))
     IN /\ pool' = [pool EXCEPT ![r] = Put(pool[r], code, name)]
        /\ called' = [called EXCEPT ![r] = Append(called[r], [code |-> code, name |-> name])]
        /\ index' = [index EXCEPT ![r] = IF r = "party" THEN PartyIndex(code, name) ELSE ForgeIndex(code, name)]
        /\ owner' = IF r = "party" THEN Claims(code) ELSE owner
  /\ queue' = [queue EXCEPT ![r] = Tail(queue[r])]
  /\ UNCHANGED <<world, feed, members, agents, central>>

Init ==
  /\ world \in Worlds
  /\ feed = (IF world.ran THEN world.rosters ELSE <<>>)
  /\ members = <<>> /\ agents = Nothing /\ central = MergedTables(world.central)
  /\ queue = [r \in Resolvers |-> Nothing]
  /\ pool = [r \in Resolvers |-> Empty] /\ index = [r \in Resolvers |-> Empty]
  /\ owner = Empty /\ called = [r \in Resolvers |-> <<>>]

Next == AddMember \/ ReadAgents \/ ApplyCentral \/ \E r \in Resolvers : Load(r) \/ Register(r)

Spec == Init /\ [][Next]_vars

-----------------------------------------------------------------------------
(* Groups.                                                                 *)

\* The first roster group with an id is kept; the user's replaces it.
RosterGroups ==
  {world.groups[i] : i \in {k \in DOMAIN world.groups :
                              \A j \in 1..(k - 1) : world.groups[j].id # world.groups[k].id}}
Groups ==
  world.customGroups
    \cup {g \in RosterGroups : world.ran /\ \A c \in world.customGroups : c.id # g.id}

\* Whom a word of a group seats, if anybody.
Seated(r, w) ==
  IF {w, Lower[w]} \cap DOMAIN index[r] = {} THEN {} ELSE {Canonical(r, w)} \cap DOMAIN pool[r]

-----------------------------------------------------------------------------
(* Properties.                                                             *)

IsDict(f, S) == DOMAIN f \subseteq Words /\ f \in [DOMAIN f -> S]

\* Types.
TypeOK ==
  /\ world \in Worlds /\ feed \in Seq(Person) /\ members \in Seq(Keyed) /\ central \in Seq(Keyed)
  /\ agents # Nothing => agents \in Seq(Keyed)
  /\ DOMAIN queue = Resolvers /\ \A r \in Resolvers : queue[r] # Nothing => queue[r] \in Seq(Entry)
  /\ called \in [Resolvers -> Seq([code : Words, name : Words])]
  /\ DOMAIN pool = Resolvers /\ \A r \in Resolvers : IsDict(pool[r], Words)
  /\ DOMAIN index = Resolvers /\ \A r \in Resolvers : IsDict(index[r], Words)
  /\ IsDict(owner, Words \cup {Nothing})

Ready(r) == queue[r] = <<>>
Room == Codes(Agents)
Names(r, c) == {Lower[called[r][k].name] : k \in {j \in DOMAIN called[r] : called[r][j].code = c}}
CalledBy(r, w) == {c \in DOMAIN pool[r] : w \in Names(r, c)}

\* In party mode a member's full code summons it, whatever aliases are contested
\* and whoever was registered or overridden later, unless it is somebody's name, or
\* another's code in lower case, which takes the word whoever comes first;
\* and a short alias two codes claim resolves to neither, however many claim it and
\* in any order, unless it is a whole code or a name.
WordsSummon ==
  /\ \A c \in DOMAIN pool["party"] :
       \/ c \in DOMAIN index["party"] /\ index["party"][c] = c
       \/ CalledBy("party", c) \ {c} # {}
       \/ \E d \in DOMAIN pool["party"] \ {c} : Lower[d] = c
  /\ \A w \in DOMAIN index["party"] :
       Cardinality({c \in DOMAIN pool["party"] : Lower[PartyAlias[c]] = w}) > 1
       => Lower[index["party"][w]] = w \/ w \in Names("party", index["party"][w])

\* In the forge an agent answers to the name it came with whatever the user's
\* personas are called, unless another's code or alias is that name, or an agent
\* before it has it.
AgentsKeepTheirNames ==
  Ready("forge") =>
    \A i \in DOMAIN Agents :
      LET name == Lower[Named(Agents[i])]
      IN \/ index["forge"][name] = Agents[i].code
         \/ \E c \in DOMAIN pool["forge"] \ {Agents[i].code} : name \in {Lower[c], Lower[ForgeAlias[c]]}
         \/ \E j \in 1..(i - 1) : Lower[Named(Agents[j])] = name

\* When roster.py answers, an agent of a roster is in the default room exactly
\* when its skill is installed, whatever an older install recorded of it.
RoomIsInstalled ==
  world.ran /\ Ready("party") =>
    \A i \in DOMAIN members :
      members[i].skill # Nothing => (members[i].code \in Room <=> ~IsAbsent(members[i]))

WordsOf(c) ==
  {c, Lower[c], Lower[PartyAlias[c]], Lower[ForgeAlias[c]]} \cup Names("party", c) \cup Names("forge", c)

\* A short alias that one program strips and the other does not, or not as far.
AliasOfOne(w) ==
  \E c \in DOMAIN pool["party"] :
    Lower[PartyAlias[c]] # Lower[ForgeAlias[c]] /\ Lower[w] \in {Lower[PartyAlias[c]], Lower[ForgeAlias[c]]}

\* When no word means two people the party and the forge know the same people by
\* the same names, and each word of a group seats the same in both, save an alias
\* that the two programs strip differently.
SameRoom ==
  (/\ world.found /\ Ready("party") /\ Ready("forge")
   /\ \A c, d \in DOMAIN pool["party"] \cup DOMAIN pool["forge"] : c # d => WordsOf(c) \cap WordsOf(d) = {})
  => /\ pool["party"] = pool["forge"]
     /\ \A g \in Groups : \A w \in g.members : Seated("forge", w) = Seated("party", w) \/ AliasOfOne(w)
=============================================================================
