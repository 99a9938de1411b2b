-------------------------- MODULE PartyRosterProofs --------------------------
(***************************************************************************)
(* The properties of PartyRoster, for any worlds, words and names; then    *)
(* those of MethodPicks, for any catalogs, menus and digits.               *)
(***************************************************************************)
EXTENDS PartyRoster, MethodPicks, ListProofs

-----------------------------------------------------------------------------
(* Lists: what Latest and the merges of layers return.                     *)

(* The latest item with a code some item has is one of the list's, with it. *)
LEMMA LatestIs ==
  ASSUME NEW T, NEW people \in Seq(T), NEW code \in Codes(people)
  PROVE  Latest(people, code) \in T /\ Latest(people, code).code = code
<1> DEFINE With == {i \in DOMAIN people : people[i].code = code}
<1>1. Len(people) \in Nat /\ With \subseteq 1..Len(people) /\ With # {}
  BY DEF Codes
<1>2. PICK i \in With : \A j \in With : j <= i
  <2> HIDE DEF With
  <2> QED BY <1>1, GreatestExists
<1>3. \E k \in DOMAIN people : people[k].code = code /\ IsLast(people, k)
  BY <1>2 DEF IsLast
<1> QED BY <1>3 DEF Latest

LEMMA MergedLists ==
  ASSUME NEW base \in Seq(Person), NEW over \in Seq(Person)
  PROVE  MergeArrays(base, over) \in Seq(Person)
<1>1. CASE Nothing \in Codes(base) \cup Codes(over)
  <2>1. MergeArrays(base, over) = base \o over
    BY <1>1 DEF MergeArrays
  <2> QED BY <2>1
<1>2. CASE Nothing \notin Codes(base) \cup Codes(over)
  <2> DEFINE places == {i \in DOMAIN over : over[i].code \notin Codes(base) /\ IsFirst(over, i)}
             new == Kept(over, places)
             replaced == [i \in DOMAIN base |->
               IF base[i].code \in Codes(over) /\ IsLast(base, i) THEN Latest(over, base[i].code) ELSE base[i]]
             added == [k \in DOMAIN new |-> Latest(over, new[k].code)]
  <2>1. MergeArrays(base, over) = replaced \o added
    BY <1>2 DEF MergeArrays
  <2>2. replaced \in [1..Len(base) -> Person] /\ Len(base) \in Nat
    BY LatestIs
  <2>3. /\ new \in Seq(Person)
        /\ \A k \in DOMAIN new : \E i \in places : new[k] = over[i]
    <3> HIDE DEF new
    <3>1. places \subseteq DOMAIN over
      OBVIOUS
    <3> HIDE DEF places
    <3> QED BY <3>1, KeptIs DEF new
  <2>4. added \in [1..Len(new) -> Person] /\ Len(new) \in Nat
    <3> HIDE DEF new
    <3>1. \A k \in DOMAIN new : new[k].code \in Codes(over)
      BY <2>3 DEF Codes
    <3> QED BY <2>3, <3>1, LatestIs
  <2>5. replaced \in Seq(Person) /\ added \in Seq(Person)
    <3> HIDE DEF new, replaced, added
    <3> QED BY <2>2, <2>4, FunctionsAreLists
  <2> QED BY <2>1, <2>5
<1> QED BY <1>1, <1>2

LEMMA MergedKeys ==
  ASSUME NEW base \in Seq(Keyed), NEW over \in Seq(Keyed)
  PROVE  MergeTables(base, over) \in Seq(Keyed)
<1> DEFINE places == {i \in DOMAIN over : over[i].code \notin Codes(base)}
           merged == [i \in DOMAIN base |->
             IF base[i].code \in Codes(over) /\ Latest(over, base[i].code).name # Nothing
             THEN [base[i] EXCEPT !.name = Latest(over, base[i].code).name] ELSE base[i]]
<1>1. MergeTables(base, over) = merged \o Kept(over, places)
  BY DEF MergeTables
<1>2. merged \in [1..Len(base) -> Keyed] /\ Len(base) \in Nat
  <2>1. ASSUME NEW i \in DOMAIN base, base[i].code \in Codes(over)
        PROVE  [base[i] EXCEPT !.name = Latest(over, base[i].code).name] \in Keyed
    <3>1. Latest(over, base[i].code) \in Keyed /\ base[i] \in Keyed
      BY <2>1, LatestIs
    <3> QED BY <3>1 DEF Keyed
  <2> QED BY <2>1
<1>3. merged \in Seq(Keyed)
  <2> HIDE DEF merged
  <2> QED BY <1>2, FunctionsAreLists
<1>4. Kept(over, places) \in Seq(Keyed)
  <2>1. places \subseteq DOMAIN over
    OBVIOUS
  <2> HIDE DEF places
  <2> QED BY <2>1, KeptIs
<1> QED BY <1>1, <1>3, <1>4

(* Those who have a code are a table.                                      *)
LEMMA CodedAreKeyed ==
  ASSUME NEW people \in Seq(Person)
  PROVE  Coded(people) \in Seq(Keyed)
<1> DEFINE places == {i \in DOMAIN people : people[i].code # Nothing}
<1>1. /\ Kept(people, places) \in Seq(Person)
      /\ \A k \in DOMAIN Kept(people, places) : \E i \in places : Kept(people, places)[k] = people[i]
  <2>1. places \subseteq DOMAIN people
    OBVIOUS
  <2> HIDE DEF places
  <2> QED BY <2>1, KeptIs
<1>2. \A i \in places : people[i] \in Keyed
  <2>1. \A i \in places : people[i] \in Person /\ people[i].code # Nothing
    OBVIOUS
  <2> QED BY <2>1 DEF Person, Keyed
<1>3. Kept(people, places) \in [1..Len(Kept(people, places)) -> Keyed]
  <2> HIDE DEF places
  <2> QED BY <1>1, <1>2
<1>4. Len(Kept(people, places)) \in Nat
  <2> HIDE DEF places
  <2> QED BY <1>1
<1>5. Kept(people, places) \in Seq(Keyed)
  <2> HIDE DEF places
  <2> QED BY <1>3, <1>4, FunctionsAreLists
<1> QED BY <1>5 DEF Coded

(* Dictionaries: what Put, SetDefault and Without return. *)
IsPut(g, f, w, c) == DOMAIN g = DOMAIN f \cup {w} /\ \A x \in DOMAIN g : g[x] = IF x = w THEN c ELSE f[x]
IsDefault(g, f, w, c) ==
  DOMAIN g = DOMAIN f \cup {w} /\ \A x \in DOMAIN g : g[x] = IF x \in DOMAIN f THEN f[x] ELSE c
IsWithout(g, f, w) == DOMAIN g = DOMAIN f \ {w} /\ \A x \in DOMAIN g : g[x] = f[x]

LEMMA Puts ==
  /\ \A f, w, c : IsPut(Put(f, w, c), f, w, c)
  /\ \A f, w, c : IsDefault(SetDefault(f, w, c), f, w, c)
  /\ \A f, w : IsWithout(Without(f, w), f, w)
<1>1. \A f, w, c : IsPut(Put(f, w, c), f, w, c)
  BY DEF IsPut, Put
<1>2. \A f, w, c : IsDefault(SetDefault(f, w, c), f, w, c)
  BY DEF IsDefault, SetDefault, Put
<1>3. \A f, w : IsWithout(Without(f, w), f, w)
  BY DEF IsWithout, Without
<1> QED BY <1>1, <1>2, <1>3

LEMMA DictsStay ==
  ASSUME NEW S, NEW f, IsDict(f, S), NEW w \in Words, NEW c \in S
  PROVE  /\ IsDict(Put(f, w, c), S) /\ IsDict(SetDefault(f, w, c), S) /\ IsDict(Without(f, w), S)
BY DEF IsDict, Put, SetDefault, Without

-----------------------------------------------------------------------------
(* Types. *)

LEMMA TaggedType ==
  ASSUME NEW people \in Seq(Keyed), NEW kind \in {"agent", "guest", "custom"}
  PROVE  /\ Tagged(people, kind) \in Seq(Entry) /\ Len(Tagged(people, kind)) = Len(people)
         /\ \A i \in DOMAIN people :
              Tagged(people, kind)[i] = [code |-> people[i].code, name |-> people[i].name, kind |-> kind]
<1>1. Len(people) \in Nat /\ DOMAIN people = 1..Len(people)
  OBVIOUS
<1>2. \A i \in DOMAIN people : people[i].code \in Words /\ people[i].name \in Words \cup {Nothing}
  <2>1. \A i \in DOMAIN people : people[i] \in Keyed
    OBVIOUS
  <2> QED BY <2>1 DEF Keyed
<1>3. Tagged(people, kind) \in [1..Len(people) -> Entry]
  BY <1>1, <1>2 DEF Tagged, Entry
<1>4. Tagged(people, kind) \in Seq(Entry) /\ Len(Tagged(people, kind)) = Len(people)
  BY <1>1, <1>3, FunctionsAreLists
<1>5. \A i \in DOMAIN people :
        Tagged(people, kind)[i] = [code |-> people[i].code, name |-> people[i].name, kind |-> kind]
  BY DEF Tagged
<1> QED BY <1>4, <1>5

LEMMA WorldTypes ==
  ASSUME TypeOK
  PROVE  /\ world.rosters \in Seq(Person) /\ world.skills \in SUBSET Words
         /\ world.identity \in [Words -> Words \cup {Nothing}]
         /\ world.ran \in BOOLEAN /\ world.found \in BOOLEAN
         /\ MergedTables(world.central) \in Seq(Keyed)
         /\ \A r \in Resolvers : Customs(r) \in Seq(Keyed)
<1>1. world \in Worlds
  BY DEF TypeOK
<1>2. world.central \in [1..3 -> Seq(Keyed)] /\ world.customs \in [1..3 -> Seq(Person)]
  BY <1>1, WorldsAreTyped
<1>3. MergedTables(world.central) \in Seq(Keyed)
  BY <1>2, MergedKeys DEF MergedTables
<1>4. MergedArrays(world.customs) \in Seq(Person) /\ world.customs[2] \o world.customs[3] \in Seq(Person)
  BY <1>2, MergedLists DEF MergedArrays
<1>5. \A r \in Resolvers : Customs(r) \in Seq(Keyed)
  BY <1>4, CodedAreKeyed DEF Customs
<1> QED BY <1>1, <1>3, <1>5, WorldsAreTyped

LEMMA EveryoneType ==
  ASSUME TypeOK, agents # Nothing, NEW r \in Resolvers
  PROVE  /\ Agents \in Seq(Keyed) /\ Guests \in Seq(Keyed) /\ Everyone(r) \in Seq(Entry)
         /\ Len(Everyone(r)) \in Nat /\ Len(Agents) \in Nat /\ Len(Agents) <= Len(Everyone(r))
         /\ \A i \in DOMAIN Agents :
              /\ i \in DOMAIN Everyone(r)
              /\ Everyone(r)[i] = [code |-> Agents[i].code, name |-> Agents[i].name, kind |-> "agent"]
<1>1. Agents \in Seq(Keyed)
  BY WorldTypes DEF Agents, TypeOK
<1>2. Guests \in Seq(Keyed)
  <2> DEFINE places == {i \in DOMAIN members : members[i].code \notin Codes(agents)}
  <2>1. members \in Seq(Keyed) /\ places \subseteq DOMAIN members
    BY DEF TypeOK
  <2>2. Kept(members, places) \in Seq(Keyed)
    <3> HIDE DEF places
    <3> QED BY <2>1, KeptIs
  <2> QED BY <2>2 DEF Guests
<1>3. Customs(r) \in Seq(Keyed)
  BY WorldTypes
<1> DEFINE a == Tagged(Agents, "agent")
           g == Tagged(Guests, "guest")
           c == Tagged(Customs(r), "custom")
<1>4. /\ a \in Seq(Entry) /\ Len(a) = Len(Agents) /\ g \in Seq(Entry) /\ c \in Seq(Entry)
      /\ \A i \in DOMAIN Agents : a[i] = [code |-> Agents[i].code, name |-> Agents[i].name, kind |-> "agent"]
  BY <1>1, <1>2, <1>3, TaggedType
<1>5. Everyone(r) = a \o g \o c
  BY DEF Everyone
<1> HIDE DEF a, g, c
<1>6. a \o g \in Seq(Entry) /\ \A i \in DOMAIN a : i \in DOMAIN (a \o g) /\ (a \o g)[i] = a[i]
  BY <1>4
<1>7. (a \o g) \o c \in Seq(Entry) /\ \A i \in DOMAIN a : i \in DOMAIN ((a \o g) \o c) /\ ((a \o g) \o c)[i] = a[i]
  BY <1>4, <1>6
<1>8. Len(a) <= Len((a \o g) \o c) /\ Len((a \o g) \o c) \in Nat /\ Len(a) \in Nat
  BY <1>4, <1>6
<1>9. DOMAIN a = DOMAIN Agents
  BY <1>1, <1>4
<1> QED BY <1>1, <1>2, <1>4, <1>5, <1>7, <1>8, <1>9

LEMMA ResolverCases == \A r \in Resolvers : r = "party" \/ r = "forge"
BY DEF Resolvers

(* A registration is of a word under a word, and its effects are dictionaries. *)
LEMMA RegistrationTypes ==
  ASSUME TypeOK, NEW r \in Resolvers, NEW p \in Entry
  PROVE  Canonized(r, p) \in Words /\ NameKept(r, p) \in Words
<1>1. p.code \in Words /\ p.name \in Words \cup {Nothing} /\ Lower[p.code] \in Words
  BY WordsAssumption DEF Entry
<1>2. IsDict(index[r], Words) /\ IsDict(pool[r], Words)
  BY DEF TypeOK
<1>3. Canonical(r, p.code) \in Words
  BY <1>1, <1>2 DEF Canonical, IsDict
<1>4. Canonized(r, p) \in Words
  BY <1>1, <1>3 DEF Canonized
<1>5. NameKept(r, p) \in Words
  BY <1>1, <1>2, <1>4 DEF NameKept, IsDict
<1> QED BY <1>4, <1>5

LEMMA IndexTypes ==
  ASSUME TypeOK, NEW code \in Words, NEW name \in Words
  PROVE  /\ Claimed(code) \in Words \cup {Nothing}
         /\ Lower[code] \in Words /\ Lower[name] \in Words
         /\ Lower[PartyAlias[code]] \in Words /\ Lower[ForgeAlias[code]] \in Words
         /\ \A r \in Resolvers : IsDict(ByCode(index[r], code), Words)
         /\ IsDict(Aliased(ByCode(index["party"], code), code), Words)
         /\ IsDict(PartyIndex(code, name), Words) /\ IsDict(ForgeIndex(code, name), Words)
         /\ IsDict(Claims(code), Words \cup {Nothing})
<1>1. /\ Lower[code] \in Words /\ Lower[name] \in Words
      /\ Lower[PartyAlias[code]] \in Words /\ Lower[ForgeAlias[code]] \in Words
  BY WordsAssumption
<1>2. \A r \in Resolvers : IsDict(ByCode(index[r], code), Words)
  BY <1>1, DictsStay DEF ByCode, TypeOK
<1>3. IsDict(owner, Words \cup {Nothing})
  BY DEF TypeOK
<1>4. Claimed(code) \in Words \cup {Nothing}
  BY <1>1, <1>3 DEF Claimed, IsDict
<1>5. IsDict(Claims(code), Words \cup {Nothing})
  BY <1>1, <1>3, DictsStay DEF Claims
<1>6. IsDict(Aliased(ByCode(index["party"], code), code), Words)
  BY <1>1, <1>2, DictsStay DEF Aliased, Resolvers
<1>7. IsDict(PartyIndex(code, name), Words)
  BY <1>1, <1>6, DictsStay DEF PartyIndex
<1>8. IsDict(Put(ByCode(index["forge"], code), Lower[ForgeAlias[code]], code), Words)
  BY <1>1, <1>2, DictsStay DEF Resolvers
<1>9. IsDict(ForgeIndex(code, name), Words)
  BY <1>1, <1>8, DictsStay DEF ForgeIndex
<1> QED BY <1>1, <1>2, <1>4, <1>5, <1>6, <1>7, <1>9

(* What registering does, its words named. *)
LEMMA Registers ==
  ASSUME TypeOK, NEW r \in Resolvers, Register(r)
  PROVE  /\ queue[r] \in Seq(Entry) /\ queue[r] # <<>> /\ Head(queue[r]) \in Entry
         /\ Canonized(r, Head(queue[r])) \in Words /\ NameKept(r, Head(queue[r])) \in Words
<1>1. queue[r] \in Seq(Entry) /\ queue[r] # <<>>
  BY DEF TypeOK, Register
<1>2. Head(queue[r]) \in Entry
  BY <1>1
<1> QED BY <1>1, <1>2, RegistrationTypes

LEMMA TypeInit == Init => TypeOK
<1> SUFFICES ASSUME Init PROVE TypeOK
  OBVIOUS
<1>1. world \in Worlds
  BY DEF Init
<1>2. world.rosters \in Seq(Person) /\ world.central \in [1..3 -> Seq(Keyed)]
  BY <1>1, WorldsAreTyped
<1>3. MergedTables(world.central) \in Seq(Keyed)
  BY <1>2, MergedKeys DEF MergedTables
<1>4. feed \in Seq(Person) /\ members \in Seq(Keyed) /\ central \in Seq(Keyed)
  BY <1>2, <1>3 DEF Init
<1>5. \A S : IsDict(Empty, S)
  BY DEF IsDict, Empty
<1>6. called \in [Resolvers -> Seq([code : Words, name : Words])]
  BY DEF Init
<1> QED BY <1>1, <1>4, <1>5, <1>6 DEF Init, TypeOK

LEMMA TypeStep == TypeOK /\ [Next]_vars => TypeOK'
<1> SUFFICES ASSUME TypeOK, [Next]_vars PROVE TypeOK'
  OBVIOUS
<1>1. CASE AddMember
  <2>1. feed # <<>> /\ feed \in Seq(Person) /\ members \in Seq(Keyed)
    BY <1>1 DEF AddMember, TypeOK
  <2>2. Head(feed) \in Person /\ Tail(feed) \in Seq(Person)
    BY <2>1
  <2>3. ASSUME Head(feed).code # Nothing
        PROVE  [Head(feed) EXCEPT !.name = Identity(Head(feed))] \in Keyed
    <3>1. Head(feed).code \in Words /\ Head(feed).name \in Words \cup {Nothing}
      BY <2>2, <2>3 DEF Person
    <3>2. Identity(Head(feed)) \in Words
      BY <3>1, WorldTypes DEF Identity, Named
    <3> QED BY <2>2, <3>1, <3>2 DEF Person, Keyed
  <2>4. members' \in Seq(Keyed)
    BY <1>1, <2>1, <2>3 DEF AddMember
  <2> QED BY <1>1, <2>2, <2>4 DEF AddMember, TypeOK
<1>2. CASE ReadAgents
  <2> DEFINE places == {i \in DOMAIN members : members[i].skill \in world.skills}
  <2>1. members \in Seq(Keyed) /\ places \subseteq DOMAIN members
    BY DEF TypeOK
  <2>2. Kept(members, places) \in Seq(Keyed)
    <3> HIDE DEF places
    <3> QED BY <2>1, KeptIs
  <2>3. Installed \in Seq(Keyed)
    BY <2>2 DEF Installed
  <2> QED BY <1>2, <2>3 DEF ReadAgents, TypeOK
<1>3. CASE ApplyCentral
  <2>1. central # <<>> /\ central \in Seq(Keyed) /\ agents \in Seq(Keyed)
    BY <1>3 DEF ApplyCentral, TypeOK
  <2>2. Head(central) \in Keyed /\ Tail(central) \in Seq(Keyed)
    BY <2>1
  <2>3. [Head(central) EXCEPT !.name = Named(Head(central))] \in Keyed
    BY <2>2 DEF Keyed, Named
  <2>4. agents' \in Seq(Keyed)
    BY <1>3, <2>1, <2>3 DEF ApplyCentral
  <2> QED BY <1>3, <2>2, <2>4 DEF ApplyCentral, TypeOK
<1>4. ASSUME NEW r \in Resolvers, Load(r) PROVE TypeOK'
  <2>1. Everyone(r) \in Seq(Entry)
    BY <1>4, EveryoneType DEF Load
  <2> QED BY <1>4, <2>1 DEF Load, TypeOK
<1>5. ASSUME NEW r \in Resolvers, Register(r) PROVE TypeOK'
  <2> DEFINE code == Canonized(r, Head(queue[r]))
             name == NameKept(r, Head(queue[r]))
  <2>1. queue[r] \in Seq(Entry) /\ queue[r] # <<>> /\ code \in Words /\ name \in Words
    BY <1>5, Registers
  <2> HIDE DEF code, name
  <2>2. /\ pool' = [pool EXCEPT ![r] = Put(pool[r], code, name)]
        /\ called' = [called EXCEPT ![r] = Append(called[r], [code |-> code, name |-> name])]
        /\ index' = [index EXCEPT ![r] = IF r = "party" THEN PartyIndex(code, name) ELSE ForgeIndex(code, name)]
        /\ owner' = (IF r = "party" THEN Claims(code) ELSE owner)
        /\ queue' = [queue EXCEPT ![r] = Tail(queue[r])]
        /\ UNCHANGED <<world, feed, members, agents, central>>
    BY <1>5 DEF Register, code, name
  <2>3. IsDict(Put(pool[r], code, name), Words)
    BY <2>1, DictsStay DEF TypeOK
  <2>4. /\ IsDict(PartyIndex(code, name), Words) /\ IsDict(ForgeIndex(code, name), Words)
        /\ IsDict(Claims(code), Words \cup {Nothing})
    BY <2>1, IndexTypes
  <2>5. called' \in [Resolvers -> Seq([code : Words, name : Words])]
    <3>1. Append(called[r], [code |-> code, name |-> name]) \in Seq([code : Words, name : Words])
      <4>1. called[r] \in Seq([code : Words, name : Words])
        BY DEF TypeOK
      <4>2. [code |-> code, name |-> name] \in [code : Words, name : Words]
        BY <2>1
      <4> QED BY <4>1, <4>2, AppendProperties
    <3> QED BY <2>2, <3>1 DEF TypeOK
  <2>6. DOMAIN pool' = Resolvers /\ \A q \in Resolvers : IsDict(pool'[q], Words)
    BY <2>2, <2>3 DEF TypeOK
  <2>7. DOMAIN index' = Resolvers /\ \A q \in Resolvers : IsDict(index'[q], Words)
    BY <2>2, <2>4 DEF TypeOK
  <2>8. IsDict(owner', Words \cup {Nothing})
    BY <2>2, <2>4 DEF TypeOK
  <2>9. DOMAIN queue' = Resolvers /\ \A q \in Resolvers : queue'[q] # Nothing => queue'[q] \in Seq(Entry)
    BY <2>1, <2>2 DEF TypeOK
  <2>10. /\ world' \in Worlds /\ feed' \in Seq(Person) /\ members' \in Seq(Keyed) /\ central' \in Seq(Keyed)
         /\ agents' # Nothing => agents' \in Seq(Keyed)
    BY <2>2 DEF TypeOK
  <2> QED BY <2>5, <2>6, <2>7, <2>8, <2>9, <2>10 DEF TypeOK
<1>6. CASE UNCHANGED vars
  BY <1>6 DEF vars, TypeOK
<1> QED BY <1>1, <1>2, <1>3, <1>4, <1>5, <1>6 DEF Next

(* The state keeps its types. *)
THEOREM PartyTypeCorrect == Spec => []TypeOK
BY TypeInit, TypeStep, PTL DEF Spec

-----------------------------------------------------------------------------
(* Who is in the default room. *)

(* What comes first is finished before what comes next begins.             *)
Stages ==
  /\ agents # Nothing => feed = <<>>
  /\ \A r \in Resolvers : queue[r] # Nothing => agents # Nothing /\ (world.ran => central = <<>>)

(* Each code is one member's, and from when the agents are read they are    *)
(* those of the members whose skills are installed, and no absent one.     *)
RoomInv ==
  /\ \A i, j \in DOMAIN members : members[i].code = members[j].code => i = j
  /\ agents # Nothing =>
       \A i \in DOMAIN members :
         members[i].skill # Nothing => (members[i].code \in Codes(agents) <=> ~IsAbsent(members[i]))

LEMMA StagesStep == TypeOK /\ Stages /\ [Next]_vars => Stages'
<1> SUFFICES ASSUME TypeOK, Stages, [Next]_vars PROVE Stages'
  OBVIOUS
<1>1. CASE AddMember
  BY <1>1 DEF AddMember, Stages
<1>2. CASE ReadAgents
  BY <1>2 DEF ReadAgents, Stages
<1>3. CASE ApplyCentral
  BY <1>3 DEF ApplyCentral, Stages
<1>4. ASSUME NEW r \in Resolvers, Load(r) PROVE Stages'
  BY <1>4 DEF Load, Stages, TypeOK
<1>5. ASSUME NEW r \in Resolvers, Register(r) PROVE Stages'
  BY <1>5 DEF Register, Stages, TypeOK
<1>6. CASE UNCHANGED vars
  BY <1>6 DEF vars, Stages
<1> QED BY <1>1, <1>2, <1>3, <1>4, <1>5, <1>6 DEF Next

LEMMA AppendedCodes ==
  ASSUME NEW people \in Seq(Keyed), NEW p
  PROVE  /\ Codes(Append(people, p)) = Codes(people) \cup {p.code}
         /\ DOMAIN Append(people, p) = 1..(Len(people) + 1) /\ Len(people) \in Nat
         /\ \A i \in DOMAIN people : Append(people, p)[i] = people[i]
         /\ Append(people, p)[Len(people) + 1] = p
<1>1. /\ DOMAIN Append(people, p) = 1..(Len(people) + 1) /\ Len(people) \in Nat /\ DOMAIN people = 1..Len(people)
      /\ \A i \in DOMAIN people : Append(people, p)[i] = people[i]
      /\ Append(people, p)[Len(people) + 1] = p
  OBVIOUS
<1>2. \A i \in 1..(Len(people) + 1) : i \in DOMAIN people \/ i = Len(people) + 1
  BY <1>1
<1>3. \A i \in DOMAIN people : i \in 1..(Len(people) + 1)
  BY <1>1
<1>4. Len(people) + 1 \in 1..(Len(people) + 1)
  BY <1>1
<1> HIDE DEF Append
<1>5. Codes(Append(people, p)) = Codes(people) \cup {p.code}
  BY <1>1, <1>2, <1>3, <1>4 DEF Codes
<1> QED BY <1>1, <1>5

LEMMA RoomStep == TypeOK /\ Stages /\ RoomInv /\ [Next]_vars => RoomInv'
<1> SUFFICES ASSUME TypeOK, Stages, RoomInv, [Next]_vars PROVE RoomInv'
  OBVIOUS
<1>0. members \in Seq(Keyed)
  BY DEF TypeOK
<1>1. CASE AddMember
  <2> DEFINE p == [Head(feed) EXCEPT !.name = Identity(Head(feed))]
  <2>1. agents = Nothing /\ agents' = Nothing
    BY <1>1 DEF AddMember, Stages
  <2>2. CASE members' = members
    BY <2>1, <2>2 DEF RoomInv
  <2>3. CASE members' = Append(members, p) /\ Head(feed).code \notin Codes(members)
    <3>1. feed # <<>> /\ Head(feed) \in Person
      BY <1>1 DEF AddMember, TypeOK
    <3>2. p.code = Head(feed).code
      BY <3>1 DEF Person
    <3> HIDE DEF p
    <3>3. \A i \in DOMAIN members : members[i].code # p.code
      BY <2>3, <3>2 DEF Codes
    <3> QED BY <1>0, <2>1, <2>3, <3>3, AppendedCodes DEF RoomInv
  <2> QED BY <1>1, <2>2, <2>3 DEF AddMember
<1>2. CASE ReadAgents
  <2> DEFINE places == {i \in DOMAIN members : members[i].skill \in world.skills}
  <2>1. agents' = Kept(members, places) /\ UNCHANGED <<world, members>>
    BY <1>2 DEF ReadAgents, Installed
  <2>2. /\ \A k \in DOMAIN Kept(members, places) : \E i \in places : Kept(members, places)[k] = members[i]
        /\ \A i \in places : \E k \in DOMAIN Kept(members, places) : Kept(members, places)[k] = members[i]
    <3>1. places \subseteq DOMAIN members
      OBVIOUS
    <3> HIDE DEF places
    <3> QED BY <1>0, <3>1, KeptIs
  <2>3. Codes(agents') = {members[i].code : i \in places}
    <3> HIDE DEF places
    <3> QED BY <2>1, <2>2 DEF Codes
  <2>4. ASSUME NEW i \in DOMAIN members, members[i].skill # Nothing
        PROVE  members[i].code \in Codes(agents') <=> ~IsAbsent(members[i])
    BY <2>3, <2>4 DEF RoomInv, IsAbsent
  <2> QED BY <2>1, <2>4 DEF RoomInv, IsAbsent
<1>3. CASE ApplyCentral
  <2> DEFINE p == [Head(central) EXCEPT !.name = Named(Head(central))]
  <2>1. agents # Nothing /\ UNCHANGED <<world, members>>
    BY <1>3 DEF ApplyCentral
  <2>2. CASE agents' = agents
    BY <2>1, <2>2 DEF RoomInv, IsAbsent
  <2>3. CASE agents' = Append(agents, p) /\ ~Gone(Head(central).code) /\ Head(central).code \notin Codes(agents)
    <3>1. central # <<>> /\ Head(central) \in Keyed /\ agents \in Seq(Keyed)
      BY <1>3 DEF ApplyCentral, TypeOK
    <3>2. p.code = Head(central).code
      BY <3>1 DEF Keyed
    <3> HIDE DEF p
    <3>3. Codes(agents') = Codes(agents) \cup {Head(central).code}
      BY <2>3, <3>1, <3>2, AppendedCodes
    <3>4. ASSUME NEW i \in DOMAIN members, members[i].code = Head(central).code
          PROVE  ~IsAbsent(members[i]) /\ (members[i].skill # Nothing => FALSE)
      BY <2>1, <2>3, <3>4 DEF Gone, RoomInv
    <3> QED BY <2>1, <3>3, <3>4 DEF RoomInv, IsAbsent
  <2> QED BY <1>3, <2>2, <2>3 DEF ApplyCentral, Skipped
<1>4. ASSUME NEW r \in Resolvers, Load(r) PROVE RoomInv'
  BY <1>4 DEF Load, RoomInv, IsAbsent
<1>5. ASSUME NEW r \in Resolvers, Register(r) PROVE RoomInv'
  BY <1>5 DEF Register, RoomInv, IsAbsent
<1>6. CASE UNCHANGED vars
  BY <1>6 DEF vars, RoomInv, IsAbsent
<1> QED BY <1>1, <1>2, <1>3, <1>4, <1>5, <1>6 DEF Next

LEMMA RoomAlways == Spec => [](TypeOK /\ Stages /\ RoomInv)
<1>1. Init => Stages /\ RoomInv
  BY DEF Init, Stages, RoomInv
<1> QED BY <1>1, TypeInit, TypeStep, StagesStep, RoomStep, PTL DEF Spec

LEMMA EmptyIsSomething == Nothing # <<>>
<1>1. <<>> \in Seq(Entry)
  BY EmptySeq
<1> QED BY <1>1, NothingIsNone

(* When roster.py answers, an agent is in the default room exactly when its *)
(* skill is installed, whatever an older install recorded of it.           *)
THEOREM RoomsAreInstalled == Spec => []RoomIsInstalled
<1>1. TypeOK /\ Stages /\ RoomInv => RoomIsInstalled
  BY EmptyIsSomething DEF TypeOK, Stages, RoomInv, RoomIsInstalled, Ready, Room, Agents, Resolvers
<1> QED BY <1>1, RoomAlways, PTL

-----------------------------------------------------------------------------
(* What a registration does to an index. *)

LEMMA ByCodeIs ==
  ASSUME NEW f, NEW code
  PROVE  /\ DOMAIN ByCode(f, code) = DOMAIN f \cup {code, Lower[code]}
         /\ \A w \in DOMAIN ByCode(f, code) :
              ByCode(f, code)[w] = IF w \in {code, Lower[code]} THEN code ELSE f[w]
<1> DEFINE g == Put(f, code, code)
<1>1. IsPut(g, f, code, code) /\ IsPut(ByCode(f, code), g, Lower[code], code)
  BY Puts DEF ByCode
<1> HIDE DEF g
<1> QED BY <1>1 DEF IsPut

(* In the forge the new code takes its code and alias, and its name if      *)
(* nobody has it.                                                          *)
ForgeIndexed(new, old, code, name) ==
  LET own == {code, Lower[code], Lower[ForgeAlias[code]]}
  IN /\ DOMAIN new = DOMAIN old \cup own \cup {Lower[name]}
     /\ \A w \in own : new[w] = code
     /\ \A w \in DOMAIN old : w \notin own => new[w] = old[w]
     /\ \A w \in DOMAIN new \ DOMAIN old : new[w] = code

LEMMA ForgeIndexIs == \A code, name : ForgeIndexed(ForgeIndex(code, name), index["forge"], code, name)
<1> SUFFICES ASSUME NEW code, NEW name
             PROVE  ForgeIndexed(ForgeIndex(code, name), index["forge"], code, name)
  OBVIOUS
<1> DEFINE f == ByCode(index["forge"], code)
           g == Put(f, Lower[ForgeAlias[code]], code)
<1>1. /\ DOMAIN f = DOMAIN index["forge"] \cup {code, Lower[code]}
      /\ \A w \in DOMAIN f : f[w] = IF w \in {code, Lower[code]} THEN code ELSE index["forge"][w]
  BY ByCodeIs
<1>2. IsPut(g, f, Lower[ForgeAlias[code]], code) /\ IsDefault(ForgeIndex(code, name), g, Lower[name], code)
  BY Puts DEF ForgeIndex
<1> HIDE DEF f, g
<1> QED BY <1>1, <1>2 DEF IsPut, IsDefault, ForgeIndexed

(* In party mode the new code takes its code and its name, and its alias if *)
(* nobody else claims it; at the second claim the alias is taken from its   *)
(* owner, unless it is his code.                                           *)
PartyIndexed(new, old, claimed, code, name) ==
  LET own == {code, Lower[code], Lower[name]}
      alias == Lower[PartyAlias[code]]
  IN /\ \A w \in own : w \in DOMAIN new /\ new[w] = code
     /\ claimed = code => alias \in DOMAIN new
     /\ \A w \in DOMAIN new \ own :
          \/ w \in DOMAIN old /\ new[w] = old[w]
             /\ (w = alias /\ claimed \notin {code, Nothing} /\ old[w] = claimed => w = Lower[claimed])
          \/ w = alias /\ claimed = code /\ new[w] = code
     /\ \A w \in DOMAIN old \ own :
          \/ w \in DOMAIN new /\ new[w] = old[w]
          \/ w = alias /\ claimed \notin {code, Nothing} /\ w # Lower[claimed] /\ old[w] = claimed

LEMMA PartyIndexIs ==
  \A code, name : PartyIndexed(PartyIndex(code, name), index["party"], Claimed(code), code, name)
<1> SUFFICES ASSUME NEW code, NEW name
             PROVE  PartyIndexed(PartyIndex(code, name), index["party"], Claimed(code), code, name)
  OBVIOUS
<1> DEFINE f == ByCode(index["party"], code)
           g == Aliased(f, code)
           alias == Lower[PartyAlias[code]]
<1>1. /\ DOMAIN f = DOMAIN index["party"] \cup {code, Lower[code]}
      /\ \A w \in DOMAIN f : f[w] = IF w \in {code, Lower[code]} THEN code ELSE index["party"][w]
  BY ByCodeIs
<1>2. IsPut(PartyIndex(code, name), g, Lower[name], code)
  BY Puts DEF PartyIndex
<1> HIDE DEF f
<1>3. CASE Claimed(code) = code
  <2>1. IsDefault(g, f, alias, code)
    BY <1>3, Puts DEF Aliased
  <2> HIDE DEF g
  <2> QED BY <1>1, <1>2, <1>3, <2>1 DEF IsPut, IsDefault, PartyIndexed
<1>4. CASE Claimed(code) # code /\ Dropped(f, code)
  <2>1. IsWithout(g, f, alias)
    BY <1>4, Puts DEF Aliased
  <2>2. /\ Claimed(code) \notin {code, Nothing} /\ alias # Lower[Claimed(code)]
        /\ alias \in DOMAIN f /\ f[alias] = Claimed(code)
    BY <1>4 DEF Dropped
  <2>3. alias \notin {code, Lower[code]} /\ alias \in DOMAIN index["party"] /\ index["party"][alias] = Claimed(code)
    BY <1>1, <2>2
  <2> HIDE DEF g
  <2> QED BY <1>1, <1>2, <2>1, <2>2, <2>3 DEF IsPut, IsWithout, PartyIndexed
<1>5. CASE Claimed(code) # code /\ ~Dropped(f, code)
  <2>1. g = f
    BY <1>5 DEF Aliased
  <2>2. \/ Claimed(code) = Nothing \/ alias = Lower[Claimed(code)]
        \/ alias \notin DOMAIN f \/ f[alias] # Claimed(code)
    BY <1>5 DEF Dropped
  <2> QED BY <1>1, <1>2, <1>5, <2>1, <2>2 DEF IsPut, PartyIndexed
<1> QED BY <1>3, <1>4, <1>5

-----------------------------------------------------------------------------
(* The registrations so far. *)

(* The names a code has in a list of registrations, and all its words.     *)
NamesIn(list, c) == {Lower[list[k].name] : k \in {j \in DOMAIN list : list[j].code = c}}
Alias(r, c) == Lower[IF r = "party" THEN PartyAlias[c] ELSE ForgeAlias[c]]
WordsIn(r, list, c) == {c, Lower[c], Alias(r, c)} \cup NamesIn(list, c)

(* A registration, its words named.                                        *)
Effect(r, code, name) ==
  /\ pool' = [pool EXCEPT ![r] = Put(pool[r], code, name)]
  /\ called' = [called EXCEPT ![r] = Append(called[r], [code |-> code, name |-> name])]
  /\ index' = [index EXCEPT ![r] = IF r = "party" THEN PartyIndex(code, name) ELSE ForgeIndex(code, name)]
  /\ owner' = (IF r = "party" THEN Claims(code) ELSE owner)
  /\ queue' = [queue EXCEPT ![r] = Tail(queue[r])]
  /\ UNCHANGED <<world, feed, members, agents, central>>

LEMMA RegisterEffect ==
  ASSUME NEW r, Register(r)
  PROVE  Effect(r, Canonized(r, Head(queue[r])), NameKept(r, Head(queue[r])))
BY DEF Register, Effect

(* What it leaves of the other resolver, and what it adds.                 *)
LEMMA EffectIs ==
  ASSUME TypeOK, NEW r \in Resolvers, NEW code \in Words, NEW name \in Words, Effect(r, code, name)
  PROVE  /\ \A q \in Resolvers \ {r} :
              queue'[q] = queue[q] /\ called'[q] = called[q] /\ pool'[q] = pool[q] /\ index'[q] = index[q]
         /\ queue'[r] = Tail(queue[r])
         /\ Len(called[r]) \in Nat /\ Len(called'[r]) = Len(called[r]) + 1
         /\ DOMAIN called[r] = 1..Len(called[r]) /\ DOMAIN called'[r] = 1..(Len(called[r]) + 1)
         /\ \A k \in DOMAIN called[r] : called'[r][k] = called[r][k]
         /\ called'[r][Len(called[r]) + 1] = [code |-> code, name |-> name]
         /\ DOMAIN pool'[r] = DOMAIN pool[r] \cup {code}
         /\ pool'[r][code] = name /\ \A c \in DOMAIN pool[r] \ {code} : pool'[r][c] = pool[r][c]
         /\ \A x : x \in NamesIn(called'[r], code) <=> x \in NamesIn(called[r], code) \/ x = Lower[name]
         /\ \A c : c # code => NamesIn(called'[r], c) = NamesIn(called[r], c)
<1>1. called[r] \in Seq([code : Words, name : Words]) /\ DOMAIN called = Resolvers
      /\ DOMAIN queue = Resolvers /\ DOMAIN pool = Resolvers /\ DOMAIN index = Resolvers
  BY DEF TypeOK
<1>2. \A q \in Resolvers \ {r} :
        queue'[q] = queue[q] /\ called'[q] = called[q] /\ pool'[q] = pool[q] /\ index'[q] = index[q]
  BY <1>1 DEF Effect
<1>4. called'[r] = Append(called[r], [code |-> code, name |-> name])
  BY <1>1 DEF Effect
<1> DEFINE e == [code |-> code, name |-> name]
<1>5. /\ Len(called[r]) \in Nat /\ Len(called'[r]) = Len(called[r]) + 1
      /\ DOMAIN called[r] = 1..Len(called[r]) /\ DOMAIN called'[r] = 1..(Len(called[r]) + 1)
      /\ \A k \in DOMAIN called[r] : called'[r][k] = called[r][k]
      /\ called'[r][Len(called[r]) + 1] = e
  <2> HIDE DEF e
  <2> QED BY <1>1, <1>4 DEF e
<1>6. pool'[r] = Put(pool[r], code, name)
  BY <1>1 DEF Effect
<1>7. IsPut(pool'[r], pool[r], code, name)
  BY <1>6, Puts
<1>8. ASSUME NEW c PROVE NamesIn(called'[r], c) = NamesIn(called[r], c) \cup (IF c = code THEN {Lower[name]} ELSE {})
  <2>1. \A k \in DOMAIN called'[r] : k \in DOMAIN called[r] \/ k = Len(called[r]) + 1
    BY <1>5
  <2>2. \A k \in DOMAIN called[r] : k \in DOMAIN called'[r]
    BY <1>5
  <2>3. Len(called[r]) + 1 \in DOMAIN called'[r]
    BY <1>5
  <2>4. e.code = code /\ e.name = name
    OBVIOUS
  <2> HIDE DEF e
  <2> QED BY <1>5, <2>1, <2>2, <2>3, <2>4 DEF NamesIn
<1>9. queue'[r] = Tail(queue[r])
  BY <1>1 DEF Effect
<1> QED BY <1>2, <1>5, <1>7, <1>8, <1>9 DEF IsPut

(* The queue is what is left of the list that was loaded.                  *)
Progress ==
  \A r \in Resolvers :
    IF queue[r] = Nothing THEN called[r] = <<>>
    ELSE /\ Len(called[r]) + Len(queue[r]) = Len(Everyone(r))
         /\ \A k \in DOMAIN queue[r] : queue[r][k] = Everyone(r)[Len(called[r]) + k]

(* The pool has the last name of each code registered.                     *)
Pooled ==
  \A r \in Resolvers :
    /\ \A k \in DOMAIN called[r] : called[r][k].code \in DOMAIN pool[r]
    /\ \A c \in DOMAIN pool[r] : \E k \in DOMAIN called[r] :
         /\ called[r][k].code = c /\ called[r][k].name = pool[r][c]
         /\ \A j \in DOMAIN called[r] : j > k => called[r][j].code # c

LEMMA ProgressStep == TypeOK /\ Stages /\ Progress /\ [Next]_vars => Progress'
<1> SUFFICES ASSUME TypeOK, Stages, Progress, [Next]_vars PROVE Progress'
  OBVIOUS
<1>1. CASE AddMember \/ ReadAgents \/ ApplyCentral
  <2>1. UNCHANGED <<queue, called>>
    BY <1>1 DEF AddMember, ReadAgents, ApplyCentral
  <2>2. \A r \in Resolvers : queue[r] = Nothing
    BY <1>1 DEF AddMember, ReadAgents, ApplyCentral, Stages
  <2> QED BY <2>1, <2>2 DEF Progress
<1>2. ASSUME UNCHANGED <<world, members, agents>>, NEW r \in Resolvers PROVE Everyone(r)' = Everyone(r)
  BY <1>2 DEF Everyone, Agents, Guests, Customs
<1>3. ASSUME NEW r \in Resolvers, Load(r) PROVE Progress'
  <2>1. /\ queue' = [queue EXCEPT ![r] = Everyone(r)] /\ UNCHANGED <<world, members, agents, called>>
        /\ agents # Nothing /\ called[r] = <<>> /\ DOMAIN queue = Resolvers
    BY <1>3 DEF Load, Progress, TypeOK
  <2>2. Len(Everyone(r)) \in Nat
    BY <2>1, EveryoneType
  <2>3. Everyone(r) \in Seq(Entry)
    BY <2>1, EveryoneType
  <2>4. DOMAIN Everyone(r) = 1..Len(Everyone(r)) /\ \A k \in DOMAIN Everyone(r) : 0 + k = k
    BY <2>3
  <2>5. \A q \in Resolvers : Everyone(q)' = Everyone(q)
    BY <1>2, <2>1
  <2>6. Len(called[r]) = 0
    BY <2>1
  <2>7. queue'[r] = Everyone(r) /\ \A q \in Resolvers \ {r} : queue'[q] = queue[q]
    BY <2>1
  <2>8. ASSUME NEW q \in Resolvers \ {r}
        PROVE  IF queue'[q] = Nothing THEN called'[q] = <<>>
               ELSE /\ Len(called'[q]) + Len(queue'[q]) = Len(Everyone(q)')
                    /\ \A k \in DOMAIN queue'[q] : queue'[q][k] = Everyone(q)'[Len(called'[q]) + k]
    <3>1. queue'[q] = queue[q] /\ called'[q] = called[q] /\ Everyone(q)' = Everyone(q)
      BY <2>1, <2>5, <2>7
    <3> QED BY <3>1 DEF Progress
  <2>9. queue'[r] # Nothing
    BY <2>3, <2>7, NothingIsNone
  <2>10. /\ Len(called'[r]) + Len(queue'[r]) = Len(Everyone(r)')
         /\ \A k \in DOMAIN queue'[r] : queue'[r][k] = Everyone(r)'[Len(called'[r]) + k]
    <3>1. Len(called'[r]) = 0 /\ queue'[r] = Everyone(r) /\ Everyone(r)' = Everyone(r)
      BY <2>1, <2>5, <2>6, <2>7
    <3> HIDE DEF Everyone
    <3> QED BY <2>2, <2>4, <3>1
  <2> QED BY <2>8, <2>9, <2>10 DEF Progress
<1>4. ASSUME NEW r \in Resolvers, Register(r) PROVE Progress'
  <2> DEFINE code == Canonized(r, Head(queue[r]))
             name == NameKept(r, Head(queue[r]))
  <2>1. /\ queue[r] \in Seq(Entry) /\ queue[r] # <<>> /\ code \in Words /\ name \in Words
        /\ Effect(r, code, name) /\ queue[r] # Nothing
    BY <1>4, Registers, RegisterEffect DEF Register
  <2> HIDE DEF code, name
  <2>2. \A q \in Resolvers : Everyone(q)' = Everyone(q)
    BY <1>2, <2>1 DEF Effect
  <2>3. /\ \A q \in Resolvers \ {r} : queue'[q] = queue[q] /\ called'[q] = called[q]
        /\ queue'[r] = Tail(queue[r]) /\ Len(called[r]) \in Nat /\ Len(called'[r]) = Len(called[r]) + 1
    BY <2>1, EffectIs
  <2>4. /\ Len(queue'[r]) = Len(queue[r]) - 1 /\ Len(queue[r]) \in Nat
        /\ \A k \in DOMAIN queue'[r] : k \in Nat /\ k + 1 \in DOMAIN queue[r] /\ queue'[r][k] = queue[r][k + 1]
    BY <2>1, <2>3
  <2>5. /\ Len(called[r]) + Len(queue[r]) = Len(Everyone(r))
        /\ \A k \in DOMAIN queue[r] : queue[r][k] = Everyone(r)[Len(called[r]) + k]
    BY <2>1 DEF Progress
  <2>6. Len(called'[r]) + Len(queue'[r]) = Len(Everyone(r)')
    <3>1. (Len(called[r]) + 1) + (Len(queue[r]) - 1) = Len(called[r]) + Len(queue[r])
      <4>1. \A m, n \in Nat : (m + 1) + (n - 1) = m + n
        OBVIOUS
      <4>2. Len(called[r]) \in Nat /\ Len(queue[r]) \in Nat
        BY <2>3, <2>4
      <4> QED BY <4>1, <4>2, Zenon
    <3>2. Len(called'[r]) + Len(queue'[r]) = Len(called[r]) + Len(queue[r])
      BY <2>3, <2>4, <3>1
    <3>3. Len(Everyone(r)') = Len(Everyone(r))
      BY <2>2, Zenon
    <3> QED BY <2>5, <3>2, <3>3
  <2>7. ASSUME NEW k \in DOMAIN queue'[r] PROVE queue'[r][k] = Everyone(r)'[Len(called'[r]) + k]
    <3>1. queue'[r][k] = Everyone(r)[Len(called[r]) + (k + 1)] /\ k \in Nat
      BY <2>4, <2>5
    <3>2. Len(called[r]) + (k + 1) = Len(called'[r]) + k
      <4>1. Len(called[r]) \in Nat /\ Len(called'[r]) = Len(called[r]) + 1
        BY <2>3
      <4>2. k \in Nat
        BY <3>1
      <4>3. \A m, n \in Nat : m + (n + 1) = (m + 1) + n
        OBVIOUS
      <4> QED BY <4>1, <4>2, <4>3, Zenon
    <3> QED BY <2>2, <3>1, <3>2
  <2>8. ASSUME NEW q \in Resolvers \ {r}
        PROVE  IF queue'[q] = Nothing THEN called'[q] = <<>>
               ELSE /\ Len(called'[q]) + Len(queue'[q]) = Len(Everyone(q)')
                    /\ \A k \in DOMAIN queue'[q] : queue'[q][k] = Everyone(q)'[Len(called'[q]) + k]
    <3>1. queue'[q] = queue[q] /\ called'[q] = called[q] /\ Everyone(q)' = Everyone(q)
      BY <2>2, <2>3
    <3> QED BY <3>1 DEF Progress
  <2>9. queue'[r] # Nothing
    <3>1. Tail(queue[r]) \in Seq(Entry)
      BY <2>1
    <3> QED BY <2>3, <3>1, NothingIsNone
  <2> QED BY <2>6, <2>7, <2>8, <2>9 DEF Progress
<1>5. CASE UNCHANGED vars
  <2>1. \A r \in Resolvers : Everyone(r)' = Everyone(r)
    BY <1>2, <1>5 DEF vars
  <2> QED BY <1>5, <2>1 DEF vars, Progress
<1> QED BY <1>1, <1>3, <1>4, <1>5 DEF Next

(* Only a registration changes what is registered.                         *)
LEMMA OthersLeave ==
  ASSUME AddMember \/ ReadAgents \/ ApplyCentral \/ (\E r \in Resolvers : Load(r)) \/ UNCHANGED vars
  PROVE  UNCHANGED <<pool, index, owner, called>>
BY DEF AddMember, ReadAgents, ApplyCentral, Load, vars

LEMMA PooledStep == TypeOK /\ Pooled /\ [Next]_vars => Pooled'
<1> SUFFICES ASSUME TypeOK, Pooled, [Next]_vars PROVE Pooled'
  OBVIOUS
<1>1. CASE UNCHANGED <<pool, index, owner, called>>
  BY <1>1 DEF Pooled
<1>2. ASSUME NEW r \in Resolvers, Register(r) PROVE Pooled'
  <2> DEFINE code == Canonized(r, Head(queue[r]))
             name == NameKept(r, Head(queue[r]))
             n == Len(called[r]) + 1
  <2>1. code \in Words /\ name \in Words /\ Effect(r, code, name)
    BY <1>2, Registers, RegisterEffect
  <2> HIDE DEF code, name
  <2>2. /\ \A q \in Resolvers \ {r} : called'[q] = called[q] /\ pool'[q] = pool[q]
        /\ Len(called[r]) \in Nat /\ DOMAIN called[r] = 1..Len(called[r]) /\ DOMAIN called'[r] = 1..n
        /\ \A k \in DOMAIN called[r] : called'[r][k] = called[r][k]
        /\ called'[r][n] = [code |-> code, name |-> name]
        /\ DOMAIN pool'[r] = DOMAIN pool[r] \cup {code}
        /\ pool'[r][code] = name /\ \A c \in DOMAIN pool[r] \ {code} : pool'[r][c] = pool[r][c]
    BY <2>1, EffectIs
  <2>3. /\ called'[r][n].code = code /\ called'[r][n].name = name
        /\ n \in DOMAIN called'[r] /\ \A k \in DOMAIN called'[r] : k \in DOMAIN called[r] \/ k = n
        /\ \A k \in DOMAIN called[r] : k \in DOMAIN called'[r] /\ ~(k > n)
    BY <2>2
  <2>4. \A k \in DOMAIN called'[r] : called'[r][k].code \in DOMAIN pool'[r]
    BY <2>2, <2>3 DEF Pooled
  <2>5. ASSUME NEW c \in DOMAIN pool'[r]
        PROVE  \E k \in DOMAIN called'[r] :
                 /\ called'[r][k].code = c /\ called'[r][k].name = pool'[r][c]
                 /\ \A j \in DOMAIN called'[r] : j > k => called'[r][j].code # c
    <3>1. CASE c = code
      <4>1. \A j \in DOMAIN called'[r] : ~(j > n)
        BY <2>2
      <4> QED BY <2>2, <2>3, <3>1, <4>1
    <3>2. CASE c # code
      <4>1. c \in DOMAIN pool[r] /\ pool'[r][c] = pool[r][c]
        BY <2>2, <3>2
      <4>2. PICK k \in DOMAIN called[r] :
              /\ called[r][k].code = c /\ called[r][k].name = pool[r][c]
              /\ \A j \in DOMAIN called[r] : j > k => called[r][j].code # c
        BY <4>1 DEF Pooled
      <4>3. called'[r][k] = called[r][k] /\ k \in DOMAIN called'[r]
        BY <2>2, <2>3
      <4>4. \A j \in DOMAIN called'[r] : j > k => called'[r][j].code # c
        BY <2>2, <2>3, <3>2, <4>2
      <4> QED BY <4>1, <4>2, <4>3, <4>4
    <3> QED BY <3>1, <3>2
  <2>6. ASSUME NEW q \in Resolvers \ {r} PROVE called'[q] = called[q] /\ pool'[q] = pool[q]
    BY <2>2
  <2> QED BY <2>4, <2>5, <2>6 DEF Pooled
<1> QED BY <1>1, <1>2, OthersLeave DEF Next

(* A word resolves to a code registered, whose word it is: the code, in      *)
(* either case, its alias, or a name it had.                               *)
IndexMeans ==
  \A r \in Resolvers : \A w \in DOMAIN index[r] :
    index[r][w] \in DOMAIN pool[r] /\ w \in WordsIn(r, called[r], index[r][w])

LEMMA IndexMeansStep == TypeOK /\ IndexMeans /\ [Next]_vars => IndexMeans'
<1> SUFFICES ASSUME TypeOK, IndexMeans, [Next]_vars PROVE IndexMeans'
  OBVIOUS
<1>1. CASE UNCHANGED <<pool, index, owner, called>>
  BY <1>1 DEF IndexMeans
<1>2. ASSUME NEW r \in Resolvers, Register(r) PROVE IndexMeans'
  <2> DEFINE code == Canonized(r, Head(queue[r]))
             name == NameKept(r, Head(queue[r]))
  <2>1. code \in Words /\ name \in Words /\ Effect(r, code, name)
    BY <1>2, Registers, RegisterEffect
  <2> HIDE DEF code, name
  <2>2. /\ \A q \in Resolvers \ {r} : index'[q] = index[q] /\ pool'[q] = pool[q] /\ called'[q] = called[q]
        /\ DOMAIN pool'[r] = DOMAIN pool[r] \cup {code}
        /\ \A x : x \in NamesIn(called'[r], code) <=> x \in NamesIn(called[r], code) \/ x = Lower[name]
        /\ \A c : c # code => NamesIn(called'[r], c) = NamesIn(called[r], c)
    BY <2>1, EffectIs
  <2>3. ASSUME NEW w \in DOMAIN index'[r]
        PROVE  \/ w \in DOMAIN index[r] /\ index'[r][w] = index[r][w]
               \/ w \in {code, Lower[code], Alias(r, code), Lower[name]} /\ index'[r][w] = code
    <3>1. CASE r = "party"
      <4>1. index'[r] = PartyIndex(code, name)
        BY <2>1, <3>1 DEF Effect, TypeOK
      <4>2. PartyIndexed(index'[r], index[r], Claimed(code), code, name)
        BY <3>1, <4>1, PartyIndexIs
      <4> QED BY <2>3, <3>1, <4>2 DEF PartyIndexed, Alias
    <3>2. CASE r = "forge"
      <4>1. index'[r] = ForgeIndex(code, name)
        BY <2>1, <3>2 DEF Effect, TypeOK
      <4>2. ForgeIndexed(index'[r], index[r], code, name)
        BY <3>2, <4>1, ForgeIndexIs
      <4> QED BY <2>3, <3>2, <4>2 DEF ForgeIndexed, Alias
    <3> QED BY <3>1, <3>2, ResolverCases
  <2>4. ASSUME NEW w \in DOMAIN index'[r]
        PROVE  index'[r][w] \in DOMAIN pool'[r] /\ w \in WordsIn(r, called'[r], index'[r][w])
    <3>1. CASE w \in DOMAIN index[r] /\ index'[r][w] = index[r][w]
      <4>1. index[r][w] \in DOMAIN pool[r] /\ w \in WordsIn(r, called[r], index[r][w])
        BY <3>1 DEF IndexMeans
      <4> QED BY <2>2, <3>1, <4>1 DEF WordsIn
    <3>2. CASE w \in {code, Lower[code], Alias(r, code), Lower[name]} /\ index'[r][w] = code
      <4>1. Lower[name] \in NamesIn(called'[r], code)
        BY <2>2
      <4> QED BY <2>2, <3>2, <4>1 DEF WordsIn
    <3> QED BY <2>3, <3>1, <3>2
  <2>5. ASSUME NEW q \in Resolvers \ {r}
        PROVE  index'[q] = index[q] /\ pool'[q] = pool[q] /\ called'[q] = called[q]
    BY <2>2
  <2> QED BY <2>4, <2>5 DEF IndexMeans
<1> QED BY <1>1, <1>2, OthersLeave DEF Next

-----------------------------------------------------------------------------
(* What each registration is told by: the list that was loaded, and the      *)
(* registrations before it.                                                *)

Tells(r, list, p, k) ==
  /\ p.kind # "custom" => list[k].code = p.code
  /\ Lower[p.code] \in WordsIn(r, list, list[k].code)
  /\ p.name # Nothing => list[k].name = p.name
  /\ p.name = Nothing =>
       \/ /\ list[k].name = list[k].code
          /\ p.kind = "custom" => \A j \in 1..(k - 1) : list[j].code # list[k].code
       \/ /\ p.kind = "custom"
          /\ \E j \in 1..(k - 1) :
               /\ list[j].code = list[k].code /\ list[j].name = list[k].name
               /\ \A i \in (j + 1)..(k - 1) : list[i].code # list[k].code

Told ==
  \A r \in Resolvers : queue[r] # Nothing =>
    \A k \in DOMAIN called[r] : Tells(r, called[r], Everyone(r)[k], k)

(* A word's lower case belongs to whom the word belongs to.                *)
LEMMA LowerWords ==
  ASSUME TypeOK, NEW r \in Resolvers, NEW c \in Words, NEW w \in WordsIn(r, called[r], c)
  PROVE  Lower[w] \in WordsIn(r, called[r], c)
<1>1. \A k \in DOMAIN called[r] : called[r][k].name \in Words
  <2>1. called[r] \in Seq([code : Words, name : Words])
    BY DEF TypeOK
  <2>2. \A k \in DOMAIN called[r] : called[r][k] \in [code : Words, name : Words]
    BY <2>1, LenProperties
  <2> QED BY <2>2
<1>2. CASE w = c
  BY <1>2 DEF WordsIn
<1>3. CASE w = Lower[c] \/ w = Alias(r, c)
  <2>1. \E u \in Words : w = Lower[u]
    BY <1>3, WordsAssumption DEF Alias
  <2>2. Lower[w] = w
    BY <2>1, WordsAssumption
  <2> QED BY <2>2
<1>4. CASE w \in NamesIn(called[r], c)
  <2>1. \E u \in Words : w = Lower[u]
    BY <1>1, <1>4 DEF NamesIn
  <2>2. Lower[w] = w
    BY <2>1, WordsAssumption
  <2> QED BY <2>2
<1> QED BY <1>2, <1>3, <1>4 DEF WordsIn

LEMMA CanonicalIsMeant ==
  ASSUME TypeOK, IndexMeans, NEW r \in Resolvers, NEW w \in Words
  PROVE  Canonical(r, w) \in Words /\ Lower[w] \in WordsIn(r, called[r], Canonical(r, w))
<1>1. Lower[w] \in Words /\ Lower[Lower[w]] = Lower[w]
  BY WordsAssumption
<1>2. \A u \in DOMAIN index[r] : index[r][u] \in Words /\ u \in WordsIn(r, called[r], index[r][u])
  BY DEF TypeOK, IsDict, IndexMeans
<1>3. CASE w \in DOMAIN index[r]
  BY <1>2, <1>3, LowerWords DEF Canonical
<1>4. CASE w \notin DOMAIN index[r] /\ Lower[w] \in DOMAIN index[r]
  BY <1>2, <1>4 DEF Canonical
<1>5. CASE w \notin DOMAIN index[r] /\ Lower[w] \notin DOMAIN index[r]
  BY <1>5 DEF Canonical, WordsIn
<1> QED BY <1>3, <1>4, <1>5

LEMMA ToldStep == TypeOK /\ Stages /\ Progress /\ Pooled /\ IndexMeans /\ Told /\ [Next]_vars => Told'
<1> SUFFICES ASSUME TypeOK, Stages, Progress, Pooled, IndexMeans, Told, [Next]_vars PROVE Told'
  OBVIOUS
<1>1. CASE AddMember \/ ReadAgents \/ ApplyCentral
  <2>1. \A r \in Resolvers : queue'[r] = Nothing
    BY <1>1 DEF AddMember, ReadAgents, ApplyCentral, Stages
  <2> QED BY <2>1 DEF Told
<1>2. ASSUME UNCHANGED <<world, members, agents>>, NEW r \in Resolvers PROVE Everyone(r)' = Everyone(r)
  BY <1>2 DEF Everyone, Agents, Guests, Customs
<1>3. ASSUME NEW r \in Resolvers, Load(r) PROVE Told'
  <2>1. /\ \A q \in Resolvers \ {r} : queue'[q] = queue[q]
        /\ UNCHANGED <<world, members, agents, called>> /\ called[r] = <<>>
    BY <1>3 DEF Load, Progress, TypeOK
  <2>2. DOMAIN called'[r] = {}
    BY <2>1
  <2>3. \A q \in Resolvers : Everyone(q)' = Everyone(q)
    BY <1>2, <2>1
  <2>4. ASSUME NEW q \in Resolvers \ {r}
        PROVE  queue'[q] = queue[q] /\ called'[q] = called[q] /\ Everyone(q)' = Everyone(q)
    BY <2>1, <2>3
  <2> QED BY <2>2, <2>4 DEF Told
<1>4. ASSUME NEW r \in Resolvers, Register(r) PROVE Told'
  <2> DEFINE p == Head(queue[r])
             code == Canonized(r, p)
             name == NameKept(r, p)
             n == Len(called[r]) + 1
  <2>1. /\ queue[r] \in Seq(Entry) /\ queue[r] # <<>> /\ p \in Entry /\ code \in Words /\ name \in Words
        /\ Effect(r, code, name) /\ queue[r] # Nothing
    BY <1>4, Registers, RegisterEffect DEF Register
  <2>2. p = Everyone(r)[n]
    <3>1. 1 \in DOMAIN queue[r] /\ p = queue[r][1]
      BY <2>1
    <3> QED BY <2>1, <3>1 DEF Progress
  <2>3. code \in Words /\ Lower[p.code] \in WordsIn(r, called[r], code) /\ (p.kind # "custom" => code = p.code)
    <3>1. p.code \in Words
      BY <2>1 DEF Entry
    <3>2. CASE p.kind = "custom"
      BY <2>1, <3>1, <3>2, CanonicalIsMeant DEF Canonized
    <3>3. CASE p.kind # "custom"
      BY <2>1, <3>3 DEF Canonized, WordsIn
    <3> QED BY <3>2, <3>3
  <2>4. /\ p.name # Nothing => name = p.name
        /\ p.name = Nothing /\ p.kind = "custom" /\ code \in DOMAIN pool[r] => name = pool[r][code]
        /\ p.name = Nothing /\ ~(p.kind = "custom" /\ code \in DOMAIN pool[r]) => name = code
    BY DEF NameKept
  <2> HIDE DEF code, name, p
  <2>5. /\ \A q \in Resolvers \ {r} : called'[q] = called[q] /\ queue'[q] = queue[q]
        /\ Len(called[r]) \in Nat /\ DOMAIN called[r] = 1..Len(called[r]) /\ DOMAIN called'[r] = 1..n
        /\ \A k \in DOMAIN called[r] : called'[r][k] = called[r][k]
        /\ called'[r][n] = [code |-> code, name |-> name]
    BY <2>1, EffectIs
  <2>6. \A c : NamesIn(called[r], c) \subseteq NamesIn(called'[r], c)
    <3>1. \A k \in DOMAIN called[r] : k \in DOMAIN called'[r]
      BY <2>5
    <3> QED BY <2>5, <3>1 DEF NamesIn
  <2>7. \A c : WordsIn(r, called[r], c) \subseteq WordsIn(r, called'[r], c)
    BY <2>6 DEF WordsIn
  <2>8. \A q \in Resolvers : Everyone(q)' = Everyone(q)
    BY <1>2, <2>1 DEF Effect
  <2>9. ASSUME NEW k \in DOMAIN called[r] PROVE Tells(r, called'[r], Everyone(r)[k], k)
    <3>1. Tells(r, called[r], Everyone(r)[k], k)
      BY <2>1 DEF Told
    <3>2. called'[r][k] = called[r][k] /\ \A j \in 1..(k - 1) : called'[r][j] = called[r][j]
      BY <2>5
    <3>3. \A j \in 1..(k - 1) : \A i \in (j + 1)..(k - 1) : i \in 1..(k - 1)
      BY <2>5
    <3> QED BY <2>7, <3>1, <3>2, <3>3 DEF Tells
  <2>10. Tells(r, called'[r], p, n)
    <3>1. called'[r][n].code = code /\ called'[r][n].name = name
      BY <2>5
    <3>2. 1..(n - 1) = DOMAIN called[r]
      BY <2>5
    <3>3. \A j \in DOMAIN called[r] : called'[r][j] = called[r][j]
      BY <2>5
    <3>4. CASE p.name # Nothing
      BY <2>3, <2>4, <2>7, <3>1, <3>4 DEF Tells
    <3>5. CASE p.name = Nothing /\ p.kind = "custom" /\ code \in DOMAIN pool[r]
      <4>1. PICK j \in DOMAIN called[r] :
              /\ called[r][j].code = code /\ called[r][j].name = pool[r][code]
              /\ \A i \in DOMAIN called[r] : i > j => called[r][i].code # code
        BY <3>5 DEF Pooled
      <4>2. \A i \in (j + 1)..(n - 1) : i \in DOMAIN called[r] /\ i > j
        BY <2>5, <4>1
      <4>3. name = pool[r][code]
        BY <2>4, <3>5
      <4> QED BY <2>3, <2>7, <3>1, <3>2, <3>3, <3>5, <4>1, <4>2, <4>3 DEF Tells
    <3>6. CASE p.name = Nothing /\ ~(p.kind = "custom" /\ code \in DOMAIN pool[r])
      <4>1. name = code
        BY <2>4, <3>6
      <4>2. p.kind = "custom" => \A j \in DOMAIN called[r] : called[r][j].code # code
        BY <3>6 DEF Pooled
      <4> QED BY <2>3, <2>7, <3>1, <3>2, <3>3, <3>6, <4>1, <4>2 DEF Tells
    <3> QED BY <3>4, <3>5, <3>6
  <2>11. \A k \in DOMAIN called'[r] : Tells(r, called'[r], Everyone(r)'[k], k)
    <3>1. \A k \in DOMAIN called'[r] : k \in DOMAIN called[r] \/ k = n
      BY <2>5
    <3> QED BY <2>2, <2>8, <2>9, <2>10, <3>1
  <2>12. ASSUME NEW q \in Resolvers \ {r}
         PROVE  queue'[q] = queue[q] /\ called'[q] = called[q] /\ Everyone(q)' = Everyone(q)
    BY <2>5, <2>8
  <2> QED BY <2>11, <2>12 DEF Told
<1>5. CASE UNCHANGED vars
  <2>1. \A r \in Resolvers : Everyone(r)' = Everyone(r)
    BY <1>2, <1>5 DEF vars
  <2> QED BY <1>5, <2>1 DEF vars, Told
<1> QED BY <1>1, <1>3, <1>4, <1>5 DEF Next

-----------------------------------------------------------------------------
(* The names agents keep in the forge. *)

NameHolds(i) ==
  LET name == Lower[Named(Agents[i])]
  IN \/ name \in DOMAIN index["forge"] /\ index["forge"][name] = Agents[i].code
     \/ \E c \in DOMAIN pool["forge"] \ {Agents[i].code} : name \in {Lower[c], Lower[ForgeAlias[c]]}
     \/ \E j \in 1..(i - 1) : Lower[Named(Agents[j])] = name

(* So far.                                                                 *)
AgentsNamed ==
  queue["forge"] # Nothing => \A i \in DOMAIN Agents \cap DOMAIN called["forge"] : NameHolds(i)

LEMMA AgentsAre ==
  ASSUME TypeOK, agents # Nothing, NEW i \in DOMAIN Agents
  PROVE  /\ Agents[i].code \in Words /\ Named(Agents[i]) \in Words
         /\ Lower[Lower[Named(Agents[i])]] = Lower[Named(Agents[i])]
<1>1. Agents \in Seq(Keyed)
  BY EveryoneType DEF Resolvers
<1>2. Agents[i] \in Keyed
  BY <1>1
<1>3. Named(Agents[i]) \in Words /\ Agents[i].code \in Words
  BY <1>2 DEF Named, Keyed
<1> QED BY <1>3, WordsAssumption

(* An agent is registered as itself.                                       *)
LEMMA AgentsCalled ==
  ASSUME TypeOK, agents # Nothing, NEW r \in Resolvers, NEW list, NEW i \in DOMAIN Agents,
         Tells(r, list, Everyone(r)[i], i)
  PROVE  list[i].code = Agents[i].code /\ list[i].name = Named(Agents[i])
<1>1. Everyone(r)[i] = [code |-> Agents[i].code, name |-> Agents[i].name, kind |-> "agent"]
  BY EveryoneType
<1> DEFINE p == Everyone(r)[i]
<1>2. p.code = Agents[i].code /\ p.name = Agents[i].name /\ p.kind = "agent"
  BY <1>1
<1> HIDE DEF p
<1>3. Tells(r, list, p, i)
  BY DEF p
<1>4. p.kind # "custom"
  BY <1>2
<1> QED BY <1>2, <1>3, <1>4 DEF Tells, Named

LEMMA AgentsNamedStep ==
  TypeOK /\ Stages /\ Progress /\ IndexMeans /\ Told /\ Told' /\ AgentsNamed /\ [Next]_vars => AgentsNamed'
<1> SUFFICES ASSUME TypeOK, Stages, Progress, IndexMeans, Told, Told', AgentsNamed, [Next]_vars PROVE AgentsNamed'
  OBVIOUS
<1>0. "forge" \in Resolvers
  BY DEF Resolvers
<1>1. CASE AddMember \/ ReadAgents \/ ApplyCentral
  <2>1. queue'["forge"] = Nothing
    BY <1>0, <1>1 DEF AddMember, ReadAgents, ApplyCentral, Stages
  <2> QED BY <2>1 DEF AgentsNamed
<1>2. ASSUME UNCHANGED <<world, agents>> PROVE Agents' = Agents
  BY <1>2 DEF Agents
<1>3. ASSUME UNCHANGED <<world, agents, queue, called, index, pool>> PROVE AgentsNamed'
  BY <1>2, <1>3 DEF AgentsNamed, NameHolds
<1>4. ASSUME Load("forge") PROVE AgentsNamed'
  <2>1. called["forge"] = <<>> /\ called' = called
    BY <1>0, <1>4 DEF Load, Progress
  <2>2. DOMAIN called'["forge"] = {}
    BY <2>1
  <2> QED BY <2>2 DEF AgentsNamed
<1>5. ASSUME Load("party") PROVE AgentsNamed'
  <2>1. UNCHANGED <<world, agents, called, index, pool>> /\ queue'["forge"] = queue["forge"]
    BY <1>5 DEF Load, TypeOK, Resolvers
  <2> QED BY <1>2, <2>1 DEF AgentsNamed, NameHolds
<1>6. ASSUME Register("party") PROVE AgentsNamed'
  <2>1. UNCHANGED <<world, agents>> /\ queue'["forge"] = queue["forge"] /\ called'["forge"] = called["forge"]
        /\ index'["forge"] = index["forge"] /\ pool'["forge"] = pool["forge"]
    BY <1>6 DEF Register, TypeOK, Resolvers
  <2> QED BY <1>2, <2>1 DEF AgentsNamed, NameHolds
<1>7. ASSUME Register("forge") PROVE AgentsNamed'
  <2> DEFINE code == Canonized("forge", Head(queue["forge"]))
             name == NameKept("forge", Head(queue["forge"]))
             n == Len(called["forge"]) + 1
  <2>1. code \in Words /\ name \in Words /\ Effect("forge", code, name) /\ queue["forge"] # Nothing
    BY <1>0, <1>7, Registers, RegisterEffect DEF Register
  <2> HIDE DEF code, name
  <2>2. agents # Nothing /\ Agents' = Agents
    BY <1>0, <1>2, <2>1 DEF Stages, Effect
  <2>3. index'["forge"] = ForgeIndex(code, name)
    BY <2>1 DEF Effect, TypeOK, Resolvers
  <2>4. ForgeIndexed(index'["forge"], index["forge"], code, name)
    BY <2>3, ForgeIndexIs
  <2>5. /\ Len(called["forge"]) \in Nat /\ DOMAIN called["forge"] = 1..Len(called["forge"])
        /\ DOMAIN called'["forge"] = 1..n
        /\ called'["forge"][n] = [code |-> code, name |-> name]
        /\ DOMAIN pool'["forge"] = DOMAIN pool["forge"] \cup {code}
    BY <1>0, <2>1, EffectIs
  <2>6. ASSUME NEW i \in DOMAIN Agents \cap DOMAIN called["forge"]
        PROVE  LET w == Lower[Named(Agents[i])]
               IN \/ w \in DOMAIN index'["forge"] /\ index'["forge"][w] = Agents[i].code
                  \/ \E c \in DOMAIN pool'["forge"] \ {Agents[i].code} : w \in {Lower[c], Lower[ForgeAlias[c]]}
                  \/ \E j \in 1..(i - 1) : Lower[Named(Agents[j])] = w
    <3> DEFINE w == Lower[Named(Agents[i])]
    <3>1. NameHolds(i)
      BY <2>1 DEF AgentsNamed
    <3>2. Lower[w] = w
      BY <2>2, AgentsAre
    <3> HIDE DEF w
    <3>3. CASE w \in DOMAIN index["forge"] /\ index["forge"][w] = Agents[i].code
      <4>1. w \in DOMAIN index'["forge"]
        BY <2>4, <3>3 DEF ForgeIndexed
      <4>2. CASE w \in {code, Lower[code], Lower[ForgeAlias[code]]}
        <5>1. index'["forge"][w] = code
          BY <2>4, <4>2 DEF ForgeIndexed
        <5>2. w \in {Lower[code], Lower[ForgeAlias[code]]}
          BY <3>2, <4>2
        <5> QED BY <2>5, <4>1, <5>1, <5>2 DEF w
      <4>3. CASE w \notin {code, Lower[code], Lower[ForgeAlias[code]]}
        <5>1. index'["forge"][w] = index["forge"][w]
          BY <2>4, <3>3, <4>3 DEF ForgeIndexed
        <5> QED BY <3>3, <4>1, <5>1 DEF w
      <4> QED BY <4>2, <4>3
    <3>4. CASE \E c \in DOMAIN pool["forge"] \ {Agents[i].code} : w \in {Lower[c], Lower[ForgeAlias[c]]}
      BY <2>5, <3>4 DEF w
    <3>5. CASE \E j \in 1..(i - 1) : Lower[Named(Agents[j])] = w
      BY <3>5 DEF w
    <3> QED BY <3>1, <3>3, <3>4, <3>5 DEF NameHolds, w
  <2>7. ASSUME n \in DOMAIN Agents
        PROVE  LET w == Lower[Named(Agents[n])]
               IN \/ w \in DOMAIN index'["forge"] /\ index'["forge"][w] = Agents[n].code
                  \/ \E c \in DOMAIN pool'["forge"] \ {Agents[n].code} : w \in {Lower[c], Lower[ForgeAlias[c]]}
                  \/ \E j \in 1..(n - 1) : Lower[Named(Agents[j])] = w
    <3> DEFINE w == Lower[Named(Agents[n])]
    <3>1. code = Agents[n].code /\ name = Named(Agents[n])
      <4>1. n \in DOMAIN called'["forge"] /\ queue'["forge"] # Nothing
        <5>1. Tail(queue["forge"]) \in Seq(Entry)
          BY <1>0, <1>7, Registers
        <5>2. queue'["forge"] = Tail(queue["forge"])
          BY <1>0, <2>1, EffectIs
        <5> QED BY <2>5, <5>1, <5>2, NothingIsNone
      <4>2. Everyone("forge")' = Everyone("forge")
        BY <2>1 DEF Effect, Everyone, Agents, Guests, Customs
      <4>3. Tells("forge", called'["forge"], Everyone("forge")[n], n)
        BY <1>0, <4>1, <4>2 DEF Told
      <4>4. called'["forge"][n].code = Agents[n].code /\ called'["forge"][n].name = Named(Agents[n])
        BY <1>0, <2>2, <2>7, <4>3, AgentsCalled
      <4> QED BY <2>5, <4>4
    <3>2. Lower[w] = w
      BY <2>2, <2>7, AgentsAre
    <3>3. w \in DOMAIN index'["forge"]
      BY <2>4, <3>1 DEF ForgeIndexed
    <3> HIDE DEF w
    <3>4. CASE w \in {code, Lower[code], Lower[ForgeAlias[code]]} \/ w \notin DOMAIN index["forge"]
      <4>1. index'["forge"][w] = code
        BY <2>4, <3>3, <3>4 DEF ForgeIndexed
      <4> QED BY <3>1, <3>3, <4>1 DEF w
    <3>5. CASE w \notin {code, Lower[code], Lower[ForgeAlias[code]]} /\ w \in DOMAIN index["forge"]
      <4> DEFINE d == index["forge"][w]
      <4>1. index'["forge"][w] = d
        BY <2>4, <3>5 DEF ForgeIndexed
      <4>2. d \in DOMAIN pool["forge"] /\ w \in WordsIn("forge", called["forge"], d)
        BY <1>0, <3>5 DEF IndexMeans
      <4> HIDE DEF d
      <4>3. CASE d = code
        BY <3>1, <3>3, <4>1, <4>3 DEF w
      <4>4. CASE d # code /\ w \in {d, Lower[d], Alias("forge", d)}
        <5>1. w \in {Lower[d], Lower[ForgeAlias[d]]}
          BY <3>2, <4>4 DEF Alias
        <5> QED BY <2>5, <3>1, <4>2, <4>4, <5>1 DEF w
      <4>5. CASE w \in NamesIn(called["forge"], d)
        <5>1. PICK k \in DOMAIN called["forge"] : w = Lower[called["forge"][k].name]
          BY <4>5 DEF NamesIn
        <5>2. k \in 1..(n - 1) /\ k \in DOMAIN Agents
          <6>1. Agents \in Seq(Keyed)
            BY <1>0, <2>2, EveryoneType
          <6>2. DOMAIN Agents = 1..Len(Agents) /\ Len(Agents) \in Nat
            BY <6>1
          <6> QED BY <2>5, <2>7, <6>2
        <5>3. Tells("forge", called["forge"], Everyone("forge")[k], k)
          BY <1>0, <2>1 DEF Told
        <5>4. called["forge"][k].name = Named(Agents[k])
          BY <1>0, <2>2, <5>2, <5>3, AgentsCalled
        <5> QED BY <5>1, <5>2, <5>4 DEF w
      <4> QED BY <4>2, <4>3, <4>4, <4>5 DEF WordsIn
    <3> QED BY <3>4, <3>5
  <2>8. \A i \in DOMAIN called'["forge"] : i \in DOMAIN called["forge"] \/ i = n
    BY <2>5
  <2> QED BY <2>2, <2>6, <2>7, <2>8 DEF AgentsNamed, NameHolds
<1>8. CASE UNCHANGED vars
  BY <1>3, <1>8 DEF vars
<1> QED BY <1>1, <1>4, <1>5, <1>6, <1>7, <1>8, ResolverCases DEF Next

History == TypeOK /\ Stages /\ Progress /\ Pooled /\ IndexMeans /\ Told /\ AgentsNamed

LEMMA HistoryAlways == Spec => []History
<1>1. Init => History
  <2> SUFFICES ASSUME Init PROVE History
    OBVIOUS
  <2>1. \A r \in Resolvers : queue[r] = Nothing /\ called[r] = <<>> /\ DOMAIN pool[r] = {} /\ DOMAIN index[r] = {}
    BY DEF Init, Empty
  <2>2. "forge" \in Resolvers
    BY DEF Resolvers
  <2>3. Stages
    BY DEF Init, Stages
  <2>4. Pooled
    BY <2>1 DEF Pooled
  <2> QED BY <2>1, <2>2, <2>3, <2>4, TypeInit DEF History, Progress, IndexMeans, Told, AgentsNamed
<1>2. History /\ [Next]_vars => History'
  <2> SUFFICES ASSUME History, [Next]_vars PROVE History'
    OBVIOUS
  <2>1. TypeOK' /\ Stages' /\ Progress' /\ Pooled' /\ IndexMeans' /\ Told'
    BY TypeStep, StagesStep, ProgressStep, PooledStep, IndexMeansStep, ToldStep DEF History
  <2>2. AgentsNamed'
    BY <2>1, AgentsNamedStep DEF History
  <2> QED BY <2>1, <2>2 DEF History
<1> QED BY <1>1, <1>2, PTL DEF Spec

(* In the forge an agent answers to the name it came with, unless another's  *)
(* code or alias is that name, or an agent before it has it.               *)
THEOREM AgentsKeepNames == Spec => []AgentsKeepTheirNames
<1>1. History => AgentsKeepTheirNames
  <2> SUFFICES ASSUME History, Ready("forge"), NEW i \in DOMAIN Agents PROVE NameHolds(i)
    BY Zenon DEF AgentsKeepTheirNames, NameHolds
  <2>1. "forge" \in Resolvers /\ queue["forge"] = <<>> /\ queue["forge"] # Nothing
    BY EmptyIsSomething DEF Resolvers, Ready
  <2>2. agents # Nothing
    BY <2>1 DEF History, Stages
  <2>3. called["forge"] \in Seq([code : Words, name : Words])
    BY <2>1 DEF History, TypeOK
  <2>4. Len(called["forge"]) + Len(queue["forge"]) = Len(Everyone("forge"))
    BY <2>1 DEF History, Progress
  <2>5. Len(queue["forge"]) = 0 /\ Len(called["forge"]) \in Nat
    BY <2>1, <2>3
  <2>6. Len(called["forge"]) = Len(Everyone("forge"))
    BY <2>4, <2>5
  <2>7. /\ Agents \in Seq(Keyed) /\ Everyone("forge") \in Seq(Entry) /\ i \in DOMAIN Everyone("forge")
    BY <2>1, <2>2, EveryoneType DEF History
  <2>8. i \in DOMAIN called["forge"]
    BY <2>3, <2>6, <2>7
  <2> QED BY <2>1, <2>8 DEF History, AgentsNamed
<1> QED BY <1>1, HistoryAlways, PTL

-----------------------------------------------------------------------------
(* What a full code and a contested alias mean in party mode. *)

(* An alias's owner is the one person of the pool who has it.               *)
Owners ==
  /\ \A c \in DOMAIN pool["party"] : Alias("party", c) \in DOMAIN owner
  /\ \A a \in DOMAIN owner : owner[a] # Nothing =>
       /\ owner[a] \in DOMAIN pool["party"]
       /\ \A c \in DOMAIN pool["party"] : Alias("party", c) = a <=> c = owner[a]

(* A word is the code or a name of whom it resolves to, or an alias of its own. *)
OwnedWords ==
  \A w \in DOMAIN index["party"] :
    LET d == index["party"][w]
    IN w \in {d, Lower[d]} \cup NamesIn(called["party"], d) \/ (w \in DOMAIN owner /\ owner[w] = d)

FullCodes ==
  \A c \in DOMAIN pool["party"] :
    \/ c \in DOMAIN index["party"] /\ index["party"][c] = c
    \/ \E d \in DOMAIN pool["party"] \ {c} : c \in NamesIn(called["party"], d) \/ Lower[d] = c

Summons == Owners /\ OwnedWords /\ FullCodes

LEMMA SummonsStep == TypeOK /\ IndexMeans /\ Summons /\ [Next]_vars => Summons'
<1> SUFFICES ASSUME TypeOK, IndexMeans, Summons, [Next]_vars PROVE Summons'
  OBVIOUS
<1>0. "party" \in Resolvers
  BY DEF Resolvers
<1>1. ASSUME pool'["party"] = pool["party"], index'["party"] = index["party"],
             called'["party"] = called["party"], owner' = owner
      PROVE  Summons'
  BY <1>1 DEF Summons, Owners, OwnedWords, FullCodes
<1>2. CASE UNCHANGED <<pool, index, owner, called>>
  BY <1>1, <1>2
<1>3. CASE Register("forge")
  <2>1. "forge" \in Resolvers /\ "party" \in Resolvers \ {"forge"}
    BY DEF Resolvers
  <2>2. /\ pool'["party"] = pool["party"] /\ index'["party"] = index["party"]
        /\ called'["party"] = called["party"] /\ owner' = owner
    BY <1>3, <2>1 DEF Register, TypeOK
  <2> QED BY <1>1, <2>2
<1>4. CASE Register("party")
  <2> DEFINE code == Canonized("party", Head(queue["party"]))
             name == NameKept("party", Head(queue["party"]))
             alias == Alias("party", code)
             claimed == Claimed(code)
  <2>1. code \in Words /\ name \in Words /\ Effect("party", code, name)
    BY <1>0, <1>4, Registers, RegisterEffect
  <2> HIDE DEF code, name
  <2>2. /\ DOMAIN pool'["party"] = DOMAIN pool["party"] \cup {code}
        /\ \A x : x \in NamesIn(called'["party"], code) <=> x \in NamesIn(called["party"], code) \/ x = Lower[name]
        /\ \A c : c # code => NamesIn(called'["party"], c) = NamesIn(called["party"], c)
    BY <1>0, <2>1, EffectIs
  <2>3. index'["party"] = PartyIndex(code, name) /\ owner' = Claims(code)
    BY <1>0, <2>1 DEF Effect, TypeOK
  <2>4. PartyIndexed(index'["party"], index["party"], claimed, code, name)
    BY <2>3, PartyIndexIs
  <2>5. /\ claimed = (IF alias \in DOMAIN owner THEN owner[alias] ELSE code)
        /\ IsPut(owner', owner, alias, IF claimed = code THEN code ELSE Nothing)
    BY <2>3, Puts DEF Claimed, Claims, Alias
  <2>6. Lower[alias] = alias /\ alias \in Words
    BY <2>1, WordsAssumption DEF Alias
  <2>7. alias = Lower[PartyAlias[code]]
    BY DEF Alias
  <2>8. code # Nothing
    BY <2>1, NothingIsNone
  <2> HIDE DEF alias, claimed
  <2>9. \A x : \A c : x \in NamesIn(called["party"], c) => x \in NamesIn(called'["party"], c)
    BY <2>2
  <2>10. Owners'
    <3>1. DOMAIN owner' = DOMAIN owner \cup {alias} /\ \A a \in DOMAIN owner : a # alias => owner'[a] = owner[a]
      BY <2>5 DEF IsPut
    <3>2. owner'[alias] = IF claimed = code THEN code ELSE Nothing
      BY <2>5 DEF IsPut
    <3>3. \A c \in DOMAIN pool'["party"] : Alias("party", c) \in DOMAIN owner'
      BY <2>2, <3>1 DEF Summons, Owners, alias
    <3>4. ASSUME NEW a \in DOMAIN owner', owner'[a] # Nothing
          PROVE  /\ owner'[a] \in DOMAIN pool'["party"]
                 /\ \A c \in DOMAIN pool'["party"] : Alias("party", c) = a <=> c = owner'[a]
      <4>1. CASE a = alias
        <5>1. claimed = code /\ owner'[a] = code
          BY <3>2, <3>4, <4>1
        <5>2. \A c \in DOMAIN pool["party"] : Alias("party", c) = a <=> c = code
          <6>1. CASE alias \in DOMAIN owner
            BY <2>5, <2>8, <4>1, <5>1, <6>1 DEF Summons, Owners
          <6>2. CASE alias \notin DOMAIN owner
            BY <4>1, <6>2 DEF Summons, Owners, alias
          <6> QED BY <6>1, <6>2
        <5> QED BY <2>2, <4>1, <5>1, <5>2 DEF alias
      <4>2. CASE a # alias
        <5>1. a \in DOMAIN owner /\ owner'[a] = owner[a] /\ owner[a] # Nothing
          BY <3>1, <3>4, <4>2
        <5>2. /\ owner[a] \in DOMAIN pool["party"]
              /\ \A c \in DOMAIN pool["party"] : Alias("party", c) = a <=> c = owner[a]
          BY <5>1 DEF Summons, Owners
        <5>3. Alias("party", code) # a /\ code # owner[a]
          BY <4>2, <5>2 DEF alias
        <5> QED BY <2>2, <5>1, <5>2, <5>3
      <4> QED BY <4>1, <4>2
    <3> QED BY <3>3, <3>4 DEF Owners
  <2>11. OwnedWords'
    <3>1. ASSUME NEW w \in DOMAIN index'["party"]
          PROVE  LET d == index'["party"][w]
                 IN w \in {d, Lower[d]} \cup NamesIn(called'["party"], d) \/ (w \in DOMAIN owner' /\ owner'[w] = d)
      <4>1. CASE w \in {code, Lower[code], Lower[name]}
        <5>1. index'["party"][w] = code
          BY <2>4, <4>1 DEF PartyIndexed
        <5> QED BY <2>2, <4>1, <5>1
      <4>2. CASE w = alias /\ claimed = code /\ index'["party"][w] = code
        <5>1. w \in DOMAIN owner' /\ owner'[w] = code
          BY <2>5, <4>2 DEF IsPut
        <5> QED BY <4>2, <5>1
      <4>3. CASE /\ w \in DOMAIN index["party"] /\ index'["party"][w] = index["party"][w]
                 /\ w = alias /\ claimed \notin {code, Nothing} /\ index["party"][w] = claimed => w = Lower[claimed]
        <5> DEFINE d == index["party"][w]
        <5>1. d # Nothing
          BY <1>0, <4>3, NothingIsNone DEF TypeOK, IsDict
        <5>2. w \in {d, Lower[d]} \cup NamesIn(called["party"], d) \/ (w \in DOMAIN owner /\ owner[w] = d)
          BY <4>3 DEF Summons, OwnedWords
        <5>3. index'["party"][w] = d /\ (w = alias /\ claimed \notin {code, Nothing} /\ d = claimed => w = Lower[claimed])
          BY <4>3
        <5> HIDE DEF d
        <5>4. CASE w \in {d, Lower[d]} \cup NamesIn(called["party"], d)
          BY <2>9, <5>3, <5>4
        <5>5. CASE w \in DOMAIN owner /\ owner[w] = d /\ w # alias
          <6>1. w \in DOMAIN owner' /\ owner'[w] = owner[w]
            BY <2>5, <5>5 DEF IsPut
          <6> QED BY <5>3, <5>5, <6>1
        <5>6. CASE w \in DOMAIN owner /\ owner[w] = d /\ w = alias
          <6>1. claimed = d
            BY <2>5, <5>6
          <6>2. d = code => w \in DOMAIN owner' /\ owner'[w] = code
            BY <2>5, <5>6, <6>1 DEF IsPut
          <6> QED BY <5>1, <5>3, <5>6, <6>1, <6>2
        <5> QED BY <5>2, <5>4, <5>5, <5>6
      <4> QED BY <2>4, <2>7, <3>1, <4>1, <4>2, <4>3 DEF PartyIndexed
    <3> QED BY <3>1 DEF OwnedWords
  <2>12. FullCodes'
    <3>1. ASSUME NEW c \in DOMAIN pool'["party"]
          PROVE  \/ c \in DOMAIN index'["party"] /\ index'["party"][c] = c
                 \/ \E d \in DOMAIN pool'["party"] \ {c} : c \in NamesIn(called'["party"], d) \/ Lower[d] = c
      <4>1. CASE c = code
        BY <2>4, <4>1 DEF PartyIndexed
      <4>2. CASE c \in {Lower[code], Lower[name]} /\ c # code
        BY <2>2, <4>2
      <4>3. CASE c \notin {code, Lower[code], Lower[name]}
        <5>1. \/ c \in DOMAIN index["party"] /\ index["party"][c] = c
              \/ \E d \in DOMAIN pool["party"] \ {c} : c \in NamesIn(called["party"], d) \/ Lower[d] = c
          BY <2>2, <4>3 DEF Summons, FullCodes
        <5>2. CASE \E d \in DOMAIN pool["party"] \ {c} : c \in NamesIn(called["party"], d) \/ Lower[d] = c
          BY <2>2, <2>9, <5>2
        <5>3. CASE c \in DOMAIN index["party"] /\ index["party"][c] = c
          BY <2>4, <2>6, <2>7, <4>3, <5>3 DEF PartyIndexed
        <5> QED BY <5>1, <5>2, <5>3
      <4> QED BY <4>1, <4>2, <4>3
    <3> QED BY <3>1 DEF FullCodes
  <2> QED BY <2>10, <2>11, <2>12 DEF Summons
<1> QED BY <1>2, <1>3, <1>4, OthersLeave, ResolverCases DEF Next

(* In party mode a full code summons its owner, unless it is somebody's name *)
(* or another's code in lower case, and an alias two people have resolves   *)
(* to neither, unless it is a whole code or a name.                        *)
THEOREM FullCodesSummon == Spec => []WordsSummon
<1>1. Init => Summons
  BY DEF Init, Empty, Resolvers, Summons, Owners, OwnedWords, FullCodes
<1>2. History /\ Summons /\ [Next]_vars => Summons'
  BY SummonsStep DEF History
<1>3. History /\ Summons => WordsSummon
  <2> SUFFICES ASSUME History, Summons PROVE WordsSummon
    OBVIOUS
  <2>1. \A c : Names("party", c) = NamesIn(called["party"], c)
    BY DEF Names, NamesIn
  <2>2. \A c \in DOMAIN pool["party"] :
          \/ c \in DOMAIN index["party"] /\ index["party"][c] = c
          \/ CalledBy("party", c) \ {c} # {}
          \/ \E d \in DOMAIN pool["party"] \ {c} : Lower[d] = c
    BY <2>1 DEF Summons, FullCodes, CalledBy
  <2>3. ASSUME NEW w \in DOMAIN index["party"],
               Cardinality({c \in DOMAIN pool["party"] : Lower[PartyAlias[c]] = w}) > 1
        PROVE  Lower[index["party"][w]] = w \/ w \in Names("party", index["party"][w])
    <3> DEFINE have == {c \in DOMAIN pool["party"] : Lower[PartyAlias[c]] = w}
               d == index["party"][w]
    <3>1. have # {} /\ \A e : have # {e}
      <4> HIDE DEF have
      <4>1. Cardinality({}) = 0 /\ \A e : Cardinality({e}) = 1
        BY FS_EmptySet, FS_Singleton
      <4> QED BY <2>3, <4>1 DEF have
    <3>2. Lower[w] = w
      <4>1. \A c \in DOMAIN pool["party"] : c \in Words
        BY DEF History, TypeOK, IsDict, Resolvers
      <4> QED BY <3>1, <4>1, WordsAssumption
    <3>3. w \in {d, Lower[d]} \cup NamesIn(called["party"], d) \/ (w \in DOMAIN owner /\ owner[w] = d)
      BY DEF Summons, OwnedWords
    <3>4. CASE w \in DOMAIN owner /\ owner[w] = d
      <4>1. d # Nothing
        BY NothingIsNone DEF History, TypeOK, IsDict, Resolvers
      <4>2. d \in DOMAIN pool["party"] /\ \A c \in DOMAIN pool["party"] : Alias("party", c) = w <=> c = d
        BY <3>4, <4>1 DEF Summons, Owners
      <4>3. \A c : Alias("party", c) = Lower[PartyAlias[c]]
        BY DEF Alias
      <4>4. have = {d}
        <5> HIDE DEF d
        <5> QED BY <4>2, <4>3
      <4> QED BY <3>1, <4>4
    <3> QED BY <2>1, <3>2, <3>3, <3>4
  <2> QED BY <2>2, <2>3 DEF WordsSummon
<1> QED BY <1>1, <1>2, <1>3, HistoryAlways, PTL DEF Spec

-----------------------------------------------------------------------------
(* The room of the two programs. *)

(* Two of these people have the alias in party mode.                        *)
SharedBy(people, a) ==
  \E c, d \in people : c # d /\ Alias("party", c) = a /\ Alias("party", d) = a

(* Every word of a person is in the index, unless it is an alias two have.  *)
Covered ==
  /\ \A a \in DOMAIN owner : owner[a] = Nothing => SharedBy(DOMAIN pool["party"], a)
  /\ \A d \in DOMAIN pool["party"] : \A w \in WordsIn("party", called["party"], d) :
       w \in DOMAIN index["party"] \/ SharedBy(DOMAIN pool["party"], w)
  /\ \A d \in DOMAIN pool["forge"] : \A w \in WordsIn("forge", called["forge"], d) : w \in DOMAIN index["forge"]

LEMMA CoveredStep == TypeOK /\ Pooled /\ Owners /\ Covered /\ [Next]_vars => Covered'
<1> SUFFICES ASSUME TypeOK, Pooled, Owners, Covered, [Next]_vars PROVE Covered'
  OBVIOUS
<1>1. CASE UNCHANGED <<pool, index, owner, called>>
  BY <1>1 DEF Covered, SharedBy
<1>2. ASSUME NEW r \in Resolvers, Register(r) PROVE Covered'
  <2> DEFINE code == Canonized(r, Head(queue[r]))
             name == NameKept(r, Head(queue[r]))
  <2>1. code \in Words /\ name \in Words /\ Effect(r, code, name)
    BY <1>2, Registers, RegisterEffect
  <2> HIDE DEF code, name
  <2>2. /\ \A q \in Resolvers \ {r} : index'[q] = index[q] /\ pool'[q] = pool[q] /\ called'[q] = called[q]
        /\ DOMAIN pool'[r] = DOMAIN pool[r] \cup {code}
        /\ \A x : x \in NamesIn(called'[r], code) <=> x \in NamesIn(called[r], code) \/ x = Lower[name]
        /\ \A c : c # code => NamesIn(called'[r], c) = NamesIn(called[r], c)
    BY <2>1, EffectIs
  <2>3. \A w : code \notin DOMAIN pool[r] => w \notin NamesIn(called[r], code)
    BY DEF Pooled, NamesIn
  <2>4. ASSUME NEW d \in DOMAIN pool'[r], NEW w \in WordsIn(r, called'[r], d)
        PROVE  \/ d \in DOMAIN pool[r] /\ w \in WordsIn(r, called[r], d)
               \/ w \in {code, Lower[code], Alias(r, code), Lower[name]}
    <3>1. CASE d = code
      BY <2>2, <2>3, <3>1 DEF WordsIn
    <3>2. CASE d # code
      BY <2>2, <3>2 DEF WordsIn
    <3> QED BY <3>1, <3>2
  <2>5. CASE r = "forge"
    <3>1. "party" \in Resolvers \ {r} /\ owner' = owner
      BY <2>1, <2>5 DEF Resolvers, Effect
    <3>2. index'["forge"] = ForgeIndex(code, name)
      BY <2>1, <2>5 DEF Effect, TypeOK
    <3>3. ForgeIndexed(index'["forge"], index["forge"], code, name)
      BY <3>2, ForgeIndexIs
    <3>4. ASSUME NEW d \in DOMAIN pool'["forge"], NEW w \in WordsIn("forge", called'["forge"], d)
          PROVE  w \in DOMAIN index'["forge"]
      <4>1. CASE d \in DOMAIN pool["forge"] /\ w \in WordsIn("forge", called["forge"], d)
        BY <3>3, <4>1 DEF Covered, ForgeIndexed
      <4>2. CASE w \in {code, Lower[code], Alias("forge", code), Lower[name]}
        BY <3>3, <4>2 DEF ForgeIndexed, Alias
      <4> QED BY <2>4, <2>5, <4>1, <4>2
    <3>5. /\ index'["party"] = index["party"] /\ pool'["party"] = pool["party"]
          /\ called'["party"] = called["party"]
      BY <2>2, <3>1
    <3> QED BY <3>1, <3>4, <3>5 DEF Covered, SharedBy
  <2>6. CASE r = "party"
    <3> DEFINE alias == Alias("party", code)
               claimed == Claimed(code)
    <3>1. "forge" \in Resolvers \ {r}
      BY <2>6 DEF Resolvers
    <3>2. index'["party"] = PartyIndex(code, name) /\ owner' = Claims(code)
      BY <2>1, <2>6 DEF Effect, TypeOK
    <3>3. PartyIndexed(index'["party"], index["party"], claimed, code, name)
      BY <3>2, PartyIndexIs
    <3>4. /\ claimed = (IF alias \in DOMAIN owner THEN owner[alias] ELSE code)
          /\ IsPut(owner', owner, alias, IF claimed = code THEN code ELSE Nothing)
      BY <3>2, Puts DEF Claimed, Claims, Alias
    <3>5. alias = Lower[PartyAlias[code]]
      BY DEF Alias
    <3> HIDE DEF claimed
    <3>6. \A a : SharedBy(DOMAIN pool["party"], a) => SharedBy(DOMAIN pool'["party"], a)
      <4> SUFFICES ASSUME NEW a, SharedBy(DOMAIN pool["party"], a) PROVE SharedBy(DOMAIN pool'["party"], a)
        OBVIOUS
      <4>1. \A c \in DOMAIN pool["party"] : c \in DOMAIN pool'["party"]
        BY <2>2, <2>6
      <4> QED BY <4>1 DEF SharedBy
    <3>7. claimed # code => SharedBy(DOMAIN pool'["party"], alias)
      <4> SUFFICES ASSUME claimed # code PROVE SharedBy(DOMAIN pool'["party"], alias)
        OBVIOUS
      <4>1. alias \in DOMAIN owner /\ claimed = owner[alias]
        BY <3>4
      <4>2. CASE claimed = Nothing
        BY <3>6, <4>1, <4>2 DEF Covered
      <4>3. CASE claimed # Nothing
        <5>1. claimed \in DOMAIN pool["party"] /\ Alias("party", claimed) = alias
          BY <4>1, <4>3 DEF Owners
        <5>2. claimed \in DOMAIN pool'["party"] /\ code \in DOMAIN pool'["party"]
          BY <2>2, <2>6, <5>1
        <5> QED BY <5>1, <5>2 DEF SharedBy
      <4> QED BY <4>2, <4>3
    <3> HIDE DEF alias
    <3>8. ASSUME NEW a \in DOMAIN owner', owner'[a] = Nothing PROVE SharedBy(DOMAIN pool'["party"], a)
      <4>1. CASE a = alias
        <5>1. claimed # code
          BY <2>1, <3>4, <3>8, <4>1, NothingIsNone DEF IsPut
        <5> QED BY <3>7, <4>1, <5>1
      <4>2. CASE a # alias
        <5>1. a \in DOMAIN owner /\ owner[a] = Nothing
          BY <3>4, <3>8, <4>2 DEF IsPut
        <5> QED BY <3>6, <5>1 DEF Covered
      <4> QED BY <4>1, <4>2
    <3>9. ASSUME NEW d \in DOMAIN pool'["party"], NEW w \in WordsIn("party", called'["party"], d)
          PROVE  w \in DOMAIN index'["party"] \/ SharedBy(DOMAIN pool'["party"], w)
      <4>1. CASE w \in {code, Lower[code], Lower[name]}
        BY <3>3, <4>1 DEF PartyIndexed
      <4>2. CASE w = alias
        BY <3>3, <3>5, <3>7, <4>2 DEF PartyIndexed
      <4>3. CASE d \in DOMAIN pool["party"] /\ w \in WordsIn("party", called["party"], d) /\ w # alias
        <5>1. w \in DOMAIN index["party"] \/ SharedBy(DOMAIN pool["party"], w)
          BY <4>3 DEF Covered
        <5>2. w \in DOMAIN index["party"] => w \in DOMAIN index'["party"]
          BY <3>3, <3>5, <4>3 DEF PartyIndexed
        <5> QED BY <3>6, <5>1, <5>2
      <4> QED BY <2>4, <2>6, <4>1, <4>2, <4>3 DEF alias
    <3>10. /\ index'["forge"] = index["forge"] /\ pool'["forge"] = pool["forge"]
           /\ called'["forge"] = called["forge"]
      BY <2>2, <3>1
    <3> QED BY <3>8, <3>9, <3>10 DEF Covered
  <2> QED BY <2>5, <2>6, ResolverCases
<1> QED BY <1>1, <1>2, OthersLeave DEF Next

(* No word means two people, and both programs are done.                   *)
Distinct ==
  /\ world.found /\ Ready("party") /\ Ready("forge")
  /\ \A c, d \in DOMAIN pool["party"] \cup DOMAIN pool["forge"] : c # d => WordsOf(c) \cap WordsOf(d) = {}

(* Then they have registered the same people.                              *)
LEMMA SameHistory ==
  ASSUME History, Distinct
  PROVE  called["party"] = called["forge"]
<1> DEFINE p == called["party"]
           f == called["forge"]
           all == Everyone("party")
<1>1. /\ "party" \in Resolvers /\ "forge" \in Resolvers /\ TypeOK
      /\ queue["party"] = <<>> /\ queue["forge"] = <<>>
      /\ queue["party"] # Nothing /\ queue["forge"] # Nothing
  BY EmptyIsSomething DEF Resolvers, History, Distinct, Ready
<1>2. Everyone("forge") = all
  BY DEF Distinct, Everyone, Customs
<1>3. p \in Seq([code : Words, name : Words]) /\ f \in Seq([code : Words, name : Words])
  BY <1>1 DEF TypeOK
<1>4. Len(p) = Len(all) /\ Len(f) = Len(all)
  <2>1. Len(p) + Len(queue["party"]) = Len(all) /\ Len(f) + Len(queue["forge"]) = Len(all)
    BY <1>1, <1>2 DEF History, Progress
  <2>2. Len(queue["party"]) = 0 /\ Len(queue["forge"]) = 0 /\ Len(p) \in Nat /\ Len(f) \in Nat
    BY <1>1, <1>3
  <2> QED BY <2>1, <2>2
<1>5. /\ \A k \in DOMAIN p : Tells("party", p, all[k], k) /\ p[k].code \in DOMAIN pool["party"]
      /\ \A k \in DOMAIN f : Tells("forge", f, all[k], k) /\ f[k].code \in DOMAIN pool["forge"]
  BY <1>1, <1>2 DEF History, Told, Pooled
<1>6. \A c : WordsIn("party", p, c) \cup WordsIn("forge", f, c) \subseteq WordsOf(c)
  BY DEF WordsIn, WordsOf, Names, NamesIn, Alias
<1> HIDE DEF p, f, all
<1>7. /\ DOMAIN p = 1..Len(p) /\ DOMAIN f = 1..Len(p) /\ Len(p) \in Nat
      /\ \A k \in DOMAIN p : p[k] \in [code : Words, name : Words] /\ f[k] \in [code : Words, name : Words]
  <2>1. \A T, s : s \in Seq(T) => DOMAIN s = 1..Len(s) /\ Len(s) \in Nat /\ \A k \in DOMAIN s : s[k] \in T
    BY LenProperties
  <2>2. DOMAIN p = 1..Len(p) /\ DOMAIN f = 1..Len(p) /\ Len(p) \in Nat
    BY <1>3, <1>4, <2>1
  <2>3. \A k \in DOMAIN p : k \in DOMAIN f
    BY <2>2
  <2> QED BY <1>3, <2>1, <2>2, <2>3
<1>8. ASSUME NEW k \in DOMAIN p, \A j \in 1..(k - 1) : p[j] = f[j] PROVE p[k] = f[k]
  <2> DEFINE e == all[k]
  <2>1. Tells("party", p, e, k) /\ Tells("forge", f, e, k)
    BY <1>5, <1>7
  <2> HIDE DEF e
  <2>2. p[k].code = f[k].code
    <3>1. Lower[e.code] \in WordsOf(p[k].code) /\ Lower[e.code] \in WordsOf(f[k].code)
      BY <1>6, <2>1 DEF Tells
    <3> QED BY <1>5, <1>7, <3>1 DEF Distinct
  <2>3. p[k].name = f[k].name
    <3>1. CASE e.name # Nothing
      BY <2>1, <3>1 DEF Tells
    <3>2. CASE e.name = Nothing /\ e.kind # "custom"
      BY <2>1, <2>2, <3>2 DEF Tells
    <3>3. CASE e.name = Nothing /\ e.kind = "custom"
      <4>1. \/ p[k].name = p[k].code /\ \A j \in 1..(k - 1) : p[j].code # p[k].code
            \/ \E j \in 1..(k - 1) : /\ p[j].code = p[k].code /\ p[j].name = p[k].name
                                     /\ \A i \in (j + 1)..(k - 1) : p[i].code # p[k].code
        BY <2>1, <3>3 DEF Tells
      <4>2. \/ f[k].name = f[k].code /\ \A j \in 1..(k - 1) : f[j].code # f[k].code
            \/ \E j \in 1..(k - 1) : /\ f[j].code = f[k].code /\ f[j].name = f[k].name
                                     /\ \A i \in (j + 1)..(k - 1) : f[i].code # f[k].code
        BY <2>1, <3>3 DEF Tells
      <4>3. CASE \A j \in 1..(k - 1) : p[j].code # p[k].code
        BY <1>8, <2>2, <4>1, <4>2, <4>3
      <4>4. CASE \E j \in 1..(k - 1) : p[j].code = p[k].code
        <5>1. PICK j \in 1..(k - 1) : /\ p[j].code = p[k].code /\ p[j].name = p[k].name
                                      /\ \A i \in (j + 1)..(k - 1) : p[i].code # p[k].code
          BY <4>1, <4>4
        <5>2. PICK h \in 1..(k - 1) : /\ f[h].code = f[k].code /\ f[h].name = f[k].name
                                      /\ \A i \in (h + 1)..(k - 1) : f[i].code # f[k].code
          BY <1>8, <2>2, <4>2, <4>4
        <5>3. p[j] = f[j] /\ p[h] = f[h]
          BY <1>8
        <5>4. k \in Nat /\ j \in Nat /\ h \in Nat
          BY <1>7
        <5>5. ~(j < h)
          <6>1. j < h => h \in (j + 1)..(k - 1)
            BY <5>4
          <6> QED BY <2>2, <5>1, <5>2, <5>3, <6>1
        <5>6. ~(h < j)
          <6>1. h < j => j \in (h + 1)..(k - 1)
            BY <5>4
          <6> QED BY <2>2, <5>1, <5>2, <5>3, <6>1
        <5>7. j = h
          BY <5>4, <5>5, <5>6
        <5> QED BY <5>1, <5>2, <5>3, <5>7
      <4> QED BY <4>3, <4>4
    <3> QED BY <3>1, <3>2, <3>3
  <2>4. p[k] \in [code : Words, name : Words] /\ f[k] \in [code : Words, name : Words]
    BY <1>7
  <2> QED BY <2>2, <2>3, <2>4
<1>9. \A k \in DOMAIN p : p[k] = f[k]
  <2> DEFINE bad == {k \in DOMAIN p : p[k] # f[k]}
  <2>1. bad # {} => \E k \in bad : \A j \in bad : k <= j
    <3>1. bad \subseteq Nat
      BY <1>7
    <3> HIDE DEF bad
    <3> QED BY <3>1, LeastExists
  <2>2. bad # {} => FALSE
    <3> SUFFICES ASSUME bad # {} PROVE FALSE
      OBVIOUS
    <3>1. PICK k \in bad : \A j \in bad : k <= j
      BY <2>1
    <3>2. \A j \in 1..(k - 1) : j \in DOMAIN p /\ ~(k <= j)
      BY <1>7
    <3>3. \A j \in 1..(k - 1) : p[j] = f[j]
      BY <3>1, <3>2
    <3> QED BY <1>8, <3>1, <3>3
  <2> QED BY <2>2
<1>10. p = f
  BY <1>3, <1>4, <1>7, <1>9
<1> QED BY <1>10 DEF p, f

LEMMA SamePool ==
  ASSUME History, Distinct
  PROVE  pool["party"] = pool["forge"]
<1> DEFINE list == called["party"]
<1>1. "party" \in Resolvers /\ "forge" \in Resolvers /\ called["forge"] = list
  BY SameHistory DEF Resolvers
<1>2. /\ list \in Seq([code : Words, name : Words])
      /\ IsDict(pool["party"], Words) /\ IsDict(pool["forge"], Words)
  BY <1>1 DEF History, TypeOK
<1>3. DOMAIN list \subseteq Nat
  BY <1>2
<1>4. ASSUME NEW r \in Resolvers
      PROVE  /\ \A k \in DOMAIN list : list[k].code \in DOMAIN pool[r]
             /\ \A c \in DOMAIN pool[r] : \E k \in DOMAIN list :
                  /\ list[k].code = c /\ list[k].name = pool[r][c]
                  /\ \A j \in DOMAIN list : j > k => list[j].code # c
  <2>1. called[r] = list
    BY <1>1, ResolverCases
  <2> HIDE DEF list
  <2> QED BY <2>1 DEF History, Pooled
<1> HIDE DEF list
<1>5. ASSUME NEW q \in Resolvers, NEW r \in Resolvers, NEW c \in DOMAIN pool[q]
      PROVE  c \in DOMAIN pool[r] /\ pool[q][c] = pool[r][c]
  <2>1. PICK k \in DOMAIN list : /\ list[k].code = c /\ list[k].name = pool[q][c]
                                 /\ \A j \in DOMAIN list : j > k => list[j].code # c
    BY <1>4
  <2>2. c \in DOMAIN pool[r]
    BY <1>4, <2>1
  <2>3. PICK h \in DOMAIN list : /\ list[h].code = c /\ list[h].name = pool[r][c]
                                 /\ \A j \in DOMAIN list : j > h => list[j].code # c
    BY <1>4, <2>2
  <2>4. h = k
    <3>1. ~(h > k) /\ ~(k > h)
      BY <2>1, <2>3
    <3> QED BY <1>3, <3>1
  <2> QED BY <2>1, <2>2, <2>3, <2>4
<1>6. DOMAIN pool["party"] = DOMAIN pool["forge"] /\ \A c \in DOMAIN pool["party"] : pool["party"][c] = pool["forge"][c]
  BY <1>1, <1>5
<1> QED BY <1>2, <1>6 DEF IsDict

(* A word seats whoever the other program seats by it, unless it is an alias *)
(* that the two strip differently.                                         *)
LEMMA SameSeat ==
  ASSUME History, Covered, Distinct, NEW w \in Words
  PROVE  Seated("forge", w) = Seated("party", w) \/ AliasOfOne(w)
<1> DEFINE people == DOMAIN pool["party"]
<1>1. /\ "party" \in Resolvers /\ "forge" \in Resolvers
      /\ TypeOK /\ IndexMeans
  BY DEF Resolvers, History
<1>2. called["forge"] = called["party"] /\ pool["forge"] = pool["party"]
  BY SameHistory, SamePool
<1>3. \A r \in Resolvers : \A c : WordsIn(r, called[r], c) \subseteq WordsOf(c)
  <2>1. \A c : /\ WordsIn("party", called["party"], c) \subseteq WordsOf(c)
               /\ WordsIn("forge", called["forge"], c) \subseteq WordsOf(c)
    BY DEF WordsIn, WordsOf, Names, NamesIn, Alias
  <2> QED BY <2>1, ResolverCases
<1>4. \A c, d \in people : c # d => WordsOf(c) \cap WordsOf(d) = {}
  BY DEF Distinct
<1>5. \A a : ~SharedBy(people, a)
  <2>1. \A c : Alias("party", c) \in WordsOf(c)
    BY DEF WordsOf, Alias
  <2> HIDE DEF people
  <2> QED BY <1>4, <2>1 DEF SharedBy
<1>6. \A r \in Resolvers : \A d \in people : \A x \in WordsIn(r, called[r], d) : x \in DOMAIN index[r]
  <2>1. \A d \in people : \A x \in WordsIn("party", called["party"], d) : x \in DOMAIN index["party"]
    BY <1>5 DEF Covered
  <2>2. \A d \in people : \A x \in WordsIn("forge", called["forge"], d) : x \in DOMAIN index["forge"]
    BY <1>2 DEF Covered
  <2> HIDE DEF people
  <2> QED BY <2>1, <2>2, ResolverCases
<1>7. \A r \in Resolvers : pool[r] = pool["party"]
  BY <1>2, ResolverCases
<1>8. \A r \in Resolvers : Lower[w] \in WordsIn(r, called[r], Canonical(r, w))
  BY <1>1, CanonicalIsMeant
<1>9. \A r \in Resolvers : \/ Seated(r, w) = {} /\ Lower[w] \notin DOMAIN index[r]
                           \/ Seated(r, w) = {Canonical(r, w)} /\ Canonical(r, w) \in people
  <2>1. \A r \in Resolvers : \A x \in DOMAIN index[r] : index[r][x] \in people
    BY <1>1, <1>7 DEF IndexMeans
  <2> HIDE DEF people
  <2>2. ASSUME NEW r \in Resolvers, {w, Lower[w]} \cap DOMAIN index[r] # {}
        PROVE  Canonical(r, w) \in people
    BY <2>1, <2>2 DEF Canonical
  <2> QED BY <1>7, <2>2 DEF Seated, people
<1>10. ASSUME NEW q \in Resolvers, NEW r \in Resolvers, Seated(r, w) # {}, Seated(q, w) = {}
       PROVE  AliasOfOne(w)
  <2> DEFINE d == Canonical(r, w)
  <2>1. d \in people /\ Lower[w] \in WordsIn(r, called[r], d) /\ Lower[w] \notin WordsIn(q, called[q], d)
    BY <1>6, <1>8, <1>9, <1>10
  <2> HIDE DEF d
  <2>2. called[q] = called[r]
    BY <1>2, ResolverCases
  <2>3. Lower[w] = Alias(r, d) /\ Alias(q, d) # Alias(r, d)
    BY <2>1, <2>2 DEF WordsIn
  <2>4. \/ r = "party" /\ q = "forge"
        \/ r = "forge" /\ q = "party"
    BY <2>3, ResolverCases
  <2>5. Lower[PartyAlias[d]] # Lower[ForgeAlias[d]] /\ Lower[w] \in {Lower[PartyAlias[d]], Lower[ForgeAlias[d]]}
    BY <2>3, <2>4 DEF Alias
  <2> QED BY <2>1, <2>5 DEF AliasOfOne
<1>11. CASE Seated("party", w) # {} /\ Seated("forge", w) # {}
  <2>1. /\ Seated("party", w) = {Canonical("party", w)} /\ Canonical("party", w) \in people
        /\ Seated("forge", w) = {Canonical("forge", w)} /\ Canonical("forge", w) \in people
    BY <1>1, <1>9, <1>11
  <2>2. Lower[w] \in WordsOf(Canonical("party", w)) /\ Lower[w] \in WordsOf(Canonical("forge", w))
    BY <1>1, <1>3, <1>8
  <2>3. Canonical("party", w) = Canonical("forge", w)
    <3> HIDE DEF people
    <3> QED BY <1>4, <2>1, <2>2
  <2> QED BY <2>1, <2>3
<1> QED BY <1>1, <1>10, <1>11

(* When no word means two people, the party and the forge know the same     *)
(* people by the same names, and each word of a group seats the same in     *)
(* both, save an alias that the two programs strip differently.            *)
THEOREM RoomsAgree == Spec => []SameRoom
<1>1. Init => Summons /\ Covered
  BY DEF Init, Empty, Resolvers, Summons, Owners, OwnedWords, FullCodes, Covered
<1>2. History /\ Summons /\ Covered /\ [Next]_vars => Summons' /\ Covered'
  BY SummonsStep, CoveredStep DEF History, Summons
<1>3. History /\ Covered => SameRoom
  <2> SUFFICES ASSUME History, Covered, Distinct
               PROVE  /\ pool["party"] = pool["forge"]
                      /\ \A g \in Groups : \A w \in g.members :
                           Seated("forge", w) = Seated("party", w) \/ AliasOfOne(w)
    BY Zenon DEF SameRoom, Distinct
  <2>1. \A g \in Groups : g.members \subseteq Words
    <3>1. world \in Worlds
      BY DEF History, TypeOK
    <3>2. /\ \A i \in DOMAIN world.groups : world.groups[i].members \subseteq Words
          /\ \A g \in world.customGroups : g.members \subseteq Words
      BY <3>1, WorldsAreTyped
    <3>3. \A g \in RosterGroups : g.members \subseteq Words
      BY <3>2 DEF RosterGroups
    <3> QED BY <3>2, <3>3 DEF Groups
  <2> QED BY <2>1, SamePool, SameSeat
<1> QED BY <1>1, <1>2, <1>3, HistoryAlways, PTL DEF Spec

-----------------------------------------------------------------------------
(* The methods: the merged catalog and its places.                         *)

(* The places of a list with a name, and of those without a number.        *)
LEMMA CalledIs ==
  ASSUME NEW list \in Seq(Row), NEW name
  PROVE  /\ Called(list, name) \subseteq 1..Len(list) /\ IsFiniteSet(Called(list, name))
         /\ Called(list, name) # {} =>
              /\ Max(Called(list, name)) \in Called(list, name)
              /\ Min(Called(list, name)) \in Called(list, name)
<1>1. DOMAIN list = 1..Len(list) /\ Len(list) \in Nat
  OBVIOUS
<1>2. Called(list, name) \subseteq 1..Len(list) /\ IsFiniteSet(Called(list, name))
  <2>1. IsFiniteSet(1..Len(list))
    BY <1>1, FS_Interval
  <2>2. Called(list, name) \subseteq 1..Len(list)
    BY <1>1 DEF Called
  <2> QED BY <2>1, <2>2, FS_Subset
<1> QED BY <1>1, <1>2, MaxIs, MinIs

LEMMA RetunedIs ==
  ASSUME NEW row \in Row, NEW extras \in Seq(Row), Called(extras, row.name) # {}
  PROVE  /\ Retuned(row, extras) \in Row
         /\ Retuned(row, extras).name = row.name
         /\ Retuned(row, extras).num = NumOf(row, extras)
         /\ (\A k \in DOMAIN extras : extras[k].num = None) => Retuned(row, extras).num = row.num
<1> DEFINE given == Called(extras, row.name) \ Unnumbered(extras)
           top == Max(Called(extras, row.name))
<1>1. top \in DOMAIN extras /\ extras[top].name = row.name /\ extras[top] \in Row
  <2>1. top \in Called(extras, row.name)
    BY CalledIs
  <2> QED BY <2>1 DEF Called
<1>2. given \subseteq DOMAIN extras /\ (given # {} => Max(given) \in given)
  <2>1. given \subseteq 1..Len(extras) /\ IsFiniteSet(given)
    <3>1. given \subseteq Called(extras, row.name)
      OBVIOUS
    <3> HIDE DEF given
    <3> QED BY <3>1, CalledIs, FS_Subset
  <2> HIDE DEF given
  <2>2. given \subseteq Nat /\ given \subseteq DOMAIN extras
    BY <2>1
  <2> QED BY <2>1, <2>2, MaxIs
<1>3. NumOf(row, extras) \in Nat \cup {None}
  <2>1. NumOf(row, extras) = IF given = {} THEN row.num ELSE extras[Max(given)].num
    BY DEF NumOf
  <2> HIDE DEF given
  <2>2. given # {} => extras[Max(given)] \in Row
    BY <1>2
  <2> QED BY <2>1, <2>2 DEF Row
<1>4. (\A k \in DOMAIN extras : extras[k].num = None) => NumOf(row, extras) = row.num
  <2>1. (\A k \in DOMAIN extras : extras[k].num = None) => given = {}
    BY <1>2 DEF Unnumbered
  <2> QED BY <2>1 DEF NumOf
<1>5. Retuned(row, extras) = [extras[top] EXCEPT !.num = NumOf(row, extras)]
  BY DEF Retuned
<1> HIDE DEF top
<1> QED BY <1>1, <1>3, <1>4, <1>5 DEF Row

NamesApart(list) == \A i, j \in DOMAIN list : i # j => list[i].name # list[j].name
NumsApart(list) == \A i, j \in DOMAIN list : i # j => list[i].num = None \/ list[i].num # list[j].num

(* The new extras are of names the catalog does not have, each once.       *)
LEMMA NewInIs ==
  ASSUME NEW list \in Seq(Row), NEW extras \in Seq(Row)
  PROVE  /\ NewIn(list, extras) \in Seq(Row)
         /\ NamesApart(NewIn(list, extras))
         /\ \A k \in DOMAIN NewIn(list, extras) :
              /\ Called(list, NewIn(list, extras)[k].name) = {}
              /\ Called(extras, NewIn(list, extras)[k].name) # {}
              /\ \E i \in DOMAIN extras : NewIn(list, extras)[k] = extras[i]
<1> DEFINE S == {i \in DOMAIN extras : Called(list, extras[i].name) = {}
                                         /\ i = Min(Called(extras, extras[i].name))}
<1>1. NewIn(list, extras) = Kept(extras, S)
  BY DEF NewIn
<1>2. \A i \in S : /\ i \in DOMAIN extras /\ Called(list, extras[i].name) = {}
                   /\ i = Min(Called(extras, extras[i].name))
  OBVIOUS
<1>3. S \subseteq DOMAIN extras
  OBVIOUS
<1> HIDE DEF S
<1>4. Kept(extras, S) \in Seq(Row)
  BY <1>3, KeptIs
<1>5. /\ DOMAIN Kept(extras, S) = 1..Cardinality(S)
      /\ \A k \in 1..Cardinality(S) : PlaceKept(S, k) \in S /\ Kept(extras, S)[k] = extras[PlaceKept(S, k)]
      /\ \A k, l \in 1..Cardinality(S) : PlaceKept(S, k) = PlaceKept(S, l) => k = l
  BY <1>3, KeptAt
<1>6. NamesApart(Kept(extras, S))
  <2> SUFFICES ASSUME NEW k \in 1..Cardinality(S), NEW l \in 1..Cardinality(S),
                      extras[PlaceKept(S, k)].name = extras[PlaceKept(S, l)].name
               PROVE  k = l
    BY <1>5 DEF NamesApart
  <2>1. PlaceKept(S, k) \in S /\ PlaceKept(S, l) \in S
    BY <1>5
  <2>2. PlaceKept(S, k) = PlaceKept(S, l)
    BY <1>2, <2>1
  <2> QED BY <1>5, <2>2
<1>7. ASSUME NEW k \in DOMAIN Kept(extras, S)
      PROVE  /\ Called(list, Kept(extras, S)[k].name) = {}
             /\ Called(extras, Kept(extras, S)[k].name) # {}
             /\ \E i \in DOMAIN extras : Kept(extras, S)[k] = extras[i]
  <2>1. PlaceKept(S, k) \in S /\ Kept(extras, S)[k] = extras[PlaceKept(S, k)]
    BY <1>5, <1>7
  <2>2. PlaceKept(S, k) \in DOMAIN extras /\ Called(list, extras[PlaceKept(S, k)].name) = {}
    BY <1>2, <2>1
  <2>3. PlaceKept(S, k) \in Called(extras, extras[PlaceKept(S, k)].name)
    BY <2>2 DEF Called
  <2> QED BY <2>1, <2>2, <2>3
<1> QED BY <1>1, <1>4, <1>6, <1>7

(* The merged catalog has the file's rows in their places, then the new    *)
(* ones.                                                                   *)
LEMMA MergedIs ==
  ASSUME NEW list \in Seq(Row), NEW extras \in Seq(Row)
  PROVE  /\ Merged(list, extras) \in Seq(Row)
         /\ Len(Merged(list, extras)) = Len(list) + Len(NewIn(list, extras))
         /\ \A i \in DOMAIN list :
              /\ Merged(list, extras)[i] =
                   IF IsReplaced(list, i, extras) THEN Retuned(list[i], extras) ELSE list[i]
              /\ Merged(list, extras)[i].name = list[i].name
         /\ \A k \in DOMAIN NewIn(list, extras) :
              /\ Merged(list, extras)[Len(list) + k] = Retuned(NewIn(list, extras)[k], extras)
              /\ Merged(list, extras)[Len(list) + k].name = NewIn(list, extras)[k].name
<1> DEFINE new == NewIn(list, extras)
           f == [i \in DOMAIN list |-> IF IsReplaced(list, i, extras) THEN Retuned(list[i], extras) ELSE list[i]]
           g == [k \in DOMAIN new |-> Retuned(new[k], extras)]
<1>1. /\ new \in Seq(Row)
      /\ \A k \in DOMAIN new : Called(extras, new[k].name) # {}
  BY NewInIs
<1>2. Merged(list, extras) = f \o g
  BY DEF Merged
<1>3. \A i \in DOMAIN list : list[i] \in Row /\ f[i] \in Row /\ f[i].name = list[i].name
  <2> SUFFICES ASSUME NEW i \in DOMAIN list PROVE list[i] \in Row /\ f[i] \in Row /\ f[i].name = list[i].name
    OBVIOUS
  <2>1. list[i] \in Row
    OBVIOUS
  <2>2. CASE IsReplaced(list, i, extras)
    <3>1. Called(extras, list[i].name) # {}
      BY <2>2 DEF IsReplaced
    <3>2. Retuned(list[i], extras) \in Row /\ Retuned(list[i], extras).name = list[i].name
      BY <2>1, <3>1, RetunedIs
    <3> QED BY <2>1, <2>2, <3>2
  <2>3. CASE ~IsReplaced(list, i, extras)
    BY <2>1, <2>3
  <2> QED BY <2>2, <2>3
<1> HIDE DEF new
<1>4. \A k \in DOMAIN new : g[k] \in Row /\ g[k].name = new[k].name
  <2> SUFFICES ASSUME NEW k \in DOMAIN new PROVE g[k] \in Row /\ g[k].name = new[k].name
    OBVIOUS
  <2>1. new[k] \in Row
    BY <1>1
  <2> QED BY <1>1, <2>1, RetunedIs
<1>5. /\ DOMAIN list = 1..Len(list) /\ Len(list) \in Nat
      /\ DOMAIN new = 1..Len(new) /\ Len(new) \in Nat
  BY <1>1
<1>6. \A i \in DOMAIN list : f[i] = IF IsReplaced(list, i, extras) THEN Retuned(list[i], extras) ELSE list[i]
  OBVIOUS
<1>7. \A k \in DOMAIN new : g[k] = Retuned(new[k], extras)
  OBVIOUS
<1>8. f \in [1..Len(list) -> Row]
  <2>1. f = [i \in 1..Len(list) |-> f[i]]
    BY <1>5
  <2> HIDE DEF f
  <2> QED BY <1>3, <1>5, <2>1
<1>9. g \in [1..Len(new) -> Row]
  <2>1. g = [k \in 1..Len(new) |-> g[k]]
    BY <1>5
  <2> HIDE DEF g
  <2> QED BY <1>4, <1>5, <2>1
<1> HIDE DEF f, g
<1>10. f \in Seq(Row) /\ Len(f) = Len(list) /\ g \in Seq(Row) /\ Len(g) = Len(new)
  BY <1>5, <1>8, <1>9, FunctionsAreLists
<1>11. f \o g \in Seq(Row) /\ Len(f \o g) = Len(list) + Len(new)
  BY <1>10
<1>12. \A i \in DOMAIN list : (f \o g)[i] = f[i]
  BY <1>5, <1>10
<1>13. \A k \in DOMAIN new : (f \o g)[Len(list) + k] = g[k]
  BY <1>5, <1>10
<1> QED BY <1>2, <1>3, <1>4, <1>6, <1>7, <1>11, <1>12, <1>13 DEF new

LEMMA MergedNames ==
  ASSUME NEW list \in Seq(Row), NEW extras \in Seq(Row), NamesApart(list)
  PROVE  NamesApart(Merged(list, extras))
<1> DEFINE new == NewIn(list, extras)
           merged == Merged(list, extras)
<1>1. /\ new \in Seq(Row) /\ NamesApart(new)
      /\ \A k \in DOMAIN new : Called(list, new[k].name) = {}
  BY NewInIs
<1>2. /\ merged \in Seq(Row) /\ Len(merged) = Len(list) + Len(new)
      /\ \A i \in DOMAIN list : merged[i].name = list[i].name
      /\ \A k \in DOMAIN new : merged[Len(list) + k].name = new[k].name
  BY MergedIs
<1> HIDE DEF new, merged
<1>3. \A k \in DOMAIN new, i \in DOMAIN list : list[i].name # new[k].name
  BY <1>1 DEF Called
<1>4. ASSUME NEW i \in DOMAIN merged, i \notin DOMAIN list
      PROVE  \E k \in DOMAIN new : i = Len(list) + k
  <2>1. i - Len(list) \in DOMAIN new /\ i = Len(list) + (i - Len(list))
    BY <1>1, <1>2, <1>4
  <2> QED BY <2>1
<1>5. NamesApart(merged)
  <2> SUFFICES ASSUME NEW i \in DOMAIN merged, NEW j \in DOMAIN merged, i # j
               PROVE  merged[i].name # merged[j].name
    BY DEF NamesApart
  <2>1. CASE i \in DOMAIN list /\ j \in DOMAIN list
    BY <1>2, <2>1 DEF NamesApart
  <2>2. CASE i \in DOMAIN list /\ j \notin DOMAIN list
    BY <1>2, <1>3, <1>4, <2>2
  <2>3. CASE i \notin DOMAIN list /\ j \in DOMAIN list
    BY <1>2, <1>3, <1>4, <2>3
  <2>4. CASE i \notin DOMAIN list /\ j \notin DOMAIN list
    <3>1. PICK k \in DOMAIN new : i = Len(list) + k
      BY <1>4, <2>4
    <3>2. PICK l \in DOMAIN new : j = Len(list) + l
      BY <1>4, <2>4
    <3>3. k # l
      BY <3>1, <3>2
    <3> QED BY <1>1, <1>2, <3>1, <3>2, <3>3 DEF NamesApart
  <2> QED BY <2>1, <2>2, <2>3, <2>4
<1> QED BY <1>5 DEF merged

LEMMA MergedNums ==
  ASSUME NEW list \in Seq(Row), NEW extras \in Seq(Row), NumsApart(list),
         \A k \in DOMAIN extras : extras[k].num = None
  PROVE  NumsApart(Merged(list, extras))
<1> DEFINE new == NewIn(list, extras)
           merged == Merged(list, extras)
<1>1. /\ new \in Seq(Row)
      /\ \A k \in DOMAIN new : /\ Called(extras, new[k].name) # {}
                               /\ \E i \in DOMAIN extras : new[k] = extras[i]
  BY NewInIs
<1>2. /\ merged \in Seq(Row) /\ Len(merged) = Len(list) + Len(new)
      /\ \A i \in DOMAIN list :
           merged[i] = IF IsReplaced(list, i, extras) THEN Retuned(list[i], extras) ELSE list[i]
      /\ \A k \in DOMAIN new : merged[Len(list) + k] = Retuned(new[k], extras)
  BY MergedIs
<1> HIDE DEF new, merged
<1>3. ASSUME NEW i \in DOMAIN list PROVE merged[i].num = list[i].num
  <2>1. list[i] \in Row
    OBVIOUS
  <2>2. CASE IsReplaced(list, i, extras)
    <3>1. Called(extras, list[i].name) # {}
      BY <2>2 DEF IsReplaced
    <3>2. Retuned(list[i], extras).num = list[i].num
      BY <2>1, <3>1, RetunedIs
    <3> QED BY <1>2, <2>2, <3>2
  <2> QED BY <1>2, <2>2
<1>4. ASSUME NEW k \in DOMAIN new PROVE merged[Len(list) + k].num = None
  <2>1. new[k] \in Row /\ new[k].num = None
    BY <1>1
  <2>2. Called(extras, new[k].name) # {}
    BY <1>1
  <2>3. Retuned(new[k], extras).num = new[k].num
    BY <2>1, <2>2, RetunedIs
  <2> QED BY <1>2, <2>1, <2>3
<1>5. ASSUME NEW i \in DOMAIN merged, i \notin DOMAIN list
      PROVE  merged[i].num = None
  <2>1. i - Len(list) \in DOMAIN new /\ i = Len(list) + (i - Len(list))
    BY <1>1, <1>2, <1>5
  <2> QED BY <1>4, <2>1
<1>6. NumsApart(merged)
  <2> SUFFICES ASSUME NEW i \in DOMAIN merged, NEW j \in DOMAIN merged, i # j, merged[i].num # None
               PROVE  merged[i].num # merged[j].num
    BY DEF NumsApart
  <2>1. i \in DOMAIN list
    BY <1>5
  <2>2. CASE j \in DOMAIN list
    BY <1>3, <2>1, <2>2 DEF NumsApart
  <2>3. CASE j \notin DOMAIN list
    BY <1>5, <2>3
  <2> QED BY <2>2, <2>3
<1> QED BY <1>6 DEF merged

(* Numbering gives every row a number of its own and changes nothing else. *)
LEMMA NumberedIs ==
  ASSUME NEW list \in Seq(Row)
  PROVE  /\ Numbered(list) \in Seq(Row) /\ DOMAIN Numbered(list) = DOMAIN list
         /\ \A i \in DOMAIN list : Numbered(list)[i].name = list[i].name /\ Numbered(list)[i].cat = list[i].cat
         /\ NamesApart(list) => NamesApart(Numbered(list))
         /\ NumsApart(list) => NumsApart(Numbered(list))
<1> DEFINE blank == Unnumbered(list)
           before(i) == {j \in blank : j < i}
           top == Max({0} \cup Nums(list))
           done == Number(list, top + 1)
<1>1. DOMAIN list = 1..Len(list) /\ Len(list) \in Nat /\ \A i \in DOMAIN list : list[i] \in Row
  OBVIOUS
<1>2. blank \subseteq DOMAIN list /\ \A i \in DOMAIN list : i \in blank <=> list[i].num = None
  BY DEF Unnumbered
<1>3. IsFiniteSet(DOMAIN list)
  BY <1>1, FS_Interval
<1>4. \A i \in DOMAIN list : IsFiniteSet(before(i)) /\ Cardinality(before(i)) \in Nat
  <2> SUFFICES ASSUME NEW i \in DOMAIN list PROVE IsFiniteSet(before(i)) /\ Cardinality(before(i)) \in Nat
    OBVIOUS
  <2>1. before(i) \subseteq DOMAIN list
    BY <1>2
  <2> HIDE DEF before
  <2> QED BY <1>3, <2>1, FS_Subset, FS_CardinalityType
<1>5. ASSUME NEW i \in blank, NEW j \in blank, i < j PROVE Cardinality(before(i)) < Cardinality(before(j))
  <2>0. i \in Nat /\ j \in Nat /\ \A k \in blank : k \in Nat
    BY <1>1, <1>2
  <2>1. i \in before(j) /\ i \notin before(i)
    BY <1>5, <2>0
  <2>2. before(i) \subseteq before(j)
    <3> SUFFICES ASSUME NEW k \in before(i) PROVE k \in before(j)
      OBVIOUS
    <3>1. k \in blank /\ k < i /\ k \in Nat
      BY <2>0
    <3> QED BY <1>5, <2>0, <3>1
  <2>3. i \in DOMAIN list /\ j \in DOMAIN list
    BY <1>2
  <2> HIDE DEF before
  <2> QED BY <1>4, <2>1, <2>2, <2>3, FS_Subset
<1>6. IsFiniteSet(Nums(list)) /\ Nums(list) \subseteq Nat
  <2> DEFINE f == [i \in DOMAIN list \ blank |-> list[i].num]
  <2>1. f \in Surjection(DOMAIN list \ blank, Nums(list))
    BY DEF Surjection, Nums
  <2>2. IsFiniteSet(DOMAIN list \ blank)
    BY <1>3, FS_Subset
  <2>3. Nums(list) \subseteq Nat
    BY <1>1, <1>2 DEF Nums, Row
  <2> HIDE DEF f
  <2> QED BY <2>1, <2>2, <2>3, FS_Surjection
<1>7. top \in Nat /\ \A n \in Nums(list) : n <= top
  <2>1. {0} \cup Nums(list) \subseteq Nat /\ IsFiniteSet({0} \cup Nums(list)) /\ {0} \cup Nums(list) # {}
    BY <1>6, FS_AddElement
  <2>2. Max({0} \cup Nums(list)) \in {0} \cup Nums(list) /\ \A n \in {0} \cup Nums(list) : n <= Max({0} \cup Nums(list))
    BY <2>1, MaxIs
  <2> QED BY <2>1, <2>2
<1>8. \A i \in blank : top + 1 + Cardinality(before(i)) \in Nat /\ top + 1 + Cardinality(before(i)) > top
  <2> SUFFICES ASSUME NEW i \in blank
               PROVE  top + 1 + Cardinality(before(i)) \in Nat /\ top + 1 + Cardinality(before(i)) > top
    OBVIOUS
  <2>1. Cardinality(before(i)) \in Nat
    BY <1>2, <1>4
  <2> HIDE DEF top, before, blank
  <2> QED BY <1>7, <2>1
<1>9. Numbered(list) = done /\ done =
        [i \in DOMAIN list |-> IF i \notin blank THEN list[i]
                               ELSE [list[i] EXCEPT !.num = top + 1 + Cardinality(before(i))]]
  BY DEF Numbered, Number
<1> HIDE DEF blank, before, top, done
<1>10. ASSUME NEW i \in DOMAIN list
       PROVE  /\ done[i] \in Row /\ done[i].name = list[i].name /\ done[i].cat = list[i].cat
              /\ i \notin blank => done[i].num = list[i].num
              /\ i \in blank => done[i].num = top + 1 + Cardinality(before(i))
  <2>1. list[i] \in Row
    BY <1>1
  <2>2. CASE i \notin blank
    BY <1>9, <2>1, <2>2
  <2>3. CASE i \in blank
    BY <1>8, <1>9, <2>1, <2>3 DEF Row
  <2> QED BY <2>2, <2>3
<1>11. done \in Seq(Row) /\ DOMAIN done = DOMAIN list
  <2>1. DOMAIN done = 1..Len(list)
    BY <1>1, <1>9
  <2>2. done = [i \in 1..Len(list) |-> done[i]]
    BY <1>1, <1>9
  <2>3. done \in [1..Len(list) -> Row]
    BY <1>1, <1>10, <2>2
  <2> QED BY <1>1, <2>1, <2>3, FunctionsAreLists
<1>12. NamesApart(list) => NamesApart(done)
  BY <1>10, <1>11 DEF NamesApart
<1>13. ASSUME NumsApart(list) PROVE NumsApart(done)
  <2> SUFFICES ASSUME NEW i \in DOMAIN list, NEW j \in DOMAIN list, i < j
               PROVE  done[i].num # done[j].num
    <3>1. \A i, j \in DOMAIN list : i # j => i < j \/ j < i
      BY <1>1
    <3> QED BY <1>11, <3>1 DEF NumsApart
  <2>1. CASE i \notin blank /\ j \notin blank
    <3>1. i # j /\ list[i].num # None
      BY <1>1, <1>2, <2>1
    <3> QED BY <1>10, <1>13, <2>1, <3>1 DEF NumsApart
  <2>2. \A k \in DOMAIN list \ blank : list[k].num \in Nat /\ list[k].num <= top
    <3> SUFFICES ASSUME NEW k \in DOMAIN list \ blank PROVE list[k].num \in Nat /\ list[k].num <= top
      OBVIOUS
    <3>1. list[k].num \in Nums(list)
      BY DEF Nums, blank
    <3> QED BY <1>6, <1>7, <3>1
  <2>3. CASE i \notin blank /\ j \in blank
    <3>1. done[i].num <= top /\ done[i].num \in Nat /\ done[j].num \in Nat /\ done[j].num > top
      BY <1>8, <1>10, <2>2, <2>3
    <3> QED BY <1>7, <3>1
  <2>4. CASE i \in blank /\ j \notin blank
    <3>1. done[j].num <= top /\ done[j].num \in Nat /\ done[i].num \in Nat /\ done[i].num > top
      BY <1>8, <1>10, <2>2, <2>4
    <3> QED BY <1>7, <3>1
  <2>5. CASE i \in blank /\ j \in blank
    <3>1. Cardinality(before(i)) < Cardinality(before(j))
      BY <1>5, <2>5
    <3> QED BY <1>4, <1>7, <1>10, <2>5, <3>1
  <2> QED BY <2>1, <2>3, <2>4, <2>5
<1> QED BY <1>9, <1>10, <1>11, <1>12, <1>13

(* The catalog in use is a list of rows, each with a name and a number of  *)
(* its own when the file is in order.                                      *)
LEMMA RowsAre ==
  ASSUME catalog \in Catalogs
  PROVE  Rows \in Seq(Row) /\ (InOrder => NamesApart(Rows) /\ NumsApart(Rows))
<1>1. catalog.rows \in Seq(Row) /\ catalog.extras \in Seq(Row)
  BY CatalogsAreTyped
<1>2. Merged(catalog.rows, catalog.extras) \in Seq(Row)
  BY <1>1, MergedIs
<1>3. MergeExtra(catalog.rows, catalog.extras) \in Seq(Row)
  BY <1>2, NumberedIs DEF MergeExtra
<1>4. Rows \in Seq(Row)
  BY <1>1, <1>3 DEF Rows
<1>5. ASSUME InOrder PROVE NamesApart(Rows) /\ NumsApart(Rows)
  <2>1. NamesApart(catalog.rows) /\ NumsApart(catalog.rows) /\ \A k \in DOMAIN catalog.extras : catalog.extras[k].num = None
    BY <1>5 DEF InOrder, NamesApart, NumsApart
  <2>2. NamesApart(Merged(catalog.rows, catalog.extras)) /\ NumsApart(Merged(catalog.rows, catalog.extras))
    BY <1>1, <2>1, MergedNames, MergedNums
  <2>3. NamesApart(MergeExtra(catalog.rows, catalog.extras)) /\ NumsApart(MergeExtra(catalog.rows, catalog.extras))
    BY <1>2, <2>2, NumberedIs DEF MergeExtra
  <2> QED BY <2>1, <2>3 DEF Rows
<1> QED BY <1>4, <1>5

(* Show finds the row whose name or number it is told, when names and      *)
(* numbers are apart and no name is a number in use.                       *)
LEMMA FindIs ==
  ASSUME Rows \in Seq(Row), NamesApart(Rows), NumsApart(Rows),
         \A i \in DOMAIN Rows : Digits[Rows[i].name] \notin Nums(Rows),
         NEW i \in DOMAIN Rows, NEW kind \in {"name", "num"}, kind = "num" => Rows[i].num # None
  PROVE  Find(Rows, Shown(i, kind)) = {i}
<1> DEFINE text == Shown(i, kind)
           named == {j \in DOMAIN Rows :
                       IF text.kind = "num" THEN Digits[Rows[j].name] = text.is ELSE Rows[j].name = text.is}
           number == IF text.kind = "num" THEN text.is ELSE Digits[text.is]
           numbered == {j \in DOMAIN Rows : number # None /\ Rows[j].num = number}
<1>1. Find(Rows, text) = IF named # {} THEN {Max(named)} ELSE IF numbered # {} THEN {Min(numbered)} ELSE {}
  BY DEF Find
<1>2. i \in Nat
  BY LenProperties
<1>3. Max({i}) = i /\ Min({i}) = i
  BY <1>2 DEF Max, Min
<1>4. CASE kind = "name"
  <2>1. text.kind = "name" /\ text.is = Rows[i].name
    BY <1>4 DEF Shown
  <2>2. named = {i}
    BY <2>1 DEF NamesApart
  <2> HIDE DEF named, numbered
  <2> QED BY <1>1, <1>3, <2>2
<1>5. CASE kind = "num"
  <2>1. text.kind = "num" /\ text.is = Rows[i].num
    BY <1>5 DEF Shown
  <2>2. Rows[i].num # None /\ Rows[i].num \in Nums(Rows)
    BY <1>5 DEF Nums, Unnumbered
  <2>3. named = {}
    BY <2>1, <2>2
  <2>4. numbered = {i}
    BY <2>1, <2>2 DEF NumsApart
  <2> HIDE DEF named, numbered
  <2> QED BY <1>1, <1>3, <2>3, <2>4
<1> QED BY <1>4, <1>5

(* What ran is what show found for something shown.                        *)
RanIs ==
  /\ catalog \in Catalogs
  /\ ran # None => \E i \in DOMAIN Rows, kind \in {"name", "num"} :
                     /\ kind = "num" => Rows[i].num # None
                     /\ ran = [chosen |-> i, run |-> Find(Rows, Shown(i, kind))]

LEMMA RanInit == PicksInit => RanIs
BY DEF PicksInit, RanIs

LEMMA RanStep == RanIs /\ [PicksNext]_picksVars => RanIs'
<1> SUFFICES ASSUME RanIs, [PicksNext]_picksVars PROVE RanIs'
  OBVIOUS
<1>1. catalog' = catalog
  BY DEF PicksNext, picksVars, FirstMenu, Reshuffle, Drawn, ListAll, Proceed, DrawOne, Choose
<1>2. Rows' = Rows /\ \A i, kind : Shown(i, kind)' = Shown(i, kind)
  BY <1>1 DEF Rows, Shown
<1>3. CASE ran' = ran
  BY <1>1, <1>2, <1>3 DEF RanIs
<1>4. ASSUME NEW i \in DOMAIN Rows, NEW kind \in {"name", "num"}, Choose(i, kind) PROVE RanIs'
  BY <1>1, <1>2, <1>4 DEF RanIs, Choose
<1> QED BY <1>3, <1>4 DEF PicksNext, picksVars, FirstMenu, Reshuffle, Drawn, ListAll, Proceed, DrawOne

(* Whatever the user retunes or adds, choosing a method by the name or the *)
(* number shown beside it runs that method, unless a method is called by   *)
(* that number: merge_extra keeps names and numbers apart.                 *)
THEOREM ChosenRuns == PicksSpec => []RunsWhatWasChosen
<1>1. RanIs => RunsWhatWasChosen
  <2> SUFFICES ASSUME RanIs, ran # None, InOrder, \A i \in DOMAIN Rows : Digits[Rows[i].name] \notin Nums(Rows)
               PROVE  ran.run = {ran.chosen}
    BY DEF RunsWhatWasChosen
  <2>1. PICK i \in DOMAIN Rows, kind \in {"name", "num"} :
               /\ kind = "num" => Rows[i].num # None
               /\ ran = [chosen |-> i, run |-> Find(Rows, Shown(i, kind))]
    BY DEF RanIs
  <2>2. Rows \in Seq(Row) /\ NamesApart(Rows) /\ NumsApart(Rows)
    BY RowsAre DEF RanIs
  <2>3. Find(Rows, Shown(i, kind)) = {i}
    BY <2>1, <2>2, FindIs
  <2> QED BY <2>1, <2>3
<1> QED BY <1>1, RanInit, RanStep, PTL DEF PicksSpec

-----------------------------------------------------------------------------
(* Reshuffles. *)

OfCat(rows, S, c) == {i \in S : rows[i].cat = c}
GivenIn(rows, out, c) == Cardinality({k \in DOMAIN out : rows[out[k]].cat = c})
DrawRecord(rows) ==
  [order : Seq(DOMAIN CatFold), turns : Seq(DOMAIN CatFold), left : SUBSET DOMAIN rows,
   out : Seq(DOMAIN rows), want : Nat]

(* In every draw the categories stand at one of two levels: in round r,    *)
(* those whose turn is to come have given one less than those that had it. *)
Level(rows, d, turns, r) ==
  \A c \in ToSet(d.order) :
    /\ GivenIn(rows, d.out, c) <= r
    /\ OfCat(rows, d.left, c) # {} =>
         GivenIn(rows, d.out, c) + (IF c \in ToSet(turns) THEN 1 ELSE 0) = r

InTurn(rows, d, turns) ==
  /\ turns \in Seq(DOMAIN CatFold) /\ IsInjective(turns)
  /\ \A c \in ToSet(turns) : c \in ToSet(d.order) /\ OfCat(rows, d.left, c) # {}
  /\ \E r \in Nat : Level(rows, d, turns, r)

Fair(rows, off, d) ==
  /\ d \in DrawRecord(rows)
  /\ IsInjective(d.order) /\ IsInjective(d.out)
  /\ \A k \in DOMAIN d.out : d.out[k] \notin d.left /\ rows[d.out[k]].name \notin off
  /\ \A i \in d.left : rows[i].name \notin off
  /\ InTurn(rows, d, d.turns)

(* A draw adds its method to what a number of rounds was given.            *)
LEMMA GivenGrows ==
  ASSUME NEW rows \in Seq(Row), NEW out \in Seq(DOMAIN rows), NEW i \in DOMAIN rows, NEW c
  PROVE  /\ GivenIn(rows, out, c) \in Nat
         /\ GivenIn(rows, Append(out, i), c) =
              GivenIn(rows, out, c) + (IF rows[i].cat = c THEN 1 ELSE 0)
<1> DEFINE at(o) == {k \in DOMAIN o : rows[o[k]].cat = c}
           n == Len(out)
           next == Append(out, i)
<1>1. /\ n \in Nat /\ DOMAIN out = 1..n /\ DOMAIN next = 1..n + 1 /\ next[n + 1] = i
      /\ \A k \in 1..n : next[k] = out[k]
  OBVIOUS
<1>2. at(out) \subseteq 1..n /\ IsFiniteSet(1..n)
  BY <1>1, FS_Interval
<1>3. IsFiniteSet(at(out)) /\ Cardinality(at(out)) \in Nat
  <2> HIDE DEF at
  <2> QED BY <1>2, FS_Subset, FS_CardinalityType
<1>4. n + 1 \notin at(out)
  BY <1>1
<1>5. at(next) = IF rows[i].cat = c THEN at(out) \cup {n + 1} ELSE at(out)
  <2>1. \A k : k \in at(next) <=> k \in at(out) \/ (rows[i].cat = c /\ k = n + 1)
    <3> HIDE DEF next
    <3> QED BY <1>1
  <2> HIDE DEF at
  <2> QED BY <2>1
<1>6. GivenIn(rows, out, c) = Cardinality(at(out)) /\ GivenIn(rows, next, c) = Cardinality(at(next))
  BY DEF GivenIn
<1> HIDE DEF at, next, n
<1>7. Cardinality(at(next)) = Cardinality(at(out)) + (IF rows[i].cat = c THEN 1 ELSE 0)
  <2>1. CASE rows[i].cat = c
    BY <1>3, <1>4, <1>5, <2>1, FS_AddElement
  <2>2. CASE rows[i].cat # c
    BY <1>3, <1>5, <2>2
  <2> QED BY <2>1, <2>2
<1> QED BY <1>3, <1>6, <1>7 DEF next

LEMMA GivenNat ==
  ASSUME NEW rows, NEW out \in Seq(DOMAIN rows), NEW c
  PROVE  GivenIn(rows, out, c) \in Nat
<1> DEFINE S == {k \in DOMAIN out : rows[out[k]].cat = c}
<1>1. S \subseteq 1..Len(out) /\ Len(out) \in Nat
  OBVIOUS
<1> HIDE DEF S
<1>2. IsFiniteSet(S)
  <2>1. IsFiniteSet(1..Len(out))
    BY <1>1, FS_Interval
  <2> QED BY <1>1, <2>1, FS_Subset
<1> QED BY <1>2, FS_CardinalityType DEF GivenIn, S

(* When nobody has a turn left, everybody who has something left gets one. *)
LEMMA NextRound ==
  ASSUME NEW rows \in Seq(Row), NEW off, NEW d, Fair(rows, off, d), d.turns = <<>>,
         NEW turns, turns = Kept(d.order, {k \in DOMAIN d.order : OfCat(rows, d.left, d.order[k]) # {}})
  PROVE  InTurn(rows, d, turns)
<1> DEFINE S == {k \in DOMAIN d.order : OfCat(rows, d.left, d.order[k]) # {}}
<1>1. /\ d.order \in Seq(DOMAIN CatFold) /\ d.out \in Seq(DOMAIN rows)
      /\ IsInjective(d.order) /\ InTurn(rows, d, <<>>)
  BY DEF Fair, DrawRecord
<1>2. S \subseteq DOMAIN d.order /\ \A k \in S : OfCat(rows, d.left, d.order[k]) # {}
  OBVIOUS
<1>3. \A k \in DOMAIN d.order : OfCat(rows, d.left, d.order[k]) # {} => k \in S
  OBVIOUS
<1>4. turns = Kept(d.order, S)
  OBVIOUS
<1> HIDE DEF S
<1>5. /\ turns \in Seq(DOMAIN CatFold) /\ IsInjective(turns)
      /\ \A c \in ToSet(turns) : \E i \in S : c = d.order[i]
      /\ \A i \in S : d.order[i] \in ToSet(turns)
  <2> DEFINE order == d.order
             T == DOMAIN CatFold
  <2>1. order \in Seq(T) /\ IsInjective(order) /\ S \subseteq DOMAIN order /\ turns = Kept(order, S)
    BY <1>1, <1>2, <1>4
  <2> HIDE DEF order, T
  <2>2. /\ turns \in Seq(T) /\ IsInjective(turns)
        /\ \A c \in ToSet(turns) : \E i \in S : c = order[i]
        /\ \A i \in S : order[i] \in ToSet(turns)
    <3>1. Kept(order, S) \in Seq(T)
      BY <2>1, KeptOnce
    <3>2. IsInjective(Kept(order, S))
      BY <2>1, KeptOnce
    <3>3. \A c \in ToSet(Kept(order, S)) : \E i \in S : c = order[i]
      BY <2>1, KeptOnce
    <3>4. \A i \in S : order[i] \in ToSet(Kept(order, S))
      BY <2>1, KeptOnce
    <3> QED BY <2>1, <3>1, <3>2, <3>3, <3>4
  <2> QED BY <2>2 DEF order, T
<1>6. \A c \in ToSet(turns) : c \in ToSet(d.order) /\ OfCat(rows, d.left, c) # {}
  <2> SUFFICES ASSUME NEW c \in ToSet(turns) PROVE c \in ToSet(d.order) /\ OfCat(rows, d.left, c) # {}
    OBVIOUS
  <2>1. PICK i \in S : c = d.order[i]
    BY <1>5
  <2> QED BY <1>2, <2>1 DEF ToSet
<1>7. \A c \in ToSet(d.order) : OfCat(rows, d.left, c) # {} => c \in ToSet(turns)
  <2> SUFFICES ASSUME NEW c \in ToSet(d.order), OfCat(rows, d.left, c) # {} PROVE c \in ToSet(turns)
    OBVIOUS
  <2>1. PICK k \in DOMAIN d.order : c = d.order[k]
    BY DEF ToSet
  <2> QED BY <1>3, <1>5, <2>1
<1>8. PICK r \in Nat : Level(rows, d, <<>>, r)
  BY <1>1 DEF InTurn
<1>9. Level(rows, d, turns, r + 1)
  <2> SUFFICES ASSUME NEW c \in ToSet(d.order)
               PROVE  /\ GivenIn(rows, d.out, c) <= r + 1
                      /\ OfCat(rows, d.left, c) # {} =>
                           GivenIn(rows, d.out, c) + (IF c \in ToSet(turns) THEN 1 ELSE 0) = r + 1
    BY DEF Level
  <2>1. c \notin ToSet(<<>>)
    BY DEF ToSet
  <2>2. GivenIn(rows, d.out, c) <= r /\ (OfCat(rows, d.left, c) # {} => GivenIn(rows, d.out, c) + 0 = r)
    BY <1>8, <2>1 DEF Level
  <2>3. GivenIn(rows, d.out, c) \in Nat
    BY <1>1, GivenNat
  <2>4. CASE OfCat(rows, d.left, c) = {}
    BY <2>2, <2>3, <2>4
  <2>5. CASE OfCat(rows, d.left, c) # {}
    <3>1. c \in ToSet(turns)
      BY <1>7, <2>5
    <3> QED BY <2>2, <2>3, <2>5, <3>1
  <2> QED BY <2>4, <2>5
<1>10. r + 1 \in Nat
  OBVIOUS
<1> QED BY <1>5, <1>6, <1>9, <1>10 DEF InTurn

(* The one whose turn it is gives one of its methods.                      *)
LEMMA TurnTaken ==
  ASSUME NEW rows \in Seq(Row), NEW off, NEW d, Fair(rows, off, d),
         NEW turns, InTurn(rows, d, turns), turns # <<>>,
         NEW i \in OfCat(rows, d.left, Head(turns))
  PROVE  Fair(rows, off, [d EXCEPT !.turns = Tail(turns), !.left = @ \ {i}, !.out = Append(@, i)])
<1> DEFINE e == [d EXCEPT !.turns = Tail(turns), !.left = @ \ {i}, !.out = Append(@, i)]
           h == Head(turns)
           n == Len(d.out)
<1>1. /\ d \in DrawRecord(rows) /\ d.order \in Seq(DOMAIN CatFold) /\ d.left \in SUBSET DOMAIN rows
      /\ d.out \in Seq(DOMAIN rows) /\ d.want \in Nat
      /\ IsInjective(d.order) /\ IsInjective(d.out)
      /\ \A k \in DOMAIN d.out : d.out[k] \notin d.left /\ rows[d.out[k]].name \notin off
      /\ \A j \in d.left : rows[j].name \notin off
  BY DEF Fair, DrawRecord
<1>2. /\ turns \in Seq(DOMAIN CatFold) /\ IsInjective(turns)
      /\ \A c \in ToSet(turns) : c \in ToSet(d.order) /\ OfCat(rows, d.left, c) # {}
  BY DEF InTurn
<1>3. PICK r \in Nat : Level(rows, d, turns, r)
  BY DEF InTurn
<1>4. i \in d.left /\ i \in DOMAIN rows /\ rows[i].cat = h
  BY <1>1 DEF OfCat
<1>5. /\ e.order = d.order /\ e.turns = Tail(turns) /\ e.left = d.left \ {i}
      /\ e.out = Append(d.out, i) /\ e.want = d.want
  BY <1>1 DEF DrawRecord
<1>5a. Tail(turns) \in Seq(DOMAIN CatFold) /\ d.left \ {i} \in SUBSET DOMAIN rows /\ Append(d.out, i) \in Seq(DOMAIN rows)
                   => e \in DrawRecord(rows)
  BY <1>1 DEF DrawRecord
<1> HIDE DEF e
<1>6. /\ Len(turns) \in Nat /\ Len(turns) > 0 /\ DOMAIN turns = 1..Len(turns) /\ h = turns[1]
      /\ Tail(turns) \in Seq(DOMAIN CatFold) /\ DOMAIN Tail(turns) = 1..Len(turns) - 1
      /\ \A k \in 1..Len(turns) - 1 : Tail(turns)[k] = turns[k + 1]
  BY <1>2
<1>7. /\ n \in Nat /\ DOMAIN d.out = 1..n /\ DOMAIN e.out = 1..n + 1 /\ e.out[n + 1] = i
      /\ \A k \in 1..n : e.out[k] = d.out[k]
      /\ e.out \in Seq(DOMAIN rows)
  BY <1>1, <1>4, <1>5
<1>8. IsInjective(Tail(turns))
  <2> SUFFICES ASSUME NEW k \in 1..Len(turns) - 1, NEW l \in 1..Len(turns) - 1, turns[k + 1] = turns[l + 1]
               PROVE  k = l
    BY <1>6 DEF IsInjective
  <2>1. k + 1 \in DOMAIN turns /\ l + 1 \in DOMAIN turns
    BY <1>6
  <2>2. k + 1 = l + 1
    BY <1>2, <2>1 DEF IsInjective
  <2> QED BY <1>6, <2>2
<1>9. \A c : c \in ToSet(Tail(turns)) <=> c \in ToSet(turns) /\ c # h
  <2>1. \A k \in 1..Len(turns) - 1 : k + 1 \in DOMAIN turns /\ turns[k + 1] # h
    <3> SUFFICES ASSUME NEW k \in 1..Len(turns) - 1 PROVE k + 1 \in DOMAIN turns /\ turns[k + 1] # h
      OBVIOUS
    <3>1. k + 1 \in DOMAIN turns /\ 1 \in DOMAIN turns /\ k + 1 # 1
      BY <1>6
    <3> QED BY <1>2, <1>6, <3>1 DEF IsInjective
  <2>2. ASSUME NEW c, c \in ToSet(Tail(turns)) PROVE c \in ToSet(turns) /\ c # h
    <3>1. PICK k \in 1..Len(turns) - 1 : c = turns[k + 1]
      BY <1>6, <2>2 DEF ToSet
    <3> QED BY <2>1, <3>1 DEF ToSet
  <2>3. ASSUME NEW c, c \in ToSet(turns), c # h PROVE c \in ToSet(Tail(turns))
    <3>1. PICK k \in DOMAIN turns : c = turns[k]
      BY <2>3 DEF ToSet
    <3>2. k # 1
      BY <1>6, <2>3, <3>1
    <3>3. k - 1 \in 1..Len(turns) - 1 /\ turns[(k - 1) + 1] = c
      BY <1>6, <3>1, <3>2
    <3>4. Tail(turns)[k - 1] = c /\ k - 1 \in DOMAIN Tail(turns)
      BY <1>6, <3>3
    <3> QED BY <3>4 DEF ToSet
  <2> QED BY <2>2, <2>3
<1>10. \A c : c # h => OfCat(rows, e.left, c) = OfCat(rows, d.left, c)
  BY <1>4, <1>5 DEF OfCat
<1>11. \A c : OfCat(rows, e.left, c) # {} => OfCat(rows, d.left, c) # {}
  BY <1>5 DEF OfCat
<1>12. \A c : /\ GivenIn(rows, d.out, c) \in Nat
              /\ GivenIn(rows, e.out, c) = GivenIn(rows, d.out, c) + (IF h = c THEN 1 ELSE 0)
  <2> SUFFICES ASSUME NEW c
               PROVE  /\ GivenIn(rows, d.out, c) \in Nat
                      /\ GivenIn(rows, e.out, c) = GivenIn(rows, d.out, c) + (IF h = c THEN 1 ELSE 0)
    OBVIOUS
  <2>1. /\ GivenIn(rows, d.out, c) \in Nat
        /\ GivenIn(rows, Append(d.out, i), c) = GivenIn(rows, d.out, c) + (IF rows[i].cat = c THEN 1 ELSE 0)
    BY <1>1, <1>4, GivenGrows
  <2> QED BY <1>4, <1>5, <2>1
<1>13. h \in ToSet(turns)
  BY <1>6 DEF ToSet
<1>14. Level(rows, e, Tail(turns), r)
  <2> SUFFICES ASSUME NEW c \in ToSet(d.order)
               PROVE  /\ GivenIn(rows, e.out, c) <= r
                      /\ OfCat(rows, e.left, c) # {} =>
                           GivenIn(rows, e.out, c) + (IF c \in ToSet(Tail(turns)) THEN 1 ELSE 0) = r
    BY <1>5 DEF Level
  <2>1. /\ GivenIn(rows, d.out, c) <= r
        /\ OfCat(rows, d.left, c) # {} =>
             GivenIn(rows, d.out, c) + (IF c \in ToSet(turns) THEN 1 ELSE 0) = r
    BY <1>3 DEF Level
  <2>2. CASE c = h
    <3>1. GivenIn(rows, d.out, c) + 1 = r
      BY <1>2, <1>13, <2>1, <2>2
    <3>2. GivenIn(rows, e.out, c) = GivenIn(rows, d.out, c) + 1 /\ GivenIn(rows, d.out, c) \in Nat
      BY <1>12, <2>2
    <3>3. c \notin ToSet(Tail(turns))
      BY <1>9, <2>2
    <3> QED BY <3>1, <3>2, <3>3
  <2>3. CASE c # h
    <3>1. GivenIn(rows, e.out, c) = GivenIn(rows, d.out, c) /\ GivenIn(rows, d.out, c) \in Nat
      BY <1>12, <2>3
    <3> QED BY <1>9, <1>10, <2>1, <2>3, <3>1
  <2> QED BY <2>2, <2>3
<1>15. \A c \in ToSet(Tail(turns)) : c \in ToSet(e.order) /\ OfCat(rows, e.left, c) # {}
  BY <1>2, <1>5, <1>9, <1>10
<1>16. InTurn(rows, e, e.turns)
  BY <1>5, <1>6, <1>8, <1>14, <1>15 DEF InTurn
<1>17. e \in DrawRecord(rows)
  BY <1>1, <1>4, <1>5, <1>5a, <1>6, <1>7
<1>18. IsInjective(e.out)
  <2> SUFFICES ASSUME NEW k \in 1..n + 1, NEW l \in 1..n + 1, e.out[k] = e.out[l] PROVE k = l
    BY <1>7 DEF IsInjective
  <2>1. CASE k \in 1..n /\ l \in 1..n
    BY <1>1, <1>7, <2>1 DEF IsInjective
  <2>2. \A m \in 1..n + 1 : m \in 1..n \/ m = n + 1
    BY <1>7
  <2>3. \A m \in 1..n : e.out[m] # i
    BY <1>1, <1>4, <1>7
  <2> QED BY <1>7, <2>1, <2>2, <2>3
<1>19. \A k \in DOMAIN e.out : e.out[k] \notin e.left /\ rows[e.out[k]].name \notin off
  <2> SUFFICES ASSUME NEW k \in 1..n + 1 PROVE e.out[k] \notin e.left /\ rows[e.out[k]].name \notin off
    BY <1>7
  <2>1. CASE k \in 1..n
    BY <1>1, <1>5, <1>7, <2>1
  <2>2. CASE k = n + 1
    BY <1>1, <1>4, <1>5, <1>7, <2>2
  <2> QED BY <1>7, <2>1, <2>2
<1>20. \A j \in e.left : rows[j].name \notin off
  BY <1>1, <1>5
<1> QED BY <1>1, <1>5, <1>16, <1>17, <1>18, <1>19, <1>20 DEF Fair, e

(* A reshuffle starts with nothing given.                                  *)
LEMMA DrawBegins ==
  ASSUME Rows \in Seq(Row), NEW all \in SUBSET DOMAIN Rows,
         \A i \in all : Rows[i].name \notin offered, SpreadSample(all, MenuSize)
  PROVE  Fair(Rows, offered, draw')
<1> DEFINE cats == CatsIn(all)
<1>1. /\ DOMAIN Rows = 1..Len(Rows) /\ Len(Rows) \in Nat
      /\ \A i \in DOMAIN Rows : Rows[i] \in Row
  OBVIOUS
<1>2. IsFiniteSet(all)
  <2>1. IsFiniteSet(1..Len(Rows))
    BY <1>1, FS_Interval
  <2> QED BY <1>1, <2>1, FS_Subset
<1>3. cats \subseteq DOMAIN CatFold
  BY <1>1 DEF CatsIn, Row
<1>4. IsFiniteSet(cats)
  <2> DEFINE f == [i \in all |-> Rows[i].cat]
  <2>1. f \in Surjection(all, cats)
    BY DEF Surjection, CatsIn
  <2> HIDE DEF f
  <2> QED BY <1>2, <2>1, FS_Surjection
<1>5. PICK order \in SetToSeqs(cats) :
        draw' = [order |-> order, turns |-> <<>>, left |-> all, out |-> <<>>,
                 want |-> Min({MenuSize, Cardinality(all)})]
  BY DEF SpreadSample
<1> HIDE DEF cats
<1>6. Cardinality(cats) \in Nat
  BY <1>4, FS_CardinalityType
<1>7. /\ order \in [1..Cardinality(cats) -> cats]
      /\ \A i, j \in 1..Cardinality(cats) : i # j => order[i] # order[j]
  BY DEF SetToSeqs
<1>8. order \in Seq(DOMAIN CatFold)
  <2>1. order \in [1..Cardinality(cats) -> DOMAIN CatFold]
    BY <1>3, <1>7
  <2> QED BY <1>6, <2>1, FunctionsAreLists
<1>9. IsInjective(order)
  BY <1>7 DEF IsInjective
<1>10. Min({MenuSize, Cardinality(all)}) \in Nat
  <2>1. {MenuSize, Cardinality(all)} \subseteq Nat /\ {MenuSize, Cardinality(all)} # {}
    BY <1>2, FS_CardinalityType, MenuSizeNat
  <2> QED BY <2>1, MinIs
<1>11. /\ draw'.order = order /\ draw'.turns = <<>> /\ draw'.left = all /\ draw'.out = <<>>
       /\ draw' \in DrawRecord(Rows)
  BY <1>5, <1>8, <1>10 DEF DrawRecord
<1>12. \A c : GivenIn(Rows, <<>>, c) = 0
  <2> SUFFICES ASSUME NEW c PROVE GivenIn(Rows, <<>>, c) = 0
    OBVIOUS
  <2>1. {k \in DOMAIN <<>> : Rows[<<>>[k]].cat = c} = {}
    OBVIOUS
  <2> QED BY <2>1, FS_EmptySet DEF GivenIn
<1>13. ToSet(<<>>) = {} /\ IsInjective(<<>>) /\ <<>> \in Seq(DOMAIN CatFold)
  BY DEF ToSet, IsInjective
<1>14. Level(Rows, draw', <<>>, 0)
  BY <1>11, <1>12, <1>13 DEF Level
<1>15. InTurn(Rows, draw', <<>>)
  BY <1>13, <1>14 DEF InTurn
<1> QED BY <1>9, <1>11, <1>13, <1>15 DEF Fair

(* Between reshuffles nothing is drawn; in one, the draw is fair.          *)
DrawIs ==
  /\ catalog \in Catalogs
  /\ pc # "draw" => draw = None
  /\ pc = "draw" => Fair(Rows, offered, draw)

LEMMA DrawInit == PicksInit => DrawIs
BY DEF PicksInit, DrawIs

LEMMA DrawStep == DrawIs /\ [PicksNext]_picksVars => DrawIs'
<1> SUFFICES ASSUME DrawIs, [PicksNext]_picksVars PROVE DrawIs'
  OBVIOUS
<1>1. catalog' = catalog /\ catalog \in Catalogs
  BY DEF DrawIs, PicksNext, picksVars, FirstMenu, Reshuffle, Drawn, ListAll, Proceed, DrawOne, Choose
<1>2. Rows' = Rows /\ Rows \in Seq(Row)
  BY <1>1, RowsAre DEF Rows
<1>3. ASSUME NEW cats \in SUBSET DOMAIN CatFold, FirstMenu(cats) PROVE DrawIs'
  BY <1>1, <1>3 DEF DrawIs, FirstMenu, Offer
<1>4. CASE Reshuffle
  <2> DEFINE all == Exclude(Rows, FilterCats(Rows, {}), offered)
  <2>1. all \in SUBSET DOMAIN Rows /\ \A i \in all : Rows[i].name \notin offered
    BY DEF Exclude, FilterCats
  <2>2. SpreadSample(all, MenuSize) /\ pc' = "draw" /\ offered' = offered
    BY <1>4 DEF Reshuffle
  <2> HIDE DEF all
  <2>3. Fair(Rows, offered, draw')
    BY <1>2, <2>1, <2>2, DrawBegins
  <2> QED BY <1>1, <1>2, <2>2, <2>3 DEF DrawIs
<1>5. ASSUME NEW i \in DOMAIN Rows, DrawOne(i) PROVE DrawIs'
  <2>1. /\ pc = "draw" /\ Turns # <<>> /\ i \in LeftIn(Head(Turns)) /\ pc' = pc /\ offered' = offered
        /\ draw' = [draw EXCEPT !.turns = Tail(Turns), !.left = @ \ {i}, !.out = Append(@, i)]
    BY <1>5 DEF DrawOne, Drawing
  <2>2. Fair(Rows, offered, draw)
    BY <2>1 DEF DrawIs
  <2>3. \A c : LeftIn(c) = OfCat(Rows, draw.left, c)
    BY DEF LeftIn, OfCat
  <2>4. InTurn(Rows, draw, Turns)
    <3>1. CASE draw.turns = <<>>
      <4>1. Turns = Kept(draw.order, {k \in DOMAIN draw.order : OfCat(Rows, draw.left, draw.order[k]) # {}})
        BY <2>3, <3>1 DEF Turns, StillHave
      <4> QED BY <1>2, <2>2, <3>1, <4>1, NextRound
    <3>2. CASE draw.turns # <<>>
      BY <2>2, <3>2 DEF Turns, Fair
    <3> QED BY <3>1, <3>2
  <2>5. i \in OfCat(Rows, draw.left, Head(Turns))
    BY <2>1, <2>3
  <2>6. Fair(Rows, offered, draw')
    BY <1>2, <2>1, <2>2, <2>4, <2>5, TurnTaken
  <2> QED BY <1>1, <1>2, <2>1, <2>6 DEF DrawIs
<1>6. CASE Drawn
  BY <1>1, <1>6 DEF DrawIs, Drawn, Offer
<1>7. CASE ListAll \/ Proceed
  BY <1>1, <1>7 DEF DrawIs, ListAll, Proceed
<1>8. ASSUME NEW i \in DOMAIN Rows, NEW kind \in {"name", "num"}, Choose(i, kind) PROVE DrawIs'
  <2>1. pc # "draw" /\ pc' = "menu" /\ draw' = draw
    BY <1>8 DEF Choose
  <2> QED BY <1>1, <2>1 DEF DrawIs
<1>9. CASE UNCHANGED picksVars
  BY <1>2, <1>9 DEF DrawIs, picksVars
<1> QED BY <1>3, <1>4, <1>5, <1>6, <1>7, <1>8, <1>9 DEF PicksNext

(* A reshuffle draws what was never offered, no method twice, and never    *)
(* takes a second more from one category than from another that has        *)
(* methods left: the round-robin of spread_sample.                         *)
THEOREM ReshufflesSpread == PicksSpec => []ReshuffleSpreads
<1>1. DrawIs => ReshuffleSpreads
  <2> SUFFICES ASSUME DrawIs, draw # None
               PROVE  /\ IsInjective(draw.out) /\ \A k \in DOMAIN draw.out : Rows[draw.out[k]].name \notin offered
                      /\ \A c, d \in ToSet(draw.order) : LeftIn(d) # {} => Given(c) <= Given(d) + 1
    BY DEF ReshuffleSpreads
  <2>1. Fair(Rows, offered, draw)
    BY DEF DrawIs
  <2>2. PICK r \in Nat : Level(Rows, draw, draw.turns, r)
    BY <2>1 DEF Fair, InTurn
  <2>3. \A c : Given(c) = GivenIn(Rows, draw.out, c) /\ Given(c) \in Nat
    <3>1. draw.out \in Seq(DOMAIN Rows)
      BY <2>1 DEF Fair, DrawRecord
    <3>2. \A c : GivenIn(Rows, draw.out, c) \in Nat
      BY <3>1, GivenNat
    <3> QED BY <3>2 DEF Given, GivenIn
  <2>4. ASSUME NEW c \in ToSet(draw.order), NEW d \in ToSet(draw.order), LeftIn(d) # {}
        PROVE  Given(c) <= Given(d) + 1
    <3>1. Given(c) <= r
      BY <2>2, <2>3 DEF Level
    <3>2. OfCat(Rows, draw.left, d) # {}
      BY <2>4 DEF LeftIn, OfCat
    <3>3. Given(d) = r \/ Given(d) + 1 = r
      BY <2>2, <2>3, <3>2 DEF Level
    <3> QED BY <2>3, <3>1, <3>3
  <2> QED BY <2>1, <2>4 DEF Fair
<1> QED BY <1>1, DrawInit, DrawStep, PTL DEF PicksSpec
=============================================================================
