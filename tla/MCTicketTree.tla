---------------------------- MODULE MCTicketTree ----------------------------
(* Small initiatives for TicketTree, with the plans the builds left.       *)
EXTENDS TicketTree, TLC

NoFiles == [s \in Names |-> Nothing]
NoPlans == [p \in PlanNames |-> Nothing]
None == [n \in {} |-> Nothing]

E(name, refine, after) == [name |-> name, refine |-> refine, after |-> after]
Tree(listed, entries, gates, leaves, plans, closed) ==
  [store |-> "repo", gate |-> gates,
   breakdown |-> [listed |-> listed, entry |-> entries, after |-> [e \in listed |-> {}]],
   container |-> [e \in Epics |-> IF e \in closed THEN "done" ELSE "in-progress"],
   leaf |-> leaves, plan |-> plans]
Plan(n, s) == [ticket |-> n, status |-> s, blocked |-> FALSE]
Stray == [id |-> Nothing, status |-> "", tracker |-> "", blocked |-> FALSE,
          refined |-> FALSE, after |-> Nothing]

Progress == {"built", "dropped"}

\* The second epic's line in the initiative's breakdown is after the first.
Behind(trees) == {[t EXCEPT !.breakdown.after["epic-b"] = {"epic-a"}] : t \in trees}

\* Two epics, the second behind the first, with an entry across epics; the
\* first entry's plan has a name the build chose.
Gated == Behind(
  {Tree(Epics,
     [e \in Epics |-> IF e = "epic-a"
        THEN ("1" :> E("x", FALSE, {}) @@ "2" :> E("y", TRUE, {<<"id", "1">>}))
        ELSE ("1" :> E("x", FALSE, {<<"cross", "epic-a", "2">>}))],
     [e \in Epics |-> IF e = "epic-b" THEN {<<"epic", "epic-a">>} ELSE {}],
     [e \in Epics |-> NoFiles],
     [e \in Epics |-> IF e = "epic-a" THEN [NoPlans EXCEPT !["odd"] = Plan("1", s)] ELSE NoPlans],
     {}) : s \in Progress})

\* The second epic's gate is an entry of the first that waits for another.
GatedByEntry ==
  {Tree(Epics,
     [e \in Epics |-> IF e = "epic-a"
        THEN ("1" :> E("x", FALSE, {}) @@ "2" :> E("y", TRUE, {<<"id", "1">>}))
        ELSE ("1" :> E("x", FALSE, {}))],
     [e \in Epics |-> IF e = "epic-b" THEN {<<"cross", "epic-a", "2">>} ELSE {}],
     [e \in Epics |-> NoFiles], [e \in Epics |-> NoPlans], {})}

\* The second epic waits for the first, one of whose entries waits for an entry
\* of the second: only the gates close the circle.
Crossed ==
  {Tree(Epics,
     [e \in Epics |-> IF e = "epic-a"
        THEN ("1" :> E("x", FALSE, {<<"cross", "epic-b", "1">>})) ELSE ("1" :> E("x", FALSE, {}))],
     [e \in Epics |-> IF e = "epic-b" THEN {<<"epic", "epic-a">>} ELSE {}],
     [e \in Epics |-> NoFiles], [e \in Epics |-> NoPlans], {})}

\* Two entries of one title: one leaf name, one plan name.
Namesakes ==
  {Tree(Epics,
     [e \in Epics |-> IF e = "epic-a"
        THEN ("1" :> E("x", r, {}) @@ "2" :> E("x", FALSE, after)) ELSE None],
     [e \in Epics |-> {}], [e \in Epics |-> NoFiles], [e \in Epics |-> NoPlans],
     {"epic-b"}) : r \in BOOLEAN, after \in {{}, {<<"id", "1">>}, {<<"epic", "epic-b">>}}}

\* In each epic a leaf with no entry and one name, in the first an entry that
\* follows `after`: the second leaf flagged blocked, or on a tracker store.
Backlog(after) ==
  {[Tree({"epic-a"},
      [e \in Epics |-> IF e = "epic-a" THEN ("1" :> E("x", FALSE, after)) ELSE None],
      [e \in Epics |-> {}],
      [e \in Epics |-> [NoFiles EXCEPT
         !["y"] = [Stray EXCEPT !.tracker = t, !.blocked = st = "repo" /\ e = "epic-b"]]],
      [e \in Epics |-> NoPlans], {}) EXCEPT !.store = st] :
     <<st, t>> \in {<<"repo", "">>, <<"tracker", "">>, <<"tracker", "review">>}}

\* A pulled leaf whose own `after` overrides its entry's.
Drifted ==
  {Tree(Epics,
     [e \in Epics |-> IF e = "epic-a"
        THEN ("1" :> E("x", FALSE, {}) @@ "2" :> E("y", FALSE, {<<"id", "1">>})) ELSE None],
     [e \in Epics |-> {}],
     [e \in Epics |-> IF e = "epic-a"
        THEN [NoFiles EXCEPT !["y"] = [Stray EXCEPT !.id = "2", !.after = {}]] ELSE NoFiles],
     [e \in Epics |-> NoPlans], {})}

MCTrees == Gated \cup GatedByEntry \cup Crossed \cup Namesakes \cup Backlog({}) \cup Drifted

\* The agents are alike.
Symmetry == Permutations(Agents)

\* The trees whose entry names a leaf file that has no id.
StrayTrees == Backlog({<<"file", "y">>})
=============================================================================
