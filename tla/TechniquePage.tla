---------------------------- MODULE TechniquePage ----------------------------
(***************************************************************************)
(* brain.py: the technique catalogue with the user's overlay, and the page *)
(* written from it, on which a user composes a brainstorming session.  A   *)
(* technique tagged classic has two cards, one in the lead group and one   *)
(* in its category, each with a box of its own; the page counts and copies *)
(* techniques, not boxes.                                                  *)
(*                                                                         *)
(* A row is [name, cat, gist, classic, goals].  Icons, hues, the jump bar, *)
(* the theme and the wording of the prompt are left out.                   *)
(***************************************************************************)
EXTENDS Integers, Sequences, FiniteSets, SequencesExt, FiniteSetsExt, Lists

CONSTANTS
  Techniques, \* the rows there are
  Catalogs,   \* the shipped rows with an overlay: [rows, extras]
  Lower,      \* [names and categories -> the word in lower case]
  Shipped,    \* the categories the page has a place for, in order
  CatRank,    \* [categories -> Nat], their alphabetical order
  Modes,      \* the facilitation modes, the first in MainMode
  MainMode,
  MaxStep     \* [steppers -> Nat], a bound on each

\* brain-methods.csv has 108 techniques, no two of one name in any case.
ASSUME CatalogsAssumption ==
  \A c \in Catalogs :
    /\ c.rows \in Seq(Techniques) /\ c.extras \in Seq(Techniques)
    /\ \A i, j \in DOMAIN c.rows : i # j => Lower[c.rows[i].name] # Lower[c.rows[j].name]

ASSUME CategoriesAssumption ==
  /\ Shipped \in Seq(DOMAIN CatRank) /\ IsInjective(Shipped)
  /\ CatRank \in [DOMAIN CatRank -> Nat] /\ IsInjective(CatRank)
  /\ \A t \in Techniques : t.cat \in DOMAIN CatRank

ASSUME MainModeIsOne == MainMode \in Modes

VARIABLES
  rows,    \* the merged catalogue
  overlay, \* history: the overlay merged into it
  cards,   \* the page written from it: its technique cards, [row, lead]
  page     \* [checked, invent, rand, inv, ai, mode, goals, hidden, shown]

-----------------------------------------------------------------------------
(* The catalogue.                                                          *)

Sought(list, name) == {i \in DOMAIN list : Lower[list[i].name] = Lower[name]}

\* Mutant: the first of the overlay's rows with a name stays.
Oldest(extras, name) == extras[Min(Sought(extras, name))]

\* Of the overlay's rows with a name the last counts.
Newest(extras, name) == extras[Max(Sought(extras, name))]

\* An overlay row takes the place of the row with its name, in any case, or is new.
IsRetuned(list, i, extras) ==
  Sought(extras, list[i].name) # {} /\ i = Max(Sought(list, list[i].name))

NewIn(list, extras) ==
  Kept(extras, {i \in DOMAIN extras : Sought(list, extras[i].name) = {}
                                       /\ i = Min(Sought(extras, extras[i].name))})

MergeExtra(list, extras) ==
  LET new == NewIn(list, extras)
  IN [i \in DOMAIN list |-> IF IsRetuned(list, i, extras) THEN Newest(extras, list[i].name) ELSE list[i]]
     \o [k \in DOMAIN new |-> Newest(extras, new[k].name)]

FilterCats(list, cats) ==
  IF cats = {} THEN DOMAIN list
  ELSE {i \in DOMAIN list : \E c \in cats : Lower[c] = Lower[list[i].cat]}

\* show: the last row with the name, in any case; nothing for an unknown one.
Show(list, name) ==
  IF Sought(list, name) = {} THEN {} ELSE {list[Max(Sought(list, name))]}

\* random: as many distinct rows as asked for, or as there are.
Draws(list, cats, n) ==
  LET pool == FilterCats(list, cats)
      size == Max({0, Min({n, Cardinality(pool)})})
  IN {{list[i] : i \in S} : S \in kSubset(size, pool)}

-----------------------------------------------------------------------------
(* The page.                                                               *)

CatsOf(list) == {list[i].cat : i \in DOMAIN list}

\* Shipped categories have their order; the others follow by name.
Section(c) ==
  IF c \in ToSet(Shipped) THEN CHOOSE k \in DOMAIN Shipped : Shipped[k] = c
  ELSE Len(Shipped) + 1 + CatRank[c]

\* The rows in the order of their categories' sections, those of one in theirs.
Before(list, i, j) ==
  \/ Section(list[i].cat) < Section(list[j].cat)
  \/ Section(list[i].cat) = Section(list[j].cat) /\ i < j
HomePlace(list, i) == Cardinality({j \in DOMAIN list : Before(list, j, i)}) + 1
BySection(list) == [k \in DOMAIN list |-> list[CHOOSE i \in DOMAIN list : HomePlace(list, i) = k]]

Carded(list, lead) == [i \in DOMAIN list |-> [row |-> list[i], lead |-> lead]]

\* The lead group first, then every category with its rows.
HtmlDoc(list) ==
  Carded(Kept(list, {i \in DOMAIN list : list[i].classic}), TRUE) \o Carded(BySection(list), FALSE)

NameOn(i) == cards[i].row.name

GoalBar == UNION {rows[i].goals : i \in DOMAIN rows}

\* The checked cards in page order, the first of each technique.
CheckedTech(boxes) ==
  Kept([i \in DOMAIN cards |-> i], {i \in boxes : \A j \in boxes : NameOn(j) = NameOn(i) => i <= j})

\* Mutant: only the box itself tells whether a technique is picked.
PoolOfBoxes(boxes) == {i \in DOMAIN cards : i \notin boxes /\ ~cards[i].lead}

RandomPool(boxes) ==
  {i \in DOMAIN cards : i \notin boxes /\ ~cards[i].lead
                          /\ \A j \in boxes : NameOn(j) # NameOn(i)}

\* No more random picks than the pool can supply.
Clamped(p) == Min({p.rand, Cardinality(RandomPool(p.checked))})

\* update(): the clamp, then the counters the user sees.
Updated(p) ==
  LET picks == Len(CheckedTech(p.checked))
  IN [p EXCEPT !.rand = Clamped(p),
        !.shown = [picks |-> picks, rand |-> Clamped(p),
                   total |-> picks + Clamped(p) + p.inv + Cardinality(p.invent) + p.ai]]

Fresh(boxes, spirits) ==
  Updated([checked |-> boxes, invent |-> spirits, rand |-> 0, inv |-> 0, ai |-> 0,
           mode |-> MainMode, goals |-> {}, hidden |-> {},
           shown |-> [picks |-> 0, rand |-> 0, total |-> 0]])

Toggled(S, x) == IF x \in S THEN S \ {x} ELSE S \cup {x}

\* A card the filter hides cannot be clicked.
ToggleCard(i) ==
  /\ i \notin page.hidden
  /\ page' = Updated([page EXCEPT !.checked = Toggled(@, i)])

ToggleInvent(c) == page' = Updated([page EXCEPT !.invent = Toggled(@, c)])

Step(k, d) ==
  /\ page[k] + d <= MaxStep[k]
  /\ page' = Updated([page EXCEPT ![k] = Max({0, @ + d})])

PickMode(m) == page' = [page EXCEPT !.mode = m]

\* The filter hides cards with none of the goals chosen; no box changes.
ToggleGoal(g) ==
  LET goals == Toggled(page.goals, g)
  IN page' = [page EXCEPT !.goals = goals,
       !.hidden = IF goals = {} THEN {}
                  ELSE {i \in DOMAIN cards : cards[i].row.goals \cap goals = {}}]

\* The browser loads the page again (external); it may restore the boxes.
Reload == \E kept \in {TRUE, FALSE} :
  page' = IF kept THEN Fresh(page.checked, page.invent) ELSE Fresh({}, {})

\* compose(): the picks, then random ones drawn from the pool in any order.
Composed(p, drawn) ==
  LET picks == CheckedTech(p.checked)
  IN [mode |-> p.mode, inv |-> p.inv, invent |-> p.invent, ai |-> p.ai,
      techs |-> [k \in DOMAIN picks |-> cards[picks[k]].row]
                  \o [k \in DOMAIN drawn |-> cards[drawn[k]].row]]

Samples(p) ==
  LET size == Min({p.rand, Cardinality(RandomPool(p.checked))})
  IN {drawn \in [1 .. size -> RandomPool(p.checked)] : IsInjective(drawn)}

Prompts == {Composed(page, drawn) : drawn \in Samples(page)}

-----------------------------------------------------------------------------

PageInit ==
  /\ \E c \in Catalogs : overlay = c.extras /\ rows = MergeExtra(c.rows, c.extras)
  /\ cards = HtmlDoc(rows)
  /\ page = Fresh({}, {})

PageNext ==
  /\ \/ \E i \in DOMAIN cards : ToggleCard(i)
     \/ \E c \in CatsOf(rows) : ToggleInvent(c)
     \/ \E k \in {"rand", "inv", "ai"}, d \in {-1, 1} : Step(k, d)
     \/ \E m \in Modes : PickMode(m)
     \/ \E g \in GoalBar : ToggleGoal(g)
     \/ Reload
  /\ UNCHANGED <<rows, overlay, cards>>
=============================================================================
