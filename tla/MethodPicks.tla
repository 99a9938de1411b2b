----------------------------- MODULE MethodPicks -----------------------------
(***************************************************************************)
(* pick_methods.py: the elicitation methods with the user's own, and the   *)
(* menu a host serves from them: a first menu it picks by hand from some   *)
(* categories, reshuffles drawn at random, the whole list, and a method    *)
(* chosen by name or number.                                               *)
(*                                                                         *)
(* A row is [num, name, cat]: num None when it has none.  A name stands    *)
(* for all its spellings, and may be the digits of a number.  Texts, codes *)
(* and the two output formats are left out.                                *)
(***************************************************************************)
EXTENDS Naturals, Sequences, FiniteSets, SequencesExt, FiniteSetsExt, Lists

CONSTANTS
  Catalogs,  \* the catalog file's rows with the user's: [rows, extras]
  Digits,    \* [names -> the number the name writes, or None]
  CatFold,   \* [categories -> the category in lower case]
  MenuSize,  \* how many methods a menu offers
  None

Row == [num : Nat \cup {None}, name : DOMAIN Digits, cat : DOMAIN CatFold]

ASSUME CatalogsAreTyped == \A c \in Catalogs : c.rows \in Seq(Row) /\ c.extras \in Seq(Row)
ASSUME MenuSizeNat == MenuSize \in Nat
ASSUME DigitsAreNumbers == Digits \in [DOMAIN Digits -> Nat \cup {None}] /\ None \notin Nat

VARIABLES
  catalog, \* history: the rows and extras the session was started with
  pc,      \* what the host is at: "start", "menu", "draw", "list", "done"
  menu,    \* the methods offered now: positions in the merged catalog
  offered, \* the names offered so far
  draw,    \* the running draw, [order, turns, left, out, want], or None
  ran      \* the method chosen last and the one that ran, or None

picksVars == <<catalog, pc, menu, offered, draw, ran>>

-----------------------------------------------------------------------------
(* The merged catalog.                                                     *)

Called(list, name) == {i \in DOMAIN list : list[i].name = name}

Unnumbered(list) == {i \in DOMAIN list : list[i].num = None}
Nums(list) == {list[i].num : i \in DOMAIN list \ Unnumbered(list)}

Number(list, first) ==
  [i \in DOMAIN list |->
     IF i \notin Unnumbered(list) THEN list[i]
     ELSE [list[i] EXCEPT !.num = first + Cardinality({j \in Unnumbered(list) : j < i})]]

\* Mutant: the next number is the length of the list.
NumberedByLength(list) == Number(list, Len(list))

\* Rows without a number get the next free ones, after the highest.
Numbered(list) == Number(list, Max({0} \cup Nums(list)) + 1)

\* An extra takes the place of the last row with its name, or is new, and a later
\* extra that of an earlier; the latest number given to the name stays with it.
NumOf(row, extras) ==
  LET given == Called(extras, row.name) \ Unnumbered(extras)
  IN IF given = {} THEN row.num ELSE extras[Max(given)].num

Retuned(row, extras) == [extras[Max(Called(extras, row.name))] EXCEPT !.num = NumOf(row, extras)]

IsReplaced(list, i, extras) ==
  Called(extras, list[i].name) # {} /\ i = Max(Called(list, list[i].name))

\* The extras that are new, in the order of their first mention.
NewIn(list, extras) ==
  Kept(extras, {i \in DOMAIN extras : Called(list, extras[i].name) = {}
                                       /\ i = Min(Called(extras, extras[i].name))})

Merged(list, extras) ==
  LET new == NewIn(list, extras)
  IN [i \in DOMAIN list |->
        IF IsReplaced(list, i, extras) THEN Retuned(list[i], extras) ELSE list[i]]
     \o [k \in DOMAIN new |-> Retuned(new[k], extras)]

MergeExtra(list, extras) == Numbered(Merged(list, extras))

\* Without extras the file's rows are served as they are.
Rows == IF catalog.extras = <<>> THEN catalog.rows ELSE MergeExtra(catalog.rows, catalog.extras)

-----------------------------------------------------------------------------
(* The commands.                                                           *)

FilterCats(list, cats) ==
  IF cats = {} THEN DOMAIN list
  ELSE {i \in DOMAIN list : \E c \in cats : CatFold[c] = CatFold[list[i].cat]}

\* A name wins over a number, the last row of a name and the first of a number.
Find(list, text) ==
  LET named == {i \in DOMAIN list :
                  IF text.kind = "num" THEN Digits[list[i].name] = text.is ELSE list[i].name = text.is}
      number == IF text.kind = "num" THEN text.is ELSE Digits[text.is]
      numbered == {i \in DOMAIN list : number # None /\ list[i].num = number}
  IN IF named # {} THEN {Max(named)} ELSE IF numbered # {} THEN {Min(numbered)} ELSE {}

Exclude(list, pool, names) == {i \in pool : list[i].name \notin names}

CatsIn(pool) == {Rows[i].cat : i \in pool}
LeftIn(c) == {i \in draw.left : Rows[i].cat = c}

\* random --spread: the categories of what has not been offered in some order,
\* and how many to draw.
SpreadSample(pool, n) ==
  \E order \in SetToSeqs(CatsIn(pool)) :
    draw' = [order |-> order, turns |-> <<>>, left |-> pool, out |-> <<>>,
             want |-> Min({n, Cardinality(pool)})]

StillHave == Kept(draw.order, {k \in DOMAIN draw.order : LeftIn(draw.order[k]) # {}})

\* Mutant: every draw begins a round of its own.
TurnsAnew == StillHave

\* A round gives each category that still has methods its turn.
Turns == IF draw.turns = <<>> THEN StillHave ELSE draw.turns
Drawing == Turns # <<>> /\ Len(draw.out) < draw.want

-----------------------------------------------------------------------------
(* The host, as SKILL.md has it.                                           *)

Offer(positions) ==
  /\ menu' = positions
  /\ offered' = offered \cup {Rows[i].name : i \in positions}
  /\ pc' = "menu"

FirstMenu(cats) ==
  /\ pc = "start"
  /\ \E positions \in SUBSET FilterCats(Rows, cats) :
       Cardinality(positions) \in 1..MenuSize /\ Offer(positions)
  /\ UNCHANGED <<catalog, draw, ran>>

\* A draw from nothing is an error, and the menu stays.
Reshuffle ==
  /\ pc = "menu"
  /\ LET pool == Exclude(Rows, FilterCats(Rows, {}), offered)
     IN pool # {} /\ SpreadSample(pool, MenuSize)
  /\ pc' = "draw"
  /\ UNCHANGED <<catalog, menu, offered, ran>>

DrawOne(i) ==
  /\ pc = "draw" /\ Drawing
  /\ i \in LeftIn(Head(Turns))
  /\ draw' = [draw EXCEPT !.turns = Tail(Turns), !.left = @ \ {i}, !.out = Append(@, i)]
  /\ UNCHANGED <<catalog, pc, menu, offered, ran>>

Drawn ==
  /\ pc = "draw" /\ ~Drawing
  /\ Offer(ToSet(draw.out))
  /\ draw' = None
  /\ UNCHANGED <<catalog, ran>>

ListAll == pc = "menu" /\ pc' = "list" /\ UNCHANGED <<catalog, menu, offered, draw, ran>>

Shown(i, kind) == [kind |-> kind, is |-> IF kind = "num" THEN Rows[i].num ELSE Rows[i].name]

\* The user names what he sees, and what show finds under that name is run.
Choose(i, kind) ==
  /\ (pc = "menu" /\ i \in menu /\ kind = "name") \/ (pc = "list" /\ i \in DOMAIN Rows)
  /\ kind = "num" => Rows[i].num # None
  /\ ran' = [chosen |-> i, run |-> Find(Rows, Shown(i, kind))]
  /\ pc' = "menu"
  /\ UNCHANGED <<catalog, menu, offered, draw>>

Proceed ==
  /\ pc = "menu" /\ pc' = "done"
  /\ UNCHANGED <<catalog, menu, offered, draw, ran>>

PicksInit ==
  /\ catalog \in Catalogs
  /\ pc = "start" /\ menu = {} /\ offered = {} /\ draw = None /\ ran = None

PicksNext ==
  \/ \E cats \in SUBSET DOMAIN CatFold : FirstMenu(cats)
  \/ Reshuffle \/ Drawn \/ ListAll \/ Proceed
  \/ \E i \in DOMAIN Rows : DrawOne(i) \/ \E kind \in {"name", "num"} : Choose(i, kind)

PicksSpec == PicksInit /\ [][PicksNext]_picksVars

-----------------------------------------------------------------------------
(* Properties.                                                             *)

\* The catalog file is in order and the user numbers nothing himself.
InOrder ==
  /\ \A i, j \in DOMAIN catalog.rows : i # j =>
       /\ catalog.rows[i].name # catalog.rows[j].name
       /\ catalog.rows[i].num = None \/ catalog.rows[i].num # catalog.rows[j].num
  /\ \A i \in DOMAIN catalog.extras : catalog.extras[i].num = None

\* Whatever the user retunes or adds, choosing a method by the name or the number
\* shown beside it runs that method, unless some method is called by that number.
RunsWhatWasChosen ==
  ran # None /\ InOrder /\ (\A i \in DOMAIN Rows : Digits[Rows[i].name] \notin Nums(Rows))
    => ran.run = {ran.chosen}

Given(c) == Cardinality({k \in DOMAIN draw.out : Rows[draw.out[k]].cat = c})

\* A reshuffle draws what was never offered, no method twice, and never takes a
\* second more from one category than from another that has methods left.
ReshuffleSpreads ==
  draw # None =>
    /\ IsInjective(draw.out) /\ \A k \in DOMAIN draw.out : Rows[draw.out[k]].name \notin offered
    /\ \A c, d \in ToSet(draw.order) : LeftIn(d) # {} => Given(c) <= Given(d) + 1
=============================================================================
