---------------------------- MODULE BrainSession ----------------------------
(***************************************************************************)
(* A brainstorming session: composed on TechniquePage or drawn in chat,    *)
(* then run technique by technique, each start logged with Memlog.  The    *)
(* host that runs it is not code of the repository; it is modelled from    *)
(* the calls SKILL.md has it make (external).  A host may die and another  *)
(* resume from the log, even while the first still runs.                   *)
(***************************************************************************)
EXTENDS TechniquePage, Memlog

CONSTANTS
  MaxTechs,   \* bound on the techniques of a session that is run
  MaxEntries, \* bound on the length of the log
  MaxKills    \* bound on what dies

ASSUME MaxTechsNat == MaxTechs \in Nat
ASSUME NothingIsNone == Nothing \notin Nat

VARIABLES
  batch,   \* the techniques of the session, none while it is composed
  mode,    \* and its mode
  host,    \* [Callers -> the techniques a host has logged, or Nothing]
  kills,   \* what died so far
  strayed  \* history: a host repeated a command that had died, or resumed while
           \* another host, or the command of a dead one, was at work

vars == <<rows, overlay, cards, page, logVars, batch, mode, host, kills, strayed>>
sessionVars == <<batch, mode, host, kills, strayed>>

Composing == batch = <<>>
On(c) == host[c] # Nothing
NameList(techs) == [k \in 1 .. Len(techs) |-> techs[k].name]

\* The batch is fixed: pasted from the page, whose tab is closed, or drawn by
\* random among some categories and shown one by one.
Begin(techs, m) ==
  /\ Composing /\ Len(techs) \in 1 .. MaxTechs
  /\ batch' = NameList(techs) /\ mode' = m
  /\ \E c \in Callers : host' = [host EXCEPT ![c] = 0]
  /\ rows' = <<>> /\ overlay' = <<>> /\ cards' = <<>> /\ page' = Fresh({}, {})
  /\ UNCHANGED <<logVars, kills, strayed>>

Copy == \E p \in Prompts : Begin(p.techs, p.mode)
Chat == \E cats \in SUBSET CatsOf(rows), n \in 1 .. MaxTechs :
          \E S \in Draws(rows, cats, n) : \E techs \in SetToSeqs(S) : Begin(techs, MainMode)

\* What a host does next: create the log, log the next start, close the session.
NextCall(c) ==
  /\ On(c)
  /\ \/ log = NoFile /\ CallInit(c, [Blank.fields EXCEPT !["mode"] = mode])
     \/ /\ Reads /\ host[c] < Len(batch) /\ Len(Log.entries) < MaxEntries
        /\ CallAppend(c, batch[host[c] + 1])
     \/ /\ Reads /\ host[c] = Len(batch) /\ Log.fields["status"] = Nothing
        /\ CallSet(c, "status", "complete")
  /\ UNCHANGED <<rows, overlay, cards, page, sessionVars>>

Reported(c) ==
  /\ Report(c)
  /\ host' = IF On(c) /\ call[c].does = "append" THEN [host EXCEPT ![c] = @ + 1] ELSE host
  /\ UNCHANGED <<rows, overlay, cards, page, batch, mode, kills, strayed>>

\* A host resumes a session that is not complete from what the log says.
Resume(c) ==
  /\ ~Composing /\ ~On(c) /\ Reads /\ Log.fields["status"] = Nothing
  /\ host' = [host EXCEPT ![c] = Len(Log.entries)]
  /\ strayed' = (strayed \/ \E d \in Callers : On(d) \/ Running(d))
  /\ UNCHANGED <<rows, overlay, cards, page, logVars, batch, mode, kills>>

Dies == kills < MaxKills /\ kills' = kills + 1

\* A command dies and its host runs it again; a host dies, with its command or
\* leaving it to run.
CallDies(c) ==
  /\ Dies /\ On(c) /\ Kill(c) /\ strayed' = TRUE
  /\ UNCHANGED <<rows, overlay, cards, page, batch, mode, host>>
HostDies(c) ==
  /\ Dies /\ On(c) /\ host' = [host EXCEPT ![c] = Nothing]
  /\ Kill(c) \/ UNCHANGED logVars
  /\ UNCHANGED <<rows, overlay, cards, page, batch, mode, strayed>>

\* A session whose only hosts died before there was a log starts over.
StartOver(c) ==
  /\ ~Composing /\ log = NoFile /\ \A d \in Callers : ~On(d) /\ ~Running(d)
  /\ host' = [host EXCEPT ![c] = 0]
  /\ UNCHANGED <<rows, overlay, cards, page, logVars, batch, mode, kills, strayed>>

Writes(c) ==
  /\ Open(c) \/ Write(c) \/ Replace(c) \/ ReplaceFails(c)
  /\ UNCHANGED <<rows, overlay, cards, page, sessionVars>>

Init ==
  /\ PageInit /\ LogInit
  /\ batch = <<>> /\ mode = MainMode
  /\ host = [c \in Callers |-> Nothing]
  /\ kills = 0 /\ strayed = FALSE

Next ==
  \/ Composing /\ PageNext /\ UNCHANGED <<logVars, sessionVars>>
  \/ Copy \/ Chat
  \/ \E c \in Callers :
       \/ NextCall(c) \/ Writes(c) \/ Reported(c)
       \/ Resume(c) \/ CallDies(c) \/ HostDies(c) \/ StartOver(c)

Spec == Init /\ [][Next]_vars

-----------------------------------------------------------------------------
(* Properties.                                                             *)

\* What the page shows is what the prompt asks for: the total beside the copy
\* button is the number of different techniques, inventions and picks of the AI
\* in the prompt, whatever was checked twice, hidden or restored by the browser.
TotalIsHonest ==
  Composing => \A p \in Prompts :
    page.shown.total =
      Cardinality({p.techs[k].name : k \in DOMAIN p.techs}) + p.inv + Cardinality(p.invent) + p.ai

\* A technique of the overlay retunes the shipped one of its name, in any case:
\* the page has one home card for it, with the overlay's text, and show finds it.
OverlayWins ==
  \A k \in DOMAIN overlay :
    (\A j \in DOMAIN overlay : Lower[overlay[j].name] = Lower[overlay[k].name] => j <= k) =>
      /\ Show(rows, overlay[k].name) = {overlay[k]}
      /\ {i \in DOMAIN cards : ~cards[i].lead /\ Lower[NameOn(i)] = Lower[overlay[k].name]}
           = {i \in DOMAIN cards : ~cards[i].lead /\ cards[i].row = overlay[k]}
      /\ Cardinality({i \in DOMAIN cards : ~cards[i].lead /\ cards[i].row = overlay[k]}) = 1

\* A session resumed from its log runs every technique once and in order: as
\* long as one host at a time is at work and none repeats a command that died,
\* the log names the techniques of the batch up to some point, whoever died where.
ResumeContinues ==
  ~Composing /\ Reads /\ ~overlapped /\ ~strayed => IsPrefix(Log.entries, batch)
=============================================================================
