------------------------------- MODULE Memlog -------------------------------
(***************************************************************************)
(* memlog.py: a skill's append-only log, one file rewritten whole by every *)
(* command through one temporary file beside it.  A command reads the log, *)
(* opens the temporary file, writes and syncs it, renames it over the log  *)
(* and reports; it can die in between.  There is no lock, so commands that *)
(* overlap open the same temporary file: a name and the file behind it     *)
(* are two things.                                                         *)
(*                                                                         *)
(* A text is [front, fields, entries, torn]: whether it has frontmatter,   *)
(* what that says, the lines of the body, and whether the tail of another  *)
(* text was left behind them.                                              *)
(* The `updated` stamp and the layout of a line are left out.              *)
(***************************************************************************)
EXTENDS Naturals, Sequences, FiniteSets, SequencesExt, FiniteSetsExt

CONSTANTS
  Callers,  \* who runs the commands
  Fields,   \* the frontmatter fields
  NoFile,   \* no file behind a name
  Nothing   \* a field that is not set

ASSUME CallersFinite == IsFiniteSet(Callers)
ASSUME NoFileIsNone == NoFile \notin Nat

VARIABLES
  log,        \* the file named .memlog.md, or NoFile
  tmp,        \* the file named .memlog.md.tmp, or NoFile
  content,    \* [Files -> the text in each]
  call,       \* the command each caller runs
  overlapped, \* history: a command began while another ran
  killed      \* history: a command died half way

logVars == <<log, tmp, content, call, overlapped, killed>>

\* The files alive at once: two with a name, one open a caller, one to come.
Files == 1 .. (Cardinality(Callers) + 3)

NoCall == [pc |-> "none"]
Running(c) == call[c].pc # "none"
Blank == [front |-> TRUE, fields |-> [f \in Fields |-> Nothing], entries |-> <<>>, torn |-> FALSE]

\* A file just opened for writing.
Empty == [Blank EXCEPT !.front = FALSE]

\* split() refuses a file without frontmatter, as one just truncated is.
Reads == log # NoFile /\ content[log].front
Log == content[log]

-----------------------------------------------------------------------------
(* What the commands write.                                                *)

\* Mutant: an entry goes where reading begins.
AppendedFirst(entry) == [Log EXCEPT !.entries = <<entry>> \o @]

Appended(entry) == [Log EXCEPT !.entries = Append(@, entry)]
SetTo(f, v) == [Log EXCEPT !.fields[f] = v]
Created(fields) == [Blank EXCEPT !.fields = fields]

Begins(c, does, text) ==
  /\ ~Running(c)
  /\ call' = [call EXCEPT ![c] = [pc |-> "open", does |-> does, text |-> text, file |-> NoFile]]
  /\ overlapped' = (overlapped \/ \E d \in Callers : Running(d))
  /\ UNCHANGED <<log, tmp, content, killed>>

\* init is refused when the log is there, append and set when it is not.
CallInit(c, fields) == log = NoFile /\ Begins(c, "init", Created(fields))
CallAppend(c, entry) == Reads /\ Begins(c, "append", Appended(entry))
CallSet(c, f, v) == Reads /\ Begins(c, "set", SetTo(f, v))

-----------------------------------------------------------------------------
(* write_atomic, which every command ends in.                              *)

Held(f) == f \in {log, tmp} \/ \E c \in Callers : Running(c) /\ call[c].file = f
Unused == Min({f \in Files : ~Held(f)})

\* Mutant: the log itself is opened for writing.
OpenedInPlace == IF log = NoFile THEN Unused ELSE log

\* Opening the temporary file truncates the one there is, or makes one.
Opened == IF tmp = NoFile THEN Unused ELSE tmp

Open(c) ==
  /\ call[c].pc = "open"
  /\ tmp' = Opened /\ content' = [content EXCEPT ![Opened] = Empty]
  /\ call' = [call EXCEPT ![c].pc = "write", ![c].file = Opened]
  /\ UNCHANGED <<log, overlapped, killed>>

\* A text written over a longer one leaves the end of it behind.
MayTear(old, new) ==
  /\ old.front
  /\ ~(IsPrefix(old.entries, new.entries)
         /\ \A f \in Fields : old.fields[f] # Nothing => new.fields[f] = old.fields[f])

Write(c) ==
  /\ call[c].pc = "write"
  /\ \E torn \in BOOLEAN :
       /\ torn => MayTear(content[call[c].file], call[c].text)
       /\ content' = [content EXCEPT ![call[c].file] = [call[c].text EXCEPT !.torn = @ \/ torn]]
  /\ call' = [call EXCEPT ![c].pc = "replace"]
  /\ UNCHANGED <<log, tmp, overlapped, killed>>

\* The rename takes whatever file has the temporary name by now.
Replace(c) ==
  /\ call[c].pc = "replace" /\ tmp # NoFile
  /\ log' = tmp /\ tmp' = NoFile
  /\ call' = [call EXCEPT ![c].pc = "report"]
  /\ content' = [f \in Files |-> IF Held(f) /\ f # log THEN content[f] ELSE Empty]
  /\ UNCHANGED <<overlapped, killed>>

\* It fails when another command has renamed the file away.
ReplaceFails(c) ==
  /\ call[c].pc = "replace" /\ tmp = NoFile
  /\ call' = [call EXCEPT ![c] = NoCall]
  /\ UNCHANGED <<log, tmp, content, overlapped, killed>>

Report(c) ==
  /\ call[c].pc = "report"
  /\ call' = [call EXCEPT ![c] = NoCall]
  /\ UNCHANGED <<log, tmp, content, overlapped, killed>>

Kill(c) ==
  /\ Running(c)
  /\ call' = [call EXCEPT ![c] = NoCall] /\ killed' = TRUE
  /\ UNCHANGED <<log, tmp, content, overlapped>>

LogInit ==
  /\ log = NoFile /\ tmp = NoFile
  /\ content = [f \in Files |-> Empty]
  /\ call = [c \in Callers |-> NoCall]
  /\ overlapped = FALSE /\ killed = FALSE

-----------------------------------------------------------------------------
(* Properties.                                                             *)

\* As long as no two commands overlap, the log only grows at its end and a
\* reader finds it whole, wherever commands die: never edited, reordered, lost
\* or cut short (the invariants 1 and "Atomicity" of memlog.py, lines 20-41).
LogGrows ==
  [][log # NoFile /\ ~overlapped' =>
       /\ log' # NoFile /\ content'[log'].front /\ ~content'[log'].torn
       /\ IsPrefix(content[log].entries, content'[log'].entries)]_logVars

\* A log that no command can read, nor init replace, and that nobody is about to
\* write, takes two accidents: commands overlapped, and one of them died.
UnreadableNeedsBoth ==
  log # NoFile /\ ~content[log].front
    /\ (\A c \in Callers : ~(Running(c) /\ call[c].pc = "write" /\ call[c].file = log))
  => overlapped /\ killed
=============================================================================
