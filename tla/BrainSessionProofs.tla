---------------------------- MODULE BrainSessionProofs -------------------------
(***************************************************************************)
(* What a brainstorming session may rely on in its log, for any number of  *)
(* hosts, techniques and fields, and any order of deaths: UnreadableNeeds- *)
(* Both, LogGrows, ResumeContinues.  A session touches the log by memlog's *)
(* commands only (LogStep), and three facts hold after every one of them:  *)
(* TypeInv, Unkilled (while nobody has died, an empty file with a name is  *)
(* about to be written) and Alone (while no two commands have overlapped,  *)
(* the one that runs owns the temporary file, and its text extends the     *)
(* log it read).  ResumeContinues also needs to know where the hosts are:  *)
(* Hosts (their types; nothing is logged while the session is composed)    *)
(* and Orderly (while none has strayed, the log and the texts on their way *)
(* to it are a part of the batch as long as the count of the host at work).*)
(*                                                                         *)
(* Then what a user may rely on in the page: TotalIsHonest, OverlayWins,   *)
(* for any shipped catalogue, any overlay and any clicks.  The page is     *)
(* what was written from the merged catalogue (CatalogIs), and what it     *)
(* shows adds up (Counted).                                                *)
(***************************************************************************)
EXTENDS BrainSession, ListProofs

TextOf(F, E) == [front : BOOLEAN, fields : F, entries : Seq(E), torn : BOOLEAN]
Text(t) == \E F, E : t \in TextOf(F, E)

CommandOf(D, T) ==
  [pc : {"open", "write", "replace", "report"}, does : D, text : T, file : Files \cup {NoFile}]
Called(k) ==
  /\ \E D, T : k \in CommandOf(D, T)
  /\ Text(k.text) /\ k.text.front
  /\ k.pc \in {"write", "replace"} => k.file \in Files

TypeInv ==
  /\ log \in Files \cup {NoFile} /\ tmp \in Files \cup {NoFile}
  /\ log = tmp => log = NoFile
  /\ content = [f \in Files |-> content[f]] /\ \A f \in Files : Text(content[f])
  /\ call = [c \in Callers |-> call[c]]
  /\ \A c \in Callers : Running(c) => Called(call[c])
  /\ overlapped \in BOOLEAN /\ killed \in BOOLEAN

AboutToWrite(c, f) == Running(c) /\ call[c].pc = "write" /\ call[c].file = f

Unkilled ==
  ~killed => \A f \in Files : (f = log \/ f = tmp) /\ ~content[f].front =>
               \E c \in Callers : AboutToWrite(c, f)

\* What the one command that runs knows of the files.
Owns(c) ==
  LET k == call[c]
  IN /\ k.pc \in {"open", "write", "replace"} =>
          ~k.text.torn /\ (log # NoFile => IsPrefix(content[log].entries, k.text.entries))
     /\ k.pc = "write" => k.file = tmp /\ ~content[tmp].front
     /\ k.pc = "replace" => k.file = tmp /\ content[tmp] = k.text

Alone ==
  ~overlapped =>
    /\ \A c, d \in Callers : Running(c) /\ Running(d) => c = d
    /\ log # NoFile => content[log].front /\ ~content[log].torn
    /\ \A c \in Callers : Running(c) => Owns(c)

Inv == TypeInv /\ Unkilled /\ Alone

Hosts ==
  /\ \E B : batch \in Seq(B)
  /\ host = [c \in Callers |-> host[c]] /\ \A c \in Callers : On(c) => host[c] \in Nat
  /\ strayed \in BOOLEAN
  /\ Composing => log = NoFile /\ \A c \in Callers : ~On(c) /\ ~Running(c)

\* How many techniques host c has logged when its command is done.
Progress(c) == host[c] + (IF Running(c) /\ call[c].does = "append" THEN 1 ELSE 0)
Writing(c) == Running(c) /\ call[c].pc # "report"

\* What the host at work counts is what is logged.
Continues(c) ==
  /\ log = NoFile => Progress(c) = 0
  /\ log # NoFile =>
       Len(Log.entries) = IF Running(c) /\ call[c].pc = "report" THEN Progress(c) ELSE host[c]
  /\ Writing(c) => Len(call[c].text.entries) = Progress(c)

Orderly ==
  ~strayed /\ ~overlapped =>
    /\ \A c, d \in Callers : On(c) /\ (On(d) \/ Running(d)) => c = d
    /\ log # NoFile => IsPrefix(Log.entries, batch)
    /\ \A c \in Callers : Writing(c) => IsPrefix(call[c].text.entries, batch)
    /\ \A c \in Callers : On(c) => Continues(c)

\* The steps of memlog's commands, whatever they are told to write.
Calls(c) ==
  \/ \E fields : CallInit(c, fields)
  \/ \E entry : CallAppend(c, entry)
  \/ \E f, v : CallSet(c, f, v)
LogStep ==
  \E c \in Callers :
    Calls(c) \/ Open(c) \/ Write(c) \/ Replace(c) \/ ReplaceFails(c) \/ Report(c) \/ Kill(c)

-----------------------------------------------------------------------------
(* Sequences and files.                                                    *)

LEMMA PrefixOfItself ==
  ASSUME NEW E, NEW s \in Seq(E)
  PROVE  IsPrefix(s, s)
BY DEF IsPrefix

LEMMA PrefixOfAppend ==
  ASSUME NEW E, NEW s \in Seq(E), NEW e
  PROVE  Append(s, e) \in Seq(E \cup {e}) /\ IsPrefix(s, Append(s, e))
<1>1. s \in Seq(E \cup {e})
  BY Z3
<1>2. Append(s, e) \in Seq(E \cup {e}) /\ Len(Append(s, e)) = Len(s) + 1
  BY <1>1
<1>3. SubSeq(s, 1, Len(s)) = SubSeq(Append(s, e), 1, Len(s))
  BY <1>1, <1>2
<1> QED BY <1>2, <1>3 DEF IsPrefix

LEMMA PrefixGoesOn ==
  ASSUME NEW E, NEW s \in Seq(E), NEW B, NEW b \in Seq(B), IsPrefix(s, b), Len(s) < Len(b)
  PROVE  /\ Len(Append(s, b[Len(s) + 1])) = Len(s) + 1
         /\ IsPrefix(Append(s, b[Len(s) + 1]), b)
<1> DEFINE n == Len(s)
           e == b[n + 1]
<1>1. n \in Nat /\ Len(b) \in Nat /\ n + 1 <= Len(b)
  OBVIOUS
<1>2. s \in Seq(E \cup {e})
  BY Z3
<1>3. Append(s, e) \in Seq(E \cup {e}) /\ Len(Append(s, e)) = n + 1
      /\ Append(s, e)[n + 1] = e /\ \A i \in 1 .. n : Append(s, e)[i] = s[i]
  BY <1>2
<1>4. \A i \in 1 .. n : s[i] = b[i]
  <2>1. SubSeq(s, 1, n) = SubSeq(b, 1, n)
    BY DEF IsPrefix
  <2>2. \A i \in 1 .. n : SubSeq(s, 1, n)[i] = s[i] /\ SubSeq(b, 1, n)[i] = b[i]
    BY <1>1
  <2> QED BY <2>1, <2>2
<1>5. \A i \in 1 .. n + 1 : Append(s, e)[i] = b[i]
  BY <1>1, <1>3, <1>4
<1>6. SubSeq(Append(s, e), 1, n + 1) = SubSeq(b, 1, n + 1)
  BY <1>1, <1>3, <1>5
<1> QED BY <1>1, <1>3, <1>6 DEF IsPrefix

LEMMA FilesNat == Files \subseteq Nat /\ NoFile \notin Files /\ IsFiniteSet(Files)
                  /\ Cardinality(Files) = Cardinality(Callers) + 3
<1>1. Cardinality(Callers) \in Nat
  BY CallersFinite, FS_CardinalityType
<1>2. Cardinality(Callers) + 3 \in Nat /\ 1 \in Nat
  BY <1>1
<1> DEFINE n == Cardinality(Callers) + 3
<1>3. Files = 1 .. n /\ 1 .. n \subseteq Nat
  BY <1>2 DEF Files
<1> HIDE DEF n
<1>4. IsFiniteSet(1 .. n) /\ Cardinality(1 .. n) = IF 1 > n THEN 0 ELSE n - 1 + 1
  BY <1>2, FS_Interval DEF n
<1>5. Cardinality(1 .. n) = n
  BY <1>1, <1>4 DEF n
<1> QED BY <1>3, <1>4, <1>5, NoFileIsNone DEF n

\* There is always a file nobody holds: the names and the commands hold two and
\* one each.
LEMMA SomeUnheld == \E f \in Files : ~Held(f)
<1> DEFINE opened == {call[c].file : c \in Callers}
           held == (opened \cup {log}) \cup {tmp}
<1>1. IsFiniteSet(opened) /\ Cardinality(opened) <= Cardinality(Callers)
      /\ Cardinality(opened) \in Nat /\ Cardinality(Callers) \in Nat
  <2> DEFINE g == [c \in Callers |-> call[c].file]
  <2>1. g \in Surjection(Callers, opened)
    BY DEF Surjection
  <2> QED BY <2>1, CallersFinite, FS_Surjection, FS_CardinalityType
<1> HIDE DEF opened
<1>2. IsFiniteSet(held) /\ Cardinality(held) <= Cardinality(opened) + 2
      /\ Cardinality(held) \in Nat
  <2> DEFINE named == opened \cup {log}
  <2>1. IsFiniteSet(named) /\ Cardinality(named) \in Nat
        /\ Cardinality(named) <= Cardinality(opened) + 1
    BY <1>1, FS_AddElement, FS_CardinalityType
  <2> HIDE DEF named
  <2>2. IsFiniteSet(named \cup {tmp}) /\ Cardinality(named \cup {tmp}) \in Nat
        /\ Cardinality(named \cup {tmp}) <= Cardinality(named) + 1
    BY <2>1, FS_AddElement, FS_CardinalityType
  <2> QED BY <1>1, <2>1, <2>2 DEF named
<1>3. ASSUME \A f \in Files : Held(f) PROVE FALSE
  <2>1. Files \subseteq held
    BY <1>3 DEF Held, held, opened
  <2>2. Cardinality(Files) <= Cardinality(held)
    BY <1>2, <2>1, FS_Subset
  <2> QED BY <1>1, <1>2, <2>2, FilesNat
<1> QED BY <1>3

LEMMA LeastFile ==
  ASSUME NEW S \in SUBSET Files, S # {}
  PROVE  Min(S) \in S
<1> DEFINE R == OpToRel(<, Nat)
<1>1. \E x \in S : \A y \in S : ~(<<y, x>> \in R)
  <2>1. IsWellFoundedOn(R, Nat) /\ S \subseteq Nat
    BY NatLessThanWellFounded, FilesNat
  <2> HIDE DEF R
  <2> QED BY <2>1, WFMin, Zenon
<1>2. \E x \in S : \A y \in S : x <= y
  <2>1. PICK x \in S : \A y \in S : ~(<<y, x>> \in R)
    BY <1>1
  <2>2. \A y \in S : y \in Nat /\ x \in Nat /\ ~(y < x)
    BY <2>1, FilesNat DEF OpToRel
  <2> QED BY <2>2
<1> QED BY <1>2 DEF Min

\* A command opens the temporary file or one that nobody holds; never the log.
LEMMA OpenedType ==
  ASSUME TypeInv
  PROVE  /\ Opened \in Files /\ Opened # log
         /\ tmp # NoFile => Opened = tmp
         /\ tmp = NoFile => ~Held(Opened)
<1> DEFINE unheld == {f \in Files : ~Held(f)}
<1>1. Min(unheld) \in unheld
  BY SomeUnheld, LeastFile
<1>2. Unused = Min(unheld)
  BY DEF Unused
<1> HIDE DEF unheld
<1>3. Unused \in Files /\ ~Held(Unused)
  BY <1>1, <1>2 DEF unheld
<1> QED BY <1>3 DEF Opened, TypeInv, Held

-----------------------------------------------------------------------------
(* Every step of a session is a step of a memlog command, or leaves the log *)
(* alone.                                                                   *)

LEMMA SessionStep ==
  ASSUME [Next]_vars
  PROVE  LogStep \/ UNCHANGED logVars
<1>1. CASE UNCHANGED vars
  BY <1>1 DEF vars
<1>2. CASE Composing /\ PageNext /\ UNCHANGED <<logVars, sessionVars>>
  BY <1>2
<1>3. CASE Copy \/ Chat
  BY <1>3 DEF Copy, Chat, Begin
<1>4. ASSUME NEW c \in Callers,
             \/ NextCall(c) \/ Writes(c) \/ Reported(c)
             \/ Resume(c) \/ CallDies(c) \/ HostDies(c) \/ StartOver(c)
      PROVE  LogStep \/ UNCHANGED logVars
  <2>1. CASE NextCall(c)
    BY <2>1 DEF NextCall, LogStep, Calls
  <2>2. CASE Writes(c)
    BY <2>2 DEF Writes, LogStep
  <2>3. CASE Reported(c)
    BY <2>3 DEF Reported, LogStep
  <2>4. CASE Resume(c) \/ StartOver(c)
    BY <2>4 DEF Resume, StartOver
  <2>5. CASE CallDies(c)
    BY <2>5 DEF CallDies, LogStep
  <2>6. CASE HostDies(c)
    BY <2>6 DEF HostDies, LogStep
  <2> QED BY <1>4, <2>1, <2>2, <2>3, <2>4, <2>5, <2>6
<1> QED BY <1>1, <1>2, <1>3, <1>4 DEF Next

-----------------------------------------------------------------------------
(* Types.                                                                   *)

LEMMA EmptyIsText == Text(Empty) /\ ~Empty.front
<1> DEFINE F == {[f \in Fields |-> Nothing]}
<1>1. <<>> \in Seq({})
  OBVIOUS
<1>2. Blank \in TextOf(F, {})
  BY <1>1 DEF Blank, TextOf
<1>3. Empty \in TextOf(F, {}) /\ ~Empty.front
  BY <1>2 DEF Empty, TextOf
<1> QED BY <1>3 DEF Text

\* What a command is told to write is a whole text that extends the log, if the
\* log is whole.
Extends(t) == Text(t) /\ t.front /\ t.torn = Log.torn /\ IsPrefix(Log.entries, t.entries)

LEMMA CreatedIsText ==
  ASSUME NEW fields
  PROVE  Text(Created(fields)) /\ Created(fields).front /\ ~Created(fields).torn
<1> DEFINE F == {[f \in Fields |-> Nothing], fields}
<1>1. <<>> \in Seq({})
  OBVIOUS
<1>2. Blank \in TextOf(F, {}) /\ Blank.front /\ ~Blank.torn
  BY <1>1 DEF Blank, TextOf
<1>3. Created(fields) \in TextOf(F, {}) /\ Created(fields).front /\ ~Created(fields).torn
  BY <1>2 DEF Created, TextOf
<1> QED BY <1>3 DEF Text

LEMMA LogIsText ==
  ASSUME TypeInv, Reads
  PROVE  (\E F, E : Log \in TextOf(F, E)) /\ Log.front
BY DEF TypeInv, Reads, Log, Text

LEMMA AppendedExtends ==
  ASSUME TypeInv, Reads, NEW entry
  PROVE  Extends(Appended(entry))
<1>1. PICK F, E : Log \in TextOf(F, E)
  BY LogIsText
<1>2. Log.entries \in Seq(E)
  BY <1>1 DEF TextOf
<1>3. Append(Log.entries, entry) \in Seq(E \cup {entry})
      /\ IsPrefix(Log.entries, Append(Log.entries, entry))
  BY <1>2, PrefixOfAppend
<1>4. /\ Appended(entry) \in TextOf(F, E \cup {entry}) /\ Appended(entry).front
      /\ Appended(entry).torn = Log.torn
      /\ Appended(entry).entries = Append(Log.entries, entry)
  BY <1>1, <1>3, LogIsText DEF Appended, TextOf
<1> QED BY <1>3, <1>4 DEF Extends, Text

LEMMA SetExtends ==
  ASSUME TypeInv, Reads, NEW f, NEW v
  PROVE  Extends(SetTo(f, v))
<1>1. PICK F, E : Log \in TextOf(F, E)
  BY LogIsText
<1> DEFINE G == {[Log.fields EXCEPT ![f] = v]}
<1>2. /\ SetTo(f, v) \in TextOf(G, E) /\ SetTo(f, v).front /\ SetTo(f, v).torn = Log.torn
      /\ SetTo(f, v).entries = Log.entries
  BY <1>1, LogIsText DEF SetTo, TextOf
<1>3. IsPrefix(Log.entries, Log.entries)
  BY <1>1, PrefixOfItself DEF TextOf
<1> QED BY <1>2, <1>3 DEF Extends, Text

\* A command that moves on changes its own record only, and stays a command.
LEMMA CommandMoves ==
  ASSUME TypeInv, NEW c \in Callers, Running(c),
         NEW p \in {"open", "write", "replace", "report"}
  PROVE  LET k == [call[c] EXCEPT !.pc = p]
         IN k.pc = p /\ k.does = call[c].does /\ k.text = call[c].text /\ k.file = call[c].file
            /\ (call[c].file \in Files \/ p \in {"open", "report"} => Called(k))
<1>1. PICK D, T : call[c] \in CommandOf(D, T)
  BY DEF TypeInv, Called
<1>2. Text(call[c].text) /\ call[c].text.front
  BY DEF TypeInv, Called
<1> DEFINE k == [call[c] EXCEPT !.pc = p]
<1>3. /\ k \in CommandOf(D, T) /\ k.pc = p /\ k.does = call[c].does
      /\ k.text = call[c].text /\ k.file = call[c].file
  BY <1>1 DEF CommandOf
<1> QED BY <1>2, <1>3 DEF Called

LEMMA CommandOpens ==
  ASSUME TypeInv, NEW c \in Callers, Running(c), NEW file \in Files
  PROVE  LET k == [call[c] EXCEPT !.pc = "write", !.file = file]
         IN k.pc = "write" /\ k.does = call[c].does /\ k.text = call[c].text /\ k.file = file
            /\ Called(k)
<1>1. PICK D, T : call[c] \in CommandOf(D, T)
  BY DEF TypeInv, Called
<1>2. Text(call[c].text) /\ call[c].text.front
  BY DEF TypeInv, Called
<1> DEFINE k == [call[c] EXCEPT !.pc = "write", !.file = file]
<1>3. /\ k \in CommandOf(D, T) /\ k.pc = "write" /\ k.does = call[c].does
      /\ k.text = call[c].text /\ k.file = file
  BY <1>1 DEF CommandOf
<1> QED BY <1>2, <1>3 DEF Called

\* Beginning a command makes it run, and changes nothing else but the history.
LEMMA BeginsCommand ==
  ASSUME TypeInv, NEW c \in Callers, NEW does, NEW text, Text(text), text.front,
         Begins(c, does, text)
  PROVE  /\ Running(c)' /\ Called(call[c])' /\ call'[c].pc = "open"
         /\ call'[c].does = does /\ call'[c].text = text
         /\ \A d \in Callers \ {c} : call'[d] = call[d]
         /\ call' = [d \in Callers |-> call'[d]]
<1> DEFINE k == [pc |-> "open", does |-> does, text |-> text, file |-> NoFile]
<1>1. call'[c] = k /\ (\A d \in Callers \ {c} : call'[d] = call[d])
      /\ call' = [d \in Callers |-> call'[d]]
  BY DEF Begins, TypeInv
<1>2. k \in CommandOf({does}, {text})
  BY DEF CommandOf
<1>3. Called(k)
  BY <1>2 DEF Called
<1> QED BY <1>1, <1>3 DEF Called, Running, CommandOf, Files

LEMMA CallsBegin ==
  ASSUME TypeInv, NEW c \in Callers, Calls(c)
  PROVE  \E does, text :
           /\ Text(text) /\ text.front /\ Begins(c, does, text)
           /\ (log = NoFile /\ ~text.torn) \/ (Reads /\ Extends(text))
<1>1. CASE \E fields : CallInit(c, fields)
  BY <1>1, CreatedIsText DEF CallInit
<1>2. CASE \E entry : CallAppend(c, entry)
  BY <1>2, AppendedExtends DEF CallAppend, Extends
<1>3. CASE \E f, v : CallSet(c, f, v)
  BY <1>3, SetExtends DEF CallSet, Extends
<1> QED BY <1>1, <1>2, <1>3 DEF Calls

\* What each step of write_atomic leaves of the files and the commands.
LEMMA OpenStep ==
  ASSUME TypeInv, NEW c \in Callers, Open(c)
  PROVE  /\ TypeInv' /\ log' = log /\ Opened \in Files /\ Opened # log /\ tmp' = Opened
         /\ content'[Opened] = Empty
         /\ \A f \in Files \ {Opened} : content'[f] = content[f]
         /\ Running(c) /\ Running(c)' /\ call'[c].pc = "write"
         /\ call'[c].does = call[c].does /\ call'[c].text = call[c].text /\ call'[c].file = Opened
         /\ \A d \in Callers \ {c} : call'[d] = call[d]
<1>1. Running(c)
  BY DEF Open, Running
<1>2. Opened \in Files /\ Opened # log
  BY OpenedType
<1> DEFINE k == [call[c] EXCEPT !.pc = "write", !.file = Opened]
<1>3. k.pc = "write" /\ k.does = call[c].does /\ k.text = call[c].text /\ k.file = Opened
      /\ Called(k)
  BY <1>1, <1>2, CommandOpens
<1>4. call' = [call EXCEPT ![c] = k]
  BY DEF Open
<1>5. call'[c] = k /\ (\A d \in Callers \ {c} : call'[d] = call[d])
      /\ call' = [d \in Callers |-> call'[d]]
  BY <1>4 DEF TypeInv
<1>6. /\ content'[Opened] = Empty /\ \A f \in Files \ {Opened} : content'[f] = content[f]
      /\ content' = [f \in Files |-> content'[f]]
  BY <1>2 DEF Open, TypeInv
<1>7. \A f \in Files : Text(content'[f])
  BY <1>6, EmptyIsText DEF TypeInv
<1>8. \A d \in Callers : Running(d)' => Called(call'[d])
  BY <1>3, <1>5 DEF TypeInv, Running
<1>9. TypeInv'
  BY <1>2, <1>5, <1>6, <1>7, <1>8, FilesNat DEF TypeInv, Open, Called, CommandOf, Files
<1> QED BY <1>1, <1>2, <1>3, <1>5, <1>6, <1>9 DEF Open, Running

LEMMA WriteStep ==
  ASSUME TypeInv, NEW c \in Callers, Write(c)
  PROVE  LET w == call[c].file
         IN /\ TypeInv' /\ log' = log /\ tmp' = tmp /\ w \in Files /\ content'[w].front
            /\ \A f \in Files \ {w} : content'[f] = content[f]
            /\ ~content[w].front => content'[w] = [call[c].text EXCEPT !.torn = @ \/ FALSE]
            /\ Running(c) /\ Running(c)' /\ call'[c].pc = "replace"
            /\ call'[c].does = call[c].does /\ call'[c].text = call[c].text /\ call'[c].file = w
            /\ \A d \in Callers \ {c} : call'[d] = call[d]
<1> DEFINE w == call[c].file
           k == [call[c] EXCEPT !.pc = "replace"]
<1>1. Running(c)
  BY DEF Write, Running
<1>2. w \in Files /\ Text(call[c].text) /\ call[c].text.front
  BY <1>1 DEF TypeInv, Called, Write
<1>3. k.pc = "replace" /\ k.does = call[c].does /\ k.text = call[c].text /\ k.file = w
      /\ Called(k)
  BY <1>1, <1>2, CommandMoves
<1>4. call'[c] = k /\ (\A d \in Callers \ {c} : call'[d] = call[d])
      /\ call' = [d \in Callers |-> call'[d]]
  BY DEF Write, TypeInv
<1>5. PICK torn \in BOOLEAN :
        /\ torn => MayTear(content[w], call[c].text)
        /\ content' = [content EXCEPT ![w] = [call[c].text EXCEPT !.torn = @ \/ torn]]
  BY DEF Write
<1>6. /\ content'[w] = [call[c].text EXCEPT !.torn = @ \/ torn]
      /\ \A f \in Files \ {w} : content'[f] = content[f]
      /\ content' = [f \in Files |-> content'[f]]
  BY <1>2, <1>5 DEF TypeInv
<1>7. PICK F, E : call[c].text \in TextOf(F, E)
  BY <1>2 DEF Text
<1>8. content'[w] \in TextOf(F, E) /\ content'[w].front
  BY <1>2, <1>6, <1>7 DEF TextOf
<1>9. ~content[w].front => content'[w] = [call[c].text EXCEPT !.torn = @ \/ FALSE]
  BY <1>5, <1>6 DEF MayTear
<1>10. \A f \in Files : Text(content'[f])
  BY <1>6, <1>8 DEF TypeInv, Text
<1>11. \A d \in Callers : Running(d)' => Called(call'[d])
  BY <1>3, <1>4 DEF TypeInv, Running
<1>12. TypeInv'
  BY <1>4, <1>6, <1>10, <1>11 DEF TypeInv, Write, Called, CommandOf, Files
<1> QED BY <1>1, <1>2, <1>3, <1>4, <1>6, <1>8, <1>9, <1>12 DEF Write, Running

LEMMA ReplaceStep ==
  ASSUME TypeInv, NEW c \in Callers, Replace(c)
  PROVE  /\ TypeInv' /\ tmp \in Files /\ log' = tmp /\ tmp' = NoFile
         /\ content'[tmp] = content[tmp]
         /\ Running(c) /\ Running(c)' /\ call'[c].pc = "report"
         /\ call'[c].does = call[c].does /\ call'[c].text = call[c].text
         /\ call'[c].file = call[c].file
         /\ \A d \in Callers \ {c} : call'[d] = call[d]
<1> DEFINE k == [call[c] EXCEPT !.pc = "report"]
<1>1. Running(c) /\ tmp \in Files /\ tmp # log
  BY DEF Replace, Running, TypeInv
<1>2. k.pc = "report" /\ k.does = call[c].does /\ k.text = call[c].text
      /\ k.file = call[c].file /\ Called(k)
  BY <1>1, CommandMoves
<1>3. call'[c] = k /\ (\A d \in Callers \ {c} : call'[d] = call[d])
      /\ call' = [d \in Callers |-> call'[d]]
  BY DEF Replace, TypeInv
<1>4. content' = [f \in Files |-> IF Held(f) /\ f # log THEN content[f] ELSE Empty]
  BY DEF Replace
<1>5. content'[tmp] = content[tmp]
  BY <1>1, <1>4 DEF Held
<1>6. \A f \in Files : Text(content'[f])
  BY <1>4, EmptyIsText DEF TypeInv
<1>7. \A d \in Callers : Running(d)' => Called(call'[d])
  BY <1>2, <1>3 DEF TypeInv, Running
<1>8. content' = [f \in Files |-> content'[f]]
  BY <1>4
<1>9. TypeInv'
  BY <1>1, <1>3, <1>6, <1>7, <1>8, FilesNat DEF TypeInv, Replace, Called, CommandOf, Files
<1> QED BY <1>1, <1>2, <1>3, <1>5, <1>9 DEF Replace, Running

LEMMA CallEnds ==
  ASSUME TypeInv, NEW c \in Callers, ReplaceFails(c) \/ Report(c) \/ Kill(c)
  PROVE  /\ TypeInv' /\ log' = log /\ tmp' = tmp /\ content' = content
         /\ ~Running(c)' /\ \A d \in Callers \ {c} : call'[d] = call[d]
<1>1. call' = [call EXCEPT ![c] = NoCall]
      /\ UNCHANGED <<log, tmp, content, overlapped>> /\ killed' \in BOOLEAN
  BY DEF ReplaceFails, Report, Kill, TypeInv
<1>2. call'[c] = NoCall /\ (\A d \in Callers \ {c} : call'[d] = call[d])
      /\ call' = [d \in Callers |-> call'[d]]
  BY <1>1 DEF TypeInv
<1>3. ~Running(c)'
  BY <1>2 DEF Running, NoCall
<1>4. \A d \in Callers : Running(d)' => Called(call'[d])
  BY <1>2, <1>3 DEF TypeInv, Running
<1> QED BY <1>1, <1>2, <1>3, <1>4 DEF TypeInv, Called, CommandOf, Files

LEMMA CallBegins ==
  ASSUME TypeInv, NEW c \in Callers, Calls(c)
  PROVE  /\ TypeInv' /\ log' = log /\ tmp' = tmp /\ content' = content /\ killed' = killed
         /\ overlapped' = (overlapped \/ \E d \in Callers : Running(d))
         /\ Running(c)' /\ call'[c].pc = "open" /\ ~Running(c)
         /\ \A d \in Callers \ {c} : call'[d] = call[d]
         /\ (log = NoFile /\ ~call'[c].text.torn) \/ (Reads /\ Extends(call'[c].text))
<1>1. PICK does, text :
        /\ Text(text) /\ text.front /\ Begins(c, does, text)
        /\ (log = NoFile /\ ~text.torn) \/ (Reads /\ Extends(text))
  BY CallsBegin
<1>2. /\ Running(c)' /\ Called(call[c])' /\ call'[c].pc = "open" /\ call'[c].text = text
      /\ \A d \in Callers \ {c} : call'[d] = call[d]
      /\ call' = [d \in Callers |-> call'[d]]
  BY <1>1, BeginsCommand
<1>3. \A d \in Callers : Running(d)' => Called(call[d])'
  BY <1>2 DEF TypeInv, Running, Called, CommandOf, Files
<1>4. TypeInv'
  BY <1>1, <1>2, <1>3 DEF TypeInv, Begins, Files
<1> QED BY <1>1, <1>2, <1>4 DEF Begins

-----------------------------------------------------------------------------
(* The three invariants.                                                    *)

LEMMA TypeStep ==
  ASSUME TypeInv, LogStep
  PROVE  TypeInv'
BY OpenStep, WriteStep, ReplaceStep, CallEnds, CallBegins DEF LogStep

\* While nobody dies: a file is emptied by a command that goes on to write it.
LEMMA UnkilledStep ==
  ASSUME TypeInv, Unkilled, LogStep
  PROVE  Unkilled'
<1> SUFFICES ASSUME ~killed', NEW f \in Files, f = log' \/ f = tmp', ~content'[f].front
             PROVE  \E c \in Callers : AboutToWrite(c, f)'
  BY DEF Unkilled
<1>1. PICK c \in Callers :
        Calls(c) \/ Open(c) \/ Write(c) \/ Replace(c) \/ ReplaceFails(c) \/ Report(c) \/ Kill(c)
  BY DEF LogStep
<1>2. CASE Calls(c)
  <2>1. PICK d \in Callers : AboutToWrite(d, f)
    BY <1>2, CallBegins DEF Unkilled
  <2>2. call'[d] = call[d]
    BY <1>2, <2>1, CallBegins DEF AboutToWrite
  <2> QED BY <2>1, <2>2 DEF AboutToWrite, Running
<1>3. CASE Open(c)
  <2>1. CASE f = Opened
    BY <1>3, <2>1, OpenStep DEF AboutToWrite
  <2>2. CASE f # Opened
    <3>1. f = log /\ content'[f] = content[f] /\ ~killed
      BY <1>3, <2>2, OpenStep DEF Open
    <3>2. PICK d \in Callers : AboutToWrite(d, f)
      BY <1>3, <2>2, <3>1 DEF Unkilled
    <3>3. call'[d] = call[d]
      BY <1>3, <3>2, OpenStep DEF AboutToWrite, Open
    <3> QED BY <3>2, <3>3 DEF AboutToWrite, Running
  <2> QED BY <2>1, <2>2
<1>4. CASE Write(c)
  <2>1. f # call[c].file /\ content'[f] = content[f] /\ ~killed
    BY <1>4, WriteStep DEF Write
  <2>2. PICK d \in Callers : AboutToWrite(d, f)
    BY <1>4, <2>1, WriteStep DEF Unkilled
  <2>3. call'[d] = call[d]
    BY <1>4, <2>1, <2>2, WriteStep DEF AboutToWrite
  <2> QED BY <2>2, <2>3 DEF AboutToWrite, Running
<1>5. CASE Replace(c)
  <2>1. f = tmp /\ content'[f] = content[f] /\ ~killed
    BY <1>5, ReplaceStep, FilesNat DEF Replace
  <2>2. PICK d \in Callers : AboutToWrite(d, f)
    BY <2>1 DEF Unkilled
  <2>3. call'[d] = call[d]
    BY <1>5, <2>2, ReplaceStep DEF AboutToWrite, Replace
  <2> QED BY <2>2, <2>3 DEF AboutToWrite, Running
<1>6. CASE ReplaceFails(c) \/ Report(c) \/ Kill(c)
  <2>1. content' = content /\ log' = log /\ tmp' = tmp /\ ~killed /\ call[c].pc # "write"
    BY <1>6, CallEnds DEF ReplaceFails, Report, Kill
  <2>2. PICK d \in Callers : AboutToWrite(d, f)
    BY <2>1 DEF Unkilled
  <2>3. call'[d] = call[d]
    BY <1>6, <2>1, <2>2, CallEnds DEF AboutToWrite
  <2> QED BY <2>2, <2>3 DEF AboutToWrite, Running
<1> QED BY <1>1, <1>2, <1>3, <1>4, <1>5, <1>6

\* While no two commands overlap: the one that runs owns the temporary file.
LEMMA AloneStep ==
  ASSUME TypeInv, Alone, LogStep
  PROVE  Alone'
<1> SUFFICES ASSUME ~overlapped'
             PROVE  /\ \A c, d \in Callers : Running(c)' /\ Running(d)' => c = d
                    /\ log' # NoFile => content'[log'].front /\ ~content'[log'].torn
                    /\ \A c \in Callers : Running(c)' => Owns(c)'
  BY DEF Alone
<1>1. PICK c \in Callers :
        Calls(c) \/ Open(c) \/ Write(c) \/ Replace(c) \/ ReplaceFails(c) \/ Report(c) \/ Kill(c)
  BY DEF LogStep
<1>2. ~overlapped
  <2>1. CASE Calls(c)
    BY <2>1, CallBegins
  <2>2. CASE ~Calls(c)
    BY <1>1, <2>2 DEF Open, Write, Replace, ReplaceFails, Report, Kill
  <2> QED BY <2>1, <2>2
<1>3. /\ \A d, e \in Callers : Running(d) /\ Running(e) => d = e
      /\ log # NoFile => content[log].front /\ ~content[log].torn
      /\ Running(c) => Owns(c)
  BY <1>2 DEF Alone
<1>4. CASE Calls(c)
  <2>1. \A d \in Callers : ~Running(d)
    BY <1>4, CallBegins
  <2>2. \A d \in Callers \ {c} : ~Running(d)'
    BY <1>4, <2>1, CallBegins DEF Running
  <2>3. Owns(c)'
    BY <1>3, <1>4, CallBegins DEF Owns, Reads, Extends, Log
  <2> QED BY <1>3, <1>4, <2>2, <2>3, CallBegins
<1>5. CASE Open(c)
  <2>1. \A d \in Callers \ {c} : ~Running(d)'
    BY <1>3, <1>5, OpenStep DEF Running
  <2>2. log # NoFile => content'[log] = content[log]
    BY <1>5, OpenStep DEF TypeInv
  <2>3. Owns(c)'
    <3>1. /\ ~call[c].text.torn
          /\ log # NoFile => IsPrefix(content[log].entries, call[c].text.entries)
      BY <1>3, <1>5, OpenStep DEF Owns, Open
    <3>2. /\ log' = log /\ call'[c].pc = "write" /\ call'[c].text = call[c].text
          /\ call'[c].file = tmp' /\ ~content'[tmp'].front
      BY <1>5, OpenStep, EmptyIsText
    <3> QED BY <2>2, <3>1, <3>2 DEF Owns
  <2> QED BY <1>3, <1>5, <2>1, <2>2, <2>3, OpenStep
<1>6. CASE Write(c)
  <2>1. \A d \in Callers \ {c} : ~Running(d)'
    BY <1>3, <1>6, WriteStep DEF Running
  <2>2. call[c].file = tmp /\ ~content[tmp].front /\ ~call[c].text.torn
    BY <1>3, <1>6, WriteStep DEF Owns, Write
  <2>3. log # NoFile => content'[log] = content[log]
    BY <1>6, <2>2, WriteStep DEF TypeInv
  <2>4. content'[tmp] = call[c].text
    <3>1. PICK F, E : call[c].text \in TextOf(F, E)
      BY <1>6, WriteStep DEF TypeInv, Called, Text
    <3>2. [call[c].text EXCEPT !.torn = @ \/ FALSE] = call[c].text
      BY <2>2, <3>1 DEF TextOf
    <3> QED BY <1>6, <2>2, <3>2, WriteStep
  <2>5. Owns(c)'
    BY <1>3, <1>6, <2>2, <2>3, <2>4, WriteStep DEF Owns, Write
  <2> QED BY <1>3, <1>6, <2>1, <2>3, <2>5, WriteStep
<1>7. CASE Replace(c)
  <2>1. \A d \in Callers \ {c} : ~Running(d)'
    BY <1>3, <1>7, ReplaceStep DEF Running
  <2>2. content[tmp] = call[c].text /\ ~call[c].text.torn /\ call[c].text.front
    BY <1>3, <1>7, ReplaceStep DEF Owns, Replace, TypeInv, Called
  <2>3. Owns(c)'
    BY <1>7, ReplaceStep DEF Owns
  <2> QED BY <1>7, <2>1, <2>2, <2>3, ReplaceStep
<1>8. CASE ReplaceFails(c) \/ Report(c) \/ Kill(c)
  <2>1. Running(c)
    BY <1>8 DEF ReplaceFails, Report, Kill, Running
  <2>2. \A d \in Callers : ~Running(d)'
    BY <1>3, <1>8, <2>1, CallEnds DEF Running
  <2> QED BY <1>3, <1>8, <2>2, CallEnds
<1> QED BY <1>1, <1>4, <1>5, <1>6, <1>7, <1>8

LEMMA LogStarts ==
  ASSUME LogInit
  PROVE  Inv
<1>1. TypeInv
  BY EmptyIsText DEF LogInit, TypeInv, Running, NoCall
<1>2. Unkilled /\ Alone
  BY FilesNat DEF LogInit, Unkilled, Alone, Running, NoCall
<1> QED BY <1>1, <1>2 DEF Inv

LEMMA SessionKeepsInv == Inv /\ [Next]_vars => Inv'
<1> SUFFICES ASSUME Inv, [Next]_vars PROVE Inv'
  OBVIOUS
<1>1. CASE LogStep
  BY <1>1, TypeStep, UnkilledStep, AloneStep DEF Inv
<1>2. CASE UNCHANGED logVars
  BY <1>2 DEF Inv, TypeInv, Unkilled, Alone, Owns, AboutToWrite, Running, Called, CommandOf,
              Files, logVars
<1> QED BY <1>1, <1>2, SessionStep

LEMMA SpecInv == Spec => []Inv
<1>1. Init => Inv
  BY LogStarts DEF Init
<1> QED BY <1>1, SessionKeepsInv, PTL DEF Spec

-----------------------------------------------------------------------------
(* A session that is resumed.                                               *)

LEMMA BatchFixed ==
  ASSUME NEW techs, Len(techs) \in 1 .. MaxTechs
  PROVE  NameList(techs) # <<>> /\ \E B : NameList(techs) \in Seq(B)
<1> DEFINE n == Len(techs)
           B == {techs[k].name : k \in 1 .. n}
<1>1. n \in Nat /\ n >= 1
  BY MaxTechsNat
<1>2. NameList(techs) \in [1 .. n -> B]
  BY DEF NameList
<1> HIDE DEF n, B
<1>3. NameList(techs) \in Seq(B) /\ Len(NameList(techs)) = n
  BY <1>1, <1>2
<1> QED BY <1>1, <1>3

\* What a host calls for next, and what the command it begins will write.
LEMMA HostCalls ==
  ASSUME TypeInv, NEW c \in Callers, NextCall(c)
  PROVE  /\ On(c) /\ ~Running(c) /\ Calls(c)
         /\ UNCHANGED <<batch, host, strayed>>
         /\ \/ /\ log = NoFile /\ call'[c].does = "init" /\ call'[c].text.entries = <<>>
            \/ /\ Reads /\ host[c] < Len(batch) /\ call'[c].does = "append"
               /\ call'[c].text.entries = Append(Log.entries, batch[host[c] + 1])
            \/ /\ Reads /\ call'[c].does = "set" /\ call'[c].text.entries = Log.entries
<1>1. On(c) /\ ~Running(c) /\ Calls(c) /\ UNCHANGED <<batch, host, strayed>>
  BY DEF NextCall, Calls, CallInit, CallAppend, CallSet, Begins, sessionVars
<1>2. CASE log = NoFile /\ CallInit(c, [Blank.fields EXCEPT !["mode"] = mode])
  <2> DEFINE text == Created([Blank.fields EXCEPT !["mode"] = mode])
  <2>1. Text(text) /\ text.front /\ Begins(c, "init", text)
    BY <1>2, CreatedIsText DEF CallInit
  <2>2. text.entries = <<>>
    BY DEF Created, Blank
  <2> HIDE DEF text
  <2>3. call'[c].does = "init" /\ call'[c].text = text
    BY <2>1, BeginsCommand
  <2> QED BY <1>1, <1>2, <2>2, <2>3
<1>3. CASE Reads /\ host[c] < Len(batch) /\ CallAppend(c, batch[host[c] + 1])
  <2> DEFINE text == Appended(batch[host[c] + 1])
  <2>1. Text(text) /\ text.front /\ Begins(c, "append", text)
    BY <1>3, AppendedExtends DEF CallAppend, Extends
  <2>2. text.entries = Append(Log.entries, batch[host[c] + 1])
    BY <1>3, LogIsText DEF Appended, TextOf
  <2> HIDE DEF text
  <2>3. call'[c].does = "append" /\ call'[c].text = text
    BY <2>1, BeginsCommand
  <2> QED BY <1>1, <1>3, <2>2, <2>3
<1>4. CASE Reads /\ CallSet(c, "status", "complete")
  <2> DEFINE text == SetTo("status", "complete")
  <2>1. Text(text) /\ text.front /\ Begins(c, "set", text)
    BY <1>4, SetExtends DEF CallSet, Extends
  <2>2. text.entries = Log.entries
    BY <1>4, LogIsText DEF SetTo, TextOf
  <2> HIDE DEF text
  <2>3. call'[c].does = "set" /\ call'[c].text = text
    BY <2>1, BeginsCommand
  <2> QED BY <1>1, <1>4, <2>2, <2>3
<1> QED BY <1>2, <1>3, <1>4 DEF NextCall

LEMMA LogIsSeq ==
  ASSUME TypeInv, log # NoFile
  PROVE  \E E : Log.entries \in Seq(E)
BY DEF TypeInv, Log, Text, TextOf

LEMMA HostsStep ==
  ASSUME TypeInv, Hosts, [Next]_vars
  PROVE  Hosts'
<1>1. CASE UNCHANGED <<logVars, batch, host, strayed>>
  BY <1>1 DEF Hosts, On, Composing, Running, logVars
<1>2. CASE Copy \/ Chat
  <2>1. PICK techs, m : Begin(techs, m)
    BY <1>2 DEF Copy, Chat
  <2>2. batch' # <<>> /\ (\E B : batch' \in Seq(B)) /\ strayed' = strayed
    BY <2>1, BatchFixed DEF Begin
  <2>3. PICK c \in Callers : host' = [host EXCEPT ![c] = 0]
    BY <2>1 DEF Begin
  <2>4. host'[c] = 0 /\ \A d \in Callers \ {c} : host'[d] = host[d]
    BY <2>3 DEF Hosts
  <2>5. host' = [d \in Callers |-> host'[d]]
    BY <2>3 DEF Hosts
  <2>6. \A d \in Callers : On(d)' => host'[d] \in Nat
    BY <2>4 DEF Hosts, On
  <2> QED BY <2>2, <2>5, <2>6 DEF Hosts, Composing
<1>3. ASSUME NEW c \in Callers,
             \/ NextCall(c) \/ Writes(c) \/ Reported(c)
             \/ Resume(c) \/ CallDies(c) \/ HostDies(c) \/ StartOver(c)
      PROVE  Hosts'
  <2>1. ~Composing /\ batch' = batch /\ strayed' \in BOOLEAN
    <3>1. CASE NextCall(c) \/ CallDies(c) \/ HostDies(c)
      BY <3>1 DEF NextCall, CallDies, HostDies, sessionVars, Hosts
    <3>2. CASE Writes(c) \/ Reported(c)
      BY <3>2 DEF Writes, Reported, Open, Write, Replace, ReplaceFails, Report, Running,
                  sessionVars, Hosts
    <3>3. CASE Resume(c) \/ StartOver(c)
      BY <3>3 DEF Resume, StartOver, Hosts
    <3> QED BY <1>3, <3>1, <3>2, <3>3
  <2>2. host' = host \/ \E n \in Nat \cup {Nothing} : host' = [host EXCEPT ![c] = n]
    <3>1. CASE NextCall(c) \/ Writes(c) \/ CallDies(c)
      BY <3>1 DEF NextCall, Writes, CallDies, sessionVars
    <3>2. CASE Reported(c)
      <4>1. CASE On(c)
        <5>1. host[c] + 1 \in Nat
          BY <4>1 DEF Hosts
        <5> QED BY <3>2, <5>1 DEF Reported
      <4>2. CASE ~On(c)
        BY <3>2, <4>2 DEF Reported
      <4> QED BY <4>1, <4>2
    <3>3. CASE Resume(c)
      <4>1. Len(Log.entries) \in Nat
        BY <3>3, LogIsSeq DEF Resume, Reads
      <4> QED BY <3>3, <4>1 DEF Resume
    <3>4. CASE HostDies(c) \/ StartOver(c)
      BY <3>4 DEF HostDies, StartOver
    <3> QED BY <1>3, <3>1, <3>2, <3>3, <3>4
  <2>3. host' = [d \in Callers |-> host'[d]] /\ \A d \in Callers : On(d)' => host'[d] \in Nat
    BY <2>2 DEF Hosts, On
  <2> QED BY <2>1, <2>3 DEF Hosts, Composing
<1> QED BY <1>1, <1>2, <1>3 DEF Next, vars, sessionVars, logVars

\* What went wrong stays recorded.
LEMMA NothingForgotten ==
  ASSUME TypeInv, Hosts, [Next]_vars, ~strayed', ~overlapped'
  PROVE  ~strayed /\ ~overlapped
<1>1. ~overlapped
  <2>1. CASE UNCHANGED logVars
    BY <2>1 DEF logVars
  <2>2. CASE LogStep
    BY <2>2, CallBegins DEF LogStep, Open, Write, Replace, ReplaceFails, Report, Kill
  <2> QED BY <2>1, <2>2, SessionStep
<1>2. ~strayed
  <2>1. CASE UNCHANGED strayed
    BY <2>1
  <2>2. ASSUME NEW c \in Callers, Resume(c) \/ CallDies(c)
        PROVE  ~strayed
    BY <2>2 DEF Resume, CallDies, Hosts
  <2> QED BY <2>1, <2>2
      DEF Next, vars, sessionVars, Copy, Chat, Begin, NextCall, Writes, Reported, HostDies,
          StartOver
<1> QED BY <1>1, <1>2

\* A step that only moves commands on before their rename disturbs nothing.
LEMMA OrderlyStays ==
  ASSUME Orderly, ~strayed, ~overlapped, UNCHANGED <<batch, host, log>>,
         log # NoFile => Log.entries' = Log.entries,
         \A d \in Callers :
           /\ Running(d)' = Running(d) /\ Writing(d)' = Writing(d)
           /\ Running(d) => call'[d].does = call[d].does /\ call'[d].text = call[d].text
                            /\ (call'[d].pc = "report") = (call[d].pc = "report")
  PROVE  Orderly'
<1>1. \A d \in Callers : On(d)' = On(d) /\ Progress(d)' = Progress(d)
  BY DEF On, Progress
<1>2. \A d \in Callers : On(d) => Continues(d)'
  BY <1>1 DEF Orderly, Continues, Writing
<1>3. \A c, d \in Callers : On(c)' /\ (On(d)' \/ Running(d)') => c = d
  BY <1>1 DEF Orderly
<1>4. \A d \in Callers : Writing(d)' => IsPrefix(call'[d].text.entries, batch')
  BY DEF Orderly, Writing
<1>5. log' # NoFile => IsPrefix(Log.entries', batch')
  BY DEF Orderly
<1> QED BY <1>1, <1>2, <1>3, <1>4, <1>5 DEF Orderly

LEMMA OrderlyWrites ==
  ASSUME TypeInv, Alone, Orderly, ~strayed, ~overlapped, UNCHANGED <<batch, host>>,
         NEW c \in Callers, Open(c) \/ Write(c)
  PROVE  Orderly'
<1>1. /\ log' = log /\ Running(c) /\ Running(c)'
      /\ call'[c].does = call[c].does /\ call'[c].text = call[c].text
      /\ call[c].pc # "report" /\ call'[c].pc # "report"
      /\ \A d \in Callers \ {c} : call'[d] = call[d]
  <2>1. CASE Open(c)
    BY <2>1, OpenStep DEF Open
  <2>2. CASE Write(c)
    BY <2>2, WriteStep DEF Write
  <2> QED BY <2>1, <2>2
<1>2. log # NoFile => content'[log] = content[log]
  <2>1. CASE Open(c)
    BY <2>1, OpenStep DEF TypeInv
  <2>2. CASE Write(c)
    <3>1. call[c].file = tmp
      BY <1>1, <2>2 DEF Alone, Owns, Write
    <3> QED BY <2>2, <3>1, WriteStep DEF TypeInv
  <2> QED BY <2>1, <2>2
<1>3. \A d \in Callers :
        /\ Running(d)' = Running(d) /\ Writing(d)' = Writing(d)
        /\ Running(d) => call'[d].does = call[d].does /\ call'[d].text = call[d].text
                         /\ (call'[d].pc = "report") = (call[d].pc = "report")
  <2> TAKE d \in Callers
  <2>1. CASE d = c
    BY <1>1, <2>1 DEF Running, Writing
  <2>2. CASE d # c
    BY <1>1, <2>2 DEF Running, Writing
  <2> QED BY <2>1, <2>2
<1> QED BY <1>1, <1>2, <1>3, OrderlyStays DEF Log

LEMMA OrderlyBegin ==
  ASSUME Hosts, NEW techs, NEW m, Begin(techs, m)
  PROVE  Orderly'
<1>1. PICK c \in Callers : host' = [host EXCEPT ![c] = 0]
  BY DEF Begin
<1>2. host'[c] = 0 /\ \A d \in Callers \ {c} : host'[d] = Nothing
  BY <1>1 DEF Begin, Hosts, On
<1>3. log' = NoFile /\ \A d \in Callers : ~Running(d)'
  BY DEF Begin, Hosts, logVars, Running
<1>4. \A d \in Callers : On(d)' => d = c
  BY <1>2 DEF On
<1>5. Continues(c)'
  BY <1>2, <1>3 DEF Continues, Progress, Writing
<1> QED BY <1>3, <1>4, <1>5 DEF Orderly, Writing

LEMMA OrderlyCall ==
  ASSUME TypeInv, Alone, Hosts, Orderly, ~strayed, ~overlapped, NEW c \in Callers, NextCall(c)
  PROVE  Orderly'
<1>1. /\ On(c) /\ ~Running(c) /\ UNCHANGED <<batch, host, strayed>>
      /\ \/ /\ log = NoFile /\ call'[c].does = "init" /\ call'[c].text.entries = <<>>
         \/ /\ Reads /\ host[c] < Len(batch) /\ call'[c].does = "append"
            /\ call'[c].text.entries = Append(Log.entries, batch[host[c] + 1])
         \/ /\ Reads /\ call'[c].does = "set" /\ call'[c].text.entries = Log.entries
  BY HostCalls
<1>2. /\ log' = log /\ content' = content /\ Running(c)' /\ call'[c].pc = "open"
      /\ \A d \in Callers \ {c} : call'[d] = call[d]
  BY HostCalls, CallBegins
<1>3. \A d \in Callers : On(d)' = On(d) /\ (On(d) \/ Running(d) => c = d)
  BY <1>1 DEF Orderly, On
<1>4. \A d \in Callers : On(d)' \/ Running(d)' => d = c
  BY <1>2, <1>3 DEF Running
<1>5. log # NoFile => IsPrefix(Log.entries, batch) /\ Len(Log.entries) = host[c]
  BY <1>1 DEF Orderly, Continues
<1>6. log = NoFile => host[c] = 0
  BY <1>1 DEF Orderly, Continues, Progress, Hosts
<1>7. host[c] \in Nat /\ host'[c] = host[c] /\ log'= log /\ Log' = Log /\ batch' = batch
  BY <1>1, <1>2 DEF Hosts, Log
<1>8. IsPrefix(call'[c].text.entries, batch) /\ Len(call'[c].text.entries) = Progress(c)'
  <2>1. CASE log = NoFile /\ call'[c].does = "init" /\ call'[c].text.entries = <<>>
    <3>1. Progress(c)' = 0
      BY <1>6, <1>7, <2>1 DEF Progress
    <3>2. IsPrefix(<<>>, batch)
      <4>1. PICK B : batch \in Seq(B)
        BY DEF Hosts
      <4>2. SubSeq(<<>>, 1, 0) = SubSeq(batch, 1, 0)
        BY <4>1
      <4> QED BY <4>1, <4>2 DEF IsPrefix
    <3> QED BY <2>1, <3>1, <3>2
  <2>2. CASE /\ Reads /\ host[c] < Len(batch) /\ call'[c].does = "append"
             /\ call'[c].text.entries = Append(Log.entries, batch[host[c] + 1])
    <3>1. Progress(c)' = host[c] + 1
      BY <1>2, <1>7, <2>2 DEF Progress
    <3>2. PICK E : Log.entries \in Seq(E)
      BY <2>2, LogIsSeq DEF Reads
    <3>3. PICK B : batch \in Seq(B)
      BY DEF Hosts
    <3>4. IsPrefix(Log.entries, batch) /\ Len(Log.entries) = host[c]
      BY <1>5, <2>2 DEF Reads
    <3> QED BY <2>2, <3>1, <3>2, <3>3, <3>4, PrefixGoesOn
  <2>3. CASE /\ Reads /\ call'[c].does = "set" /\ call'[c].text.entries = Log.entries
    <3>1. Progress(c)' = host[c]
      BY <1>7, <2>3 DEF Progress
    <3> QED BY <1>5, <2>3, <3>1 DEF Reads
  <2> QED BY <1>1, <2>1, <2>2, <2>3
<1>9. log = NoFile => Progress(c)' = 0
  BY <1>1, <1>6, <1>7 DEF Progress, Reads
<1>10. Continues(c)'
  BY <1>2, <1>5, <1>7, <1>8, <1>9 DEF Continues, Writing
<1> QED BY <1>3, <1>4, <1>5, <1>7, <1>8, <1>10 DEF Orderly, Writing

LEMMA OrderlyReplace ==
  ASSUME TypeInv, Alone, Hosts, Orderly, ~strayed, ~overlapped, UNCHANGED <<batch, host>>,
         NEW c \in Callers, Replace(c)
  PROVE  Orderly'
<1>1. /\ tmp \in Files /\ log' = tmp /\ content'[tmp] = content[tmp]
      /\ Running(c) /\ Running(c)' /\ call'[c].pc = "report" /\ call[c].pc = "replace"
      /\ call'[c].does = call[c].does
      /\ \A d \in Callers \ {c} : call'[d] = call[d]
  BY ReplaceStep DEF Replace
<1>2. \A d \in Callers \ {c} : ~Running(d) /\ ~Running(d)'
  BY <1>1 DEF Alone, Running
<1>3. content[tmp] = call[c].text
  BY <1>1 DEF Alone, Owns
<1>4. log' # NoFile /\ Log' = call[c].text
  BY <1>1, <1>3, FilesNat DEF Log
<1>5. \A d \in Callers : On(d)' = On(d) /\ ~Writing(d)'
  BY <1>1, <1>2 DEF On, Writing
<1>6. IsPrefix(Log.entries', batch')
  BY <1>1, <1>4 DEF Orderly, Writing
<1>7. \A d \in Callers : On(d) => d = c
  BY <1>1 DEF Orderly
<1>8. On(c) => Continues(c)'
  <2> SUFFICES ASSUME On(c) PROVE Continues(c)'
    OBVIOUS
  <2>1. Len(call[c].text.entries) = Progress(c)
    BY <1>1 DEF Orderly, Continues, Writing
  <2>2. Progress(c)' = Progress(c)
    BY <1>1 DEF Progress
  <2> QED BY <1>1, <1>4, <1>5, <2>1, <2>2 DEF Continues
<1> QED BY <1>2, <1>4, <1>5, <1>6, <1>7, <1>8 DEF Orderly

LEMMA OrderlyReported ==
  ASSUME TypeInv, Alone, Hosts, Orderly, ~strayed, ~overlapped, NEW c \in Callers, Reported(c)
  PROVE  Orderly'
<1>1. /\ log' = log /\ content' = content /\ batch' = batch /\ Running(c)
      /\ call[c].pc = "report" /\ ~Running(c)'
      /\ \A d \in Callers \ {c} : call'[d] = call[d]
  BY CallEnds DEF Reported, Report, Running
<1>2. \A d \in Callers : ~Running(d)'
  BY <1>1 DEF Alone, Running
<1>3. \A d \in Callers : On(d) => d = c
  BY <1>1 DEF Orderly
<1>4. \A d \in Callers : On(d)' => d = c /\ On(d)
  BY <1>3 DEF Reported, On, Hosts
<1>5. Log' = Log
  BY <1>1 DEF Log
<1>6. On(c) => Continues(c)'
  <2> SUFFICES ASSUME On(c) PROVE Continues(c)'
    OBVIOUS
  <2>1. host[c] \in Nat /\ Continues(c)
    BY DEF Hosts, Orderly
  <2>2. host'[c] = Progress(c)
    BY <1>1, <2>1 DEF Reported, Progress, Hosts
  <2>3. Progress(c)' = Progress(c)
    BY <1>2, <2>1, <2>2 DEF Progress
  <2> QED BY <1>1, <1>2, <1>5, <2>1, <2>2, <2>3 DEF Continues, Writing
<1> QED BY <1>1, <1>2, <1>4, <1>5, <1>6 DEF Orderly, Writing

LEMMA OrderlyResume ==
  ASSUME TypeInv, Hosts, Orderly, ~strayed, ~overlapped, ~strayed',
         NEW c \in Callers, Resume(c) \/ StartOver(c)
  PROVE  Orderly'
<1>1. /\ UNCHANGED <<log, content, call, batch>>
      /\ \A d \in Callers : ~On(d) /\ ~Running(d)
      /\ log # NoFile \/ host' = [host EXCEPT ![c] = 0]
      /\ log = NoFile \/ host' = [host EXCEPT ![c] = Len(Log.entries)]
  BY DEF Resume, StartOver, logVars, Reads
<1>2. \A d \in Callers : On(d)' => d = c
  BY <1>1 DEF On, Hosts
<1>3. Log' = Log /\ \A d \in Callers : ~Running(d)'
  BY <1>1 DEF Log, Running
<1>4. Continues(c)'
  <2>1. Progress(c)' = host'[c]
    <3>1. host'[c] \in Nat
      BY <1>1, LogIsSeq DEF Hosts
    <3> QED BY <1>3, <3>1 DEF Progress
  <2>2. host'[c] = IF log = NoFile THEN 0 ELSE Len(Log.entries)
    BY <1>1 DEF Hosts
  <2> QED BY <1>1, <1>3, <2>1, <2>2 DEF Continues, Writing
<1> QED BY <1>1, <1>2, <1>3, <1>4 DEF Orderly, Writing

LEMMA OrderlyDeath ==
  ASSUME TypeInv, Hosts, Orderly, ~strayed, ~overlapped, NEW c \in Callers, HostDies(c)
  PROVE  Orderly'
<1>1. /\ UNCHANGED <<log, content, batch>> /\ host' = [host EXCEPT ![c] = Nothing]
      /\ On(c) /\ \A d \in Callers : ~Running(d)' \/ call'[d] = call[d]
  BY CallEnds DEF HostDies, logVars
<1>2. \A d \in Callers : ~On(d)'
  BY <1>1 DEF Orderly, On, Hosts
<1>3. Log' = Log /\ \A d \in Callers : Writing(d)' => Writing(d) /\ call'[d] = call[d]
  BY <1>1 DEF Log, Writing, Running
<1> QED BY <1>1, <1>2, <1>3 DEF Orderly

LEMMA OrderlyStep ==
  ASSUME Inv, Hosts, Orderly, [Next]_vars
  PROVE  Orderly'
<1> SUFFICES ASSUME ~strayed', ~overlapped' PROVE Orderly'
  BY DEF Orderly
<1> USE DEF Inv
<1>1. ~strayed /\ ~overlapped
  BY NothingForgotten
<1>2. CASE UNCHANGED <<logVars, batch, host>>
  BY <1>1, <1>2, OrderlyStays DEF logVars, Log, Running, Writing
<1>3. CASE Copy \/ Chat
  BY <1>3, OrderlyBegin DEF Copy, Chat
<1>4. ASSUME NEW c \in Callers,
             \/ NextCall(c) \/ Writes(c) \/ Reported(c)
             \/ Resume(c) \/ CallDies(c) \/ HostDies(c) \/ StartOver(c)
      PROVE  Orderly'
  <2>1. CASE NextCall(c)
    BY <1>1, <2>1, OrderlyCall
  <2>2. CASE Writes(c)
    <3>1. ~ReplaceFails(c)
      <4>1. ASSUME call[c].pc = "replace", tmp = NoFile PROVE FALSE
        BY <1>1, <4>1, FilesNat DEF Alone, Owns, TypeInv, Called, Running
      <4> QED BY <4>1 DEF ReplaceFails
    <3> QED BY <1>1, <2>2, <3>1, OrderlyWrites, OrderlyReplace DEF Writes, sessionVars
  <2>3. CASE Reported(c)
    BY <1>1, <2>3, OrderlyReported
  <2>4. CASE Resume(c) \/ StartOver(c)
    BY <1>1, <2>4, OrderlyResume
  <2>5. CASE CallDies(c)
    BY <2>5 DEF CallDies
  <2>6. CASE HostDies(c)
    BY <1>1, <2>6, OrderlyDeath
  <2> QED BY <1>4, <2>1, <2>2, <2>3, <2>4, <2>5, <2>6
<1> QED BY <1>2, <1>3, <1>4 DEF Next, vars, sessionVars

LEMMA SpecOrderly == Spec => [](Hosts /\ Orderly)
<1>1. Init => Hosts /\ Orderly
  <2> SUFFICES ASSUME Init PROVE Hosts /\ Orderly
    OBVIOUS
  <2>1. \A c \in Callers : ~On(c) /\ ~Running(c)
    BY DEF Init, LogInit, On, Running, NoCall
  <2>2. <<>> \in Seq({})
    OBVIOUS
  <2>3. Hosts
    BY <2>1, <2>2 DEF Init, LogInit, Hosts
  <2>4. Orderly
    BY <2>1 DEF Init, LogInit, Orderly, Writing
  <2> QED BY <2>3, <2>4
<1>2. Inv /\ Hosts /\ Orderly /\ [Next]_vars => (Hosts /\ Orderly)'
  BY HostsStep, OrderlyStep DEF Inv
<1> QED BY <1>1, <1>2, SpecInv, PTL DEF Spec

-----------------------------------------------------------------------------
(* The theorems.                                                            *)

\* However many hosts write to a session's log, a log that no command can read,
\* and nobody is about to write, takes two accidents: commands overlapped and one
\* of them died.
THEOREM LogUnreadableNeedsBoth == Spec => []UnreadableNeedsBoth
<1>1. Inv => UnreadableNeedsBoth
  BY DEF Inv, TypeInv, Unkilled, Alone, AboutToWrite, UnreadableNeedsBoth
<1> QED BY <1>1, SpecInv, PTL

\* For any batch, fields and hosts: as long as no two commands overlap, the log
\* only grows at its end and is never seen cut short, wherever commands die.
THEOREM LogOnlyGrows == Spec => LogGrows
<1> DEFINE Grows ==
      log # NoFile /\ ~overlapped' =>
        /\ log' # NoFile /\ content'[log'].front /\ ~content'[log'].torn
        /\ IsPrefix(content[log].entries, content'[log'].entries)
<1>1. ASSUME Inv, LogStep, Inv', log # NoFile, ~overlapped'
      PROVE  /\ log' # NoFile /\ content'[log'].front /\ ~content'[log'].torn
             /\ IsPrefix(content[log].entries, content'[log'].entries)
  <2>1. PICK c \in Callers :
          Calls(c) \/ Open(c) \/ Write(c) \/ Replace(c) \/ ReplaceFails(c) \/ Report(c) \/ Kill(c)
    BY <1>1 DEF LogStep
  <2>2. TypeInv /\ ~overlapped
    <3>1. CASE Calls(c)
      BY <1>1, <3>1, CallBegins DEF Inv
    <3>2. CASE ~Calls(c)
      BY <1>1, <2>1, <3>2 DEF Inv, Open, Write, Replace, ReplaceFails, Report, Kill
    <3> QED BY <3>1, <3>2
  <2>3. /\ Running(c) => Owns(c)
        /\ log \in Files /\ IsPrefix(content[log].entries, content[log].entries)
    BY <1>1, <2>2, PrefixOfItself DEF Inv, Alone, TypeInv, Text, TextOf
  <2>4. CASE Replace(c)
    <3>1. log' = tmp /\ tmp \in Files /\ content'[tmp] = content[tmp]
      BY <2>2, <2>4, ReplaceStep
    <3>2. content[tmp] = call[c].text /\ IsPrefix(content[log].entries, call[c].text.entries)
      BY <1>1, <2>2, <2>3, <2>4, ReplaceStep DEF Owns, Replace
    <3> QED BY <1>1, <3>1, <3>2, FilesNat DEF Inv, Alone
  <2>5. CASE ~Replace(c)
    <3>1. log' = log /\ content'[log] = content[log]
      <4>1. CASE Open(c)
        BY <2>2, <2>3, <4>1, OpenStep
      <4>2. CASE Write(c)
        <5>1. call[c].file = tmp /\ tmp # log
          BY <2>2, <2>3, <4>2, WriteStep, FilesNat DEF Owns, Write, TypeInv
        <5> QED BY <2>2, <2>3, <4>2, <5>1, WriteStep
      <4>3. CASE Calls(c) \/ ReplaceFails(c) \/ Report(c) \/ Kill(c)
        BY <2>2, <4>3, CallBegins, CallEnds
      <4> QED BY <2>1, <2>5, <4>1, <4>2, <4>3
    <3> QED BY <1>1, <2>3, <3>1 DEF Inv, Alone
  <2> QED BY <2>4, <2>5
<1>2. Inv /\ Inv' /\ [Next]_vars => [Grows]_logVars
  BY <1>1, SessionStep
<1> QED BY <1>2, SpecInv, PTL DEF Spec, LogGrows

\* For any batch and any number of hosts, whoever died where: as long as one host
\* at a time was at work and none repeated a command that died, the log names the
\* techniques of the batch, once and in order, up to some point.
THEOREM ResumedSessionContinues == Spec => []ResumeContinues
<1>1. Orderly => ResumeContinues
  BY DEF Orderly, ResumeContinues, Reads
<1> QED BY <1>1, SpecOrderly, PTL

-----------------------------------------------------------------------------
(* The catalogue of techniques. *)

LowApart(list) == \A i, j \in DOMAIN list : i # j => Lower[list[i].name] # Lower[list[j].name]

LEMMA SoughtIs ==
  ASSUME NEW list \in Seq(Techniques), NEW name
  PROVE  /\ Sought(list, name) \subseteq DOMAIN list
         /\ \A i \in Sought(list, name) : Lower[list[i].name] = Lower[name]
         /\ Sought(list, name) # {} =>
              /\ Max(Sought(list, name)) \in Sought(list, name)
              /\ \A i \in Sought(list, name) : i <= Max(Sought(list, name))
              /\ Min(Sought(list, name)) \in Sought(list, name)
<1>1. DOMAIN list = 1..Len(list) /\ Len(list) \in Nat
  OBVIOUS
<1>2. /\ Sought(list, name) \subseteq DOMAIN list
      /\ \A i \in Sought(list, name) : Lower[list[i].name] = Lower[name]
  BY DEF Sought
<1>3. IsFiniteSet(Sought(list, name))
  <2>1. IsFiniteSet(1..Len(list))
    BY <1>1, FS_Interval
  <2> QED BY <1>1, <1>2, <2>1, FS_Subset
<1>4. Sought(list, name) \subseteq Nat
  BY <1>1, <1>2
<1> QED BY <1>2, <1>3, <1>4, MaxIs, MinIs

LEMMA NewestIs ==
  ASSUME NEW extras \in Seq(Techniques), NEW name, Sought(extras, name) # {}
  PROVE  Newest(extras, name) \in Techniques /\ Lower[Newest(extras, name).name] = Lower[name]
<1>1. Max(Sought(extras, name)) \in Sought(extras, name)
  BY SoughtIs
<1>2. /\ Max(Sought(extras, name)) \in DOMAIN extras
      /\ Lower[extras[Max(Sought(extras, name))].name] = Lower[name]
  BY <1>1, SoughtIs
<1> QED BY <1>2 DEF Newest

(* What is new is of names the list does not have, each once.              *)
LEMMA NewIs ==
  ASSUME NEW list \in Seq(Techniques), NEW extras \in Seq(Techniques)
  PROVE  /\ NewIn(list, extras) \in Seq(Techniques)
         /\ LowApart(NewIn(list, extras))
         /\ \A k \in DOMAIN NewIn(list, extras) :
              /\ Sought(list, NewIn(list, extras)[k].name) = {}
              /\ Sought(extras, NewIn(list, extras)[k].name) # {}
         /\ \A e \in DOMAIN extras :
              Sought(list, extras[e].name) = {} =>
                \E k \in DOMAIN NewIn(list, extras) : Lower[NewIn(list, extras)[k].name] = Lower[extras[e].name]
<1> DEFINE S == {i \in DOMAIN extras : Sought(list, extras[i].name) = {}
                                         /\ i = Min(Sought(extras, extras[i].name))}
<1>1. NewIn(list, extras) = Kept(extras, S)
  BY DEF NewIn
<1>2. \A i \in S : /\ i \in DOMAIN extras /\ Sought(list, extras[i].name) = {}
                   /\ i = Min(Sought(extras, extras[i].name))
  OBVIOUS
<1>3. \A i \in DOMAIN extras : Sought(list, extras[i].name) = {} /\ i = Min(Sought(extras, extras[i].name)) => i \in S
  OBVIOUS
<1>4. S \subseteq DOMAIN extras
  OBVIOUS
<1> HIDE DEF S
<1>5. Kept(extras, S) \in Seq(Techniques)
  BY <1>4, KeptIs
<1>6. /\ DOMAIN Kept(extras, S) = 1..Cardinality(S)
      /\ \A k \in 1..Cardinality(S) : PlaceKept(S, k) \in S /\ Kept(extras, S)[k] = extras[PlaceKept(S, k)]
      /\ \A k, l \in 1..Cardinality(S) : PlaceKept(S, k) = PlaceKept(S, l) => k = l
      /\ \A i \in S : Rank(S, i) \in 1..Cardinality(S) /\ Kept(extras, S)[Rank(S, i)] = extras[i]
  BY <1>4, KeptAt
<1>7. \A m, n : Lower[m] = Lower[n] => Sought(extras, m) = Sought(extras, n) /\ Sought(list, m) = Sought(list, n)
  BY DEF Sought
<1>8. LowApart(Kept(extras, S))
  <2> SUFFICES ASSUME NEW k \in 1..Cardinality(S), NEW l \in 1..Cardinality(S),
                      Lower[extras[PlaceKept(S, k)].name] = Lower[extras[PlaceKept(S, l)].name]
               PROVE  k = l
    BY <1>6 DEF LowApart
  <2>1. PlaceKept(S, k) \in S /\ PlaceKept(S, l) \in S
    BY <1>6
  <2>2. PlaceKept(S, k) = PlaceKept(S, l)
    BY <1>2, <1>7, <2>1
  <2> QED BY <1>6, <2>2
<1>9. ASSUME NEW k \in DOMAIN Kept(extras, S)
      PROVE  /\ Sought(list, Kept(extras, S)[k].name) = {}
             /\ Sought(extras, Kept(extras, S)[k].name) # {}
  <2>1. PlaceKept(S, k) \in S /\ Kept(extras, S)[k] = extras[PlaceKept(S, k)]
    BY <1>6
  <2>2. PlaceKept(S, k) \in Sought(extras, extras[PlaceKept(S, k)].name)
    BY <1>2, <2>1 DEF Sought
  <2> QED BY <1>2, <2>1, <2>2
<1>10. ASSUME NEW e \in DOMAIN extras, Sought(list, extras[e].name) = {}
       PROVE  \E k \in DOMAIN Kept(extras, S) : Lower[Kept(extras, S)[k].name] = Lower[extras[e].name]
  <2> DEFINE first == Min(Sought(extras, extras[e].name))
  <2>1. e \in Sought(extras, extras[e].name)
    BY DEF Sought
  <2>2. first \in Sought(extras, extras[e].name)
    BY <2>1, SoughtIs
  <2>3. first \in DOMAIN extras /\ Lower[extras[first].name] = Lower[extras[e].name]
    BY <2>2, SoughtIs
  <2>4. first \in S
    <3>1. Sought(extras, extras[first].name) = Sought(extras, extras[e].name) /\ Sought(list, extras[first].name) = {}
      BY <1>7, <1>10, <2>3
    <3> QED BY <1>3, <2>3, <3>1
  <2> HIDE DEF first
  <2> QED BY <1>6, <2>3, <2>4
<1> QED BY <1>1, <1>5, <1>8, <1>9, <1>10

(* The merged catalogue has the shipped rows in their places, retuned or   *)
(* not, then the new ones.                                                 *)
LEMMA MergeIs ==
  ASSUME NEW list \in Seq(Techniques), NEW extras \in Seq(Techniques)
  PROVE  /\ MergeExtra(list, extras) \in Seq(Techniques)
         /\ Len(MergeExtra(list, extras)) = Len(list) + Len(NewIn(list, extras))
         /\ \A i \in DOMAIN list :
              /\ MergeExtra(list, extras)[i] =
                   IF IsRetuned(list, i, extras) THEN Newest(extras, list[i].name) ELSE list[i]
              /\ Lower[MergeExtra(list, extras)[i].name] = Lower[list[i].name]
         /\ \A k \in DOMAIN NewIn(list, extras) :
              /\ MergeExtra(list, extras)[Len(list) + k] = Newest(extras, NewIn(list, extras)[k].name)
              /\ Lower[MergeExtra(list, extras)[Len(list) + k].name] = Lower[NewIn(list, extras)[k].name]
<1> DEFINE new == NewIn(list, extras)
           f == [i \in DOMAIN list |-> IF IsRetuned(list, i, extras) THEN Newest(extras, list[i].name) ELSE list[i]]
           g == [k \in DOMAIN new |-> Newest(extras, new[k].name)]
<1>1. /\ new \in Seq(Techniques)
      /\ \A k \in DOMAIN new : Sought(extras, new[k].name) # {}
  BY NewIs
<1>2. MergeExtra(list, extras) = f \o g
  BY DEF MergeExtra
<1>3. \A i \in DOMAIN list : f[i] \in Techniques /\ Lower[f[i].name] = Lower[list[i].name]
  <2> SUFFICES ASSUME NEW i \in DOMAIN list PROVE f[i] \in Techniques /\ Lower[f[i].name] = Lower[list[i].name]
    OBVIOUS
  <2>1. CASE IsRetuned(list, i, extras)
    <3>1. Sought(extras, list[i].name) # {}
      BY <2>1 DEF IsRetuned
    <3>2. Newest(extras, list[i].name) \in Techniques /\ Lower[Newest(extras, list[i].name).name] = Lower[list[i].name]
      BY <3>1, NewestIs
    <3> QED BY <2>1, <3>2
  <2>2. CASE ~IsRetuned(list, i, extras)
    BY <2>2
  <2> QED BY <2>1, <2>2
<1> HIDE DEF new
<1>4. \A k \in DOMAIN new : g[k] \in Techniques /\ Lower[g[k].name] = Lower[new[k].name]
  BY <1>1, NewestIs
<1>5. /\ DOMAIN list = 1..Len(list) /\ Len(list) \in Nat
      /\ DOMAIN new = 1..Len(new) /\ Len(new) \in Nat
  BY <1>1
<1>6. \A i \in DOMAIN list : f[i] = IF IsRetuned(list, i, extras) THEN Newest(extras, list[i].name) ELSE list[i]
  OBVIOUS
<1>7. \A k \in DOMAIN new : g[k] = Newest(extras, new[k].name)
  OBVIOUS
<1>8. f \in [1..Len(list) -> Techniques]
  <2>1. f = [i \in 1..Len(list) |-> f[i]]
    BY <1>5
  <2> HIDE DEF f
  <2> QED BY <1>3, <1>5, <2>1
<1>9. g \in [1..Len(new) -> Techniques]
  <2>1. g = [k \in 1..Len(new) |-> g[k]]
    BY <1>5
  <2> HIDE DEF g
  <2> QED BY <1>4, <1>5, <2>1
<1> HIDE DEF f, g
<1>10. f \in Seq(Techniques) /\ Len(f) = Len(list) /\ g \in Seq(Techniques) /\ Len(g) = Len(new)
  BY <1>5, <1>8, <1>9, FunctionsAreLists
<1>11. f \o g \in Seq(Techniques) /\ Len(f \o g) = Len(list) + Len(new)
  BY <1>10
<1>12. \A i \in DOMAIN list : (f \o g)[i] = f[i]
  BY <1>5, <1>10
<1>13. \A k \in DOMAIN new : (f \o g)[Len(list) + k] = g[k]
  BY <1>5, <1>10
<1>14. \A i \in DOMAIN list :
         /\ (f \o g)[i] = IF IsRetuned(list, i, extras) THEN Newest(extras, list[i].name) ELSE list[i]
         /\ Lower[(f \o g)[i].name] = Lower[list[i].name]
  BY <1>3, <1>6, <1>12
<1>15. \A k \in DOMAIN new :
         /\ (f \o g)[Len(list) + k] = Newest(extras, new[k].name)
         /\ Lower[(f \o g)[Len(list) + k].name] = Lower[new[k].name]
  BY <1>4, <1>7, <1>13
<1> QED BY <1>2, <1>11, <1>14, <1>15 DEF new

LEMMA MergedApart ==
  ASSUME NEW list \in Seq(Techniques), NEW extras \in Seq(Techniques), LowApart(list)
  PROVE  LowApart(MergeExtra(list, extras))
<1> DEFINE new == NewIn(list, extras)
           merged == MergeExtra(list, extras)
<1>1. /\ new \in Seq(Techniques) /\ LowApart(new)
      /\ \A k \in DOMAIN new : Sought(list, new[k].name) = {}
  BY NewIs
<1>2. /\ merged \in Seq(Techniques) /\ Len(merged) = Len(list) + Len(new)
      /\ \A i \in DOMAIN list : Lower[merged[i].name] = Lower[list[i].name]
      /\ \A k \in DOMAIN new : Lower[merged[Len(list) + k].name] = Lower[new[k].name]
  BY MergeIs
<1> HIDE DEF new, merged
<1>3. \A k \in DOMAIN new, i \in DOMAIN list : Lower[list[i].name] # Lower[new[k].name]
  BY <1>1 DEF Sought
<1>4. ASSUME NEW i \in DOMAIN merged, i \notin DOMAIN list
      PROVE  \E k \in DOMAIN new : i = Len(list) + k
  <2>1. i - Len(list) \in DOMAIN new /\ i = Len(list) + (i - Len(list))
    BY <1>1, <1>2, <1>4
  <2> QED BY <2>1
<1>5. LowApart(merged)
  <2> SUFFICES ASSUME NEW i \in DOMAIN merged, NEW j \in DOMAIN merged, i # j
               PROVE  Lower[merged[i].name] # Lower[merged[j].name]
    BY DEF LowApart
  <2>1. CASE i \in DOMAIN list /\ j \in DOMAIN list
    BY <1>2, <2>1 DEF LowApart
  <2>2. CASE i \in DOMAIN list /\ j \notin DOMAIN list
    BY <1>2, <1>3, <1>4, <2>2
  <2>3. CASE i \notin DOMAIN list /\ j \in DOMAIN list
    BY <1>2, <1>3, <1>4, <2>3
  <2>4. CASE i \notin DOMAIN list /\ j \notin DOMAIN list
    <3>1. PICK k \in DOMAIN new : i = Len(list) + k
      BY <1>4, <2>4
    <3>2. PICK l \in DOMAIN new : j = Len(list) + l
      BY <1>4, <2>4
    <3>3. k # l
      BY <3>1, <3>2
    <3> QED BY <1>1, <1>2, <3>1, <3>2, <3>3 DEF LowApart
  <2> QED BY <2>1, <2>2, <2>3, <2>4
<1> QED BY <1>5 DEF merged

(* The last overlay row of a name is in the merged catalogue.              *)
LEMMA OverlayIsThere ==
  ASSUME NEW list \in Seq(Techniques), NEW extras \in Seq(Techniques), LowApart(list),
         NEW e \in DOMAIN extras,
         \A j \in DOMAIN extras : Lower[extras[j].name] = Lower[extras[e].name] => j <= e
  PROVE  \E p \in DOMAIN MergeExtra(list, extras) : MergeExtra(list, extras)[p] = extras[e]
<1> DEFINE name == extras[e].name
           merged == MergeExtra(list, extras)
           new == NewIn(list, extras)
<1>1. /\ merged \in Seq(Techniques) /\ Len(merged) = Len(list) + Len(new)
      /\ \A i \in DOMAIN list :
           merged[i] = IF IsRetuned(list, i, extras) THEN Newest(extras, list[i].name) ELSE list[i]
      /\ \A k \in DOMAIN new : merged[Len(list) + k] = Newest(extras, new[k].name)
  BY MergeIs
<1>2. /\ new \in Seq(Techniques)
      /\ Sought(list, name) = {} => \E k \in DOMAIN new : Lower[new[k].name] = Lower[name]
  <2>1. Sought(list, extras[e].name) = {} => \E k \in DOMAIN new : Lower[new[k].name] = Lower[extras[e].name]
    BY NewIs
  <2> QED BY <2>1, NewIs
<1>3. e \in Sought(extras, name)
  BY DEF Sought
<1>4. Max(Sought(extras, name)) = e
  <2>1. Max(Sought(extras, name)) \in Sought(extras, name) /\ e <= Max(Sought(extras, name))
    BY <1>3, SoughtIs
  <2>2. Max(Sought(extras, name)) \in DOMAIN extras /\ Max(Sought(extras, name)) <= e
    BY <2>1, SoughtIs
  <2>3. e \in Nat /\ Max(Sought(extras, name)) \in Nat
    BY <2>2
  <2> QED BY <2>1, <2>2, <2>3
<1>5. \A m : Lower[m] = Lower[name] => Sought(extras, m) = Sought(extras, name) /\ Sought(list, m) = Sought(list, name)
  BY DEF Sought
<1>6. \A m : Lower[m] = Lower[name] => Newest(extras, m) = extras[e]
  BY <1>4, <1>5 DEF Newest
<1>7. CASE Sought(list, name) = {}
  <2>1. PICK k \in DOMAIN new : Lower[new[k].name] = Lower[name]
    BY <1>2, <1>7
  <2>2. merged[Len(list) + k] = extras[e]
    BY <1>1, <1>6, <2>1
  <2>3. Len(list) + k \in DOMAIN merged
    BY <1>1, <1>2, <2>1
  <2> HIDE DEF merged
  <2> QED BY <2>2, <2>3 DEF merged
<1>8. CASE Sought(list, name) # {}
  <2> DEFINE i == Max(Sought(list, name))
  <2>1. i \in DOMAIN list /\ Lower[list[i].name] = Lower[name]
    <3>1. i \in Sought(list, name)
      BY <1>8, SoughtIs
    <3> QED BY <3>1, SoughtIs
  <2>2. IsRetuned(list, i, extras)
    <3>1. Sought(extras, list[i].name) = Sought(extras, name) /\ Sought(list, list[i].name) = Sought(list, name)
      BY <1>5, <2>1
    <3> QED BY <1>3, <3>1 DEF IsRetuned
  <2> HIDE DEF i
  <2>3. merged[i] = extras[e]
    BY <1>1, <1>6, <2>1, <2>2
  <2>4. i \in DOMAIN merged
    BY <1>1, <1>2, <2>1
  <2> HIDE DEF merged
  <2> QED BY <2>3, <2>4 DEF merged
<1> QED BY <1>7, <1>8

-----------------------------------------------------------------------------
(* The page: which card is where. *)

LEMMA SectionIsNat ==
  ASSUME NEW c \in DOMAIN CatRank
  PROVE  Section(c) \in Nat
<1>1. Shipped \in Seq(DOMAIN CatRank) /\ CatRank[c] \in Nat
  BY CategoriesAssumption
<1>2. CASE c \in ToSet(Shipped)
  <2>1. \E k \in DOMAIN Shipped : Shipped[k] = c
    BY <1>2 DEF ToSet
  <2>2. (CHOOSE k \in DOMAIN Shipped : Shipped[k] = c) \in DOMAIN Shipped
    BY <2>1
  <2>3. Section(c) \in DOMAIN Shipped
    BY <1>2, <2>2 DEF Section
  <2> QED BY <1>1, <2>3
<1>3. CASE c \notin ToSet(Shipped)
  <2>1. Section(c) = Len(Shipped) + 1 + CatRank[c]
    BY <1>3 DEF Section
  <2> QED BY <1>1, <2>1
<1> QED BY <1>2, <1>3

RowAt(list, k) == CHOOSE i \in DOMAIN list : HomePlace(list, i) = k

(* Every row has one home card.                                            *)
LEMMA HomePlaces ==
  ASSUME NEW list \in Seq(Techniques)
  PROVE  /\ \A i \in DOMAIN list : HomePlace(list, i) \in DOMAIN list /\ RowAt(list, HomePlace(list, i)) = i
         /\ \A k \in DOMAIN list : RowAt(list, k) \in DOMAIN list
         /\ \A k, l \in DOMAIN list : RowAt(list, k) = RowAt(list, l) => k = l
<1> DEFINE D == DOMAIN list
           n == Len(list)
           sec(i) == Section(list[i].cat)
           preds(i) == {j \in D : Before(list, j, i)}
           f == [i \in D |-> HomePlace(list, i)]
<1>1. D = 1..n /\ n \in Nat /\ IsFiniteSet(D) /\ Cardinality(D) = n
  <2>1. D = 1..n /\ n \in Nat
    OBVIOUS
  <2> HIDE DEF D, n
  <2> QED BY <2>1, FS_Interval
<1>2. \A i \in D : sec(i) \in Nat
  <2> SUFFICES ASSUME NEW i \in D PROVE sec(i) \in Nat
    OBVIOUS
  <2>1. list[i].cat \in DOMAIN CatRank
    BY CategoriesAssumption
  <2> QED BY <2>1, SectionIsNat
<1>3. \A i, j \in D : Before(list, i, j) <=> sec(i) < sec(j) \/ (sec(i) = sec(j) /\ i < j)
  BY DEF Before
<1> HIDE DEF sec
<1>4. \A i \in D : IsFiniteSet(preds(i)) /\ Cardinality(preds(i)) \in Nat /\ preds(i) \subseteq D /\ i \notin preds(i)
  <2> SUFFICES ASSUME NEW i \in D
               PROVE  IsFiniteSet(preds(i)) /\ Cardinality(preds(i)) \in Nat /\ preds(i) \subseteq D /\ i \notin preds(i)
    OBVIOUS
  <2>1. preds(i) \subseteq D
    OBVIOUS
  <2>2. i \notin preds(i)
    BY <1>1, <1>2, <1>3
  <2> HIDE DEF preds
  <2> QED BY <1>1, <2>1, <2>2, FS_Subset, FS_CardinalityType
<1>5. \A i \in D : HomePlace(list, i) = Cardinality(preds(i)) + 1
  BY DEF HomePlace
<1>6. ASSUME NEW i \in D PROVE HomePlace(list, i) \in D
  <2>1. preds(i) \subseteq D \ {i}
    BY <1>4
  <2>2. IsFiniteSet(D \ {i}) /\ Cardinality(D \ {i}) = n - 1
    <3> HIDE DEF D
    <3> QED BY <1>1, FS_RemoveElement
  <2> HIDE DEF preds
  <2>3. Cardinality(preds(i)) <= n - 1
    <3> HIDE DEF D
    <3> QED BY <2>1, <2>2, FS_Subset
  <2> QED BY <1>1, <1>4, <1>5, <2>3
<1>7. ASSUME NEW i \in D, NEW j \in D, Before(list, i, j)
      PROVE  HomePlace(list, i) < HomePlace(list, j)
  <2>1. i \in preds(j) /\ i \notin preds(i)
    BY <1>4, <1>7
  <2>2. preds(i) \subseteq preds(j)
    <3> SUFFICES ASSUME NEW k \in D, Before(list, k, i) PROVE Before(list, k, j)
      OBVIOUS
    <3>1. sec(k) \in Nat /\ sec(i) \in Nat /\ sec(j) \in Nat /\ k \in Nat /\ i \in Nat /\ j \in Nat
      BY <1>1, <1>2
    <3> QED BY <1>3, <1>7, <3>1
  <2> HIDE DEF preds
  <2> QED BY <1>4, <1>5, <2>1, <2>2, FS_Subset
<1>8. ASSUME NEW i \in D, NEW j \in D, HomePlace(list, i) = HomePlace(list, j) PROVE i = j
  <2> SUFFICES ASSUME i # j PROVE FALSE
    OBVIOUS
  <2>1. HomePlace(list, i) \in Nat /\ HomePlace(list, j) \in Nat
    BY <1>1, <1>6
  <2>2. Before(list, i, j) \/ Before(list, j, i)
    <3>1. sec(i) \in Nat /\ sec(j) \in Nat /\ i \in Nat /\ j \in Nat
      BY <1>1, <1>2
    <3> QED BY <1>3, <3>1
  <2> QED BY <1>7, <1>8, <2>1, <2>2
<1>9. f \in Injection(D, D)
  <2>1. f \in [D -> D]
    BY <1>6
  <2>2. \A i, j \in D : f[i] = f[j] => i = j
    BY <1>8
  <2> HIDE DEF f
  <2> QED BY <2>1, <2>2 DEF Injection, IsInjective
<1>10. f \in Surjection(D, D)
  <2> HIDE DEF f
  <2> QED BY <1>1, <1>9, FS_Injection
<1>11. \A k \in D : \E i \in D : HomePlace(list, i) = k
  BY <1>10 DEF Surjection
<1>12. \A k \in D : RowAt(list, k) \in D /\ HomePlace(list, RowAt(list, k)) = k
  BY <1>11 DEF RowAt
<1> HIDE DEF D, f, preds, n
<1>13. \A i \in D : RowAt(list, HomePlace(list, i)) = i
  BY <1>6, <1>8, <1>12
<1>14. \A k, l \in D : RowAt(list, k) = RowAt(list, l) => k = l
  BY <1>12
<1> QED BY <1>6, <1>12, <1>13, <1>14 DEF D

(* A card of the page.                                                     *)
Card == [row : Techniques, lead : BOOLEAN]

(* How many cards the lead group has.                                      *)
Leads(list) == Cardinality({i \in DOMAIN list : list[i].classic})

LEMMA CardsAre ==
  ASSUME NEW list \in Seq(Techniques), NEW doc, doc = HtmlDoc(list)
  PROVE  /\ Leads(list) \in Nat /\ doc \in Seq(Card)
         /\ DOMAIN doc = 1..Leads(list) + Len(list)
         /\ \A h \in 1..Leads(list) : doc[h].lead /\ \E i \in DOMAIN list : doc[h].row = list[i]
         /\ \A k \in DOMAIN list :
              doc[Leads(list) + k].row = list[RowAt(list, k)] /\ ~doc[Leads(list) + k].lead
<1> DEFINE S == {i \in DOMAIN list : list[i].classic}
           top == Kept(list, S)
           homes == BySection(list)
           n == Len(list)
           f == Carded(top, TRUE)
           g == Carded(homes, FALSE)
<1>1. DOMAIN list = 1..n /\ n \in Nat /\ S \subseteq DOMAIN list
  OBVIOUS
<1>2. Leads(list) = Cardinality(S) /\ Cardinality(S) \in Nat
  <2>1. IsFiniteSet(1..n)
    BY <1>1, FS_Interval
  <2> HIDE DEF S, n
  <2>2. IsFiniteSet(S)
    BY <1>1, <2>1, FS_Subset
  <2> QED BY <2>2, FS_CardinalityType DEF Leads, S
<1> HIDE DEF S
<1>4. /\ DOMAIN top = 1..Cardinality(S)
      /\ \A k \in 1..Cardinality(S) : PlaceKept(S, k) \in S /\ top[k] = list[PlaceKept(S, k)]
  BY <1>1, KeptAt
<1>5. homes = [k \in DOMAIN list |-> list[RowAt(list, k)]]
  BY DEF BySection, RowAt
<1>6. \A k \in DOMAIN list : RowAt(list, k) \in DOMAIN list
  BY HomePlaces
<1>7. doc = f \o g
  BY DEF HtmlDoc, S
<1> HIDE DEF top, homes
<1>8. \A k \in 1..Cardinality(S) : top[k] \in Techniques
  <2>1. \A i \in S : list[i] \in Techniques
    BY <1>1
  <2> QED BY <1>4, <2>1
<1>9. f = [k \in 1..Cardinality(S) |-> [row |-> top[k], lead |-> TRUE]]
  BY <1>4 DEF Carded
<1>10. g = [k \in 1..n |-> [row |-> list[RowAt(list, k)], lead |-> FALSE]]
  <2>1. DOMAIN homes = 1..n /\ \A k \in 1..n : homes[k] = list[RowAt(list, k)]
    BY <1>1, <1>5
  <2> QED BY <2>1 DEF Carded
<1> HIDE DEF f, g
<1>11. f \in [1..Cardinality(S) -> Card]
  <2>1. \A k \in 1..Cardinality(S) : [row |-> top[k], lead |-> TRUE] \in Card
    BY <1>8 DEF Card
  <2> QED BY <1>9, <2>1
<1>12. g \in [1..n -> Card]
  <2>1. \A k \in 1..n : [row |-> list[RowAt(list, k)], lead |-> FALSE] \in Card
    BY <1>1, <1>6 DEF Card
  <2> HIDE DEF n
  <2> QED BY <1>10, <2>1
<1> HIDE DEF n
<1>13. /\ f \in Seq(Card) /\ Len(f) = Cardinality(S) /\ g \in Seq(Card) /\ Len(g) = n
       /\ doc \in Seq(Card) /\ Len(doc) = Cardinality(S) + n
  <2>1. f \in Seq(Card) /\ Len(f) = Cardinality(S)
    BY <1>2, <1>11, FunctionsAreLists
  <2>2. g \in Seq(Card) /\ Len(g) = n
    BY <1>1, <1>12, FunctionsAreLists
  <2>3. f \o g \in Seq(Card) /\ Len(f \o g) = Len(f) + Len(g)
    BY <2>1, <2>2
  <2> QED BY <1>7, <2>1, <2>2, <2>3
<1>14. \A h \in 1..Cardinality(S) : doc[h] = f[h]
  BY <1>2, <1>7, <1>13
<1>15. \A k \in 1..n : doc[Cardinality(S) + k] = g[k]
  BY <1>1, <1>2, <1>7, <1>13
<1>16. DOMAIN doc = 1..Cardinality(S) + n
  BY <1>13
<1>17. \A h \in 1..Cardinality(S) : doc[h].lead /\ \E i \in DOMAIN list : doc[h].row = list[i]
  BY <1>1, <1>4, <1>9, <1>14
<1>18. \A k \in 1..n : doc[Cardinality(S) + k].row = list[RowAt(list, k)] /\ ~doc[Cardinality(S) + k].lead
  BY <1>10, <1>15
<1> QED BY <1>1, <1>2, <1>13, <1>16, <1>17, <1>18 DEF n

(* Cards show rows, every row has a home card, and home cards of one name  *)
(* are one card.                                                           *)
ShowsRows(list, doc) == \A h \in DOMAIN doc : \E i \in DOMAIN list : doc[h].row = list[i]
HasHomes(list, doc) ==
  \A i \in DOMAIN list : \E h \in DOMAIN doc : ~doc[h].lead /\ doc[h].row = list[i]
HomesOnce(doc) ==
  \A g, h \in DOMAIN doc :
    ~doc[g].lead /\ ~doc[h].lead /\ Lower[doc[g].row.name] = Lower[doc[h].row.name] => g = h

LEMMA HomeCards ==
  ASSUME NEW list \in Seq(Techniques), LowApart(list), NEW doc, doc = HtmlDoc(list)
  PROVE  doc \in Seq(Card) /\ ShowsRows(list, doc) /\ HasHomes(list, doc) /\ HomesOnce(doc)
<1> DEFINE L == Leads(list)
           n == Len(list)
<1>8. doc \in Seq(Card)
  BY CardsAre
<1>1. /\ L \in Nat /\ DOMAIN doc = 1..L + n
      /\ \A h \in 1..L : doc[h].lead /\ \E i \in DOMAIN list : doc[h].row = list[i]
      /\ \A k \in DOMAIN list : doc[L + k].row = list[RowAt(list, k)] /\ ~doc[L + k].lead
  BY CardsAre
<1>2. DOMAIN list = 1..n /\ n \in Nat
  OBVIOUS
<1>3. /\ \A i \in DOMAIN list : HomePlace(list, i) \in DOMAIN list /\ RowAt(list, HomePlace(list, i)) = i
      /\ \A k \in DOMAIN list : RowAt(list, k) \in DOMAIN list
      /\ \A k, l \in DOMAIN list : RowAt(list, k) = RowAt(list, l) => k = l
  BY HomePlaces
<1> HIDE DEF L, n
<1>4. \A h \in DOMAIN doc : h \in 1..L \/ \E k \in DOMAIN list : h = L + k
  <2> SUFFICES ASSUME NEW h \in DOMAIN doc, h \notin 1..L PROVE \E k \in DOMAIN list : h = L + k
    OBVIOUS
  <2>1. h - L \in DOMAIN list /\ h = L + (h - L)
    BY <1>1, <1>2
  <2> QED BY <2>1
<1>5. \A h \in DOMAIN doc : \E i \in DOMAIN list : doc[h].row = list[i]
  BY <1>1, <1>3, <1>4
<1>6. ASSUME NEW i \in DOMAIN list PROVE \E h \in DOMAIN doc : ~doc[h].lead /\ doc[h].row = list[i]
  <2>1. L + HomePlace(list, i) \in DOMAIN doc
    BY <1>1, <1>2, <1>3
  <2>2. ~doc[L + HomePlace(list, i)].lead /\ doc[L + HomePlace(list, i)].row = list[i]
    BY <1>1, <1>3
  <2> QED BY <2>1, <2>2
<1>7. ASSUME NEW g \in DOMAIN doc, NEW h \in DOMAIN doc,
             ~doc[g].lead, ~doc[h].lead, Lower[doc[g].row.name] = Lower[doc[h].row.name]
      PROVE  g = h
  <2>1. PICK k \in DOMAIN list : g = L + k
    BY <1>1, <1>4, <1>7
  <2>2. PICK l \in DOMAIN list : h = L + l
    BY <1>1, <1>4, <1>7
  <2>3. RowAt(list, k) \in DOMAIN list /\ RowAt(list, l) \in DOMAIN list
    BY <1>3
  <2>4. Lower[list[RowAt(list, k)].name] = Lower[list[RowAt(list, l)].name]
    BY <1>1, <1>7, <2>1, <2>2
  <2>5. RowAt(list, k) = RowAt(list, l)
    BY <2>3, <2>4 DEF LowApart
  <2> QED BY <1>3, <2>1, <2>2, <2>5
<1> QED BY <1>5, <1>6, <1>7, <1>8 DEF ShowsRows, HasHomes, HomesOnce

-----------------------------------------------------------------------------
(* The page in use: what it counts. *)

\* The page was written from a merged catalogue.
CatalogIs ==
  \E c \in Catalogs :
    overlay = c.extras /\ rows = MergeExtra(c.rows, c.extras) /\ cards = HtmlDoc(rows)

LEMMA CatalogFacts ==
  ASSUME CatalogIs
  PROVE  /\ rows \in Seq(Techniques) /\ LowApart(rows)
         /\ cards \in Seq(Card)
         /\ \A h \in DOMAIN cards : \E i \in DOMAIN rows : cards[h].row = rows[i]
         /\ \A i \in DOMAIN rows : \E h \in DOMAIN cards : ~cards[h].lead /\ cards[h].row = rows[i]
         /\ \A g, h \in DOMAIN cards :
              ~cards[g].lead /\ ~cards[h].lead /\ Lower[NameOn(g)] = Lower[NameOn(h)] => g = h
         /\ \A e \in DOMAIN overlay :
              (\A j \in DOMAIN overlay : Lower[overlay[j].name] = Lower[overlay[e].name] => j <= e) =>
                \E p \in DOMAIN rows : rows[p] = overlay[e]
<1>1. PICK c \in Catalogs : overlay = c.extras /\ rows = MergeExtra(c.rows, c.extras) /\ cards = HtmlDoc(rows)
  BY DEF CatalogIs
<1>2. c.rows \in Seq(Techniques) /\ c.extras \in Seq(Techniques) /\ LowApart(c.rows)
  BY CatalogsAssumption DEF LowApart
<1>3. rows \in Seq(Techniques)
  BY <1>1, <1>2, MergeIs
<1>4. LowApart(rows)
  BY <1>1, <1>2, MergedApart
<1>5. cards = HtmlDoc(rows)
  BY <1>1
<1>7. cards \in Seq(Card) /\ ShowsRows(rows, cards) /\ HasHomes(rows, cards) /\ HomesOnce(cards)
  BY <1>3, <1>4, <1>5, HomeCards
<1>8. \A h \in DOMAIN cards : \E i \in DOMAIN rows : cards[h].row = rows[i]
  BY <1>7 DEF ShowsRows
<1>9. \A i \in DOMAIN rows : \E h \in DOMAIN cards : ~cards[h].lead /\ cards[h].row = rows[i]
  BY <1>7 DEF HasHomes
<1>10. \A g, h \in DOMAIN cards :
         ~cards[g].lead /\ ~cards[h].lead /\ Lower[cards[g].row.name] = Lower[cards[h].row.name] => g = h
  BY <1>7 DEF HomesOnce
<1>6. ASSUME NEW e \in DOMAIN overlay,
             \A j \in DOMAIN overlay : Lower[overlay[j].name] = Lower[overlay[e].name] => j <= e
      PROVE  \E p \in DOMAIN rows : rows[p] = overlay[e]
  BY <1>1, <1>2, <1>6, OverlayIsThere
<1> QED BY <1>3, <1>4, <1>6, <1>7, <1>8, <1>9, <1>10 DEF NameOn

(* What is checked counts once per technique.                              *)
LEMMA CheckedIs ==
  ASSUME cards \in Seq(Card), NEW boxes \in SUBSET DOMAIN cards
  PROVE  /\ Len(CheckedTech(boxes)) \in Nat /\ DOMAIN CheckedTech(boxes) = 1..Len(CheckedTech(boxes))
         /\ \A k \in DOMAIN CheckedTech(boxes) : CheckedTech(boxes)[k] \in boxes
         /\ \A k, l \in DOMAIN CheckedTech(boxes) :
              NameOn(CheckedTech(boxes)[k]) = NameOn(CheckedTech(boxes)[l]) => k = l
<1> DEFINE id == [i \in DOMAIN cards |-> i]
           S == {i \in boxes : \A j \in boxes : NameOn(j) = NameOn(i) => i <= j}
           n == Len(cards)
           picks == Kept(id, S)
<1>1. DOMAIN cards = 1..n /\ n \in Nat
  OBVIOUS
<1>2. id \in Seq(Nat) /\ DOMAIN id = DOMAIN cards /\ \A i \in DOMAIN cards : id[i] = i
  <2>1. id \in [1..n -> Nat]
    BY <1>1
  <2>2. DOMAIN id = DOMAIN cards /\ \A i \in DOMAIN cards : id[i] = i
    OBVIOUS
  <2> HIDE DEF id, n
  <2> QED BY <1>1, <2>1, <2>2, FunctionsAreLists
<1>3. S \subseteq DOMAIN id /\ S \subseteq boxes
  OBVIOUS
<1>4. \A i, j \in S : NameOn(i) = NameOn(j) => i = j
  <2> SUFFICES ASSUME NEW i \in S, NEW j \in S, NameOn(i) = NameOn(j) PROVE i = j
    OBVIOUS
  <2>1. i <= j /\ j <= i /\ i \in Nat /\ j \in Nat
    BY <1>1
  <2> QED BY <2>1
<1>5. CheckedTech(boxes) = picks
  BY DEF CheckedTech
<1> HIDE DEF id, S, n
<1>6. picks \in Seq(Nat)
  BY <1>2, <1>3, KeptIs
<1>7. /\ DOMAIN picks = 1..Cardinality(S)
      /\ \A k \in 1..Cardinality(S) : PlaceKept(S, k) \in S /\ picks[k] = id[PlaceKept(S, k)]
      /\ \A k, l \in 1..Cardinality(S) : PlaceKept(S, k) = PlaceKept(S, l) => k = l
  BY <1>2, <1>3, KeptAt
<1> HIDE DEF picks
<1>8. \A k \in 1..Cardinality(S) : picks[k] = PlaceKept(S, k) /\ picks[k] \in S
  BY <1>2, <1>3, <1>7
<1>9. Len(picks) \in Nat /\ DOMAIN picks = 1..Len(picks)
  BY <1>6
<1>10. \A k \in DOMAIN picks : picks[k] \in boxes
  BY <1>3, <1>7, <1>8
<1>11. \A k, l \in DOMAIN picks : NameOn(picks[k]) = NameOn(picks[l]) => k = l
  BY <1>4, <1>7, <1>8
<1> QED BY <1>5, <1>9, <1>10, <1>11

PageRecord ==
  [checked : SUBSET DOMAIN cards, invent : SUBSET CatsOf(rows), rand : Nat, inv : Nat, ai : Nat,
   mode : Modes, goals : SUBSET GoalBar, hidden : SUBSET DOMAIN cards,
   shown : [picks : Nat, rand : Nat, total : Nat]]

\* What the page shows adds up, and what is to be drawn is there to draw.
Counted(p) ==
  /\ p \in PageRecord
  /\ p.rand <= Cardinality(RandomPool(p.checked))
  /\ p.shown.total = Len(CheckedTech(p.checked)) + p.rand + p.inv + Cardinality(p.invent) + p.ai

LEMMA PoolIs ==
  ASSUME cards \in Seq(Card), NEW boxes
  PROVE  IsFiniteSet(RandomPool(boxes)) /\ Cardinality(RandomPool(boxes)) \in Nat
<1>1. DOMAIN cards = 1..Len(cards) /\ Len(cards) \in Nat /\ RandomPool(boxes) \subseteq DOMAIN cards
  BY DEF RandomPool
<1>2. IsFiniteSet(1..Len(cards))
  BY <1>1, FS_Interval
<1> QED BY <1>1, <1>2, FS_Subset, FS_CardinalityType

LEMMA CatsAreFinite ==
  ASSUME rows \in Seq(Techniques)
  PROVE  IsFiniteSet(CatsOf(rows))
<1> DEFINE f == [i \in DOMAIN rows |-> rows[i].cat]
<1>1. f \in Surjection(DOMAIN rows, CatsOf(rows))
  BY DEF Surjection, CatsOf
<1>2. IsFiniteSet(DOMAIN rows)
  <2>1. DOMAIN rows = 1..Len(rows) /\ Len(rows) \in Nat
    OBVIOUS
  <2> QED BY <2>1, FS_Interval
<1> HIDE DEF f
<1> QED BY <1>1, <1>2, FS_Surjection

(* update() leaves a page that adds up.                                    *)
LEMMA UpdatedCounts ==
  ASSUME CatalogIs, NEW p \in PageRecord
  PROVE  Counted(Updated(p))
<1> DEFINE picks == Len(CheckedTech(p.checked))
           rand == Clamped(p)
           total == picks + rand + p.inv + Cardinality(p.invent) + p.ai
           shown == [picks |-> picks, rand |-> rand, total |-> total]
           q == [p EXCEPT !.rand = rand, !.shown = shown]
<1>1. cards \in Seq(Card) /\ rows \in Seq(Techniques)
  BY CatalogFacts
<1>2. p.checked \in SUBSET DOMAIN cards /\ p.invent \in SUBSET CatsOf(rows) /\ p.rand \in Nat /\ p.inv \in Nat /\ p.ai \in Nat
  BY DEF PageRecord
<1>3. picks \in Nat
  BY <1>1, <1>2, CheckedIs
<1>4. Cardinality(p.invent) \in Nat
  BY <1>1, <1>2, CatsAreFinite, FS_Subset, FS_CardinalityType
<1>5. rand \in Nat /\ rand <= Cardinality(RandomPool(p.checked))
  <2>1. {p.rand, Cardinality(RandomPool(p.checked))} \subseteq Nat
    BY <1>1, <1>2, PoolIs
  <2>2. /\ Min({p.rand, Cardinality(RandomPool(p.checked))}) \in {p.rand, Cardinality(RandomPool(p.checked))}
        /\ \A y \in {p.rand, Cardinality(RandomPool(p.checked))} : Min({p.rand, Cardinality(RandomPool(p.checked))}) <= y
    BY <2>1, MinIs
  <2> QED BY <2>1, <2>2 DEF Clamped
<1>6. Updated(p) = q
  BY DEF Updated
<1> HIDE DEF picks, rand
<1>7. total \in Nat
  BY <1>2, <1>3, <1>4, <1>5
<1> HIDE DEF total
<1>8. shown \in [picks : Nat, rand : Nat, total : Nat] /\ shown.total = total
  BY <1>3, <1>5, <1>7
<1> HIDE DEF shown
<1>9. /\ q.checked = p.checked /\ q.invent = p.invent /\ q.rand = rand /\ q.inv = p.inv /\ q.ai = p.ai
      /\ q.shown = shown
  BY DEF PageRecord
<1>10. q \in PageRecord
  BY <1>5, <1>8 DEF PageRecord
<1> HIDE DEF q
<1> QED BY <1>5, <1>6, <1>8, <1>9, <1>10 DEF Counted, picks, total

LEMMA FreshCounts ==
  ASSUME CatalogIs, NEW boxes \in SUBSET DOMAIN cards, NEW spirits \in SUBSET CatsOf(rows)
  PROVE  Counted(Fresh(boxes, spirits))
<1> DEFINE p == [checked |-> boxes, invent |-> spirits, rand |-> 0, inv |-> 0, ai |-> 0,
                 mode |-> MainMode, goals |-> {}, hidden |-> {},
                 shown |-> [picks |-> 0, rand |-> 0, total |-> 0]]
<1>1. p \in PageRecord
  BY MainModeIsOne DEF PageRecord
<1>2. Fresh(boxes, spirits) = Updated(p)
  BY DEF Fresh
<1> HIDE DEF p
<1> QED BY <1>1, <1>2, UpdatedCounts

(* Every click leaves a page that adds up.                                 *)
LEMMA ClickCounts ==
  ASSUME CatalogIs, Counted(page), PageNext
  PROVE  Counted(page')
<1>1. page \in PageRecord
  BY DEF Counted
<1>2. ASSUME NEW i \in DOMAIN cards, ToggleCard(i) PROVE Counted(page')
  <2> DEFINE p == [page EXCEPT !.checked = Toggled(@, i)]
  <2>1. p \in PageRecord
    BY <1>1 DEF PageRecord, Toggled
  <2>2. page' = Updated(p)
    BY <1>2 DEF ToggleCard
  <2> HIDE DEF p
  <2> QED BY <2>1, <2>2, UpdatedCounts
<1>3. ASSUME NEW c \in CatsOf(rows), ToggleInvent(c) PROVE Counted(page')
  <2> DEFINE p == [page EXCEPT !.invent = Toggled(@, c)]
  <2>1. p \in PageRecord
    BY <1>1 DEF PageRecord, Toggled
  <2>2. page' = Updated(p)
    BY <1>3 DEF ToggleInvent
  <2> HIDE DEF p
  <2> QED BY <2>1, <2>2, UpdatedCounts
<1>4. ASSUME NEW k \in {"rand", "inv", "ai"}, NEW d \in {-1, 1}, Step(k, d) PROVE Counted(page')
  <2> DEFINE n == Max({0, page[k] + d})
             p == [page EXCEPT ![k] = n]
  <2>1. page[k] \in Nat
    BY <1>1 DEF PageRecord
  <2>2. n \in Nat
    <3>1. page[k] + d \in Int
      BY <2>1
    <3>2. n \in {0, page[k] + d} /\ n >= 0
      <4>1. \E x \in {0, page[k] + d} : \A y \in {0, page[k] + d} : x >= y
        <5>1. CASE page[k] + d >= 0
          BY <3>1, <5>1
        <5>2. CASE page[k] + d < 0
          BY <3>1, <5>2
        <5> QED BY <3>1, <5>1, <5>2
      <4> QED BY <4>1 DEF Max
    <3> QED BY <3>1, <3>2
  <2> HIDE DEF n
  <2>3. p \in PageRecord
    <3>1. CASE k = "rand"
      BY <1>1, <2>2, <3>1 DEF PageRecord
    <3>2. CASE k = "inv"
      BY <1>1, <2>2, <3>2 DEF PageRecord
    <3>3. CASE k = "ai"
      BY <1>1, <2>2, <3>3 DEF PageRecord
    <3> QED BY <3>1, <3>2, <3>3
  <2>4. page' = Updated(p)
    BY <1>4 DEF Step, n
  <2> HIDE DEF p
  <2> QED BY <2>3, <2>4, UpdatedCounts
<1>5. ASSUME NEW m \in Modes, PickMode(m) PROVE Counted(page')
  <2>1. page' = [page EXCEPT !.mode = m]
    BY <1>5 DEF PickMode
  <2>2. /\ page'.checked = page.checked /\ page'.invent = page.invent /\ page'.rand = page.rand
        /\ page'.inv = page.inv /\ page'.ai = page.ai /\ page'.shown = page.shown
        /\ page' \in PageRecord
    BY <1>1, <2>1 DEF PageRecord
  <2> QED BY <2>2 DEF Counted
<1>6. ASSUME NEW g \in GoalBar, ToggleGoal(g) PROVE Counted(page')
  <2>1. PICK goals, hidden : /\ page' = [page EXCEPT !.goals = goals, !.hidden = hidden]
                             /\ goals = Toggled(page.goals, g) /\ hidden \in SUBSET DOMAIN cards
    BY <1>6 DEF ToggleGoal
  <2>2. goals \in SUBSET GoalBar
    BY <1>1, <2>1 DEF PageRecord, Toggled
  <2>3. /\ page'.checked = page.checked /\ page'.invent = page.invent /\ page'.rand = page.rand
        /\ page'.inv = page.inv /\ page'.ai = page.ai /\ page'.shown = page.shown
        /\ page' \in PageRecord
    BY <1>1, <2>1, <2>2 DEF PageRecord
  <2> QED BY <2>3 DEF Counted
<1>7. CASE Reload
  <2>1. page.checked \in SUBSET DOMAIN cards /\ page.invent \in SUBSET CatsOf(rows)
    BY <1>1 DEF PageRecord
  <2> QED BY <1>7, <2>1, FreshCounts DEF Reload
<1> QED BY <1>2, <1>3, <1>4, <1>5, <1>6, <1>7 DEF PageNext

(* The page while a session is composed; nothing of it once the batch runs.*)
PageIs ==
  /\ Composing => CatalogIs /\ Counted(page)
  /\ ~Composing => overlay = <<>>

LEMMA PageStarts == Init => PageIs
<1> SUFFICES ASSUME Init PROVE PageIs
  OBVIOUS
<1>1. CatalogIs
  BY DEF Init, PageInit, CatalogIs
<1>2. Counted(page)
  BY <1>1, FreshCounts DEF Init, PageInit
<1> QED BY <1>1, <1>2 DEF PageIs, Init, Composing

LEMMA BeginsABatch ==
  ASSUME NEW techs, NEW m, Begin(techs, m)
  PROVE  PageIs'
<1>1. Len(techs) \in 1..MaxTechs /\ batch' = [k \in 1..Len(techs) |-> techs[k].name]
  BY DEF Begin, NameList
<1>2. 1 \in DOMAIN batch'
  BY <1>1, MaxTechsNat
<1>3. batch' # <<>>
  BY <1>2
<1>4. overlay' = <<>>
  BY DEF Begin
<1> QED BY <1>3, <1>4 DEF PageIs, Composing

LEMMA PageStep == PageIs /\ [Next]_vars => PageIs'
<1> SUFFICES ASSUME PageIs, [Next]_vars PROVE PageIs'
  OBVIOUS
<1>1. ASSUME Composing, PageNext, UNCHANGED sessionVars PROVE PageIs'
  <2>1. CatalogIs /\ Counted(page')
    BY <1>1, ClickCounts DEF PageIs
  <2>2. UNCHANGED <<rows, overlay, cards, batch>>
    BY <1>1 DEF PageNext, sessionVars
  <2>3. CatalogIs'
    BY <2>1, <2>2 DEF CatalogIs
  <2>4. Counted(page)'
    BY <2>1, <2>2 DEF Counted, PageRecord, RandomPool, CheckedTech, NameOn, CatsOf, GoalBar
  <2> QED BY <1>1, <2>2, <2>3, <2>4 DEF PageIs, Composing
<1>2. CASE Copy
  BY <1>2, BeginsABatch DEF Copy
<1>3. CASE Chat
  BY <1>3, BeginsABatch DEF Chat
<1>4. ASSUME UNCHANGED <<rows, overlay, cards, page, batch>> PROVE PageIs'
  <2>1. CatalogIs' <=> CatalogIs
    BY <1>4 DEF CatalogIs
  <2>2. Counted(page)' <=> Counted(page)
    BY <1>4 DEF Counted, PageRecord, RandomPool, CheckedTech, NameOn, CatsOf, GoalBar
  <2> QED BY <1>4, <2>1, <2>2 DEF PageIs, Composing
<1>5. ASSUME NEW c \in Callers,
             \/ NextCall(c) \/ Writes(c) \/ Reported(c)
             \/ Resume(c) \/ CallDies(c) \/ HostDies(c) \/ StartOver(c)
      PROVE  UNCHANGED <<rows, overlay, cards, page, batch>>
  BY <1>5 DEF NextCall, Writes, Reported, Resume, CallDies, HostDies, StartOver, sessionVars
<1>6. CASE UNCHANGED vars
  BY <1>4, <1>6 DEF vars
<1> QED BY <1>1, <1>2, <1>3, <1>4, <1>5, <1>6 DEF Next

LEMMA PageHolds == Spec => []PageIs
BY PageStarts, PageStep, PTL DEF Spec

(* A prompt of the page asks for as many techniques as the page counts.    *)
LEMMA PromptCounts ==
  ASSUME CatalogIs, Counted(page), NEW drawn \in Samples(page), NEW p, p = Composed(page, drawn)
  PROVE  /\ Cardinality({p.techs[k].name : k \in DOMAIN p.techs})
              = Len(CheckedTech(page.checked)) + page.rand
         /\ p.inv = page.inv /\ p.invent = page.invent /\ p.ai = page.ai
<1> DEFINE picks == CheckedTech(page.checked)
           pool == RandomPool(page.checked)
           size == Min({page.rand, Cardinality(pool)})
           a == Len(picks)
           f == [k \in DOMAIN picks |-> cards[picks[k]].row]
           g == [k \in DOMAIN drawn |-> cards[drawn[k]].row]
           techs == f \o g
<1>1. cards \in Seq(Card)
  BY CatalogFacts
<1>2. \A i, j \in DOMAIN cards :
        ~cards[i].lead /\ ~cards[j].lead /\ Lower[NameOn(i)] = Lower[NameOn(j)] => i = j
  BY CatalogFacts
<1>3. page.checked \in SUBSET DOMAIN cards /\ page.rand \in Nat /\ page.rand <= Cardinality(pool)
  BY DEF Counted, PageRecord
<1>4. Cardinality(pool) \in Nat
  BY <1>1, PoolIs
<1>5. size = page.rand
  <2> HIDE DEF pool
  <2> DEFINE T == {page.rand, Cardinality(pool)}
  <2>1. T \subseteq Nat /\ T # {}
    BY <1>3, <1>4
  <2>2. Min(T) \in T /\ \A y \in T : Min(T) <= y
    <3> HIDE DEF T
    <3> QED BY <2>1, MinIs
  <2>3. Min(T) \in Nat /\ Min(T) <= page.rand /\ (Min(T) = page.rand \/ Min(T) = Cardinality(pool))
    BY <2>1, <2>2
  <2> HIDE DEF T
  <2>4. Min(T) = page.rand
    BY <1>3, <1>4, <2>3
  <2> QED BY <2>4 DEF T
<1>6. drawn \in [1..page.rand -> pool] /\ IsInjective(drawn)
  <2> HIDE DEF pool
  <2>1. drawn \in [1..size -> pool] /\ IsInjective(drawn)
    BY DEF Samples, pool
  <2> HIDE DEF size
  <2> QED BY <1>5, <2>1
<1>7. /\ a \in Nat /\ DOMAIN picks = 1..a
      /\ \A k \in 1..a : picks[k] \in page.checked
      /\ \A k, l \in 1..a : NameOn(picks[k]) = NameOn(picks[l]) => k = l
  BY <1>1, <1>3, CheckedIs
<1>8. \A i \in pool : /\ i \in DOMAIN cards /\ ~cards[i].lead
                      /\ \A j \in page.checked : NameOn(j) # NameOn(i)
  BY DEF RandomPool
<1>9. /\ p.techs = techs /\ p.inv = page.inv /\ p.invent = page.invent /\ p.ai = page.ai
  BY DEF Composed
<1> HIDE DEF picks, pool, size
<1>10. \A i \in DOMAIN cards : cards[i].row \in Techniques
  <2>1. \A i \in DOMAIN cards : cards[i] \in Card
    BY <1>1
  <2> QED BY <2>1 DEF Card
<1>11. f = [k \in 1..a |-> cards[picks[k]].row] /\ g = [k \in 1..page.rand |-> cards[drawn[k]].row]
  BY <1>6, <1>7
<1> HIDE DEF f, g, a
<1>12. f \in Seq(Techniques) /\ Len(f) = a
  <2>1. f \in [1..a -> Techniques]
    BY <1>3, <1>7, <1>10, <1>11
  <2> QED BY <1>7, <2>1, FunctionsAreLists
<1>13. g \in Seq(Techniques) /\ Len(g) = page.rand
  <2>1. g \in [1..page.rand -> Techniques]
    BY <1>6, <1>8, <1>10, <1>11
  <2> QED BY <1>3, <2>1, FunctionsAreLists
<1>14. DOMAIN techs = 1..a + page.rand
  BY <1>3, <1>7, <1>12, <1>13
<1>15. \A k \in 1..a : techs[k].name = NameOn(picks[k])
  <2>1. \A k \in 1..a : techs[k] = f[k]
    BY <1>3, <1>7, <1>12, <1>13
  <2> QED BY <1>11, <2>1 DEF NameOn
<1>16. \A k \in 1..page.rand : techs[a + k].name = NameOn(drawn[k])
  <2>1. \A k \in 1..page.rand : techs[a + k] = g[k]
    BY <1>3, <1>7, <1>12, <1>13
  <2> QED BY <1>11, <2>1 DEF NameOn
<1> DEFINE N == a + page.rand
<1>17. \A k \in 1..N : k \in 1..a \/ \E l \in 1..page.rand : k = a + l
  <2> SUFFICES ASSUME NEW k \in 1..N, k \notin 1..a PROVE \E l \in 1..page.rand : k = a + l
    OBVIOUS
  <2>1. k - a \in 1..page.rand /\ k = a + (k - a)
    BY <1>3, <1>7
  <2> QED BY <2>1
<1> HIDE DEF techs
<1>18. \A k, l \in 1..page.rand : NameOn(drawn[k]) = NameOn(drawn[l]) => k = l
  <2> SUFFICES ASSUME NEW k \in 1..page.rand, NEW l \in 1..page.rand, NameOn(drawn[k]) = NameOn(drawn[l])
               PROVE  k = l
    OBVIOUS
  <2>1. drawn[k] \in pool /\ drawn[l] \in pool
    BY <1>6
  <2>2. drawn[k] = drawn[l]
    BY <1>2, <1>8, <2>1
  <2> QED BY <1>6, <2>2 DEF IsInjective
<1>19. \A k \in 1..a, l \in 1..page.rand : NameOn(picks[k]) # NameOn(drawn[l])
  BY <1>6, <1>7, <1>8
<1>20. ASSUME NEW k \in 1..N, NEW l \in 1..N, techs[k].name = techs[l].name PROVE k = l
  <2>1. CASE k \in 1..a /\ l \in 1..a
    BY <1>7, <1>15, <1>20, <2>1
  <2>2. CASE k \in 1..a /\ l \notin 1..a
    <3> HIDE DEF N
    <3>1. PICK y \in 1..page.rand : l = a + y
      BY <1>17, <2>2
    <3> QED BY <1>15, <1>16, <1>19, <1>20, <2>2, <3>1
  <2>3. CASE k \notin 1..a /\ l \in 1..a
    <3> HIDE DEF N
    <3>1. PICK x \in 1..page.rand : k = a + x
      BY <1>17, <2>3
    <3> QED BY <1>15, <1>16, <1>19, <1>20, <2>3, <3>1
  <2>4. CASE k \notin 1..a /\ l \notin 1..a
    <3> HIDE DEF N
    <3>1. PICK x \in 1..page.rand : k = a + x
      BY <1>17, <2>4
    <3>2. PICK y \in 1..page.rand : l = a + y
      BY <1>17, <2>4
    <3>3. x = y
      BY <1>16, <1>18, <1>20, <3>1, <3>2
    <3> QED BY <3>1, <3>2, <3>3
  <2> QED BY <2>1, <2>2, <2>3, <2>4
<1>21. N \in Nat
  BY <1>3, <1>7
<1> DEFINE names == {techs[k].name : k \in 1..N}
           h == [k \in 1..N |-> techs[k].name]
<1> HIDE DEF N
<1>22. h \in Surjection(1..N, names) /\ h \in Injection(1..N, names)
  <2>1. h \in [1..N -> names] /\ \A x \in names : \E k \in 1..N : h[k] = x
    OBVIOUS
  <2>2. \A k, l \in 1..N : h[k] = h[l] => k = l
    BY <1>20
  <2> HIDE DEF h, names
  <2> QED BY <2>1, <2>2 DEF Surjection, Injection, IsInjective
<1>23. IsFiniteSet(1..N) /\ Cardinality(1..N) = N
  BY <1>21, FS_Interval
<1>24. Cardinality(names) = N
  <2> HIDE DEF h, names
  <2> QED BY <1>22, <1>23, FS_Surjection
<1> QED BY <1>9, <1>14, <1>24 DEF N, a, picks, techs

(* The page counts each technique once: what it shows beside the copy      *)
(* button is what the prompt asks for.                                     *)
THEOREM PageTotalIsHonest == Spec => []TotalIsHonest
<1>1. PageIs => TotalIsHonest
  <2> SUFFICES ASSUME PageIs, Composing, NEW p \in Prompts
               PROVE  page.shown.total =
                        Cardinality({p.techs[k].name : k \in DOMAIN p.techs}) + p.inv + Cardinality(p.invent) + p.ai
    BY DEF TotalIsHonest
  <2>1. CatalogIs /\ Counted(page)
    BY DEF PageIs
  <2>2. PICK drawn \in Samples(page) : p = Composed(page, drawn)
    BY DEF Prompts
  <2>3. Cardinality({p.techs[k].name : k \in DOMAIN p.techs}) = Len(CheckedTech(page.checked)) + page.rand
    BY <2>1, <2>2, PromptCounts
  <2>4. p.inv = page.inv /\ p.invent = page.invent /\ p.ai = page.ai
    BY <2>1, <2>2, PromptCounts
  <2>5. page.shown.total = Len(CheckedTech(page.checked)) + page.rand + page.inv + Cardinality(page.invent) + page.ai
    BY <2>1 DEF Counted
  <2> QED BY <2>3, <2>4, <2>5
<1> QED BY <1>1, PageHolds, PTL

(* The last of the overlay's rows with a name is the row of that name the  *)
(* page and show have, and the only one.                                   *)
THEOREM OverlayRetunes == Spec => []OverlayWins
<1>1. PageIs => OverlayWins
  <2> SUFFICES ASSUME PageIs, NEW k \in DOMAIN overlay,
                      \A j \in DOMAIN overlay : Lower[overlay[j].name] = Lower[overlay[k].name] => j <= k
               PROVE  /\ Show(rows, overlay[k].name) = {overlay[k]}
                      /\ {i \in DOMAIN cards : ~cards[i].lead /\ Lower[NameOn(i)] = Lower[overlay[k].name]}
                           = {i \in DOMAIN cards : ~cards[i].lead /\ cards[i].row = overlay[k]}
                      /\ Cardinality({i \in DOMAIN cards : ~cards[i].lead /\ cards[i].row = overlay[k]}) = 1
    BY DEF OverlayWins
  <2> DEFINE name == overlay[k].name
  <2>1. CatalogIs
    <3>1. overlay # <<>>
      OBVIOUS
    <3> QED BY <3>1 DEF PageIs
  <2>2. rows \in Seq(Techniques) /\ LowApart(rows)
    BY <2>1, CatalogFacts
  <2>3. PICK p \in DOMAIN rows : rows[p] = overlay[k]
    BY <2>1, CatalogFacts
  <2>4. Sought(rows, name) = {p}
    BY <2>2, <2>3 DEF Sought, LowApart
  <2>5. Show(rows, name) = {overlay[k]}
    <3>1. Max(Sought(rows, name)) \in Sought(rows, name)
      BY <2>2, <2>4, SoughtIs
    <3>2. Max(Sought(rows, name)) = p
      BY <2>4, <3>1
    <3> QED BY <2>3, <2>4, <3>2 DEF Show
  <2>6. PICK h \in DOMAIN cards : ~cards[h].lead /\ cards[h].row = rows[p]
    BY <2>1, CatalogFacts
  <2>7. \A g \in DOMAIN cards : ~cards[g].lead /\ Lower[NameOn(g)] = Lower[NameOn(h)] => g = h
    BY <2>1, <2>6, CatalogFacts
  <2>8. NameOn(h) = name
    BY <2>3, <2>6 DEF NameOn
  <2>9. {i \in DOMAIN cards : ~cards[i].lead /\ Lower[NameOn(i)] = Lower[name]} = {h}
    BY <2>6, <2>7, <2>8
  <2>10. {i \in DOMAIN cards : ~cards[i].lead /\ cards[i].row = overlay[k]} = {h}
    <3>1. \A g \in DOMAIN cards : cards[g].row = overlay[k] => NameOn(g) = name
      BY DEF NameOn
    <3> QED BY <2>3, <2>6, <2>7, <2>8, <3>1
  <2>11. Cardinality({h}) = 1
    BY FS_Singleton
  <2> QED BY <2>5, <2>9, <2>10, <2>11
<1> QED BY <1>1, PageHolds, PTL
=============================================================================
