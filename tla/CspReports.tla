----------------------------- MODULE CspReports -----------------------------
(***************************************************************************)
(* The CSP report endpoint (SafeWebCore/Infrastructure,                    *)
(* CspReportMiddleware) and the dispatcher it tells of every violation     *)
(* (SecurityEventDispatcher).  Report sinks are awaited one by one on the  *)
(* request; the event is emitted without being awaited, so the dispatcher  *)
(* runs on the request's thread up to the first sink whose task is not yet *)
(* complete, and from there on beside the request.                         *)
(*                                                                         *)
(* A sink of either kind may complete, throw, or never answer.  The client *)
(* may disconnect at any time, which cancels the token all of them are     *)
(* handed.                                                                 *)
(***************************************************************************)
EXTENDS Naturals, Sequences, FiniteSets

CONSTANTS
  Requests,     \* the requests that reach the middleware
  ReportSinks,  \* how many ICspReportSink are registered
  EventSinks    \* how many ISecurityEventSink

ASSUME CountsAssumption ==
  /\ IsFiniteSet(Requests)
  /\ ReportSinks \in Nat
  /\ EventSinks \in Nat

(* What a request carries: not a POST to /csp-report; a body that the      *)
(* parser turns down or whose report is no object; a body whose root is an *)
(* array or a scalar; a report that names no directive; a good one.        *)
Contents == {"other", "malformed", "array", "undirected", "valid"}

VARIABLES
  pc,              \* where each request is
  content,         \* what it carries
  aborted,         \* whether its RequestAborted is cancelled
  response,        \* the status code it gets
  written,         \* the requests whose report each ICspReportSink stored
  sinkAt,          \* how many of these have returned to the request
  task,            \* the state of the task EmitAsync returned
  results,         \* what became of the event at each ISecurityEventSink
  cspViolations, sinkFailures  \* the two counters

reportVars == <<pc, content, aborted, response, written, sinkAt, task, results,
                cspViolations, sinkFailures>>
emission == <<task, results, sinkFailures>>

Labels == {"idle", "parse", "sinks", "emitting", "ended"}

NoResponse == 0
Answers == {NoResponse, 204, 400, 404, 500}

(* EmitAsync runs on the thread of the request, awaits a sink, or goes on  *)
(* after that on a thread of the pool.                                     *)
TaskStates == {"none", "inline", "awaiting", "resumed", "completed"}
Results == {"received", "failed"}

Goto(r, label) == pc' = [pc EXCEPT ![r] = label]
Answer(r, status) ==
  /\ response' = [response EXCEPT ![r] = status]
  /\ Goto(r, "ended")

-----------------------------------------------------------------------------
ReportInit ==
  /\ pc = [r \in Requests |-> "idle"]
  /\ content = [r \in Requests |-> "other"]
  /\ aborted = [r \in Requests |-> FALSE]
  /\ response = [r \in Requests |-> NoResponse]
  /\ written = [k \in 1 .. ReportSinks |-> {}]
  /\ sinkAt = [r \in Requests |-> 0]
  /\ task = [r \in Requests |-> "none"]
  /\ results = [r \in Requests |-> <<>>]
  /\ cspViolations = 0
  /\ sinkFailures = 0

Arrive(r) ==
  /\ pc[r] = "idle"
  /\ \E c \in Contents : content' = [content EXCEPT ![r] = c]
  /\ Goto(r, "parse")
  /\ UNCHANGED <<aborted, response, written, sinkAt, emission, cspViolations>>

(* The client goes away. *)
Disconnect(r) ==
  /\ pc[r] # "idle"
  /\ ~aborted[r]
  /\ aborted' = [aborted EXCEPT ![r] = TRUE]
  /\ UNCHANGED <<pc, content, response, written, sinkAt, emission, cspViolations>>

(* Any other request goes to the next middleware, which answers for        *)
(* itself; here it finds nothing.                                          *)
PassOn(r) ==
  /\ pc[r] = "parse"
  /\ content[r] = "other"
  /\ Answer(r, 404)
  /\ UNCHANGED <<content, aborted, written, sinkAt, emission, cspViolations>>

(* ParseReportAsync returns null, or no directive is named. *)
Reject(r) ==
  /\ pc[r] = "parse"
  /\ content[r] \in {"malformed", "undirected"}
  /\ Answer(r, 400)
  /\ UNCHANGED <<content, aborted, written, sinkAt, emission, cspViolations>>

(* ParseReportAsync throws what it does not catch: TryGetProperty on a     *)
(* root that is no object, or the cancellation.  The host answers.         *)
ParseThrows(r) ==
  /\ pc[r] = "parse"
  /\ content[r] # "other"
  /\ content[r] = "array" \/ aborted[r]
  /\ Answer(r, 500)
  /\ UNCHANGED <<content, aborted, written, sinkAt, emission, cspViolations>>

Accept(r) ==
  /\ pc[r] = "parse"
  /\ content[r] = "valid"
  /\ Goto(r, "sinks")
  /\ UNCHANGED <<content, aborted, response, written, sinkAt, emission, cspViolations>>

(* The next report sink stores the report. *)
SinkWrites(r) ==
  /\ pc[r] = "sinks"
  /\ sinkAt[r] < ReportSinks
  /\ written' = [written EXCEPT ![sinkAt[r] + 1] = @ \cup {r}]
  /\ sinkAt' = [sinkAt EXCEPT ![r] = @ + 1]
  /\ UNCHANGED <<pc, content, aborted, response, emission, cspViolations>>

(* It throws, before or after it has stored the report, and the request    *)
(* ends there.                                                             *)
SinkThrows(r) ==
  /\ pc[r] = "sinks"
  /\ sinkAt[r] < ReportSinks
  /\ \E stored \in BOOLEAN :
       written' = IF stored THEN [written EXCEPT ![sinkAt[r] + 1] = @ \cup {r}]
                  ELSE written
  /\ Answer(r, 500)
  /\ UNCHANGED <<content, aborted, sinkAt, emission, cspViolations>>

(* EmitAsync is called: it begins on the thread of the request. *)
Emit(r) ==
  /\ pc[r] = "sinks"
  /\ sinkAt[r] = ReportSinks
  /\ task' = [task EXCEPT ![r] = "inline"]
  /\ Goto(r, "emitting")
  /\ UNCHANGED <<content, aborted, response, written, sinkAt, results,
                 cspViolations, sinkFailures>>

(* Mutant of Detached: the task is awaited. *)
Awaited(r) == task[r] = "completed"

(* EmitAsync has returned a task, complete or not, that nobody looks at. *)
Detached(r) == task[r] # "inline"

Acknowledge(r) ==
  /\ pc[r] = "emitting"
  /\ Detached(r)
  /\ cspViolations' = cspViolations + 1
  /\ Answer(r, 204)
  /\ UNCHANGED <<content, aborted, written, sinkAt, emission>>

-----------------------------------------------------------------------------
(* SecurityEventDispatcher.EmitAsync *)

Running(r) == task[r] \in {"inline", "resumed"}
MoreSinks(r) == Len(results[r]) < EventSinks

(* The sink at hand answers at once, or its task ends; either way the loop *)
(* goes on, and it does not come back to the thread it left.               *)
Concludes(r, result) ==
  /\ Running(r) \/ task[r] = "awaiting"
  /\ MoreSinks(r)
  /\ results' = [results EXCEPT ![r] = Append(@, result)]
  /\ task' = [task EXCEPT ![r] = IF @ = "awaiting" THEN "resumed" ELSE @]
  /\ UNCHANGED <<pc, content, aborted, response, written, sinkAt, cspViolations>>

SinkReceives(r) == Concludes(r, "received") /\ UNCHANGED sinkFailures

(* Mutant of SinkFails: the failure ends the loop. *)
SinkFailsAll(r) ==
  /\ Running(r) \/ task[r] = "awaiting"
  /\ MoreSinks(r)
  /\ results' = [results EXCEPT ![r] = Append(@, "failed")]
  /\ sinkFailures' = sinkFailures + 1
  /\ task' = [task EXCEPT ![r] = "completed"]
  /\ UNCHANGED <<pc, content, aborted, response, written, sinkAt, cspViolations>>

(* The sink throws, its task fails or is cancelled. *)
SinkFails(r) == Concludes(r, "failed") /\ sinkFailures' = sinkFailures + 1

(* The sink has returned a task that is not complete. *)
SinkPends(r) ==
  /\ Running(r)
  /\ MoreSinks(r)
  /\ task' = [task EXCEPT ![r] = "awaiting"]
  /\ UNCHANGED <<pc, content, aborted, response, written, sinkAt, results,
                 cspViolations, sinkFailures>>

EmitEnds(r) ==
  /\ Running(r)
  /\ ~MoreSinks(r)
  /\ task' = [task EXCEPT ![r] = "completed"]
  /\ UNCHANGED <<pc, content, aborted, response, written, sinkAt, results,
                 cspViolations, sinkFailures>>

-----------------------------------------------------------------------------
AllEnded ==
  /\ \A r \in Requests : pc[r] = "ended" /\ task[r] \in {"none", "completed"}
  /\ UNCHANGED reportVars

(* What the request's thread does with the report. *)
Handle(r) ==
  \/ PassOn(r) \/ Reject(r) \/ ParseThrows(r) \/ Accept(r)
  \/ SinkWrites(r) \/ SinkThrows(r) \/ Emit(r) \/ Acknowledge(r)

(* What a thread does in EmitAsync. *)
Dispatch(r) == SinkReceives(r) \/ SinkFails(r) \/ SinkPends(r) \/ EmitEnds(r)

ReportNext ==
  \/ \E r \in Requests : Arrive(r) \/ Disconnect(r) \/ Handle(r) \/ Dispatch(r)
  \/ AllEnded

ReportSpec == ReportInit /\ [][ReportNext]_reportVars

(* A thread that is not waiting for a sink's task goes on, and what a sink *)
(* does before it returns its task comes to an end.  Nothing is assumed of *)
(* the tasks themselves.                                                   *)
FairReportSpec ==
  /\ ReportSpec
  /\ \A r \in Requests :
       /\ WF_reportVars(pc[r] = "emitting" /\ Handle(r))
       /\ WF_reportVars(Running(r) /\ Dispatch(r))

-----------------------------------------------------------------------------
ReportTypeOK ==
  /\ pc \in [Requests -> Labels]
  /\ content \in [Requests -> Contents]
  /\ aborted \in [Requests -> BOOLEAN]
  /\ response \in [Requests -> Answers]
  /\ written \in [1 .. ReportSinks -> SUBSET Requests]
  /\ sinkAt \in [Requests -> 0 .. ReportSinks]
  /\ task \in [Requests -> TaskStates]
  /\ results \in [Requests -> Seq(Results)]
  /\ cspViolations \in Nat
  /\ sinkFailures \in Nat

(* The status code tells the truth (lines 71-107): a 204 is sent only when *)
(* every sink has stored the report and its event is on its way, and after *)
(* a 400 no sink and no event sink ever hears of it.                       *)
AnswersAreTrue ==
  \A r \in Requests :
    /\ response[r] = 204 =>
         task[r] # "none" /\ \A k \in 1 .. ReportSinks : r \in written[k]
    /\ response[r] = 400 =>
         task[r] = "none" /\ \A k \in 1 .. ReportSinks : r \notin written[k]

(* What keeps that inductive: what a request has done where it is. *)
Progress ==
  \A r \in Requests :
    /\ pc[r] # "ended" => response[r] = NoResponse
    /\ pc[r] \in {"idle", "parse"} => \A k \in 1 .. ReportSinks : r \notin written[k]
    /\ pc[r] \in {"idle", "parse", "sinks"} => task[r] = "none"
    /\ pc[r] = "emitting" => sinkAt[r] = ReportSinks /\ task[r] # "none"
    /\ \A k \in 1 .. sinkAt[r] : r \in written[k]

ReportInv == ReportTypeOK /\ Progress /\ AnswersAreTrue

FailuresOf(r) == {k \in DOMAIN results[r] : results[r][k] = "failed"}

Failures == UNION {{<<r, k>> : k \in FailuresOf(r)} : r \in Requests}

(* The counters are exact at every moment, not only at rest: as many       *)
(* violations as reports acknowledged, as many failures as sinks that did  *)
(* not take an event, in the background and after a disconnect too.        *)
CountersReconcile ==
  /\ cspViolations = Cardinality({r \in Requests : response[r] = 204})
  /\ sinkFailures = Cardinality(Failures)

(* What SecurityEventDispatcher (line 66) says: telemetry must never break *)
(* the response.  A report all sinks have stored is acknowledged although  *)
(* event sinks throw, or never complete their tasks.                       *)
TelemetryNeverHolds ==
  \A r \in Requests : pc[r] = "emitting" ~> response[r] = 204

(* Every event sink gets the event of every acknowledged report, provided  *)
(* the tasks of the sinks end: one that fails does not end the delivery to *)
(* the sinks registered after it (remarks, lines 14-16).                   *)
EventsReachEverySink ==
  (\A r \in Requests : WF_reportVars(task[r] = "awaiting" /\ Dispatch(r)))
    => \A r \in Requests : response[r] = 204 ~> Len(results[r]) = EventSinks
=============================================================================
