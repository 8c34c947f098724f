------------------------------ MODULE Reporter ------------------------------
(***************************************************************************)
(* A GraphiteReporter or a ConsoleReporter (src/reporting) on the timer    *)
(* and the event loop of their base class (periodic_reporter.cc),          *)
(* reporting the metrics of a MetricRegistry that other threads fill       *)
(* meanwhile.                                                              *)
(*                                                                         *)
(* One client thread starts, stops and destroys the reporter; the loop     *)
(* thread runs the timer, the functions posted to it and the callbacks of  *)
(* the stream, one at a time.  The event base and the stream are the wte   *)
(* library, which is not part of the repository, modelled from its use: a  *)
(* function is run at once when the loop is not running; the loop ends     *)
(* when no timer, connect or write is pending; a connect or a write calls  *)
(* back once, and not after its stream was closed or replaced.             *)
(***************************************************************************)
EXTENDS MetricRegistry

CONSTANTS
    MaxStarts,  \* bound on the calls of start
    MaxWrites,  \* bound on the writes pending when the timer fires
    StopsFirst  \* the client calls stop before it destroys the reporter

ASSUME ReporterAssumption == MaxStarts \in Nat /\ MaxWrites \in Nat \ {0} /\ StopsFirst \in BOOLEAN

VARIABLES
    reporter,   \* graphite or console
    state,      \* state_
    stream,     \* stream_: none, connecting, open or closed
    writes,     \* writes the stream has not called back for
    running,    \* running_
    timer,      \* timeout_ is registered
    loop,       \* the loop thread: none, running or ended
    lpc,        \* what the loop thread is doing
    posted,     \* the function posted to the loop
    main,       \* what the client thread is doing
    starts,     \* calls of start
    object,     \* whole, half (the derived part is destroyed) or gone
    report,     \* the metrics collected for the report
    due         \* the metrics sites had bound when the report began

reporterVars == <<reporter, state, stream, writes, running, timer, loop, lpc, posted, main, starts, object, report, due>>
vars == <<registryVars, reporterVars>>

-----------------------------------------------------------------------------
(* The client thread *)

\* start: the timer, the loop thread, and a function to see it come up.
Start ==
    /\ main = "idle" /\ object = "whole" /\ ~running
    /\ starts < MaxStarts
    /\ starts' = starts + 1
    /\ running' = TRUE
    /\ timer' = TRUE
    /\ loop' = "running"
    /\ posted' = "nothing"
    /\ main' = "wait"
    /\ UNCHANGED <<registryVars, reporter, state, stream, writes, lpc, object, report, due>>

\* stop, called by the client or by ~PeriodicReporter: unregister the timer on
\* the loop, or here if there is none ...
StopBody ==
    IF loop = "running"
    THEN posted' = "unregister" /\ main' = "wait" /\ UNCHANGED timer
    ELSE timer' = FALSE /\ main' = "join" /\ UNCHANGED posted

Stop ==
    /\ main = "idle" /\ object = "whole"
    /\ StopBody
    /\ UNCHANGED <<registryVars, reporter, state, stream, writes, running, loop, lpc, starts, object, report, due>>

\* ... then wait for the loop to end.
Join ==
    /\ main = "join"
    /\ loop # "running"
    /\ running' = FALSE
    /\ main' = "idle"
    /\ object' = IF object = "half" THEN "gone" ELSE object
    /\ UNCHANGED <<registryVars, reporter, state, stream, writes, timer, loop, lpc, posted, starts, report, due>>

\* ~GraphiteReporter closes the stream; then ~PeriodicReporter stops.
Destroy ==
    /\ main = "idle" /\ object = "whole"
    /\ StopsFirst => ~running
    /\ stream' = IF stream = "none" THEN "none" ELSE "closed"
    /\ writes' = 0
    /\ object' = "half"
    /\ StopBody
    /\ UNCHANGED <<registryVars, reporter, state, running, loop, lpc, starts, report, due>>

-----------------------------------------------------------------------------
(* The loop thread *)

Idling == loop = "running" /\ lpc = "idle"

\* Mutant: the timer stays registered.
Registered_Still(f) == timer

Registered(f) == timer /\ f # "unregister"

RunPosted ==
    /\ Idling /\ posted # "none"
    /\ timer' = Registered(posted)
    /\ main' = IF posted = "unregister" THEN "join" ELSE "idle"
    /\ posted' = "none"
    /\ UNCHANGED <<registryVars, reporter, state, stream, writes, running, loop, lpc, starts, object, report, due>>

\* expired: the timer is registered again, then report runs.
Expired ==
    /\ Idling /\ timer /\ writes < MaxWrites
    /\ lpc' = "report"
    /\ UNCHANGED <<registryVars, reporter, state, stream, writes, running, timer, loop, posted, main, starts, object, report, due>>

\* report without a connection: connect, or leave it to the connect under way.
ReportConnects ==
    /\ lpc = "report" /\ reporter = "graphite" /\ state # "CONNECTED"
    /\ lpc' = "idle"
    /\ state' = "CONNECTING"
    /\ stream' = IF state = "DISCONNECTED" THEN "connecting" ELSE stream
    /\ UNCHANGED <<registryVars, reporter, writes, running, timer, loop, posted, main, starts, object, report, due>>

ReportBegins ==
    /\ lpc = "report"
    /\ reporter = "graphite" => state = "CONNECTED"
    /\ lpc' = "counter"
    /\ report' = {}
    /\ due' = {var[s] : s \in Site} \ {Null}
    /\ UNCHANGED <<registryVars, reporter, state, stream, writes, running, timer, loop, posted, main, starts, object>>

\* Mutant: toMap returns one entry of several.
ToMap_One(k) == LET S == Range(metrics[k]) \ {Null}
                IN  IF S = {} THEN S ELSE {CHOOSE m \in S : TRUE}

\* A copy of the map of one kind.
ToMap(k) == Range(metrics[k]) \ {Null}

\* counters(), timers(), meters(): the copy needs the mutex, and each metric of
\* the copy is read.
Gather(next) ==
    /\ lpc \in Kind
    /\ Free(lpc)
    /\ report' = report \cup ToMap(lpc)
    /\ lpc' = next
    /\ UNCHANGED <<registryVars, reporter, state, stream, writes, running, timer, loop, posted, main, starts, object, due>>

Following(k, last) == CASE k = "counter" -> "timer" [] k = "timer" -> "meter" [] k = "meter" -> last

\* The three sections of each report.
WriteMetrics == reporter = "graphite" /\ Gather(Following(lpc, "write"))
PrintMetrics == reporter = "console" /\ Gather(Following(lpc, "printed"))

Reported ==
    /\ lpc' = "idle"
    /\ report' = {} /\ due' = {}

Write ==
    /\ lpc = "write"
    /\ writes' = writes + 1
    /\ Reported
    /\ UNCHANGED <<registryVars, reporter, state, stream, running, timer, loop, posted, main, starts, object>>

Printed ==
    /\ lpc = "printed"
    /\ Reported
    /\ UNCHANGED <<registryVars, reporter, state, stream, writes, running, timer, loop, posted, main, starts, object>>

\* ConnectCallback.
ConnectComplete ==
    /\ Idling /\ stream = "connecting"
    /\ stream' = "open"
    /\ state' = "CONNECTED"
    /\ lpc' = "report"
    /\ UNCHANGED <<registryVars, reporter, writes, running, timer, loop, posted, main, starts, object, report, due>>

\* Mutant: an error leaves the state as it is.
Failed_Kept == state

\* state_ after a failed connect or write: the next report connects.
Failed == "DISCONNECTED"

ConnectError ==
    /\ Idling /\ stream = "connecting"
    /\ stream' = "closed"
    /\ state' = Failed
    /\ UNCHANGED <<registryVars, reporter, writes, running, timer, loop, lpc, posted, main, starts, object, report, due>>

\* WriteCallback.
WriteComplete ==
    /\ Idling /\ writes > 0
    /\ writes' = writes - 1
    /\ UNCHANGED <<registryVars, reporter, state, stream, running, timer, loop, lpc, posted, main, starts, object, report, due>>

WriteError ==
    /\ Idling /\ writes > 0
    /\ stream' = "closed"
    /\ writes' = 0
    /\ state' = Failed
    /\ UNCHANGED <<registryVars, reporter, running, timer, loop, lpc, posted, main, starts, object, report, due>>

\* UNTIL_EMPTY.
LoopEnds ==
    /\ Idling /\ ~timer /\ posted = "none" /\ stream # "connecting" /\ writes = 0
    /\ loop' = "ended"
    /\ UNCHANGED <<registryVars, reporter, state, stream, writes, running, timer, lpc, posted, main, starts, object, report, due>>

-----------------------------------------------------------------------------

Init ==
    /\ RegistryInit
    /\ reporter \in {"graphite", "console"}
    /\ state = "DISCONNECTED" /\ stream = "none" /\ writes = 0
    /\ running = FALSE /\ timer = FALSE /\ loop = "none" /\ lpc = "idle" /\ posted = "none"
    /\ main = "idle" /\ starts = 0 /\ object = "whole"
    /\ report = {} /\ due = {}

Connected == ConnectComplete \/ ConnectError
Written == WriteComplete \/ WriteError
Reports == ReportConnects \/ ReportBegins \/ WriteMetrics \/ PrintMetrics \/ Write \/ Printed

\* The client destroys the reporter before the registry it reports on.
Next ==
    \/ RegistryNext /\ UNCHANGED reporterVars
    \/ object = "gone" /\ DestroyRegistry /\ UNCHANGED reporterVars
    \/ Start \/ Stop \/ Join \/ Destroy
    \/ RunPosted \/ Expired \/ Reports \/ Connected \/ Written \/ LoopEnds

Spec == Init /\ [][Next]_vars

\* Threads are scheduled, the event loop serves every source of events again
\* and again, and the network answers a connect and a write in some way.
FairSpec ==
    /\ Spec
    /\ \A t \in Thread : WF_vars(MacroStep(t) /\ UNCHANGED reporterVars)
    /\ WF_vars(Join) /\ WF_vars(Reports) /\ WF_vars(LoopEnds)
    /\ SF_vars(RunPosted) /\ SF_vars(Expired) /\ SF_vars(Connected) /\ SF_vars(Written)

-----------------------------------------------------------------------------
(* Properties *)

TypeOK ==
    /\ state \in {"DISCONNECTED", "CONNECTING", "CONNECTED"}
    /\ stream \in {"none", "connecting", "open", "closed"}
    /\ writes \in 0..MaxWrites
    /\ timer \in BOOLEAN /\ running \in BOOLEAN
    /\ loop \in {"none", "running", "ended"}
    /\ lpc \in Kind \cup {"idle", "report", "write", "printed"}
    /\ posted \in {"none", "nothing", "unregister"}
    /\ main \in {"idle", "wait", "join"} /\ (main = "wait" <=> posted # "none")
    /\ object \in {"whole", "half", "gone"}
    /\ report \subseteq Metric /\ due \subseteq Metric
    /\ th \in [Thread -> [pc : {"idle", "once", "find", "create", "unlock", "assign", "initialized", "use"},
                          site : Site \cup {Null}, ret : Metric \cup {Null}]]

\* The asserts of connect and of the callbacks: a connect is answered in state
\* CONNECTING and a write in state CONNECTED, whatever reports, errors and
\* restarts came between; and stream_ is open when a report writes to it.
AssertsHold ==
    /\ TypeOK
    /\ stream = "connecting" => state = "CONNECTING"
    /\ writes > 0 => state = "CONNECTED"
    /\ lpc = "write" => stream = "open"

\* A report runs on a reporter that is whole: the destructor of its class has
\* not begun while the loop's thread is in report(), so what ~PeriodicReporter
\* stops is no longer running (graphite_reporter.cc:118, periodic_reporter.cc:104).
ReportsWhole == lpc # "idle" => object = "whole"

\* A report has every metric that a call site had bound when it began, and
\* only metrics that exist.
ReportComplete ==
    lpc \in {"write", "printed"} => due \subseteq report /\ report \subseteq allocated

\* stop and start return: neither is kept waiting by a timer that re-registers
\* itself, by writes under way or by a connection that keeps failing.
CallsReturn == main # "idle" ~> main = "idle"

\* A started reporter that lost its connection, or failed to get one, tries
\* again or is stopped.
Reconnects ==
    (timer /\ stream = "closed") ~> (stream = "connecting" \/ ~timer)
=============================================================================
