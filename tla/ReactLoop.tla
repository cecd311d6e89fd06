------------------------------- MODULE ReactLoop -------------------------------
(***************************************************************************)
(* One run of the browser agent: run_react_loop takes turns, in each turn  *)
(* the model calls a tool and then reports its state ("brain"), and a      *)
(* report that claims completion is verified.  The loop counts turns,      *)
(* turns without progress, answers without a tool call, failures per tool  *)
(* and rejected completions, and warns of loops.                           *)
(*                                                                         *)
(* What the language models answer and what tools return is left open; a   *)
(* tool's output is its ok flag and the screen it shows.  The wall clock   *)
(* may run out at the start of any turn.                                   *)
(***************************************************************************)
EXTENDS Naturals, Sequences, FiniteSets

CONSTANTS
  Tools,          \* the tools called
  Args,           \* arguments of a call
  SensitiveArgs,  \* those a sensitive pattern of the guardrails matches
  Screens,        \* tool outputs that differ
  None,
  MaxTurns,       \* cfg.max_turns
  MaxNoProgress,  \* cfg.max_no_progress_steps
  MaxRetries,     \* cfg.max_retries
  MaxVerifications, \* cfg.max_verification_retries
  WindowSize,     \* LoopDetector.window_size
  MaxCalls        \* bound: tool calls in one response

ASSUME LimitsAssumption ==
  {MaxTurns, MaxNoProgress, MaxRetries, MaxVerifications,
   WindowSize, MaxCalls} \subseteq Nat
\* With 0 a refused call ends the run with a KeyError in a log message.
ASSUME RetriesAssumption == MaxRetries > 0
ASSUME NoneAssumption == None \notin Screens \cup Args
ASSUME ArgsAssumption == SensitiveArgs \subseteq Args
ASSUME ToolsAssumption == "no_tool" \notin Tools

VARIABLES
  pc,            \* "turn", "act", "called" or "ended"
  step,          \* the turn
  lastProgress,  \* last_progress_step
  noCalls,       \* consecutive_no_tool_calls
  blocked,       \* blocked_tools
  retries,       \* memory.retry_counts
  recent,        \* ok of the last five memory.tool_calls
  observed,      \* memory.tool_calls has a call of an observation tool
  attempts,      \* verification_attempts
  reflection,    \* state.reflection, by its origin
  warnings,      \* LoopDetector.warning_count up to 3; 0 without a warning
  window,        \* LoopDetector.actions and .screens
  calls,         \* number of results of the turn
  primary,       \* the last of them, None when there is none
  screen,        \* state.latest_observation
  events,        \* terminal events in the episodic memory
  outcome,       \* the TaskResult, by what ended the run
  okCalls        \* history: turn of the last tool call that succeeded

counters == <<step, lastProgress, noCalls, attempts>>
memoryVars == <<blocked, retries, recent, observed, okCalls>>
detectorVars == <<warnings, window>>
turnVars == <<calls, primary>>
endVars == <<events, outcome>>
vars == <<pc, counters, memoryVars, detectorVars, reflection, turnVars, screen, endVars>>

-----------------------------------------------------------------------------
(* Tool classes. *)

INFO_ONLY_TOOLS ==
  {"snapshot", "web_snapshot", "snapshot_show", "snapshot_actionable_tree",
   "snapshot_search", "web_refs", "web_query", "find_by_text", "describe",
   "get_page_source", "webview_url", "webview_title", "screenshot", "web_text",
   "web_eval"}

LOOP_REPEAT_EXEMPT ==
  {"snapshot", "web_snapshot", "snapshot_actionable_tree", "screenshot"}

\* What the completion guard takes for an observation.
OBSERVATION_TOOLS ==
  {"snapshot", "web_snapshot", "screenshot", "get_page_source", "snapshot_show",
   "snapshot_actionable_tree", "snapshot_search", "web_refs", "web_query",
   "webview_url", "webview_title", "describe", "find_by_text", "get_text"}

\* What the guardrails take for one: never sensitive.
SAFE_TOOLS ==
  {"snapshot", "web_snapshot", "snapshot_actionable_tree", "describe",
   "find_by_text", "screenshot", "get_page_source", "webview_url",
   "webview_title", "list_containers", "find_container", "get_current_app",
   "list_apps", "get_device_info", "is_locked", "get_orientation", "get_text",
   "get_driver_status", "list_contexts", "get_context", "webview_status",
   "assert_visible"}

BLOCKED_TOOLS == {"set_orientation"}

Acting == Tools \ INFO_ONLY_TOOLS

-----------------------------------------------------------------------------
(* Memory of the run. *)

Keep(s, n) == SubSeq(s, IF Len(s) > n THEN Len(s) - n + 1 ELSE 1, Len(s))

\* memory.tool_calls.append
Recorded(t, ok) ==
  /\ recent' = Keep(Append(recent, ok), 5)
  /\ observed' = (observed \/ t \in OBSERVATION_TOOLS)
  /\ okCalls' = IF ok THEN step ELSE okCalls

Init ==
  /\ pc = "turn" /\ step = 0 /\ lastProgress = 0 /\ noCalls = 0 /\ attempts = 0
  /\ blocked = {} /\ retries = [t \in Tools |-> 0]
  /\ recent = <<>> /\ observed = FALSE /\ okCalls = 0
  /\ reflection = "none"
  /\ warnings = 0 /\ window = <<>>
  /\ calls = 0 /\ primary = None /\ screen = None
  /\ events = [complete |-> 0, failed |-> 0]
  /\ outcome = [by |-> "none", success |-> FALSE, verified |-> FALSE]

End(by, success, verified) ==
  /\ pc' = "ended"
  /\ outcome' = [by |-> by, success |-> success, verified |-> verified]
  /\ events' = IF verified THEN [events EXCEPT !.complete = @ + 1]
                           ELSE [events EXCEPT !.failed = @ + 1]

-----------------------------------------------------------------------------
(* LoopDetector. *)

Record(action, args, shown) ==
  window' = Keep(Append(window, [action |-> action, args |-> args, screen |-> shown]),
                 WindowSize)

Last(n) == Keep(window, n)

InfoLoop == \A i \in DOMAIN Last(3) : Last(3)[i].action \in INFO_ONLY_TOOLS

SameAction(i) ==
  {j \in DOMAIN window : /\ window[j].action = window[i].action
                         /\ window[j].args = window[i].args}

RepeatLoop ==
  \E i \in DOMAIN window : /\ window[i].action \notin LOOP_REPEAT_EXEMPT
                           /\ Cardinality(SameAction(i)) >= 3

ScreenLoop ==
  /\ Len(window) >= 5
  /\ Last(5)[1].screen # None
  /\ \A i \in 1..5 : Last(5)[i].screen = Last(5)[1].screen

InLoop == Len(window) >= 3 /\ (InfoLoop \/ RepeatLoop \/ ScreenLoop)

\* Three warnings in a row are critical; more make no difference.
Detect ==
  warnings' = IF ~InLoop THEN 0 ELSE IF warnings < 3 THEN warnings + 1 ELSE warnings

-----------------------------------------------------------------------------
(* A turn. *)

Stuck == (step + 1) - lastProgress >= MaxNoProgress

TurnsLeft == pc = "turn" /\ step < MaxTurns

\* The prompt is built: the reflection is consumed.
BeginTurn ==
  /\ TurnsLeft /\ ~Stuck
  /\ step' = step + 1
  /\ Detect
  /\ reflection' = "none"
  /\ pc' = "act"
  /\ UNCHANGED <<lastProgress, noCalls, attempts, memoryVars, window, turnVars, screen, endVars>>

WallTimeExceeded ==
  /\ TurnsLeft
  /\ End("wall_time", FALSE, FALSE)
  /\ UNCHANGED <<counters, memoryVars, detectorVars, reflection, turnVars, screen>>

NoProgress ==
  /\ TurnsLeft /\ Stuck
  /\ End("no_progress", FALSE, FALSE)
  /\ UNCHANGED <<counters, memoryVars, detectorVars, reflection, turnVars, screen>>

TurnsExceeded ==
  /\ pc = "turn" /\ step = MaxTurns
  /\ End("turns", FALSE, FALSE)
  /\ UNCHANGED <<counters, memoryVars, detectorVars, reflection, turnVars, screen>>

\* Mutant: nothing is written to the episodic memory.
RunnerFailsInSilence ==
  /\ pc \in {"act", "called"}
  /\ pc' = "ended"
  /\ outcome' = [by |-> "runner", success |-> FALSE, verified |-> FALSE]
  /\ UNCHANGED events
  /\ UNCHANGED <<counters, memoryVars, detectorVars, reflection, turnVars, screen>>

\* A request to the model raises: run_browser_task makes the result.
RunnerFails ==
  /\ pc \in {"act", "called"}
  /\ End("runner", FALSE, FALSE)
  /\ UNCHANGED <<counters, memoryVars, detectorVars, reflection, turnVars, screen>>

\* Mutant: an answer without a call is asked for again at no cost.
NoToolCallFree ==
  /\ pc = "act" /\ calls = 0
  /\ step' = step - 1
  /\ reflection' = "no_tool"
  /\ pc' = "turn"
  /\ UNCHANGED <<lastProgress, noCalls, attempts, memoryVars, detectorVars, turnVars, screen, endVars>>

\* The response has no tool call: the third in a row ends the run.
NoToolCall ==
  /\ pc = "act" /\ calls = 0
  /\ noCalls' = noCalls + 1
  /\ Record("no_tool", None, screen)
  /\ reflection' = "no_tool"
  /\ \/ noCalls' < 3 /\ pc' = "turn" /\ UNCHANGED endVars
     \/ noCalls' >= 3 /\ End("no_tool", FALSE, FALSE)
  /\ UNCHANGED <<step, lastProgress, attempts, memoryVars, warnings, turnVars, screen>>

-----------------------------------------------------------------------------
(* Tool calls of the response, in their order. *)

CanCall == pc = "act" /\ calls < MaxCalls

Returns(t, a, ok) ==
  /\ calls' = calls + 1
  /\ \E s \in Screens :
       primary' = [tool |-> t, args |-> a, ok |-> ok, screen |-> s]
  /\ UNCHANGED <<pc, counters, detectorVars, reflection, screen, endVars>>

NeedsApproval(t, a) == t \notin SAFE_TOOLS /\ a \in SensitiveArgs

Dispatched(t, a) == t \notin blocked \cup BLOCKED_TOOLS /\ ~NeedsApproval(t, a)

\* Not executed, and not in the tool trace either.
CallBlockedTool(t, a) ==
  /\ CanCall /\ t \in blocked
  /\ Returns(t, a, FALSE)
  /\ UNCHANGED memoryVars

\* Mutant: the limit is only noticed when it is exceeded.
BlockAtLate(t) ==
  blocked' = IF t \notin INFO_ONLY_TOOLS /\ retries'[t] > MaxRetries
               THEN blocked \cup {t} ELSE blocked

BlockAt(t) ==
  blocked' = IF t \notin INFO_ONLY_TOOLS /\ retries'[t] >= MaxRetries
               THEN blocked \cup {t} ELSE blocked

\* Refused by the guardrails; nothing ever grants an approval.
CallRefused(t, a) ==
  /\ CanCall /\ t \notin blocked /\ ~Dispatched(t, a)
  /\ Recorded(t, FALSE)
  /\ UNCHANGED retries
  /\ BlockAt(t)
  /\ Returns(t, a, FALSE)

\* The dispatch raises, or the snapshot was refreshed instead of acting.
CallNotExecuted(t, a) ==
  /\ CanCall /\ Dispatched(t, a)
  /\ Recorded(t, FALSE)
  /\ UNCHANGED retries
  /\ BlockAt(t)
  /\ Returns(t, a, FALSE)

CallFails(t, a) ==
  /\ CanCall /\ Dispatched(t, a)
  /\ Recorded(t, FALSE)
  /\ retries' = [retries EXCEPT ![t] = @ + 1]
  /\ BlockAt(t)
  /\ Returns(t, a, FALSE)

CallSucceeds(t, a) ==
  /\ CanCall /\ Dispatched(t, a)
  /\ Recorded(t, TRUE)
  /\ UNCHANGED <<retries, blocked>>
  /\ Returns(t, a, TRUE)

CallsDone ==
  /\ pc = "act" /\ calls > 0
  /\ pc' = "called"
  /\ UNCHANGED <<counters, memoryVars, detectorVars, reflection, turnVars, screen, endVars>>

-----------------------------------------------------------------------------
(* The brain's report, after the last result has been taken over. *)

\* Mutant: every result counts as progress.
TakeResultAsProgress ==
  /\ noCalls' = 0
  /\ screen' = primary.screen
  /\ Record(primary.tool, primary.args, primary.screen)
  /\ lastProgress' = step
  /\ calls' = 0 /\ primary' = None
  /\ UNCHANGED <<step, memoryVars, warnings>>

\* Mutant: progress is dated to the turn that follows.
TakeResultAhead ==
  /\ noCalls' = 0
  /\ screen' = primary.screen
  /\ Record(primary.tool, primary.args, primary.screen)
  /\ lastProgress' = IF primary.ok THEN step + 1 ELSE lastProgress
  /\ calls' = 0 /\ primary' = None
  /\ UNCHANGED <<step, memoryVars, warnings>>

TakeResult ==
  /\ noCalls' = 0
  /\ screen' = primary.screen
  /\ Record(primary.tool, primary.args, primary.screen)
  /\ lastProgress' = IF primary.ok THEN step ELSE lastProgress
  /\ calls' = 0 /\ primary' = None
  /\ UNCHANGED <<step, memoryVars, warnings>>

\* The end of a turn: a critical warning takes the place of the reflection.
Reflect(r) ==
  /\ reflection' = IF warnings >= 3 THEN "loop" ELSE r
  /\ pc' = "turn"

BrainInvalid ==
  /\ pc = "called" /\ TakeResult
  /\ Reflect("invalid")
  /\ UNCHANGED <<attempts, endVars>>

BrainContinues ==
  /\ pc = "called" /\ TakeResult
  /\ Reflect(reflection)
  /\ UNCHANGED <<attempts, endVars>>

\* Mutant: calls that all failed do not matter.
GuardPassesFailing(success) == observed

\* StructuralGuard.check, when the text of the result is no placeholder and
\* long enough.
GuardPasses(success) ==
  /\ observed
  /\ ~(success /\ Len(recent) >= 2 /\ \A i \in DOMAIN recent : ~recent[i])

\* The judge accepts, fails open, or is not used.
BrainDone(success) ==
  /\ pc = "called" /\ TakeResult
  /\ GuardPasses(success)
  /\ End("done", success, TRUE)
  /\ UNCHANGED <<attempts, reflection>>

\* The guard or the judge rejects the completion.
BrainRejected(success) ==
  /\ pc = "called" /\ TakeResult
  /\ attempts' = attempts + 1
  /\ \/ /\ attempts' < MaxVerifications
        /\ Reflect("feedback")
        /\ UNCHANGED endVars
     \/ /\ attempts' >= MaxVerifications
        /\ End("rejected", FALSE, FALSE)
        /\ UNCHANGED reflection

Call(t, a) ==
  \/ CallBlockedTool(t, a) \/ CallRefused(t, a) \/ CallNotExecuted(t, a)
  \/ CallFails(t, a) \/ CallSucceeds(t, a)

Brain ==
  \/ BrainInvalid \/ BrainContinues
  \/ \E success \in BOOLEAN : BrainDone(success) \/ BrainRejected(success)

Ended == pc = "ended" /\ UNCHANGED vars

Next ==
  \/ BeginTurn \/ WallTimeExceeded \/ NoProgress \/ TurnsExceeded \/ RunnerFails
  \/ NoToolCall \/ (\E t \in Tools, a \in Args : Call(t, a)) \/ CallsDone
  \/ Brain
  \/ Ended

Spec == Init /\ [][Next]_vars

\* Tools and models answer, and the loop goes on.
FairSpec == Spec /\ WF_vars(Next)

-----------------------------------------------------------------------------
Results == [tool : Tools, args : Args, ok : BOOLEAN, screen : Screens]

Entries == [action : Tools \cup {"no_tool"}, args : Args \cup {None},
            screen : Screens \cup {None}]

Endings ==
  {"none", "wall_time", "no_progress", "turns", "runner", "no_tool", "done", "rejected"}

\* Types, and the bounds the loop's own counters keep.
TypeOK ==
  /\ pc \in {"turn", "act", "called", "ended"}
  /\ step \in 0..MaxTurns /\ lastProgress \in 0..step /\ okCalls \in 0..step
  /\ noCalls \in 0..3 /\ attempts \in Nat
  /\ blocked \subseteq Acting /\ retries \in [Tools -> Nat]
  /\ recent \in Seq(BOOLEAN) /\ Len(recent) <= 5 /\ observed \in BOOLEAN
  /\ reflection \in {"none", "no_tool", "invalid", "feedback", "loop"}
  /\ warnings \in 0..3
  /\ window \in Seq(Entries) /\ Len(window) <= WindowSize
  /\ calls \in 0..MaxCalls
  /\ (primary = None /\ calls = 0) \/ (primary \in Results /\ calls > 0)
  /\ screen \in Screens \cup {None}
  /\ events \in [complete : Nat, failed : Nat]
  /\ outcome \in [by : Endings, success : BOOLEAN, verified : BOOLEAN]

\* An acting tool fails at most MaxRetries times in a run, several calls in one
\* response included, and is blocked from the last failure on.
RetryBudget ==
  \A t \in Acting :
    /\ retries[t] <= MaxRetries
    /\ retries[t] = MaxRetries <=> t \in blocked

\* The episodic memory gets one terminal event per run, at its end, and
\* task_complete only for a verified completion, however the run ends.
OneTerminalEvent ==
  /\ events.complete + events.failed = IF pc = "ended" THEN 1 ELSE 0
  /\ outcome.success => events.complete = 1

\* A run that gets nowhere is ended: the loop does not go on after MaxNoProgress
\* turns without a tool call that succeeded, whatever the turns were spent on,
\* nor after three answers in a row without a tool call.
StuckRunsEnd ==
  /\ pc \in {"act", "called"} => step - okCalls < MaxNoProgress
  /\ pc # "ended" =>
       ~ \E i \in 3..Len(window) : \A j \in (i - 2)..i : window[j].action = "no_tool"

\* A run that reports success after two or more tool calls has had one succeed.
SuccessHasEvidence ==
  outcome.success => outcome.verified /\ (okCalls = 0 => Len(recent) = 1)

\* Every run ends.
RunEnds == <>(pc = "ended")
=============================================================================
