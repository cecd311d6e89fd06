---------------------------- MODULE RefLifecycle ----------------------------
(***************************************************************************)
(* The life of an element ref inside one appium-cli daemon: snapshots give *)
(* refs, tools that touch the device flag the refs of a context as stale,  *)
(* RefResolver.resolve refuses flagged refs, and the request handler       *)
(* refreshes the snapshot and retries once.                                *)
(*                                                                         *)
(* A screen is abstracted to a counter per Appium context, ui[c], that     *)
(* every tool effect on c advances; a ref map remembers the value it was   *)
(* generated from.  Names, locators and bounds are left to the outcome of  *)
(* a lookup, which is nondeterministic: the application may have moved or  *)
(* removed any element by itself.                                          *)
(***************************************************************************)
EXTENDS Naturals, Sequences

CONSTANTS
  Native,         \* the native context, "NATIVE_APP"
  WebContexts,    \* the WebView and Chromium contexts
  Refs,           \* short ref names
  MaxSnapshots,   \* bound: snapshots persisted in a behaviour
  MaxChanges      \* bound: tool effects on one context

ASSUME ContextsAssumption == Native \notin WebContexts
ASSUME BoundsAssumption == MaxSnapshots \in Nat /\ MaxChanges \in Nat

Contexts == {Native} \cup WebContexts

VARIABLES
  ui,         \* the device: effects each context's screen has seen
  driverCtx,  \* the context the Appium driver is in
  cachedCtx,  \* state.current_context, the daemon's copy of driverCtx
  refMap,     \* RefResolver._ref_map, with what it was generated from
  currentId,  \* RefResolver._current_snapshot_id, 0 for None
  bundles,    \* the refs artifacts on disk; a snapshot id is an index
  latestAny,  \* snapshots/latest.json, 0 when absent
  latestFor,  \* snapshots/latest-<source>-<context>.json, 0 when absent
  loaded,     \* ids in RefResolver._artifact_ref_maps
  stale,      \* RefResolver._stale_contexts
  request,    \* the ref-based request being handled
  since,      \* history: kinds of effect this daemon had on a context since its
              \* last snapshot
  spent       \* history: a short ref was acted on since the last snapshot

resolverVars == <<refMap, currentId, loaded, stale>>
diskVars == <<bundles, latestAny, latestFor>>
contextVars == <<driverCtx, cachedCtx>>
vars == <<ui, contextVars, resolverVars, diskVars, request, since, spent>>

-----------------------------------------------------------------------------
(* Tools that take a ref.  "act" stands for tap, click, type_text, fill,   *)
(* select, select_option, set_date, scroll and file_upload; "gesture" for  *)
(* fling, drag, long_press, double_tap, pinch_open and pinch_close, which  *)
(* refuse web refs before resolving them; swipe does so only while         *)
(* state.current_context is a web context.                                 *)

ActingTools == {"act", "gesture", "swipe"}
RefTools == ActingTools \cup {"wait_for", "web_eval"}

RefMaps == [context : Contexts, names : SUBSET Refs, seen : Nat]
Artifacts == [context : Contexts, names : SUBSET Refs]
EmptyMap == [context |-> Native, names |-> {}, seen |-> 0]

\* A request runs (attempt, then perhaps refresh and retry) and is answered.
Running == [phase : {"attempt", "refresh", "retry"}, tool : RefTools,
            name : Refs, sid : Nat, ctx : Contexts, effects : Nat]
Answered == [phase : {"answered"}, status : {"ok", "failed", "ref_missing"},
             acting : BOOLEAN, refreshed : BOOLEAN, effects : Nat]
Idle == [phase |-> "idle"]

EffectKinds == {"flagged", "unflagged"}

Init ==
  /\ ui = [c \in Contexts |-> 0]
  /\ driverCtx = Native
  /\ cachedCtx = Native
  /\ refMap = EmptyMap
  /\ currentId = 0
  /\ bundles = <<>>
  /\ latestAny = 0
  /\ latestFor = [c \in Contexts |-> 0]
  /\ loaded = {}
  /\ stale = {}
  /\ request = Idle
  /\ since = [c \in Contexts |-> {}]
  /\ spent = FALSE

-----------------------------------------------------------------------------
(* Looking a ref up. *)

IsLatest(sid) == latestAny = sid \/ latestFor[bundles[sid].context] = sid

\* _ensure_qualified_snapshot_available: the current id and the ids already
\* loaded are accepted as they are, any other id only while a latest pointer
\* names it.  A short ref has sid 0.
Accepted(sid) ==
  \/ sid \in {0, currentId}
  \/ sid \in loaded
  \/ sid \in 1..Len(bundles) /\ IsLatest(sid)

MapOf(sid) == IF sid \in {0, currentId} THEN refMap ELSE bundles[sid]

Known(r) == Accepted(r.sid) /\ r.name \in MapOf(r.sid).names

\* A qualified ref that is accepted and not current stays in _artifact_ref_maps.
Load(sid) ==
  loaded' = IF sid \notin {0, currentId} /\ Accepted(sid)
              THEN loaded \cup {sid} ELSE loaded

-----------------------------------------------------------------------------
(* Effects on the device and the flags they leave. *)

\* A tool changes the screen of context c and flags the contexts in flags.
Affect(c, flags) ==
  /\ ui[c] < MaxChanges
  /\ ui' = [ui EXCEPT ![c] = @ + 1]
  /\ stale' = stale \cup flags
  /\ since' = [d \in Contexts |->
                 since[d] \cup (IF d \in flags THEN {"flagged"} ELSE {})
                          \cup (IF d = c /\ c \notin flags
                                  THEN {"unflagged"} ELSE {})]

NoEffect == UNCHANGED <<ui, stale, since>>

\* current_context(driver): the daemon's copy is synchronised with the driver.
SyncContext == cachedCtx' = driverCtx

-----------------------------------------------------------------------------
(* Snapshots. *)

FreshMap(c, names) == [context |-> c, names |-> names, seen |-> ui[c]]

\* Mutant: registering refs clears every flag, as register_all does by default.
RegisterClearsAll(c, names) ==
  /\ refMap' = FreshMap(c, names)
  /\ stale' = {}
  /\ since' = [since EXCEPT ![c] = {}]
  /\ spent' = FALSE

\* Mutant: the flag of the fresh context is not cleared.
RegisterKeepsFlag(c, names) ==
  /\ refMap' = FreshMap(c, names)
  /\ UNCHANGED stale
  /\ since' = [since EXCEPT ![c] = {}]
  /\ spent' = FALSE

\* _register_snapshot: the whole map is replaced, only c's flag is cleared.
Register(c, names) ==
  /\ refMap' = FreshMap(c, names)
  /\ stale' = stale \ {c}
  /\ since' = [since EXCEPT ![c] = {}]
  /\ spent' = FALSE

\* _write_snapshot_bundle and mark_current_snapshot.
Persist(c, names) ==
  /\ Len(bundles) < MaxSnapshots
  /\ bundles' = Append(bundles, [context |-> c, names |-> names])
  /\ latestAny' = Len(bundles) + 1
  /\ latestFor' = [latestFor EXCEPT ![c] = Len(bundles) + 1]
  /\ currentId' = Len(bundles) + 1

\* refresh_snapshot: using_context leaves the driver where it was and
\* synchronises the copy.
RefreshSnapshot(c, names) ==
  /\ Register(c, names)
  /\ Persist(c, names)
  /\ SyncContext
  /\ UNCHANGED <<driverCtx, loaded, ui>>

\* Mutant: the flag is cleared before the page source is read.
UnreadClearsFlag(c) ==
  /\ UNCHANGED contextVars
  /\ stale' = stale \ {c}
  /\ UNCHANGED <<ui, since, refMap, currentId, loaded, diskVars, spent>>

\* The page source cannot be read or the context cannot be entered; when the
\* way back fails too, the driver stays in c.
RefreshUnread(c) ==
  /\ \/ cachedCtx' \in {cachedCtx, driverCtx} /\ UNCHANGED driverCtx
     \/ driverCtx' = c /\ cachedCtx' = c
  /\ NoEffect
  /\ UNCHANGED <<refMap, currentId, loaded, diskVars, spent>>

\* The map is registered, then the way back to the original context, the
\* target lookup of _render_scope or the writing of the bundle raises: the
\* current id and the pointers keep their old values.
RefreshUnmarked(c, names) ==
  /\ Register(c, names)
  /\ driverCtx' \in {driverCtx, c}
  /\ cachedCtx' = driverCtx'
  /\ UNCHANGED <<ui, currentId, loaded, diskVars>>

Snapshot(c, names) ==
  /\ request = Idle
  /\ RefreshSnapshot(c, names)
  /\ UNCHANGED request

SnapshotFails(c, names) ==
  /\ request = Idle
  /\ RefreshUnread(c) \/ RefreshUnmarked(c, names)
  /\ UNCHANGED request

-----------------------------------------------------------------------------
(* Ref-based requests: _invoke_with_auto_refresh. *)

Attempting == request.phase \in {"attempt", "retry"}

Finish(status, effects) ==
  request' = [phase |-> "answered", status |-> status,
              acting |-> request.tool \in ActingTools,
              refreshed |-> request.phase = "retry",
              effects |-> request.effects + effects]

\* An ElementNotFoundError ends a first attempt as a plain failure; after a
\* refresh it becomes AUTO_REFRESHED_REF_MISSING.
FinishNotFound ==
  Finish(IF request.phase = "retry" THEN "ref_missing" ELSE "failed", 0)

RefRequest(tool, name, sid) ==
  /\ request = Idle
  /\ sid \in 0..Len(bundles)
  /\ request' = [phase |-> "attempt", tool |-> tool, name |-> name,
                 sid |-> sid, ctx |-> Native, effects |-> 0]
  /\ NoEffect
  /\ UNCHANGED <<contextVars, refMap, currentId, loaded, diskVars, spent>>

\* web_eval reads state.current_context before it looks at the ref.
WebEvalElsewhere ==
  request.tool = "web_eval" /\ cachedCtx \notin WebContexts

GestureOnWeb ==
  /\ \/ request.tool = "gesture"
     \/ request.tool = "swipe" /\ cachedCtx \in WebContexts
  /\ Known(request)
  /\ MapOf(request.sid).context \in WebContexts

\* A tool that refuses the request before it resolves the ref.
RefuseTool ==
  /\ Attempting
  /\ WebEvalElsewhere \/ GestureOnWeb
  /\ IF WebEvalElsewhere THEN UNCHANGED loaded ELSE Load(request.sid)
  /\ Finish("failed", 0)
  /\ NoEffect
  /\ UNCHANGED <<contextVars, refMap, currentId, diskVars, spent>>

Resolving == Attempting /\ ~WebEvalElsewhere /\ ~GestureOnWeb

\* require_registered raises; wait_for turns that into a plain error.
RefUnknown ==
  /\ Resolving
  /\ ~Known(request)
  /\ Load(request.sid)
  /\ IF request.tool = "wait_for" THEN Finish("failed", 0) ELSE FinishNotFound
  /\ NoEffect
  /\ UNCHANGED <<contextVars, refMap, currentId, diskVars, spent>>

Flagged(r) == MapOf(r.sid).context \in stale

\* StaleSnapshotError: the first attempt goes on to refresh the context of the
\* ref, the retry reports the ref as missing.
RefFlagged ==
  /\ Resolving
  /\ Known(request)
  /\ Flagged(request)
  /\ Load(request.sid)
  /\ IF request.phase = "attempt"
       THEN request' = [request EXCEPT !.phase = "refresh",
                                       !.ctx = MapOf(request.sid).context]
       ELSE FinishNotFound
  /\ NoEffect
  /\ UNCHANGED <<contextVars, refMap, currentId, diskVars, spent>>

RefreshDone(names) ==
  /\ request.phase = "refresh"
  /\ RefreshSnapshot(request.ctx, names)
  /\ request' = [request EXCEPT !.phase = "retry"]

\* Mutant: a failed refresh starts the attempt again.
RefreshFailsLoops(names) ==
  /\ request.phase = "refresh"
  /\ RefreshUnread(request.ctx) \/ RefreshUnmarked(request.ctx, names)
  /\ request' = [request EXCEPT !.phase = "attempt"]

RefreshFails(names) ==
  /\ request.phase = "refresh"
  /\ RefreshUnread(request.ctx) \/ RefreshUnmarked(request.ctx, names)
  /\ Finish("failed", 0)

\* The part of resolve after the stale check.  _ensure_context moves the driver
\* and leaves state.current_context alone.  A context that cannot be read and a
\* switch that fails stop nothing: the strategies, the coordinates among them,
\* are tried in the context the driver is in.
Enter ==
  /\ Resolving
  /\ Known(request)
  /\ ~Flagged(request)
  /\ Load(request.sid)
  /\ driverCtx' \in {driverCtx, MapOf(request.sid).context}
  /\ UNCHANGED <<cachedCtx, refMap, currentId, diskVars>>

\* Where the tool acts once it has its element: in the context the driver is
\* in, and with a "mobile:" gesture on the native screen, wherever that is.
LandsIn ==
  {driverCtx'} \cup
    IF request.tool \in {"gesture", "swipe"} \/ MapOf(request.sid).context = Native
      THEN {Native} ELSE {}

\* Every strategy fails.  wait_for polls on until it times out.
ResolveFails ==
  /\ Enter
  /\ IF request.tool = "wait_for" THEN Finish("failed", 0) ELSE FinishNotFound
  /\ NoEffect
  /\ UNCHANGED spent

\* The element is found, then the tool raises before it touches the device
\* (coordinates only, a missing file, a driver error).
ToolRaises ==
  /\ Enter
  /\ Finish("failed", 0)
  /\ NoEffect
  /\ UNCHANGED spent

\* Mutant: the flag goes to state.current_context.
ActDoneFlagsCached ==
  /\ Enter
  /\ request.tool \in ActingTools
  /\ \E c \in LandsIn : Affect(c, {cachedCtx})
  /\ spent' = (spent \/ request.sid = 0)
  /\ Finish("ok", 1)

\* The tool acts and flags the context of the ref, wherever it has acted.
ActDone ==
  /\ Enter
  /\ request.tool \in ActingTools
  /\ \E c \in LandsIn : Affect(c, {MapOf(request.sid).context})
  /\ spent' = (spent \/ request.sid = 0)
  /\ Finish("ok", 1)

\* Mutant: any exception of the first attempt is answered by a refresh.
ActBreaksRefreshes ==
  /\ Enter
  /\ request.tool \in ActingTools
  /\ \E c \in LandsIn : Affect(c, {})
  /\ request' = [request EXCEPT !.phase = "refresh", !.effects = @ + 1,
                                !.ctx = MapOf(request.sid).context]
  /\ UNCHANGED spent

\* The tool raises after its first effect: nothing is flagged.
ActBreaks ==
  /\ Enter
  /\ request.tool \in ActingTools
  /\ \E c \in LandsIn : Affect(c, {})
  /\ Finish("failed", 1)
  /\ UNCHANGED spent

WaitForDone ==
  /\ Enter
  /\ request.tool = "wait_for"
  /\ Finish("ok", 0)
  /\ NoEffect
  /\ UNCHANGED spent

\* web_eval runs the script on the element and never flags a context.
WebEvalRefDone ==
  /\ Enter
  /\ request.tool = "web_eval"
  /\ \/ NoEffect /\ Finish("ok", 0)
     \/ /\ Affect(driverCtx', {})
        /\ Finish("ok", 1) \/ Finish("failed", 1)
  /\ UNCHANGED spent

\* The response goes to the client and the daemon accepts the next connection.
Answer ==
  /\ request.phase = "answered"
  /\ request' = Idle
  /\ NoEffect
  /\ UNCHANGED <<contextVars, refMap, currentId, loaded, diskVars, spent>>

HandleRef ==
  \/ RefuseTool \/ RefUnknown \/ RefFlagged
  \/ ResolveFails \/ ToolRaises \/ ActDone \/ ActBreaks
  \/ WaitForDone \/ WebEvalRefDone \/ Answer
  \/ \E names \in SUBSET Refs : RefreshDone(names) \/ RefreshFails(names)

-----------------------------------------------------------------------------
(* Tools without a ref. *)

RefLess ==
  /\ request = Idle
  /\ UNCHANGED <<refMap, currentId, loaded, diskVars, request, spent>>

\* press_key and the window gestures pick the web or the native way by
\* state.current_context and flag that context.
KeyLandsIn == IF cachedCtx \in WebContexts THEN driverCtx ELSE Native

PressKey ==
  /\ RefLess
  /\ Affect(KeyLandsIn, {cachedCtx})
  /\ UNCHANGED contextVars

\* click_element, send_keys, scroll_element and the actions on a CSS target
\* find their element in the driver's context and flag state.current_context.
ElementAction ==
  /\ RefLess
  /\ Affect(driverCtx, {cachedCtx})
  /\ UNCHANGED contextVars

\* A tool above that raises between its effect and its flag, and the dialog
\* commands, which have no flag.
SilentEffect ==
  /\ RefLess
  /\ Affect(driverCtx, {})
  /\ UNCHANGED contextVars

\* web_eval without a ref runs in the driver's context when the daemon's copy
\* is a web context.
WebEval ==
  /\ RefLess
  /\ cachedCtx \in WebContexts
  /\ Affect(driverCtx, {})
  /\ UNCHANGED contextVars

\* _require_web_driver, then goto, go_back, go_forward, reload or tabs:
\* the page changes and no context is flagged.
Navigate(w) ==
  /\ RefLess
  /\ IF cachedCtx \in WebContexts
       THEN UNCHANGED contextVars
       ELSE driverCtx' = w /\ cachedCtx' = w
  /\ \/ Affect(IF cachedCtx \in WebContexts THEN driverCtx ELSE w, {})
     \/ NoEffect

\* activate_app, terminate_app, restart_app, set_orientation.
ManageApp ==
  /\ RefLess
  /\ Affect(Native, {})
  /\ UNCHANGED contextVars

\* get_context, list_contexts, webview_status, screenshot, get_page_source.
QueryContext ==
  /\ RefLess
  /\ SyncContext
  /\ NoEffect
  /\ UNCHANGED driverCtx

SwitchContext(c) ==
  /\ RefLess
  /\ \/ driverCtx' = c /\ cachedCtx' = c
     \/ SyncContext /\ UNCHANGED driverCtx
  /\ NoEffect

\* Mutant: a new daemon removes the old artifacts and leaves the pointers.
RestartSweepsBundles ==
  /\ driverCtx' = Native
  /\ cachedCtx' = Native
  /\ refMap' = EmptyMap
  /\ currentId' = 0
  /\ loaded' = {}
  /\ stale' = {}
  /\ request' = Idle
  /\ since' = [c \in Contexts |-> {}]
  /\ spent' = FALSE
  /\ bundles' = <<>>
  /\ UNCHANGED <<ui, latestAny, latestFor>>

\* The session is stopped, or its daemon dies, and a new one is started: the
\* resolver is empty, the snapshot directory and the screen are as they were.
Restart ==
  /\ driverCtx' = Native
  /\ cachedCtx' = Native
  /\ refMap' = EmptyMap
  /\ currentId' = 0
  /\ loaded' = {}
  /\ stale' = {}
  /\ request' = Idle
  /\ since' = [c \in Contexts |-> {}]
  /\ spent' = FALSE
  /\ UNCHANGED <<ui, diskVars>>

Next ==
  \/ \E c \in Contexts, names \in SUBSET Refs :
       Snapshot(c, names) \/ SnapshotFails(c, names)
  \/ \E tool \in RefTools, name \in Refs, sid \in 0..MaxSnapshots :
       RefRequest(tool, name, sid)
  \/ HandleRef
  \/ PressKey \/ ElementAction \/ SilentEffect \/ WebEval \/ ManageApp \/ QueryContext
  \/ \E w \in WebContexts : Navigate(w)
  \/ \E c \in Contexts : SwitchContext(c)
  \/ Restart

\* The daemon is one thread that handles a request to its end, and every
\* driver call is assumed to return.
Spec == Init /\ [][Next]_vars /\ WF_vars(HandleRef)

-----------------------------------------------------------------------------
(* Properties. *)

\* The variables hold values of their kinds, and the ids in memory and in the
\* latest pointers name bundles that exist (all of resolver and artifacts).
TypeOK ==
  /\ ui \in [Contexts -> Nat]
  /\ driverCtx \in Contexts /\ cachedCtx \in Contexts
  /\ refMap \in RefMaps
  /\ bundles \in Seq(Artifacts)
  /\ {currentId, latestAny} \subseteq 0..Len(bundles)
  /\ latestFor \in [Contexts -> 0..Len(bundles)]
  /\ loaded \subseteq 1..Len(bundles)
  /\ stale \subseteq Contexts
  /\ request \in Running \cup Answered \cup {Idle}
  /\ since \in [Contexts -> SUBSET EffectKinds]
  /\ spent \in BOOLEAN

\* What the flags are for: short refs that resolve without a refusal come from
\* a snapshot of the screen as the tools left it, whatever contexts, snapshots,
\* failures and restarts came between (register_all with clear_stale=False,
\* clear_stale, mark_stale).  The only exception is a context that some tool
\* changed without a flag of its own.
MapFreshOrFlagged ==
  refMap.names # {} =>
    \/ refMap.seen = ui[refMap.context]
    \/ refMap.context \in stale
    \/ "unflagged" \in since[refMap.context]

\* As long as the daemon lives a flag is only removed by a snapshot of its own
\* context: not by one of another context, by a failed snapshot, by a context
\* switch or by the artifacts of an older snapshot, whose qualified refs would
\* become usable again (register_all with clear_stale=False, clear_stale).
FlagsKept == \A c \in Contexts : "flagged" \in since[c] => c \in stale

\* A request touches the device at most once although it may run twice, and its
\* answer says so: ref_missing (action_executed False) means no effect at all, a
\* plain success of an acting tool (action_executed True) exactly one.
RepliesTellTheTruth ==
  request.phase = "answered" =>
    /\ request.effects <= 1
    /\ request.status = "ref_missing" => request.refreshed /\ request.effects = 0
    /\ request.status = "ok" /\ request.acting
         => request.effects = 1

\* A short ref succeeds at most once between two snapshots: its success flags
\* the context of the whole map, so the next one needs a refresh.
ShortActDone ==
  /\ Attempting /\ request.sid = 0 /\ request.tool \in ActingTools
  /\ request'.phase = "answered" /\ request'.status = "ok"

OneActPerSnapshot == [][ShortActDone => ~spent]_vars

\* Every ref-based request is answered: there is no endless cycle of refusals
\* and refreshes (_invoke_with_auto_refresh retries once).
RequestAnswered == request # Idle ~> request = Idle

(* The promise of RefGrant: its job is the request without the history of its *)
(* effects, and its page is open as long as the context is not flagged.      *)

Job ==
  IF request.phase = "idle" THEN request
  ELSE IF request.phase = "answered"
    THEN [phase |-> "answered", status |-> request.status,
          acting |-> request.acting, effects |-> request.effects]
    ELSE [phase |-> request.phase, name |-> request.name,
          short |-> request.sid = 0, acting |-> request.tool \in ActingTools,
          ctx |-> request.ctx]

\* A client that knows nothing of contexts that drift, of flags and of artifacts
\* sees what RefGrant promises: only a snapshot lets short refs act, a success
\* uses them up, a request is refreshed once and has at most one effect
\* (resolve, mark_stale, register_all, _invoke_with_auto_refresh).  That the
\* effect is on the screen the ref is of is no part of it: _ensure_context does
\* not see to that.
Grant == INSTANCE RefGrant WITH
  page <- refMap, open <- refMap.context \notin stale, job <- Job
GrantSafety == Grant!GrantSpec

(* A statement of the documentation that the code does not keep. *)

\* openai-tools-integration.md:836: "After a new snapshot, old refs are stale",
\* and resolve answers "stale or not current for its context" for a qualified
\* ref whose snapshot no latest pointer names any more.
SupersededRefRefused ==
  [][Attempting /\ request.sid \notin {0, currentId}
       /\ request.sid # latestAny
       /\ request.sid # latestFor[bundles[request.sid].context]
     => ui' = ui]_vars

=============================================================================
