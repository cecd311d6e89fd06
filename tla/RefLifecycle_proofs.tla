------------------------- MODULE RefLifecycle_proofs -------------------------
(***************************************************************************)
(* Proofs about RefLifecycle for any set of web contexts, any set of ref   *)
(* names and any bounds.                                                   *)
(*                                                                         *)
(* The inductive invariant adds four things to the invariants TLC checks:  *)
(* an effect on the context of the map in memory since it was taken is on  *)
(* record, a map whose short refs were acted on is flagged, a request that *)
(* is still running has had no effect, and its retry meets an unflagged    *)
(* map.  From it follows that RefLifecycle implements RefGrant.            *)
(***************************************************************************)
EXTENDS RefLifecycle, TLAPS

\* Effects on the context of the map in memory are on record.
MapTracked ==
  refMap.names # {} /\ refMap.seen # ui[refMap.context]
    => since[refMap.context] # {}

\* After a short ref was acted on, the context of the map is flagged.
SpentIsFlagged == spent => refMap.context \in stale

\* A request that is not answered yet has not touched the device.
RunningIsHarmless == request \in Running => request.effects = 0

\* After the automatic refresh the retry of a short ref meets a map of the
\* context it was refreshed for, without a flag: it cannot be refused again as
\* stale (_refresh_context_for_stale_ref, refresh_snapshot).
RetryIsUnflagged ==
  request.phase = "retry" /\ request.sid = 0 =>
    refMap.context = request.ctx /\ refMap.context \notin stale

-----------------------------------------------------------------------------
\* A request that attempts or refreshes is a Running record.
LEMMA RunningRequest ==
  ASSUME TypeOK, request.phase \in {"attempt", "refresh", "retry"}
  PROVE  request \in Running
BY DEF TypeOK, Running, Answered, Idle

\* A ref that is known is looked up in the map of a context.
LEMMA KnownMap ==
  ASSUME TypeOK, request \in Running, Known(request)
  PROVE  MapOf(request.sid).context \in Contexts
<1>1. request.sid \in Nat
  BY DEF Running
<1>2. CASE request.sid \in {0, currentId}
  BY <1>2 DEF TypeOK, MapOf, RefMaps
<1>3. CASE request.sid \notin {0, currentId}
  <2>1. request.sid \in 1..Len(bundles)
    BY <1>3 DEF TypeOK, Known, Accepted
  <2>2. bundles[request.sid] \in Artifacts
    BY <2>1 DEF TypeOK
  <2> QED BY <1>3, <2>2 DEF MapOf, Artifacts
<1> QED BY <1>2, <1>3

\* Loading the artifacts of an accepted id keeps loaded within the bundles.
LEMMA LoadInBundles ==
  ASSUME TypeOK, Load(request.sid)
  PROVE  loaded' \subseteq 1..Len(bundles)
BY DEF TypeOK, Load, Accepted

\* The variables Affect changes keep their kinds.
LEMMA AffectType ==
  ASSUME TypeOK, NEW c \in Contexts, NEW flags \in SUBSET Contexts,
         Affect(c, flags)
  PROVE  /\ ui' \in [Contexts -> Nat]
         /\ stale' \subseteq Contexts
         /\ since' \in [Contexts -> SUBSET EffectKinds]
BY DEF TypeOK, Affect, EffectKinds

\* An answer has the kind of an answer.
LEMMA FinishType ==
  ASSUME request \in Running,
         NEW status \in {"ok", "failed", "ref_missing"}, NEW effects \in Nat,
         Finish(status, effects)
  PROVE  request' \in Answered
BY DEF Finish, Running, Answered

\* The map and the flags a snapshot registers have their kinds.
LEMMA RegisterType ==
  ASSUME TypeOK, NEW c \in Contexts, NEW names \in SUBSET Refs,
         Register(c, names)
  PROVE  /\ refMap' \in RefMaps
         /\ stale' \subseteq Contexts
         /\ since' \in [Contexts -> SUBSET EffectKinds]
         /\ spent' \in BOOLEAN
BY DEF TypeOK, Register, FreshMap, RefMaps

\* The artifacts on disk and the ids keep their kinds.
LEMMA PersistType ==
  ASSUME TypeOK, NEW c \in Contexts, NEW names \in SUBSET Refs,
         Persist(c, names), UNCHANGED loaded
  PROVE  /\ bundles' \in Seq(Artifacts)
         /\ {currentId', latestAny'} \subseteq 0..Len(bundles')
         /\ latestFor' \in [Contexts -> 0..Len(bundles')]
         /\ loaded' \subseteq 1..Len(bundles')
<1>1. [context |-> c, names |-> names] \in Artifacts
  BY DEF Artifacts
<1>2. bundles' \in Seq(Artifacts) /\ Len(bundles') = Len(bundles) + 1
  BY <1>1 DEF TypeOK, Persist
<1>3. Len(bundles) \in Nat
  BY DEF TypeOK
<1>4. latestFor' \in [Contexts -> 0..Len(bundles')]
  BY <1>2, <1>3 DEF TypeOK, Persist
<1>5. currentId' = Len(bundles') /\ latestAny' = Len(bundles')
  BY <1>2 DEF Persist
<1>6. loaded' \subseteq 1..Len(bundles')
  BY <1>2, <1>3 DEF TypeOK
<1> QED BY <1>2, <1>3, <1>4, <1>5, <1>6

\* A snapshot, whether it succeeds or fails, leaves every variable but the
\* request of its kind.
SnapshotVarsOK ==
  /\ ui \in [Contexts -> Nat]
  /\ driverCtx \in Contexts /\ cachedCtx \in Contexts
  /\ refMap \in RefMaps
  /\ bundles \in Seq(Artifacts)
  /\ {currentId, latestAny} \subseteq 0..Len(bundles)
  /\ latestFor \in [Contexts -> 0..Len(bundles)]
  /\ loaded \subseteq 1..Len(bundles)
  /\ stale \subseteq Contexts
  /\ since \in [Contexts -> SUBSET EffectKinds]
  /\ spent \in BOOLEAN

\* refresh_snapshot leaves every variable but the request of its kind, whether
\* it succeeds or fails half-way.
LEMMA RefreshType ==
  ASSUME TypeOK, NEW c \in Contexts, NEW names \in SUBSET Refs,
         RefreshSnapshot(c, names) \/ RefreshUnread(c) \/ RefreshUnmarked(c, names)
  PROVE  SnapshotVarsOK'
<1>1. CASE RefreshSnapshot(c, names)
  <2>1. Register(c, names) /\ Persist(c, names) /\ UNCHANGED loaded
    BY <1>1 DEF RefreshSnapshot
  <2>2. UNCHANGED <<ui, driverCtx>> /\ cachedCtx' = driverCtx
    BY <1>1 DEF RefreshSnapshot, SyncContext
  <2> QED BY <2>1, <2>2, RegisterType, PersistType DEF TypeOK, SnapshotVarsOK
<1>2. CASE RefreshUnread(c)
  BY <1>2 DEF TypeOK, SnapshotVarsOK, RefreshUnread, NoEffect, diskVars
<1>3. CASE RefreshUnmarked(c, names)
  <2>1. Register(c, names)
    BY <1>3 DEF RefreshUnmarked
  <2>2. UNCHANGED <<ui, currentId, loaded, bundles, latestAny, latestFor>>
    BY <1>3 DEF RefreshUnmarked, diskVars
  <2>3. driverCtx' \in Contexts /\ cachedCtx' \in Contexts
    BY <1>3 DEF TypeOK, RefreshUnmarked
  <2> QED BY <2>1, <2>2, <2>3, RegisterType DEF TypeOK, SnapshotVarsOK
<1> QED BY <1>1, <1>2, <1>3

-----------------------------------------------------------------------------
(* Type correctness. *)

\* What every action that looks a ref up and passes the stale check has.
LEMMA EnterFacts ==
  ASSUME TypeOK, Enter
  PROVE  /\ request \in Running
         /\ MapOf(request.sid).context \in Contexts
         /\ MapOf(request.sid).context \notin stale
         /\ driverCtx' \in Contexts /\ LandsIn \subseteq Contexts
         /\ loaded' \subseteq 1..Len(bundles)
         /\ UNCHANGED <<cachedCtx, refMap, currentId, bundles, latestAny, latestFor>>
<1>1. request \in Running
  BY RunningRequest DEF Enter, Resolving, Attempting
<1>2. MapOf(request.sid).context \in Contexts
  BY <1>1, KnownMap DEF Enter
<1>3. loaded' \subseteq 1..Len(bundles)
  BY LoadInBundles DEF Enter
<1>4. driverCtx' \in Contexts /\ LandsIn \subseteq Contexts
  BY <1>2 DEF Enter, LandsIn, TypeOK, Contexts
<1> QED BY <1>1, <1>2, <1>3, <1>4 DEF Enter, Flagged, diskVars

\* An action on a resolved element keeps every variable of its kind.
LEMMA EnterType ==
  ASSUME TypeOK,
         ResolveFails \/ ToolRaises \/ ActDone \/ ActBreaks
           \/ WaitForDone \/ WebEvalRefDone
  PROVE  TypeOK'
<1> DEFINE c == MapOf(request.sid).context
<1>1. Enter
  BY DEF ResolveFails, ToolRaises, ActDone, ActBreaks, WaitForDone, WebEvalRefDone
<1>2. request \in Running /\ c \in Contexts
  BY <1>1, EnterFacts
<1>3. driverCtx' \in Contexts
  BY <1>1, EnterFacts
<1>4. NoEffect \/ \E d \in Contexts : Affect(d, {c}) \/ Affect(d, {})
  BY <1>1, <1>3, EnterFacts
     DEF ResolveFails, ToolRaises, ActDone, ActBreaks, WaitForDone, WebEvalRefDone
<1>5. /\ ui' \in [Contexts -> Nat]
      /\ stale' \subseteq Contexts
      /\ since' \in [Contexts -> SUBSET EffectKinds]
  <2>1. CASE NoEffect
    BY <2>1 DEF TypeOK, NoEffect
  <2>2. CASE \E d \in Contexts : Affect(d, {c}) \/ Affect(d, {})
    BY <2>2, <1>2, AffectType
  <2> QED BY <1>4, <2>1, <2>2
<1>6. spent' \in BOOLEAN
  BY DEF TypeOK, ResolveFails, ToolRaises, ActDone, ActBreaks,
         WaitForDone, WebEvalRefDone
<1>7. \E status \in {"ok", "failed", "ref_missing"}, effects \in {0, 1} :
        Finish(status, effects)
  BY DEF ResolveFails, ToolRaises, ActDone, ActBreaks, WaitForDone,
         WebEvalRefDone, FinishNotFound
<1>8. request' \in Answered
  BY <1>2, <1>7, FinishType
<1> HIDE DEF c
<1> QED BY <1>1, <1>3, <1>5, <1>6, <1>8, EnterFacts DEF TypeOK

\* Requests that are refused before the device is asked.
LEMMA RefuseType ==
  ASSUME TypeOK, RefuseTool \/ RefUnknown \/ RefFlagged
  PROVE  TypeOK'
<1>1. Attempting
  BY DEF RefuseTool, RefUnknown, RefFlagged, Resolving
<1>2. request \in Running
  BY <1>1, RunningRequest DEF Attempting
<1>3. loaded' \subseteq 1..Len(bundles)
  BY LoadInBundles DEF TypeOK, RefuseTool, RefUnknown, RefFlagged
<1>4. UNCHANGED <<ui, stale, since, driverCtx, cachedCtx, refMap, currentId,
                  bundles, latestAny, latestFor, spent>>
  BY DEF RefuseTool, RefUnknown, RefFlagged, NoEffect, contextVars, diskVars
<1>5. request' \in Running \cup Answered
  <2>1. CASE \E status \in {"ok", "failed", "ref_missing"} : Finish(status, 0)
    BY <1>2, <2>1, FinishType
  <2>2. CASE RefFlagged /\ request.phase = "attempt"
    <3>1. MapOf(request.sid).context \in Contexts
      BY <1>2, <2>2, KnownMap DEF RefFlagged
    <3> QED BY <1>2, <2>2, <3>1 DEF RefFlagged, Running
  <2> QED BY <2>1, <2>2 DEF RefuseTool, RefUnknown, RefFlagged, FinishNotFound
<1> QED BY <1>3, <1>4, <1>5 DEF TypeOK

\* The tools without a ref.
LEMMA RefLessType ==
  ASSUME TypeOK,
         \/ PressKey \/ ElementAction \/ SilentEffect \/ WebEval \/ ManageApp
         \/ QueryContext
         \/ \E w \in WebContexts : Navigate(w)
         \/ \E c \in Contexts : SwitchContext(c)
  PROVE  TypeOK'
<1>1. UNCHANGED <<refMap, currentId, loaded, bundles, latestAny, latestFor,
                  request, spent>>
  BY DEF PressKey, ElementAction, SilentEffect, WebEval, ManageApp,
         QueryContext, Navigate, SwitchContext, RefLess, diskVars
<1>2. driverCtx' \in Contexts /\ cachedCtx' \in Contexts
  BY DEF TypeOK, PressKey, ElementAction, SilentEffect, WebEval, ManageApp,
         QueryContext, Navigate, SwitchContext, SyncContext, contextVars, Contexts
<1>3. NoEffect \/ \E c \in Contexts, flags \in SUBSET Contexts : Affect(c, flags)
  BY DEF TypeOK, PressKey, ElementAction, SilentEffect, WebEval, ManageApp,
         QueryContext, Navigate, SwitchContext, KeyLandsIn, Contexts
<1>4. /\ ui' \in [Contexts -> Nat]
      /\ stale' \subseteq Contexts
      /\ since' \in [Contexts -> SUBSET EffectKinds]
  <2>1. CASE NoEffect
    BY <2>1 DEF TypeOK, NoEffect
  <2>2. CASE \E c \in Contexts, flags \in SUBSET Contexts : Affect(c, flags)
    BY <2>2, AffectType
  <2> QED BY <1>3, <2>1, <2>2
<1> QED BY <1>1, <1>2, <1>4 DEF TypeOK

\* RefLifecycle keeps its variables of their kinds: in particular no id in
\* memory and no latest pointer names a bundle that was never written.
THEOREM TypeCorrect == Spec => []TypeOK
<1>1. Init => TypeOK
  <2> SUFFICES ASSUME Init PROVE TypeOK
    OBVIOUS
  <2>1. Native \in Contexts /\ EmptyMap \in RefMaps
    BY DEF Contexts, EmptyMap, RefMaps
  <2>2. bundles \in Seq(Artifacts) /\ Len(bundles) = 0
    BY DEF Init
  <2>3. ui \in [Contexts -> Nat] /\ since \in [Contexts -> SUBSET EffectKinds]
    BY DEF Init
  <2>4. {currentId, latestAny} \subseteq 0..Len(bundles) /\ loaded = {}
    BY <2>2 DEF Init
  <2>5. latestFor \in [Contexts -> 0..Len(bundles)]
    BY <2>2 DEF Init
  <2>6. request = Idle /\ stale = {} /\ spent = FALSE /\ refMap = EmptyMap
        /\ driverCtx = Native /\ cachedCtx = Native
    BY DEF Init
  <2> QED BY <2>1, <2>2, <2>3, <2>4, <2>5, <2>6 DEF TypeOK
<1>2. TypeOK /\ [Next]_vars => TypeOK'
  <2> SUFFICES ASSUME TypeOK, [Next]_vars PROVE TypeOK'
    OBVIOUS
  <2>1. ASSUME NEW c \in Contexts, NEW names \in SUBSET Refs,
               Snapshot(c, names) \/ SnapshotFails(c, names)
        PROVE  TypeOK'
    <3>1. SnapshotVarsOK'
      BY <2>1, RefreshType DEF Snapshot, SnapshotFails
    <3>2. UNCHANGED request
      BY <2>1 DEF Snapshot, SnapshotFails
    <3> QED BY <3>1, <3>2 DEF TypeOK, SnapshotVarsOK
  <2>2. ASSUME NEW tool \in RefTools, NEW name \in Refs,
               NEW sid \in 0..MaxSnapshots, RefRequest(tool, name, sid)
        PROVE  TypeOK'
    <3>1. request' \in Running
      BY <2>2 DEF RefRequest, Running, Contexts
    <3> QED BY <2>2, <3>1
            DEF TypeOK, RefRequest, NoEffect, contextVars, diskVars
  <2>3. CASE RefuseTool \/ RefUnknown \/ RefFlagged
    BY <2>3, RefuseType
  <2>4. CASE \/ ResolveFails \/ ToolRaises \/ ActDone \/ ActBreaks
             \/ WaitForDone \/ WebEvalRefDone
    BY <2>4, EnterType
  <2>5. CASE Answer
    BY <2>5 DEF TypeOK, Answer, NoEffect, contextVars, diskVars
  <2>6. ASSUME NEW names \in SUBSET Refs,
               RefreshDone(names) \/ RefreshFails(names)
        PROVE  TypeOK'
    <3>1. request \in Running /\ request.ctx \in Contexts
      BY <2>6, RunningRequest DEF RefreshDone, RefreshFails, Running
    <3>2. SnapshotVarsOK'
      BY <2>6, <3>1, RefreshType DEF RefreshDone, RefreshFails
    <3>3. request' \in Running \cup Answered
      BY <2>6, <3>1, FinishType DEF RefreshDone, RefreshFails, Running
    <3> QED BY <3>2, <3>3 DEF TypeOK, SnapshotVarsOK
  <2>7. CASE \/ PressKey \/ ElementAction \/ SilentEffect \/ WebEval
             \/ ManageApp \/ QueryContext
             \/ \E w \in WebContexts : Navigate(w)
             \/ \E c \in Contexts : SwitchContext(c)
    BY <2>7, RefLessType
  <2>8. CASE Restart
    <3>1. Native \in Contexts /\ EmptyMap \in RefMaps
      BY DEF Contexts, EmptyMap, RefMaps
    <3>2. {currentId', latestAny'} \subseteq 0..Len(bundles') /\ loaded' = {}
      BY <2>8 DEF TypeOK, Restart, diskVars
    <3>3. /\ refMap' = EmptyMap /\ request' = Idle /\ stale' = {}
          /\ driverCtx' = Native /\ cachedCtx' = Native /\ spent' = FALSE
          /\ UNCHANGED <<ui, bundles, latestFor>>
      BY <2>8 DEF Restart, diskVars
    <3>4. since' \in [Contexts -> SUBSET EffectKinds]
      BY <2>8 DEF Restart
    <3> QED BY <3>1, <3>2, <3>3, <3>4 DEF TypeOK
  <2>9. CASE UNCHANGED vars
    BY <2>9 DEF TypeOK, vars, contextVars, resolverVars, diskVars
  <2> QED BY <2>1, <2>2, <2>3, <2>4, <2>5, <2>6, <2>7, <2>8, <2>9
          DEF Next, HandleRef
<1> QED BY <1>1, <1>2, PTL DEF Spec

-----------------------------------------------------------------------------
(* The map in memory and the flags. *)

\* What is on record since the snapshots, and the flags.
Tracked == MapTracked /\ FlagsKept /\ SpentIsFlagged

\* An effect is recorded, and flags are only added.
LEMMA AffectTracked ==
  ASSUME TypeOK, Tracked, NEW c \in Contexts, NEW flags \in SUBSET Contexts,
         Affect(c, flags), UNCHANGED refMap
  PROVE  MapTracked' /\ FlagsKept' /\ (UNCHANGED spent => SpentIsFlagged')
<1> DEFINE d == refMap.context
<1>1. d \in Contexts
  BY DEF TypeOK, RefMaps
<1>2. stale \subseteq stale' /\ flags \subseteq stale'
  BY DEF Affect
<1>3. \A e \in Contexts :
        since'[e] = since[e] \cup (IF e \in flags THEN {"flagged"} ELSE {})
                             \cup (IF e = c /\ c \notin flags
                                     THEN {"unflagged"} ELSE {})
  BY DEF Affect
<1>4. d # c => ui'[d] = ui[d]
  BY <1>1 DEF TypeOK, Affect
<1>5. ui'[d] # ui[d] => since'[d] # {}
  BY <1>1, <1>3, <1>4
<1>6. MapTracked'
  BY <1>1, <1>3, <1>5 DEF Tracked, MapTracked
<1>7. FlagsKept'
  <2> SUFFICES ASSUME NEW e \in Contexts, "flagged" \in since'[e]
               PROVE  e \in stale'
    BY DEF FlagsKept
  <2>1. "flagged" \in since[e] \/ e \in flags
    BY <1>3
  <2> QED BY <1>2, <2>1 DEF Tracked, FlagsKept
<1> QED BY <1>2, <1>6, <1>7 DEF Tracked, SpentIsFlagged

\* A step that leaves the map, the screens and the flags alone.
LEMMA QuietTracked ==
  ASSUME Tracked, UNCHANGED <<refMap, ui, stale, since, spent>>
  PROVE  Tracked'
BY DEF Tracked, MapTracked, FlagsKept, SpentIsFlagged

\* A fresh map is up to date, its context has no record and is not spent; the
\* flags of the other contexts stay.
LEMMA RegisterTracked ==
  ASSUME TypeOK, FlagsKept, NEW c \in Contexts, NEW names \in SUBSET Refs,
         Register(c, names), UNCHANGED ui
  PROVE  Tracked'
<1>1. refMap'.context = c /\ refMap'.seen = ui'[c] /\ spent' = FALSE
  BY DEF Register, FreshMap
<1>2. FlagsKept'
  <2> SUFFICES ASSUME NEW e \in Contexts, "flagged" \in since'[e]
               PROVE  e \in stale'
    BY DEF FlagsKept
  <2>1. e # c /\ "flagged" \in since[e]
    BY DEF TypeOK, Register
  <2> QED BY <2>1 DEF FlagsKept, Register
<1> QED BY <1>1, <1>2 DEF Tracked, MapTracked, SpentIsFlagged

\* refresh_snapshot keeps the map tracked, also when it fails half-way.
LEMMA RefreshTracked ==
  ASSUME TypeOK, Tracked, NEW c \in Contexts, NEW names \in SUBSET Refs,
         RefreshSnapshot(c, names) \/ RefreshUnread(c) \/ RefreshUnmarked(c, names)
  PROVE  Tracked'
<1>1. CASE RefreshUnread(c)
  BY <1>1, QuietTracked DEF RefreshUnread, NoEffect
<1>2. CASE RefreshSnapshot(c, names) \/ RefreshUnmarked(c, names)
  BY <1>2, RegisterTracked DEF RefreshSnapshot, RefreshUnmarked, Tracked
<1> QED BY <1>1, <1>2

\* The actions on a resolved element: only ActDone spends the map, and it flags
\* the context of the map it has looked the ref up in.
LEMMA EnterTracked ==
  ASSUME TypeOK, Tracked,
         ResolveFails \/ ToolRaises \/ ActDone \/ ActBreaks
           \/ WaitForDone \/ WebEvalRefDone
  PROVE  Tracked'
<1> DEFINE c == MapOf(request.sid).context
<1>1. Enter
  BY DEF ResolveFails, ToolRaises, ActDone, ActBreaks, WaitForDone, WebEvalRefDone
<1>2. /\ c \in Contexts /\ UNCHANGED refMap
      /\ driverCtx' \in Contexts /\ LandsIn \subseteq Contexts
  BY <1>1, EnterFacts
<1>3. CASE NoEffect /\ UNCHANGED spent
  BY <1>2, <1>3, QuietTracked DEF NoEffect
<1>4. CASE (\E d \in Contexts : Affect(d, {})) /\ UNCHANGED spent
  BY <1>2, <1>4, AffectTracked DEF Tracked
<1>5. CASE ActDone
  <2>1. PICK d \in Contexts : Affect(d, {c})
    BY <1>2, <1>5 DEF ActDone
  <2>2. MapTracked' /\ FlagsKept'
    BY <1>2, <2>1, AffectTracked
  <2>3. stale \subseteq stale' /\ c \in stale'
    BY <2>1 DEF Affect
  <2>4. request.sid = 0 => c = refMap.context
    BY DEF MapOf
  <2>5. SpentIsFlagged'
    BY <1>2, <1>5, <2>3, <2>4 DEF ActDone, Tracked, SpentIsFlagged
  <2> QED BY <2>2, <2>5 DEF Tracked
<1> QED BY <1>2, <1>3, <1>4, <1>5 DEF ResolveFails, ToolRaises, ActBreaks,
                                      WaitForDone, WebEvalRefDone

\* Tools without a ref keep the map tracked: what they change is recorded.
LEMMA RefLessTracked ==
  ASSUME TypeOK, Tracked,
         \/ PressKey \/ ElementAction \/ SilentEffect \/ WebEval \/ ManageApp
         \/ QueryContext
         \/ \E w \in WebContexts : Navigate(w)
         \/ \E c \in Contexts : SwitchContext(c)
  PROVE  Tracked'
<1>1. UNCHANGED <<refMap, spent>>
  BY DEF PressKey, ElementAction, SilentEffect, WebEval, ManageApp,
         QueryContext, Navigate, SwitchContext, RefLess
<1>2. NoEffect \/ \E c \in Contexts, flags \in SUBSET Contexts : Affect(c, flags)
  BY DEF TypeOK, PressKey, ElementAction, SilentEffect, WebEval, ManageApp,
         QueryContext, Navigate, SwitchContext, KeyLandsIn, Contexts
<1>3. CASE NoEffect
  BY <1>1, <1>3, QuietTracked DEF NoEffect
<1>4. CASE \E c \in Contexts, flags \in SUBSET Contexts : Affect(c, flags)
  BY <1>1, <1>4, AffectTracked DEF Tracked
<1> QED BY <1>2, <1>3, <1>4

-----------------------------------------------------------------------------
(* The request. *)

RequestSound == RunningIsHarmless /\ RetryIsUnflagged /\ RepliesTellTheTruth

\* The phases and fields that tell the kinds of request apart.
LEMMA RequestKinds ==
  /\ \A r \in Running : r.phase \in {"attempt", "refresh", "retry"}
  /\ \A r \in Answered : r.phase = "answered"
  /\ Idle.phase = "idle"
  /\ Idle \notin Running
BY DEF Running, Answered, Idle

\* An answer keeps the account of a request that had no effect so far.
LEMMA FinishSound ==
  ASSUME request \in Running, request.effects = 0,
         NEW status \in {"ok", "failed", "ref_missing"}, NEW effects \in {0, 1},
         Finish(status, effects),
         status = "ref_missing" => request.phase = "retry" /\ effects = 0,
         status = "ok" /\ request.tool \in ActingTools => effects = 1
  PROVE  RequestSound'
<1>1. /\ request'.phase = "answered" /\ request'.status = status
      /\ request'.effects = effects
  BY DEF Finish
<1>2. /\ request.phase = "retry" => request'.refreshed
      /\ request'.acting => request.tool \in ActingTools
  BY Zenon DEF Finish
<1>3. request' \notin Running
  BY <1>1, RequestKinds
<1> QED BY <1>1, <1>2, <1>3
        DEF RequestSound, RunningIsHarmless, RetryIsUnflagged, RepliesTellTheTruth

\* A tool that got its element answers with at most one effect.
LEMMA EnterSound ==
  ASSUME TypeOK, RequestSound,
         ResolveFails \/ ToolRaises \/ ActDone \/ ActBreaks
           \/ WaitForDone \/ WebEvalRefDone
  PROVE  RequestSound'
<1>1. Enter
  BY DEF ResolveFails, ToolRaises, ActDone, ActBreaks, WaitForDone, WebEvalRefDone
<1>2. request \in Running /\ request.effects = 0
  BY <1>1, EnterFacts DEF RequestSound, RunningIsHarmless
<1>3. CASE Finish("failed", 0) \/ Finish("failed", 1)
  BY <1>2, <1>3, FinishSound
<1>4. CASE FinishNotFound
  BY <1>2, <1>4, FinishSound DEF FinishNotFound
<1>5. CASE ActDone
  BY <1>2, <1>5, FinishSound DEF ActDone
<1>6. CASE request.tool \notin ActingTools
             /\ (Finish("ok", 0) \/ Finish("ok", 1))
  BY <1>2, <1>6, FinishSound
<1> QED BY <1>3, <1>4, <1>5, <1>6
        DEF ResolveFails, ToolRaises, ActBreaks, WaitForDone, WebEvalRefDone,
            ActingTools

\* A refused request has had no effect.
LEMMA RefuseSound ==
  ASSUME TypeOK, RequestSound, RefuseTool \/ RefUnknown \/ RefFlagged
  PROVE  RequestSound'
<1>1. request \in Running /\ request.effects = 0
  BY RunningRequest DEF RefuseTool, RefUnknown, RefFlagged, Resolving,
                        Attempting, RequestSound, RunningIsHarmless
<1>2. CASE Finish("failed", 0)
  BY <1>1, <1>2, FinishSound
<1>3. CASE FinishNotFound
  BY <1>1, <1>3, FinishSound DEF FinishNotFound
<1>4. CASE RefFlagged /\ request.phase = "attempt"
  <2>1. request'.phase = "refresh" /\ request'.effects = 0
    BY <1>1, <1>4 DEF RefFlagged, Running
  <2> QED BY <2>1 DEF RequestSound, RunningIsHarmless, RetryIsUnflagged,
                      RepliesTellTheTruth
<1> QED BY <1>2, <1>3, <1>4 DEF RefuseTool, RefUnknown, RefFlagged

\* Only here a retry begins: the map was just registered for the context of the
\* refused ref, and its flag is gone.
LEMMA RefreshSound ==
  ASSUME TypeOK, RequestSound, NEW names \in SUBSET Refs,
         RefreshDone(names) \/ RefreshFails(names)
  PROVE  RequestSound'
<1>1. request \in Running /\ request.effects = 0
  BY RunningRequest DEF RefreshDone, RefreshFails, RequestSound, RunningIsHarmless
<1>2. CASE RefreshFails(names)
  BY <1>1, <1>2, FinishSound DEF RefreshFails
<1>3. CASE RefreshDone(names)
  <2>1. /\ request'.phase = "retry" /\ request'.effects = 0
        /\ request'.ctx = request.ctx
    BY <1>1, <1>3 DEF RefreshDone, Running
  <2>2. refMap'.context = request.ctx /\ request.ctx \notin stale'
    BY <1>3 DEF RefreshDone, RefreshSnapshot, Register, FreshMap
  <2> QED BY <2>1, <2>2 DEF RequestSound, RunningIsHarmless, RetryIsUnflagged,
                            RepliesTellTheTruth
<1> QED BY <1>2, <1>3

\* A step after which no request is being handled.
LEMMA IdleSound ==
  ASSUME request' = Idle
  PROVE  RequestSound'
BY RequestKinds DEF RequestSound, RunningIsHarmless, RetryIsUnflagged,
                    RepliesTellTheTruth

-----------------------------------------------------------------------------
(* The inductive invariant. *)

IInv == TypeOK /\ Tracked /\ RequestSound

\* Every step keeps the invariant.
LEMMA Inductive == IInv /\ TypeOK' /\ [Next]_vars => IInv'
<1> SUFFICES ASSUME IInv, TypeOK', [Next]_vars PROVE Tracked' /\ RequestSound'
  BY DEF IInv
<1> USE DEF IInv
<1>1. ASSUME NEW c \in Contexts, NEW names \in SUBSET Refs,
             Snapshot(c, names) \/ SnapshotFails(c, names)
      PROVE  Tracked' /\ RequestSound'
  <2>1. Tracked'
    BY <1>1, RefreshTracked DEF Snapshot, SnapshotFails
  <2>2. request' = Idle
    BY <1>1 DEF Snapshot, SnapshotFails
  <2> QED BY <2>1, <2>2, IdleSound
<1>2. ASSUME NEW tool \in RefTools, NEW name \in Refs,
             NEW sid \in 0..MaxSnapshots, RefRequest(tool, name, sid)
      PROVE  Tracked' /\ RequestSound'
  <2>1. Tracked'
    BY <1>2, QuietTracked DEF RefRequest, NoEffect
  <2>2. request'.phase = "attempt" /\ request'.effects = 0
    BY <1>2 DEF RefRequest
  <2> QED BY <2>1, <2>2 DEF RequestSound, RunningIsHarmless, RetryIsUnflagged,
                            RepliesTellTheTruth
<1>3. CASE RefuseTool \/ RefUnknown \/ RefFlagged
  BY <1>3, RefuseSound, QuietTracked DEF RefuseTool, RefUnknown, RefFlagged, NoEffect
<1>4. CASE \/ ResolveFails \/ ToolRaises \/ ActDone \/ ActBreaks
           \/ WaitForDone \/ WebEvalRefDone
  BY <1>4, EnterSound, EnterTracked
<1>5. CASE Answer
  BY <1>5, IdleSound, QuietTracked DEF Answer, NoEffect
<1>6. ASSUME NEW names \in SUBSET Refs,
             RefreshDone(names) \/ RefreshFails(names)
      PROVE  Tracked' /\ RequestSound'
  <2>1. request.ctx \in Contexts
    BY <1>6, RunningRequest DEF RefreshDone, RefreshFails, Running
  <2>2. Tracked'
    BY <1>6, <2>1, RefreshTracked DEF RefreshDone, RefreshFails
  <2> QED BY <1>6, <2>2, RefreshSound
<1>7. CASE \/ PressKey \/ ElementAction \/ SilentEffect \/ WebEval
           \/ ManageApp \/ QueryContext
           \/ \E w \in WebContexts : Navigate(w)
           \/ \E c \in Contexts : SwitchContext(c)
  <2>1. Tracked'
    BY <1>7, RefLessTracked
  <2>2. request' = Idle
    BY <1>7 DEF PressKey, ElementAction, SilentEffect, WebEval, ManageApp,
                QueryContext, Navigate, SwitchContext, RefLess
  <2> QED BY <2>1, <2>2, IdleSound
<1>8. CASE Restart
  <2>1. refMap'.names = {} /\ spent' = FALSE /\ request' = Idle
    BY <1>8 DEF Restart, EmptyMap
  <2>2. FlagsKept'
    BY <1>8 DEF Restart, FlagsKept
  <2> QED BY <2>1, <2>2, IdleSound DEF Tracked, MapTracked, SpentIsFlagged
<1>9. CASE UNCHANGED vars
  <2>1. UNCHANGED <<refMap, ui, stale, since, spent, request>>
    BY <1>9 DEF vars, contextVars, resolverVars, diskVars
  <2> QED BY <2>1, QuietTracked DEF RequestSound, RunningIsHarmless,
                                    RetryIsUnflagged, RepliesTellTheTruth
<1> QED BY <1>1, <1>2, <1>3, <1>4, <1>5, <1>6, <1>7, <1>8, <1>9
        DEF Next, HandleRef

\* A daemon that starts satisfies the invariant.
LEMMA InitIInv == Init /\ TypeOK => IInv
<1> SUFFICES ASSUME Init, TypeOK PROVE Tracked /\ RequestSound
  BY DEF IInv
<1>1. refMap.names = {} /\ spent = FALSE /\ request = Idle
  BY DEF Init, EmptyMap
<1>2. FlagsKept
  BY DEF Init, FlagsKept
<1> QED BY <1>1, <1>2, RequestKinds
        DEF Tracked, MapTracked, SpentIsFlagged, RequestSound, RunningIsHarmless,
            RetryIsUnflagged, RepliesTellTheTruth

\* What every reachable state of RefLifecycle satisfies.
THEOREM Invariant == Spec => []IInv
<1>1. Spec => []TypeOK
  BY TypeCorrect
<1> QED BY <1>1, InitIInv, Inductive, PTL DEF Spec

-----------------------------------------------------------------------------
(* The properties. *)

\* Short refs that resolve without a refusal come from a snapshot of the screen
\* as the tools left it, unless a tool changed it without a flag.
THEOREM MapFreshOrFlaggedHolds == Spec => []MapFreshOrFlagged
<1>1. IInv => MapFreshOrFlagged
  <2> SUFFICES ASSUME IInv, refMap.names # {}, refMap.seen # ui[refMap.context],
                      "unflagged" \notin since[refMap.context]
               PROVE  refMap.context \in stale
    BY DEF MapFreshOrFlagged
  <2>1. since[refMap.context] \subseteq EffectKinds
    BY DEF IInv, TypeOK, RefMaps
  <2>2. since[refMap.context] # {}
    BY DEF IInv, Tracked, MapTracked
  <2>3. "flagged" \in since[refMap.context]
    BY <2>1, <2>2 DEF EffectKinds
  <2>4. refMap.context \in Contexts
    BY DEF IInv, TypeOK, RefMaps
  <2> QED BY <2>3, <2>4 DEF IInv, Tracked, FlagsKept
<1> QED BY <1>1, Invariant, PTL

\* As long as the daemon lives, a flag is only removed by a snapshot of its own
\* context.
THEOREM FlagsKeptHolds == Spec => []FlagsKept
<1>1. IInv => FlagsKept
  BY DEF IInv, Tracked
<1> QED BY <1>1, Invariant, PTL

\* The retry after an automatic refresh is not refused as stale again.
THEOREM RetryIsUnflaggedHolds == Spec => []RetryIsUnflagged
<1>1. IInv => RetryIsUnflagged
  BY DEF IInv, RequestSound
<1> QED BY <1>1, Invariant, PTL

\* A request touches the device at most once, and its answer says so.
THEOREM RepliesTellTheTruthHolds == Spec => []RepliesTellTheTruth
<1>1. IInv => RepliesTellTheTruth
  BY DEF IInv, RequestSound
<1> QED BY <1>1, Invariant, PTL

\* A short ref succeeds at most once between two snapshots.
THEOREM OneActPerSnapshotHolds == Spec => OneActPerSnapshot
<1>1. IInv /\ [Next]_vars => [ShortActDone => ~spent]_vars
  <2> SUFFICES ASSUME IInv, Next, ShortActDone PROVE ~spent
    OBVIOUS
  <2>1. request \in Running /\ request.phase \in {"attempt", "retry"}
        /\ request.sid = 0 /\ request.tool \in ActingTools
        /\ request'.phase = "answered" /\ request'.status = "ok"
    BY RunningRequest DEF IInv, ShortActDone, Attempting
  <2>2. ActDone
    <3>1. request # Idle /\ request.phase # "refresh" /\ request.phase # "answered"
      BY <2>1, RequestKinds
    <3>2. request' # request /\ request' # Idle
      BY <2>1, <3>1, RequestKinds
    <3>3. ~ (\E effects \in {0, 1} : Finish("failed", effects))
      BY <2>1 DEF Finish
    <3>4. ~ FinishNotFound
      BY <2>1 DEF FinishNotFound, Finish
    <3>5. ~ (RefuseTool \/ RefUnknown \/ ResolveFails \/ ToolRaises \/ ActBreaks)
      BY <3>3, <3>4 DEF RefuseTool, RefUnknown, ResolveFails, ToolRaises, ActBreaks
    <3>6. ~ (WaitForDone \/ WebEvalRefDone)
      BY <2>1 DEF WaitForDone, WebEvalRefDone, ActingTools
    <3>7. ~ RefFlagged
      <4>1. request.phase = "attempt" =>
              [request EXCEPT !.phase = "refresh",
                              !.ctx = MapOf(request.sid).context].phase = "refresh"
        BY <2>1 DEF Running
      <4> QED BY <2>1, <3>4, <4>1 DEF RefFlagged
    <3>8. ~ (Answer \/ \E names \in SUBSET Refs : RefreshDone(names) \/ RefreshFails(names))
      BY <3>1 DEF Answer, RefreshDone, RefreshFails
    <3>9. ~ (\/ \E c \in Contexts, names \in SUBSET Refs :
                   Snapshot(c, names) \/ SnapshotFails(c, names)
             \/ \E tool \in RefTools, name \in Refs, sid \in 0..MaxSnapshots :
                   RefRequest(tool, name, sid)
             \/ PressKey \/ ElementAction \/ SilentEffect \/ WebEval \/ ManageApp
             \/ QueryContext
             \/ \E w \in WebContexts : Navigate(w)
             \/ \E c \in Contexts : SwitchContext(c)
             \/ Restart)
      BY <3>1, <3>2 DEF Snapshot, SnapshotFails, RefRequest, PressKey,
         ElementAction, SilentEffect, WebEval, ManageApp, QueryContext,
         Navigate, SwitchContext, RefLess, Restart
    <3> QED BY <3>5, <3>6, <3>7, <3>8, <3>9 DEF Next, HandleRef
  <2>3. refMap.context \notin stale
    BY <2>1, <2>2, EnterFacts DEF IInv, ActDone, MapOf
  <2> QED BY <2>3 DEF IInv, Tracked, SpentIsFlagged
<1> QED BY <1>1, Invariant, PTL DEF Spec, OneActPerSnapshot
-----------------------------------------------------------------------------
(* RefLifecycle implements RefGrant. *)

\* The page is open while its context has no flag.
Open == refMap.context \notin stale

\* Reading the fields of a job.
LEMMA JobFields ==
  ASSUME NEW p, NEW n, NEW s, NEW a, NEW x,
         NEW j, j = [phase |-> p, name |-> n, short |-> s, acting |-> a, ctx |-> x]
  PROVE  /\ j.phase = p /\ j.name = n /\ j.short = s /\ j.acting = a
         /\ j.ctx = x
OBVIOUS

\* A request that still runs is a job with the same phase.
LEMMA JobRunning ==
  ASSUME request \in Running
  PROVE  /\ Job = [phase |-> request.phase, name |-> request.name,
                   short |-> request.sid = 0,
                   acting |-> request.tool \in ActingTools, ctx |-> request.ctx]
         /\ Job.phase = request.phase /\ Job.name = request.name
         /\ Job.short = (request.sid = 0)
         /\ Job.acting = (request.tool \in ActingTools)
         /\ Job.ctx = request.ctx
<1>1. request.phase # "idle" /\ request.phase # "answered"
  BY RequestKinds
<1>2. Job = [phase |-> request.phase, name |-> request.name,
             short |-> request.sid = 0,
             acting |-> request.tool \in ActingTools, ctx |-> request.ctx]
  BY <1>1, Zenon DEF Job
<1> QED BY <1>2, JobFields, Zenon

\* No request is no job.
LEMMA JobIdle ==
  /\ request = Idle => Job = Grant!NoJob
  /\ request' = Idle => Job' = Grant!NoJob
<1>1. Idle.phase = "idle" /\ Idle = Grant!NoJob
  BY DEF Idle, Grant!NoJob
<1> QED BY <1>1, Zenon DEF Job

\* The answer of a request that had no effect so far is the answer of the job.
LEMMA FinishReplies ==
  ASSUME request \in Running, request.effects = 0, NEW status,
         NEW effects \in {0, 1}, Finish(status, effects)
  PROVE  Grant!Reply(status, effects)
<1>1. /\ request'.phase = "answered" /\ request'.status = status
      /\ request'.effects = effects
  BY DEF Finish
<1>2. request'.acting = (request.tool \in ActingTools)
  BY Zenon DEF Finish
<1>3. Job' = [phase |-> "answered", status |-> status,
              acting |-> request.tool \in ActingTools, effects |-> effects]
  BY <1>1, <1>2, Zenon DEF Job
<1>4. Job.acting = (request.tool \in ActingTools)
  BY JobRunning, Zenon
<1> QED BY <1>3, <1>4, Zenon DEF Grant!Reply

\* A step on nothing the promise speaks of.
LEMMA GrantStutters ==
  ASSUME UNCHANGED <<ui, refMap, stale, request>>
  PROVE  UNCHANGED Grant!grantVars
<1>1. UNCHANGED Job
  BY Zenon DEF Job
<1>2. UNCHANGED Open
  BY Zenon DEF Open
<1> QED BY <1>1, <1>2, Zenon DEF Grant!grantVars, Open

\* What registers a map shows a page and opens it.
LEMMA RegisterShows ==
  ASSUME NEW c, NEW names, Register(c, names)
  PROVE  Grant!Show(c, names)
<1>1. refMap' = [context |-> c, names |-> names, seen |-> ui[c]]
  BY DEF Register, FreshMap
<1>2. Open' = TRUE
  BY <1>1 DEF Register, Open
<1> QED BY <1>1, <1>2, Zenon DEF Grant!Show, Open

\* An effect on the device; it may close the page and never opens it.
LEMMA AffectChanges ==
  ASSUME NEW c, NEW flags, Affect(c, flags), UNCHANGED refMap
  PROVE  /\ Grant!Changed(c)
         /\ Open' = (Open /\ refMap.context \notin flags)
<1>1. ui' = [ui EXCEPT ![c] = @ + 1] /\ stale' = stale \cup flags
  BY DEF Affect
<1> QED BY <1>1 DEF Grant!Changed, Open

\* Snapshots and tools without a ref.
LEMMA IdleGrants ==
  ASSUME TypeOK, request = Idle, request' = Idle, UNCHANGED refMap,
         NoEffect \/ \E c \in Contexts, flags \in SUBSET Contexts : Affect(c, flags)
  PROVE  [\E c \in Contexts : Grant!Tool(c)]_(Grant!grantVars)
<1>1. CASE NoEffect
  BY <1>1, GrantStutters DEF NoEffect
<1>2. ASSUME NEW c \in Contexts, NEW flags \in SUBSET Contexts, Affect(c, flags)
      PROVE  Grant!Tool(c)
  <2>1. Grant!Changed(c) /\ (Open' => Open)
    BY <1>2, AffectChanges, Zenon
  <2>2. UNCHANGED Job
    BY JobIdle
  <2> QED BY <2>1, <2>2, Zenon DEF Grant!Tool, Open
<1> QED BY <1>1, <1>2

\* A request that ends before its tool did anything.
LEMMA GivingUpGrants ==
  ASSUME request \in Running, request.effects = 0, Attempting,
         UNCHANGED <<ui, refMap, stale>>, Finish("failed", 0) \/ FinishNotFound
  PROVE  Grant!Try
<1>1. Job.phase = request.phase
  BY JobRunning
<1>2. UNCHANGED Open
  BY Zenon DEF Open
<1>3. \/ Grant!Reply("failed", 0)
      \/ request.phase = "retry" /\ Grant!Reply("ref_missing", 0)
  BY FinishReplies DEF FinishNotFound
<1>4. Grant!GiveUp
  BY <1>1, <1>2, <1>3, Zenon DEF Grant!GiveUp, Open
<1> QED BY <1>1, <1>4 DEF Grant!Try, Attempting

\* A flagged ref: its page is closed.
LEMMA FlaggedGrants ==
  ASSUME TypeOK, request \in Running, RefFlagged, request.phase = "attempt"
  PROVE  Grant!Try
<1> DEFINE c == MapOf(request.sid).context
<1>1. c \in Contexts
  BY KnownMap DEF RefFlagged
<1>2. request' = [request EXCEPT !.phase = "refresh", !.ctx = c]
  BY DEF RefFlagged
<1>3. UNCHANGED <<ui, refMap, stale>>
  BY DEF RefFlagged, NoEffect
<1>4. request.sid = 0 =>
        ~Open /\ c = refMap.context /\ request.name \in refMap.names
  BY DEF RefFlagged, Flagged, Known, MapOf, Open
<1> HIDE DEF c
<1>5. request' \in Running /\ request'.phase = "refresh" /\ request'.ctx = c
      /\ request'.name = request.name /\ request'.sid = request.sid
      /\ request'.tool = request.tool
  BY <1>1, <1>2 DEF Running
<1>6. Job' = [phase |-> "refresh", name |-> request.name,
              short |-> request.sid = 0,
              acting |-> request.tool \in ActingTools, ctx |-> c]
  BY <1>5, Zenon DEF Job
<1>7. /\ Job.phase = "attempt" /\ Job.name = request.name
      /\ Job.short = (request.sid = 0)
      /\ Job.acting = (request.tool \in ActingTools)
  BY JobRunning, Zenon
<1>8. Job' = [phase |-> "refresh", name |-> Job.name, short |-> Job.short,
              acting |-> Job.acting, ctx |-> c]
  BY <1>6, <1>7, Zenon
<1>9. Job.short => ~Open /\ c = refMap.context /\ Job.name \in refMap.names
  BY <1>4, <1>7
<1>10. UNCHANGED Open
  BY <1>3, Zenon DEF Open
<1>11. Grant!Refuse(c)
  BY <1>3, <1>7, <1>8, <1>9, <1>10, Zenon DEF Grant!Refuse, Open
<1> QED BY <1>1, <1>7, <1>11 DEF Grant!Try

\* The refresh, whether it succeeds or fails.
LEMMA RefreshGrants ==
  ASSUME TypeOK, request \in Running, request.effects = 0,
         NEW names \in SUBSET Refs, RefreshDone(names) \/ RefreshFails(names)
  PROVE  Grant!Renew(names) \/ Grant!RenewFails(names)
<1>1. Job = [phase |-> request.phase, name |-> request.name,
             short |-> request.sid = 0,
             acting |-> request.tool \in ActingTools, ctx |-> request.ctx]
  BY JobRunning
<1>2. request.phase = "refresh" /\ Job.phase = "refresh" /\ Job.ctx = request.ctx
  BY <1>1 DEF RefreshDone, RefreshFails
<1>3. CASE RefreshDone(names)
  <2>1. Grant!Show(request.ctx, names) /\ UNCHANGED ui
    BY <1>3, RegisterShows DEF RefreshDone, RefreshSnapshot
  <2>2. /\ request'.phase = "retry" /\ request'.name = request.name
        /\ request'.sid = request.sid /\ request'.tool = request.tool
        /\ request'.ctx = request.ctx
    BY <1>3 DEF RefreshDone, Running
  <2>3. Job' = [phase |-> "retry", name |-> request.name,
                short |-> request.sid = 0,
                acting |-> request.tool \in ActingTools, ctx |-> request.ctx]
    BY <2>2, Zenon DEF Job
  <2>4. Job' = [Job EXCEPT !.phase = "retry"]
    BY <1>1, <2>3
  <2> QED BY <1>2, <2>1, <2>4 DEF Grant!Renew
<1>4. CASE RefreshFails(names)
  <2>1. Grant!Reply("failed", 0)
    BY <1>4, FinishReplies DEF RefreshFails
  <2>2. CASE RefreshUnread(request.ctx)
    <3>1. UNCHANGED <<ui, refMap, stale>>
      BY <2>2 DEF RefreshUnread, NoEffect
    <3>2. UNCHANGED Open
      BY <3>1, Zenon DEF Open
    <3> QED BY <1>2, <2>1, <3>1, <3>2, Zenon DEF Grant!RenewFails, Open
  <2>3. CASE RefreshUnmarked(request.ctx, names)
    <3>1. Grant!Show(request.ctx, names) /\ UNCHANGED ui
      BY <2>3, RegisterShows DEF RefreshUnmarked
    <3> QED BY <1>2, <2>1, <3>1 DEF Grant!RenewFails
  <2> QED BY <1>4, <2>2, <2>3 DEF RefreshFails
<1> QED BY <1>3, <1>4

\* A ref that was resolved reaches its context through an open page.
LEMMA EnterReaches ==
  ASSUME TypeOK, Enter
  PROVE  /\ Job.phase \in {"attempt", "retry"}
         /\ Grant!Reaches(MapOf(request.sid).context)
         /\ Job.acting = (request.tool \in ActingTools)
<1>1. request \in Running
  BY EnterFacts
<1>2. /\ Job.phase = request.phase /\ Job.name = request.name
      /\ Job.short = (request.sid = 0)
      /\ Job.acting = (request.tool \in ActingTools)
  BY <1>1, JobRunning, Zenon
<1>3. Job.phase \in {"attempt", "retry"}
  BY <1>2 DEF Enter, Resolving, Attempting
<1>4. request.sid = 0 =>
        /\ refMap.context \notin stale
        /\ MapOf(request.sid).context = refMap.context
        /\ request.name \in refMap.names
  BY DEF Enter, Flagged, Known, MapOf
<1>5. Grant!Reaches(MapOf(request.sid).context)
  BY <1>2, <1>4, Zenon DEF Grant!Reaches
<1> QED BY <1>2, <1>3, <1>5

\* The steps on a resolved element.
LEMMA EnterGrants ==
  ASSUME TypeOK, RunningIsHarmless,
         ResolveFails \/ ToolRaises \/ ActDone \/ ActBreaks
           \/ WaitForDone \/ WebEvalRefDone
  PROVE  Grant!Try
<1> DEFINE c == MapOf(request.sid).context
<1>1. Enter
  BY DEF ResolveFails, ToolRaises, ActDone, ActBreaks, WaitForDone, WebEvalRefDone
<1>2. /\ request \in Running /\ request.effects = 0 /\ c \in Contexts /\ UNCHANGED refMap
      /\ driverCtx' \in Contexts /\ LandsIn \subseteq Contexts
  BY <1>1, EnterFacts DEF RunningIsHarmless
<1>3. /\ Job.phase \in {"attempt", "retry"} /\ Grant!Reaches(c)
      /\ Job.acting = (request.tool \in ActingTools)
  BY <1>1, EnterReaches
<1>4. CASE ResolveFails \/ ToolRaises
  <2>1. Attempting
    BY <1>1 DEF Enter, Resolving
  <2>2. Finish("failed", 0) \/ FinishNotFound
    BY <1>4 DEF ResolveFails, ToolRaises
  <2>3. UNCHANGED <<ui, stale>>
    BY <1>4 DEF ResolveFails, ToolRaises, NoEffect
  <2> QED BY <1>2, <2>1, <2>2, <2>3, GivingUpGrants
<1>5. CASE ActDone
  <2>1. PICK d \in Contexts : Affect(d, {c})
    BY <1>2, <1>5 DEF ActDone
  <2>2. Finish("ok", 1) /\ request.tool \in ActingTools
    BY <1>5 DEF ActDone
  <2> HIDE DEF c
  <2>3. Grant!Changed(d) /\ Open' = (Open /\ refMap.context \notin {c})
    BY <1>2, <2>1, AffectChanges
  <2>4. Open' = (Open /\ c # refMap.context)
    BY <2>3
  <2>5. Grant!Reply("ok", 1)
    BY <1>2, <2>2, FinishReplies
  <2>6. Grant!Act(c, d)
    BY <1>2, <1>3, <2>2, <2>3, <2>4, <2>5, Zenon DEF Grant!Act, Open
  <2> QED BY <1>2, <1>3, <2>6 DEF Grant!Try
<1>6. CASE /\ \E d \in Contexts : Affect(d, {})
           /\ \/ Finish("failed", 1)
              \/ Finish("ok", 1) /\ request.tool \notin ActingTools
  <2> HIDE DEF c
  <2>1. PICK d \in Contexts : Affect(d, {})
    BY <1>6
  <2>2. Grant!Changed(d) /\ Open' = (Open /\ refMap.context \notin {})
    BY <1>2, <2>1, AffectChanges
  <2>3. Open' = Open
    BY <2>2 DEF Open
  <2>4. ASSUME Finish("failed", 1) PROVE Grant!Touch(c, d)
    <3>1. Grant!Reply("failed", 1)
      BY <1>2, <2>4, FinishReplies
    <3> QED BY <1>2, <1>3, <2>2, <2>3, <3>1, Zenon DEF Grant!Touch, Open
  <2>5. ASSUME Finish("ok", 1), request.tool \notin ActingTools
        PROVE  Grant!Touch(c, d)
    <3>1. Grant!Reply("ok", 1)
      BY <1>2, <2>5, FinishReplies
    <3> QED BY <1>2, <1>3, <2>2, <2>3, <2>5, <3>1, Zenon DEF Grant!Touch, Open
  <2>6. Grant!Touch(c, d)
    BY <1>6, <2>4, <2>5
  <2> QED BY <1>2, <1>3, <2>6 DEF Grant!Try
<1>7. CASE NoEffect /\ Finish("ok", 0) /\ request.tool \notin ActingTools
  <2> HIDE DEF c
  <2>1. Grant!Reply("ok", 0)
    BY <1>2, <1>7, FinishReplies
  <2>2. UNCHANGED <<ui, stale>>
    BY <1>7 DEF NoEffect
  <2>3. UNCHANGED Open
    BY <1>2, <2>2, Zenon DEF Open
  <2>4. Grant!Look(c)
    BY <1>2, <1>3, <1>7, <2>1, <2>2, <2>3, Zenon DEF Grant!Look, Open
  <2> QED BY <1>2, <1>3, <2>4 DEF Grant!Try
<1> QED BY <1>2, <1>4, <1>5, <1>6, <1>7
        DEF ResolveFails, ToolRaises, ActBreaks, WaitForDone, WebEvalRefDone,
            ActingTools

\* A daemon starts as RefGrant does.
LEMMA GrantInitially == Init => Grant!GrantInit
<1> SUFFICES ASSUME Init PROVE Grant!GrantInit
  OBVIOUS
<1>1. Open = TRUE
  BY DEF Init, Open
<1>2. refMap = Grant!NoPage
  BY DEF Init, EmptyMap, Grant!NoPage
<1>3. Job = Grant!NoJob
  BY JobIdle DEF Init
<1>4. ui = [c \in Contexts |-> 0]
  BY DEF Init
<1> QED BY <1>1, <1>2, <1>3, <1>4, Zenon DEF Grant!GrantInit, Open

\* Every step of RefLifecycle is a step of RefGrant or changes nothing there.
LEMMA GrantStep == IInv /\ [Next]_vars => [Grant!GrantNext]_(Grant!grantVars)
<1> SUFFICES ASSUME IInv, [Next]_vars
             PROVE  [Grant!GrantNext]_(Grant!grantVars)
  OBVIOUS
<1>0. TypeOK /\ RunningIsHarmless
  BY DEF IInv, RequestSound
<1>1. ASSUME NEW c \in Contexts, NEW names \in SUBSET Refs,
             Snapshot(c, names) \/ SnapshotFails(c, names)
      PROVE  [Grant!GrantNext]_(Grant!grantVars)
  <2>1. request = Idle /\ request' = Idle
    BY <1>1 DEF Snapshot, SnapshotFails
  <2>2. CASE RefreshUnread(c)
    BY <2>1, <2>2, GrantStutters DEF RefreshUnread, NoEffect
  <2>3. CASE RefreshSnapshot(c, names) \/ RefreshUnmarked(c, names)
    <3>1. Grant!Show(c, names) /\ UNCHANGED ui
      BY <2>3, RegisterShows DEF RefreshSnapshot, RefreshUnmarked
    <3>2. Job = Grant!NoJob /\ UNCHANGED Job
      BY <2>1, JobIdle
    <3>3. Grant!Snapshot(c, names)
      BY <3>1, <3>2 DEF Grant!Snapshot
    <3> QED BY <3>2, <3>3 DEF Grant!GrantNext, Grant!Between
  <2> QED BY <1>1, <2>2, <2>3 DEF Snapshot, SnapshotFails
<1>2. ASSUME NEW tool \in RefTools, NEW name \in Refs,
             NEW sid \in 0..MaxSnapshots, RefRequest(tool, name, sid)
      PROVE  [Grant!GrantNext]_(Grant!grantVars)
  <2>1. /\ request = Idle /\ UNCHANGED <<ui, refMap, stale>>
        /\ request' = [phase |-> "attempt", tool |-> tool, name |-> name,
                       sid |-> sid, ctx |-> Native, effects |-> 0]
    BY <1>2 DEF RefRequest, NoEffect
  <2>2. Job = Grant!NoJob
    BY <2>1, JobIdle
  <2>3. /\ request'.phase = "attempt" /\ request'.name = name
        /\ request'.sid = sid /\ request'.tool = tool /\ request'.ctx = Native
    BY <2>1
  <2>4. Job' = [phase |-> "attempt", name |-> name, short |-> sid = 0,
                acting |-> tool \in ActingTools, ctx |-> Native]
    BY <2>3, Zenon DEF Job
  <2>5. UNCHANGED Open
    BY <2>1, Zenon DEF Open
  <2>6. Grant!Ask(name, sid = 0, tool \in ActingTools)
    BY <2>1, <2>2, <2>4, <2>5, Zenon DEF Grant!Ask, Open
  <2>7. (sid = 0) \in BOOLEAN /\ (tool \in ActingTools) \in BOOLEAN
    OBVIOUS
  <2> QED BY <2>2, <2>6, <2>7, Zenon DEF Grant!GrantNext, Grant!Between
<1>3. CASE RefuseTool \/ RefUnknown \/ RefFlagged
  <2>1. Attempting /\ UNCHANGED <<ui, refMap, stale>>
    BY <1>3 DEF RefuseTool, RefUnknown, RefFlagged, Resolving, NoEffect
  <2>2. request \in Running /\ request.effects = 0
    BY <1>0, <2>1, RunningRequest DEF Attempting, RunningIsHarmless
  <2>3. CASE Finish("failed", 0) \/ FinishNotFound
    BY <2>1, <2>2, <2>3, GivingUpGrants DEF Grant!GrantNext
  <2>4. CASE RefFlagged /\ request.phase = "attempt"
    BY <1>0, <2>2, <2>4, FlaggedGrants DEF Grant!GrantNext
  <2> QED BY <1>3, <2>3, <2>4 DEF RefuseTool, RefUnknown, RefFlagged
<1>4. CASE \/ ResolveFails \/ ToolRaises \/ ActDone \/ ActBreaks
           \/ WaitForDone \/ WebEvalRefDone
  BY <1>0, <1>4, EnterGrants DEF Grant!GrantNext
<1>5. CASE Answer
  <2>1. request' = Idle /\ request.phase = "answered" /\ UNCHANGED <<ui, refMap, stale>>
    BY <1>5 DEF Answer, NoEffect
  <2>2. Job.phase = "answered" /\ Job' = Grant!NoJob
    BY <2>1, JobIdle DEF Job
  <2>3. UNCHANGED Open
    BY <2>1, Zenon DEF Open
  <2>4. Grant!Deliver
    BY <2>1, <2>2, <2>3, Zenon DEF Grant!Deliver, Open
  <2> QED BY <2>4 DEF Grant!GrantNext
<1>6. ASSUME NEW names \in SUBSET Refs,
             RefreshDone(names) \/ RefreshFails(names)
      PROVE  [Grant!GrantNext]_(Grant!grantVars)
  <2>1. request \in Running /\ request.effects = 0
    BY <1>0, <1>6, RunningRequest DEF RefreshDone, RefreshFails, RunningIsHarmless
  <2> QED BY <1>0, <1>6, <2>1, RefreshGrants DEF Grant!GrantNext
<1>7. CASE \/ PressKey \/ ElementAction \/ SilentEffect \/ WebEval
           \/ ManageApp \/ QueryContext
           \/ \E w \in WebContexts : Navigate(w)
           \/ \E c \in Contexts : SwitchContext(c)
  <2>1. request = Idle /\ request' = Idle /\ UNCHANGED refMap
    BY <1>7 DEF PressKey, ElementAction, SilentEffect, WebEval, ManageApp,
                QueryContext, Navigate, SwitchContext, RefLess
  <2>2. NoEffect \/ \E c \in Contexts, flags \in SUBSET Contexts : Affect(c, flags)
    BY <1>0, <1>7 DEF TypeOK, PressKey, ElementAction, SilentEffect, WebEval,
       ManageApp, QueryContext, Navigate, SwitchContext, KeyLandsIn, Contexts
  <2>3. [\E c \in Contexts : Grant!Tool(c)]_(Grant!grantVars)
    BY <1>0, <2>1, <2>2, IdleGrants
  <2>4. Job = Grant!NoJob
    BY <2>1, JobIdle
  <2> QED BY <2>3, <2>4 DEF Grant!GrantNext, Grant!Between
<1>8. CASE Restart
  <2>1. refMap' = Grant!NoPage /\ request' = Idle /\ stale' = {} /\ UNCHANGED ui
    BY <1>8 DEF Restart, EmptyMap, Grant!NoPage
  <2>2. Open' = TRUE /\ Job' = Grant!NoJob
    BY <2>1, JobIdle DEF Open
  <2>3. Grant!Restart
    BY <2>1, <2>2, Zenon DEF Grant!Restart, Open
  <2> QED BY <2>3 DEF Grant!GrantNext
<1>9. CASE UNCHANGED vars
  BY <1>9, GrantStutters DEF vars, contextVars, resolverVars
<1> QED BY <1>1, <1>2, <1>3, <1>4, <1>5, <1>6, <1>7, <1>8, <1>9
        DEF Next, HandleRef

\* A client sees what RefGrant promises: only a snapshot lets short refs act, a
\* success uses them up, a request is refreshed once, has at most one effect and
\* says whether it had it.
THEOREM GrantSafetyHolds == Spec => GrantSafety
BY GrantInitially, GrantStep, Invariant, PTL
  DEF Spec, GrantSafety, Grant!GrantSpec
=============================================================================
