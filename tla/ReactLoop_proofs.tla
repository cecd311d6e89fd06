-------------------------- MODULE ReactLoop_proofs --------------------------
(***************************************************************************)
(* Proofs about ReactLoop for any tools, any arguments and screens and any *)
(* limits: the budgets a run keeps, its one terminal event, and what it    *)
(* has done when it reports success.                                       *)
(*                                                                         *)
(* The inductive invariant ties the loop's counters to the history they    *)
(* stand for: the turn of the last progress to the last call that          *)
(* succeeded, the answers without a call to the end of the detector's      *)
(* window, the recent results to the calls of the whole run.               *)
(***************************************************************************)
EXTENDS ReactLoop, SequenceTheorems, TLAPS

\* Outside a response there is no result, inside one the turn has a number.
TurnShape ==
  /\ pc = "turn" => calls = 0
  /\ pc \in {"act", "called"} => step > 0
  /\ pc = "called" => calls > 0

\* Progress is a call that succeeded, and in a turn it is recent.
ProgressIsSuccess ==
  /\ lastProgress <= okCalls
  /\ calls > 0 /\ primary.ok => okCalls = step
  /\ pc \in {"act", "called"} => step - lastProgress < MaxNoProgress

\* While no call has succeeded the recent results are failures, and a call of an
\* observation tool is one of them.
RecentTellsAll ==
  /\ okCalls = 0 => \A i \in DOMAIN recent : ~recent[i]
  /\ observed => Len(recent) >= 1

NoTool(i) == window[i].action = "no_tool"

\* The window ends with at most as many answers without a call as were counted.
SilenceCounted ==
  pc # "ended" =>
    /\ noCalls < 3
    /\ \A i \in DOMAIN window :
         (\A j \in i..Len(window) : NoTool(j)) => Len(window) - i < noCalls

\* Before the end there is no outcome.
OutcomeAtEnd ==
  /\ pc # "ended" => ~outcome.success /\ ~outcome.verified
  /\ events.complete = IF outcome.verified THEN 1 ELSE 0
  /\ outcome.success => outcome.verified

IInv ==
  /\ TypeOK
  /\ TurnShape
  /\ ProgressIsSuccess
  /\ RecentTellsAll
  /\ SilenceCounted
  /\ OutcomeAtEnd
  /\ RetryBudget
  /\ OneTerminalEvent
  /\ StuckRunsEnd
  /\ SuccessHasEvidence

-----------------------------------------------------------------------------
(* Keeping the end of a sequence. *)

\* How many elements of a sequence of k, and a new one, are dropped to keep n.
Dropped(k, n) == IF k + 1 > n THEN (k + 1) - n ELSE 0

\* t is the end of s with e behind it.
IsEnd(t, s, e, n) ==
  /\ Dropped(Len(s), n) \in Nat
  /\ Len(t) = (Len(s) + 1) - Dropped(Len(s), n)
  /\ Len(t) > 0 => t[Len(t)] = e
  /\ \A i \in 1..(Len(t) - 1) :
       /\ i + Dropped(Len(s), n) \in 1..Len(s)
       /\ t[i] = s[i + Dropped(Len(s), n)]

\* What is kept of a sequence with a new last element is its end, in its order.
LEMMA KeptEnd ==
  ASSUME NEW S, NEW s \in Seq(S), NEW e \in S, NEW n \in Nat
  PROVE  /\ Keep(Append(s, e), n) \in Seq(S)
         /\ Len(Keep(Append(s, e), n)) <= n
         /\ IsEnd(Keep(Append(s, e), n), s, e, n)
<1> DEFINE a == Append(s, e)
           t == Keep(a, n)
           off == Dropped(Len(s), n)
<1>1. /\ a \in Seq(S) /\ Len(a) = Len(s) + 1 /\ Len(s) \in Nat
      /\ a[Len(a)] = e /\ \A i \in 1..Len(s) : a[i] = s[i]
  OBVIOUS
<1>2. off \in 0..Len(a) /\ t = SubSeq(a, off + 1, Len(a)) /\ Len(a) - off <= n
  BY <1>1 DEF Keep, Dropped
<1>3. \A i \in (off + 1)..Len(a) : a[i] \in S
  BY <1>1, <1>2, ElementOfSeq
<1> HIDE DEF a, t, off
<1>4. /\ t \in Seq(S)
      /\ Len(t) = Len(a) - off
      /\ \A i \in 1..(Len(a) - off) : t[i] = a[off + i]
  <2>1. Len(a) \in Int /\ off + 1 \in Int
    BY <1>1, <1>2
  <2>2. /\ t \in Seq(S)
        /\ Len(t) = IF off + 1 <= Len(a) THEN Len(a) - (off + 1) + 1 ELSE 0
        /\ \A i \in 1..(Len(a) - (off + 1) + 1) : t[i] = a[off + 1 + i - 1]
    BY <1>2, <1>3, <2>1, SubSeqProperties
  <2> QED BY <1>1, <1>2, <2>2
<1>5. Len(t) > 0 => t[Len(t)] = e
  <2>1. /\ off + Len(t) = Len(a) /\ Len(t) \in Nat
        /\ Len(t) > 0 => Len(t) \in 1..(Len(a) - off)
    BY <1>1, <1>2, <1>4
  <2> QED BY <1>1, <1>4, <2>1
<1>6. \A i \in 1..(Len(t) - 1) : i + off \in 1..Len(s) /\ t[i] = s[i + off]
  BY <1>1, <1>2, <1>4
<1>7. Len(t) <= n /\ off \in Nat /\ Len(t) = (Len(s) + 1) - off
  BY <1>1, <1>2, <1>4
<1>8. IsEnd(t, s, e, n)
  BY <1>5, <1>6, <1>7 DEF off, IsEnd
<1> QED BY <1>4, <1>7, <1>8 DEF t, a

-----------------------------------------------------------------------------
(* Types. *)

\* The recent results are the end of what they were and the new one.
LEMMA RecordedEnd ==
  ASSUME TypeOK, NEW t, NEW ok \in BOOLEAN, Recorded(t, ok)
  PROVE  recent' \in Seq(BOOLEAN) /\ Len(recent') <= 5 /\ IsEnd(recent', recent, ok, 5)
<1>1. recent' = Keep(Append(recent, ok), 5)
  BY DEF Recorded
<1>2. recent \in Seq(BOOLEAN)
  BY DEF TypeOK
<1>3. \A S : recent \in Seq(S) /\ ok \in S =>
        recent' \in Seq(S) /\ Len(recent') <= 5 /\ IsEnd(recent', recent, ok, 5)
  BY <1>1, KeptEnd
<1> QED BY <1>2, <1>3

\* Recording a call keeps the memory of recent results within its types.
LEMMA RecordedTypes ==
  ASSUME TypeOK, NEW t \in Tools, NEW ok \in BOOLEAN, Recorded(t, ok)
  PROVE  /\ recent' \in Seq(BOOLEAN) /\ Len(recent') <= 5
         /\ observed' \in BOOLEAN
         /\ okCalls' \in {okCalls, step}
<1>1. recent' \in Seq(BOOLEAN) /\ Len(recent') <= 5
  BY RecordedEnd
<1>2. observed' \in BOOLEAN
  BY DEF Recorded
<1>3. okCalls' \in {okCalls, step}
  BY DEF Recorded
<1> QED BY <1>1, <1>2, <1>3

\* The window is the end of what it was and the new entry.
LEMMA RecordEnd ==
  ASSUME TypeOK, NEW a \in Tools \cup {"no_tool"}, NEW x \in Args \cup {None},
         NEW s \in Screens \cup {None}, Record(a, x, s)
  PROVE  /\ window' \in Seq(Entries) /\ Len(window') <= WindowSize
         /\ IsEnd(window', window, [action |-> a, args |-> x, screen |-> s], WindowSize)
<1> DEFINE e == [action |-> a, args |-> x, screen |-> s]
<1>1. e \in Entries
  BY DEF Entries
<1>2. window \in Seq(Entries) /\ WindowSize \in Nat
  BY LimitsAssumption DEF TypeOK
<1>3. window' = Keep(Append(window, e), WindowSize)
  BY DEF Record
<1> HIDE DEF e
<1>4. /\ window' \in Seq(Entries) /\ Len(window') <= WindowSize
      /\ IsEnd(window', window, e, WindowSize)
  BY <1>1, <1>2, <1>3, KeptEnd
<1> QED BY <1>4 DEF e

-----------------------------------------------------------------------------
(* What the actions have in common. *)

\* The run ends without a success, and nothing else happens.
Stops ==
  /\ \E by \in {"wall_time", "no_progress", "turns", "runner"} : End(by, FALSE, FALSE)
  /\ UNCHANGED <<counters, memoryVars, detectorVars, reflection, turnVars, screen>>

\* What every call does, and what it does to the memory of the run.
CallEffect(t, a, ok) ==
  /\ pc = "act" /\ calls < MaxCalls
  /\ calls' = calls + 1
  /\ \E s \in Screens :
       primary' = [tool |-> t, args |-> a, ok |-> ok, screen |-> s]
  /\ UNCHANGED <<pc, counters, detectorVars, reflection, screen, endVars>>
  /\ \/ ~ok /\ UNCHANGED memoryVars
     \/ /\ Recorded(t, ok)
        /\ t \notin blocked
        /\ \/ UNCHANGED <<retries, blocked>>
           \/ /\ ~ok /\ BlockAt(t)
              /\ UNCHANGED retries \/ retries' = [retries EXCEPT ![t] = @ + 1]

LEMMA CallHasEffect ==
  ASSUME NEW t \in Tools, NEW a \in Args, Call(t, a)
  PROVE  \E ok \in BOOLEAN : CallEffect(t, a, ok)
<1>1. CASE CallBlockedTool(t, a)
  BY <1>1 DEF CallBlockedTool, CallEffect, CanCall, Returns
<1>2. CASE CallRefused(t, a)
  BY <1>2 DEF CallRefused, CallEffect, CanCall, Returns
<1>3. CASE CallNotExecuted(t, a)
  BY <1>3 DEF CallNotExecuted, CallEffect, CanCall, Returns, Dispatched
<1>4. CASE CallFails(t, a)
  BY <1>4 DEF CallFails, CallEffect, CanCall, Returns, Dispatched
<1>5. CASE CallSucceeds(t, a)
  BY <1>5 DEF CallSucceeds, CallEffect, CanCall, Returns, Dispatched
<1> QED BY <1>1, <1>2, <1>3, <1>4, <1>5 DEF Call

\* After the brain's report the loop goes on, is done, or gives up.
BrainEffect ==
  /\ pc = "called" /\ TakeResult
  /\ attempts' \in {attempts, attempts + 1}
  /\ \/ pc' = "turn" /\ UNCHANGED endVars
     \/ \E success \in BOOLEAN : GuardPasses(success) /\ End("done", success, TRUE)
     \/ End("rejected", FALSE, FALSE)
  /\ reflection' \in {reflection, "invalid", "feedback", "loop"}

LEMMA BrainHasEffect == Brain => BrainEffect
<1>1. BrainInvalid => BrainEffect
  BY DEF BrainInvalid, BrainEffect, Reflect
<1>2. BrainContinues => BrainEffect
  BY DEF BrainContinues, BrainEffect, Reflect
<1>3. ASSUME NEW success \in BOOLEAN, BrainDone(success)
      PROVE  BrainEffect
  BY <1>3 DEF BrainDone, BrainEffect
<1>4. ASSUME NEW success \in BOOLEAN, BrainRejected(success)
      PROVE  BrainEffect
  BY <1>4 DEF BrainRejected, BrainEffect, Reflect
<1> QED BY <1>1, <1>2, <1>3, <1>4 DEF Brain

\* A step is one of these.
LEMMA StepKinds ==
  ASSUME [Next]_vars
  PROVE  \/ BeginTurn
         \/ Stops /\ pc # "ended"
         \/ NoToolCall
         \/ \E t \in Tools, a \in Args, ok \in BOOLEAN : CallEffect(t, a, ok)
         \/ CallsDone
         \/ BrainEffect
         \/ UNCHANGED vars
<1>1. WallTimeExceeded => Stops /\ pc # "ended"
  BY DEF WallTimeExceeded, Stops, TurnsLeft
<1>2. NoProgress => Stops /\ pc # "ended"
  BY DEF NoProgress, Stops, TurnsLeft
<1>3. TurnsExceeded => Stops /\ pc # "ended"
  BY DEF TurnsExceeded, Stops
<1>4. RunnerFails => Stops /\ pc # "ended"
  BY DEF RunnerFails, Stops
<1> QED BY <1>1, <1>2, <1>3, <1>4, CallHasEffect, BrainHasEffect DEF Next, Ended

-----------------------------------------------------------------------------
(* Every step keeps the types. *)

LEMMA EndTypes ==
  ASSUME TypeOK, NEW by \in Endings, NEW success \in BOOLEAN,
         NEW verified \in BOOLEAN, End(by, success, verified)
  PROVE  /\ pc' = "ended"
         /\ outcome' \in [by : Endings, success : BOOLEAN, verified : BOOLEAN]
         /\ events' \in [complete : Nat, failed : Nat]
BY DEF TypeOK, End

LEMMA TypeInit == Init => TypeOK
<1> SUFFICES ASSUME Init PROVE TypeOK
  OBVIOUS
<1>1. /\ pc = "turn" /\ step \in 0..MaxTurns /\ lastProgress \in 0..step /\ okCalls \in 0..step
      /\ noCalls \in 0..3 /\ attempts \in Nat /\ warnings \in 0..3 /\ calls \in 0..MaxCalls
  BY LimitsAssumption DEF Init
<1>2. recent \in Seq(BOOLEAN) /\ window \in Seq(Entries) /\ observed \in BOOLEAN
  <2>1. \A S : recent \in Seq(S) /\ window \in Seq(S)
    BY EmptySeq DEF Init
  <2>2. observed \in BOOLEAN
    BY DEF Init
  <2> QED BY <2>1, <2>2
<1>3. /\ events \in [complete : Nat, failed : Nat]
      /\ outcome \in [by : Endings, success : BOOLEAN, verified : BOOLEAN]
  BY DEF Init, Endings
<1>4. blocked \subseteq Acting /\ retries \in [Tools -> Nat]
  BY DEF Init
<1>5. Len(recent) <= 5 /\ Len(window) <= WindowSize
  BY LimitsAssumption DEF Init
<1>6. /\ reflection \in {"none", "no_tool", "invalid", "feedback", "loop"}
      /\ primary = None /\ calls = 0 /\ screen = None
  BY DEF Init
<1> QED BY <1>1, <1>2, <1>3, <1>4, <1>5, <1>6 DEF TypeOK

LEMMA TypeStep ==
  ASSUME IInv, [Next]_vars
  PROVE  TypeOK'
<1> USE DEF memoryVars, counters, detectorVars, turnVars, endVars
<1>0. TypeOK /\ LimitsAssumption
  BY LimitsAssumption DEF IInv
<1>1. CASE BeginTurn
  BY <1>0, <1>1, LimitsAssumption DEF BeginTurn, TypeOK, TurnsLeft, Detect
<1>2. CASE Stops
  <2>1. PICK by \in {"wall_time", "no_progress", "turns", "runner"} : End(by, FALSE, FALSE)
    BY <1>2 DEF Stops
  <2>2. by \in Endings
    BY DEF Endings
  <2>3. /\ pc' = "ended" /\ events' \in [complete : Nat, failed : Nat]
        /\ outcome' \in [by : Endings, success : BOOLEAN, verified : BOOLEAN]
    BY <1>0, <2>1, <2>2, EndTypes
  <2> QED BY <1>0, <1>2, <2>3 DEF Stops, TypeOK
<1>3. CASE NoToolCall
  <2>1. Record("no_tool", None, screen) /\ screen \in Screens \cup {None}
    BY <1>0, <1>3 DEF NoToolCall, TypeOK
  <2>2. window' \in Seq(Entries) /\ Len(window') <= WindowSize
    BY <1>0, <2>1, RecordEnd
  <2>3. noCalls < 3
    BY <1>3 DEF IInv, SilenceCounted, NoToolCall
  <2>4. /\ pc' \in {"turn", "act", "called", "ended"}
        /\ outcome' \in [by : Endings, success : BOOLEAN, verified : BOOLEAN]
        /\ events' \in [complete : Nat, failed : Nat]
    <3>1. CASE pc' = "turn" /\ UNCHANGED endVars
      BY <1>0, <3>1 DEF TypeOK
    <3>2. CASE End("no_tool", FALSE, FALSE)
      <4>1. "no_tool" \in Endings
        BY DEF Endings
      <4> QED BY <1>0, <3>2, <4>1, EndTypes
    <3> QED BY <1>3, <3>1, <3>2 DEF NoToolCall
  <2> QED BY <1>0, <1>3, <2>2, <2>3, <2>4 DEF NoToolCall, TypeOK
<1>4. ASSUME NEW t \in Tools, NEW a \in Args, NEW ok \in BOOLEAN, CallEffect(t, a, ok)
      PROVE  TypeOK'
  <2>1. primary' \in Results /\ calls' \in 0..MaxCalls /\ calls' > 0
    BY <1>0, <1>4, LimitsAssumption DEF CallEffect, TypeOK, Results
  <2>2. /\ recent' \in Seq(BOOLEAN) /\ Len(recent') <= 5 /\ observed' \in BOOLEAN
        /\ okCalls' \in 0..step
    BY <1>0, <1>4, RecordedTypes DEF CallEffect, TypeOK
  <2>3. retries' \in [Tools -> Nat]
    BY <1>0, <1>4 DEF CallEffect, TypeOK, Recorded
  <2>4. blocked' \subseteq Acting
    BY <1>0, <1>4 DEF CallEffect, TypeOK, BlockAt, Acting
  <2> QED BY <1>0, <1>4, <2>1, <2>2, <2>3, <2>4 DEF CallEffect, TypeOK
<1>5. CASE CallsDone
  BY <1>0, <1>5 DEF CallsDone, TypeOK
<1>6. CASE BrainEffect
  <2>1. TakeResult /\ primary \in Results
    BY <1>6 DEF BrainEffect, IInv, TypeOK, TurnShape
  <2>2. window' \in Seq(Entries) /\ Len(window') <= WindowSize
    BY <1>0, <2>1, RecordEnd DEF TakeResult, Results
  <2>3. /\ pc' \in {"turn", "act", "called", "ended"}
        /\ outcome' \in [by : Endings, success : BOOLEAN, verified : BOOLEAN]
        /\ events' \in [complete : Nat, failed : Nat]
    <3>1. CASE pc' = "turn" /\ UNCHANGED endVars
      BY <1>0, <3>1 DEF TypeOK
    <3>2. ASSUME NEW by \in {"done", "rejected"}, NEW success \in BOOLEAN,
                 NEW verified \in BOOLEAN, End(by, success, verified)
          PROVE  /\ pc' \in {"turn", "act", "called", "ended"}
                 /\ outcome' \in [by : Endings, success : BOOLEAN, verified : BOOLEAN]
                 /\ events' \in [complete : Nat, failed : Nat]
      BY <1>0, <3>2, EndTypes DEF Endings
    <3> QED BY <1>6, <3>1, <3>2 DEF BrainEffect
  <2>4. /\ lastProgress' \in 0..step' /\ step' \in 0..MaxTurns /\ okCalls' \in 0..step'
        /\ noCalls' \in 0..3 /\ screen' \in Screens \cup {None}
        /\ attempts' \in Nat /\ primary' = None /\ calls' = 0
    BY <1>0, <1>6, <2>1, LimitsAssumption DEF BrainEffect, TakeResult, TypeOK, Results
  <2> QED BY <1>0, <1>6, <2>1, <2>2, <2>3, <2>4, LimitsAssumption DEF BrainEffect, TakeResult, TypeOK
<1>7. CASE UNCHANGED vars
  BY <1>0, <1>7 DEF vars, TypeOK
<1> QED BY <1>1, <1>2, <1>3, <1>4, <1>5, <1>6, <1>7, StepKinds

-----------------------------------------------------------------------------
(* Every step keeps the other parts of the invariant. *)

\* In the proofs that follow the groups of variables are expanded.
LEMMA CallFrame ==
  ASSUME NEW t, NEW a, NEW ok, CallEffect(t, a, ok)
  PROVE  /\ pc = "act" /\ pc' = pc /\ calls' = calls + 1
         /\ primary'.ok = ok
         /\ UNCHANGED <<step, lastProgress, noCalls, attempts, warnings, window,
                        reflection, screen, events, outcome>>
BY DEF CallEffect, counters, detectorVars, endVars

LEMMA BrainFrame ==
  ASSUME BrainEffect
  PROVE  /\ pc = "called" /\ TakeResult
         /\ noCalls' = 0 /\ calls' = 0
         /\ lastProgress' = IF primary.ok THEN step ELSE lastProgress
         /\ pc' \in {"turn", "ended"}
         /\ UNCHANGED <<step, warnings, blocked, retries, recent, observed, okCalls>>
BY DEF BrainEffect, TakeResult, memoryVars, End

LEMMA StopsFrame ==
  ASSUME Stops
  PROVE  /\ pc' = "ended"
         /\ UNCHANGED <<step, lastProgress, noCalls, attempts, blocked, retries,
                        recent, observed, okCalls, warnings, window, calls, primary>>
BY DEF Stops, End, counters, memoryVars, detectorVars, turnVars

LEMMA ShapeStep ==
  ASSUME IInv, [Next]_vars
  PROVE  TurnShape'
<1>0. TypeOK /\ TurnShape
  BY DEF IInv
<1>1. CASE BeginTurn
  BY <1>0, <1>1 DEF BeginTurn, TurnShape, TypeOK
<1>2. CASE Stops
  BY <1>2, StopsFrame DEF TurnShape
<1>3. CASE NoToolCall
  BY <1>0, <1>3 DEF NoToolCall, TurnShape, End, turnVars
<1>4. ASSUME NEW t \in Tools, NEW a \in Args, NEW ok \in BOOLEAN, CallEffect(t, a, ok)
      PROVE  TurnShape'
  BY <1>0, <1>4, CallFrame DEF TurnShape, TypeOK
<1>5. CASE CallsDone
  BY <1>0, <1>5 DEF CallsDone, TurnShape, counters, turnVars
<1>6. CASE BrainEffect
  BY <1>0, <1>6, BrainFrame DEF TurnShape
<1>7. CASE UNCHANGED vars
  BY <1>0, <1>7 DEF vars, counters, turnVars, TurnShape
<1> QED BY <1>1, <1>2, <1>3, <1>4, <1>5, <1>6, <1>7, StepKinds

LEMMA ProgressStep ==
  ASSUME IInv, [Next]_vars
  PROVE  ProgressIsSuccess'
<1>0. TypeOK /\ TurnShape /\ ProgressIsSuccess /\ LimitsAssumption
  BY LimitsAssumption DEF IInv
<1>1. CASE BeginTurn
  BY <1>0, <1>1, LimitsAssumption
     DEF BeginTurn, TurnsLeft, Stuck, TurnShape, TypeOK, ProgressIsSuccess, memoryVars, turnVars
<1>2. CASE Stops
  BY <1>0, <1>2, StopsFrame DEF ProgressIsSuccess
<1>3. CASE NoToolCall
  BY <1>0, <1>3 DEF NoToolCall, ProgressIsSuccess, End, memoryVars, turnVars
<1>4. ASSUME NEW t \in Tools, NEW a \in Args, NEW ok \in BOOLEAN, CallEffect(t, a, ok)
      PROVE  ProgressIsSuccess'
  <2>1. okCalls' = IF ok THEN step ELSE okCalls
    BY <1>4 DEF CallEffect, Recorded, memoryVars
  <2> QED BY <1>0, <1>4, <2>1, CallFrame DEF ProgressIsSuccess, TypeOK
<1>5. CASE CallsDone
  BY <1>0, <1>5 DEF CallsDone, ProgressIsSuccess, counters, turnVars, memoryVars
<1>6. CASE BrainEffect
  BY <1>0, <1>6, BrainFrame DEF ProgressIsSuccess, TurnShape, TypeOK
<1>7. CASE UNCHANGED vars
  BY <1>0, <1>7 DEF vars, counters, turnVars, memoryVars, ProgressIsSuccess
<1> QED BY <1>1, <1>2, <1>3, <1>4, <1>5, <1>6, <1>7, StepKinds

\* Recording a result keeps the memory truthful.
LEMMA RecordedTells ==
  ASSUME TypeOK, RecentTellsAll, step > 0, NEW t, NEW ok \in BOOLEAN, Recorded(t, ok)
  PROVE  RecentTellsAll'
<1>1. recent' \in Seq(BOOLEAN) /\ Len(recent') <= 5 /\ IsEnd(recent', recent, ok, 5)
  BY RecordedEnd
<1>2. recent \in Seq(BOOLEAN) /\ Len(recent) <= 5
  BY DEF TypeOK
<1>3. /\ Len(recent') = (Len(recent) + 1) - Dropped(Len(recent), 5)
      /\ Len(recent') > 0 => recent'[Len(recent')] = ok
      /\ \A i \in 1..(Len(recent') - 1) :
           /\ i + Dropped(Len(recent), 5) \in 1..Len(recent)
           /\ recent'[i] = recent[i + Dropped(Len(recent), 5)]
  BY <1>1 DEF IsEnd
<1>4. Len(recent) \in Nat /\ Len(recent') \in Nat /\ Len(recent') > 0
  <2>1. Len(recent) \in Nat /\ Len(recent') \in Nat
    BY <1>1, <1>2, LenProperties
  <2>2. Dropped(Len(recent), 5) < Len(recent) + 1
    BY <2>1, <1>2 DEF Dropped
  <2>3. Dropped(Len(recent), 5) \in Nat
    BY <2>1, <1>2 DEF Dropped
  <2> QED BY <2>1, <2>2, <2>3, <1>3
<1>5. ASSUME okCalls' = 0, NEW i \in DOMAIN recent'
      PROVE  ~recent'[i]
  <2>1. ~ok /\ okCalls = 0
    BY <1>5 DEF Recorded, TypeOK
  <2>2. i \in 1..Len(recent')
    BY <1>1
  <2>3. CASE i = Len(recent')
    BY <1>3, <1>4, <2>1, <2>3
  <2>4. CASE i # Len(recent')
    BY <1>3, <1>4, <2>1, <2>2, <2>4 DEF RecentTellsAll
  <2> QED BY <2>3, <2>4
<1> QED BY <1>4, <1>5 DEF RecentTellsAll

LEMMA RecentStep ==
  ASSUME IInv, [Next]_vars
  PROVE  RecentTellsAll'
<1>0. TypeOK /\ TurnShape /\ RecentTellsAll
  BY DEF IInv
<1>1. CASE BeginTurn
  BY <1>0, <1>1 DEF BeginTurn, RecentTellsAll, memoryVars
<1>2. CASE Stops
  BY <1>0, <1>2, StopsFrame DEF RecentTellsAll
<1>3. CASE NoToolCall
  BY <1>0, <1>3 DEF NoToolCall, RecentTellsAll, memoryVars
<1>4. ASSUME NEW t \in Tools, NEW a \in Args, NEW ok \in BOOLEAN, CallEffect(t, a, ok)
      PROVE  RecentTellsAll'
  <2>1. CASE UNCHANGED memoryVars
    BY <1>0, <2>1 DEF RecentTellsAll, memoryVars
  <2>2. CASE Recorded(t, ok)
    BY <1>0, <1>4, <2>2, RecordedTells, CallFrame DEF TurnShape
  <2> QED BY <1>4, <2>1, <2>2 DEF CallEffect
<1>5. CASE CallsDone
  BY <1>0, <1>5 DEF CallsDone, RecentTellsAll, memoryVars
<1>6. CASE BrainEffect
  BY <1>0, <1>6, BrainFrame DEF RecentTellsAll
<1>7. CASE UNCHANGED vars
  BY <1>0, <1>7 DEF vars, memoryVars, RecentTellsAll
<1> QED BY <1>1, <1>2, <1>3, <1>4, <1>5, <1>6, <1>7, StepKinds

\* The end of a window with a new entry: the entries behind it moved together.
LEMMA WindowEnd ==
  ASSUME TypeOK, NEW a \in Tools \cup {"no_tool"}, NEW x \in Args \cup {None},
         NEW s \in Screens \cup {None}, Record(a, x, s)
  PROVE  \E off \in Nat :
           /\ Len(window') = (Len(window) + 1) - off
           /\ Len(window') > 0 => window'[Len(window')].action = a
           /\ \A i \in 1..(Len(window') - 1) :
                i + off \in 1..Len(window) /\ window'[i] = window[i + off]
<1> DEFINE off == Dropped(Len(window), WindowSize)
<1>1. IsEnd(window', window, [action |-> a, args |-> x, screen |-> s], WindowSize)
  BY RecordEnd
<1>2. /\ off \in Nat
      /\ Len(window') = (Len(window) + 1) - off
      /\ Len(window') > 0 => window'[Len(window')] = [action |-> a, args |-> x, screen |-> s]
      /\ \A i \in 1..(Len(window') - 1) :
           i + off \in 1..Len(window) /\ window'[i] = window[i + off]
  BY <1>1 DEF IsEnd
<1>3. Len(window') > 0 => window'[Len(window')].action = a
  BY <1>2
<1> HIDE DEF off
<1> QED BY <1>2, <1>3

LEMMA WindowLengths ==
  ASSUME TypeOK, TypeOK'
  PROVE  /\ Len(window) \in Nat /\ DOMAIN window = 1..Len(window)
         /\ Len(window') \in Nat /\ DOMAIN window' = 1..Len(window')
<1>1. window \in Seq(Entries) /\ window' \in Seq(Entries)
  BY DEF TypeOK
<1> QED BY <1>1

LEMMA SilenceStep ==
  ASSUME IInv, [Next]_vars
  PROVE  SilenceCounted'
<1>0. /\ TypeOK /\ TurnShape /\ SilenceCounted
      /\ TypeOK'
      /\ noCalls \in Nat
  BY TypeStep DEF IInv, TypeOK
<1>1. CASE BeginTurn
  BY <1>0, <1>1 DEF BeginTurn, SilenceCounted, NoTool, TurnsLeft
<1>2. CASE Stops
  BY <1>2, StopsFrame DEF SilenceCounted
<1>3. CASE NoToolCall
  <2>1. pc = "act" /\ noCalls' = noCalls + 1 /\ (pc' # "ended" => noCalls' < 3)
    BY <1>3 DEF NoToolCall, End
  <2>2. Record("no_tool", None, screen) /\ screen \in Screens \cup {None}
    BY <1>0, <1>3 DEF NoToolCall, TypeOK
  <2>3. PICK off \in Nat :
          /\ Len(window') = (Len(window) + 1) - off
          /\ \A i \in 1..(Len(window') - 1) :
               i + off \in 1..Len(window) /\ window'[i] = window[i + off]
    BY <1>0, <2>2, WindowEnd
  <2>4. ASSUME NEW i \in DOMAIN window',
               \A j \in i..Len(window') : window'[j].action = "no_tool"
        PROVE  Len(window') - i < noCalls'
    <3>1. i \in 1..Len(window') /\ Len(window') \in Nat /\ Len(window) \in Nat
      BY <1>0, WindowLengths
    <3>2. CASE i = Len(window')
      BY <1>0, <2>1, <3>1, <3>2
    <3>3. CASE i # Len(window')
      <4>1. i \in 1..(Len(window') - 1) /\ i + off \in 1..Len(window)
        BY <2>3, <3>1, <3>3
      <4>2. ASSUME NEW j \in (i + off)..Len(window)
            PROVE  window[j].action = "no_tool"
        <5>1. j - off \in i..(Len(window') - 1) /\ j - off \in 1..(Len(window') - 1)
          BY <2>3, <3>1, <4>1, <4>2
        <5>2. window'[j - off] = window[j]
          BY <2>3, <5>1
        <5> QED BY <2>4, <3>1, <5>1, <5>2
      <4>3. Len(window) - (i + off) < noCalls
        BY <1>0, <2>1, <4>1, <4>2, WindowLengths DEF SilenceCounted, NoTool
      <4> QED BY <1>0, <2>1, <2>3, <3>1, <4>3
    <3> QED BY <3>2, <3>3
  <2> QED BY <2>1, <2>4 DEF SilenceCounted, NoTool
<1>4. ASSUME NEW t \in Tools, NEW a \in Args, NEW ok \in BOOLEAN, CallEffect(t, a, ok)
      PROVE  SilenceCounted'
  BY <1>0, <1>4, CallFrame DEF SilenceCounted, NoTool
<1>5. CASE CallsDone
  BY <1>0, <1>5 DEF CallsDone, SilenceCounted, NoTool, counters, detectorVars
<1>6. CASE BrainEffect
  <2>1. noCalls' = 0 /\ pc = "called" /\ TakeResult /\ primary \in Results
    BY <1>0, <1>6, BrainFrame DEF TurnShape, TypeOK
  <2>2. /\ Record(primary.tool, primary.args, primary.screen)
        /\ primary.tool \in Tools /\ primary.args \in Args /\ primary.screen \in Screens
    BY <2>1 DEF TakeResult, Results
  <2>3. Len(window') > 0 => window'[Len(window')].action = primary.tool
    BY <1>0, <2>2, WindowEnd
  <2>4. primary.tool # "no_tool"
    BY <2>2, ToolsAssumption
  <2>5. ASSUME NEW i \in DOMAIN window',
               \A j \in i..Len(window') : window'[j].action = "no_tool"
        PROVE  FALSE
    <3>1. i \in 1..Len(window') /\ Len(window') \in Nat
      BY <1>0, WindowLengths
    <3>2. Len(window') \in i..Len(window') /\ Len(window') > 0
      BY <3>1
    <3> QED BY <2>3, <2>4, <2>5, <3>2
  <2> QED BY <2>1, <2>5 DEF SilenceCounted, NoTool
<1>7. CASE UNCHANGED vars
  BY <1>0, <1>7 DEF vars, counters, detectorVars, SilenceCounted, NoTool
<1> QED BY <1>1, <1>2, <1>3, <1>4, <1>5, <1>6, <1>7, StepKinds

-----------------------------------------------------------------------------
(* The properties of the runs are kept as well. *)

LEMMA EndOutcome ==
  ASSUME TypeOK, OutcomeAtEnd, OneTerminalEvent, pc # "ended",
         NEW by, NEW success \in BOOLEAN, NEW verified \in BOOLEAN,
         success => verified, End(by, success, verified)
  PROVE  OutcomeAtEnd' /\ OneTerminalEvent'
<1>1. events.complete = 0 /\ events.failed = 0
  BY DEF TypeOK, OneTerminalEvent
<1>2. outcome'.success = success /\ outcome'.verified = verified /\ pc' = "ended"
  BY DEF End
<1>3. /\ verified => events'.complete = 1 /\ events'.failed = 0
      /\ ~verified => events'.complete = 0 /\ events'.failed = 1
  BY <1>1 DEF End, TypeOK
<1> QED BY <1>2, <1>3 DEF OutcomeAtEnd, OneTerminalEvent

LEMMA OutcomeStep ==
  ASSUME IInv, [Next]_vars
  PROVE  OutcomeAtEnd' /\ OneTerminalEvent'
<1>0. TypeOK /\ OutcomeAtEnd /\ OneTerminalEvent
  BY DEF IInv
<1>1. ASSUME pc # "ended", pc' # "ended", UNCHANGED endVars
      PROVE  OutcomeAtEnd' /\ OneTerminalEvent'
  BY <1>0, <1>1 DEF endVars, OutcomeAtEnd, OneTerminalEvent
<1>2. CASE BeginTurn
  BY <1>1, <1>2 DEF BeginTurn, TurnsLeft
<1>3. CASE Stops /\ pc # "ended"
  BY <1>0, <1>3, EndOutcome DEF Stops
<1>4. CASE NoToolCall
  BY <1>0, <1>1, <1>4, EndOutcome DEF NoToolCall
<1>5. ASSUME NEW t \in Tools, NEW a \in Args, NEW ok \in BOOLEAN, CallEffect(t, a, ok)
      PROVE  OutcomeAtEnd' /\ OneTerminalEvent'
  BY <1>1, <1>5 DEF CallEffect
<1>6. CASE CallsDone
  BY <1>1, <1>6 DEF CallsDone
<1>7. CASE BrainEffect
  BY <1>0, <1>1, <1>7, EndOutcome DEF BrainEffect
<1>8. CASE UNCHANGED vars
  BY <1>0, <1>8 DEF vars, endVars, OutcomeAtEnd, OneTerminalEvent
<1> QED BY <1>2, <1>3, <1>4, <1>5, <1>6, <1>7, <1>8, StepKinds

LEMMA RetryStep ==
  ASSUME IInv, [Next]_vars
  PROVE  RetryBudget'
<1>0. TypeOK /\ RetryBudget /\ MaxRetries \in Nat
  BY LimitsAssumption DEF IInv
<1>1. ASSUME UNCHANGED memoryVars
      PROVE  RetryBudget'
  BY <1>0, <1>1 DEF RetryBudget, memoryVars
<1>2. ASSUME NEW t \in Tools, NEW a \in Args, NEW ok \in BOOLEAN, CallEffect(t, a, ok)
      PROVE  RetryBudget'
  <2>1. CASE UNCHANGED memoryVars
    BY <1>1, <2>1
  <2>2. CASE UNCHANGED <<retries, blocked>>
    BY <1>0, <2>2 DEF RetryBudget
  <2>3. CASE /\ t \notin blocked /\ BlockAt(t)
             /\ UNCHANGED retries \/ retries' = [retries EXCEPT ![t] = @ + 1]
    <3>1. retries \in [Tools -> Nat] /\ blocked \subseteq Acting /\ Acting \subseteq Tools
      BY <1>0 DEF TypeOK, Acting
    <3>2. ASSUME NEW u \in Acting, u # t
          PROVE  retries'[u] = retries[u] /\ (u \in blocked' <=> u \in blocked)
      BY <2>3, <3>1, <3>2 DEF BlockAt
    <3>3. ASSUME t \in Acting
          PROVE  retries'[t] <= MaxRetries /\ (retries'[t] = MaxRetries <=> t \in blocked')
      <4>1. retries[t] < MaxRetries /\ retries[t] \in Nat
        BY <1>0, <2>3, <3>1, <3>3 DEF RetryBudget
      <4>2. retries'[t] \in {retries[t], retries[t] + 1}
        BY <2>3, <3>1
      <4>3. t \in blocked' <=> retries'[t] >= MaxRetries
        BY <2>3, <3>3 DEF BlockAt, Acting
      <4> QED BY <1>0, <4>1, <4>2, <4>3
    <3> QED BY <1>0, <3>2, <3>3 DEF RetryBudget
  <2> QED BY <1>2, <2>1, <2>2, <2>3 DEF CallEffect
<1>3. CASE BeginTurn \/ Stops \/ NoToolCall \/ CallsDone
  BY <1>1, <1>3 DEF BeginTurn, Stops, NoToolCall, CallsDone
<1>4. CASE BrainEffect
  BY <1>1, <1>4 DEF BrainEffect, TakeResult
<1>5. CASE UNCHANGED vars
  BY <1>1, <1>5 DEF vars
<1> QED BY <1>2, <1>3, <1>4, <1>5, StepKinds

\* Three answers in a row without a call are nowhere in the window.
NoSilence == ~ \E i \in 3..Len(window) : \A j \in (i - 2)..i : window[j].action = "no_tool"

\* A new entry makes no three of them while fewer are counted.
LEMMA SilenceKeptOut ==
  ASSUME TypeOK, TypeOK', NoSilence, SilenceCounted', pc' # "ended",
         NEW a \in Tools \cup {"no_tool"}, NEW x \in Args \cup {None},
         NEW s \in Screens \cup {None}, Record(a, x, s)
  PROVE  NoSilence'
<1>1. PICK off \in Nat :
        /\ Len(window') = (Len(window) + 1) - off
        /\ \A i \in 1..(Len(window') - 1) :
             i + off \in 1..Len(window) /\ window'[i] = window[i + off]
  BY WindowEnd
<1>2. /\ Len(window) \in Nat /\ Len(window') \in Nat
      /\ DOMAIN window' = 1..Len(window')
  BY WindowLengths
<1>3. ASSUME NEW i \in 3..Len(window'), \A j \in (i - 2)..i : window'[j].action = "no_tool"
      PROVE  FALSE
  <2>1. CASE i = Len(window')
    <3>1. i - 2 \in DOMAIN window'
      BY <1>2, <1>3
    <3>2. Len(window') - (i - 2) < noCalls'
      BY <1>3, <2>1, <3>1 DEF SilenceCounted, NoTool
    <3>3. noCalls' < 3 /\ noCalls' \in Nat
      BY DEF SilenceCounted, TypeOK
    <3> QED BY <1>2, <2>1, <3>2, <3>3
  <2>2. CASE i # Len(window')
    <3>0. i \in 1..(Len(window') - 1) /\ i \in Nat /\ i >= 3
      <4>1. i \in 3..Len(window')
        BY <1>3
      <4>2. \A m \in Nat : \A k \in 3..m : k # m => k \in 1..(m - 1) /\ k \in Nat /\ k >= 3
        OBVIOUS
      <4> QED BY <1>2, <2>2, <4>1, <4>2
    <3>1. i + off \in 3..Len(window)
      BY <1>1, <1>2, <3>0
    <3>2. ASSUME NEW j \in ((i + off) - 2)..(i + off)
          PROVE  window[j].action = "no_tool"
      <4>1. j - off \in (i - 2)..i /\ j - off \in 1..(Len(window') - 1)
        BY <1>1, <1>2, <3>0, <3>2
      <4>2. window'[j - off] = window[j]
        BY <1>1, <4>1
      <4> QED BY <1>3, <4>1, <4>2
    <3> QED BY <3>1, <3>2 DEF NoSilence
  <2> QED BY <2>1, <2>2
<1> QED BY <1>3 DEF NoSilence

LEMMA StuckStep ==
  ASSUME IInv, [Next]_vars
  PROVE  StuckRunsEnd'
<1>0. TypeOK /\ TurnShape /\ TypeOK' /\ ProgressIsSuccess' /\ SilenceCounted'
  BY TypeStep, ProgressStep, SilenceStep DEF IInv
<1>1. pc' \in {"act", "called"} => step' - okCalls' < MaxNoProgress
  <2>1. step' \in Nat /\ okCalls' \in Nat /\ lastProgress' \in Nat
    BY <1>0, LimitsAssumption DEF TypeOK
  <2>2. /\ lastProgress' <= okCalls'
        /\ pc' \in {"act", "called"} => step' - lastProgress' < MaxNoProgress
    BY <1>0 DEF ProgressIsSuccess
  <2> QED BY <2>1, <2>2, LimitsAssumption
<1>2. pc # "ended" => NoSilence
  BY DEF IInv, StuckRunsEnd, NoSilence
<1>3. ASSUME pc' # "ended"
      PROVE  NoSilence'
  <2>1. ASSUME UNCHANGED window, pc # "ended"
        PROVE  NoSilence'
    BY <1>2, <2>1 DEF NoSilence
  <2>2. CASE BeginTurn
    BY <2>1, <2>2 DEF BeginTurn, TurnsLeft
  <2>3. CASE Stops
    BY <1>3, <2>3, StopsFrame
  <2>4. CASE NoToolCall
    <3>1. pc = "act" /\ Record("no_tool", None, screen) /\ screen \in Screens \cup {None}
      BY <1>0, <2>4 DEF NoToolCall, TypeOK
    <3> QED BY <1>0, <1>2, <1>3, <3>1, SilenceKeptOut
  <2>5. ASSUME NEW t \in Tools, NEW a \in Args, NEW ok \in BOOLEAN, CallEffect(t, a, ok)
        PROVE  NoSilence'
    BY <2>1, <2>5, CallFrame
  <2>6. CASE CallsDone
    BY <2>1, <2>6 DEF CallsDone, detectorVars
  <2>7. CASE BrainEffect
    <3>1. /\ pc = "called" /\ Record(primary.tool, primary.args, primary.screen)
          /\ primary \in Results
      BY <1>0, <2>7, BrainFrame DEF TakeResult, TurnShape, TypeOK
    <3> QED BY <1>0, <1>2, <1>3, <3>1, SilenceKeptOut DEF Results
  <2>8. CASE UNCHANGED vars
    BY <1>3, <2>1, <2>8 DEF vars, detectorVars
  <2> QED BY <2>2, <2>3, <2>4, <2>5, <2>6, <2>7, <2>8, StepKinds
<1> QED BY <1>1, <1>3 DEF StuckRunsEnd, NoSilence

\* A completion that the guard lets pass has evidence.
LEMMA GuardWantsEvidence ==
  ASSUME TypeOK, RecentTellsAll, GuardPasses(TRUE), okCalls = 0
  PROVE  Len(recent) = 1
<1>1. Len(recent) \in Nat /\ DOMAIN recent = 1..Len(recent)
  <2>1. recent \in Seq(BOOLEAN)
    BY DEF TypeOK
  <2> QED BY <2>1
<1>2. Len(recent) >= 1 /\ ~(Len(recent) >= 2)
  BY DEF GuardPasses, RecentTellsAll
<1> QED BY <1>1, <1>2

LEMMA EvidenceStep ==
  ASSUME IInv, [Next]_vars
  PROVE  SuccessHasEvidence'
<1>0. TypeOK /\ OutcomeAtEnd /\ OutcomeAtEnd' /\ RecentTellsAll /\ SuccessHasEvidence
  BY OutcomeStep DEF IInv
<1>1. ASSUME pc' # "ended"
      PROVE  SuccessHasEvidence'
  BY <1>0, <1>1 DEF OutcomeAtEnd, SuccessHasEvidence
<1>2. CASE BeginTurn \/ CallsDone
  BY <1>1, <1>2 DEF BeginTurn, CallsDone
<1>3. CASE Stops
  BY <1>3 DEF Stops, End, SuccessHasEvidence
<1>4. CASE NoToolCall
  BY <1>1, <1>4 DEF NoToolCall, End, SuccessHasEvidence
<1>5. ASSUME NEW t \in Tools, NEW a \in Args, NEW ok \in BOOLEAN, CallEffect(t, a, ok)
      PROVE  SuccessHasEvidence'
  BY <1>1, <1>5 DEF CallEffect
<1>6. CASE BrainEffect
  <2>1. UNCHANGED <<recent, okCalls>>
    BY <1>6, BrainFrame
  <2>2. CASE pc' = "turn"
    BY <1>1, <2>2
  <2>3. CASE End("rejected", FALSE, FALSE)
    BY <2>3 DEF End, SuccessHasEvidence
  <2>4. ASSUME NEW success \in BOOLEAN, GuardPasses(success), End("done", success, TRUE)
        PROVE  SuccessHasEvidence'
    <3>1. outcome'.success = success /\ outcome'.verified = TRUE
      BY <2>4 DEF End
    <3>2. success /\ okCalls = 0 => Len(recent) = 1
      BY <1>0, <2>4, GuardWantsEvidence
    <3> QED BY <2>1, <3>1, <3>2 DEF SuccessHasEvidence
  <2> QED BY <1>6, <2>2, <2>3, <2>4 DEF BrainEffect
<1>7. CASE UNCHANGED vars
  BY <1>0, <1>7 DEF vars, endVars, memoryVars, SuccessHasEvidence
<1> QED BY <1>2, <1>3, <1>4, <1>5, <1>6, <1>7, StepKinds

-----------------------------------------------------------------------------
(* The theorems. *)

LEMMA InvariantInit == Init => IInv
<1> SUFFICES ASSUME Init PROVE IInv
  OBVIOUS
<1>1. TypeOK
  BY TypeInit
<1>2. TurnShape /\ ProgressIsSuccess /\ RecentTellsAll
  BY DEF Init, TurnShape, ProgressIsSuccess, RecentTellsAll
<1>3. SilenceCounted /\ StuckRunsEnd
  BY DEF Init, SilenceCounted, StuckRunsEnd
<1>4. OutcomeAtEnd /\ OneTerminalEvent /\ SuccessHasEvidence
  BY DEF Init, OutcomeAtEnd, OneTerminalEvent, SuccessHasEvidence
<1>5. RetryBudget
  BY RetriesAssumption, LimitsAssumption DEF Init, RetryBudget, Acting
<1> QED BY <1>1, <1>2, <1>3, <1>4, <1>5 DEF IInv

LEMMA InvariantStep == IInv /\ [Next]_vars => IInv'
BY TypeStep, ShapeStep, ProgressStep, RecentStep, SilenceStep, OutcomeStep, RetryStep,
   StuckStep, EvidenceStep DEF IInv

\* A run of the loop keeps the counters true to its history, in every step of
\* run_react_loop.
THEOREM Invariant == Spec => []IInv
<1>1. Init => IInv
  BY InvariantInit
<1>2. IInv /\ [Next]_vars => IInv'
  BY InvariantStep
<1> QED BY <1>1, <1>2, PTL DEF Spec

\* The counters of run_react_loop stay within their bounds.
THEOREM TypeCorrect == Spec => []TypeOK
<1>1. IInv => TypeOK
  BY DEF IInv
<1> QED BY <1>1, Invariant, PTL

\* For any tools and any limits: an acting tool fails at most max_retries times
\* in a run and is blocked from the last failure on.
THEOREM RetryBudgetHolds == Spec => []RetryBudget
<1>1. IInv => RetryBudget
  BY DEF IInv
<1> QED BY <1>1, Invariant, PTL

\* However a run ends, the episodic memory gets one terminal event, and
\* task_complete only for a verified completion.
THEOREM OneTerminalEventHolds == Spec => []OneTerminalEvent
<1>1. IInv => OneTerminalEvent
  BY DEF IInv
<1> QED BY <1>1, Invariant, PTL

\* For any limits: the loop does not go on after max_no_progress_steps turns
\* without a success, nor after three answers in a row without a call.
THEOREM StuckRunsEndHolds == Spec => []StuckRunsEnd
<1>1. IInv => StuckRunsEnd
  BY DEF IInv
<1> QED BY <1>1, Invariant, PTL

\* A reported success has a tool call that succeeded, or was the only one.
THEOREM SuccessHasEvidenceHolds == Spec => []SuccessHasEvidence
<1>1. IInv => SuccessHasEvidence
  BY DEF IInv
<1> QED BY <1>1, Invariant, PTL
=============================================================================
