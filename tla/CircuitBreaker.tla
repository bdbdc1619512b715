--------------------------- MODULE CircuitBreaker ---------------------------
(***************************************************************************)
(* The circuit breaker of one tool                                         *)
(* (src/src/tools/circuit-breaker.service.ts), driven by the calls of      *)
(* ToolExecutor.executeToolCall: canProceed() before the call,             *)
(* recordSuccess() or recordFailure() after it.  Calls overlap, so a       *)
(* result may be recorded long after the breaker has changed its state.    *)
(*                                                                         *)
(* Date.now() appears in the code only in differences, so the model keeps  *)
(* ages: the age of a time stamp grows with Tick and is capped where the   *)
(* code stops to tell ages apart.  A tool without an entry in the map and  *)
(* one whose entry is empty and closed behave alike.                       *)
(***************************************************************************)
EXTENDS Integers, FiniteSets

CONSTANTS
    Calls,       \* slots for overlapping calls of the tool
    Stamps,      \* places for the elements of failureTimestamps
    Threshold,   \* failureThreshold
    Window,      \* windowMs, in ticks
    Cooldown,    \* cooldownMs, in ticks
    Never        \* not an age

ASSUME BreakerAssumption ==
    /\ Threshold \in Nat \ {0}
    /\ Window \in Nat \ {0}
    /\ Cooldown \in Nat \ {0}
    /\ Never \notin Nat
    /\ IsFiniteSet(Stamps) /\ IsFiniteSet(Calls)

VARIABLES
    failedAt,   \* failureTimestamps: the age of each stamp, or Never
    openedAt,   \* the age of openedAt, Never for null
    halfOpen,
    call,       \* each slot: "idle", "running", or "probe" when let through half open
    streak,     \* failures since the last success or reset, up to Threshold
    tripped     \* age of the last opening since then, up to Cooldown

breaker     == <<failedAt, openedAt, halfOpen>>
history     == <<streak, tripped>>
breakerVars == <<breaker, call, history>>

BreakerTypeOK ==
    /\ failedAt \in [Stamps -> 0..Window \cup {Never}]
    /\ openedAt \in 0..Cooldown \cup {Never}
    /\ halfOpen \in BOOLEAN
    /\ call \in [Calls -> {"idle", "running", "probe"}]
    /\ streak \in 0..Threshold
    /\ tripped \in 0..Cooldown \cup {Never}

NoFailures == [s \in Stamps |-> Never]

BreakerInit ==
    /\ failedAt = NoFailures
    /\ openedAt = Never
    /\ halfOpen = FALSE
    /\ call = [c \in Calls |-> "idle"]
    /\ streak = 0
    /\ tripped = Never

-----------------------------------------------------------------------------
Listed   == {s \in Stamps : failedAt[s] # Never}
Recent   == {s \in Listed : failedAt[s] < Window}
InFlight == {c \in Calls : call[c] # "idle"}

\* The filter that drops the failures that left the window.
Unfiltered == failedAt
Filtered   == [s \in Stamps |-> IF s \in Recent THEN failedAt[s] ELSE Never]

Cooling == openedAt # Never /\ openedAt < Cooldown

\* The age of openedAt = Date.now().
OpenedLater == 0 - Cooldown
OpenedNow   == 0

\* canProceed() refuses because the cool-down is not over.  A refusal leaves
\* the time of the opening alone.
Extended  == openedAt' = 0
OnRefusal == UNCHANGED openedAt

Refuse(c) ==
    /\ call[c] = "idle" /\ Cooling
    /\ failedAt' = Filtered
    /\ OnRefusal
    /\ UNCHANGED <<halfOpen, call, history>>

\* canProceed() after the cool-down: half open, and this call may pass.
TryAgain(c) ==
    /\ call[c] = "idle"
    /\ openedAt # Never /\ ~Cooling
    /\ failedAt' = NoFailures
    /\ openedAt' = Never
    /\ halfOpen' = TRUE
    /\ call' = [call EXCEPT ![c] = "probe"]
    /\ UNCHANGED history

\* canProceed() finds enough recent failures: the breaker opens.
Trip(c) ==
    /\ call[c] = "idle"
    /\ openedAt = Never
    /\ Cardinality(Recent) >= Threshold
    /\ failedAt' = Filtered
    /\ openedAt' = OpenedNow
    /\ halfOpen' = FALSE
    /\ tripped' = 0
    /\ UNCHANGED <<call, streak>>

\* canProceed() in the closed and in the half-open state.
Admit(c) ==
    /\ call[c] = "idle"
    /\ openedAt = Never
    /\ Cardinality(Recent) < Threshold
    /\ failedAt' = Filtered
    /\ call' = [call EXCEPT ![c] = IF halfOpen THEN "probe" ELSE "running"]
    /\ UNCHANGED <<openedAt, halfOpen, history>>

\* What a success leaves of the failures.
KeepFailures  == Filtered
AfterSuccess  == NoFailures

\* recordSuccess().
Succeed(c) ==
    /\ call[c] # "idle"
    /\ failedAt' = AfterSuccess
    /\ openedAt' = Never
    /\ halfOpen' = FALSE
    /\ call' = [call EXCEPT ![c] = "idle"]
    /\ streak' = 0
    /\ tripped' = Never

\* When recordFailure() opens the breaker again.
NeverReopens == FALSE
Reopens      == halfOpen

\* recordFailure().
Fail(c) ==
    /\ call[c] # "idle"
    /\ \E s \in Stamps \ Listed : failedAt' = [failedAt EXCEPT ![s] = 0]
    /\ openedAt' = IF Reopens THEN OpenedNow ELSE openedAt
    /\ halfOpen' = FALSE
    /\ call' = [call EXCEPT ![c] = "idle"]
    /\ streak' = IF streak < Threshold THEN streak + 1 ELSE streak
    /\ tripped' = IF halfOpen THEN 0 ELSE tripped

\* The idempotency gate answers in place of the tool: nothing is recorded.
Intercept(c) ==
    /\ call[c] # "idle"
    /\ call' = [call EXCEPT ![c] = "idle"]
    /\ UNCHANGED <<breaker, history>>

\* reset(): an administrator forgets the state of the tool.
Reset ==
    /\ failedAt' = NoFailures
    /\ openedAt' = Never
    /\ halfOpen' = FALSE
    /\ streak' = 0
    /\ tripped' = Never
    /\ UNCHANGED call

Older(age, cap) == IF age # Never /\ age < cap THEN age + 1 ELSE age

Tick ==
    /\ failedAt' = [s \in Stamps |-> Older(failedAt[s], Window)]
    /\ openedAt' = Older(openedAt, Cooldown)
    /\ tripped' = Older(tripped, Cooldown)
    /\ UNCHANGED <<halfOpen, call, streak>>

CanProceed(c) == Refuse(c) \/ TryAgain(c) \/ Trip(c) \/ Admit(c)
Return(c)     == Succeed(c) \/ Fail(c) \/ Intercept(c)

BreakerNext ==
    \/ \E c \in Calls : CanProceed(c) \/ Return(c)
    \/ Reset
    \/ Tick

BreakerSpec == BreakerInit /\ [][BreakerNext]_breakerVars

\* Time goes on, calls return (ServiceClient has a timeout) and users go on
\* asking for the tool.
Fairness ==
    /\ WF_breakerVars(Tick)
    /\ \A c \in Calls : WF_breakerVars(Return(c)) /\ SF_breakerVars(CanProceed(c))

FairSpec == BreakerSpec /\ Fairness

-----------------------------------------------------------------------------
(* Properties                                                              *)

\* A tool is cut off only after Threshold failures with no success and no
\* reset among them: one success forgives all earlier failures, also those of
\* calls that overlapped it.
CutOffIsJustified ==
    openedAt # Never \/ halfOpen => streak = Threshold

\* During the cool-down after an opening no call gets through, unless a
\* success or a reset came in between.
CooldownIsKept ==
    [][\A c \in Calls :
         call[c] = "idle" /\ call'[c] # "idle" => tripped \in {Never, Cooldown}]_breakerVars

\* failureTimestamps, which no call of recordFailure() ever shortens, stays
\* bounded all the same: fewer than Threshold stamps that were there when the
\* last call was let through, and one for every call that was running.
StampsAreBounded ==
    Cardinality(Listed) + Cardinality(InFlight) < Threshold + Cardinality(Calls)

\* A tool that has been cut off is tried again.
TriedAgain == openedAt # Never ~> openedAt = Never
=============================================================================
