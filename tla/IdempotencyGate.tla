--------------------------- MODULE IdempotencyGate ---------------------------
(***************************************************************************)
(* The idempotency gate of the write tools                                 *)
(* (src/src/tools/idempotency-gate.service.ts), driven the way             *)
(* ToolExecutor.executeToolCall drives it: check() before tool.execute(),  *)
(* complete() after it.                                                    *)
(*                                                                         *)
(* A call is one execution of a write tool with confirm = true.  Calls run *)
(* concurrently, in one process or several; between two awaits of a call   *)
(* any other call, the clean-up job, the expiry of a Redis key or a crash  *)
(* may take a step.                                                        *)
(***************************************************************************)
EXTENDS Naturals, FiniteSets

CONSTANTS
    Calls,       \* the executions of write tools
    Keys,        \* well-formed keys: sha256(tenant | tool | key material)
    BadKey,      \* an explicit key that EXPLICIT_KEY_PATTERN refuses
    None,        \* "no call", "no row"
    MaxRows,     \* bound on the rows ever inserted in t_ai_idempotency
    MaxFaults,   \* bound on the faults of storage, backend and processes
    Prompt       \* TRUE: an execution ends within IN_FLIGHT_TIMEOUT_MS

ASSUME GateAssumption ==
    /\ BadKey \notin Keys
    /\ None \notin Calls
    /\ MaxRows \in Nat
    /\ MaxFaults \in Nat
    /\ Prompt \in BOOLEAN

VARIABLES
    rows,       \* t_ai_idempotency: row id -> row, or NoRow
    nextId,     \* its auto-increment counter
    redis,      \* the keys present in Redis (SET NX EX)
    cleaner,    \* progress of the 03:00 job: "idle" or "delete"
    pc,         \* where each call is
    key,        \* the key of each call
    handle,     \* the row id a call has claimed, 0 for a null handle
    decision,   \* what check() answered
    origin,     \* for a replay: the call whose result is replayed
    ok,         \* the success flag of the tool's own result
    faults,     \* number of faults so far
    effects,    \* the calls whose write reached the backend
    unstored,   \* calls whose complete() did not reach the database
    timedOut,   \* rows that the clean-up job has set to failed
    purged      \* keys of which the clean-up job has deleted a row

storage == <<rows, nextId, redis, cleaner>>
callers == <<pc, key, handle, decision, origin, ok>>
history == <<effects, unstored, timedOut, purged>>
vars    == <<storage, callers, faults, history>>

RowIds == 1..MaxRows
Status == {"in_flight", "succeeded", "failed"}
\* overdue: firstSeenAt lies more than 10 minutes back; expired: createdAt
\* lies more than 30 days back; result: the call whose success is stored.
Row    == [key : Keys, status : Status, result : Calls \cup {None},
           overdue : BOOLEAN, expired : BOOLEAN]
NoRow  == [key |-> BadKey, status |-> "failed", result |-> None,
           overdue |-> FALSE, expired |-> FALSE]

PCs == {"start", "redis", "select", "insert", "reselect", "reclaim",
        "execute", "complete", "done", "dead"}

TypeOK ==
    /\ rows \in [RowIds -> Row \cup {NoRow}]
    /\ nextId \in 1..(MaxRows + 1)
    /\ redis \subseteq Keys
    /\ cleaner \in {"idle", "delete"}
    /\ pc \in [Calls -> PCs]
    /\ key \in [Calls -> Keys \cup {BadKey}]
    /\ handle \in [Calls -> {0} \cup RowIds]
    /\ decision \in [Calls -> {"none", "proceed", "replay", "in_flight", "rejected"}]
    /\ origin \in [Calls -> Calls \cup {None}]
    /\ ok \in [Calls -> BOOLEAN]
    /\ faults \in 0..MaxFaults
    /\ effects \subseteq Calls
    /\ unstored \subseteq Calls
    /\ timedOut \subseteq RowIds
    /\ purged \subseteq Keys

Init ==
    /\ rows = [r \in RowIds |-> NoRow]
    /\ nextId = 1
    /\ redis = {}
    /\ cleaner = "idle"
    /\ pc = [c \in Calls |-> "start"]
    /\ key = [c \in Calls |-> BadKey]
    /\ handle = [c \in Calls |-> 0]
    /\ decision = [c \in Calls |-> "none"]
    /\ origin = [c \in Calls |-> None]
    /\ ok = [c \in Calls |-> FALSE]
    /\ faults = 0
    /\ effects = {}
    /\ unstored = {}
    /\ timedOut = {}
    /\ purged = {}

-----------------------------------------------------------------------------
(* Vocabulary                                                              *)

Live(r)     == rows[r] # NoRow
RowsOf(k)   == {r \in RowIds : Live(r) /\ rows[r].key = k}
Holds(c, r) == handle[c] = r /\ pc[c] \in {"execute", "complete"}
Held(r)     == \E c \in Calls : Holds(c, r)

\* A statement fails: the budget of faults shrinks by one.
Fault   == faults < MaxFaults /\ faults' = faults + 1
NoFault == faults' = faults

Goto(c, label) == pc' = [pc EXCEPT ![c] = label]

\* check() answers; handle h is 0 unless the call has claimed a row.
Answer(c, d, h, o) ==
    /\ decision' = [decision EXCEPT ![c] = d]
    /\ handle' = [handle EXCEPT ![c] = h]
    /\ origin' = [origin EXCEPT ![c] = o]
    /\ Goto(c, IF d = "proceed" THEN "execute" ELSE "done")

\* { decision: 'proceed', handle: null }
Bypass(c) == Answer(c, "proceed", 0, None)

\* check() goes on to another statement.
Continue(c, label) == Goto(c, label) /\ UNCHANGED <<handle, decision, origin>>

\* What decideFromRow does with the row it was given.  A failed row still
\* needs the conditional UPDATE of Reclaim, so the row id is kept.
DecideFromRow(c, r) ==
    \/ rows[r].status = "succeeded" /\ Answer(c, "replay", 0, rows[r].result)
    \/ rows[r].status = "in_flight" /\ Answer(c, "in_flight", 0, None)
    \/ /\ rows[r].status = "failed"
       /\ Goto(c, "reclaim")
       /\ handle' = [handle EXCEPT ![c] = r]
       /\ UNCHANGED <<decision, origin>>

-----------------------------------------------------------------------------
(* The steps of a call                                                     *)

\* check() is entered: an explicit key of the wrong shape is rejected; a gate
\* that is switched off or fails outright lets the call through.
Enter(c, k) ==
    /\ pc[c] = "start"
    /\ key' = [key EXCEPT ![c] = k]
    /\ \/ k = BadKey /\ NoFault /\ Answer(c, "rejected", 0, None)
       \/ k \in Keys /\ NoFault /\ Continue(c, "redis")
       \/ k \in Keys /\ Fault /\ Bypass(c)
    /\ UNCHANGED <<storage, ok, history>>

\* SET key 1 EX ttl NX.  A failure counts as "not a duplicate", whether or
\* not the command took effect.
RedisPrefilter(c) ==
    /\ pc[c] = "redis"
    /\ \/ NoFault /\ key[c] \in redis /\ Continue(c, "select") /\ UNCHANGED redis
       \/ NoFault /\ key[c] \notin redis /\ Continue(c, "insert")
            /\ redis' = redis \cup {key[c]}
       \/ Fault /\ Continue(c, "insert") /\ redis' \in {redis, redis \cup {key[c]}}
    /\ UNCHANGED <<rows, nextId, cleaner, key, ok, history>>

\* findRow after a Redis hit, or after a unique-key conflict of the INSERT.
\* Without a row the former goes on to the INSERT, the latter is let through.
FindRow(c) ==
    /\ pc[c] \in {"select", "reselect"}
    /\ \/ NoFault /\ \E r \in RowsOf(key[c]) : DecideFromRow(c, r)
       \/ NoFault /\ RowsOf(key[c]) = {} /\ pc[c] = "select" /\ Continue(c, "insert")
       \/ NoFault /\ RowsOf(key[c]) = {} /\ pc[c] = "reselect" /\ Bypass(c)
       \/ Fault /\ Bypass(c)
    /\ UNCHANGED <<storage, key, ok, history>>

NewRow(k) == [key |-> k, status |-> "in_flight", result |-> None,
              overdue |-> FALSE, expired |-> FALSE]

\* The INSERT succeeds: uk_ai_idempotency admits one row per key.
InsertRow(c) ==
    /\ RowsOf(key[c]) = {}
    /\ nextId \in RowIds
    /\ rows' = [rows EXCEPT ![nextId] = NewRow(key[c])]
    /\ nextId' = nextId + 1

\* The INSERT that claims the key: success, unique-key conflict, or another
\* error (fail-open), in which case the row may be there all the same.
Claim(c) ==
    /\ pc[c] = "insert"
    /\ \/ NoFault /\ InsertRow(c) /\ Answer(c, "proceed", nextId, None)
       \/ NoFault /\ RowsOf(key[c]) # {} /\ Continue(c, "reselect")
            /\ UNCHANGED <<rows, nextId>>
       \/ Fault /\ Bypass(c) /\ UNCHANGED <<rows, nextId>>
       \/ Fault /\ Bypass(c) /\ InsertRow(c)
    /\ UNCHANGED <<redis, cleaner, key, ok, history>>

\* The condition of the retry's UPDATE.
ReclaimableById(r)   == Live(r)
ReclaimableEnded(r)  == Live(r) /\ rows[r].status # "in_flight"
Reclaimable(r)       == Live(r) /\ rows[r].status = "failed"

\* UPDATE ... SET in_flight WHERE id AND status = 'failed': the call has the
\* claim only when a row was affected.  An error falls open.
Reclaim(c) ==
    LET r == handle[c]
        again == [rows EXCEPT ![r].status = "in_flight", ![r].overdue = FALSE]
    IN  /\ pc[c] = "reclaim"
        /\ \/ NoFault /\ Reclaimable(r) /\ rows' = again /\ Answer(c, "proceed", r, None)
           \/ NoFault /\ ~Reclaimable(r) /\ Answer(c, "in_flight", 0, None) /\ UNCHANGED rows
           \/ Fault /\ Bypass(c) /\ UNCHANGED rows
           \/ Fault /\ Bypass(c) /\ Reclaimable(r) /\ rows' = again
        /\ UNCHANGED <<nextId, redis, cleaner, key, ok, history>>

\* tool.execute: the backend does the write or refuses it; the answer may be
\* lost, and the tool then reports a failure for a write that took place.
Execute(c) ==
    /\ pc[c] = "execute"
    /\ \/ NoFault /\ effects' = effects \cup {c} /\ ok' = [ok EXCEPT ![c] = TRUE]
       \/ NoFault /\ UNCHANGED <<effects, ok>>
       \/ Fault /\ effects' = effects \cup {c} /\ UNCHANGED ok
    /\ Goto(c, IF handle[c] = 0 THEN "done" ELSE "complete")
    /\ UNCHANGED <<storage, key, handle, decision, origin, unstored, timedOut, purged>>

\* The status complete() writes.
StatusUnknown(c)   == IF ok[c] THEN "succeeded" ELSE "error"
StatusSwapped(c)   == IF ok[c] THEN "failed" ELSE "succeeded"
StatusSucceeded(c) == "succeeded"
FinalStatus(c)     == IF ok[c] THEN "succeeded" ELSE "failed"

\* complete(): UPDATE ... WHERE id, whatever the row's status is by then.
\* bestEffort swallows an error of the statement.
Complete(c) ==
    LET r == handle[c]
        result == IF ok[c] THEN c ELSE None
    IN  /\ pc[c] = "complete"
        /\ \/ /\ NoFault
              /\ rows' = IF Live(r) THEN [rows EXCEPT ![r].status = FinalStatus(c),
                                                      ![r].result = result]
                                    ELSE rows
              /\ UNCHANGED unstored
           \/ /\ Fault
              /\ unstored' = unstored \cup {c}
              /\ UNCHANGED rows
        /\ Goto(c, "done")
        /\ UNCHANGED <<nextId, redis, cleaner, key, handle, decision, origin, ok,
                       effects, timedOut, purged>>

\* The process of the call dies.
Crash(c) ==
    /\ pc[c] \notin {"start", "done", "dead"}
    /\ Fault
    /\ Goto(c, "dead")
    /\ unstored' = IF handle[c] # 0 /\ pc[c] = "complete" THEN unstored \cup {c}
                                                          ELSE unstored
    /\ UNCHANGED <<storage, key, handle, decision, origin, ok, effects, timedOut, purged>>

-----------------------------------------------------------------------------
(* Time and the clean-up job                                               *)

RedisExpire(k) ==
    /\ k \in redis
    /\ redis' = redis \ {k}
    /\ UNCHANGED <<rows, nextId, cleaner, callers, faults, history>>

\* Ten minutes have passed since firstSeenAt.
TimeOut(r) ==
    /\ Live(r) /\ rows[r].status = "in_flight" /\ ~rows[r].overdue
    /\ Prompt => ~Held(r)
    /\ rows' = [rows EXCEPT ![r].overdue = TRUE]
    /\ UNCHANGED <<nextId, redis, cleaner, callers, faults, history>>

\* Thirty days have passed since createdAt.
Retire(r) ==
    /\ Live(r) /\ ~rows[r].expired
    /\ Prompt => ~Held(r)
    /\ rows' = [rows EXCEPT ![r].expired = TRUE]
    /\ UNCHANGED <<nextId, redis, cleaner, callers, faults, history>>

\* The rows the first statement of cleanupExpired selects.
OverdueByCreation(r) == Live(r) /\ rows[r].status = "in_flight" /\ rows[r].expired
Overdue(r)           == Live(r) /\ rows[r].status = "in_flight" /\ rows[r].overdue

\* cleanupExpired, first statement: overdue in_flight rows become failed.  An
\* error ends the job.
CleanupMark ==
    /\ cleaner = "idle"
    /\ rows' = [r \in RowIds |-> IF Overdue(r) THEN [rows[r] EXCEPT !.status = "failed"]
                                               ELSE rows[r]]
    /\ timedOut' = timedOut \cup {r \in RowIds : Overdue(r)}
    /\ cleaner' = "delete"
    /\ UNCHANGED <<nextId, redis, callers, faults, effects, unstored, purged>>

\* cleanupExpired, second statement: expired rows are deleted, whatever their
\* status; or the statement fails and the job gives up.
CleanupDelete ==
    /\ cleaner = "delete"
    /\ cleaner' = "idle"
    /\ \/ /\ NoFault
          /\ rows' = [r \in RowIds |-> IF rows[r].expired THEN NoRow ELSE rows[r]]
          /\ purged' = purged \cup {rows[r].key : r \in {q \in RowIds : rows[q].expired}}
       \/ Fault /\ UNCHANGED <<rows, purged>>
    /\ UNCHANGED <<nextId, redis, callers, effects, unstored, timedOut>>

-----------------------------------------------------------------------------
Step(c) ==
    \/ RedisPrefilter(c) \/ FindRow(c) \/ Claim(c) \/ Reclaim(c)
    \/ Execute(c) \/ Complete(c)

Next ==
    \/ \E c \in Calls, k \in Keys \cup {BadKey} : Enter(c, k)
    \/ \E c \in Calls : Step(c) \/ Crash(c)
    \/ \E k \in Keys : RedisExpire(k)
    \/ \E r \in RowIds : TimeOut(r) \/ Retire(r)
    \/ CleanupMark
    \/ CleanupDelete

Spec == Init /\ [][Next]_vars

\* The event loop runs every started call on, the clock does not stop and the
\* cron job comes round again.
Fairness ==
    /\ \A c \in Calls : WF_vars(Step(c))
    /\ \A r \in RowIds : WF_vars(TimeOut(r))
    /\ WF_vars(CleanupMark)
    /\ WF_vars(CleanupDelete)

FairSpec == Spec /\ Fairness

-----------------------------------------------------------------------------
(* Properties                                                              *)

Bypassed(c) == decision[c] = "proceed" /\ handle[c] = 0
\* The write of c took place but t_ai_idempotency does not know it succeeded.
Unrecorded(c) ==
    c \in effects /\ (~ok[c] \/ c \in unstored)

\* While executions end within the in-flight timeout, a row is claimed by at
\* most one running call: the unique key, the conditional UPDATE of the retry
\* and the clean-up job together arbitrate every race.
OneClaimPerRow ==
    Prompt => \A c, d \in Calls : \A r \in RowIds : Holds(c, r) /\ Holds(d, r) => c = d

\* Whatever the timing, two calls run on one claim only after the clean-up job
\* declared the claim dead.
DoubleClaimNeedsTimeOut ==
    \A c, d \in Calls : \A r \in RowIds :
        Holds(c, r) /\ Holds(d, r) /\ c # d => r \in timedOut

\* While executions end within the in-flight timeout, two writes for one key
\* are explained: a call passed the gate without a claim, the outcome of a
\* write was not recorded, or the row was purged.
SecondWriteExplained ==
    Prompt => \A c, d \in effects :
        c # d /\ key[c] = key[d] =>
            \/ \E e \in {c, d} : Bypassed(e) \/ Unrecorded(e)
            \/ key[c] \in purged

\* A replayed answer is the answer of a write that did take place under the
\* same key and reported success.
ReplayIsGenuine ==
    \A c \in Calls : decision[c] = "replay" =>
        /\ origin[c] \in effects
        /\ key[origin[c]] = key[c]
        /\ ok[origin[c]]

\* complete() updates by id, so a recorded success can be taken back (and the
\* write be done again): but only by the complete() of another call, whose own
\* attempt failed and whose claim the clean-up job had given up before, and
\* never while executions end within the in-flight timeout.  No retry and no
\* clean-up takes a success back.
SuccessLostOnlyLate ==
    [][\A r \in RowIds :
           rows[r].status = "succeeded" /\ rows'[r].status # "succeeded" /\ rows'[r] # NoRow =>
               /\ ~Prompt /\ r \in timedOut
               /\ \E c \in Calls : Holds(c, r) /\ ~ok[c] /\ rows[r].result # c]_vars

\* No key is blocked for ever: a claim ends in a result or is timed out.
ClaimsEnd ==
    \A r \in RowIds :
        (Live(r) /\ rows[r].status = "in_flight")
            ~> ~(Live(r) /\ rows[r].status = "in_flight")

=============================================================================
