---------------------------- MODULE ExecutionPlan ----------------------------
(***************************************************************************)
(* One execution plan of the agent                                         *)
(* (src/src/brain/agent/task-runner.service.ts): runs that work through    *)
(* its steps, people who approve, reject and cancel, and the confirmation  *)
(* of the writes it suspends.                                              *)
(*                                                                         *)
(* Each request works on its own copy of the row of ai_execution_plan and  *)
(* writes the whole row back with savePlan(), whose UPDATE carries the     *)
(* state that was read in its WHERE clause.  Requests run concurrently, in *)
(* one process or several, and take turns at every await.  The tokens of   *)
(* suspended writes are those of WriteGuard, seen from outside.            *)
(***************************************************************************)
EXTENDS Naturals, Sequences, FiniteSets

CONSTANTS
    Procs,      \* slots for concurrent requests
    Tokens,     \* bound on the write tokens that are ever issued
    Shapes,     \* the plans: sequences of step kinds
    MaxRequests, \* bound on the requests
    None        \* no token

\* A write has a preview that is confirmed; a direct one has none.
StepKinds == {"write", "direct", "read", "agent", "condition", "end", "broken"}

ASSUME PlanAssumption ==
    /\ None \notin Tokens
    /\ MaxRequests \in Nat
    /\ Shapes \subseteq Seq(StepKinds)

VARIABLES
    kind,       \* the kinds of the steps: fixed when the plan is created
    db,         \* the row: plan state, step statuses and step tokens
    token,      \* each token: "new", "live", "used" or "gone"
    issuedFor,  \* the step a token was issued for, 0 for none
    pc,         \* where each request is
    mem,        \* its copy of the row
    seen,       \* persistedState: the state its UPDATE expects
    cur,        \* the step it is working on
    rereading,  \* its UPDATE matched no row, and it looks why
    using,      \* the token it has confirmed
    written,    \* write steps whose write has been executed
    healed,     \* those with a preview that ended in success through a retry
    halted,     \* the plan was cancelled, and nobody has decided on a step since
    requests    \* how many requests were made: a bound, not in the code

row     == <<db, token, issuedFor>>
local   == <<mem, seen, cur, using>>
history == <<written, healed, halted>>
vars    == <<kind, row, pc, local, rereading, history, requests>>

Statuses == {"pending", "running", "success", "failed", "suspended", "skipped"}
Steps    == DOMAIN kind
Writes   == {s \in Steps : kind[s] \in {"write", "direct"}}
Plans    == [state : Statuses, status : [Steps -> Statuses],
             token : [Steps -> Tokens \cup {None}]]

\* A save is named after the place in the code that makes it.
Saves == {"saveStart", "saveRunning", "saveStep", "saveEnd", "saveSuspended",
          "saveFailed", "saveFinal", "saveApproved", "saveCancelled", "saveEdit"}

\* The saves of a decision on one step: approved, rejected or confirmed.
Decisions == {"saveApproved", "saveEdit"}

TypeOK ==
    /\ kind \in Shapes
    /\ db \in Plans
    /\ token \in [Tokens -> {"new", "live", "used", "gone"}]
    /\ issuedFor \in [Tokens -> Steps \cup {0}]
    /\ pc \in [Procs -> {"idle", "exec", "heal", "create", "callback"} \cup Saves]
    /\ mem \in [Procs -> Plans]
    /\ seen \in [Procs -> Statuses]
    /\ cur \in [Procs -> Steps \cup {0}]
    /\ rereading \in [Procs -> BOOLEAN]
    /\ using \in [Procs -> Tokens \cup {None}]
    /\ written \subseteq Steps
    /\ healed \subseteq Steps
    /\ halted \in BOOLEAN
    /\ requests \in 0..MaxRequests

\* createPlan(): every step pending.
NewPlan == [state  |-> "pending",
            status |-> [s \in Steps |-> "pending"],
            token  |-> [s \in Steps |-> None]]

Init ==
    /\ kind \in Shapes
    /\ db = NewPlan
    /\ token = [t \in Tokens |-> "new"]
    /\ issuedFor = [t \in Tokens |-> 0]
    /\ pc = [p \in Procs |-> "idle"]
    /\ mem = [p \in Procs |-> NewPlan]
    /\ seen = [p \in Procs |-> "pending"]
    /\ cur = [p \in Procs |-> 0]
    /\ rereading = [p \in Procs |-> FALSE]
    /\ using = [p \in Procs |-> None]
    /\ written = {} /\ healed = {} /\ halted = FALSE
    /\ requests = 0

-----------------------------------------------------------------------------
(* Copies of the plan                                                      *)

\* detectFinalState(): suspended steps do not count.
Final(plan) ==
    CASE \E s \in Steps : plan.status[s] \in {"pending", "running"} -> "pending"
      [] \A s \in Steps : plan.status[s] \notin {"pending", "running", "failed"} -> "success"
      [] OTHER -> "failed"

WithStatus(plan, s, status) == [plan EXCEPT !.status[s] = status]
Settled(plan)               == [plan EXCEPT !.state = Final(plan)]

Goto(p, label)   == pc' = [pc EXCEPT ![p] = label]
Hold(p, plan)    == mem' = [mem EXCEPT ![p] = plan]

\* The request goes on with plan, and saves it next.
Prepare(p, plan, save) == Hold(p, plan) /\ Goto(p, save)

\* The request ends; its copy is forgotten.
Stop(p) ==
    /\ Goto(p, "idle")
    /\ Hold(p, NewPlan)
    /\ seen' = [seen EXCEPT ![p] = "pending"]
    /\ cur' = [cur EXCEPT ![p] = 0]
    /\ using' = [using EXCEPT ![p] = None]

\* The loop of run(): the next step that is neither successful nor skipped.
\* A failed step is tried again, and a suspended one ends the run.
ToDo(plan, n)    == {s \in Steps : s > n /\ plan.status[s] \notin {"success", "skipped"}}
IsNext(s, plan, n) == s \in ToDo(plan, n) /\ \A r \in ToDo(plan, n) : s <= r

Advance(p) ==
    LET plan == mem[p]
    IN  \/ /\ ToDo(plan, cur[p]) = {}
           /\ Prepare(p, Settled(plan), "saveFinal")
           /\ seen' = [seen EXCEPT ![p] = plan.state]
           /\ UNCHANGED <<cur, using>>
        \/ \E s \in Steps :
             /\ IsNext(s, plan, cur[p])
             /\ \/ plan.status[s] = "suspended" /\ Stop(p)
                \/ /\ plan.status[s] # "suspended"
                   /\ Prepare(p, WithStatus(plan, s, "running"), "saveRunning")
                   /\ seen' = [seen EXCEPT ![p] = plan.state]
                   /\ cur' = [cur EXCEPT ![p] = s]
                   /\ UNCHANGED using

-----------------------------------------------------------------------------
(* savePlan()                                                              *)

\* What follows a save that went well.
Saved(p) ==
    \/ pc[p] \in {"saveStart", "saveStep", "saveFailed"} /\ Advance(p)
    \/ /\ pc[p] = "saveRunning"
       /\ Goto(p, "exec")
       /\ seen' = [seen EXCEPT ![p] = mem[p].state]
       /\ UNCHANGED <<mem, cur, using>>
    \/ /\ pc[p] \in {"saveEnd", "saveSuspended", "saveFinal",
                     "saveApproved", "saveCancelled", "saveEdit"}
       /\ Stop(p)

\* The token was not created, or the suspended step could not be saved: a
\* tool step has failed, an agent step goes on as if nothing had happened.
SuspendSucceeds(p) ==
    /\ Prepare(p, WithStatus(mem[p], cur[p], "success"), "saveStep")
    /\ UNCHANGED <<seen, cur, using>>

SuspendFails(p) ==
    /\ \/ kind[cur[p]] = "write"
          /\ Prepare(p, Settled(WithStatus(mem[p], cur[p], "failed")), "saveStep")
       \/ kind[cur[p]] = "agent" /\ Goto(p, "exec") /\ UNCHANGED mem
    /\ UNCHANGED <<seen, cur, using>>

\* The exception that reaches the catch clause of run().
Throw(p) ==
    /\ Prepare(p, WithStatus(mem[p], cur[p], "failed"), "saveFailed")
    /\ UNCHANGED <<seen, cur, using>>

\* What follows a conflict.
Conflict(p) ==
    \/ pc[p] \in {"saveStart", "saveRunning", "saveFailed", "saveFinal",
                  "saveApproved", "saveCancelled", "saveEdit"} /\ Stop(p)
    \/ pc[p] \in {"saveStep", "saveEnd"} /\ Throw(p)
    \/ pc[p] = "saveSuspended" /\ SuspendFails(p)

\* UPDATE ... WHERE id AND tenantId AND state = persistedState.
MatchesById(p) == TRUE
Matches(p)     == db.state = seen[p]

Update(p) ==
    /\ pc[p] \in Saves /\ ~rereading[p]
    /\ Matches(p)
    /\ db' = mem[p]
    /\ halted' = (pc[p] = "saveCancelled" \/ (halted /\ pc[p] \notin Decisions))
    /\ Saved(p)
    /\ UNCHANGED <<kind, token, issuedFor, rereading, written, healed, requests>>

\* No row was affected: look whether the state is still the expected one.
Mismatch(p) ==
    /\ pc[p] \in Saves /\ ~rereading[p]
    /\ ~Matches(p)
    /\ rereading' = [rereading EXCEPT ![p] = TRUE]
    /\ UNCHANGED <<kind, row, pc, local, history, requests>>

\* The row that is read again has the expected state: the save counts as
\* done.  Otherwise a conflict is reported.
Reread(p) ==
    /\ rereading[p]
    /\ rereading' = [rereading EXCEPT ![p] = FALSE]
    /\ \/ db.state = seen[p] /\ Saved(p)
       \/ db.state # seen[p] /\ Conflict(p)
    /\ UNCHANGED <<kind, row, history, requests>>

-----------------------------------------------------------------------------
(* Requests                                                                *)

Request == requests < MaxRequests /\ requests' = requests + 1

\* getPlan(): the request takes a copy and works on it.
Read(p, plan, save) ==
    /\ pc[p] = "idle"
    /\ Prepare(p, plan, save)
    /\ seen' = [seen EXCEPT ![p] = db.state]
    /\ Request
    /\ UNCHANGED <<kind, row, cur, rereading, using, history>>

Ended == {"success", "failed", "skipped"}

\* run(): a plan that has not ended is taken up again.
Run(p) ==
    /\ db.state \notin Ended
    /\ IF \E s \in Steps : db.status[s] \in {"pending", "running"}
       THEN Read(p, [db EXCEPT !.state = "running"], "saveStart")
       ELSE Read(p, Settled(db), "saveFinal")

Approve(p) ==
    \E s \in Steps :
        /\ db.status[s] = "suspended"
        /\ Read(p, [WithStatus(db, s, "pending") EXCEPT !.state = "pending"], "saveApproved")

Reject(p) ==
    \E s \in Steps :
        /\ db.status[s] = "suspended"
        /\ Read(p, Settled(WithStatus(db, s, "skipped")), "saveEdit")

\* Not the code: a state that the column does not know.
CancelledByName(plan) == [plan EXCEPT !.state = "cancelled"]

\* cancelPlan(): a suspended step stays suspended.
Cancelled(plan) ==
    [plan EXCEPT !.state  = "skipped",
                 !.status = [s \in Steps |-> IF plan.status[s] \in {"pending", "running"}
                                             THEN "skipped" ELSE plan.status[s]]]

Cancel(p) ==
    /\ db.state \notin {"success", "failed"}
    /\ Read(p, Cancelled(db), "saveCancelled")

\* The user confirms a token: its write is executed, and the request goes on
\* to report that to the plan.
Confirm(p, t) ==
    /\ pc[p] = "idle"
    /\ token[t] = "live"
    /\ token' = [token EXCEPT ![t] = "used"]
    /\ using' = [using EXCEPT ![p] = t]
    /\ written' = written \cup ({issuedFor[t]} \cap Writes)
    /\ Goto(p, "callback")
    /\ Request
    /\ UNCHANGED <<kind, db, issuedFor, mem, seen, cur, rereading, healed, halted>>

\* The user cancels a token, or it expires.
Revoke(t) ==
    /\ token[t] = "live"
    /\ token' = [token EXCEPT ![t] = "gone"]
    /\ UNCHANGED <<kind, db, issuedFor, pc, local, rereading, history, requests>>

\* markStepExecutedByToken(): whatever the state of the plan and the step.
\* The plan may be missing from the newest 50, and errors are ignored.
Redeemed(plan, s) == [WithStatus(plan, s, "success") EXCEPT !.token[s] = None]

Callback(p) ==
    /\ pc[p] = "callback"
    /\ \/ \E s \in Steps :
            /\ db.token[s] = using[p]
            /\ Prepare(p, Settled(Redeemed(db, s)), "saveEdit")
            /\ seen' = [seen EXCEPT ![p] = db.state]
            /\ UNCHANGED <<cur, using>>
       \/ Stop(p)
    /\ UNCHANGED <<kind, row, rereading, history, requests>>

-----------------------------------------------------------------------------
(* The steps of a run                                                      *)

Kind(p) == kind[cur[p]]

\* The step has a result, which is saved next.
Result(p, status) ==
    /\ Prepare(p, WithStatus(mem[p], cur[p], status), "saveStep")
    /\ UNCHANGED <<seen, cur, using>>

Stays == UNCHANGED <<kind, row, rereading, history, requests>>

\* runToolStep(): a write with a preview never executes here, the preview is
\* suspended.  A step without a tool or of an unknown type fails.
ToolStep(p) ==
    /\ pc[p] = "exec"
    /\ \/ Kind(p) = "read" /\ Result(p, "success")
       \/ Kind(p) = "broken" /\ Result(p, "failed")
       \/ Kind(p) = "write" /\ Goto(p, "create") /\ UNCHANGED local
       \/ Kind(p) \in {"write", "read"} /\ Goto(p, "heal") /\ UNCHANGED local
       \/ Kind(p) \in {"write", "read"} /\ Throw(p)
    /\ Stays

Executed(p) == written' = written \cup ({cur[p]} \cap Writes)

\* A tool without a preview (cancelOrder, cancelPurchaseOrder) writes at once,
\* and again in the self-heal loop; one that fails may have written.
DirectStep(p) ==
    /\ pc[p] \in {"exec", "heal"} /\ Kind(p) = "direct"
    /\ \/ Executed(p) /\ Result(p, "success")
       \/ /\ Executed(p) \/ UNCHANGED written
          /\ \/ pc[p] = "exec" /\ Goto(p, "heal") /\ UNCHANGED local
             \/ pc[p] = "exec" /\ Throw(p)
             \/ pc[p] = "heal" /\ Result(p, "failed")
    /\ UNCHANGED <<kind, row, rereading, healed, halted, requests>>

\* runAgentStep(): the language model calls tools as it likes, then answers,
\* fails, or has called one that returns a preview.
AgentStep(p) ==
    /\ pc[p] = "exec" /\ Kind(p) = "agent"
    /\ \/ \E status \in {"success", "failed"} : Result(p, status)
       \/ Goto(p, "create") /\ UNCHANGED local
       \/ Throw(p)
    /\ Stays

\* A condition always holds; the end step ends the run at once.
PlainStep(p) ==
    /\ pc[p] = "exec"
    /\ \/ Kind(p) = "condition" /\ Result(p, "success")
       \/ /\ Kind(p) = "end"
          /\ Prepare(p, Settled(WithStatus(mem[p], cur[p], "success")), "saveEnd")
          /\ UNCHANGED <<seen, cur, using>>
    /\ Stays

\* SelfHealLoop: a retry succeeds or all fail.  For a write the retry that
\* succeeds is one more preview.
Heal(p) ==
    /\ pc[p] = "heal" /\ Kind(p) # "direct"
    /\ \/ Result(p, "success") /\ healed' = healed \cup ({cur[p]} \cap Writes)
       \/ Result(p, "failed") /\ UNCHANGED healed
    /\ UNCHANGED <<kind, row, rereading, written, halted, requests>>

Suspended(plan, s, t) ==
    [WithStatus(plan, s, "suspended") EXCEPT !.state = "suspended", !.token[s] = t]

SuspendedEarly(p) ==
    /\ Prepare(p, Suspended(mem[p], cur[p], None), "saveSuspended")
    /\ UNCHANGED <<seen, cur, using>>

\* maybeSuspendWrite(): the token is created, then the step is suspended.
OnCreateError(p) == SuspendFails(p)

Create(p) ==
    /\ pc[p] = "create"
    /\ \/ \E t \in Tokens :
            /\ token[t] = "new"
            /\ token' = [token EXCEPT ![t] = "live"]
            /\ issuedFor' = [issuedFor EXCEPT ![t] = cur[p]]
            /\ Prepare(p, Suspended(mem[p], cur[p], t), "saveSuspended")
            /\ UNCHANGED <<seen, cur, using>>
       \/ OnCreateError(p) /\ UNCHANGED <<token, issuedFor>>
    /\ UNCHANGED <<kind, db, rereading, history, requests>>

\* The process dies, or the client of a run goes away.
Crash(p) ==
    /\ pc[p] # "idle"
    /\ Stop(p)
    /\ rereading' = [rereading EXCEPT ![p] = FALSE]
    /\ UNCHANGED <<kind, row, history, requests>>

Next ==
    \/ \E p \in Procs :
         \/ Run(p) \/ Approve(p) \/ Reject(p) \/ Cancel(p)
         \/ (\E t \in Tokens : Confirm(p, t)) \/ Callback(p)
         \/ ToolStep(p) \/ DirectStep(p) \/ AgentStep(p) \/ PlainStep(p)
         \/ Heal(p) \/ Create(p)
         \/ Update(p) \/ Mismatch(p) \/ Reread(p) \/ Crash(p)
    \/ \E t \in Tokens : Revoke(t)

Spec == Init /\ [][Next]_vars

-----------------------------------------------------------------------------
(* Properties                                                              *)

\* A step that calls a write tool is recorded as successful only when its
\* write was executed, or when the retry of the self-heal loop declared it so:
\* neither a failed suspension nor a stale copy makes up a success.
SuccessIsEarned ==
    \A s \in Writes : db.status[s] = "success" => s \in written \cup healed

\* A suspended step names a token that was issued for it, so that somebody can
\* confirm or cancel it; the token of another step is never redeemed for it.
SuspensionHasToken ==
    \A s \in Steps :
        db.status[s] = "suspended" => db.token[s] # None /\ issuedFor[db.token[s]] = s

\* After a cancellation no step is started any more, neither by the runs that
\* were under way nor by new ones, until a decision on a step is recorded.
CancelStops ==
    [][halted /\ halted' =>
         \A p \in Procs : pc[p] = "saveRunning" => pc'[p] # "exec"]_vars
=============================================================================
