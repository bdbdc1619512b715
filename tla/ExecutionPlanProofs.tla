------------------------- MODULE ExecutionPlanProofs -------------------------
(***************************************************************************)
(* Theorems about ExecutionPlan, for every plan, every number of           *)
(* concurrent requests and every number of tokens.                         *)
(*                                                                         *)
(* Every copy of the plan is a plan the system may be in: the row, and the *)
(* copy of each request however old it is.  What a copy says of a success  *)
(* or of a suspended step stays true, because a write that was executed    *)
(* stays executed and a token belongs to its step for ever.                *)
(***************************************************************************)
EXTENDS ExecutionPlan, TLAPS

Labels == {"idle", "exec", "heal", "create", "callback"} \cup Saves

\* What a copy may say, when the writes of the steps in done are accounted
\* for and the tokens belong to the steps that issued tells.
Sound(plan, done, issued) ==
    /\ \A s \in Writes : plan.status[s] = "success" => s \in done
    /\ \A s \in Steps : plan.status[s] = "suspended" => plan.token[s] # None
    /\ \A s \in Steps : plan.token[s] # None => issued[plan.token[s]] = s

Good(done, issued) == {plan \in Plans : Sound(plan, done, issued)}

Done    == written \cup healed
GoodNow == Good(Done, issuedFor)

\* A token that was not issued belongs to no step.
TokensFit == \A t \in Tokens : token[t] = "new" => issuedFor[t] = 0

\* A request that reports a confirmed token has seen its write executed.
CallbacksFit ==
    \A p \in Procs : pc[p] = "callback" =>
        /\ using[p] \in Tokens
        /\ token[using[p]] = "used"
        /\ issuedFor[using[p]] \in Writes => issuedFor[using[p]] \in written

CopiesFit == db \in GoodNow /\ mem \in [Procs -> GoodNow]

PlanInv == TypeOK /\ CopiesFit /\ TokensFit /\ CallbacksFit

-----------------------------------------------------------------------------
(* What the operations make of a plan                                      *)

\* Steps are positive numbers.
LEMMA StepsPositive == ASSUME TypeOK PROVE 0 \notin Steps /\ Writes \subseteq Steps
<1>1. kind \in Seq(StepKinds)
  BY PlanAssumption DEF TypeOK
<1> QED
  BY <1>1 DEF Steps, Writes

\* A new plan says nothing.
LEMMA NewGood == ASSUME TypeOK, NEW done, NEW issued PROVE NewPlan \in Good(done, issued)
<1>1. NewPlan \in Plans
  BY DEF NewPlan, Plans, Statuses
<1> QED
  BY <1>1, StepsPositive DEF NewPlan, Good, Sound

\* The state of the plan is free.
LEMMA StateGood ==
    ASSUME NEW done, NEW issued, NEW plan \in Good(done, issued), NEW state \in Statuses
    PROVE  [plan EXCEPT !.state = state] \in Good(done, issued)
<1> DEFINE new == [plan EXCEPT !.state = state]
<1>1. new \in Plans /\ new.status = plan.status /\ new.token = plan.token
  BY DEF Good, Plans
<1> QED
  BY <1>1 DEF Good, Sound

LEMMA SettledGood ==
    ASSUME NEW done, NEW issued, NEW plan \in Good(done, issued)
    PROVE  Settled(plan) \in Good(done, issued)
<1>1. Final(plan) \in Statuses
  BY DEF Final, Statuses
<1> QED
  BY <1>1, StateGood DEF Settled

\* A step may take any status but an unearned success or a suspension
\* without a token.
LEMMA StatusGood ==
    ASSUME TypeOK, NEW done, NEW issued, NEW plan \in Good(done, issued),
           NEW s, NEW status \in Statuses \ {"suspended"},
           status = "success" => s \notin Writes \/ s \in done
    PROVE  WithStatus(plan, s, status) \in Good(done, issued)
<1> DEFINE new == WithStatus(plan, s, status)
<1>1. new \in Plans /\ new.token = plan.token
  BY DEF Good, Plans, WithStatus
<1>2. \A r \in Steps : new.status[r] = IF r = s THEN status ELSE plan.status[r]
  BY DEF Good, Plans, WithStatus
<1> HIDE DEF new
<1>3. Sound(new, done, issued)
  BY <1>1, <1>2, StepsPositive DEF Good, Sound
<1> QED
  BY <1>1, <1>3 DEF Good, new

LEMMA SuspendedGood ==
    ASSUME TypeOK, NEW done, NEW issued, NEW plan \in Good(done, issued),
           NEW s, NEW t \in Tokens, issued[t] = s
    PROVE  Suspended(plan, s, t) \in Good(done, issued)
<1> DEFINE new == Suspended(plan, s, t)
<1>1. new \in Plans
  BY DEF Good, Plans, Suspended, WithStatus, Statuses
<1>2. \A r \in Steps : /\ new.status[r] = IF r = s THEN "suspended" ELSE plan.status[r]
                       /\ new.token[r] = IF r = s THEN t ELSE plan.token[r]
  BY DEF Good, Plans, Suspended, WithStatus
<1>3. t # None
  BY PlanAssumption
<1> HIDE DEF new
<1>4. Sound(new, done, issued)
  BY <1>1, <1>2, <1>3, StepsPositive DEF Good, Sound
<1> QED
  BY <1>1, <1>4 DEF Good, new

LEMMA RedeemedGood ==
    ASSUME TypeOK, NEW done, NEW issued, NEW plan \in Good(done, issued),
           NEW s \in Steps, s \in Writes => s \in done
    PROVE  Redeemed(plan, s) \in Good(done, issued)
<1> DEFINE new == Redeemed(plan, s)
<1>1. new \in Plans
  BY DEF Good, Plans, Redeemed, WithStatus, Statuses
<1>2. \A r \in Steps : /\ new.status[r] = IF r = s THEN "success" ELSE plan.status[r]
                       /\ new.token[r] = IF r = s THEN None ELSE plan.token[r]
  BY DEF Good, Plans, Redeemed, WithStatus
<1> HIDE DEF new
<1>3. Sound(new, done, issued)
  BY <1>1, <1>2, StepsPositive DEF Good, Sound
<1> QED
  BY <1>1, <1>3 DEF Good, new

LEMMA CancelledGood ==
    ASSUME TypeOK, NEW done, NEW issued, NEW plan \in Good(done, issued)
    PROVE  Cancelled(plan) \in Good(done, issued)
<1> DEFINE new == Cancelled(plan)
<1>1. new \in Plans /\ new.token = plan.token
  BY DEF Good, Plans, Cancelled, Statuses
<1>2. \A r \in Steps : new.status[r] \in {"skipped", plan.status[r]}
  BY DEF Good, Plans, Cancelled
<1> HIDE DEF new
<1>3. Sound(new, done, issued)
  BY <1>1, <1>2, StepsPositive DEF Good, Sound
<1> QED
  BY <1>1, <1>3 DEF Good, new

\* What a copy says stays true.
LEMMA StaysGood ==
    ASSUME TypeOK, NEW done, NEW more, done \subseteq more,
           NEW issued, NEW later,
           \A t \in Tokens : issued[t] \in Steps => later[t] = issued[t],
           NEW plan \in Good(done, issued)
    PROVE  plan \in Good(more, later)
<1>1. plan \in Plans /\ Sound(plan, done, issued)
  BY DEF Good
<1>2. ASSUME NEW s \in Steps, plan.token[s] # None
      PROVE  later[plan.token[s]] = s
  <2>1. plan.token[s] \in Tokens /\ issued[plan.token[s]] = s
    BY <1>1, <1>2 DEF Plans, Sound
  <2> QED
    BY <2>1
<1>3. Sound(plan, more, later)
  BY <1>1, <1>2 DEF Sound
<1> QED
  BY <1>1, <1>3 DEF Good

-----------------------------------------------------------------------------
(* What a request does to its own variables                                *)

\* The request p went on: its variables have their types, its copy is good,
\* and it is not about to report a token.
WentOn(p) ==
    /\ pc' \in [Procs -> Labels] /\ pc'[p] # "callback"
    /\ mem' \in [Procs -> GoodNow]
    /\ seen' \in [Procs -> Statuses]
    /\ cur' \in [Procs -> Steps \cup {0}]
    /\ using' \in [Procs -> Tokens \cup {None}]
    /\ \A q \in Procs \ {p} : pc'[q] = pc[q] /\ using'[q] = using[q]

LEMMA PrepareWent ==
    ASSUME PlanInv, NEW p \in Procs, NEW plan \in GoodNow, NEW save \in Saves,
           Prepare(p, plan, save),
           seen' \in [Procs -> Statuses], cur' \in [Procs -> Steps \cup {0}], UNCHANGED using
    PROVE  WentOn(p)
<1>1. save \in Labels /\ save # "callback"
  BY DEF Labels, Saves
<1>2. pc \in [Procs -> Labels] /\ mem \in [Procs -> GoodNow] /\ using \in [Procs -> Tokens \cup {None}]
  BY DEF PlanInv, TypeOK, CopiesFit, Labels
<1> QED
  BY <1>1, <1>2 DEF Prepare, Hold, Goto, WentOn

LEMMA GotoWent ==
    ASSUME PlanInv, NEW p \in Procs, NEW label \in Labels \ {"callback"}, Goto(p, label),
           UNCHANGED <<mem, cur, using>>, seen' \in [Procs -> Statuses]
    PROVE  WentOn(p)
<1>1. /\ pc \in [Procs -> Labels] /\ mem \in [Procs -> GoodNow]
      /\ using \in [Procs -> Tokens \cup {None}] /\ cur \in [Procs -> Steps \cup {0}]
  BY DEF PlanInv, TypeOK, CopiesFit, Labels
<1> QED
  BY <1>1 DEF Goto, WentOn

LEMMA StopWent == ASSUME PlanInv, NEW p \in Procs, Stop(p) PROVE WentOn(p)
<1>1. NewPlan \in GoodNow
  BY NewGood DEF PlanInv, GoodNow
<1>2. "idle" \in Labels /\ "pending" \in Statuses
  BY DEF Labels, Statuses
<1>3. /\ pc \in [Procs -> Labels] /\ mem \in [Procs -> GoodNow]
      /\ seen \in [Procs -> Statuses] /\ cur \in [Procs -> Steps \cup {0}]
      /\ using \in [Procs -> Tokens \cup {None}]
  BY DEF PlanInv, TypeOK, CopiesFit, Labels
<1> QED
  BY <1>1, <1>2, <1>3 DEF Stop, Hold, Goto, WentOn

\* A step that may be recorded with that status is.
LEMMA StatusWent ==
    ASSUME PlanInv, NEW p \in Procs, NEW save \in Saves, NEW status \in Statuses \ {"suspended"},
           status = "success" => cur[p] \notin Writes \/ cur[p] \in Done,
           UNCHANGED <<seen, cur, using>>
    PROVE  /\ Prepare(p, WithStatus(mem[p], cur[p], status), save) => WentOn(p)
           /\ Prepare(p, Settled(WithStatus(mem[p], cur[p], status)), save) => WentOn(p)
<1>1. mem[p] \in GoodNow
  BY DEF PlanInv, CopiesFit
<1>2. WithStatus(mem[p], cur[p], status) \in GoodNow
  BY <1>1, StatusGood DEF PlanInv, GoodNow
<1>3. Settled(WithStatus(mem[p], cur[p], status)) \in GoodNow
  BY <1>2, SettledGood DEF GoodNow
<1>4. seen' \in [Procs -> Statuses] /\ cur' \in [Procs -> Steps \cup {0}]
  BY DEF PlanInv, TypeOK
<1> QED
  BY <1>2, <1>3, <1>4, PrepareWent

LEMMA ThrowWent == ASSUME PlanInv, NEW p \in Procs, Throw(p) PROVE WentOn(p)
<1>1. "saveFailed" \in Saves /\ "failed" \in Statuses \ {"suspended"}
  BY DEF Saves, Statuses
<1> QED
  BY <1>1, StatusWent DEF Throw

LEMMA SuspendFailsWent == ASSUME PlanInv, NEW p \in Procs, SuspendFails(p) PROVE WentOn(p)
<1>1. "saveStep" \in Saves /\ "failed" \in Statuses \ {"suspended"} /\ "exec" \in Labels \ {"callback"}
  BY DEF Saves, Statuses, Labels
<1>2. seen \in [Procs -> Statuses]
  BY DEF PlanInv, TypeOK
<1> QED
  BY <1>1, <1>2, StatusWent, GotoWent DEF SuspendFails

LEMMA AdvanceWent == ASSUME PlanInv, NEW p \in Procs, Advance(p) PROVE WentOn(p)
<1> DEFINE plan == mem[p]
<1>1. plan \in GoodNow /\ plan.state \in Statuses
  BY DEF PlanInv, CopiesFit, GoodNow, Good, Plans
<1>2. seen \in [Procs -> Statuses] /\ cur \in [Procs -> Steps \cup {0}]
  BY DEF PlanInv, TypeOK
<1>3. {"saveFinal", "saveRunning"} \subseteq Saves /\ "running" \in Statuses \ {"suspended"}
  BY DEF Saves, Statuses
<1>4. ASSUME Prepare(p, Settled(plan), "saveFinal"), UNCHANGED <<cur, using>>,
             seen' = [seen EXCEPT ![p] = plan.state]
      PROVE  WentOn(p)
  <2>1. Settled(plan) \in GoodNow
    BY <1>1, SettledGood DEF GoodNow
  <2>2. seen' \in [Procs -> Statuses] /\ cur' \in [Procs -> Steps \cup {0}]
    BY <1>1, <1>2, <1>4
  <2> QED
    BY <1>3, <1>4, <2>1, <2>2, PrepareWent
<1>5. ASSUME NEW s \in Steps, Prepare(p, WithStatus(plan, s, "running"), "saveRunning"),
             seen' = [seen EXCEPT ![p] = plan.state], cur' = [cur EXCEPT ![p] = s], UNCHANGED using
      PROVE  WentOn(p)
  <2>1. WithStatus(plan, s, "running") \in GoodNow
    BY <1>1, <1>3, StatusGood DEF PlanInv, GoodNow
  <2>2. seen' \in [Procs -> Statuses] /\ cur' \in [Procs -> Steps \cup {0}]
    BY <1>1, <1>2, <1>5
  <2> QED
    BY <1>3, <1>5, <2>1, <2>2, PrepareWent
<1> QED
  BY <1>4, <1>5, StopWent DEF Advance

LEMMA SavedWent == ASSUME PlanInv, NEW p \in Procs, Saved(p) PROVE WentOn(p)
<1>1. mem[p].state \in Statuses /\ "exec" \in Labels \ {"callback"}
  BY DEF PlanInv, CopiesFit, GoodNow, Good, Plans, Labels
<1>2. seen \in [Procs -> Statuses]
  BY DEF PlanInv, TypeOK
<1> QED
  BY <1>1, <1>2, AdvanceWent, StopWent, GotoWent DEF Saved

LEMMA ConflictWent == ASSUME PlanInv, NEW p \in Procs, Conflict(p) PROVE WentOn(p)
BY StopWent, ThrowWent, SuspendFailsWent DEF Conflict

-----------------------------------------------------------------------------
(* The steps of the system                                                 *)

\* The goodness of copies depends on four variables only.
LEMMA SameGood ==
    ASSUME kind' = kind
    PROVE  /\ GoodNow' = Good(Done', issuedFor')
           /\ UNCHANGED <<issuedFor, written, healed>> => GoodNow' = GoodNow
<1>1. Steps' = Steps /\ Writes' = Writes
  BY DEF Steps, Writes
<1>2. Plans' = Plans
  BY <1>1 DEF Plans, Statuses
<1> QED
  BY <1>1, <1>2 DEF GoodNow, Good, Sound, Done

\* A request that only changes the row and its own variables.
LEMMA RequestStep ==
    ASSUME PlanInv, NEW p \in Procs, WentOn(p),
           UNCHANGED <<kind, token, issuedFor, written, healed>>,
           db' \in GoodNow, rereading' \in [Procs -> BOOLEAN],
           halted' \in BOOLEAN, requests' \in 0..MaxRequests
    PROVE  PlanInv'
<1>1. GoodNow' = GoodNow /\ Steps' = Steps /\ Writes' = Writes /\ Plans' = Plans
  BY SameGood DEF Steps, Writes, Plans, Statuses
<1>2. GoodNow \subseteq Plans
  BY DEF GoodNow, Good
<1>3. CopiesFit'
  BY <1>1 DEF CopiesFit, WentOn
<1>4. TypeOK'
  BY <1>1, <1>2 DEF PlanInv, TypeOK, WentOn, Labels, Statuses
<1>5. TokensFit'
  BY DEF PlanInv, TokensFit
<1>6. CallbacksFit'
  BY <1>1 DEF PlanInv, CallbacksFit, WentOn
<1> QED
  BY <1>3, <1>4, <1>5, <1>6 DEF PlanInv

\* getPlan(): the copy is as good as the row.
LEMMA ReadStep ==
    ASSUME PlanInv, NEW p \in Procs, NEW plan \in GoodNow, NEW save \in Saves, Read(p, plan, save)
    PROVE  PlanInv'
<1>1. db \in GoodNow /\ db.state \in Statuses
  BY DEF PlanInv, CopiesFit, GoodNow, Good, Plans
<1>2. seen' \in [Procs -> Statuses] /\ cur' \in [Procs -> Steps \cup {0}]
  BY <1>1 DEF Read, PlanInv, TypeOK
<1>3. WentOn(p)
  BY <1>2, PrepareWent DEF Read
<1>4. rereading' \in [Procs -> BOOLEAN] /\ halted' \in BOOLEAN
  BY DEF Read, PlanInv, TypeOK, history
<1>5. requests' \in 0..MaxRequests
  BY PlanAssumption DEF Read, Request, PlanInv, TypeOK
<1> QED
  BY <1>1, <1>3, <1>4, <1>5, RequestStep DEF Read, row, history

LEMMA SaveNames ==
    {"saveStart", "saveRunning", "saveStep", "saveEnd", "saveSuspended",
     "saveFailed", "saveFinal", "saveApproved", "saveCancelled", "saveEdit"} \subseteq Saves
BY DEF Saves

LEMMA RequestKept ==
    ASSUME PlanInv, NEW p \in Procs, Run(p) \/ Approve(p) \/ Reject(p) \/ Cancel(p)
    PROVE  PlanInv'
<1>1. db \in GoodNow
  BY DEF PlanInv, CopiesFit
<1>2. {"pending", "running", "skipped"} \subseteq Statuses \ {"suspended"}
  BY DEF Statuses
<1>3. Settled(db) \in GoodNow /\ [db EXCEPT !.state = "running"] \in GoodNow
  BY <1>1, <1>2, SettledGood, StateGood DEF GoodNow
<1>4. Cancelled(db) \in GoodNow
  BY <1>1, CancelledGood DEF GoodNow, PlanInv
<1>5. ASSUME NEW s \in Steps
      PROVE  /\ WithStatus(db, s, "pending") \in GoodNow
             /\ WithStatus(db, s, "skipped") \in GoodNow
  BY <1>1, <1>2, StatusGood DEF GoodNow, PlanInv
<1>6. ASSUME NEW s \in Steps
      PROVE  /\ [WithStatus(db, s, "pending") EXCEPT !.state = "pending"] \in GoodNow
             /\ Settled(WithStatus(db, s, "skipped")) \in GoodNow
  BY <1>2, <1>5, SettledGood, StateGood DEF GoodNow
<1>7. CASE Run(p)
  BY <1>3, <1>7, SaveNames, ReadStep DEF Run
<1>8. CASE Approve(p)
  BY <1>6, <1>8, SaveNames, ReadStep DEF Approve
<1>9. CASE Reject(p)
  BY <1>6, <1>9, SaveNames, ReadStep DEF Reject
<1>10. CASE Cancel(p)
  BY <1>4, <1>10, SaveNames, ReadStep DEF Cancel
<1> QED
  BY <1>7, <1>8, <1>9, <1>10

LEMMA SaveKept ==
    ASSUME PlanInv, NEW p \in Procs, Update(p) \/ Mismatch(p) \/ Reread(p) \/ Crash(p)
    PROVE  PlanInv'
<1>1. db \in GoodNow /\ mem[p] \in GoodNow
  BY DEF PlanInv, CopiesFit
<1>2. halted \in BOOLEAN /\ requests \in 0..MaxRequests /\ rereading \in [Procs -> BOOLEAN]
  BY DEF PlanInv, TypeOK
<1>3. CASE Update(p)
  <2>1. WentOn(p)
    BY <1>3, SavedWent DEF Update
  <2>2. halted' \in BOOLEAN
    BY <1>3 DEF Update
  <2> QED
    BY <1>1, <1>2, <1>3, <2>1, <2>2, RequestStep DEF Update
<1>4. CASE Mismatch(p)
  <2>1. pc[p] \in Labels \ {"callback"}
    BY <1>4 DEF Mismatch, Labels, Saves
  <2>2. rereading' \in [Procs -> BOOLEAN]
    BY <1>2, <1>4 DEF Mismatch
  <2>3. WentOn(p)
    BY <1>4, <2>1 DEF Mismatch, local, WentOn, PlanInv, TypeOK, CopiesFit, Labels
  <2> QED
    BY <1>1, <1>2, <1>4, <2>2, <2>3, RequestStep DEF Mismatch, row, history
<1>5. CASE Reread(p)
  <2>1. WentOn(p)
    BY <1>5, SavedWent, ConflictWent DEF Reread
  <2>2. rereading' \in [Procs -> BOOLEAN]
    BY <1>2, <1>5 DEF Reread
  <2> QED
    BY <1>1, <1>2, <1>5, <2>1, <2>2, RequestStep DEF Reread, row, history
<1>6. CASE Crash(p)
  <2>1. WentOn(p)
    BY <1>6, StopWent DEF Crash
  <2>2. rereading' \in [Procs -> BOOLEAN]
    BY <1>2, <1>6 DEF Crash
  <2> QED
    BY <1>1, <1>2, <1>6, <2>1, <2>2, RequestStep DEF Crash, row, history
<1> QED
  BY <1>3, <1>4, <1>5, <1>6

LEMMA ExecuteKept ==
    ASSUME PlanInv, NEW p \in Procs, ToolStep(p) \/ AgentStep(p) \/ PlainStep(p)
    PROVE  PlanInv'
<1>1. cur[p] \in Writes => Kind(p) \in {"write", "direct"}
  BY DEF Kind, Writes
<1>2. {"success", "failed"} \subseteq Statuses \ {"suspended"} /\ {"create", "heal"} \subseteq Labels \ {"callback"}
  BY DEF Statuses, Labels
<1>3. seen \in [Procs -> Statuses] /\ db \in GoodNow /\ rereading \in [Procs -> BOOLEAN]
      /\ halted \in BOOLEAN /\ requests \in 0..MaxRequests
  BY DEF PlanInv, TypeOK, CopiesFit
<1>4. ASSUME NEW label \in {"create", "heal"}, Goto(p, label), UNCHANGED local
      PROVE  WentOn(p)
  BY <1>2, <1>3, <1>4, GotoWent DEF local
<1>5. ASSUME Result(p, "failed") PROVE WentOn(p)
  BY <1>2, <1>5, SaveNames, StatusWent DEF Result
<1>6. ASSUME Kind(p) \notin {"write", "direct"}, Result(p, "success") PROVE WentOn(p)
  BY <1>1, <1>2, <1>6, SaveNames, StatusWent DEF Result
<1>7. CASE ToolStep(p)
  <2>1. WentOn(p)
    BY <1>4, <1>5, <1>6, <1>7, ThrowWent DEF ToolStep
  <2> QED
    BY <1>3, <1>7, <2>1, RequestStep DEF ToolStep, Stays, row, history
<1>8. CASE AgentStep(p)
  <2>1. WentOn(p)
    BY <1>4, <1>5, <1>6, <1>8, ThrowWent DEF AgentStep
  <2> QED
    BY <1>3, <1>8, <2>1, RequestStep DEF AgentStep, Stays, row, history
<1>9. CASE PlainStep(p)
  <2>1. WentOn(p)
    <3>1. CASE Kind(p) = "condition" /\ Result(p, "success")
      BY <1>6, <3>1
    <3>2. CASE /\ Kind(p) = "end"
               /\ Prepare(p, Settled(WithStatus(mem[p], cur[p], "success")), "saveEnd")
               /\ UNCHANGED <<seen, cur, using>>
      BY <1>1, <1>2, <3>2, SaveNames, StatusWent
    <3> QED
      BY <1>9, <3>1, <3>2 DEF PlainStep
  <2> QED
    BY <1>3, <1>9, <2>1, RequestStep DEF PlainStep, Stays, row, history
<1> QED
  BY <1>7, <1>8, <1>9

LEMMA CallbackKept == ASSUME PlanInv, NEW p \in Procs, Callback(p) PROVE PlanInv'
<1>1. db \in GoodNow /\ db \in Plans /\ db.state \in Statuses
  BY DEF PlanInv, CopiesFit, GoodNow, Good, Plans
<1>2. rereading \in [Procs -> BOOLEAN] /\ halted \in BOOLEAN /\ requests \in 0..MaxRequests
  BY DEF PlanInv, TypeOK
<1>3. ASSUME NEW s \in Steps, db.token[s] = using[p],
             Prepare(p, Settled(Redeemed(db, s)), "saveEdit"),
             seen' = [seen EXCEPT ![p] = db.state], UNCHANGED <<cur, using>>
      PROVE  WentOn(p)
  <2>1. using[p] \in Tokens /\ (issuedFor[using[p]] \in Writes => issuedFor[using[p]] \in written)
    BY DEF Callback, PlanInv, CallbacksFit
  <2>2. issuedFor[using[p]] = s
    BY <1>1, <1>3, <2>1, PlanAssumption DEF GoodNow, Good, Sound
  <2>3. s \in Writes => s \in Done
    BY <2>1, <2>2 DEF Done
  <2>4. Settled(Redeemed(db, s)) \in GoodNow
    BY <1>1, <2>3, RedeemedGood, SettledGood DEF GoodNow, PlanInv
  <2>5. seen' \in [Procs -> Statuses] /\ cur' \in [Procs -> Steps \cup {0}]
    BY <1>1, <1>3 DEF PlanInv, TypeOK
  <2> QED
    BY <1>3, <2>4, <2>5, SaveNames, PrepareWent
<1>4. WentOn(p)
  BY <1>3, StopWent DEF Callback
<1> QED
  BY <1>1, <1>2, <1>4, RequestStep DEF Callback, row, history

\* A write that was executed, or healed, only makes copies truer.
LEMMA StillGood ==
    ASSUME PlanInv, UNCHANGED kind, Done \subseteq Done',
           \A t \in Tokens : issuedFor[t] \in Steps => issuedFor'[t] = issuedFor[t]
    PROVE  GoodNow \subseteq GoodNow' /\ Steps' = Steps /\ Writes' = Writes /\ Plans' = Plans
<1>1. Steps' = Steps /\ Writes' = Writes /\ Plans' = Plans
  BY DEF Steps, Writes, Plans, Statuses
<1>2. GoodNow' = Good(Done', issuedFor')
  BY SameGood
<1>3. ASSUME NEW plan \in GoodNow PROVE plan \in Good(Done', issuedFor')
  BY StaysGood DEF GoodNow, PlanInv
<1> QED
  BY <1>1, <1>2, <1>3

\* A run goes on when a write was executed or healed.
LEMMA GrowStep ==
    ASSUME PlanInv, NEW p \in Procs, NEW label \in Labels \ {"callback"}, Goto(p, label),
           UNCHANGED <<kind, db, token, issuedFor, rereading, halted, requests, seen, cur, using>>,
           written \subseteq written', healed \subseteq healed',
           written' \subseteq Steps, healed' \subseteq Steps,
           mem' \in [Procs -> GoodNow']
    PROVE  PlanInv'
<1>1. GoodNow \subseteq GoodNow' /\ Steps' = Steps /\ Writes' = Writes /\ Plans' = Plans
  <2>1. Done \subseteq Done'
    BY DEF Done
  <2> QED
    BY <2>1, StillGood
<1>2. CopiesFit'
  BY <1>1 DEF PlanInv, CopiesFit
<1>3. GoodNow' \subseteq Plans'
  BY <1>1, SameGood DEF Good
<1>4. TypeOK'
  BY <1>1, <1>2, <1>3 DEF PlanInv, TypeOK, CopiesFit, Statuses, Labels, Goto
<1>5. TokensFit' /\ CallbacksFit'
  BY <1>1 DEF PlanInv, TokensFit, CallbacksFit, TypeOK, Goto
<1> QED
  BY <1>2, <1>4, <1>5 DEF PlanInv

\* The result of a step whose write was executed or healed with it.
LEMMA EarnedResult ==
    ASSUME PlanInv, NEW p \in Procs, NEW status \in {"success", "failed"}, Result(p, status),
           UNCHANGED <<kind, db, token, issuedFor, rereading, halted, requests>>,
           written \subseteq written', healed \subseteq healed',
           written' \subseteq Steps, healed' \subseteq Steps,
           status = "success" => (cur[p] \in Writes => cur[p] \in Done')
    PROVE  PlanInv'
<1>1. /\ mem' = [mem EXCEPT ![p] = WithStatus(mem[p], cur[p], status)]
      /\ Goto(p, "saveStep") /\ UNCHANGED <<seen, cur, using>>
  BY DEF Result, Prepare, Hold
<1>2. "saveStep" \in Labels \ {"callback"} /\ status \in Statuses \ {"suspended"}
  BY DEF Labels, Saves, Statuses
<1>3. GoodNow \subseteq GoodNow' /\ GoodNow' = Good(Done', issuedFor')
  <2>1. Done \subseteq Done'
    BY DEF Done
  <2> QED
    BY <2>1, StillGood, SameGood
<1>4. mem \in [Procs -> GoodNow'] /\ mem[p] \in Good(Done', issuedFor')
  BY <1>3 DEF PlanInv, CopiesFit
<1>5. WithStatus(mem[p], cur[p], status) \in GoodNow'
  BY <1>2, <1>3, <1>4, StatusGood DEF PlanInv
<1>6. mem' \in [Procs -> GoodNow']
  BY <1>1, <1>4, <1>5
<1> QED
  BY <1>1, <1>2, <1>6, GrowStep

LEMMA HealKept == ASSUME PlanInv, NEW p \in Procs, Heal(p) PROVE PlanInv'
<1>1. /\ UNCHANGED <<kind, db, token, issuedFor, rereading, written, halted, requests>>
      /\ written \subseteq Steps /\ healed \subseteq Steps
  BY DEF Heal, row, PlanInv, TypeOK
<1>2. CASE Result(p, "failed") /\ UNCHANGED healed
  BY <1>1, <1>2, EarnedResult
<1>3. CASE Result(p, "success") /\ healed' = healed \cup ({cur[p]} \cap Writes)
  <2>1. healed' \subseteq Steps /\ (cur[p] \in Writes => cur[p] \in Done')
    BY <1>1, <1>3, StepsPositive DEF Done, PlanInv
  <2> QED
    BY <1>1, <1>3, <2>1, EarnedResult
<1> QED
  BY <1>2, <1>3 DEF Heal

LEMMA DirectKept == ASSUME PlanInv, NEW p \in Procs, DirectStep(p) PROVE PlanInv'
<1>1. /\ UNCHANGED <<kind, db, token, issuedFor, rereading, healed, halted, requests>>
      /\ healed \subseteq Steps /\ written \subseteq Steps
      /\ Executed(p) \/ UNCHANGED written
  BY DEF DirectStep, row, PlanInv, TypeOK
<1>2. written \subseteq written' /\ written' \subseteq Steps
  BY <1>1, StepsPositive DEF Executed, PlanInv
<1>3. CASE Executed(p) /\ Result(p, "success")
  <2>1. cur[p] \in Writes => cur[p] \in Done'
    BY <1>3 DEF Done, Executed
  <2> QED
    BY <1>1, <1>2, <1>3, <2>1, EarnedResult
<1>4. CASE Result(p, "failed")
  BY <1>1, <1>2, <1>4, EarnedResult
<1>5. GoodNow \subseteq GoodNow'
  <2>1. Done \subseteq Done'
    BY <1>1, <1>2 DEF Done
  <2> QED
    BY <1>1, <2>1, StillGood
<1>6. CASE Goto(p, "heal") /\ UNCHANGED local
  <2>1. mem' \in [Procs -> GoodNow']
    BY <1>5, <1>6 DEF local, PlanInv, CopiesFit
  <2>2. "heal" \in Labels \ {"callback"}
    BY DEF Labels
  <2> QED
    BY <1>1, <1>2, <1>6, <2>1, <2>2, GrowStep DEF local
<1>7. CASE Throw(p)
  <2>1. mem' \in [Procs -> GoodNow'] /\ pc' = [pc EXCEPT ![p] = "saveFailed"]
    BY <1>5, <1>7, ThrowWent DEF WentOn, Throw, Prepare, Goto
  <2>2. "saveFailed" \in Labels \ {"callback"} /\ UNCHANGED <<seen, cur, using>>
    BY <1>7 DEF Labels, Saves, Throw
  <2> QED
    BY <1>1, <1>2, <2>1, <2>2, GrowStep DEF Goto
<1> QED
  BY <1>3, <1>4, <1>6, <1>7 DEF DirectStep

LEMMA CreateKept == ASSUME PlanInv, NEW p \in Procs, Create(p) PROVE PlanInv'
<1>1. CASE OnCreateError(p) /\ UNCHANGED <<token, issuedFor>>
  <2>1. WentOn(p)
    BY <1>1, SuspendFailsWent DEF OnCreateError
  <2> QED
    BY <1>1, <2>1, RequestStep DEF Create, history, PlanInv, TypeOK, CopiesFit
<1>2. ASSUME NEW t \in Tokens, token[t] = "new",
             token' = [token EXCEPT ![t] = "live"],
             issuedFor' = [issuedFor EXCEPT ![t] = cur[p]],
             Prepare(p, Suspended(mem[p], cur[p], t), "saveSuspended"),
             UNCHANGED <<seen, cur, using>>
      PROVE  PlanInv'
  <2>1. /\ UNCHANGED <<kind, db, rereading, written, healed, halted, requests>>
        /\ pc' = [pc EXCEPT ![p] = "saveSuspended"]
        /\ mem' = [mem EXCEPT ![p] = Suspended(mem[p], cur[p], t)]
    BY <1>2 DEF Create, history, Prepare, Hold, Goto
  <2>2. Done' = Done /\ issuedFor[t] = 0 /\ 0 \notin Steps
    BY <1>2, <2>1, StepsPositive DEF Done, PlanInv, TokensFit
  <2>3. \A u \in Tokens : issuedFor[u] \in Steps => issuedFor'[u] = issuedFor[u]
    BY <1>2, <2>2 DEF PlanInv, TypeOK
  <2>4. GoodNow \subseteq GoodNow' /\ Steps' = Steps /\ Writes' = Writes /\ Plans' = Plans
    BY <2>1, <2>2, <2>3, StillGood
  <2>5. GoodNow' = Good(Done', issuedFor')
    BY <2>1, SameGood
  <2>6. Suspended(mem[p], cur[p], t) \in GoodNow'
    <3>1. mem[p] \in Good(Done', issuedFor')
      BY <2>4, <2>5 DEF PlanInv, CopiesFit
    <3>2. issuedFor'[t] = cur[p]
      BY <1>2 DEF PlanInv, TypeOK
    <3> QED
      BY <2>5, <3>1, <3>2, SuspendedGood DEF PlanInv
  <2>7. CopiesFit'
    BY <2>1, <2>4, <2>6 DEF PlanInv, CopiesFit
  <2>8. GoodNow' \subseteq Plans' /\ "saveSuspended" \in Saves
    BY <2>4, <2>5 DEF Good, Saves
  <2>9. TypeOK'
    BY <1>2, <2>1, <2>4, <2>7, <2>8 DEF PlanInv, TypeOK, CopiesFit, Statuses
  <2>10. TokensFit'
    BY <1>2, <2>3 DEF PlanInv, TokensFit, TypeOK
  <2>11. CallbacksFit'
    BY <1>2, <2>1, <2>4, <2>8 DEF PlanInv, CallbacksFit, TypeOK
  <2> QED
    BY <2>7, <2>9, <2>10, <2>11 DEF PlanInv
<1> QED
  BY <1>1, <1>2 DEF Create

LEMMA ConfirmKept ==
    ASSUME PlanInv, NEW p \in Procs, NEW t \in Tokens, Confirm(p, t)
    PROVE  PlanInv'
<1>1. UNCHANGED <<kind, db, issuedFor, mem, seen, cur, rereading, healed, halted>>
  BY DEF Confirm
<1>2. /\ token' = [token EXCEPT ![t] = "used"]
      /\ using' = [using EXCEPT ![p] = t]
      /\ pc' = [pc EXCEPT ![p] = "callback"]
      /\ written' = written \cup ({issuedFor[t]} \cap Writes)
  BY DEF Confirm, Goto
<1>3. Done \subseteq Done'
  BY <1>1, <1>2 DEF Done
<1>4. GoodNow \subseteq GoodNow' /\ Steps' = Steps /\ Writes' = Writes /\ Plans' = Plans
  BY <1>1, <1>3, StillGood
<1>5. CopiesFit'
  BY <1>1, <1>4 DEF PlanInv, CopiesFit
<1>6. requests' \in 0..MaxRequests /\ written' \subseteq Steps
  BY <1>2, StepsPositive, PlanAssumption DEF Confirm, Request, PlanInv, TypeOK
<1>7. TypeOK'
  BY <1>1, <1>2, <1>4, <1>6 DEF PlanInv, TypeOK, Statuses
<1>8. TokensFit'
  BY <1>1, <1>2 DEF PlanInv, TokensFit, TypeOK
<1>9. CallbacksFit'
  <2> SUFFICES ASSUME NEW q \in Procs, pc'[q] = "callback"
               PROVE  /\ using'[q] \in Tokens
                      /\ token'[using'[q]] = "used"
                      /\ issuedFor[using'[q]] \in Writes => issuedFor[using'[q]] \in written'
    BY <1>1, <1>4 DEF CallbacksFit
  <2>1. CASE q = p
    BY <1>2, <2>1 DEF PlanInv, TypeOK
  <2>2. CASE q # p
    BY <1>2, <2>2 DEF PlanInv, TypeOK, CallbacksFit
  <2> QED
    BY <2>1, <2>2
<1> QED
  BY <1>5, <1>7, <1>8, <1>9 DEF PlanInv

LEMMA RevokeKept == ASSUME PlanInv, NEW t \in Tokens, Revoke(t) PROVE PlanInv'
<1>1. /\ UNCHANGED <<kind, db, issuedFor, pc, mem, seen, cur, using, rereading, written, healed, halted, requests>>
      /\ token' = [token EXCEPT ![t] = "gone"]
  BY DEF Revoke, local, history
<1>2. GoodNow' = GoodNow /\ Steps' = Steps /\ Writes' = Writes /\ Plans' = Plans
  BY <1>1, SameGood DEF Steps, Writes, Plans, Statuses
<1>3. CopiesFit' /\ TypeOK'
  BY <1>1, <1>2 DEF PlanInv, CopiesFit, TypeOK, Statuses
<1>4. TokensFit' /\ CallbacksFit'
  BY <1>1, <1>2 DEF Revoke, PlanInv, TokensFit, CallbacksFit, TypeOK
<1> QED
  BY <1>3, <1>4 DEF PlanInv

LEMMA PlanInit == Init => PlanInv
<1> SUFFICES ASSUME Init PROVE PlanInv
  OBVIOUS
<1>1. NewPlan \in Plans /\ "pending" \in Statuses
  BY DEF NewPlan, Plans, Statuses
<1>2. 0 \in 0..MaxRequests
  BY PlanAssumption
<1>3. TypeOK
  BY <1>1, <1>2 DEF Init, TypeOK
<1>4. NewPlan \in GoodNow
  BY <1>3, NewGood DEF GoodNow
<1> QED
  BY <1>3, <1>4 DEF Init, PlanInv, CopiesFit, TokensFit, CallbacksFit

LEMMA PlanStep == PlanInv /\ [Next]_vars => PlanInv'
<1> SUFFICES ASSUME PlanInv, [Next]_vars PROVE PlanInv'
  OBVIOUS
<1>1. CASE UNCHANGED vars
  <2>1. GoodNow' = GoodNow
    BY <1>1, SameGood DEF vars, row, history
  <2> QED
    BY <1>1, <2>1 DEF vars, row, local, history, PlanInv, TypeOK, CopiesFit, TokensFit,
                      CallbacksFit, Plans, Statuses, Steps, Writes
<1>2. CASE Next
  BY <1>2, RequestKept, SaveKept, ExecuteKept, CallbackKept, HealKept, DirectKept,
     CreateKept,
     ConfirmKept, RevokeKept DEF Next
<1> QED
  BY <1>1, <1>2

\* PlanInv is an invariant, for every value of the constants.
THEOREM Invariance == Spec => []PlanInv
BY PlanInit, PlanStep, PTL DEF Spec

\* The types of the variables.
THEOREM Typing == Spec => []TypeOK
<1>1. PlanInv => TypeOK
  BY DEF PlanInv
<1> QED
  BY <1>1, Invariance, PTL

\* However many requests run at once, and whichever copies they write back, a
\* write step is recorded as successful only when its write was executed or
\* the self-heal loop declared it so.
THEOREM EarnedSuccess == Spec => []SuccessIsEarned
<1>1. PlanInv => SuccessIsEarned
  <2>1. Writes \subseteq Steps
    BY DEF Writes
  <2> QED
    BY <2>1 DEF PlanInv, CopiesFit, GoodNow, Good, Sound, Done, SuccessIsEarned
<1> QED
  BY <1>1, Invariance, PTL

\* A suspended step always names a token that was issued for it.
THEOREM SuspendedWithToken == Spec => []SuspensionHasToken
<1>1. PlanInv => SuspensionHasToken
  BY DEF PlanInv, CopiesFit, GoodNow, Good, Sound, SuspensionHasToken
<1> QED
  BY <1>1, Invariance, PTL

-----------------------------------------------------------------------------
(* Cancellation                                                            *)

RunLabels == {"exec", "heal", "create", "saveStart", "saveRunning", "saveStep",
              "saveEnd", "saveSuspended", "saveFailed", "saveFinal"}

\* A run never expects or writes the state of a cancelled plan; a
\* cancellation writes nothing else.
RunFits(p) ==
    /\ pc[p] \in RunLabels => seen[p] # "skipped" /\ mem[p].state # "skipped"
    /\ pc[p] = "saveCancelled" => mem[p].state = "skipped"

\* As long as nobody has decided on a step, a cancelled plan stays skipped,
\* so that no save of a run matches the row.
HaltInv ==
    /\ TypeOK
    /\ \A p \in Procs : RunFits(p)
    /\ halted => db.state = "skipped"

LEMMA FinalStates == ASSUME NEW plan PROVE Final(plan) \in {"pending", "success", "failed"}
BY DEF Final

\* The states of the copies that the operations make.
LEMMA CopyStates ==
    ASSUME NEW plan \in Plans
    PROVE  /\ Settled(plan).state # "skipped"
           /\ \A s, status : WithStatus(plan, s, status).state = plan.state
           /\ \A s, status : Settled(WithStatus(plan, s, status)).state # "skipped"
           /\ \A s : Settled(Redeemed(plan, s)).state # "skipped"
           /\ \A s, t : Suspended(plan, s, t).state = "suspended"
           /\ Cancelled(plan).state = "skipped"
<1>1. plan = [state |-> plan.state, status |-> plan.status, token |-> plan.token]
  BY DEF Plans
<1>2. \A s, status : WithStatus(plan, s, status) =
                       [state |-> plan.state, token |-> plan.token,
                        status |-> [plan.status EXCEPT ![s] = status]]
  BY <1>1 DEF WithStatus
<1>3. \A s : Redeemed(plan, s) = [state |-> plan.state, token |-> [plan.token EXCEPT ![s] = None],
                                   status |-> [plan.status EXCEPT ![s] = "success"]]
  BY <1>1, <1>2 DEF Redeemed
<1>4. ASSUME NEW state, NEW status, NEW names
      PROVE  Settled([state |-> state, status |-> status, token |-> names]).state # "skipped"
  BY FinalStates DEF Settled
<1>5. Settled(plan).state # "skipped"
  BY <1>1, <1>4
<1>6. \A s, status : Settled(WithStatus(plan, s, status)).state # "skipped"
  BY <1>2, <1>4
<1>7. \A s : Settled(Redeemed(plan, s)).state # "skipped"
  BY <1>3, <1>4
<1>8. \A s, t : Suspended(plan, s, t).state = "suspended"
  BY <1>2 DEF Suspended
<1> QED
  BY <1>1, <1>2, <1>5, <1>6, <1>7, <1>8 DEF Cancelled

\* Every operation of a request leaves it fitting, and the others alone.
Fits(p) ==
    /\ RunFits(p)'
    /\ \A q \in Procs \ {p} : pc'[q] = pc[q] /\ seen'[q] = seen[q] /\ mem'[q] = mem[q]

LEMMA OperationFits ==
    ASSUME HaltInv, NEW p \in Procs
    PROVE  /\ Stop(p) => Fits(p)
           /\ pc[p] \in RunLabels /\ Advance(p) => Fits(p)
           /\ pc[p] \in RunLabels /\ Throw(p) => Fits(p)
           /\ pc[p] \in RunLabels /\ SuspendFails(p) => Fits(p)
           /\ \A status : pc[p] \in RunLabels /\ Result(p, status) => Fits(p)
<1>1. mem[p] \in Plans /\ pc \in [Procs -> Labels] /\ mem \in [Procs -> Plans] /\ seen \in [Procs -> Statuses]
  BY DEF HaltInv, TypeOK, Labels
<1>2. pc[p] \in RunLabels => seen[p] # "skipped" /\ mem[p].state # "skipped"
  BY DEF HaltInv, RunFits
<1>3. Stop(p) => Fits(p)
  BY <1>1 DEF Stop, Hold, Goto, Fits, RunFits, RunLabels
<1>4. pc[p] \in RunLabels /\ Throw(p) => Fits(p)
  BY <1>1, <1>2, CopyStates DEF Throw, Prepare, Hold, Goto, Fits, RunFits, RunLabels
<1>5. pc[p] \in RunLabels /\ SuspendFails(p) => Fits(p)
  BY <1>1, <1>2, CopyStates DEF SuspendFails, Prepare, Hold, Goto, Fits, RunFits, RunLabels
<1>6. \A status : pc[p] \in RunLabels /\ Result(p, status) => Fits(p)
  BY <1>1, <1>2, CopyStates DEF Result, Prepare, Hold, Goto, Fits, RunFits, RunLabels
<1>7. pc[p] \in RunLabels /\ Advance(p) => Fits(p)
  BY <1>1, <1>2, <1>3, CopyStates DEF Advance, Prepare, Hold, Goto, Fits, RunFits, RunLabels
<1> QED
  BY <1>3, <1>4, <1>5, <1>6, <1>7

LEMMA SaveFits ==
    ASSUME HaltInv, NEW p \in Procs
    PROVE  (Saved(p) => Fits(p)) /\ (Conflict(p) => Fits(p))
<1>1. mem[p] \in Plans /\ pc \in [Procs -> Labels] /\ mem \in [Procs -> Plans] /\ seen \in [Procs -> Statuses]
  BY DEF HaltInv, TypeOK, Labels
<1>2. ASSUME pc[p] = "saveRunning", Goto(p, "exec"), seen' = [seen EXCEPT ![p] = mem[p].state], UNCHANGED mem
      PROVE  Fits(p)
  BY <1>1, <1>2 DEF HaltInv, RunFits, RunLabels, Fits, Goto
<1>3. {"saveStart", "saveStep", "saveFailed", "saveEnd", "saveSuspended"} \subseteq RunLabels
  BY DEF RunLabels
<1>4. Saved(p) => Fits(p)
  BY <1>2, <1>3, OperationFits DEF Saved
<1>5. Conflict(p) => Fits(p)
  BY <1>3, OperationFits DEF Conflict
<1> QED
  BY <1>4, <1>5

\* No save of a run matches a plan that is halted.
LEMMA HaltedMismatch ==
    ASSUME HaltInv, halted, NEW p \in Procs, pc[p] \in RunLabels
    PROVE  db.state # seen[p]
BY DEF HaltInv, RunFits

LEMMA FitsKept ==
    ASSUME HaltInv, TypeOK', NEW p \in Procs, Fits(p), halted' => db'.state = "skipped"
    PROVE  HaltInv'
<1>1. \A q \in Procs \ {p} : RunFits(q)'
  BY DEF HaltInv, Fits, RunFits
<1> QED
  BY <1>1 DEF HaltInv, Fits

LEMMA UpdateHalts ==
    ASSUME HaltInv, NEW p \in Procs, Update(p)
    PROVE  halted' => db'.state = "skipped"
<1>1. CASE pc[p] = "saveCancelled"
  BY <1>1 DEF Update, HaltInv, RunFits
<1>2. CASE pc[p] \in RunLabels
  BY <1>2, HaltedMismatch DEF Update, Matches, RunLabels
<1>3. CASE pc[p] \in Decisions
  BY <1>3 DEF Update, Decisions
<1> QED
  BY <1>1, <1>2, <1>3 DEF Update, Saves, RunLabels, Decisions

LEMMA ReadFits ==
    ASSUME HaltInv, NEW p \in Procs, NEW plan, NEW save, Read(p, plan, save),
           save \in RunLabels => db.state # "skipped" /\ plan.state # "skipped",
           save = "saveCancelled" => plan.state = "skipped"
    PROVE  Fits(p) /\ UNCHANGED <<db, halted>>
<1>1. pc \in [Procs -> Labels] /\ mem \in [Procs -> Plans] /\ seen \in [Procs -> Statuses]
  BY DEF HaltInv, TypeOK, Labels
<1> QED
  BY <1>1 DEF Read, Prepare, Hold, Goto, Fits, RunFits, row, history

LEMMA RequestHalts ==
    ASSUME HaltInv, NEW p \in Procs, Run(p) \/ Approve(p) \/ Reject(p) \/ Cancel(p)
    PROVE  Fits(p) /\ UNCHANGED <<db, halted>>
<1>1. db \in Plans
  BY DEF HaltInv, TypeOK
<1>2. {"saveStart", "saveFinal"} \subseteq RunLabels
      /\ {"saveApproved", "saveEdit", "saveCancelled"} \cap RunLabels = {}
  BY DEF RunLabels
<1>3. CASE Run(p)
  <2>1. db.state # "skipped"
    BY <1>3 DEF Run, Ended
  <2>2. [db EXCEPT !.state = "running"].state # "skipped" /\ Settled(db).state # "skipped"
    BY <1>1, CopyStates DEF Plans
  <2> QED
    BY <1>2, <1>3, <2>1, <2>2, ReadFits DEF Run
<1>4. CASE Approve(p) \/ Reject(p)
  BY <1>2, <1>4, ReadFits DEF Approve, Reject
<1>5. CASE Cancel(p)
  BY <1>1, <1>2, <1>5, CopyStates, ReadFits DEF Cancel
<1> QED
  BY <1>3, <1>4, <1>5

LEMMA StepHalts ==
    ASSUME HaltInv, TypeOK', NEW p \in Procs,
           \/ ToolStep(p) \/ DirectStep(p) \/ AgentStep(p) \/ PlainStep(p)
           \/ Heal(p) \/ Create(p)
    PROVE  Fits(p) /\ UNCHANGED <<db, halted>>
<1>1. /\ mem[p] \in Plans /\ pc \in [Procs -> Labels]
      /\ mem \in [Procs -> Plans] /\ seen \in [Procs -> Statuses]
  BY DEF HaltInv, TypeOK, Labels
<1>2. pc[p] \in RunLabels /\ UNCHANGED <<db, halted>>
  BY DEF ToolStep, DirectStep, AgentStep, PlainStep, Heal, Create, Stays, row, history, RunLabels
<1>3. seen[p] # "skipped" /\ mem[p].state # "skipped"
  BY <1>2 DEF HaltInv, RunFits
<1>4. ASSUME NEW label \in {"create", "heal"}, Goto(p, label), UNCHANGED local PROVE Fits(p)
  BY <1>1, <1>3, <1>4 DEF Goto, local, Fits, RunFits, RunLabels
<1>5. CASE ToolStep(p) \/ DirectStep(p) \/ AgentStep(p)
  BY <1>2, <1>4, <1>5, OperationFits DEF ToolStep, DirectStep, AgentStep
<1>6. CASE PlainStep(p)
  <2>1. ASSUME Prepare(p, Settled(WithStatus(mem[p], cur[p], "success")), "saveEnd"),
               UNCHANGED <<seen, cur, using>>
        PROVE  Fits(p)
    BY <1>1, <1>3, <2>1, CopyStates DEF Prepare, Hold, Goto, Fits, RunFits, RunLabels
  <2> QED
    BY <1>2, <1>6, <2>1, OperationFits DEF PlainStep
<1>7. CASE Heal(p)
  BY <1>2, <1>7, OperationFits DEF Heal
<1>8. CASE Create(p)
  <2>1. ASSUME NEW t \in Tokens, Prepare(p, Suspended(mem[p], cur[p], t), "saveSuspended"),
               UNCHANGED <<seen, cur, using>>
        PROVE  Fits(p)
    BY <1>1, <1>3, <2>1, CopyStates DEF Prepare, Hold, Goto, Fits, RunFits, RunLabels
  <2> QED
    BY <1>2, <1>8, <2>1, OperationFits DEF Create, OnCreateError
<1> QED
  BY <1>2, <1>5, <1>6, <1>7, <1>8

LEMMA OtherHalts ==
    ASSUME HaltInv, NEW p \in Procs,
           Callback(p) \/ Mismatch(p) \/ Reread(p) \/ Crash(p) \/ \E t \in Tokens : Confirm(p, t)
    PROVE  Fits(p) /\ UNCHANGED <<db, halted>>
<1>1. /\ mem[p] \in Plans /\ pc \in [Procs -> Labels]
      /\ mem \in [Procs -> Plans] /\ seen \in [Procs -> Statuses]
  BY DEF HaltInv, TypeOK, Labels
<1>2. UNCHANGED <<db, halted>>
  BY DEF Callback, Mismatch, Reread, Crash, Confirm, row, history
<1>3. CASE Callback(p)
  BY <1>1, <1>2, <1>3, OperationFits
  DEF Callback, Prepare, Hold, Goto, Fits, RunFits, RunLabels
<1>4. CASE Mismatch(p)
  BY <1>2, <1>4 DEF Mismatch, local, HaltInv, Fits, RunFits
<1>5. CASE Reread(p)
  BY <1>2, <1>5, SaveFits DEF Reread
<1>6. CASE Crash(p)
  BY <1>2, <1>6, OperationFits DEF Crash
<1>7. CASE \E t \in Tokens : Confirm(p, t)
  BY <1>1, <1>2, <1>7 DEF Confirm, Goto, Fits, RunFits, RunLabels
<1> QED
  BY <1>2, <1>3, <1>4, <1>5, <1>6, <1>7

LEMMA HaltStep == PlanInv /\ HaltInv /\ [Next]_vars => HaltInv'
<1> SUFFICES ASSUME PlanInv, HaltInv, [Next]_vars PROVE HaltInv'
  OBVIOUS
<1>1. TypeOK'
  BY PlanStep DEF PlanInv
<1>2. ASSUME NEW p \in Procs, Fits(p), UNCHANGED <<db, halted>> PROVE HaltInv'
  <2>1. halted' => db'.state = "skipped"
    BY <1>2 DEF HaltInv
  <2> QED
    BY <1>1, <1>2, <2>1, FitsKept
<1>3. ASSUME NEW p \in Procs, Update(p) PROVE HaltInv'
  <2>1. Fits(p)
    BY <1>3, SaveFits DEF Update
  <2> QED
    BY <1>1, <1>3, <2>1, UpdateHalts, FitsKept
<1>4. CASE \E t \in Tokens : Revoke(t)
  BY <1>1, <1>4 DEF Revoke, local, history, HaltInv, RunFits
<1>5. CASE UNCHANGED vars
  BY <1>1, <1>5 DEF vars, row, local, history, HaltInv, RunFits
<1> QED
  BY <1>1, <1>2, <1>3, <1>4, <1>5, RequestHalts, StepHalts, OtherHalts DEF Next

\* A halted plan is in the state that no run expects.
THEOREM Halting == Spec => [](PlanInv /\ HaltInv)
<1>1. Init => HaltInv
  <2>1. Init => \A p \in Procs : RunFits(p)
    BY DEF Init, RunFits, RunLabels
  <2> QED
    BY <2>1, PlanInit DEF Init, HaltInv, PlanInv
<1> QED
  BY <1>1, PlanInit, PlanStep, HaltStep, PTL DEF Spec

\* After a cancellation no run starts a step, however many runs are under way
\* and whatever they hold, until a decision on a step is recorded.
THEOREM CancellationStops == Spec => CancelStops
<1>1. ASSUME HaltInv, TypeOK', [Next]_vars, halted, NEW p \in Procs, pc[p] = "saveRunning", pc'[p] = "exec"
      PROVE  FALSE
  <2>1. pc[p] \in RunLabels /\ pc \in [Procs -> Labels]
    BY <1>1 DEF RunLabels, HaltInv, TypeOK, Labels
  <2>2. db.state # seen[p]
    BY <1>1, <2>1, HaltedMismatch
  <2>3. ~Update(p)
    BY <2>2 DEF Update, Matches
  <2>4. ~Reread(p)
    <3>1. ~Conflict(p)
      BY <1>1, <2>1 DEF Conflict, Stop, Goto, Labels
    <3> QED
      BY <2>2, <3>1 DEF Reread
  <2>5. \A q \in Procs \ {p} : ~Fits(q)
    BY <1>1 DEF Fits
  <2>6. ASSUME NEW q \in Procs,
               \/ Run(q) \/ Approve(q) \/ Reject(q) \/ Cancel(q)
               \/ (\E t \in Tokens : Confirm(q, t)) \/ Callback(q)
               \/ ToolStep(q) \/ DirectStep(q) \/ AgentStep(q) \/ PlainStep(q)
               \/ Heal(q) \/ Create(q)
               \/ Update(q) \/ Mismatch(q) \/ Reread(q) \/ Crash(q)
        PROVE  q = p
    <3>1. Update(q) => Fits(q)
      BY <1>1, SaveFits DEF Update
    <3>2. Run(q) \/ Approve(q) \/ Reject(q) \/ Cancel(q) => Fits(q)
      BY <1>1, RequestHalts
    <3>3. ToolStep(q) \/ DirectStep(q) \/ AgentStep(q) \/ PlainStep(q) \/ Heal(q) \/ Create(q) => Fits(q)
      BY <1>1, StepHalts
    <3>4. Callback(q) \/ Mismatch(q) \/ Reread(q) \/ Crash(q) \/ (\E t \in Tokens : Confirm(q, t)) => Fits(q)
      BY <1>1, OtherHalts
    <3> QED
      BY <2>5, <2>6, <3>1, <3>2, <3>3, <3>4
  <2>7. ~(\/ Run(p) \/ Approve(p) \/ Reject(p) \/ Cancel(p)
          \/ (\E t \in Tokens : Confirm(p, t)) \/ Callback(p)
          \/ ToolStep(p) \/ DirectStep(p) \/ AgentStep(p) \/ PlainStep(p)
          \/ Heal(p) \/ Create(p))
    BY <1>1 DEF Run, Approve, Reject, Cancel, Read, Confirm, Callback, ToolStep, DirectStep,
                AgentStep, PlainStep, Heal, Create
  <2>8. ~Mismatch(p)
    BY <1>1 DEF Mismatch
  <2>9. ~Crash(p)
    BY <1>1, <2>1 DEF Crash, Stop, Goto
  <2>10. ~\E t \in Tokens : Revoke(t)
    BY <1>1 DEF Revoke
  <2>11. ~UNCHANGED vars
    BY <1>1 DEF vars
  <2> QED
    BY <1>1, <2>3, <2>4, <2>6, <2>7, <2>8, <2>9, <2>10, <2>11 DEF Next
<1>2. PlanInv /\ HaltInv /\ PlanInv' /\ [Next]_vars =>
        [halted /\ halted' => \A p \in Procs : pc[p] = "saveRunning" => pc'[p] # "exec"]_vars
  BY <1>1 DEF PlanInv
<1> QED
  BY <1>2, Halting, PTL DEF Spec, CancelStops
=============================================================================
