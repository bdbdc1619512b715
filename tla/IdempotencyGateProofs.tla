------------------------ MODULE IdempotencyGateProofs ------------------------
(***************************************************************************)
(* Theorems about IdempotencyGate for every number of calls, keys, rows    *)
(* and faults.                                                             *)
(***************************************************************************)
EXTENDS IdempotencyGate, TLAPS

\* A call that has got past check()'s first lines has a well-formed key.
KeyOK == \A c \in Calls : pc[c] \notin {"start", "done"} => key[c] \in Keys

Typed == TypeOK /\ KeyOK

\* Setting one field of a stored row leaves a stored row.
LEMMA RowFields ==
    ASSUME NEW row \in Row, NEW s \in Status, NEW b \in BOOLEAN,
           NEW res \in Calls \cup {None}
    PROVE  /\ [row EXCEPT !.status = s] \in Row
           /\ [row EXCEPT !.status = s, !.overdue = b] \in Row
           /\ [row EXCEPT !.status = s, !.result = res] \in Row
           /\ [row EXCEPT !.overdue = b] \in Row
           /\ [row EXCEPT !.expired = b] \in Row
  BY DEF Row

\* An answer of check() keeps the local state of the calls well typed.
LEMMA AnswerTyped ==
    ASSUME TypeOK, NEW c \in Calls, NEW h \in {0} \cup RowIds,
           NEW o \in Calls \cup {None},
           NEW d \in {"proceed", "replay", "in_flight", "rejected"},
           Answer(c, d, h, o)
    PROVE  /\ pc' \in [Calls -> PCs]
           /\ handle' \in [Calls -> {0} \cup RowIds]
           /\ origin' \in [Calls -> Calls \cup {None}]
           /\ decision' \in [Calls -> {"none", "proceed", "replay", "in_flight", "rejected"}]
           /\ \A b \in Calls \ {c} : pc'[b] = pc[b]
           /\ pc'[c] = IF d = "proceed" THEN "execute" ELSE "done"
<1>1. (IF d = "proceed" THEN "execute" ELSE "done") \in PCs
  BY DEF PCs
<1> QED
  BY <1>1 DEF TypeOK, Answer, Goto

\* So does moving on to another statement of check().
LEMMA ContinueTyped ==
    ASSUME TypeOK, NEW c \in Calls, NEW label \in PCs, Continue(c, label)
    PROVE  /\ pc' \in [Calls -> PCs]
           /\ UNCHANGED <<handle, decision, origin>>
           /\ \A b \in Calls \ {c} : pc'[b] = pc[b]
           /\ pc'[c] = label
  BY DEF TypeOK, Continue, Goto

\* A counted fault stays within its budget.
LEMMA FaultTyped ==
    ASSUME TypeOK, Fault \/ NoFault
    PROVE  faults' \in 0..MaxFaults
  BY GateAssumption DEF TypeOK, Fault, NoFault

LEMMA LabelsOK ==
    {"redis", "select", "insert", "reselect", "reclaim", "execute", "complete",
     "done", "dead"} \subseteq PCs
  BY DEF PCs

\* The type invariant and the well-formedness of keys are inductive together.
LEMMA TypedStep == Typed /\ [Next]_vars => Typed'
<1> SUFFICES ASSUME TypeOK, KeyOK, [Next]_vars PROVE TypeOK' /\ KeyOK'
  BY DEF Typed
<1> USE GateAssumption
<1>1. ASSUME NEW c \in Calls, NEW k \in Keys \cup {BadKey}, Enter(c, k)
      PROVE  TypeOK' /\ KeyOK'
  <2>1. UNCHANGED <<storage, ok, history>> /\ key' \in [Calls -> Keys \cup {BadKey}]
    BY <1>1 DEF Enter, TypeOK
  <2>2. /\ pc' \in [Calls -> PCs]
        /\ handle' \in [Calls -> {0} \cup RowIds]
        /\ origin' \in [Calls -> Calls \cup {None}]
        /\ decision' \in [Calls -> {"none", "proceed", "replay", "in_flight", "rejected"}]
        /\ \A b \in Calls \ {c} : pc'[b] = pc[b]
        /\ k \in Keys \/ pc'[c] = "done"
    BY <1>1, AnswerTyped, ContinueTyped, LabelsOK DEF Enter, Bypass, TypeOK
  <2>3. faults' \in 0..MaxFaults
    BY <1>1, FaultTyped DEF Enter
  <2>4. KeyOK'
    BY <1>1, <2>2 DEF Enter, KeyOK, TypeOK
  <2> QED
    BY <2>1, <2>2, <2>3, <2>4 DEF TypeOK, storage, history
<1>2. ASSUME NEW c \in Calls, RedisPrefilter(c) PROVE TypeOK' /\ KeyOK'
  <2>1. key[c] \in Keys
    BY <1>2 DEF RedisPrefilter, KeyOK
  <2>2. redis' \subseteq Keys /\ UNCHANGED <<rows, nextId, cleaner, key, ok, history>>
    BY <1>2, <2>1 DEF RedisPrefilter, TypeOK
  <2>3. /\ pc' \in [Calls -> PCs]
        /\ UNCHANGED <<handle, decision, origin>>
        /\ \A b \in Calls \ {c} : pc'[b] = pc[b]
    BY <1>2, ContinueTyped, LabelsOK DEF RedisPrefilter
  <2>4. faults' \in 0..MaxFaults
    BY <1>2, FaultTyped DEF RedisPrefilter
  <2> QED
    BY <2>1, <2>2, <2>3, <2>4 DEF TypeOK, KeyOK, history
<1>3. ASSUME NEW c \in Calls, FindRow(c) PROVE TypeOK' /\ KeyOK'
  <2>1. key[c] \in Keys /\ UNCHANGED <<storage, key, ok, history>>
    BY <1>3 DEF FindRow, KeyOK
  <2>2. \A r \in RowIds : Live(r) => rows[r] \in Row
    BY DEF TypeOK, Live
  <2>3. /\ pc' \in [Calls -> PCs]
        /\ handle' \in [Calls -> {0} \cup RowIds]
        /\ origin' \in [Calls -> Calls \cup {None}]
        /\ decision' \in [Calls -> {"none", "proceed", "replay", "in_flight", "rejected"}]
        /\ \A b \in Calls \ {c} : pc'[b] = pc[b]
    <3>1. CASE \E r \in RowsOf(key[c]) : DecideFromRow(c, r)
      <4>1. PICK r \in RowIds : Live(r) /\ DecideFromRow(c, r)
        BY <3>1 DEF RowsOf
      <4>2. rows[r].result \in Calls \cup {None}
        BY <4>1, <2>2 DEF Row
      <4>3. CASE Answer(c, "replay", 0, rows[r].result) \/ Answer(c, "in_flight", 0, None)
        BY <4>2, <4>3, AnswerTyped
      <4>4. CASE /\ Goto(c, "reclaim")
                 /\ handle' = [handle EXCEPT ![c] = r]
                 /\ UNCHANGED <<decision, origin>>
        BY <4>4, LabelsOK DEF TypeOK, Goto
      <4> QED
        BY <4>1, <4>3, <4>4 DEF DecideFromRow
    <3>2. CASE Continue(c, "insert") \/ Bypass(c)
      BY <3>2, AnswerTyped, ContinueTyped, LabelsOK DEF Bypass, TypeOK
    <3> QED
      BY <1>3, <3>1, <3>2 DEF FindRow
  <2>4. faults' \in 0..MaxFaults
    BY <1>3, FaultTyped DEF FindRow
  <2> QED
    BY <2>1, <2>3, <2>4 DEF TypeOK, KeyOK, storage, history
<1>4. ASSUME NEW c \in Calls, Claim(c) PROVE TypeOK' /\ KeyOK'
  <2>1. key[c] \in Keys /\ UNCHANGED <<redis, cleaner, key, ok, history>>
    BY <1>4 DEF Claim, KeyOK
  <2>2. /\ rows' \in [RowIds -> Row \cup {NoRow}]
        /\ nextId' \in 1..(MaxRows + 1)
    <3>1. NewRow(key[c]) \in Row
      BY <2>1 DEF NewRow, Row, Status
    <3>2. CASE InsertRow(c)
      BY <3>1, <3>2 DEF InsertRow, TypeOK, RowIds
    <3>3. CASE UNCHANGED <<rows, nextId>>
      BY <3>3 DEF TypeOK
    <3> QED
      BY <1>4, <3>2, <3>3 DEF Claim
  <2>3. /\ pc' \in [Calls -> PCs]
        /\ handle' \in [Calls -> {0} \cup RowIds]
        /\ origin' \in [Calls -> Calls \cup {None}]
        /\ decision' \in [Calls -> {"none", "proceed", "replay", "in_flight", "rejected"}]
        /\ \A b \in Calls \ {c} : pc'[b] = pc[b]
    <3>1. CASE InsertRow(c) /\ Answer(c, "proceed", nextId, None)
      BY <3>1, AnswerTyped DEF InsertRow
    <3>2. CASE Continue(c, "reselect") \/ Bypass(c)
      BY <3>2, AnswerTyped, ContinueTyped, LabelsOK DEF Bypass, TypeOK
    <3> QED
      BY <1>4, <3>1, <3>2 DEF Claim
  <2>4. faults' \in 0..MaxFaults
    BY <1>4, FaultTyped DEF Claim
  <2> QED
    BY <2>1, <2>2, <2>3, <2>4 DEF TypeOK, KeyOK, history
<1>5. ASSUME NEW c \in Calls, Reclaim(c) PROVE TypeOK' /\ KeyOK'
  <2>1. key[c] \in Keys /\ UNCHANGED <<nextId, redis, cleaner, key, ok, history>>
    BY <1>5 DEF Reclaim, KeyOK
  <2>2. rows' \in [RowIds -> Row \cup {NoRow}]
    <3>1. CASE /\ Reclaimable(handle[c])
               /\ rows' = [rows EXCEPT ![handle[c]].status = "in_flight",
                                       ![handle[c]].overdue = FALSE]
      <4>1. CASE handle[c] \in RowIds
        <5>1. rows[handle[c]] \in Row
          BY <3>1, <4>1 DEF Reclaimable, Live, TypeOK
        <5>2. [rows[handle[c]] EXCEPT !.status = "in_flight", !.overdue = FALSE] \in Row
          BY <5>1, RowFields DEF Status
        <5> QED
          BY <3>1, <4>1, <5>2 DEF TypeOK
      <4>2. CASE handle[c] \notin RowIds
        BY <3>1, <4>2 DEF TypeOK
      <4> QED
        BY <4>1, <4>2
    <3>2. CASE UNCHANGED rows
      BY <3>2 DEF TypeOK
    <3> QED
      BY <1>5, <3>1, <3>2 DEF Reclaim
  <2>3. /\ pc' \in [Calls -> PCs]
        /\ handle' \in [Calls -> {0} \cup RowIds]
        /\ origin' \in [Calls -> Calls \cup {None}]
        /\ decision' \in [Calls -> {"none", "proceed", "replay", "in_flight", "rejected"}]
        /\ \A b \in Calls \ {c} : pc'[b] = pc[b]
    <3>1. handle[c] \in {0} \cup RowIds
      BY DEF TypeOK
    <3> QED
      BY <1>5, <3>1, AnswerTyped DEF Reclaim, Bypass
  <2>4. faults' \in 0..MaxFaults
    BY <1>5, FaultTyped DEF Reclaim
  <2> QED
    BY <2>1, <2>2, <2>3, <2>4 DEF TypeOK, KeyOK, history
<1>6. ASSUME NEW c \in Calls, Execute(c) PROVE TypeOK' /\ KeyOK'
  <2>1. UNCHANGED <<storage, key, handle, decision, origin, unstored, timedOut, purged>>
    BY <1>6 DEF Execute
  <2>2. effects' \subseteq Calls /\ ok' \in [Calls -> BOOLEAN]
    BY <1>6 DEF Execute, TypeOK
  <2>3. pc' \in [Calls -> PCs] /\ (\A b \in Calls \ {c} : pc'[b] = pc[b])
    BY <1>6, LabelsOK DEF Execute, TypeOK, Goto
  <2>4. faults' \in 0..MaxFaults
    BY <1>6, FaultTyped DEF Execute
  <2>5. key[c] \in Keys
    BY <1>6 DEF Execute, KeyOK
  <2> QED
    BY <2>1, <2>2, <2>3, <2>4, <2>5 DEF TypeOK, KeyOK, storage
<1>7. ASSUME NEW c \in Calls, Complete(c) PROVE TypeOK' /\ KeyOK'
  <2>1. UNCHANGED <<nextId, redis, cleaner, key, handle, decision, origin, ok,
                    effects, timedOut, purged>>
    BY <1>7 DEF Complete
  <2>2. rows' \in [RowIds -> Row \cup {NoRow}]
    <3> DEFINE r == handle[c]
               new == [rows[r] EXCEPT !.status = FinalStatus(c),
                                      !.result = IF ok[c] THEN c ELSE None]
    <3>1. CASE /\ Live(r)
               /\ r \in RowIds
               /\ rows' = [rows EXCEPT ![r].status = FinalStatus(c),
                                       ![r].result = IF ok[c] THEN c ELSE None]
      <4>1. rows[r] \in Row
        BY <3>1 DEF Live, TypeOK
      <4>2. new \in Row
        BY <4>1, RowFields DEF Status, FinalStatus
      <4>3. rows' = [rows EXCEPT ![r] = new]
        BY <3>1
      <4> QED
        BY <4>2, <4>3 DEF TypeOK
    <3>2. CASE UNCHANGED rows \/ r \notin RowIds
      BY <1>7, <3>2 DEF Complete, TypeOK
    <3> QED
      BY <1>7, <3>1, <3>2 DEF Complete
  <2>3. pc' \in [Calls -> PCs] /\ (\A b \in Calls \ {c} : pc'[b] = pc[b])
    BY <1>7, LabelsOK DEF Complete, TypeOK, Goto
  <2>4. faults' \in 0..MaxFaults /\ unstored' \subseteq Calls
    BY <1>7, FaultTyped DEF Complete, TypeOK
  <2>5. key[c] \in Keys
    BY <1>7 DEF Complete, KeyOK
  <2> QED
    BY <2>1, <2>2, <2>3, <2>4, <2>5 DEF TypeOK, KeyOK
<1>8. ASSUME NEW c \in Calls, Crash(c) PROVE TypeOK' /\ KeyOK'
  <2>1. UNCHANGED <<storage, key, handle, decision, origin, ok, effects, timedOut, purged>>
    BY <1>8 DEF Crash
  <2>2. pc' \in [Calls -> PCs] /\ (\A b \in Calls \ {c} : pc'[b] = pc[b])
    BY <1>8, LabelsOK DEF Crash, TypeOK, Goto
  <2>3. faults' \in 0..MaxFaults /\ unstored' \subseteq Calls
    BY <1>8, FaultTyped DEF Crash, TypeOK
  <2>4. key[c] \in Keys
    BY <1>8 DEF Crash, KeyOK
  <2> QED
    BY <2>1, <2>2, <2>3, <2>4 DEF TypeOK, KeyOK, storage
<1>9. ASSUME NEW k \in Keys, RedisExpire(k) PROVE TypeOK' /\ KeyOK'
  BY <1>9 DEF RedisExpire, TypeOK, KeyOK, callers, history
<1>10. ASSUME NEW r \in RowIds, TimeOut(r) \/ Retire(r) PROVE TypeOK' /\ KeyOK'
  <2>1. UNCHANGED <<nextId, redis, cleaner, callers, faults, history>>
    BY <1>10 DEF TimeOut, Retire
  <2>2. rows[r] \in Row
    BY <1>10 DEF TimeOut, Retire, Live, TypeOK
  <2>3. PICK new \in Row : rows' = [rows EXCEPT ![r] = new]
    <3>1. CASE TimeOut(r)
      <4>1. [rows[r] EXCEPT !.overdue = TRUE] \in Row
        BY <2>2, RowFields DEF Status
      <4> QED
        BY <3>1, <4>1 DEF TimeOut
    <3>2. CASE Retire(r)
      <4>1. [rows[r] EXCEPT !.expired = TRUE] \in Row
        BY <2>2, RowFields DEF Status
      <4> QED
        BY <3>2, <4>1 DEF Retire
    <3> QED
      BY <1>10, <3>1, <3>2
  <2> QED
    BY <2>1, <2>3 DEF TypeOK, KeyOK, callers, history
<1>11. CASE CleanupMark
  <2>1. UNCHANGED <<nextId, redis, callers, faults, effects, unstored, purged>>
    BY <1>11 DEF CleanupMark
  <2>2. \A r \in RowIds : Overdue(r) => [rows[r] EXCEPT !.status = "failed"] \in Row
    BY RowFields DEF Overdue, Live, TypeOK, Status
  <2>3. rows' \in [RowIds -> Row \cup {NoRow}]
    BY <1>11, <2>2 DEF CleanupMark, TypeOK
  <2>4. timedOut' \subseteq RowIds /\ cleaner' = "delete"
    BY <1>11 DEF CleanupMark, TypeOK
  <2> QED
    BY <2>1, <2>3, <2>4 DEF TypeOK, KeyOK, callers
<1>12. CASE CleanupDelete
  <2>1. UNCHANGED <<nextId, redis, callers, effects, unstored, timedOut>>
    BY <1>12 DEF CleanupDelete
  <2>2. \A r \in RowIds : rows[r].expired => rows[r] \in Row
    BY DEF TypeOK, NoRow
  <2>3. rows' \in [RowIds -> Row \cup {NoRow}] /\ purged' \subseteq Keys
    BY <1>12, <2>2 DEF CleanupDelete, TypeOK, Row
  <2>4. faults' \in 0..MaxFaults /\ cleaner' = "idle"
    BY <1>12, FaultTyped DEF CleanupDelete
  <2> QED
    BY <2>1, <2>3, <2>4 DEF TypeOK, KeyOK, callers
<1>13. CASE UNCHANGED vars
  BY <1>13 DEF vars, storage, callers, history, TypeOK, KeyOK
<1> QED
  BY <1>1, <1>2, <1>3, <1>4, <1>5, <1>6, <1>7, <1>8, <1>9, <1>10, <1>11, <1>12, <1>13
     DEF Next, Step

LEMMA TypedInit == Init => Typed
  BY GateAssumption, LabelsOK DEF Init, Typed, TypeOK, KeyOK, NoRow, PCs

\* The type invariant: no step leaves the declared ranges (the columns of
\* t_ai_idempotency, the answers of check(), the claimed row ids).
THEOREM Typing == Spec => []TypeOK
<1>1. Typed => TypeOK
  BY DEF Typed
<1> QED
  BY <1>1, TypedInit, TypedStep, PTL DEF Spec

-----------------------------------------------------------------------------
(* One running call per claimed row.                                       *)

\* Row ids are handed out once; a call holds only rows that were handed out.
IdsOK == /\ \A r \in RowIds : Live(r) => r < nextId
         /\ \A c \in Calls : handle[c] < nextId

\* While executions are prompt, a held row is in flight and not overdue, so
\* that neither a retry nor the clean-up job can take it over.
HeldInFlight ==
    Prompt => \A c \in Calls : \A r \in RowIds :
        Holds(c, r) /\ Live(r) => rows[r].status = "in_flight" /\ ~rows[r].overdue

Claims == IdsOK /\ HeldInFlight /\ OneClaimPerRow

\* A step that leaves the table alone and hands out no claim.
LEMMA Quiet ==
    ASSUME Claims, UNCHANGED <<rows, nextId>>,
           \A b \in Calls : handle'[b] < nextId,
           \A b \in Calls : \A r \in RowIds : Holds(b, r)' => Holds(b, r)
    PROVE  Claims'
  BY DEF Claims, IdsOK, HeldInFlight, OneClaimPerRow, Live

\* An answer other than a claim gives its call no row to hold.
LEMMA AnswerQuiet ==
    ASSUME TypeOK, NEW c \in Calls, NEW d, NEW o, Answer(c, d, 0, o)
    PROVE  /\ \A b \in Calls : handle'[b] = handle[b] \/ handle'[b] = 0
           /\ \A b \in Calls : \A r \in RowIds : Holds(b, r)' => Holds(b, r)
  BY DEF TypeOK, Answer, Goto, Holds, RowIds

\* Nor does moving on inside check(), or leaving it.
LEMMA GotoQuiet ==
    ASSUME TypeOK, NEW c \in Calls, NEW label, Goto(c, label), UNCHANGED handle,
           label \notin {"execute", "complete"} \/ pc[c] \in {"execute", "complete"}
    PROVE  \A b \in Calls : \A r \in RowIds : Holds(b, r)' => Holds(b, r)
  BY DEF TypeOK, Goto, Holds

LEMMA ClaimsStep == TypeOK /\ KeyOK /\ Claims /\ [Next]_vars => Claims'
<1> SUFFICES ASSUME TypeOK, KeyOK, Claims, [Next]_vars PROVE Claims'
  OBVIOUS
<1>0. /\ \A b \in Calls : handle[b] < nextId /\ handle[b] \in Nat
      /\ nextId \in Nat \ {0}
  BY GateAssumption DEF TypeOK, Claims, IdsOK, RowIds
<1>1. ASSUME NEW c \in Calls, NEW k \in Keys \cup {BadKey}, Enter(c, k) PROVE Claims'
  <2>1. UNCHANGED <<rows, nextId>>
    BY <1>1 DEF Enter, storage
  <2>2. CASE Continue(c, "redis")
    BY <2>1, <2>2, <1>0, GotoQuiet, Quiet DEF Continue
  <2>3. CASE Answer(c, "rejected", 0, None) \/ Bypass(c)
    BY <2>1, <2>3, <1>0, AnswerQuiet, Quiet DEF Bypass
  <2> QED
    BY <1>1, <2>2, <2>3 DEF Enter
<1>2. ASSUME NEW c \in Calls, RedisPrefilter(c) PROVE Claims'
  BY <1>2, <1>0, GotoQuiet, Quiet DEF RedisPrefilter, Continue
<1>3. ASSUME NEW c \in Calls, FindRow(c) PROVE Claims'
  <2>1. UNCHANGED <<rows, nextId>> /\ pc[c] \in {"select", "reselect"}
    BY <1>3 DEF FindRow, storage
  <2>2. CASE Continue(c, "insert")
    BY <2>1, <2>2, <1>0, GotoQuiet, Quiet DEF Continue
  <2>3. CASE \E d, o : Answer(c, d, 0, o)
    BY <2>1, <2>3, <1>0, AnswerQuiet, Quiet
  <2>4. CASE \E r \in RowsOf(key[c]) : /\ Goto(c, "reclaim")
                                       /\ handle' = [handle EXCEPT ![c] = r]
    <3>1. PICK r \in RowIds : /\ Live(r)
                              /\ Goto(c, "reclaim")
                              /\ handle' = [handle EXCEPT ![c] = r]
      BY <2>4 DEF RowsOf
    <3>2. \A b \in Calls : handle'[b] < nextId
      BY <3>1, <1>0 DEF Claims, IdsOK, TypeOK
    <3>3. \A b \in Calls : \A q \in RowIds : Holds(b, q)' => Holds(b, q)
      BY <3>1 DEF Holds, Goto, TypeOK
    <3> QED
      BY <2>1, <3>2, <3>3, Quiet
  <2> QED
    BY <1>3, <2>2, <2>3, <2>4 DEF FindRow, DecideFromRow, Bypass
<1>4. ASSUME NEW c \in Calls, Claim(c) PROVE Claims'
  <2>1. CASE UNCHANGED <<rows, nextId>> /\ (Continue(c, "reselect") \/ Bypass(c))
    BY <1>4, <2>1, <1>0, GotoQuiet, AnswerQuiet, Quiet DEF Continue, Bypass
  <2>2. CASE InsertRow(c)
    <3>1. nextId \in RowIds /\ nextId' = nextId + 1
      BY <2>2 DEF InsertRow
    <3>2. \A r \in RowIds : r # nextId => rows'[r] = rows[r]
      BY <2>2 DEF InsertRow, TypeOK
    <3>3. rows'[nextId] = NewRow(key[c])
      BY <2>2, <3>1 DEF InsertRow, TypeOK
    <3>4. \A b \in Calls : \A r \in RowIds :
             Holds(b, r)' => Holds(b, r) \/ (b = c /\ r = nextId)
      <4>1. CASE Answer(c, "proceed", nextId, None)
        BY <4>1 DEF Answer, Goto, Holds, TypeOK
      <4>2. CASE Bypass(c)
        BY <4>2, AnswerQuiet DEF Bypass
      <4> QED
        BY <1>4, <2>2, <4>1, <4>2 DEF Claim, InsertRow, Continue
    <3>5. \A b \in Calls : ~Holds(b, nextId)
      BY <1>0 DEF Holds
    <3>6. \A b \in Calls : handle'[b] \in {handle[b], 0, nextId}
      BY <1>4, <2>2 DEF Claim, InsertRow, Continue, Answer, Bypass, TypeOK
    <3>7. IdsOK'
      BY <3>1, <3>2, <3>6, <1>0 DEF Claims, IdsOK, Live, RowIds
    <3>8. HeldInFlight'
      BY <3>1, <3>2, <3>3, <3>4, <3>5 DEF Claims, HeldInFlight, Live, NewRow
    <3>9. OneClaimPerRow'
      BY <3>4, <3>5 DEF Claims, OneClaimPerRow
    <3> QED
      BY <3>7, <3>8, <3>9 DEF Claims
  <2> QED
    BY <1>4, <2>1, <2>2 DEF Claim
<1>5. ASSUME NEW c \in Calls, Reclaim(c) PROVE Claims'
  <2> DEFINE r == handle[c]
  <2>1. CASE UNCHANGED rows /\ (Answer(c, "in_flight", 0, None) \/ Bypass(c))
    BY <1>5, <2>1, <1>0, AnswerQuiet, Quiet DEF Reclaim, Bypass
  <2>2. CASE /\ Reclaimable(r)
             /\ rows' = [rows EXCEPT ![r].status = "in_flight", ![r].overdue = FALSE]
             /\ Answer(c, "proceed", r, None) \/ Bypass(c)
    <3>1. UNCHANGED nextId /\ (\A q \in RowIds : q # r => rows'[q] = rows[q])
      BY <1>5, <2>2 DEF Reclaim, TypeOK
    <3>2. CASE r \in RowIds
      <4>1. /\ rows[r] \in Row
            /\ rows[r].status = "failed"
        BY <2>2, <3>2 DEF Reclaimable, Live, TypeOK
      <4>2. rows'[r].status = "in_flight" /\ ~rows'[r].overdue
        BY <2>2, <3>2, <4>1 DEF TypeOK, Row
      <4>3. \A b \in Calls : \A q \in RowIds :
               Holds(b, q)' => Holds(b, q) \/ (b = c /\ q = r)
        BY <2>2, AnswerQuiet DEF Answer, Bypass, Goto, Holds, TypeOK
      <4>4. Prompt => \A b \in Calls : ~Holds(b, r)
        BY <2>2, <3>2, <4>1 DEF Claims, HeldInFlight, Reclaimable
      <4>5. \A b \in Calls : handle'[b] \in {handle[b], 0}
        BY <2>2 DEF Answer, Bypass, TypeOK
      <4>6. IdsOK'
        <5>1. \A q \in RowIds : Live(q)' => q < nextId
          BY <2>2, <3>1 DEF Claims, IdsOK, Live, Reclaimable
        <5>2. \A b \in Calls : handle'[b] < nextId
          BY <4>5, <1>0
        <5> QED
          BY <5>1, <5>2, <3>1 DEF IdsOK
      <4>7. HeldInFlight'
        BY <3>1, <4>2, <4>3, <4>4 DEF Claims, HeldInFlight, Live
      <4>8. OneClaimPerRow'
        BY <4>3, <4>4 DEF Claims, OneClaimPerRow
      <4> QED
        BY <4>6, <4>7, <4>8 DEF Claims
    <3>3. CASE r \notin RowIds
      <4>1. UNCHANGED rows
        BY <2>2, <3>3 DEF TypeOK
      <4>2. r = 0
        BY <3>3 DEF TypeOK
      <4> QED
        BY <2>2, <4>1, <4>2, <3>1, <1>0, AnswerQuiet, Quiet DEF Bypass
    <3> QED
      BY <3>2, <3>3
  <2> QED
    BY <1>5, <2>1, <2>2 DEF Reclaim
<1>6. ASSUME NEW c \in Calls, Execute(c) PROVE Claims'
  <2>1. UNCHANGED <<rows, nextId, handle>> /\ pc[c] = "execute"
    BY <1>6 DEF Execute, storage
  <2>2. \A b \in Calls : \A r \in RowIds : Holds(b, r)' => Holds(b, r)
    BY <1>6, <2>1, GotoQuiet DEF Execute
  <2> QED
    BY <2>1, <2>2, <1>0, Quiet
<1>7. ASSUME NEW c \in Calls, Complete(c) PROVE Claims'
  <2> DEFINE r == handle[c]
  <2>1. UNCHANGED <<nextId, handle>> /\ pc[c] = "complete"
    BY <1>7 DEF Complete
  <2>2. \A b \in Calls : \A q \in RowIds : Holds(b, q)' => Holds(b, q) /\ b # c
    BY <1>7, <2>1 DEF Complete, Goto, Holds, TypeOK
  <2>3. \A q \in RowIds : q # r => rows'[q] = rows[q]
    BY <1>7 DEF Complete, TypeOK
  <2>4. \A q \in RowIds : Live(q)' => Live(q)
    BY <1>7 DEF Complete, Live, TypeOK
  <2>5. IdsOK'
    BY <2>1, <2>4, <1>0 DEF Claims, IdsOK
  <2>6. HeldInFlight'
    <3> SUFFICES ASSUME Prompt, NEW b \in Calls, NEW q \in RowIds, Holds(b, q)', Live(q)'
                 PROVE  (rows[q].status = "in_flight" /\ ~rows[q].overdue)'
      BY DEF HeldInFlight
    <3>1. q # r
      BY <2>1, <2>2 DEF Claims, OneClaimPerRow, Holds
    <3> QED
      BY <2>2, <2>3, <2>4, <3>1 DEF Claims, HeldInFlight
  <2>7. OneClaimPerRow'
    BY <2>2 DEF Claims, OneClaimPerRow
  <2> QED
    BY <2>5, <2>6, <2>7 DEF Claims
<1>8. ASSUME NEW c \in Calls, Crash(c) PROVE Claims'
  BY <1>8, <1>0, GotoQuiet, Quiet DEF Crash, storage
<1>9. ASSUME NEW k \in Keys, RedisExpire(k) PROVE Claims'
  BY <1>9, <1>0, Quiet DEF RedisExpire, callers, Holds
<1>10. ASSUME NEW r \in RowIds, TimeOut(r) \/ Retire(r) PROVE Claims'
  <2>1. UNCHANGED <<nextId, pc, handle>>
    BY <1>10 DEF TimeOut, Retire, callers
  <2>2. \A q \in RowIds : q # r => rows'[q] = rows[q]
    BY <1>10 DEF TimeOut, Retire, TypeOK
  <2>3. Live(r) /\ (Prompt => \A c \in Calls : ~Holds(c, r))
    BY <1>10 DEF TimeOut, Retire, Held
  <2>4. IdsOK'
    BY <2>1, <2>2, <2>3, <1>0 DEF Claims, IdsOK, Live
  <2>5. HeldInFlight' /\ OneClaimPerRow'
    BY <2>1, <2>2, <2>3 DEF Claims, HeldInFlight, OneClaimPerRow, Holds, Live
  <2> QED
    BY <2>4, <2>5 DEF Claims
<1>11. CASE CleanupMark
  <2>1. UNCHANGED <<nextId, pc, handle>>
    BY <1>11 DEF CleanupMark, callers
  <2>2. \A q \in RowIds : ~Overdue(q) => rows'[q] = rows[q]
    BY <1>11 DEF CleanupMark
  <2>3. \A q \in RowIds : Live(q)' => Live(q)
    BY <2>2 DEF Live, Overdue
  <2>4. IdsOK'
    BY <2>1, <2>3, <1>0 DEF Claims, IdsOK
  <2>5. HeldInFlight'
    BY <2>1, <2>2, <2>3 DEF Claims, HeldInFlight, Holds, Overdue
  <2>6. OneClaimPerRow'
    BY <2>1 DEF Claims, OneClaimPerRow, Holds
  <2> QED
    BY <2>4, <2>5, <2>6 DEF Claims
<1>12. CASE CleanupDelete
  <2>1. UNCHANGED <<nextId, pc, handle>>
    BY <1>12 DEF CleanupDelete, callers
  <2>2. \A q \in RowIds : rows'[q] = rows[q] \/ rows'[q] = NoRow
    BY <1>12 DEF CleanupDelete
  <2>3. IdsOK' /\ HeldInFlight' /\ OneClaimPerRow'
    BY <2>1, <2>2, <1>0 DEF Claims, IdsOK, HeldInFlight, OneClaimPerRow, Holds, Live
  <2> QED
    BY <2>3 DEF Claims
<1>13. CASE UNCHANGED vars
  BY <1>13, <1>0, Quiet DEF vars, storage, callers, Holds
<1> QED
  BY <1>1, <1>2, <1>3, <1>4, <1>5, <1>6, <1>7, <1>8, <1>9, <1>10, <1>11, <1>12, <1>13
     DEF Next, Step

LEMMA ClaimsInit == Init => Claims
  BY GateAssumption DEF Init, Claims, IdsOK, HeldInFlight, OneClaimPerRow, Holds, Live, RowIds

\* While executions end within the in-flight timeout, at most one running call
\* holds the claim of a row of t_ai_idempotency.
THEOREM ClaimsAreExclusive == Spec => []OneClaimPerRow
<1>1. Typed /\ Claims => OneClaimPerRow
  BY DEF Claims
<1>2. Typed /\ Claims /\ [Next]_vars => Typed' /\ Claims'
  BY TypedStep, ClaimsStep DEF Typed
<1> QED
  BY <1>1, <1>2, TypedInit, ClaimsInit, PTL DEF Spec

-----------------------------------------------------------------------------
(* Two running calls on one row, whatever the timing.                      *)

\* Without promptness the clean-up job may take a claim away.  Until it has
\* done so to a row, the row is in flight while it is held.
InFlightTillTimedOut ==
    \A c \in Calls : \A r \in RowIds \ timedOut :
        Holds(c, r) /\ Live(r) => rows[r].status = "in_flight"

Timeouts == InFlightTillTimedOut /\ DoubleClaimNeedsTimeOut

\* A step that changes no row that is held, and hands out no claim.
LEMMA TimeoutsQuiet ==
    ASSUME Timeouts, timedOut \subseteq timedOut',
           \A b \in Calls : \A r \in RowIds : Holds(b, r)' => Holds(b, r),
           \A b \in Calls : \A r \in RowIds \ timedOut' :
               Holds(b, r)' /\ Live(r)' => Live(r) /\ rows'[r].status = rows[r].status
    PROVE  Timeouts'
  BY DEF Timeouts, InFlightTillTimedOut, DoubleClaimNeedsTimeOut

LEMMA TimeoutsStep == TypeOK /\ IdsOK /\ Timeouts /\ [Next]_vars => Timeouts'
<1> SUFFICES ASSUME TypeOK, IdsOK, Timeouts, [Next]_vars PROVE Timeouts'
  OBVIOUS
<1>1. ASSUME NEW c \in Calls, NEW k \in Keys \cup {BadKey}, Enter(c, k) PROVE Timeouts'
  <2>1. UNCHANGED <<rows, timedOut>>
    BY <1>1 DEF Enter, storage, history
  <2>2. \A b \in Calls : \A r \in RowIds : Holds(b, r)' => Holds(b, r)
    BY <1>1, GotoQuiet, AnswerQuiet DEF Enter, Continue, Bypass
  <2> QED
    BY <2>1, <2>2, TimeoutsQuiet DEF Live
<1>2. ASSUME NEW c \in Calls, RedisPrefilter(c) PROVE Timeouts'
  BY <1>2, GotoQuiet, TimeoutsQuiet DEF RedisPrefilter, Continue, history, Live
<1>3. ASSUME NEW c \in Calls, FindRow(c) PROVE Timeouts'
  <2>1. UNCHANGED <<rows, timedOut>>
    BY <1>3 DEF FindRow, storage, history
  <2>2. \A b \in Calls : \A r \in RowIds : Holds(b, r)' => Holds(b, r)
    <3>1. CASE \E r \in RowIds : /\ Goto(c, "reclaim")
                                 /\ handle' = [handle EXCEPT ![c] = r]
      BY <3>1 DEF Holds, Goto, TypeOK
    <3>2. CASE Continue(c, "insert") \/ (\E d, o : Answer(c, d, 0, o))
      BY <3>2, GotoQuiet, AnswerQuiet DEF Continue
    <3> QED
      BY <1>3, <3>1, <3>2 DEF FindRow, DecideFromRow, Bypass, RowsOf
  <2> QED
    BY <2>1, <2>2, TimeoutsQuiet DEF Live
<1>4. ASSUME NEW c \in Calls, Claim(c) PROVE Timeouts'
  <2>1. UNCHANGED timedOut
    BY <1>4 DEF Claim, history
  <2>2. CASE UNCHANGED rows /\ (Continue(c, "reselect") \/ Bypass(c))
    BY <2>1, <2>2, GotoQuiet, AnswerQuiet, TimeoutsQuiet DEF Continue, Bypass, Live
  <2>3. CASE InsertRow(c)
    <3>1. /\ nextId \in RowIds
          /\ rows'[nextId] = NewRow(key[c])
          /\ \A r \in RowIds : r # nextId => rows'[r] = rows[r]
      BY <2>3 DEF InsertRow, TypeOK
    <3>2. \A b \in Calls : ~Holds(b, nextId)
      BY <3>1 DEF Holds, IdsOK, TypeOK, RowIds
    <3>3. \A b \in Calls : \A r \in RowIds :
             Holds(b, r)' => Holds(b, r) \/ (b = c /\ r = nextId)
      <4>1. CASE Answer(c, "proceed", nextId, None)
        BY <4>1 DEF Answer, Goto, Holds, TypeOK
      <4>2. CASE Bypass(c)
        BY <4>2, AnswerQuiet DEF Bypass
      <4>3. CASE Continue(c, "reselect")
        BY <4>3, GotoQuiet DEF Continue
      <4> QED
        BY <1>4, <4>1, <4>2, <4>3 DEF Claim
    <3>4. InFlightTillTimedOut'
      BY <2>1, <3>1, <3>2, <3>3 DEF Timeouts, InFlightTillTimedOut, NewRow, Live
    <3>5. DoubleClaimNeedsTimeOut'
      BY <2>1, <3>2, <3>3 DEF Timeouts, DoubleClaimNeedsTimeOut
    <3> QED
      BY <3>4, <3>5 DEF Timeouts
  <2> QED
    BY <1>4, <2>2, <2>3 DEF Claim
<1>5. ASSUME NEW c \in Calls, Reclaim(c) PROVE Timeouts'
  <2> DEFINE r == handle[c]
  <2>1. UNCHANGED timedOut
    BY <1>5 DEF Reclaim, history
  <2>2. CASE UNCHANGED rows /\ (Answer(c, "in_flight", 0, None) \/ Bypass(c))
    BY <2>1, <2>2, AnswerQuiet, TimeoutsQuiet DEF Bypass, Live
  <2>3. CASE /\ Reclaimable(r)
             /\ rows' = [rows EXCEPT ![r].status = "in_flight", ![r].overdue = FALSE]
             /\ Answer(c, "proceed", r, None) \/ Bypass(c)
    <3>1. \A q \in RowIds : q # r => rows'[q] = rows[q]
      BY <2>3 DEF TypeOK
    <3>2. \A b \in Calls : \A q \in RowIds :
             Holds(b, q)' => Holds(b, q) \/ (b = c /\ q = r)
      BY <2>3, AnswerQuiet DEF Answer, Bypass, Goto, Holds, TypeOK
    <3>3. r \in RowIds => rows'[r].status = "in_flight"
      BY <2>3 DEF Reclaimable, Live, TypeOK, Row
    <3>4. r \in RowIds \ timedOut => \A b \in Calls : ~Holds(b, r)
      BY <2>3 DEF Reclaimable, Timeouts, InFlightTillTimedOut
    <3>5. InFlightTillTimedOut'
      BY <2>1, <3>1, <3>2, <3>3 DEF Timeouts, InFlightTillTimedOut, Live
    <3>6. DoubleClaimNeedsTimeOut'
      BY <2>1, <3>2, <3>4 DEF Timeouts, DoubleClaimNeedsTimeOut
    <3> QED
      BY <3>5, <3>6 DEF Timeouts
  <2> QED
    BY <1>5, <2>2, <2>3 DEF Reclaim
<1>6. ASSUME NEW c \in Calls, Execute(c) PROVE Timeouts'
  BY <1>6, GotoQuiet, TimeoutsQuiet DEF Execute, storage, Live
<1>7. ASSUME NEW c \in Calls, Complete(c) PROVE Timeouts'
  <2>1. UNCHANGED timedOut /\ (\A q \in RowIds : q # handle[c] => rows'[q] = rows[q])
    BY <1>7 DEF Complete, TypeOK
  <2>2. Holds(c, handle[c])
    BY <1>7 DEF Complete, Holds
  <2>3. \A b \in Calls : \A q \in RowIds : Holds(b, q)' => Holds(b, q) /\ b # c
    BY <1>7 DEF Complete, Goto, Holds, TypeOK
  <2>4. \A b \in Calls : \A q \in RowIds \ timedOut : Holds(b, q)' => q # handle[c]
    BY <2>2, <2>3 DEF Timeouts, DoubleClaimNeedsTimeOut
  <2> QED
    BY <2>1, <2>3, <2>4, TimeoutsQuiet DEF Live
<1>8. ASSUME NEW c \in Calls, Crash(c) PROVE Timeouts'
  BY <1>8, GotoQuiet, TimeoutsQuiet DEF Crash, storage, Live
<1>9. ASSUME NEW k \in Keys, RedisExpire(k) PROVE Timeouts'
  BY <1>9, TimeoutsQuiet DEF RedisExpire, callers, history, Holds, Live
<1>10. ASSUME NEW r \in RowIds, TimeOut(r) \/ Retire(r) PROVE Timeouts'
  <2>1. UNCHANGED <<pc, handle, timedOut>>
    BY <1>10 DEF TimeOut, Retire, callers, history
  <2>2. \A q \in RowIds : Live(q)' => Live(q) /\ rows'[q].status = rows[q].status
    BY <1>10 DEF TimeOut, Retire, TypeOK, Live, Row
  <2> QED
    BY <2>1, <2>2, TimeoutsQuiet DEF Holds
<1>11. CASE CleanupMark
  BY <1>11, TimeoutsQuiet DEF CleanupMark, callers, Holds, Live
<1>12. CASE CleanupDelete
  BY <1>12, TimeoutsQuiet DEF CleanupDelete, callers, Holds, Live
<1>13. CASE UNCHANGED vars
  BY <1>13, TimeoutsQuiet DEF vars, storage, callers, history, Holds, Live
<1> QED
  BY <1>1, <1>2, <1>3, <1>4, <1>5, <1>6, <1>7, <1>8, <1>9, <1>10, <1>11, <1>12, <1>13
     DEF Next, Step

\* Two calls run on one claim only after the clean-up job set its row to
\* failed: no race of inserts, retries and completions does it by itself.
THEOREM OnlyTheTimeOutSharesAClaim == Spec => []DoubleClaimNeedsTimeOut
<1>1. Init => Timeouts
  BY DEF Init, Timeouts, InFlightTillTimedOut, DoubleClaimNeedsTimeOut, Holds
<1>2. Typed /\ Claims /\ Timeouts /\ [Next]_vars => Typed' /\ Claims' /\ Timeouts'
  BY TypedStep, ClaimsStep, TimeoutsStep DEF Typed, Claims
<1>3. Timeouts => DoubleClaimNeedsTimeOut
  BY DEF Timeouts
<1> QED
  BY <1>1, <1>2, <1>3, TypedInit, ClaimsInit, PTL DEF Spec

-----------------------------------------------------------------------------
(* What the table remembers of the writes.                                 *)

\* The order of a call: it is let through, it executes, it reports.
Past ==
    \A c \in Calls :
        /\ c \in effects => pc[c] \in {"complete", "done", "dead"}
        /\ ok[c] => c \in effects
        /\ pc[c] \in {"execute", "complete"} \/ c \in effects => decision[c] = "proceed"
        /\ decision[c] = "replay" => pc[c] = "done"

\* A call holds rows of its own key; no two rows share a key.
Keyed ==
    /\ \A c \in Calls : \A r \in RowIds :
           handle[c] = r /\ pc[c] \in {"reclaim", "execute", "complete"} /\ Live(r)
               => rows[r].key = key[c]
    /\ \A q, r \in RowIds : Live(q) /\ Live(r) /\ rows[q].key = rows[r].key => q = r

\* d is a write of key k that took place and reported success.
Genuine(d, k) == d \in effects /\ key[d] = k /\ ok[d]

\* A stored success is the success of a write of the row's key.
Stored ==
    \A r \in RowIds :
        Live(r) /\ rows[r].status = "succeeded" => Genuine(rows[r].result, rows[r].key)

Memory == Past /\ Keyed /\ Stored /\ ReplayIsGenuine

\* The row of a call that runs, or of a write that was recorded, stays until
\* it is purged.
Owes(c) == handle[c] # 0 /\ (pc[c] = "execute" \/ (c \in effects /\ ~Unrecorded(c)))
HasRow(c) ==
    /\ Live(handle[c])
    /\ rows[handle[c]].key = key[c]
    /\ \/ pc[c] \in {"execute", "complete"}
       \/ /\ pc[c] = "done"
          /\ rows[handle[c]].status = "succeeded"
          /\ rows[handle[c]].result = c
Kept == Prompt => \A c \in Calls : Owes(c) => key[c] \in purged \/ HasRow(c)

\* A step of check() that leaves the table alone: its call has not written
\* yet, and it holds nothing afterwards.
LEMMA MemoryCheck ==
    ASSUME TypeOK, Memory, Kept, NEW c \in Calls,
           pc[c] \notin {"execute", "complete", "done", "dead"},
           UNCHANGED <<rows, effects, ok, unstored, purged>>,
           \A b \in Calls \ {c} : /\ pc'[b] = pc[b]
                                  /\ key'[b] = key[b]
                                  /\ handle'[b] = handle[b]
                                  /\ decision'[b] = decision[b]
                                  /\ origin'[b] = origin[b],
           pc'[c] # "complete",
           pc'[c] = "execute" => decision'[c] = "proceed" /\ handle'[c] = 0,
           pc'[c] = "reclaim" => \A r \in RowIds :
               handle'[c] = r /\ Live(r) => rows[r].key = key'[c],
           decision'[c] = "replay" => /\ pc'[c] = "done"
                                      /\ Genuine(origin'[c], key'[c])
    PROVE  Memory' /\ Kept'
<1>1. c \notin effects /\ ~ok[c]
  BY DEF Memory, Past, TypeOK
<1>2. Past'
  BY <1>1 DEF Memory, Past
<1>3. Keyed'
  BY DEF Memory, Keyed, Live, RowIds
<1>4. \A d \in effects : key'[d] = key[d]
  BY <1>1 DEF TypeOK
<1>5. Stored'
  BY <1>4 DEF Memory, Stored, Genuine, Live
<1>6. ReplayIsGenuine'
  BY <1>4 DEF Memory, ReplayIsGenuine, Genuine
<1>7. Kept'
  <2>1. ~Owes(c)'
    BY <1>1 DEF Owes
  <2>2. ASSUME NEW b \in Calls \ {c}, Owes(b)', Prompt, key[b] \notin purged
        PROVE  HasRow(b)' /\ handle'[b] = handle[b] /\ key'[b] = key[b]
    <3>1. Owes(b)
      BY <2>2 DEF Owes, Unrecorded
    <3>2. HasRow(b)
      BY <2>2, <3>1 DEF Kept
    <3> QED
      BY <3>2 DEF HasRow, Live
  <2> QED
    BY <2>1, <2>2 DEF Kept
<1> QED
  BY <1>2, <1>3, <1>5, <1>6, <1>7 DEF Memory

\* A step of the clock or of the clean-up job: it makes no row succeed, and
\* deletes only rows whose keys it notes as purged.
LEMMA MemoryRows ==
    ASSUME TypeOK, Memory, Kept,
           UNCHANGED <<callers, effects, unstored>>,
           purged \subseteq purged',
           \A r \in RowIds : Live(r)' =>
               /\ Live(r)
               /\ rows'[r].key = rows[r].key
               /\ rows'[r].status = "succeeded" => rows[r].status = "succeeded"
               /\ rows'[r].result = rows[r].result,
           \A r \in RowIds : Live(r) =>
               \/ Live(r)' /\ (rows[r].status = "succeeded" => rows'[r].status = "succeeded")
               \/ rows[r].key \in purged'
    PROVE  Memory' /\ Kept'
<1>1. Past' /\ ReplayIsGenuine'
  BY DEF Memory, Past, ReplayIsGenuine, callers
<1>2. Keyed'
  BY DEF Memory, Keyed, callers
<1>3. Stored'
  BY DEF Memory, Stored, Genuine, callers
<1>4. Kept'
  <2> SUFFICES ASSUME Prompt, NEW c \in Calls, Owes(c)', key[c] \notin purged'
               PROVE  HasRow(c)'
    BY DEF Kept, callers
  <2>1. HasRow(c) /\ handle[c] \in RowIds
    BY DEF Kept, Owes, Unrecorded, callers, TypeOK
  <2>2. /\ Live(handle[c])'
        /\ rows[handle[c]].status = "succeeded" => rows'[handle[c]].status = "succeeded"
    BY <2>1 DEF HasRow, Live, callers
  <2> QED
    BY <2>1, <2>2 DEF HasRow, callers
<1> QED
  BY <1>1, <1>2, <1>3, <1>4 DEF Memory

\* A step that claims row r for call c, or that left the row in flight when
\* its statement failed and c goes on without it.
LEMMA MemoryClaim ==
    ASSUME TypeOK, Memory, Kept, NEW c \in Calls, NEW r \in RowIds,
           pc[c] \notin {"execute", "complete", "done", "dead"},
           UNCHANGED <<key, effects, ok, unstored, purged>>,
           \A q \in RowIds : q # r => rows'[q] = rows[q],
           rows'[r] # NoRow, rows'[r].key = key[c], rows'[r].status = "in_flight",
           \A q \in RowIds : q # r /\ Live(q) => rows[q].key # key[c],
           Prompt => \A b \in Calls \ {c} : handle[b] = r /\ Owes(b) => key[b] \in purged,
           \A b \in Calls : handle[b] = r => Live(r),
           Live(r) => rows[r].key = key[c],
           Answer(c, "proceed", r, None) \/ Bypass(c)
    PROVE  Memory' /\ Kept'
<1>1. c \notin effects /\ ~ok[c]
  BY DEF Memory, Past, TypeOK
<1>2. /\ pc'[c] = "execute" /\ decision'[c] = "proceed" /\ handle'[c] \in {0, r}
      /\ \A b \in Calls \ {c} : /\ pc'[b] = pc[b]
                                /\ handle'[b] = handle[b]
                                /\ decision'[b] = decision[b]
                                /\ origin'[b] = origin[b]
  BY DEF Answer, Bypass, Goto, TypeOK
<1>3. Past'
  BY <1>1, <1>2 DEF Memory, Past
<1>4. Keyed'
  <2>1. ASSUME NEW b \in Calls, NEW q \in RowIds,
               (handle[b] = q /\ pc[b] \in {"reclaim", "execute", "complete"} /\ Live(q))'
        PROVE  rows'[q].key = key'[b]
    <3>1. CASE b = c
      BY <3>1, <2>1, <1>2 DEF RowIds
    <3>2. CASE b # c /\ q = r
      BY <3>2, <2>1, <1>2 DEF Memory, Keyed
    <3>3. CASE b # c /\ q # r
      BY <3>3, <2>1, <1>2 DEF Memory, Keyed, Live
    <3> QED
      BY <3>1, <3>2, <3>3
  <2>2. \A p, q \in RowIds :
           Live(p)' /\ Live(q)' /\ rows'[p].key = rows'[q].key => p = q
    BY DEF Memory, Keyed, Live
  <2> QED
    BY <2>1, <2>2 DEF Keyed
<1>5. Stored'
  BY DEF Memory, Stored, Genuine, Live
<1>6. ReplayIsGenuine'
  BY <1>2 DEF Memory, ReplayIsGenuine
<1>7. Kept'
  <2>1. Owes(c)' => HasRow(c)'
    BY <1>1, <1>2 DEF Owes, HasRow, Live
  <2>2. ASSUME NEW b \in Calls \ {c}, Owes(b)', Prompt, key[b] \notin purged
        PROVE  HasRow(b)'
    <3>1. Owes(b) /\ handle[b] # r /\ handle[b] \in RowIds
      BY <2>2, <1>2 DEF Owes, Unrecorded, TypeOK
    <3>2. HasRow(b)
      BY <2>2, <3>1 DEF Kept
    <3> QED
      BY <3>1, <3>2, <1>2 DEF HasRow, Live
  <2> QED
    BY <2>1, <2>2, <1>2 DEF Kept
<1> QED
  BY <1>3, <1>4, <1>5, <1>6, <1>7 DEF Memory

LEMMA MemoryStep ==
    Typed /\ Claims /\ Memory /\ Kept /\ [Next]_vars => Memory' /\ Kept'
<1> SUFFICES ASSUME TypeOK, KeyOK, Claims, Memory, Kept, [Next]_vars
             PROVE  Memory' /\ Kept'
  BY DEF Typed
<1>1. ASSUME NEW c \in Calls, NEW k \in Keys \cup {BadKey}, Enter(c, k)
      PROVE  Memory' /\ Kept'
  <2>1. /\ UNCHANGED <<rows, effects, ok, unstored, purged>>
        /\ pc[c] = "start"
        /\ \A b \in Calls \ {c} : key'[b] = key[b]
    BY <1>1 DEF Enter, storage, history, TypeOK
  <2>2. decision[c] # "replay"
    BY <2>1 DEF Memory, Past
  <2>3. CASE Continue(c, "redis")
    BY <2>1, <2>2, <2>3, MemoryCheck DEF Continue, Goto, TypeOK
  <2>4. CASE Answer(c, "rejected", 0, None) \/ Bypass(c)
    BY <2>1, <2>4, MemoryCheck DEF Answer, Bypass, Goto, TypeOK
  <2> QED
    BY <1>1, <2>3, <2>4 DEF Enter
<1>2. ASSUME NEW c \in Calls, RedisPrefilter(c) PROVE Memory' /\ Kept'
  <2>1. /\ UNCHANGED <<rows, key, effects, ok, unstored, purged>>
        /\ pc[c] = "redis"
        /\ decision[c] # "replay"
    BY <1>2 DEF RedisPrefilter, history, Memory, Past
  <2>2. CASE Continue(c, "select")
    BY <2>1, <2>2, MemoryCheck DEF Continue, Goto, TypeOK
  <2>3. CASE Continue(c, "insert")
    BY <2>1, <2>3, MemoryCheck DEF Continue, Goto, TypeOK
  <2> QED
    BY <1>2, <2>2, <2>3 DEF RedisPrefilter
<1>3. ASSUME NEW c \in Calls, FindRow(c) PROVE Memory' /\ Kept'
  <2>1. /\ UNCHANGED <<rows, key, effects, ok, unstored, purged>>
        /\ pc[c] \in {"select", "reselect"}
        /\ decision[c] # "replay"
    BY <1>3 DEF FindRow, storage, history, Memory, Past
  <2>2. CASE Continue(c, "insert")
    BY <2>1, <2>2, MemoryCheck DEF Continue, Goto, TypeOK
  <2>3. CASE Answer(c, "in_flight", 0, None) \/ Bypass(c)
    BY <2>1, <2>3, MemoryCheck DEF Answer, Bypass, Goto, TypeOK
  <2>4. ASSUME NEW r \in RowsOf(key[c]), rows[r].status = "succeeded",
               Answer(c, "replay", 0, rows[r].result)
        PROVE  Memory' /\ Kept'
    <3>1. Genuine(rows[r].result, key[c])
      BY <2>4 DEF RowsOf, Memory, Stored
    <3> QED
      BY <2>1, <2>4, <3>1, MemoryCheck DEF Answer, Goto, TypeOK
  <2>5. ASSUME NEW r \in RowsOf(key[c]), Goto(c, "reclaim"),
               handle' = [handle EXCEPT ![c] = r], UNCHANGED <<decision, origin>>
        PROVE  Memory' /\ Kept'
    <3>1. rows[r].key = key'[c] /\ handle'[c] = r
      BY <2>1, <2>5 DEF RowsOf, TypeOK
    <3> QED
      BY <2>1, <2>5, <3>1, MemoryCheck DEF Goto, TypeOK
  <2> QED
    BY <1>3, <2>2, <2>3, <2>4, <2>5 DEF FindRow, DecideFromRow
<1>4. ASSUME NEW c \in Calls, Claim(c) PROVE Memory' /\ Kept'
  <2>1. /\ UNCHANGED <<key, effects, ok, unstored, purged>>
        /\ pc[c] = "insert"
        /\ decision[c] # "replay"
    BY <1>4 DEF Claim, history, Memory, Past
  <2>2. CASE UNCHANGED rows /\ Continue(c, "reselect")
    BY <2>1, <2>2, MemoryCheck DEF Continue, Goto, TypeOK
  <2>3. CASE UNCHANGED rows /\ Bypass(c)
    BY <2>1, <2>3, MemoryCheck DEF Answer, Bypass, Goto, TypeOK
  <2>4. CASE InsertRow(c) /\ (Answer(c, "proceed", nextId, None) \/ Bypass(c))
    <3>1. /\ nextId \in RowIds
          /\ rows'[nextId] = NewRow(key[c])
          /\ \A q \in RowIds : q # nextId => rows'[q] = rows[q]
          /\ \A q \in RowIds : Live(q) => rows[q].key # key[c]
      BY <2>4 DEF InsertRow, RowsOf, TypeOK
    <3>2. ~Live(nextId) /\ \A b \in Calls : handle[b] # nextId
      BY <3>1 DEF Claims, IdsOK, TypeOK, RowIds
    <3>3. rows'[nextId].key = key[c] /\ rows'[nextId].status = "in_flight" /\ rows'[nextId] # NoRow
      <4>1. NewRow(key[c]) # NoRow
        BY DEF NewRow, NoRow
      <4>2. nextId \in RowIds => rows'[nextId] # NoRow
        BY <3>1, <4>1
      <4> QED
        BY <3>1, <4>2 DEF NewRow
    <3> QED
      BY <2>1, <2>4, <3>1, <3>2, <3>3, MemoryClaim
  <2> QED
    BY <1>4, <2>2, <2>3, <2>4 DEF Claim
<1>5. ASSUME NEW c \in Calls, Reclaim(c) PROVE Memory' /\ Kept'
  <2> DEFINE r == handle[c]
  <2>1. /\ UNCHANGED <<key, effects, ok, unstored, purged>>
        /\ pc[c] = "reclaim"
        /\ decision[c] # "replay"
    BY <1>5 DEF Reclaim, history, Memory, Past
  <2>2. CASE UNCHANGED rows /\ (Answer(c, "in_flight", 0, None) \/ Bypass(c))
    BY <2>1, <2>2, MemoryCheck DEF Answer, Bypass, Goto, TypeOK
  <2>3. CASE /\ Reclaimable(r)
             /\ rows' = [rows EXCEPT ![r].status = "in_flight", ![r].overdue = FALSE]
             /\ Answer(c, "proceed", r, None) \/ Bypass(c)
    <3>1. CASE r = 0
      <4>1. UNCHANGED rows /\ (Bypass(c) \/ Answer(c, "proceed", 0, None))
        BY <2>3, <3>1 DEF TypeOK, RowIds
      <4> QED
        BY <2>1, <4>1, MemoryCheck DEF Answer, Bypass, Goto, TypeOK
    <3>2. CASE r \in RowIds
      <4>1. Live(r) /\ rows[r].status = "failed" /\ rows[r] \in Row
        BY <2>3, <3>2 DEF Reclaimable, Live, TypeOK
      <4>2. rows[r].key = key[c]
        BY <2>1, <3>2, <4>1 DEF Memory, Keyed
      <4>3. /\ rows'[r].key = key[c]
            /\ rows'[r].status = "in_flight"
            /\ \A q \in RowIds : q # r => rows'[q] = rows[q]
        BY <2>3, <3>2, <4>1, <4>2 DEF TypeOK, Row
      <4>4. rows'[r] # NoRow
        BY <4>3 DEF NoRow
      <4>5. \A q \in RowIds : q # r /\ Live(q) => rows[q].key # key[c]
        BY <3>2, <4>1, <4>2 DEF Memory, Keyed
      <4>6. ASSUME Prompt, NEW b \in Calls \ {c}, handle[b] = r, Owes(b)
            PROVE  key[b] \in purged
        <5>1. ~HasRow(b)
          BY <4>1, <4>6, <3>2 DEF HasRow, Claims, HeldInFlight, Holds
        <5> QED
          BY <4>6, <5>1 DEF Kept
      <4> QED
        BY <2>1, <2>3, <3>2, <4>1, <4>2, <4>3, <4>4, <4>5, <4>6, MemoryClaim
    <3> QED
      BY <3>1, <3>2 DEF TypeOK
  <2> QED
    BY <1>5, <2>2, <2>3 DEF Reclaim
<1>6. ASSUME NEW c \in Calls, Execute(c) PROVE Memory' /\ Kept'
  <2>1. /\ UNCHANGED <<rows, key, handle, decision, origin, unstored, purged>>
        /\ pc[c] = "execute" /\ c \notin effects /\ ~ok[c] /\ decision[c] = "proceed"
        /\ \A b \in Calls \ {c} : pc'[b] = pc[b] /\ ok'[b] = ok[b]
        /\ effects \subseteq effects' /\ effects' \subseteq effects \cup {c}
        /\ ok'[c] => c \in effects'
        /\ pc'[c] = IF handle[c] = 0 THEN "done" ELSE "complete"
    BY <1>6 DEF Execute, Goto, storage, TypeOK, Memory, Past
  <2>2. Past'
    BY <2>1 DEF Memory, Past
  <2>3. Keyed'
    BY <2>1 DEF Memory, Keyed, Live
  <2>4. \A d, k : Genuine(d, k) => Genuine(d, k)'
    BY <2>1 DEF Genuine, TypeOK
  <2>5. Stored'
    BY <2>1, <2>4 DEF Memory, Stored, Genuine, Live, TypeOK
  <2>6. ReplayIsGenuine'
    BY <2>1 DEF Memory, ReplayIsGenuine, TypeOK
  <2>7. Kept'
    <3> SUFFICES ASSUME Prompt, NEW b \in Calls, Owes(b)', key[b] \notin purged
                 PROVE  HasRow(b)'
      BY <2>1 DEF Kept
    <3>1. Owes(b)
      BY <2>1 DEF Owes, Unrecorded
    <3>2. HasRow(b)
      BY <3>1 DEF Kept
    <3> QED
      BY <2>1, <3>2 DEF HasRow, Owes, Live
  <2> QED
    BY <2>2, <2>3, <2>5, <2>6, <2>7 DEF Memory
<1>7. ASSUME NEW c \in Calls, Complete(c) PROVE Memory' /\ Kept'
  <2> DEFINE r == handle[c]
  <2>1. /\ UNCHANGED <<key, handle, decision, origin, ok, effects, purged>>
        /\ pc[c] = "complete" /\ pc'[c] = "done"
        /\ \A b \in Calls \ {c} : pc'[b] = pc[b] /\ (b \in unstored' <=> b \in unstored)
        /\ unstored \subseteq unstored'
        /\ \A q \in RowIds : q # r => rows'[q] = rows[q]
    BY <1>7 DEF Complete, Goto, TypeOK
  <2>2. \A q \in RowIds : Live(q)' => Live(q) /\ rows'[q].key = rows[q].key
    BY <1>7 DEF Complete, Live, TypeOK, Row
  <2>3. r \in RowIds /\ Live(r) =>
           \/ c \in unstored' /\ rows' = rows
           \/ ok[c] /\ rows'[r].status = "succeeded" /\ rows'[r].result = c /\ Live(r)'
           \/ ~ok[c] /\ rows'[r].status = "failed"
    <3> SUFFICES ASSUME r \in RowIds, Live(r), ~(c \in unstored' /\ rows' = rows)
                 PROVE  \/ ok[c] /\ rows'[r].status = "succeeded" /\ rows'[r].result = c /\ Live(r)'
                        \/ ~ok[c] /\ rows'[r].status = "failed"
      OBVIOUS
    <3>1. rows' = [rows EXCEPT ![r].status = FinalStatus(c),
                               ![r].result = IF ok[c] THEN c ELSE None]
      BY <1>7 DEF Complete
    <3>2. rows[r] \in Row
      BY DEF Live, TypeOK
    <3>3. /\ rows'[r].status = FinalStatus(c)
          /\ rows'[r].result = IF ok[c] THEN c ELSE None
      BY <3>1, <3>2 DEF TypeOK, Row
    <3>4. rows'[r].status = "succeeded" => rows'[r] # NoRow
      BY DEF NoRow
    <3> QED
      BY <2>1, <3>3, <3>4 DEF FinalStatus, Live
  <2>4. Past'
    BY <2>1 DEF Memory, Past
  <2>5. Keyed'
    BY <2>1, <2>2 DEF Memory, Keyed
  <2>6. Stored'
    <3> SUFFICES ASSUME NEW q \in RowIds, Live(q)', rows'[q].status = "succeeded"
                 PROVE  Genuine(rows'[q].result, rows'[q].key)
      BY <2>1 DEF Stored, Genuine
    <3>1. CASE rows'[q] = rows[q]
      BY <2>2, <3>1 DEF Memory, Stored
    <3>2. CASE rows'[q] # rows[q]
      <4>1. q = r /\ Live(r) /\ ok[c] /\ rows'[r].result = c
        BY <2>1, <2>2, <2>3, <3>2
      <4>2. c \in effects /\ rows[r].key = key[c]
        BY <2>1, <4>1 DEF Memory, Past, Keyed
      <4> QED
        BY <2>2, <4>1, <4>2 DEF Genuine
    <3> QED
      BY <3>1, <3>2
  <2>7. ReplayIsGenuine'
    BY <2>1 DEF Memory, ReplayIsGenuine
  <2>8. Kept'
    <3> SUFFICES ASSUME Prompt, NEW b \in Calls, Owes(b)', key[b] \notin purged
                 PROVE  HasRow(b)'
      BY <2>1 DEF Kept
    <3>1. Owes(b)
      BY <2>1 DEF Owes, Unrecorded
    <3>2. HasRow(b) /\ handle[b] \in RowIds
      BY <3>1 DEF Kept, Owes, TypeOK
    <3>3. CASE b = c
      <4>1. ok[c] /\ c \notin unstored'
        BY <2>1, <3>3 DEF Owes, Unrecorded
      <4> QED
        BY <2>1, <2>2, <2>3, <3>2, <3>3, <4>1 DEF HasRow
    <3>4. CASE b # c
      <4>1. handle[b] # r
        BY <2>1, <3>2, <3>4 DEF HasRow, Claims, OneClaimPerRow, HeldInFlight, Holds
      <4> QED
        BY <2>1, <3>2, <3>4, <4>1 DEF HasRow, Live
    <3> QED
      BY <3>3, <3>4
  <2> QED
    BY <2>4, <2>5, <2>6, <2>7, <2>8 DEF Memory
<1>8. ASSUME NEW c \in Calls, Crash(c) PROVE Memory' /\ Kept'
  <2>1. /\ UNCHANGED <<rows, key, handle, decision, origin, ok, effects, purged>>
        /\ pc[c] \notin {"start", "done", "dead"} /\ pc'[c] = "dead"
        /\ \A b \in Calls \ {c} : pc'[b] = pc[b] /\ (b \in unstored' <=> b \in unstored)
        /\ handle[c] # 0 /\ pc[c] = "complete" => c \in unstored'
    BY <1>8 DEF Crash, Goto, storage, TypeOK
  <2>2. Past'
    BY <2>1 DEF Memory, Past
  <2>3. Keyed' /\ Stored' /\ ReplayIsGenuine'
    BY <2>1 DEF Memory, Keyed, Stored, ReplayIsGenuine, Genuine, Live
  <2>4. ~Owes(c)'
    BY <2>1 DEF Owes, Unrecorded, Memory, Past
  <2>5. Kept'
    BY <2>1, <2>4 DEF Kept, Owes, Unrecorded, HasRow, Live
  <2> QED
    BY <2>2, <2>3, <2>5 DEF Memory
<1>9. ASSUME NEW k \in Keys, RedisExpire(k) PROVE Memory' /\ Kept'
  BY <1>9, MemoryRows DEF RedisExpire, history, Live
<1>10. ASSUME NEW r \in RowIds, TimeOut(r) \/ Retire(r) PROVE Memory' /\ Kept'
  <2>1. UNCHANGED <<callers, effects, unstored, purged>>
    BY <1>10 DEF TimeOut, Retire, history
  <2>2. Live(r) /\ rows[r] \in Row
    BY <1>10 DEF TimeOut, Retire, Live, TypeOK
  <2>3. /\ \A q \in RowIds : q # r => rows'[q] = rows[q]
        /\ rows'[r].key = rows[r].key
        /\ rows'[r].status = rows[r].status
        /\ rows'[r].result = rows[r].result
    BY <1>10, <2>2 DEF TimeOut, Retire, TypeOK, Row
  <2>4. rows'[r] # NoRow
    BY <2>2, <2>3, GateAssumption DEF Row, NoRow
  <2> QED
    BY <2>1, <2>2, <2>3, <2>4, MemoryRows DEF Live
<1>11. CASE CleanupMark
  <2>1. UNCHANGED <<callers, effects, unstored, purged>>
    BY <1>11 DEF CleanupMark
  <2>2. \A q \in RowIds : ~Overdue(q) => rows'[q] = rows[q]
    BY <1>11 DEF CleanupMark
  <2>3. ASSUME NEW q \in RowIds, Overdue(q)
        PROVE  /\ rows'[q].key = rows[q].key
               /\ rows'[q].status = "failed"
               /\ rows'[q].result = rows[q].result
               /\ rows'[q] # NoRow
    <3>1. rows[q] \in Row /\ rows'[q] = [rows[q] EXCEPT !.status = "failed"]
      BY <1>11, <2>3 DEF CleanupMark, Overdue, Live, TypeOK
    <3> QED
      BY <3>1, GateAssumption DEF Row, NoRow
  <2> QED
    BY <2>1, <2>2, <2>3, MemoryRows DEF Live, Overdue
<1>12. CASE CleanupDelete
  <2>1. UNCHANGED <<callers, effects, unstored>> /\ purged \subseteq purged'
    BY <1>12 DEF CleanupDelete
  <2>2. \A q \in RowIds :
           \/ rows'[q] = rows[q]
           \/ rows'[q] = NoRow /\ rows[q].key \in purged'
    BY <1>12 DEF CleanupDelete
  <2> QED
    BY <2>1, <2>2, MemoryRows DEF Live
<1>13. CASE UNCHANGED vars
  BY <1>13, MemoryRows DEF vars, storage, history, Live
<1> QED
  BY <1>1, <1>2, <1>3, <1>4, <1>5, <1>6, <1>7, <1>8, <1>9, <1>10, <1>11, <1>12, <1>13
     DEF Next, Step

LEMMA MemoryInit == Init => Memory /\ Kept
  BY DEF Init, Memory, Past, Keyed, Stored, ReplayIsGenuine, Kept, Owes, Live

\* A replayed answer is the answer of a write of the same key that took place
\* and reported success, whatever the timing and the faults.
THEOREM ReplaysAreGenuine == Spec => []ReplayIsGenuine
<1>1. Typed /\ Claims /\ Memory /\ Kept /\ [Next]_vars => (Typed /\ Claims /\ Memory /\ Kept)'
  BY TypedStep, ClaimsStep, MemoryStep DEF Typed
<1>2. Memory => ReplayIsGenuine
  BY DEF Memory
<1> QED
  BY <1>1, <1>2, TypedInit, ClaimsInit, MemoryInit, PTL DEF Spec

\* Two writes of one key: one of them passed the gate without a claim, or was
\* not recorded, or the record was purged; there is no fourth way.
THEOREM SecondWritesAreExplained == Spec => []SecondWriteExplained
<1>1. ASSUME TypeOK, Claims, Memory, Kept PROVE SecondWriteExplained
  <2> SUFFICES ASSUME Prompt, NEW c \in effects, NEW d \in effects, c # d,
                      key[c] = key[d], key[c] \notin purged,
                      ~(\E e \in {c, d} : Bypassed(e) \/ Unrecorded(e))
               PROVE  FALSE
    BY DEF SecondWriteExplained
  <2>1. c \in Calls /\ d \in Calls
    BY <1>1 DEF TypeOK
  <2>2. Owes(c) /\ Owes(d)
    BY <1>1, <2>1 DEF Memory, Past, Owes, Bypassed
  <2>3. HasRow(c) /\ HasRow(d)
    BY <1>1, <2>1, <2>2 DEF Kept
  <2>4. handle[c] = handle[d] /\ handle[c] \in RowIds
    BY <1>1, <2>1, <2>2, <2>3 DEF HasRow, Memory, Keyed, Owes, TypeOK
  <2> QED
    BY <1>1, <2>1, <2>3, <2>4 DEF HasRow, Claims, OneClaimPerRow, HeldInFlight, Holds
<1>2. Typed /\ Claims /\ Memory /\ Kept /\ [Next]_vars => (Typed /\ Claims /\ Memory /\ Kept)'
  BY TypedStep, ClaimsStep, MemoryStep DEF Typed
<1> QED
  BY <1>1, <1>2, TypedInit, ClaimsInit, MemoryInit, PTL DEF Spec, Typed

\* A recorded success is taken back only by the complete() of another call,
\* which failed after the clean-up job had given its claim up; never by a retry
\* or the clean-up, and never while executions are prompt.
THEOREM SuccessesAreLostLate == Spec => SuccessLostOnlyLate
<1> DEFINE Late(r) == /\ ~Prompt /\ r \in timedOut
                      /\ \E c \in Calls : Holds(c, r) /\ ~ok[c] /\ rows[r].result # c
<1>1. ASSUME TypeOK, Claims, Timeouts, Memory, [Next]_vars, NEW r \in RowIds,
             rows[r].status = "succeeded", rows'[r].status # "succeeded", rows'[r] # NoRow
      PROVE  Late(r)
  <2>1. Live(r) /\ rows[r] \in Row
    BY <1>1 DEF Live, NoRow, TypeOK
  <2>2. ASSUME NEW c \in Calls, Claim(c) PROVE rows'[r] = rows[r]
    BY <2>1, <2>2, <1>1 DEF Claim, InsertRow, Claims, IdsOK, TypeOK
  <2>3. ASSUME NEW c \in Calls, Reclaim(c) PROVE rows'[r] = rows[r]
    BY <2>1, <2>3, <1>1 DEF Reclaim, Reclaimable, TypeOK
  <2>4. ASSUME NEW c \in Calls, Complete(c) PROVE Late(r)
    <3>1. handle[c] = r /\ Holds(c, r)
      BY <2>4, <1>1 DEF Complete, Holds, TypeOK
    <3>2. ~Prompt /\ r \in timedOut
      BY <3>1, <2>1, <1>1 DEF Claims, HeldInFlight, Timeouts, InFlightTillTimedOut
    <3>3. ~ok[c]
      BY <3>1, <2>1, <2>4, <1>1 DEF Complete, FinalStatus, TypeOK, Row
    <3>4. ok[rows[r].result]
      BY <2>1, <1>1 DEF Memory, Stored, Genuine
    <3> QED
      BY <3>1, <3>2, <3>3, <3>4
  <2>5. ASSUME NEW q \in RowIds, TimeOut(q) \/ Retire(q) PROVE rows'[r].status = "succeeded"
    BY <2>1, <2>5, <1>1 DEF TimeOut, Retire, TypeOK, Row
  <2>6. CASE CleanupMark
    BY <2>6, <1>1 DEF CleanupMark, Overdue
  <2>7. CASE CleanupDelete
    BY <2>7, <1>1 DEF CleanupDelete
  <2>8. CASE UNCHANGED rows
    BY <2>8, <1>1
  <2> QED
    BY <2>2, <2>3, <2>4, <2>5, <2>6, <2>7, <2>8, <1>1
       DEF Next, Step, Enter, RedisPrefilter, FindRow, Execute, Crash, RedisExpire,
           vars, storage
<1>2. Typed /\ Claims /\ Timeouts /\ Memory /\ [Next]_vars =>
        [\A r \in RowIds :
           rows[r].status = "succeeded" /\ rows'[r].status # "succeeded" /\ rows'[r] # NoRow =>
               /\ ~Prompt /\ r \in timedOut
               /\ \E c \in Calls : Holds(c, r) /\ ~ok[c] /\ rows[r].result # c]_vars
  BY <1>1 DEF Typed
<1>3. Init => Timeouts
  BY DEF Init, Timeouts, InFlightTillTimedOut, DoubleClaimNeedsTimeOut, Holds
<1>4. /\ Typed /\ Claims /\ Timeouts /\ Memory /\ Kept /\ [Next]_vars
      => (Typed /\ Claims /\ Timeouts /\ Memory /\ Kept)'
  BY TypedStep, ClaimsStep, TimeoutsStep, MemoryStep DEF Typed, Claims
<1> QED
  BY <1>2, <1>3, <1>4, TypedInit, ClaimsInit, MemoryInit, PTL DEF Spec, SuccessLostOnlyLate
=============================================================================
